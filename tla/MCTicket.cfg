SPECIFICATION CellsSpec
CONSTANTS
    U8 = 5
    TICKET_CAPACITY = 2
    MaxRestarts = 6
    MaxGranted = 6
    LEASE_CAPACITY = 2
    Rights <- MCRights
    MaxRuns = 1
    MaxGenerations = 3
    MaxIssued = 4
INVARIANTS
    TicketTruth
    NoTicketLost
    LeaseTruth
