SPECIFICATION Spec
CONSTANTS
    U8 = 256
    TIMER_CAPACITY = 2
    TASK_CAPACITY = 2
    MAILBOX_CAPACITY = 1
    CONNECTION_CAPACITY = 2
    LEASE_CAPACITY = 2
    OBJECT_STORE_CAPACITY = 2
    UPDATE_ARTIFACT_CAPACITY = 2
    TICKET_CAPACITY = 2
    Messages <- ConnectionMessages
    UserTimers = {}
    UserTasks = {}
    UserEnds = {}
    Slots = {0}
    Ingress = {5, 129}
    Budgets = {2}
    Names = {}
    Values = {}
    Artifacts = {}
    Manifests = {}
    LeaseKinds = {84}
    LaneBytes = {}
    Restarts = {"connection", "completion", "task", "ticket", "lease"}
    Faults = {}
    MaxWorkflows = 2
    MaxRestarts = 1
    MaxTasks = 0
    MaxVersion = 0
    MaxLeases = 1
PROPERTIES ImplementsContract SlotHeldUntilReported TicketSpentIffReported
