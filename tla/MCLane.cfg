SPECIFICATION LaneSpec
CONSTANTS
    LOG_BUFFER_CAPACITY = 2
    KV_CAPACITY = 1
    QUEUE_CAPACITY = 2
    ECHO_CAPACITY = 2
    FILE_CAPACITY = 1
    GRANT_CAPACITY = 2
    Pids <- MCPids
    Granted <- MCGranted
    Messages <- MCMessages
    TransferPayloads <- MCTransfers
    Restarts <- MCRestarts
    MaxGrants = 3
    MaxRestarts = 2
    MaxPushes = 3
    MaxWrites = 3
INVARIANT GrantTruth
INVARIANT PairFromGrants
INVARIANT QueueInOrder
INVARIANT AuditTruth
INVARIANT LedgerAddsUp
