SPECIFICATION FairSpec
CONSTANTS
    U8 = 256
    TIMER_CAPACITY = 2
    TASK_CAPACITY = 2
    MAILBOX_CAPACITY = 1
    CONNECTION_CAPACITY = 2
    LEASE_CAPACITY = 2
    OBJECT_STORE_CAPACITY = 2
    UPDATE_ARTIFACT_CAPACITY = 2
    TICKET_CAPACITY = 1
    Messages <- WorkflowMessages
    UserTimers = {}
    UserTasks = {4}
    UserEnds = {1}
    Slots = {}
    Ingress = {}
    Budgets = {}
    Names = {}
    Values = {}
    Artifacts = {}
    Manifests = {}
    LeaseKinds = {}
    LaneBytes <- LaneBBytes
    Restarts = {"workflow", "task", "completion", "workset"}
    Faults = {}
    MaxWorkflows = 2
    MaxRestarts = 2
    MaxTasks = 1
    MaxVersion = 0
    MaxLeases = 0
PROPERTIES ImplementsContract CancelOnlyWhenAsked ResumedOnlyIfCurrent EveryWorkflowEnds
