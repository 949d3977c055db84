SPECIFICATION Spec
CONSTANTS
    U8 = 256
    TIMER_CAPACITY = 2
    TASK_CAPACITY = 2
    MAILBOX_CAPACITY = 1
    CONNECTION_CAPACITY = 2
    LEASE_CAPACITY = 2
    OBJECT_STORE_CAPACITY = 2
    UPDATE_ARTIFACT_CAPACITY = 2
    TICKET_CAPACITY = 1
    Messages <- DurableMessages
    UserTimers <- OtherTimers
    UserTasks = {}
    UserEnds = {}
    Slots = {}
    Ingress = {}
    Budgets = {}
    Names = {7}
    Values = {1}
    Artifacts = {1}
    Manifests <- UpdateManifests
    LeaseKinds = {65, 67, 87}
    LaneBytes = {}
    Restarts = {"workflow", "object_store", "update_store", "workset"}
    Faults = {"kept", "written"}
    MaxWorkflows = 1
    MaxRestarts = 1
    MaxTasks = 0
    MaxVersion = 2
    MaxLeases = 1
PROPERTIES ImplementsContract ObjectsMoveOn AppliedIsDurable
