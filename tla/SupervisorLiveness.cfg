CONSTANTS
    Tasks = {k1, k2}
    Threads = {c1, c2}
    Capabilities = {"echo", "deploy"}
    RequireApproval = {"deploy"}
    RetryBudgets = {0, 2}
    EnableEscalation = TRUE
    EscalationThreshold = 2
    EscalateAfter = 2
    QueueSize = 2
    EntryPoints <- AllEntryPoints
    PeerEngine = FALSE
    ExclusiveCallers = TRUE
    Faults = {}
    MaxCalls = 3
    NoTask = NoTask
SPECIFICATION FairSpec
INVARIANT EventsMirrorTrail
PROPERTY CallsReturn
PROPERTY StartedTasksEnd
CHECK_DEADLOCK FALSE
