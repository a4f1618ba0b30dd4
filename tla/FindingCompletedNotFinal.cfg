CONSTANTS
    Tasks = {k1}
    Threads = {c1}
    Capabilities = {"echo", "deploy"}
    RequireApproval = {"deploy"}
    RetryBudgets = {0, 1}
    EnableEscalation = TRUE
    EscalationThreshold = 2
    EscalateAfter = 0
    QueueSize = 1
    EntryPoints <- AllEntryPoints
    PeerEngine = FALSE
    ExclusiveCallers = TRUE
    Faults = {"guild"}
    MaxCalls = 2
    NoTask = NoTask
SPECIFICATION Spec
PROPERTY CompletedIsFinal
CHECK_DEADLOCK FALSE
