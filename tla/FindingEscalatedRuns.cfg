CONSTANTS
    Tasks = {k1}
    Threads = {c1, c2}
    Capabilities = {"echo"}
    RequireApproval = {}
    RetryBudgets = {1}
    EnableEscalation = TRUE
    EscalationThreshold = 2
    EscalateAfter = 0
    QueueSize = 1
    EntryPoints <- AllEntryPoints
    PeerEngine = FALSE
    ExclusiveCallers = FALSE
    Faults = {}
    MaxCalls = 3
    NoTask = NoTask
SPECIFICATION Spec
PROPERTY EscalatedNeverRunsAgain
CHECK_DEADLOCK FALSE
