CONSTANTS
    Tasks = {k1}
    Threads = {c1, c2}
    Capabilities = {"echo", "deploy"}
    RequireApproval = {"deploy"}
    RetryBudgets = {0, 1}
    EnableEscalation = TRUE
    EscalationThreshold = 2
    EscalateAfter = 0
    QueueSize = 1
    EntryPoints <- AllEntryPoints
    PeerEngine = TRUE
    ExclusiveCallers = FALSE
    Faults <- AllFaults
    MaxCalls = 2
    NoTask = NoTask
SPECIFICATION Spec
SYMMETRY ThreadSymmetry
INVARIANT ClearedBeforeExecution
INVARIANT AttemptBudget
CHECK_DEADLOCK FALSE
