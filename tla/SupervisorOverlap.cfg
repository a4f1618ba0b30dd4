CONSTANTS
    Tasks = {k1}
    Threads = {c1, c2}
    Capabilities = {"echo", "deploy"}
    RequireApproval = {"deploy"}
    RetryBudgets = {0, 1}
    EnableEscalation = TRUE
    EscalationThreshold = 2
    EscalateAfter = 2
    QueueSize = 1
    EntryPoints <- AllEntryPoints
    PeerEngine = FALSE
    ExclusiveCallers = FALSE
    Faults = {"validate"}
    MaxCalls = 4
    NoTask = NoTask
SPECIFICATION Spec
SYMMETRY ThreadSymmetry
INVARIANT RunningHasRunner
INVARIANT AuditTrailIsWalk
CHECK_DEADLOCK FALSE
