CONSTANTS
    Tasks = {k1, k2}
    Threads = {c1, c2}
    Capabilities = {"echo", "deploy"}
    RequireApproval = {"deploy"}
    RetryBudgets <- EdgeBudgets
    EnableEscalation = TRUE
    EscalationThreshold = 2
    EscalateAfter = 0
    QueueSize = 1
    EntryPoints <- AllEntryPoints
    PeerEngine = FALSE
    ExclusiveCallers = TRUE
    Faults = {"validate", "crash"}
    MaxCalls = 4
    NoTask = NoTask
SPECIFICATION Spec
SYMMETRY TaskAndThreadSymmetry
INVARIANT FailuresAreDurable
INVARIANT ExecutionsWithinBudget
PROPERTY RefinesLifecycle
CHECK_DEADLOCK FALSE
