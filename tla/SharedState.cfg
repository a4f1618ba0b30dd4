CONSTANTS
    Threads = {t1, t2, t3}
    TaskIds = {k1, k2, k3, k4}
    MaxSize = 1
    NoTask = NoTask
    Clients = {c1, c2}
    Shells = {c2}
    RequestIds = {1, 2}
    Configs <- MCConfigs
    Leftovers <- MCLeftovers
    QueueSize = 1
    MaxRequests = 3
    MaxLookups = 2
    Callers = {c1}
    ApiKeys = {a1, a2}
    Commands = {w1, w2}
    NoKey = NoKey
    MaxWrites = 4
    Machines = {m1, m2}
    Gpu = {m1}
    NoNode = NoNode
    MaxIds = 2
    MaxTries = 2
    Publishers = {p1, p2}
    Keys = {f1, f2}
    Publications <- MCPublications
    MaxRecords = 1
    MaxCalls = 3
    MaxFaults = 1
SPECIFICATION MCSpec
INVARIANT FirstInFirstOut
INVARIANT OvershootBounded
INVARIANT AnswersTellEffects
INVARIANT GatedRunsApproved
INVARIANT LookupReflectsFile
INVARIANT RoutedOnce
INVARIANT OutcomesCounted
INVARIANT LimitWhenQuiet
 
CHECK_DEADLOCK FALSE
