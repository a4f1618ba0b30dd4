CONSTANTS
    Emitters = {e1}
    Shutdown = Shutdown
    Subscribers = {s1, s2}
    MaxEvents = 2
    Wanted <- TypeFilters
    Picky = s2
    Runners = {r1, r2}
    Risky = r2
    NoRunner = NoRunner
    Setups <- MCSetups
    CapOf <- MCCapOf
    RiskOf <- MCRiskOf
    NoLevel = NoLevel
    NoThreshold = NoThreshold
    MaxTime = 1
SPECIFICATION MCSpec
INVARIANT StreamInOrder
PROPERTY WindowsApart
INVARIANT OnlySoftTimeoutsLeaveWork
INVARIANT StartedOnClearance
PROPERTY EventsReachClients
PROPERTY ShutdownEndsStreams
PROPERTY TasksEnd
CHECK_DEADLOCK FALSE
