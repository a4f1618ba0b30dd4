CONSTANTS
    Kinds <- CronAndWebhook
    CronSlots <- DueSlots
    Payloads = {p1, p2, p3}
    BadPayloads = {p3}
    SinkFails = TRUE
    MayStop = TRUE
    CycleTicks = 1
    CycleLimits = {0, 2}
    BaseInterval = 1
    MaxInterval = 2
    Multiplier = 2
    JitterRatio = 1
    SlotLength = 6
    IdleCap = 3
    MaxTime = 18
    Groups = {"g", "h"}
    NoGroup = NoGroup
    MaxSteps = 3
    MayRaise = TRUE
    FieldSpecs <- MCFieldSpecs
    Times <- MCTimes
SPECIFICATION MCSpec
INVARIANT CronOncePerSlot
INVARIANT DeliveryInOrder
INVARIANT MatchesAsDocumented
INVARIANT BatchBarrier
INVARIANT ResultsInPlanOrder
 
PROPERTY AcceptedIsHandled
PROPERTY StopEndsLoop
PROPERTY WorkflowsEnd
CHECK_DEADLOCK FALSE
