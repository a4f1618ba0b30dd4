-------------------------- MODULE TriggerScheduler --------------------------
(***************************************************************************)
(* engine/runtime/scheduler.py: cron and webhook adapters, the polling     *)
(* TriggerSchedulerService and its TriggerSchedulerLoopRunner.             *)
(*                                                                         *)
(* One thread runs the loop.  Webhook requests append to an adapter's      *)
(* deque from the event loop at any moment, also while the loop is         *)
(* draining that deque.  Time is in ticks; a cron minute is SlotLength     *)
(* ticks long.  A dispatch is <<adapter index, minute or payload>>.        *)
(***************************************************************************)
EXTENDS Integers, SequencesExt

CONSTANTS
    Kinds,         \* Seq: kind of each adapter, in polling order
    CronSlots,     \* Seq: the minutes that match each cron adapter's schedule
    Payloads,      \* webhook payloads, each delivered at most once
    BadPayloads,   \* those on which the adapter's mapper raises
    SinkFails,     \* TRUE: sink.submit may raise (QueueFull, invalid input)
    MayStop,       \* TRUE: there is a stop signal
    CycleTicks,    \* ticks a polling cycle may take at most
    CycleLimits,   \* the values run() is given for max_cycles; 0 is None
    BaseInterval,  \* base_poll_interval_seconds
    MaxInterval,   \* max_poll_interval_seconds
    Multiplier,    \* backoff_multiplier
    JitterRatio,   \* jitter_ratio
    SlotLength,    \* ticks in a minute
    IdleCap,       \* bound: idle cycles counted; the backoff has reached its maximum
    MaxTime        \* bound: the clock stands still there

Adapters == 1..Len(Kinds)

ASSUME SchedulerConstants ==
    /\ Kinds \in Seq({"cron", "webhook"})
    /\ Len(CronSlots) = Len(Kinds)
    /\ \A a \in Adapters : CronSlots[a] \subseteq Nat
    /\ BadPayloads \subseteq Payloads
    /\ {SinkFails, MayStop} \subseteq BOOLEAN
    /\ CycleLimits \cup {JitterRatio, CycleTicks, MaxTime} \subseteq Nat
    /\ {SlotLength, IdleCap, BaseInterval, MaxInterval, Multiplier} \subseteq Nat \ {0}
    /\ MaxInterval >= BaseInterval
    /\ \A n \in 0..IdleCap : Multiplier^n \in Nat \ {0}
    /\ Multiplier = 1 \/ BaseInterval * Multiplier^(IdleCap - 1) >= MaxInterval

VARIABLES
    max_cycles,   \* the argument of run()
    clock,        \* ticks since the start
    stop,         \* stop_signal.is_set()
    pending,      \* [Adapters -> Seq(Payloads)], _pending_payloads
    accepted,     \* [Adapters -> Seq(Payloads)], deliveries answered 202 (history)
    lastSlot,     \* [Adapters -> minute], _last_emitted_slot; -1 is None
    pc,           \* the loop's next step
    cur,          \* the adapter being polled
    dispatches,   \* those of the adapter being polled still to be submitted
    submitted,    \* all dispatches the sink took (history)
    busy,         \* run_once has submitted something in this cycle
    cycles,       \* cycles_completed, counted up to max_cycles
    idle,         \* consecutive_idle_cycles, counted up to IdleCap
    remaining,    \* ticks left to sleep, or that the cycle may still take
    lost          \* dispatches dropped by a failing poll or submission (history)

vars == <<max_cycles, clock, stop, pending, accepted, lastSlot, pc, cur, dispatches, submitted,
          busy, cycles, idle, remaining, lost>>

loopVars == <<pc, cur, dispatches, submitted, busy, cycles, idle, remaining, lost>>

Webhooks == {a \in Adapters : Kinds[a] = "webhook"}
Crons == Adapters \ Webhooks

SlotKey(t) == t \div SlotLength

Init ==
    /\ max_cycles \in CycleLimits
    /\ clock = 0
    /\ stop = FALSE
    /\ pending = [a \in Adapters |-> << >>]
    /\ accepted = [a \in Adapters |-> << >>]
    /\ lastSlot = [a \in Adapters |-> -1]
    /\ pc = "check"
    /\ cur = 1
    /\ dispatches = << >>
    /\ submitted = << >>
    /\ busy = FALSE
    /\ cycles = 0
    /\ idle = 0
    /\ remaining = 0
    /\ lost = {}

-----------------------------------------------------------------------------
(* The environment *)

Delivered == UNION {{accepted[a][i] : i \in 1..Len(accepted[a])} : a \in Adapters}

(* WebhookIngressService.ingest and enqueue_payload. *)
EnqueuePayload(a, p) ==
    /\ a \in Webhooks
    /\ pending' = [pending EXCEPT ![a] = Append(@, p)]

(* POST /v1/triggers/{name}, answered 202, whether or not the loop still    *)
(* runs.                                                                    *)
Ingest(a, p) ==
    /\ p \notin Delivered
    /\ EnqueuePayload(a, p)
    /\ accepted' = [accepted EXCEPT ![a] = Append(@, p)]
    /\ UNCHANGED <<max_cycles, clock, stop, lastSlot, loopVars>>

SetStop ==
    /\ MayStop
    /\ ~stop
    /\ stop' = TRUE
    /\ UNCHANGED <<max_cycles, clock, pending, accepted, lastSlot, loopVars>>

(* Time passes while the loop sleeps, and a little while it polls. *)
Tick ==
    /\ remaining > 0
    /\ pc \in {"poll", "submit", "end", "sleep"}
    /\ clock' = IF clock < MaxTime THEN clock + 1 ELSE clock
    /\ remaining' = remaining - 1
    /\ UNCHANGED <<max_cycles, stop, pending, accepted, lastSlot, pc, cur, dispatches, submitted,
                   busy, cycles, idle, lost>>

-----------------------------------------------------------------------------
(* The loop *)

(* Mutation: only max_cycles ends the loop. *)
ShouldEndCyclesOnly(n) == max_cycles > 0 /\ n >= max_cycles

(* Both checks of run(): _should_stop() and max_cycles. *)
ShouldEnd(n) == stop \/ (max_cycles > 0 /\ n >= max_cycles)

(* Top of the while loop, and the start of run_once. *)
BeginCycle ==
    /\ pc = "check"
    /\ pc' = IF ShouldEnd(cycles) THEN "stopped" ELSE IF Adapters = {} THEN "end" ELSE "poll"
    /\ cur' = 1
    /\ busy' = FALSE
    /\ remaining' = CycleTicks
    /\ UNCHANGED <<max_cycles, clock, stop, pending, accepted, lastSlot, dispatches, submitted,
                   cycles, idle, lost>>

AfterAdapter == IF cur < Len(Kinds) THEN "poll" ELSE "end"

NextAdapter ==
    /\ cur' = IF cur < Len(Kinds) THEN cur + 1 ELSE cur
    /\ pc' = AfterAdapter

PollCron ==
    /\ pc = "poll"
    /\ cur \in Crons
    /\ IF SlotKey(clock) \in CronSlots[cur] /\ SlotKey(clock) # lastSlot[cur]
       THEN /\ lastSlot' = [lastSlot EXCEPT ![cur] = SlotKey(clock)]
            /\ dispatches' = << <<cur, SlotKey(clock)>> >>
            /\ pc' = "submit"
            /\ UNCHANGED cur
       ELSE NextAdapter /\ UNCHANGED <<lastSlot, dispatches>>
    /\ UNCHANGED <<max_cycles, clock, stop, pending, accepted, submitted, busy, cycles, idle, remaining, lost>>

(* Mutation: pop() instead of popleft(). *)
PopPayloadFromRight ==
    /\ pc = "poll"
    /\ cur \in Webhooks
    /\ pending[cur] # << >>
    /\ pending' = [pending EXCEPT ![cur] = SubSeq(@, 1, Len(@) - 1)]
    /\ dispatches' = Append(dispatches, <<cur, pending[cur][Len(pending[cur])]>>)
    /\ UNCHANGED <<max_cycles, clock, stop, accepted, lastSlot, pc, cur, submitted, busy, cycles, idle, remaining, lost>>

(* WebhookTriggerAdapter.poll, one turn of its loop.  When the mapper       *)
(* raises, run_once notes the issue and goes on to the next adapter: the    *)
(* payload, and those popped before it in this poll, are dropped.           *)
PopPayload ==
    /\ pc = "poll"
    /\ cur \in Webhooks
    /\ pending[cur] # << >>
    /\ pending' = [pending EXCEPT ![cur] = Tail(@)]
    /\ IF Head(pending[cur]) \in BadPayloads
       THEN /\ dispatches' = << >>
            /\ lost' = lost \cup Range(dispatches) \cup {<<cur, Head(pending[cur])>>}
            /\ NextAdapter
       ELSE /\ dispatches' = Append(dispatches, <<cur, Head(pending[cur])>>)
            /\ UNCHANGED <<pc, cur, lost>>
    /\ UNCHANGED <<max_cycles, clock, stop, accepted, lastSlot, submitted, busy, cycles, idle, remaining>>

PollDone ==
    /\ pc = "poll"
    /\ cur \in Webhooks
    /\ pending[cur] = << >>
    /\ pc' = "submit"
    /\ UNCHANGED <<max_cycles, clock, stop, pending, accepted, lastSlot, cur, dispatches, submitted,
                   busy, cycles, idle, remaining, lost>>

Submit ==
    /\ pc = "submit"
    /\ dispatches # << >>
    /\ submitted' = Append(submitted, Head(dispatches))
    /\ dispatches' = Tail(dispatches)
    /\ busy' = TRUE
    /\ UNCHANGED <<max_cycles, clock, stop, pending, accepted, lastSlot, pc, cur, cycles, idle, remaining, lost>>

(* sink.submit raises: nothing in run_once or run catches it. *)
SubmitRaises ==
    /\ SinkFails
    /\ pc = "submit"
    /\ dispatches # << >>
    /\ dispatches' = << >>
    /\ lost' = lost \cup Range(dispatches)
    /\ pc' = "died"
    /\ UNCHANGED <<max_cycles, clock, stop, pending, accepted, lastSlot, cur, submitted, busy, cycles,
                   idle, remaining>>

SubmitDone ==
    /\ pc = "submit"
    /\ dispatches = << >>
    /\ NextAdapter
    /\ UNCHANGED <<max_cycles, clock, stop, pending, accepted, lastSlot, dispatches, submitted, busy,
                   cycles, idle, remaining, lost>>

(* Mutation: no min() with max_poll_interval_seconds. *)
ComputeIntervalUncapped(n) ==
    IF n <= 0 THEN BaseInterval ELSE BaseInterval * Multiplier^(n - 1)

ComputeInterval(n) ==
    LET backoff == BaseInterval * Multiplier^(n - 1)
    IN  IF n <= 0 THEN BaseInterval
        ELSE IF backoff < MaxInterval THEN backoff ELSE MaxInterval

(* interval * jitter_ratio * random(), with random() in [0, 1). *)
Jitter(interval) ==
    IF JitterRatio > 0 THEN 0..(interval * JitterRatio - 1) ELSE {0}

IdleAfter == IF busy THEN 0 ELSE IF idle < IdleCap THEN idle + 1 ELSE idle

CyclesAfter == IF cycles < max_cycles THEN cycles + 1 ELSE cycles

(* The rest of the while body: the counters, the second check, the sleep. *)
EndCycle ==
    /\ pc = "end"
    /\ cycles' = CyclesAfter
    /\ idle' = IdleAfter
    /\ IF ShouldEnd(CyclesAfter)
       THEN pc' = "stopped" /\ UNCHANGED remaining
       ELSE /\ pc' = "sleep"
            /\ \E j \in Jitter(ComputeInterval(IdleAfter)) :
                 remaining' = ComputeInterval(IdleAfter) + j
    /\ UNCHANGED <<max_cycles, clock, stop, pending, accepted, lastSlot, cur, dispatches, submitted, busy,
                   lost>>

(* Mutation: the loop sleeps again without polling. *)
WakeToSleep ==
    /\ pc = "sleep"
    /\ remaining = 0
    /\ remaining' = MaxInterval
    /\ UNCHANGED <<max_cycles, clock, stop, pending, accepted, lastSlot, pc, cur, dispatches, submitted,
                   busy, cycles, idle, lost>>

Wake ==
    /\ pc = "sleep"
    /\ remaining = 0
    /\ pc' = "check"
    /\ UNCHANGED <<max_cycles, clock, stop, pending, accepted, lastSlot, cur, dispatches, submitted,
                   busy, cycles, idle, remaining, lost>>

Loop ==
    \/ BeginCycle \/ PollCron \/ PopPayload \/ PollDone
    \/ Submit \/ SubmitRaises \/ SubmitDone \/ EndCycle \/ Wake

Next ==
    \/ \E a \in Adapters, p \in Payloads : Ingest(a, p)
    \/ SetStop
    \/ Tick
    \/ Loop

Spec == Init /\ [][Next]_vars

(* The loop's thread is scheduled, sleeps end and submissions return. *)
FairSpec == Spec /\ WF_vars(Loop) /\ WF_vars(Tick)

-----------------------------------------------------------------------------
Ended == pc \in {"stopped", "died"}

Count(x, s) == Cardinality({i \in 1..Len(s) : s[i] = x})

(* A cron adapter submits at most one task for a minute, however often the  *)
(* loop polls it in that minute and however slow a cycle is; and no         *)
(* matching minute passes unnoticed while the loop runs: even the idle      *)
(* backoff at its maximum, with jitter and slow cycles on both sides of the *)
(* sleep, polls again within the minute.                                    *)
CronOncePerSlot ==
    \A a \in Crons : \A s \in CronSlots[a] :
        LET fired == Count(<<a, s>>, submitted \o dispatches)
        IN  /\ fired <= 1
            /\ /\ MaxInterval * (1 + JitterRatio) + 2 * CycleTicks <= SlotLength
               /\ s < SlotKey(clock) /\ ~Ended
               => fired = 1

(* What the sink took, what is being dispatched, and what a still holds. *)
Line(a) == submitted \o dispatches \o [i \in 1..Len(pending[a]) |-> <<a, pending[a][i]>>]

(* a accepted p, and q after it. *)
Older(a, p, q) ==
    \E i, j \in 1..Len(accepted[a]) : i < j /\ accepted[a][i] = p /\ accepted[a][j] = q

(* Nothing is duplicated or reordered, and nothing vanishes but what a      *)
(* failing poll or submission drops: what was submitted, what is being      *)
(* dispatched and what is still pending are, in that order, the payloads    *)
(* the adapter accepted, although deliveries and the draining poll          *)
(* interleave freely.                                                       *)
DeliveryInOrder ==
    \A a \in Webhooks :
        /\ \A i \in 1..Len(accepted[a]) :
               <<a, accepted[a][i]>> \in lost \/ Contains(Line(a), <<a, accepted[a][i]>>)
        /\ \A k \in 1..Len(Line(a)) :
               Line(a)[k][1] = a => Line(a)[k] \notin lost /\ Contains(accepted[a], Line(a)[k][2])
        /\ \A k, l \in 1..Len(Line(a)) :
               k < l /\ Line(a)[k][1] = a /\ Line(a)[l][1] = a
                   => Older(a, Line(a)[k][2], Line(a)[l][2])

(* POST /v1/triggers answers 202 "queued for the next scheduler cycle": an  *)
(* accepted payload does not wait for ever.  It is submitted, or dropped by *)
(* a failing poll or submission, unless the loop ends first.                *)
AcceptedIsHandled ==
    \A a \in Webhooks, p \in Payloads :
        Contains(accepted[a], p)
            ~> (Count(<<a, p>>, submitted) > 0 \/ <<a, p>> \in lost \/ Ended)

(* The loop runner shuts down after the stop signal is set, wherever it is. *)
StopEndsLoop == stop ~> Ended
=============================================================================
