----------------------- MODULE TriggerSchedulerProofs -----------------------
(***************************************************************************)
(* Proofs about TriggerScheduler, for any adapters, schedules, payloads,   *)
(* intervals and any clock.  Three invariants build on each other: what    *)
(* the loop holds at each of its steps, the order of webhook payloads on   *)
(* their way to the sink, and the cron minutes that have been served.  The *)
(* last part is about CronSchedule: what the fields of any expression say  *)
(* of any time.                                                            *)
(***************************************************************************)
EXTENDS TriggerScheduler, CronSchedule, SequenceTheorems, FiniteSetTheorems,
        WellFoundedInduction, TLAPS

Items == Adapters \X (Nat \cup Payloads)

(* The longest sleep. *)
Sleep == MaxInterval * (1 + JitterRatio)

(* The values the variables take. *)
LoopTypeOK ==
    /\ clock \in Nat
    /\ pending \in [Adapters -> Seq(Payloads)]
    /\ accepted \in [Adapters -> Seq(Payloads)]
    /\ lastSlot \in [Adapters -> Int]
    /\ pc \in {"check", "poll", "submit", "end", "sleep", "stopped", "died"}
    /\ cur \in Nat
    /\ dispatches \in Seq(Items)
    /\ submitted \in Seq(Items)
    /\ idle \in Nat /\ idle <= IdleCap
    /\ remaining \in Nat

(* What the loop holds belongs to the adapter it is polling, and the time   *)
(* a cycle or a sleep may still take is bounded.                            *)
Dispatching ==
    /\ pc \in {"poll", "submit"} => cur \in Adapters
    /\ \A k \in 1..Len(dispatches) : dispatches[k][1] = cur
    /\ pc \notin {"poll", "submit"} => dispatches = << >>
    /\ pc = "poll" /\ cur \in Crons => dispatches = << >>
    /\ cur \in Crons => Len(dispatches) <= 1
    /\ pc = "check" => remaining = 0
    /\ pc \in {"poll", "submit", "end"} => remaining <= CycleTicks
    /\ pc = "sleep" => remaining <= Sleep

LoopInv == LoopTypeOK /\ Dispatching

-----------------------------------------------------------------------------
(* The interval with its jitter is at most the longest sleep. *)
LEMMA SleepBounded ==
    ASSUME NEW n \in Nat, n <= IdleCap, NEW j \in Jitter(ComputeInterval(n))
    PROVE  ComputeInterval(n) + j \in Nat /\ ComputeInterval(n) + j <= Sleep
  <1>0. /\ BaseInterval \in Nat /\ MaxInterval \in Nat /\ MaxInterval >= BaseInterval
        /\ JitterRatio \in Nat /\ IdleCap \in Nat
    BY SchedulerConstants
  <1>1. n > 0 => BaseInterval * Multiplier^(n - 1) \in Nat
    <2>1. n > 0 => n - 1 \in 0..IdleCap
      BY <1>0
    <2>2. n > 0 => Multiplier^(n - 1) \in Nat
      BY <2>1, SchedulerConstants
    <2> QED  BY <1>0, <2>2
  <1>2. ComputeInterval(n) \in Nat /\ ComputeInterval(n) <= MaxInterval
    BY <1>0, <1>1 DEF ComputeInterval
  <1>3. PICK i \in Nat : i = ComputeInterval(n) /\ i <= MaxInterval
    BY <1>2
  <1>4. i * JitterRatio \in Nat /\ i * JitterRatio <= MaxInterval * JitterRatio
    BY <1>0, <1>3
  <1>5. j \in Nat /\ j <= i * JitterRatio
    BY <1>0, <1>3, <1>4 DEF Jitter
  <1>6. Sleep = MaxInterval + MaxInterval * JitterRatio /\ MaxInterval * JitterRatio \in Nat
    BY <1>0 DEF Sleep
  <1>7. i + j <= MaxInterval + MaxInterval * JitterRatio /\ i + j \in Nat
    BY <1>0, <1>3, <1>4, <1>5, <1>6
  <1> QED  BY <1>3, <1>6, <1>7

(* Adapters by kind. *)
LEMMA AdapterKinds ==
    /\ Len(Kinds) \in Nat
    /\ \A a \in Adapters : a \in Nat /\ 1 <= a /\ a <= Len(Kinds)
    /\ \A a \in Adapters : a \in Crons \/ a \in Webhooks
    /\ \A a \in Crons : a \in Adapters /\ a \notin Webhooks
    /\ \A a \in Webhooks : a \in Adapters
  BY SchedulerConstants DEF Adapters, Crons, Webhooks

(* The minute of a tick. *)
LEMMA SlotOfTick ==
    ASSUME NEW t \in Nat
    PROVE  /\ SlotKey(t) \in Nat /\ SlotLength \in Nat /\ SlotLength > 0
           /\ SlotKey(t) * SlotLength <= t /\ t < SlotKey(t) * SlotLength + SlotLength
  <1>1. SlotLength \in Nat /\ SlotLength > 0
    BY SchedulerConstants
  <1>2. PICK n \in Nat : n = SlotLength /\ n > 0
    BY <1>1
  <1>3. t \div n \in Nat /\ n * (t \div n) <= t /\ t < n * (t \div n) + n
    BY <1>2
  <1>4. SlotKey(t) = t \div n
    BY <1>2 DEF SlotKey
  <1> QED  BY <1>2, <1>3, <1>4

(* From one tick to the next the minute stays or its successor begins. *)
LEMMA SlotOfNextTick ==
    ASSUME NEW t \in Nat
    PROVE  \/ SlotKey(t + 1) = SlotKey(t)
           \/ SlotKey(t + 1) = SlotKey(t) + 1 /\ t + 1 = SlotKey(t) * SlotLength + SlotLength
  <1>1. PICK k \in Nat, m \in Nat, n \in Nat :
            /\ k = SlotKey(t) /\ m = SlotKey(t + 1) /\ n = SlotLength /\ n > 0
            /\ k * n <= t /\ t < k * n + n
            /\ m * n <= t + 1 /\ t + 1 < m * n + n
    <2>1. t + 1 \in Nat
      OBVIOUS
    <2> QED  BY <2>1, SlotOfTick
  <1>2. ~(m < k)
    <2> SUFFICES ASSUME m < k PROVE FALSE
      OBVIOUS
    <2>1. (m + 1) * n <= k * n /\ (m + 1) * n = m * n + n
      OBVIOUS
    <2> QED  BY <1>1, <2>1
  <1>3. ~(m > k + 1)
    <2> SUFFICES ASSUME m > k + 1 PROVE FALSE
      OBVIOUS
    <2>1. (k + 2) * n <= m * n /\ (k + 2) * n = k * n + n + n
      OBVIOUS
    <2> QED  BY <1>1, <2>1
  <1>4. CASE m = k
    BY <1>1, <1>4
  <1>5. CASE m = k + 1
    <2>1. m * n = k * n + n
      BY <1>5
    <2> QED  BY <1>1, <1>5, <2>1
  <1> QED  BY <1>2, <1>3, <1>4, <1>5

(* The loop starts with nothing in its hands. *)
LEMMA LoopInitial == Init => LoopInv
  <1> SUFFICES ASSUME Init PROVE LoopInv
    OBVIOUS
  <1>1. LoopTypeOK
    BY SchedulerConstants DEF Init, LoopTypeOK
  <1>2. Dispatching
    BY DEF Init, Dispatching
  <1> QED  BY <1>1, <1>2 DEF LoopInv


(* The loop goes on to the next adapter, or to the end of the cycle. *)
LEMMA NextAdapterStep ==
    ASSUME LoopInv, cur \in Adapters, NextAdapter, dispatches' = << >>, remaining' = remaining,
           remaining <= CycleTicks
    PROVE  cur' \in Nat /\ pc' \in {"poll", "end"} /\ Dispatching'
  <1>1. cur \in Nat /\ Len(Kinds) \in Nat /\ 1 <= cur
    BY AdapterKinds
  <1>2. cur' \in Nat /\ pc' \in {"poll", "end"} /\ (pc' = "poll" => cur' \in Adapters)
    BY <1>1 DEF NextAdapter, AfterAdapter, Adapters
  <1>3. Len(dispatches') = 0
    OBVIOUS
  <1> QED  BY <1>2, <1>3 DEF Dispatching

(* Every step keeps what the loop holds in order. *)
LEMMA LoopStep == LoopInv /\ [Next]_vars => LoopInv'
  <1> SUFFICES ASSUME LoopInv, [Next]_vars PROVE LoopInv'
    OBVIOUS
  <1>0. LoopTypeOK /\ Dispatching
    BY DEF LoopInv
  <1>1. ASSUME NEW a \in Adapters, NEW p \in Payloads, Ingest(a, p) PROVE LoopInv'
    <2>1. LoopTypeOK'
      BY <1>0, <1>1 DEF Ingest, EnqueuePayload, LoopTypeOK, loopVars
    <2>2. Dispatching'
      BY <1>0, <1>1 DEF Ingest, Dispatching, loopVars
    <2> QED  BY <2>1, <2>2 DEF LoopInv
  <1>2. CASE SetStop
    BY <1>2 DEF SetStop, LoopInv, LoopTypeOK, Dispatching, loopVars
  <1>3. CASE Tick
    <2>1. /\ remaining' \in Nat /\ remaining' <= remaining /\ clock' \in Nat
          /\ pc \in {"poll", "submit", "end", "sleep"}
      BY <1>0, <1>3 DEF Tick, LoopTypeOK
    <2>2. LoopTypeOK'
      BY <1>0, <1>3, <2>1 DEF Tick, LoopTypeOK
    <2>3. CycleTicks \in Nat /\ Sleep \in Nat /\ remaining \in Nat
      <3>1. CycleTicks \in Nat /\ MaxInterval \in Nat /\ JitterRatio \in Nat
        BY SchedulerConstants
      <3>2. Sleep \in Nat
        BY <3>1 DEF Sleep
      <3> QED  BY <1>0, <3>1, <3>2 DEF LoopTypeOK
    <2>4. Dispatching'
      BY <1>0, <1>3, <2>1, <2>3 DEF Tick, Dispatching
    <2> QED  BY <2>2, <2>4 DEF LoopInv
  <1>4. CASE BeginCycle
    <2>0. CycleTicks \in Nat
      BY SchedulerConstants
    <2>1. LoopTypeOK'
      BY <1>0, <1>4, <2>0 DEF BeginCycle, LoopTypeOK
    <2>2. dispatches = << >> /\ dispatches' = << >> /\ remaining' = CycleTicks /\ cur' = 1
      BY <1>0, <1>4 DEF BeginCycle, Dispatching
    <2>3. pc' \in {"stopped", "end", "poll"} /\ (pc' = "poll" => Adapters # {})
      BY <1>4 DEF BeginCycle
    <2>4. Adapters # {} => 1 \in Adapters
      BY AdapterKinds DEF Adapters
    <2>5. Dispatching'
      BY <2>0, <2>2, <2>3, <2>4 DEF Dispatching
    <2> QED  BY <2>1, <2>5 DEF LoopInv
  <1>5. CASE PollCron
    <2>1. /\ pc = "poll" /\ cur \in Crons /\ cur \in Adapters /\ dispatches = << >>
          /\ remaining' = remaining /\ remaining <= CycleTicks
      BY <1>0, <1>5, AdapterKinds DEF PollCron, Dispatching
    <2>2. CASE NextAdapter /\ UNCHANGED <<lastSlot, dispatches>>
      <3>1. cur' \in Nat /\ pc' \in {"poll", "end"} /\ Dispatching'
        BY <2>1, <2>2, NextAdapterStep
      <3> QED  BY <1>0, <1>5, <2>2, <3>1 DEF PollCron, LoopTypeOK, LoopInv
    <2>3. CASE /\ lastSlot' = [lastSlot EXCEPT ![cur] = SlotKey(clock)]
               /\ dispatches' = << <<cur, SlotKey(clock)>> >>
               /\ pc' = "submit" /\ UNCHANGED cur
      <3>1. SlotKey(clock) \in Nat
        BY <1>0, SlotOfTick DEF LoopTypeOK
      <3>2. PICK v \in Items : v = <<cur, SlotKey(clock)>>
        BY <2>1, <3>1 DEF Items
      <3>3. dispatches' = <<v>> /\ v[1] = cur
        BY <2>3, <3>2
      <3>4. dispatches' \in Seq(Items) /\ Len(dispatches') = 1 /\ dispatches'[1] = v
        BY <3>3
      <3>5. LoopTypeOK'
        <4>1. lastSlot' \in [Adapters -> Int]
          BY <1>0, <2>1, <2>3, <3>1 DEF LoopTypeOK
        <4> QED  BY <1>0, <1>5, <2>3, <3>4, <4>1 DEF PollCron, LoopTypeOK
      <3>6. \A k \in 1..Len(dispatches') : dispatches'[k][1] = cur
        BY <3>3, <3>4
      <3>7. Dispatching'
        BY <2>1, <2>3, <3>4, <3>6 DEF Dispatching
      <3> QED  BY <3>5, <3>7 DEF LoopInv
    <2> QED  BY <1>5, <2>2, <2>3 DEF PollCron
  <1>6. CASE PopPayload
    <2>1. /\ pc = "poll" /\ cur \in Webhooks /\ cur \in Adapters /\ pending[cur] # << >>
          /\ pending' = [pending EXCEPT ![cur] = Tail(@)]
          /\ remaining' = remaining /\ remaining <= CycleTicks
      BY <1>0, <1>6, AdapterKinds DEF PopPayload, Dispatching
    <2>2. pending[cur] \in Seq(Payloads)
      BY <1>0, <2>1 DEF LoopTypeOK
    <2>3. Tail(pending[cur]) \in Seq(Payloads) /\ Head(pending[cur]) \in Payloads
      BY <2>1, <2>2
    <2>4. pending' \in [Adapters -> Seq(Payloads)]
      BY <1>0, <2>1, <2>3 DEF LoopTypeOK
    <2>5. CASE dispatches' = << >> /\ NextAdapter
      <3>1. cur' \in Nat /\ pc' \in {"poll", "end"} /\ Dispatching'
        BY <2>1, <2>5, NextAdapterStep
      <3> QED  BY <1>0, <1>6, <2>4, <2>5, <3>1 DEF PopPayload, LoopTypeOK, LoopInv
    <2>6. CASE dispatches' = Append(dispatches, <<cur, Head(pending[cur])>>) /\ UNCHANGED <<pc, cur, lost>>
      <3>1. PICK v \in Items : v = <<cur, Head(pending[cur])>>
        BY <2>1, <2>3 DEF Items
      <3>2. dispatches' = Append(dispatches, v) /\ v[1] = cur /\ dispatches \in Seq(Items)
        BY <1>0, <2>6, <3>1 DEF LoopTypeOK
      <3>3. /\ dispatches' \in Seq(Items) /\ Len(dispatches) \in Nat
            /\ Len(dispatches') = Len(dispatches) + 1 /\ dispatches'[Len(dispatches) + 1] = v
            /\ \A k \in 1..Len(dispatches) : dispatches'[k] = dispatches[k]
        BY <3>2
      <3>4. LoopTypeOK'
        BY <1>0, <1>6, <2>4, <2>6, <3>3 DEF PopPayload, LoopTypeOK
      <3>5. \A k \in 1..Len(dispatches') : dispatches'[k][1] = cur
        <4> SUFFICES ASSUME NEW k \in 1..Len(dispatches') PROVE dispatches'[k][1] = cur
          OBVIOUS
        <4>1. k \in 1..Len(dispatches) \/ k = Len(dispatches) + 1
          BY <3>3
        <4> QED  BY <1>0, <3>2, <3>3, <4>1 DEF Dispatching
      <3>6. cur \notin Crons
        BY <2>1, AdapterKinds
      <3>7. Dispatching'
        BY <2>1, <2>6, <3>5, <3>6 DEF Dispatching
      <3> QED  BY <3>4, <3>7 DEF LoopInv
    <2> QED  BY <1>6, <2>5, <2>6 DEF PopPayload
  <1>7. CASE PollDone
    <2>1. cur \notin Crons
      BY <1>7, AdapterKinds DEF PollDone
    <2> QED  BY <1>0, <1>7, <2>1 DEF PollDone, LoopInv, LoopTypeOK, Dispatching
  <1>8. CASE Submit
    <2>1. dispatches \in Seq(Items) /\ dispatches # << >> /\ submitted \in Seq(Items)
      BY <1>0, <1>8 DEF LoopTypeOK, Submit
    <2>2. /\ Tail(dispatches) \in Seq(Items) /\ Len(Tail(dispatches)) = Len(dispatches) - 1
          /\ Head(dispatches) \in Items /\ Len(dispatches) \in Nat
          /\ \A k \in 1..(Len(dispatches) - 1) : Tail(dispatches)[k] = dispatches[k + 1]
      BY <2>1
    <2>3. LoopTypeOK'
      BY <1>0, <1>8, <2>1, <2>2 DEF Submit, LoopTypeOK
    <2>4. \A k \in 1..Len(Tail(dispatches)) : Tail(dispatches)[k][1] = cur
      BY <1>0, <2>2 DEF Dispatching
    <2>5. Dispatching'
      BY <1>0, <1>8, <2>2, <2>4 DEF Submit, Dispatching
    <2> QED  BY <2>3, <2>5 DEF LoopInv
  <1>9. CASE SubmitRaises
    <2>1. Len(dispatches') = 0 /\ dispatches' = << >>
      BY <1>9 DEF SubmitRaises
    <2> QED  BY <1>0, <1>9, <2>1 DEF SubmitRaises, LoopInv, LoopTypeOK, Dispatching
  <1>10. CASE SubmitDone
    <2>1. cur' \in Nat /\ pc' \in {"poll", "end"} /\ Dispatching'
      BY <1>0, <1>10, NextAdapterStep DEF SubmitDone, Dispatching
    <2> QED  BY <1>0, <1>10, <2>1 DEF SubmitDone, LoopTypeOK, LoopInv
  <1>11. CASE EndCycle
    <2>1. idle' = IdleAfter /\ IdleAfter \in Nat /\ IdleAfter <= IdleCap
      BY <1>0, <1>11, SchedulerConstants DEF EndCycle, IdleAfter, LoopTypeOK
    <2>2. \/ pc' = "stopped" /\ remaining' = remaining
          \/ pc' = "sleep" /\ \E j \in Jitter(ComputeInterval(IdleAfter)) :
                                 remaining' = ComputeInterval(IdleAfter) + j
      BY <1>11 DEF EndCycle
    <2>3. \/ pc' = "stopped" /\ remaining' = remaining
          \/ pc' = "sleep" /\ remaining' \in Nat /\ remaining' <= Sleep
      BY <2>1, <2>2, SleepBounded
    <2>4. LoopTypeOK'
      BY <1>0, <1>11, <2>1, <2>3 DEF EndCycle, LoopTypeOK
    <2>5. Dispatching'
      BY <1>0, <1>11, <2>3 DEF EndCycle, Dispatching
    <2> QED  BY <2>4, <2>5 DEF LoopInv
  <1>12. CASE Wake
    BY <1>0, <1>12 DEF Wake, LoopInv, LoopTypeOK, Dispatching
  <1>13. CASE UNCHANGED vars
    BY <1>0, <1>13 DEF vars, LoopInv, LoopTypeOK, Dispatching
  <1> QED  BY <1>1, <1>2, <1>3, <1>4, <1>5, <1>6, <1>7, <1>8, <1>9, <1>10, <1>11, <1>12, <1>13
           DEF Next, Loop

(* The loop always holds what its place says. *)
LEMMA LoopInvariant == Spec => []LoopInv
  BY LoopInitial, LoopStep, PTL DEF Spec


-----------------------------------------------------------------------------
(* Cron minutes *)

Fired(a, s) == Contains(submitted, <<a, s>>) \/ Contains(dispatches, <<a, s>>)

(* The sleep and the cycles around it fit into a minute. *)
Punctual == Sleep + 2 * CycleTicks <= SlotLength

(* The ticks that may pass until a is polled: the rest of this cycle, or    *)
(* that, a sleep and the next cycle.                                        *)
LeftAt(p, c, r, a) ==
    IF p = "check" THEN CycleTicks
    ELSE IF p = "sleep" THEN r + CycleTicks
    ELSE IF (p = "poll" /\ c <= a) \/ (p = "submit" /\ c < a) THEN r
    ELSE r + Sleep + CycleTicks

Left(a) == LeftAt(pc, cur, remaining, a)

(* _last_emitted_slot is the latest minute served, and was served.          *)
SlotsServed(a) ==
    /\ lastSlot[a] <= SlotKey(clock)
    /\ \A s \in Nat : Fired(a, s) => s <= lastSlot[a]
    /\ ~Ended /\ lastSlot[a] \in Nat => Fired(a, lastSlot[a])

(* Past minutes were served, and the present one will be before it ends.    *)
OnTime(a) ==
    Punctual /\ ~Ended =>
        /\ \A s \in CronSlots[a] : s < SlotKey(clock) => Fired(a, s)
        /\ SlotKey(clock) \in CronSlots[a] /\ lastSlot[a] # SlotKey(clock) =>
               clock + Left(a) < SlotKey(clock) * SlotLength + SlotLength

(* No minute is dispatched twice. *)
FiredOnce ==
    /\ \A i, j \in 1..Len(submitted) :
           submitted[i] = submitted[j] /\ submitted[i][1] \in Crons => i = j
    /\ \A i \in 1..Len(submitted), j \in 1..Len(dispatches) :
           submitted[i] = dispatches[j] => submitted[i][1] \notin Crons

CronInv == FiredOnce /\ \A a \in Crons : SlotsServed(a) /\ OnTime(a)

(* Intervals and ticks are numbers. *)
LEMMA TicksAreNumbers ==
    CycleTicks \in Nat /\ Sleep \in Nat /\ SlotLength \in Nat
  <1>1. CycleTicks \in Nat /\ MaxInterval \in Nat /\ JitterRatio \in Nat /\ SlotLength \in Nat
    BY SchedulerConstants
  <1>2. Sleep \in Nat
    BY <1>1 DEF Sleep
  <1> QED  BY <1>1, <1>2

(* The wait for an adapter is a number. *)
LEMMA LeftIsNumber ==
    ASSUME NEW p, NEW c, NEW r \in Nat, NEW a PROVE LeftAt(p, c, r, a) \in Nat
  BY TicksAreNumbers DEF LeftAt

(* The wait for a is a number, and at most two cycles and a sleep. *)
LEMMA LeftBounded ==
    ASSUME LoopInv, NEW a \in Crons, ~Ended
    PROVE  /\ Left(a) \in Nat
           /\ Left(a) <= Sleep + 2 * CycleTicks
           /\ pc # "check" => remaining <= Left(a)
  <1>1. remaining \in Nat /\ CycleTicks \in Nat /\ Sleep \in Nat
    BY TicksAreNumbers DEF LoopInv, LoopTypeOK
  <1>2. \/ pc = "check"
        \/ pc = "sleep" /\ remaining <= Sleep
        \/ pc \in {"poll", "submit", "end"} /\ remaining <= CycleTicks
    BY DEF LoopInv, LoopTypeOK, Dispatching, Ended
  <1>3. CASE pc = "check"
    BY <1>1, <1>3 DEF Left, LeftAt
  <1>4. CASE pc = "sleep" /\ remaining <= Sleep
    BY <1>1, <1>4 DEF Left, LeftAt
  <1>5. CASE pc \in {"poll", "submit", "end"} /\ remaining <= CycleTicks
    BY <1>1, <1>5 DEF Left, LeftAt
  <1> QED  BY <1>2, <1>3, <1>4, <1>5

(* At first nothing is due but the minute 0, and the first cycle serves it. *)
LEMMA CronInitial == Init => CronInv
  <1> SUFFICES ASSUME Init PROVE CronInv
    OBVIOUS
  <1>1. /\ Len(submitted) = 0 /\ Len(dispatches) = 0 /\ clock = 0 /\ pc = "check"
        /\ \A a \in Crons : lastSlot[a] = -1
    BY AdapterKinds DEF Init
  <1>2. FiredOnce
    BY <1>1 DEF FiredOnce
  <1>3. \A a \in Crons : \A s : ~Fired(a, s)
    BY <1>1 DEF Fired, Contains
  <1>4. SlotKey(0) = 0 /\ 0 * SlotLength = 0 /\ SlotLength \in Nat /\ SlotLength > 0
    <2>1. SlotLength \in Nat /\ SlotLength > 0
      BY SchedulerConstants
    <2>2. SlotKey(0) \in Nat /\ SlotKey(0) * SlotLength <= 0
      BY SlotOfTick
    <2>3. SlotKey(0) >= 1 => SlotKey(0) * SlotLength >= 1 * SlotLength
      BY <2>1, <2>2
    <2> QED  BY <2>1, <2>2, <2>3
  <1>5. ASSUME NEW a \in Crons PROVE SlotsServed(a) /\ OnTime(a)
    <2>1. SlotsServed(a)
      BY <1>1, <1>3, <1>4 DEF SlotsServed
    <2>2. CronSlots[a] \subseteq Nat
      BY AdapterKinds, SchedulerConstants
    <2>3. \A s \in CronSlots[a] : ~(s < 0)
      BY <2>2
    <2>4. Punctual => CycleTicks < SlotLength
      <3>1. CycleTicks \in Nat /\ Sleep \in Nat /\ Sleep > 0
        <4>1. MaxInterval \in Nat /\ MaxInterval > 0 /\ JitterRatio \in Nat
          BY SchedulerConstants
        <4>2. MaxInterval * JitterRatio \in Nat /\ Sleep = MaxInterval + MaxInterval * JitterRatio
          BY <4>1 DEF Sleep
        <4> QED  BY <4>1, <4>2, TicksAreNumbers
      <3> QED  BY <1>4, <3>1 DEF Punctual
    <2>5. Punctual => clock + Left(a) < SlotKey(clock) * SlotLength + SlotLength
      <3>1. CycleTicks \in Nat
        BY TicksAreNumbers
      <3> QED  BY <1>1, <1>4, <2>4, <3>1 DEF Left, LeftAt
    <2> QED  BY <1>1, <1>4, <2>1, <2>3, <2>5 DEF OnTime
  <1> QED  BY <1>2, <1>5 DEF CronInv

(* A step that leaves the clock alone keeps what the invariant says of a,   *)
(* if it serves the same minutes and does not put a's turn off.             *)
LEMMA SameForCron ==
    ASSUME LoopInv, LoopInv', NEW a \in Crons, SlotsServed(a), OnTime(a),
           clock' = clock, lastSlot'[a] = lastSlot[a], ~Ended,
           \A s \in Nat : Fired(a, s)' => Fired(a, s),
           Ended' \/ \A s \in Nat : Fired(a, s) => Fired(a, s)',
           \/ Ended'
           \/ Left(a)' <= Left(a)
           \/ SlotKey(clock) \notin CronSlots[a] \/ lastSlot[a] = SlotKey(clock)
    PROVE  SlotsServed(a)' /\ OnTime(a)'
  <1>1. SlotKey(clock)' = SlotKey(clock)
    BY DEF SlotKey
  <1>2. SlotsServed(a)'
    BY <1>1 DEF SlotsServed
  <1>3. CronSlots[a] \subseteq Nat
    BY AdapterKinds, SchedulerConstants
  <1>4. OnTime(a)'
    <2> SUFFICES ASSUME Punctual, ~Ended' PROVE OnTime(a)'
      BY DEF OnTime
    <2>1. \A s \in CronSlots[a] : s < SlotKey(clock) => Fired(a, s)'
      BY <1>3 DEF OnTime
    <2>2. ASSUME SlotKey(clock) \in CronSlots[a], lastSlot[a] # SlotKey(clock)
          PROVE  clock + Left(a)' < SlotKey(clock) * SlotLength + SlotLength
      <3>1. clock + Left(a) < SlotKey(clock) * SlotLength + SlotLength
        BY <2>2 DEF OnTime
      <3>2. Left(a) \in Nat
        BY LeftBounded
      <3>3. Left(a)' \in Nat
        <4>1. remaining' \in Nat /\ Left(a)' = LeftAt(pc', cur', remaining', a)
          BY DEF LoopInv, LoopTypeOK, Left
        <4> QED  BY <4>1, LeftIsNumber
      <3>4. Left(a)' <= Left(a)
        BY <2>2
      <3>5. clock \in Nat /\ SlotKey(clock) * SlotLength + SlotLength \in Int
        <4>1. clock \in Nat
          BY DEF LoopInv, LoopTypeOK
        <4>2. SlotKey(clock) \in Nat /\ SlotLength \in Nat
          BY <4>1, SlotOfTick
        <4> QED  BY <4>1, <4>2
      <3> QED  BY <3>1, <3>2, <3>3, <3>4, <3>5
    <2> QED  BY <1>1, <2>1, <2>2 DEF OnTime
  <1> QED  BY <1>2, <1>4


(* Going on from another adapter than a does not put off a's turn. *)
LEMMA PassingOn ==
    ASSUME LoopInv, LoopInv', NEW a \in Crons, NextAdapter, remaining' = remaining,
           pc = "submit" \/ (pc = "poll" /\ cur # a)
    PROVE  Left(a)' <= Left(a)
  <1>0. /\ remaining \in Nat /\ cur \in Nat /\ cur' \in Nat
        /\ a \in Nat /\ 1 <= a /\ a <= Len(Kinds) /\ Len(Kinds) \in Nat
        /\ CycleTicks \in Nat /\ Sleep \in Nat
    BY AdapterKinds, TicksAreNumbers DEF LoopInv, LoopTypeOK
  <1>1. CASE cur < Len(Kinds) /\ cur' = cur + 1 /\ pc' = "poll"
    BY <1>0, <1>1 DEF Left, LeftAt
  <1>2. CASE cur >= Len(Kinds) /\ pc' = "end"
    <2>1. ~(cur < a)
      BY <1>0, <1>2
    <2>2. Left(a) = remaining + Sleep + CycleTicks /\ Left(a)' = remaining + Sleep + CycleTicks
      BY <1>0, <1>2, <2>1 DEF Left, LeftAt
    <2> QED  BY <1>0, <2>2
  <1> QED  BY <1>0, <1>1, <1>2 DEF NextAdapter, AfterAdapter

(* Steps that only move the loop on. *)
MovesOn ==
    \/ BeginCycle \/ PollDone \/ SubmitDone \/ EndCycle \/ Wake
    \/ PollCron /\ NextAdapter /\ UNCHANGED <<lastSlot, dispatches>>

(* They do not put off a's turn, unless a needs none in this minute. *)
LEMMA TurnIsNotPutOff ==
    ASSUME LoopInv, LoopInv', MovesOn, NEW a \in Crons
    PROVE  \/ Ended'
           \/ Left(a)' <= Left(a)
           \/ SlotKey(clock) \notin CronSlots[a] \/ lastSlot[a] = SlotKey(clock)
  <1>0. /\ remaining \in Nat /\ remaining' \in Nat /\ cur \in Nat /\ cur' \in Nat
        /\ a \in Nat /\ 1 <= a /\ a <= Len(Kinds) /\ Len(Kinds) \in Nat /\ a \notin Webhooks /\ a \in Adapters
        /\ CycleTicks \in Nat /\ Sleep \in Nat
    BY AdapterKinds, TicksAreNumbers DEF LoopInv, LoopTypeOK
  <1>1. CASE BeginCycle
    <2>1. pc = "check" /\ remaining' = CycleTicks /\ cur' = 1
          /\ (pc' = "stopped" \/ pc' = "poll")
      BY <1>0, <1>1 DEF BeginCycle
    <2> QED  BY <1>0, <2>1 DEF Left, LeftAt, Ended
  <1>2. CASE PollDone
    <2>1. pc = "poll" /\ pc' = "submit" /\ cur' = cur /\ cur # a /\ remaining' = remaining
      BY <1>0, <1>2 DEF PollDone
    <2> QED  BY <1>0, <2>1 DEF Left, LeftAt
  <1>3. ASSUME NextAdapter, remaining' = remaining, pc = "submit" \/ (pc = "poll" /\ cur # a)
        PROVE  Left(a)' <= Left(a)
    BY <1>3, PassingOn
  <1>4. CASE SubmitDone
    <2>1. NextAdapter /\ remaining' = remaining /\ pc = "submit"
      BY <1>4 DEF SubmitDone
    <2> QED  BY <1>3, <2>1
  <1>5. CASE EndCycle
    <2>1. /\ pc = "end"
          /\ pc' = "stopped" \/ (pc' = "sleep" /\ remaining' <= Sleep)
      BY <1>5 DEF EndCycle, LoopInv, Dispatching
    <2>2. pc' = "sleep" => Left(a) = remaining + Sleep + CycleTicks /\ Left(a)' = remaining' + CycleTicks
      BY <2>1 DEF Left, LeftAt
    <2> QED  BY <1>0, <2>1, <2>2 DEF Ended
  <1>6. CASE Wake
    <2>1. pc = "sleep" /\ remaining = 0 /\ pc' = "check"
      BY <1>6 DEF Wake
    <2> QED  BY <1>0, <2>1 DEF Left, LeftAt
  <1>7. CASE PollCron /\ NextAdapter /\ UNCHANGED <<lastSlot, dispatches>>
    <2>1. pc = "poll" /\ remaining' = remaining /\ cur \in Adapters
      BY <1>7, AdapterKinds DEF PollCron
    <2>2. CASE cur # a
      BY <1>3, <1>7, <2>1, <2>2
    <2>3. CASE cur = a
      <3>1. lastSlot \in [Adapters -> Int] /\ dispatches = << >> /\ dispatches' = << >>
        BY <1>7 DEF LoopInv, LoopTypeOK, Dispatching, PollCron
      <3>2. ~(SlotKey(clock) \in CronSlots[cur] /\ SlotKey(clock) # lastSlot[cur])
        <4> SUFFICES ASSUME SlotKey(clock) \in CronSlots[cur], SlotKey(clock) # lastSlot[cur]
                     PROVE  FALSE
          OBVIOUS
        <4>1. dispatches' = << <<cur, SlotKey(clock)>> >>
          BY <1>7 DEF PollCron
        <4> QED  BY <3>1, <4>1
      <3> QED  BY <2>3, <3>2
    <2> QED  BY <2>2, <2>3
  <1> QED  BY <1>1, <1>2, <1>4, <1>5, <1>6, <1>7 DEF MovesOn

(* The clock ticks: a minute that ends was served, and there is time enough *)
(* to serve the one that begins.                                            *)
LEMMA TickKeepsCron == ASSUME LoopInv, LoopInv', CronInv, Tick PROVE CronInv'
  <1>1. /\ remaining > 0 /\ remaining' = remaining - 1 /\ ~Ended /\ pc # "check"
        /\ clock' = clock + 1 \/ clock' = clock
        /\ UNCHANGED <<lastSlot, pc, cur, dispatches, submitted>>
    BY DEF Tick, Ended
  <1>2. FiredOnce'
    BY <1>1 DEF CronInv, FiredOnce
  <1>3. \A a, s : Fired(a, s)' = Fired(a, s)
    BY <1>1 DEF Fired
  <1>4. clock \in Nat /\ remaining \in Nat /\ Ended' = Ended
    BY <1>1 DEF LoopInv, LoopTypeOK, Ended
  <1>5. ASSUME NEW a \in Crons PROVE SlotsServed(a)' /\ OnTime(a)'
    <2>1. SlotsServed(a) /\ OnTime(a) /\ CronSlots[a] \subseteq Nat /\ lastSlot[a] \in Int
      BY AdapterKinds, SchedulerConstants DEF CronInv, LoopInv, LoopTypeOK
    <2>2. /\ Left(a) \in Nat /\ Left(a) <= Sleep + 2 * CycleTicks /\ remaining <= Left(a)
          /\ CycleTicks \in Nat /\ Sleep \in Nat /\ SlotLength \in Nat
      BY <1>1, LeftBounded, TicksAreNumbers
    <2>3. Left(a)' = Left(a) - 1
      <3>1. Left(a)' = LeftAt(pc, cur, remaining - 1, a)
        BY <1>1 DEF Left
      <3> QED  BY <1>1, <1>4, <2>2, <3>1 DEF Left, LeftAt
    <2>4. CASE clock' = clock
      <3>1. Left(a)' <= Left(a)
        BY <2>2, <2>3
      <3> QED  BY <1>1, <1>3, <2>1, <2>4, <3>1, SameForCron
    <2>5. CASE clock' = clock + 1 /\ SlotKey(clock + 1) = SlotKey(clock)
      <3>1. SlotKey(clock)' = SlotKey(clock)
        BY <2>5 DEF SlotKey
      <3>2. SlotsServed(a)'
        BY <1>1, <1>3, <1>4, <2>1, <3>1 DEF SlotsServed
      <3>3. clock' + Left(a)' = clock + Left(a)
        BY <1>4, <2>2, <2>3, <2>5
      <3>4. OnTime(a)'
        BY <1>1, <1>3, <1>4, <2>1, <3>1, <3>3 DEF OnTime
      <3> QED  BY <3>2, <3>4
    <2>6. CASE /\ clock' = clock + 1 /\ SlotKey(clock + 1) = SlotKey(clock) + 1
               /\ clock + 1 = SlotKey(clock) * SlotLength + SlotLength
      <3>0. SlotKey(clock) \in Nat
        BY <1>4, SlotOfTick
      <3>1. SlotKey(clock)' = SlotKey(clock) + 1
        BY <2>6 DEF SlotKey
      <3>2. SlotsServed(a)'
        <4>1. lastSlot'[a] <= SlotKey(clock)'
          BY <1>1, <2>1, <3>0, <3>1 DEF SlotsServed
        <4> QED  BY <1>1, <1>3, <1>4, <2>1, <4>1 DEF SlotsServed
      <3>3. ASSUME Punctual, SlotKey(clock) \in CronSlots[a] PROVE Fired(a, SlotKey(clock))
        <4>1. CASE lastSlot[a] = SlotKey(clock)
          BY <1>1, <2>1, <3>0, <4>1 DEF SlotsServed
        <4>2. CASE lastSlot[a] # SlotKey(clock)
          <5>1. clock + Left(a) < clock + 1
            BY <1>1, <2>1, <2>6, <3>3, <4>2 DEF OnTime
          <5> QED  BY <1>1, <1>4, <2>2, <5>1
        <4> QED  BY <4>1, <4>2
      <3>4. ASSUME Punctual, NEW s \in CronSlots[a], s < SlotKey(clock) + 1 PROVE Fired(a, s)'
        <4>1. s \in Nat /\ (s = SlotKey(clock) \/ s < SlotKey(clock))
          BY <2>1, <3>0, <3>4
        <4>2. Fired(a, s)
          BY <1>1, <2>1, <3>3, <3>4, <4>1 DEF OnTime
        <4> QED  BY <1>3, <4>2
      <3>5. ASSUME Punctual
            PROVE  clock' + Left(a)' < (SlotKey(clock) + 1) * SlotLength + SlotLength
        <4>1. (SlotKey(clock) + 1) * SlotLength = clock + 1
          BY <2>2, <2>6, <3>0
        <4>2. Left(a)' < SlotLength
          BY <2>2, <2>3, <3>5 DEF Punctual
        <4> QED  BY <1>4, <2>2, <2>3, <2>6, <4>1, <4>2
      <3>6. OnTime(a)'
        BY <3>1, <3>4, <3>5 DEF OnTime
      <3> QED  BY <3>2, <3>6
    <2> QED  BY <1>1, <1>4, <2>4, <2>5, <2>6, SlotOfNextTick
  <1> QED  BY <1>2, <1>5 DEF CronInv


(* A due minute is dispatched: it was not served yet. *)
LEMMA FiringKeepsCron ==
    ASSUME LoopInv, LoopInv', CronInv, PollCron,
           SlotKey(clock) \in CronSlots[cur], SlotKey(clock) # lastSlot[cur]
    PROVE  CronInv'
  <1>1. /\ pc = "poll" /\ pc' = "submit" /\ cur \in Crons /\ cur' = cur
        /\ lastSlot' = [lastSlot EXCEPT ![cur] = SlotKey(clock)]
        /\ dispatches' = << <<cur, SlotKey(clock)>> >>
        /\ UNCHANGED <<clock, submitted, remaining>>
    BY DEF PollCron
  <1>2. /\ clock \in Nat /\ lastSlot \in [Adapters -> Int] /\ dispatches = << >>
        /\ submitted \in Seq(Items) /\ remaining \in Nat
    BY <1>1 DEF LoopInv, LoopTypeOK, Dispatching
  <1>3. PICK c \in Crons, k \in Nat : c = cur /\ k = SlotKey(clock) /\ k = SlotKey(clock)'
    BY <1>1, <1>2, SlotOfTick DEF SlotKey
  <1>4. ~Ended /\ ~Ended'
    BY <1>1 DEF Ended
  <1>5. SlotsServed(c) /\ c \in Adapters /\ lastSlot[c] \in Int
    BY <1>2, AdapterKinds DEF CronInv
  <1>6. ~Fired(c, k)
    <2>1. lastSlot[c] < k
      BY <1>3, <1>5 DEF SlotsServed
    <2>2. Fired(c, k) => k <= lastSlot[c]
      BY <1>5 DEF SlotsServed
    <2> QED  BY <1>5, <2>1, <2>2
  <1>7. Len(dispatches) = 0 /\ Len(dispatches') = 1 /\ dispatches'[1] = <<c, k>>
    BY <1>1, <1>2, <1>3
  <1>8. ASSUME NEW a, NEW s PROVE Fired(a, s)' <=> Fired(a, s) \/ (a = c /\ s = k)
    <2>1. ~Contains(dispatches, <<a, s>>)
      BY <1>7 DEF Contains
    <2>2. Contains(dispatches', <<a, s>>) <=> <<a, s>> = <<c, k>>
      BY <1>7 DEF Contains
    <2>3. <<a, s>> = <<c, k>> <=> a = c /\ s = k
      OBVIOUS
    <2> QED  BY <1>1, <2>1, <2>2, <2>3 DEF Fired
  <1>9. FiredOnce'
    <2>1. ASSUME NEW i \in 1..Len(submitted), NEW j \in 1..Len(dispatches'), submitted[i] = dispatches'[j]
          PROVE  FALSE
      <3>1. submitted[i] = <<c, k>>
        BY <1>7, <2>1
      <3>2. Contains(submitted, <<c, k>>)
        BY <3>1 DEF Contains
      <3> QED  BY <1>6, <3>2 DEF Fired
    <2> QED  BY <1>1, <2>1 DEF CronInv, FiredOnce
  <1>10. ASSUME NEW a \in Crons, a # c PROVE SlotsServed(a)' /\ OnTime(a)'
    <2>1. lastSlot'[a] = lastSlot[a] /\ SlotsServed(a) /\ OnTime(a)
      BY <1>1, <1>2, <1>3, <1>10, AdapterKinds DEF CronInv
    <2>2. \A s \in Nat : Fired(a, s)' <=> Fired(a, s)
      BY <1>8, <1>10
    <2>3. Left(a)' <= Left(a)
      <3>1. a \in Nat /\ c \in Nat /\ CycleTicks \in Nat /\ Sleep \in Nat
        BY AdapterKinds, TicksAreNumbers
      <3>2. Left(a)' = LeftAt("submit", c, remaining, a) /\ Left(a) = LeftAt("poll", c, remaining, a)
        BY <1>1, <1>3 DEF Left
      <3> QED  BY <1>2, <1>10, <3>1, <3>2 DEF LeftAt
    <2> QED  BY <1>1, <1>4, <2>1, <2>2, <2>3, SameForCron
  <1>11. SlotsServed(c)' /\ OnTime(c)'
    <2>1. lastSlot'[c] = k
      BY <1>1, <1>2, <1>3, <1>5
    <2>2. ASSUME NEW s \in Nat, Fired(c, s)' PROVE s <= k
      <3>1. CASE s = k
        BY <3>1
      <3>2. CASE Fired(c, s)
        <4>1. s <= lastSlot[c] /\ lastSlot[c] <= k
          BY <1>3, <1>5, <3>2 DEF SlotsServed
        <4> QED  BY <1>5, <4>1
      <3> QED  BY <1>8, <2>2, <3>1, <3>2
    <2>3. Fired(c, k)'
      BY <1>8
    <2>4. Fired(c, lastSlot[c])'
      BY <2>1, <2>3 DEF Fired
    <2>5. SlotsServed(c)'
      BY <1>3, <2>1, <2>2, <2>4 DEF SlotsServed
    <2>6. OnTime(c)'
      <3>1. OnTime(c)
        BY DEF CronInv
      <3>2. ASSUME Punctual, NEW s \in CronSlots[c], s < k PROVE Fired(c, s)'
        <4>1. Fired(c, s)
          BY <1>3, <1>4, <3>1, <3>2 DEF OnTime
        <4> QED  BY <1>8, <4>1
      <3> QED  BY <1>3, <2>1, <3>2 DEF OnTime
    <2> QED  BY <2>5, <2>6
  <1> QED  BY <1>9, <1>10, <1>11 DEF CronInv


(* Payloads are popped: no minute among them. *)
LEMMA PopKeepsCron == ASSUME LoopInv, LoopInv', CronInv, PopPayload PROVE CronInv'
  <1>1. /\ pc = "poll" /\ cur \in Webhooks /\ UNCHANGED <<clock, lastSlot, submitted, remaining>>
        /\ \/ dispatches' = << >> /\ NextAdapter
           \/ UNCHANGED <<pc, cur>>
    BY DEF PopPayload
  <1>2. PICK c \in Webhooks : c = cur /\ c \notin Crons
    BY <1>1, AdapterKinds
  <1>3. \A k \in 1..Len(dispatches) : dispatches[k][1] = c
    BY <1>2 DEF LoopInv, Dispatching
  <1>4. \A k \in 1..Len(dispatches') : dispatches'[k][1] = c
    <2>1. CASE dispatches' = << >>
      BY <2>1
    <2>2. CASE cur' = cur
      BY <1>2, <2>2 DEF LoopInv, Dispatching
    <2> QED  BY <1>1, <2>1, <2>2
  <1>5. ASSUME NEW a \in Crons, NEW s PROVE Fired(a, s)' <=> Fired(a, s)
    <2>1. ~Contains(dispatches, <<a, s>>) /\ ~Contains(dispatches', <<a, s>>)
      <3>1. <<a, s>>[1] = a /\ a # c
        BY <1>2
      <3> QED  BY <1>3, <1>4, <3>1 DEF Contains
    <2> QED  BY <1>1, <2>1 DEF Fired
  <1>6. FiredOnce'
    BY <1>1, <1>2, <1>4 DEF CronInv, FiredOnce
  <1>7. ~Ended
    BY <1>1 DEF Ended
  <1>8. ASSUME NEW a \in Crons PROVE SlotsServed(a)' /\ OnTime(a)'
    <2>1. Left(a)' <= Left(a)
      <3>1. CASE NextAdapter
        BY <1>1, <1>2, <3>1, PassingOn
      <3>2. CASE UNCHANGED <<pc, cur>>
        <4>1. Left(a)' = Left(a)
          BY <1>1, <3>2 DEF Left
        <4>2. remaining \in Nat
          BY DEF LoopInv, LoopTypeOK
        <4>3. Left(a) \in Nat
          BY <4>2, LeftIsNumber DEF Left
        <4> QED  BY <4>1, <4>3
      <3> QED  BY <1>1, <3>1, <3>2
    <2> QED  BY <1>1, <1>5, <1>7, <2>1, SameForCron DEF CronInv
  <1> QED  BY <1>6, <1>8 DEF CronInv

(* A dispatch is submitted. *)
LEMMA SubmitKeepsCron == ASSUME LoopInv, LoopInv', CronInv, Submit PROVE CronInv'
  <1>1. /\ pc = "submit" /\ dispatches # << >>
        /\ submitted' = Append(submitted, Head(dispatches)) /\ dispatches' = Tail(dispatches)
        /\ UNCHANGED <<clock, lastSlot, remaining, pc, cur>>
    BY DEF Submit
  <1>2. submitted \in Seq(Items) /\ dispatches \in Seq(Items) /\ remaining \in Nat
    BY DEF LoopInv, LoopTypeOK
  <1>3. PICK h \in Items : h = Head(dispatches) /\ h = dispatches[1]
    BY <1>1, <1>2
  <1>4. /\ Len(dispatches) \in Nat /\ Len(dispatches) > 0 /\ Len(dispatches') = Len(dispatches) - 1
        /\ \A k \in 1..Len(dispatches') : dispatches'[k] = dispatches[k + 1] /\ k + 1 \in 1..Len(dispatches)
    BY <1>1, <1>2
  <1>5. /\ Len(submitted) \in Nat /\ Len(submitted') = Len(submitted) + 1
        /\ \A k \in 1..Len(submitted) : submitted'[k] = submitted[k]
        /\ submitted'[Len(submitted) + 1] = h
    BY <1>1, <1>2, <1>3
  <1>6. \A k \in 1..Len(submitted') : k \in 1..Len(submitted) \/ k = Len(submitted) + 1
    BY <1>5
  <1>7. ASSUME NEW x PROVE Contains(submitted', x) \/ Contains(dispatches', x)
                               <=> Contains(submitted, x) \/ Contains(dispatches, x)
    <2>1. Contains(submitted', x) <=> Contains(submitted, x) \/ x = h
      <3>1. Len(submitted) + 1 \in 1..Len(submitted') /\ \A k \in 1..Len(submitted) : k \in 1..Len(submitted')
        BY <1>5
      <3> QED  BY <1>5, <1>6, <3>1 DEF Contains
    <2>2. Contains(dispatches, x) <=> x = h \/ Contains(dispatches', x)
      <3>1. ASSUME Contains(dispatches, x), x # h PROVE Contains(dispatches', x)
        <4>1. PICK k \in 1..Len(dispatches) : dispatches[k] = x /\ k # 1
          BY <1>3, <3>1 DEF Contains
        <4>2. k - 1 \in 1..Len(dispatches') /\ dispatches'[k - 1] = dispatches[(k - 1) + 1] /\ (k - 1) + 1 = k
          BY <1>4, <4>1
        <4> QED  BY <4>1, <4>2 DEF Contains
      <3>2. Contains(dispatches', x) => Contains(dispatches, x)
        BY <1>4 DEF Contains
      <3>3. 1 \in 1..Len(dispatches) /\ dispatches[1] = h
        BY <1>3, <1>4
      <3>4. x = h => Contains(dispatches, x)
        BY <3>3 DEF Contains
      <3> QED  BY <3>1, <3>2, <3>4
    <2> QED  BY <2>1, <2>2
  <1>8. 1 \in 1..Len(dispatches)
    BY <1>4
  <1>9. ASSUME NEW i \in 1..Len(submitted), submitted[i] = h PROVE submitted[i][1] \notin Crons
    BY <1>3, <1>8, <1>9 DEF CronInv, FiredOnce
  <1>10. FiredOnce'
    <2>1. ASSUME NEW i \in 1..Len(submitted'), NEW j \in 1..Len(submitted'),
                 submitted'[i] = submitted'[j], submitted'[i][1] \in Crons
          PROVE  i = j
      <3>1. CASE i \in 1..Len(submitted) /\ j \in 1..Len(submitted)
        BY <1>5, <2>1, <3>1 DEF CronInv, FiredOnce
      <3>2. CASE i \in 1..Len(submitted) /\ j = Len(submitted) + 1
        BY <1>5, <1>9, <2>1, <3>2
      <3>3. CASE j \in 1..Len(submitted) /\ i = Len(submitted) + 1
        BY <1>5, <1>9, <2>1, <3>3
      <3> QED  BY <1>6, <3>1, <3>2, <3>3
    <2>2. ASSUME NEW i \in 1..Len(submitted'), NEW j \in 1..Len(dispatches'), submitted'[i] = dispatches'[j]
          PROVE  submitted'[i][1] \notin Crons
      <3>1. j + 1 \in 1..Len(dispatches) /\ dispatches'[j] = dispatches[j + 1]
        BY <1>4
      <3>2. CASE i \in 1..Len(submitted)
        BY <1>5, <2>2, <3>1, <3>2 DEF CronInv, FiredOnce
      <3>3. CASE i = Len(submitted) + 1
        <4>1. h[1] = cur
          BY <1>3, <1>8 DEF LoopInv, Dispatching
        <4>2. ~(Len(dispatches) <= 1)
          BY <1>4, <3>1
        <4> QED  BY <1>5, <3>3, <4>1, <4>2 DEF LoopInv, Dispatching
      <3> QED  BY <1>6, <3>2, <3>3
    <2> QED  BY <2>1, <2>2 DEF FiredOnce
  <1>11. \A a, s : Fired(a, s)' <=> Fired(a, s)
    BY <1>7 DEF Fired
  <1>12. ASSUME NEW a \in Crons PROVE SlotsServed(a)' /\ OnTime(a)'
    <2>1. Left(a)' = Left(a) /\ Left(a) \in Nat
      BY <1>1, <1>2, LeftIsNumber DEF Left
    <2>2. Left(a)' <= Left(a) /\ ~Ended
      BY <1>1, <2>1 DEF Ended
    <2> QED  BY <1>1, <1>11, <2>2, SameForCron DEF CronInv
  <1> QED  BY <1>10, <1>12 DEF CronInv

(* Every step serves each minute once and in time. *)
LEMMA CronStep == LoopInv /\ LoopInv' /\ CronInv /\ [Next]_vars => CronInv'
  <1> SUFFICES ASSUME LoopInv, LoopInv', CronInv, [Next]_vars PROVE CronInv'
    OBVIOUS
  <1>1. ASSUME UNCHANGED <<clock, lastSlot, pc, cur, remaining, dispatches, submitted>> PROVE CronInv'
    <2>1. /\ SlotKey(clock)' = SlotKey(clock) /\ Ended' = Ended
          /\ \A a, s : Fired(a, s)' = Fired(a, s)
          /\ \A a : Left(a)' = Left(a)
      BY <1>1 DEF SlotKey, Ended, Fired, Left
    <2>2. FiredOnce'
      BY <1>1 DEF CronInv, FiredOnce
    <2>3. ASSUME NEW a \in Crons PROVE SlotsServed(a)' /\ OnTime(a)'
      BY <1>1, <2>1 DEF CronInv, SlotsServed, OnTime
    <2> QED  BY <2>2, <2>3 DEF CronInv
  <1>2. CASE UNCHANGED vars
    BY <1>1, <1>2 DEF vars
  <1>3. ASSUME NEW a \in Adapters, NEW p \in Payloads, Ingest(a, p) PROVE CronInv'
    BY <1>1, <1>3 DEF Ingest, loopVars
  <1>4. CASE SetStop
    BY <1>1, <1>4 DEF SetStop, loopVars
  <1>5. CASE Tick
    BY <1>5, TickKeepsCron
  <1>6. CASE MovesOn
    <2>1. UNCHANGED <<clock, lastSlot, dispatches, submitted>> /\ ~Ended
      BY <1>6 DEF MovesOn, BeginCycle, PollDone, SubmitDone, EndCycle, Wake, PollCron, Ended
    <2>2. FiredOnce'
      BY <2>1 DEF CronInv, FiredOnce
    <2>3. \A a, s : Fired(a, s)' = Fired(a, s)
      BY <2>1 DEF Fired
    <2>4. ASSUME NEW a \in Crons PROVE SlotsServed(a)' /\ OnTime(a)'
      BY <1>6, <2>1, <2>3, TurnIsNotPutOff, SameForCron DEF CronInv
    <2> QED  BY <2>2, <2>4 DEF CronInv
  <1>7. CASE PollCron
    <2>1. CASE SlotKey(clock) \in CronSlots[cur] /\ SlotKey(clock) # lastSlot[cur]
      BY <1>7, <2>1, FiringKeepsCron
    <2>2. CASE ~(SlotKey(clock) \in CronSlots[cur] /\ SlotKey(clock) # lastSlot[cur])
      BY <1>6, <1>7, <2>2 DEF PollCron, MovesOn
    <2> QED  BY <2>1, <2>2
  <1>8. CASE PopPayload
    BY <1>8, PopKeepsCron
  <1>9. CASE Submit
    BY <1>9, SubmitKeepsCron
  <1>10. CASE SubmitRaises
    <2>1. /\ UNCHANGED <<clock, lastSlot, submitted>> /\ dispatches' = << >> /\ ~Ended /\ Ended'
      BY <1>10 DEF SubmitRaises, Ended
    <2>2. FiredOnce'
      BY <2>1 DEF CronInv, FiredOnce
    <2>3. \A a, s : Fired(a, s)' => Fired(a, s)
      BY <2>1 DEF Fired, Contains
    <2>4. ASSUME NEW a \in Crons PROVE SlotsServed(a)' /\ OnTime(a)'
      BY <2>1, <2>3, SameForCron DEF CronInv
    <2> QED  BY <2>2, <2>4 DEF CronInv
  <1> QED  BY <1>2, <1>3, <1>4, <1>5, <1>6, <1>7, <1>8, <1>9, <1>10 DEF Next, Loop, MovesOn

(* Minutes are always served once and in time. *)
LEMMA CronInvariant == Spec => []CronInv
  BY LoopInvariant, CronInitial, CronStep, PTL DEF Spec

(* An item that occurs at most once in a sequence is counted so. *)
LEMMA CountOfFew ==
    ASSUME NEW x, NEW s, \A i, j \in 1..Len(s) : s[i] = x /\ s[j] = x => i = j
    PROVE  /\ Count(x, s) <= 1
           /\ (\E i \in 1..Len(s) : s[i] = x) => Count(x, s) = 1
  <1> DEFINE At == {i \in 1..Len(s) : s[i] = x}
  <1>1. CASE At = {}
    <2>1. Count(x, s) = 0
      BY <1>1, FS_EmptySet DEF Count
    <2> QED  BY <1>1, <2>1
  <1>2. CASE At # {}
    <2>1. PICK i \in At : TRUE
      BY <1>2
    <2>2. At = {i}
      BY <2>1
    <2>3. Count(x, s) = 1
      BY <2>2, FS_Singleton DEF Count
    <2> QED  BY <2>3
  <1> QED  BY <1>1, <1>2

(* A cron adapter submits at most one task for a minute, and when a sleep   *)
(* with the cycles around it fits into a minute no matching minute passes   *)
(* without one while the loop runs: for every schedule, backoff and jitter. *)
THEOREM CronTheorem == Spec => []CronOncePerSlot
  <1>1. LoopInv /\ CronInv => CronOncePerSlot
    <2> SUFFICES ASSUME LoopInv, CronInv, NEW a \in Crons, NEW s \in CronSlots[a]
                 PROVE  LET fired == Count(<<a, s>>, submitted \o dispatches)
                        IN  /\ fired <= 1
                            /\ /\ MaxInterval * (1 + JitterRatio) + 2 * CycleTicks <= SlotLength
                               /\ s < SlotKey(clock) /\ ~Ended
                               => fired = 1
      BY DEF CronOncePerSlot
    <2> DEFINE both == submitted \o dispatches
    <2>1. PICK m \in Nat, n \in Nat : m = Len(submitted) /\ n = Len(dispatches)
      BY DEF LoopInv, LoopTypeOK
    <2>2. /\ Len(both) = m + n
          /\ \A i \in 1..(m + n) : both[i] = IF i <= m THEN submitted[i] ELSE dispatches[i - m]
      BY <2>1, ConcatProperties DEF LoopInv, LoopTypeOK
    <2>3. <<a, s>>[1] = a /\ a \in Crons
      OBVIOUS
    <2>4. ASSUME NEW i \in 1..(m + n), NEW j \in 1..(m + n), both[i] = <<a, s>>, both[j] = <<a, s>>, i <= j
          PROVE  i = j
      <3>1. CASE j <= m
        <4>1. /\ i \in 1..Len(submitted) /\ j \in 1..Len(submitted)
              /\ submitted[i] = <<a, s>> /\ submitted[j] = <<a, s>>
          BY <2>1, <2>2, <2>4, <3>1
        <4> QED  BY <2>3, <4>1 DEF CronInv, FiredOnce
      <3>2. CASE i <= m /\ ~(j <= m)
        <4>1. /\ i \in 1..Len(submitted) /\ j - m \in 1..Len(dispatches)
              /\ submitted[i] = <<a, s>> /\ dispatches[j - m] = <<a, s>>
          BY <2>1, <2>2, <2>4, <3>2
        <4> QED  BY <2>3, <4>1 DEF CronInv, FiredOnce
      <3>3. CASE ~(i <= m) /\ ~(j <= m)
        <4>1. j - m \in 1..Len(dispatches) /\ dispatches[j - m] = <<a, s>>
          BY <2>1, <2>2, <2>4, <3>3
        <4>2. cur = a
          BY <2>3, <4>1 DEF LoopInv, Dispatching
        <4>3. n <= 1
          BY <2>1, <4>2 DEF LoopInv, Dispatching
        <4> QED  BY <2>4, <3>3, <4>3
      <3> QED  BY <2>4, <3>1, <3>2, <3>3
    <2>5. \A i, j \in 1..Len(both) : both[i] = <<a, s>> /\ both[j] = <<a, s>> => i = j
      <3> HIDE DEF both
      <3> SUFFICES ASSUME NEW i \in 1..(m + n), NEW j \in 1..(m + n), both[i] = <<a, s>>, both[j] = <<a, s>>
                   PROVE  i = j
        BY <2>2
      <3>1. i <= j \/ j <= i
        OBVIOUS
      <3> QED  BY <2>4, <3>1
    <2>6. ASSUME MaxInterval * (1 + JitterRatio) + 2 * CycleTicks <= SlotLength, s < SlotKey(clock), ~Ended
          PROVE  \E i \in 1..Len(both) : both[i] = <<a, s>>
      <3>1. Punctual
        BY <2>6 DEF Punctual, Sleep
      <3>2. Fired(a, s)
        BY <2>6, <3>1 DEF CronInv, OnTime
      <3>3. CASE Contains(submitted, <<a, s>>)
        <4>1. PICK i \in 1..Len(submitted) : submitted[i] = <<a, s>>
          BY <3>3 DEF Contains
        <4> QED  BY <2>1, <2>2, <4>1
      <3>4. CASE Contains(dispatches, <<a, s>>)
        <4>1. PICK i \in 1..n : dispatches[i] = <<a, s>>
          BY <2>1, <3>4 DEF Contains
        <4>2. m + i \in 1..(m + n) /\ ~(m + i <= m) /\ (m + i) - m = i
          BY <4>1
        <4> QED  BY <2>2, <4>1, <4>2
      <3> QED  BY <3>2, <3>3, <3>4 DEF Fired
    <2> HIDE DEF both
    <2>7. /\ Count(<<a, s>>, both) <= 1
          /\ (\E i \in 1..Len(both) : both[i] = <<a, s>>) => Count(<<a, s>>, both) = 1
      BY <2>5, CountOfFew
    <2> QED  BY <2>6, <2>7 DEF both
  <1> QED  BY <1>1, LoopInvariant, CronInvariant, PTL



-----------------------------------------------------------------------------
(* Webhook payloads: the payloads acc that adapter a accepted, the items    *)
(* lst that were dropped, and the line of items on their way to the sink    *)

After(acc, p, q) == \E i, j \in 1..Len(acc) : i < j /\ acc[i] = p /\ acc[j] = q

Distinct(acc) == \A i, j \in 1..Len(acc) : acc[i] = acc[j] => i = j

Ordered(acc, a, s) ==
    \A k, l \in 1..Len(s) : k < l /\ s[k][1] = a /\ s[l][1] = a => After(acc, s[k][2], s[l][2])

Ahead(acc, a, s, t) ==
    \A k \in 1..Len(s), l \in 1..Len(t) : s[k][1] = a /\ t[l][1] = a => After(acc, s[k][2], t[l][2])

Kept(acc, lst, a, s) ==
    \A k \in 1..Len(s) : s[k][1] = a => s[k] \notin lst /\ Contains(acc, s[k][2])

(* a has no item in s. *)
Foreign(a, s) == \A k \in 1..Len(s) : s[k][1] # a

(* The line of a: accepted payloads, each once, in their order, and none    *)
(* missing but those dropped.                                               *)
InLine(acc, lst, a, s) ==
    /\ Distinct(acc)
    /\ \A p : <<a, p>> \in lst => Contains(acc, p)
    /\ \A i \in 1..Len(acc) : <<a, acc[i]>> \in lst \/ Contains(s, <<a, acc[i]>>)
    /\ Kept(acc, lst, a, s)
    /\ Ordered(acc, a, s)

DeliveryInv == \A a \in Webhooks : InLine(accepted[a], lost, a, Line(a))

(* The positions of a concatenation. *)
LEMMA Positions ==
    ASSUME NEW S, NEW s \in Seq(S), NEW t \in Seq(S)
    PROVE  /\ Len(s) \in Nat /\ Len(t) \in Nat /\ Len(s \o t) = Len(s) + Len(t)
           /\ \A k \in 1..Len(s) : k \in 1..Len(s \o t) /\ (s \o t)[k] = s[k]
           /\ \A k \in 1..Len(t) : Len(s) + k \in 1..Len(s \o t) /\ (s \o t)[Len(s) + k] = t[k]
           /\ \A k \in 1..Len(s \o t) : \/ k \in 1..Len(s)
                                        \/ k - Len(s) \in 1..Len(t) /\ Len(s) + (k - Len(s)) = k
  <1>1. PICK m \in Nat, n \in Nat : m = Len(s) /\ n = Len(t)
    OBVIOUS
  <1>2. /\ Len(s \o t) = m + n
        /\ \A i \in 1..(m + n) : (s \o t)[i] = IF i <= m THEN s[i] ELSE t[i - m]
    BY <1>1, ConcatProperties
  <1>3. ASSUME NEW k \in 1..n PROVE m + k \in 1..(m + n) /\ (s \o t)[m + k] = t[k]
    <2>1. m + k \in 1..(m + n) /\ ~(m + k <= m) /\ (m + k) - m = k
      OBVIOUS
    <2> QED  BY <1>2, <2>1
  <1>4. \A k \in 1..m : k \in 1..(m + n) /\ (s \o t)[k] = s[k]
    BY <1>2
  <1>5. \A k \in 1..(m + n) : \/ k \in 1..m
                              \/ k - m \in 1..n /\ m + (k - m) = k
    OBVIOUS
  <1> QED  BY <1>1, <1>2, <1>3, <1>4, <1>5

(* What a concatenation contains. *)
LEMMA ContainsConcat ==
    ASSUME NEW s \in Seq(Items), NEW t \in Seq(Items), NEW x
    PROVE  Contains(s \o t, x) <=> Contains(s, x) \/ Contains(t, x)
  <1> DEFINE st == s \o t
  <1>1. /\ Len(s) \in Nat
        /\ \A k \in 1..Len(s) : k \in 1..Len(st) /\ st[k] = s[k]
        /\ \A k \in 1..Len(t) : Len(s) + k \in 1..Len(st) /\ st[Len(s) + k] = t[k]
        /\ \A k \in 1..Len(st) : \/ k \in 1..Len(s)
                                 \/ k - Len(s) \in 1..Len(t) /\ Len(s) + (k - Len(s)) = k
    BY Positions
  <1> HIDE DEF st
  <1>2. Contains(s, x) \/ Contains(t, x) => Contains(st, x)
    BY <1>1 DEF Contains
  <1>3. ASSUME Contains(st, x) PROVE Contains(s, x) \/ Contains(t, x)
    <2>1. PICK k \in 1..Len(st) : st[k] = x
      BY <1>3 DEF Contains
    <2>2. CASE k \in 1..Len(s)
      BY <1>1, <2>1, <2>2 DEF Contains
    <2>3. CASE k - Len(s) \in 1..Len(t) /\ Len(s) + (k - Len(s)) = k
      <3>1. t[k - Len(s)] = x
        BY <1>1, <2>1, <2>3
      <3> QED  BY <2>3, <3>1 DEF Contains
    <2> QED  BY <1>1, <2>1, <2>2, <2>3
  <1> QED  BY <1>2, <1>3 DEF st

(* The parts of a line are in order, and the first is ahead. *)
LEMMA OrderedConcat ==
    ASSUME NEW acc, NEW a, NEW s \in Seq(Items), NEW t \in Seq(Items)
    PROVE  Ordered(acc, a, s \o t) <=> Ordered(acc, a, s) /\ Ordered(acc, a, t) /\ Ahead(acc, a, s, t)
  <1> DEFINE st == s \o t
  <1>0. PICK m \in Nat, n \in Nat : m = Len(s) /\ n = Len(t)
    OBVIOUS
  <1>1. /\ Len(st) = m + n
        /\ \A k \in 1..m : k \in 1..(m + n) /\ st[k] = s[k]
        /\ \A k \in 1..n : m + k \in 1..(m + n) /\ st[m + k] = t[k]
        /\ \A k \in 1..(m + n) : k \in 1..m \/ (k - m \in 1..n /\ m + (k - m) = k)
    BY <1>0, Positions
  <1> HIDE DEF st
  <1>2. ASSUME Ordered(acc, a, st) PROVE Ordered(acc, a, s) /\ Ordered(acc, a, t) /\ Ahead(acc, a, s, t)
    <2>1. Ordered(acc, a, s)
      BY <1>0, <1>1, <1>2 DEF Ordered
    <2>2. Ordered(acc, a, t)
      <3> SUFFICES ASSUME NEW k \in 1..n, NEW l \in 1..n, k < l, t[k][1] = a, t[l][1] = a
                   PROVE  After(acc, t[k][2], t[l][2])
        BY <1>0 DEF Ordered
      <3>1. m + k \in 1..(m + n) /\ m + l \in 1..(m + n) /\ st[m + k] = t[k] /\ st[m + l] = t[l]
        BY <1>1
      <3>2. m + k < m + l
        OBVIOUS
      <3> QED  BY <1>1, <1>2, <3>1, <3>2 DEF Ordered
    <2>3. Ahead(acc, a, s, t)
      <3> SUFFICES ASSUME NEW k \in 1..m, NEW l \in 1..n, s[k][1] = a, t[l][1] = a
                   PROVE  After(acc, s[k][2], t[l][2])
        BY <1>0 DEF Ahead
      <3>1. k < m + l
        OBVIOUS
      <3> QED  BY <1>1, <1>2, <3>1 DEF Ordered
    <2> QED  BY <2>1, <2>2, <2>3
  <1>3. ASSUME Ordered(acc, a, s), Ordered(acc, a, t), Ahead(acc, a, s, t) PROVE Ordered(acc, a, st)
    <2> SUFFICES ASSUME NEW k \in 1..(m + n), NEW l \in 1..(m + n), k < l, st[k][1] = a, st[l][1] = a
                 PROVE  After(acc, st[k][2], st[l][2])
      BY <1>1 DEF Ordered
    <2>1. CASE k \in 1..m /\ l \in 1..m
      BY <1>0, <1>1, <1>3, <2>1 DEF Ordered
    <2>2. CASE k \in 1..m /\ l - m \in 1..n /\ m + (l - m) = l
      <3>1. st[l] = t[l - m] /\ st[k] = s[k]
        BY <1>1, <2>2
      <3> QED  BY <1>0, <1>3, <2>2, <3>1 DEF Ahead
    <2>3. CASE k - m \in 1..n /\ m + (k - m) = k /\ l - m \in 1..n /\ m + (l - m) = l
      <3>1. st[l] = t[l - m] /\ st[k] = t[k - m] /\ k - m < l - m
        BY <1>1, <2>3, SMTT(30)
      <3> QED  BY <1>0, <1>3, <2>3, <3>1 DEF Ordered
    <2> QED  BY <1>1, <2>1, <2>2, <2>3
  <1> QED  BY <1>2, <1>3 DEF st

(* What is made of items of s stands where s stands. *)
LEMMA PartsAhead ==
    ASSUME NEW acc, NEW a, NEW s, NEW t, \A k \in 1..Len(t) : \E l \in 1..Len(s) : s[l] = t[k], NEW u
    PROVE  /\ Ahead(acc, a, s, u) => Ahead(acc, a, t, u)
           /\ Ahead(acc, a, u, s) => Ahead(acc, a, u, t)
  <1>1. ASSUME Ahead(acc, a, s, u), NEW k \in 1..Len(t), NEW m \in 1..Len(u), t[k][1] = a, u[m][1] = a
        PROVE  After(acc, t[k][2], u[m][2])
    <2>1. PICK l \in 1..Len(s) : s[l] = t[k]
      OBVIOUS
    <2> QED  BY <1>1, <2>1 DEF Ahead
  <1>2. ASSUME Ahead(acc, a, u, s), NEW k \in 1..Len(t), NEW m \in 1..Len(u), t[k][1] = a, u[m][1] = a
        PROVE  After(acc, u[m][2], t[k][2])
    <2>1. PICK l \in 1..Len(s) : s[l] = t[k]
      OBVIOUS
    <2> QED  BY <1>2, <2>1 DEF Ahead
  <1> QED  BY <1>1, <1>2 DEF Ahead

(* A concatenation is ahead when its parts are. *)
LEMMA AheadConcat ==
    ASSUME NEW acc, NEW a, NEW s \in Seq(Items), NEW t \in Seq(Items), NEW u
    PROVE  /\ Ahead(acc, a, s \o t, u) <=> Ahead(acc, a, s, u) /\ Ahead(acc, a, t, u)
           /\ Ahead(acc, a, u, s \o t) <=> Ahead(acc, a, u, s) /\ Ahead(acc, a, u, t)
  <1> DEFINE st == s \o t
  <1>1. /\ Len(s) \in Nat
        /\ \A k \in 1..Len(s) : k \in 1..Len(st) /\ st[k] = s[k]
        /\ \A k \in 1..Len(t) : Len(s) + k \in 1..Len(st) /\ st[Len(s) + k] = t[k]
        /\ \A k \in 1..Len(st) : \/ k \in 1..Len(s)
                                 \/ k - Len(s) \in 1..Len(t) /\ Len(s) + (k - Len(s)) = k
    BY Positions
  <1> HIDE DEF st
  <1>2. \A k \in 1..Len(st) : \/ \E l \in 1..Len(s) : st[k] = s[l]
                              \/ \E l \in 1..Len(t) : st[k] = t[l]
    BY <1>1
  <1>3. Ahead(acc, a, s, u) /\ Ahead(acc, a, t, u) => Ahead(acc, a, st, u)
    BY <1>2, SMTT(30) DEF Ahead
  <1>4. Ahead(acc, a, u, s) /\ Ahead(acc, a, u, t) => Ahead(acc, a, u, st)
    BY <1>2 DEF Ahead
  <1>5. /\ \A k \in 1..Len(s) : \E l \in 1..Len(st) : st[l] = s[k]
        /\ \A k \in 1..Len(t) : \E l \in 1..Len(st) : st[l] = t[k]
    BY <1>1
  <1>6. Ahead(acc, a, st, u) => Ahead(acc, a, s, u) /\ Ahead(acc, a, t, u)
    BY <1>5, PartsAhead
  <1>7. Ahead(acc, a, u, st) => Ahead(acc, a, u, s) /\ Ahead(acc, a, u, t)
    BY <1>5, PartsAhead
  <1> QED  BY <1>3, <1>4, <1>6, <1>7 DEF st

(* What a line keeps its parts keep. *)
LEMMA KeptConcat ==
    ASSUME NEW acc, NEW lst, NEW a, NEW s \in Seq(Items), NEW t \in Seq(Items)
    PROVE  Kept(acc, lst, a, s \o t) <=> Kept(acc, lst, a, s) /\ Kept(acc, lst, a, t)
  <1> DEFINE st == s \o t
  <1>1. /\ Len(s) \in Nat
        /\ \A k \in 1..Len(s) : k \in 1..Len(st) /\ st[k] = s[k]
        /\ \A k \in 1..Len(t) : Len(s) + k \in 1..Len(st) /\ st[Len(s) + k] = t[k]
        /\ \A k \in 1..Len(st) : \/ k \in 1..Len(s)
                                 \/ k - Len(s) \in 1..Len(t) /\ Len(s) + (k - Len(s)) = k
    BY Positions
  <1> HIDE DEF st
  <1>2. \A k \in 1..Len(st) : \/ \E l \in 1..Len(s) : st[k] = s[l]
                              \/ \E l \in 1..Len(t) : st[k] = t[l]
    BY <1>1
  <1>3. Kept(acc, lst, a, s) /\ Kept(acc, lst, a, t) => Kept(acc, lst, a, st)
    BY <1>2 DEF Kept
  <1>4. Kept(acc, lst, a, st) => Kept(acc, lst, a, s) /\ Kept(acc, lst, a, t)
    BY <1>1 DEF Kept
  <1> QED  BY <1>3, <1>4 DEF st

(* What does not belong to a does not matter to its line. *)
LEMMA ForeignParts ==
    ASSUME NEW acc, NEW lst, NEW a, NEW s, NEW t, Foreign(a, t)
    PROVE  /\ Ordered(acc, a, t) /\ Ahead(acc, a, s, t) /\ Ahead(acc, a, t, s) /\ Kept(acc, lst, a, t)
           /\ \A p : ~Contains(t, <<a, p>>)
  <1>1. Ordered(acc, a, t) /\ Ahead(acc, a, s, t) /\ Ahead(acc, a, t, s) /\ Kept(acc, lst, a, t)
    BY DEF Foreign, Ordered, Ahead, Kept
  <1>2. ASSUME NEW p PROVE ~Contains(t, <<a, p>>)
    <2>1. <<a, p>>[1] = a
      OBVIOUS
    <2> QED  BY <2>1 DEF Foreign, Contains
  <1> QED  BY <1>1, <1>2

(* Items of others come in between. *)
LEMMA ForeignBetween ==
    ASSUME NEW acc, NEW lst, NEW a, NEW s \in Seq(Items), NEW t \in Seq(Items), NEW u \in Seq(Items),
           Foreign(a, t), InLine(acc, lst, a, s \o u)
    PROVE  InLine(acc, lst, a, (s \o t) \o u)
  <1>0. s \o t \in Seq(Items)
    OBVIOUS
  <1>1. Ordered(acc, a, s) /\ Ordered(acc, a, u) /\ Ahead(acc, a, s, u)
    BY OrderedConcat DEF InLine
  <1>2. Kept(acc, lst, a, s) /\ Kept(acc, lst, a, u)
    BY KeptConcat DEF InLine
  <1>3. /\ Ordered(acc, a, t) /\ Ahead(acc, a, s, t) /\ Ahead(acc, a, t, u) /\ Kept(acc, lst, a, t)
    BY ForeignParts
  <1>4. Ordered(acc, a, s \o t) /\ Ahead(acc, a, s \o t, u) /\ Kept(acc, lst, a, s \o t)
    BY <1>1, <1>2, <1>3, OrderedConcat, AheadConcat, KeptConcat
  <1>5. Ordered(acc, a, (s \o t) \o u) /\ Kept(acc, lst, a, (s \o t) \o u)
    BY <1>0, <1>1, <1>2, <1>4, OrderedConcat, KeptConcat
  <1>6. ASSUME NEW x, Contains(s \o u, x) PROVE Contains((s \o t) \o u, x)
    <2>1. Contains(s, x) \/ Contains(u, x)
      BY <1>6, ContainsConcat
    <2>2. Contains(s, x) => Contains(s \o t, x)
      BY ContainsConcat
    <2> QED  BY <1>0, <2>1, <2>2, ContainsConcat
  <1> QED  BY <1>5, <1>6 DEF InLine

(* No payload follows itself. *)
LEMMA AheadApart ==
    ASSUME NEW acc, Distinct(acc), NEW a, NEW s, NEW t, Ahead(acc, a, s, t),
           NEW k \in 1..Len(s), NEW l \in 1..Len(t), s[k][1] = a
    PROVE  s[k] # t[l]
  <1> SUFFICES ASSUME s[k] = t[l] PROVE FALSE
    OBVIOUS
  <1>1. After(acc, s[k][2], s[k][2])
    BY DEF Ahead
  <1> QED  BY <1>1 DEF After, Distinct

(* A part of the line is dropped. *)
LEMMA PartDropped ==
    ASSUME NEW acc, NEW lst, NEW a, NEW s \in Seq(Items), NEW t \in Seq(Items), NEW u \in Seq(Items),
           InLine(acc, lst, a, (s \o t) \o u), NEW lst2,
           \A x : x[1] = a => (x \in lst2 <=> x \in lst \/ Contains(t, x))
    PROVE  InLine(acc, lst2, a, s \o u)
  <1>0. s \o t \in Seq(Items) /\ Distinct(acc)
    BY DEF InLine
  <1>1. Ordered(acc, a, s \o t) /\ Ordered(acc, a, u) /\ Ahead(acc, a, s \o t, u)
    BY <1>0, OrderedConcat DEF InLine
  <1>2. /\ Ordered(acc, a, s) /\ Ahead(acc, a, s, t) /\ Ahead(acc, a, s, u) /\ Ahead(acc, a, t, u)
    BY <1>1, OrderedConcat, AheadConcat
  <1>3. Ordered(acc, a, s \o u)
    BY <1>1, <1>2, OrderedConcat
  <1>4. Kept(acc, lst, a, s) /\ Kept(acc, lst, a, t) /\ Kept(acc, lst, a, u)
    BY <1>0, KeptConcat DEF InLine
  <1>5. Kept(acc, lst2, a, s)
    <2> SUFFICES ASSUME NEW k \in 1..Len(s), s[k][1] = a PROVE s[k] \notin lst2 /\ Contains(acc, s[k][2])
      BY DEF Kept
    <2>1. ~Contains(t, s[k])
      BY <1>0, <1>2, AheadApart DEF Contains
    <2> QED  BY <1>4, <2>1 DEF Kept
  <1>6. Kept(acc, lst2, a, u)
    <2> SUFFICES ASSUME NEW k \in 1..Len(u), u[k][1] = a PROVE u[k] \notin lst2 /\ Contains(acc, u[k][2])
      BY DEF Kept
    <2>1. ~Contains(t, u[k])
      <3> SUFFICES ASSUME NEW l \in 1..Len(t), t[l] = u[k] PROVE FALSE
        BY DEF Contains
      <3>1. t[l][1] = a
        OBVIOUS
      <3> QED  BY <1>0, <1>2, <3>1, AheadApart
    <2> QED  BY <1>4, <2>1 DEF Kept
  <1>7. Kept(acc, lst2, a, s \o u)
    BY <1>5, <1>6, KeptConcat
  <1>8. ASSUME NEW p, <<a, p>> \in lst2 PROVE Contains(acc, p)
    <2>0. <<a, p>>[1] = a /\ <<a, p>>[2] = p
      OBVIOUS
    <2>1. <<a, p>> \in lst \/ Contains(t, <<a, p>>)
      BY <1>8, <2>0
    <2>2. CASE Contains(t, <<a, p>>)
      <3>1. PICK k \in 1..Len(t) : t[k] = <<a, p>>
        BY <2>2 DEF Contains
      <3> QED  BY <1>4, <2>0, <3>1 DEF Kept
    <2> QED  BY <2>1, <2>2 DEF InLine
  <1>9. ASSUME NEW i \in 1..Len(acc) PROVE <<a, acc[i]>> \in lst2 \/ Contains(s \o u, <<a, acc[i]>>)
    <2>0. <<a, acc[i]>>[1] = a
      OBVIOUS
    <2>1. <<a, acc[i]>> \in lst \/ Contains((s \o t) \o u, <<a, acc[i]>>)
      BY DEF InLine
    <2>2. Contains((s \o t) \o u, <<a, acc[i]>>) =>
              \/ Contains(s, <<a, acc[i]>>) \/ Contains(t, <<a, acc[i]>>) \/ Contains(u, <<a, acc[i]>>)
      BY <1>0, ContainsConcat
    <2> QED  BY <2>0, <2>1, <2>2, ContainsConcat
  <1> QED  BY <1>0, <1>3, <1>7, <1>8, <1>9 DEF InLine

(* A new payload is accepted and joins the end of the line. *)
LEMMA PayloadJoins ==
    ASSUME NEW acc \in Seq(Payloads), NEW lst, NEW a \in Adapters, NEW s \in Seq(Items), NEW p \in Payloads,
           InLine(acc, lst, a, s), ~Contains(acc, p)
    PROVE  InLine(Append(acc, p), lst, a, s \o << <<a, p>> >>)
  <1>0. PICK acc2 \in Seq(Payloads), n \in Nat, x \in Items, t \in Seq(Items) :
            /\ acc2 = Append(acc, p) /\ n = Len(acc) /\ x = <<a, p>> /\ x[1] = a /\ x[2] = p
            /\ t = <<x>> /\ Len(t) = 1 /\ t[1] = x
    <2>1. Append(acc, p) \in Seq(Payloads) /\ Len(acc) \in Nat
      OBVIOUS
    <2>2. PICK x \in Items : x = <<a, p>> /\ x[1] = a /\ x[2] = p
      <3>1. <<a, p>> \in Items
        BY DEF Items
      <3>2. <<a, p>>[1] = a /\ <<a, p>>[2] = p
        OBVIOUS
      <3> QED  BY <3>1, <3>2
    <2>3. <<x>> \in Seq(Items) /\ Len(<<x>>) = 1 /\ <<x>>[1] = x
      OBVIOUS
    <2> QED  BY <2>1, <2>2, <2>3
  <1>1. /\ Len(acc2) = n + 1 /\ acc2[n + 1] = p
        /\ \A i \in 1..n : acc2[i] = acc[i] /\ i \in 1..(n + 1)
        /\ \A i \in 1..(n + 1) : i \in 1..n \/ i = n + 1
        /\ n + 1 \in 1..(n + 1)
    BY <1>0
  <1>2. ASSUME NEW q, Contains(acc, q) PROVE Contains(acc2, q) /\ After(acc2, q, p)
    <2>1. PICK i \in 1..n : acc[i] = q
      BY <1>0, <1>2 DEF Contains
    <2>2. acc2[i] = q /\ i < n + 1 /\ i \in 1..(n + 1)
      BY <1>1, <2>1
    <2> QED  BY <1>1, <2>2 DEF Contains, After
  <1>3. ASSUME NEW q, NEW r, After(acc, q, r) PROVE After(acc2, q, r)
    <2>1. PICK i \in 1..n, j \in 1..n : i < j /\ acc[i] = q /\ acc[j] = r
      BY <1>0, <1>3 DEF After
    <2>2. acc2[i] = q /\ acc2[j] = r /\ i \in 1..(n + 1) /\ j \in 1..(n + 1)
      BY <1>1, <2>1
    <2> QED  BY <1>1, <2>1, <2>2 DEF After
  <1>4. Distinct(acc2)
    <2> SUFFICES ASSUME NEW i \in 1..(n + 1), NEW j \in 1..(n + 1), acc2[i] = acc2[j] PROVE i = j
      BY <1>1 DEF Distinct
    <2>1. CASE i \in 1..n /\ j \in 1..n
      BY <1>0, <1>1, <2>1 DEF InLine, Distinct
    <2>2. CASE i \in 1..n /\ j = n + 1
      BY <1>0, <1>1, <2>2 DEF Contains
    <2>3. CASE i = n + 1 /\ j \in 1..n
      BY <1>0, <1>1, <2>3 DEF Contains
    <2> QED  BY <1>1, <2>1, <2>2, <2>3
  <1>5. Ordered(acc2, a, s)
    BY <1>3 DEF InLine, Ordered
  <1>6. Ahead(acc2, a, s, t)
    <2>1. \A k \in 1..Len(s) : s[k][1] = a => Contains(acc, s[k][2])
      BY DEF InLine, Kept
    <2> QED  BY <1>0, <1>2, <2>1 DEF Ahead
  <1>7. Ordered(acc2, a, t)
    BY <1>0 DEF Ordered
  <1>8. Ordered(acc2, a, s \o t)
    BY <1>5, <1>6, <1>7, OrderedConcat
  <1>9. Kept(acc2, lst, a, s \o t)
    <2>1. Kept(acc2, lst, a, s)
      BY <1>2 DEF InLine, Kept
    <2>2. Kept(acc2, lst, a, t)
      <3>1. x \notin lst
        BY <1>0 DEF InLine
      <3>2. Contains(acc2, p)
        BY <1>1 DEF Contains
      <3>3. \A k \in 1..Len(t) : t[k] = x
        BY <1>0
      <3> QED  BY <1>0, <3>1, <3>2, <3>3 DEF Kept
    <2> QED  BY <2>1, <2>2, KeptConcat
  <1>10. ASSUME NEW i \in 1..Len(acc2)
         PROVE  <<a, acc2[i]>> \in lst \/ Contains(s \o t, <<a, acc2[i]>>)
    <2>1. CASE i \in 1..n
      <3>1. <<a, acc[i]>> \in lst \/ Contains(s, <<a, acc[i]>>)
        BY <1>0, <2>1 DEF InLine
      <3> QED  BY <1>1, <2>1, <3>1, ContainsConcat
    <2>2. CASE i = n + 1
      <3>1. Contains(t, <<a, acc2[i]>>)
        BY <1>0, <1>1, <2>2 DEF Contains
      <3> QED  BY <3>1, ContainsConcat
    <2> QED  BY <1>1, <2>1, <2>2
  <1>11. \A q : <<a, q>> \in lst => Contains(acc2, q)
    BY <1>2 DEF InLine
  <1>12. InLine(acc2, lst, a, s \o t)
    BY <1>4, <1>8, <1>9, <1>10, <1>11 DEF InLine
  <1> QED  BY <1>0, <1>12

(* The payloads w that a still holds, as items of its line. *)
Waiting(a, w) == [i \in 1..Len(w) |-> <<a, w[i]>>]

(* What waits, when a payload comes and when the oldest one goes. *)
LEMMA WaitingItems ==
    ASSUME NEW a \in Adapters, NEW w \in Seq(Payloads)
    PROVE  /\ Waiting(a, w) \in Seq(Items)
           /\ \A p \in Payloads : /\ <<a, p>> \in Items
                                  /\ << <<a, p>> >> \in Seq(Items)
                                  /\ Waiting(a, Append(w, p)) = Waiting(a, w) \o << <<a, p>> >>
           /\ w # << >> => Waiting(a, w) = << <<a, Head(w)>> >> \o Waiting(a, Tail(w))
  <1>1. ASSUME NEW v \in Seq(Payloads)
        PROVE  /\ Waiting(a, v) \in Seq(Items) /\ Len(Waiting(a, v)) = Len(v)
               /\ \A i \in 1..Len(v) : Waiting(a, v)[i] = <<a, v[i]>>
    <2>1. PICK n \in Nat : n = Len(v)
      OBVIOUS
    <2>2. \A i \in 1..n : <<a, v[i]>> \in Items
      BY <2>1 DEF Items
    <2>3. [i \in 1..n |-> <<a, v[i]>>] \in Seq(Items) /\ Len([i \in 1..n |-> <<a, v[i]>>]) = n
      BY <2>2
    <2> QED  BY <2>1, <2>3 DEF Waiting
  <1>2. ASSUME NEW p \in Payloads
        PROVE  /\ <<a, p>> \in Items /\ << <<a, p>> >> \in Seq(Items)
               /\ Waiting(a, Append(w, p)) = Waiting(a, w) \o << <<a, p>> >>
    <2>1. PICK x \in Items : x = <<a, p>>
      BY DEF Items
    <2>2. Append(w, p) \in Seq(Payloads) /\ <<x>> \in Seq(Items)
      OBVIOUS
    <2>3. PICK n \in Nat, s \in Seq(Items), t \in Seq(Items) :
              /\ n = Len(w) /\ s = Waiting(a, Append(w, p)) /\ t = Waiting(a, w)
              /\ Len(s) = Len(Append(w, p)) /\ Len(t) = Len(w)
      <3>1. Waiting(a, w) \in Seq(Items) /\ Len(Waiting(a, w)) = Len(w)
        BY <1>1
      <3>2. Waiting(a, Append(w, p)) \in Seq(Items) /\ Len(Waiting(a, Append(w, p))) = Len(Append(w, p))
        BY <1>1, <2>2
      <3>3. Len(w) \in Nat
        OBVIOUS
      <3> QED  BY <3>1, <3>2, <3>3
    <2>4. Len(s) = n + 1 /\ Len(t) = n
      BY <2>3
    <2>5. t \o <<x>> \in Seq(Items) /\ Len(t \o <<x>>) = n + 1
      BY <2>4
    <2>6. ASSUME NEW i \in 1..(n + 1) PROVE s[i] = (t \o <<x>>)[i]
      <3>1. s[i] = <<a, Append(w, p)[i]>>
        BY <1>1, <2>2, <2>3, <2>4
      <3>2. CASE i \in 1..n
        <4>1. Append(w, p)[i] = w[i] /\ (t \o <<x>>)[i] = t[i]
          BY <2>3, <2>4, <3>2
        <4> QED  BY <1>1, <2>3, <3>1, <3>2, <4>1
      <3>3. CASE i = n + 1
        <4>1. Append(w, p)[i] = p /\ (t \o <<x>>)[i] = x
          BY <2>3, <2>4, <3>3
        <4> QED  BY <2>1, <3>1, <4>1
      <3>4. i \in 1..n \/ i = n + 1
        OBVIOUS
      <3> QED  BY <3>2, <3>3, <3>4
    <2>7. s = t \o <<x>>
      BY <2>4, <2>5, <2>6, SeqEqual
    <2> QED  BY <2>1, <2>2, <2>3, <2>7
  <1>3. ASSUME w # << >> PROVE Waiting(a, w) = << <<a, Head(w)>> >> \o Waiting(a, Tail(w))
    <2>1. Head(w) \in Payloads /\ Tail(w) \in Seq(Payloads) /\ Len(Tail(w)) = Len(w) - 1
      BY <1>3
    <2>2. PICK x \in Items : x = <<a, Head(w)>> /\ <<x>> \in Seq(Items)
      BY <1>2, <2>1
    <2>3. PICK n \in Nat, s \in Seq(Items), t \in Seq(Items) :
              n = Len(w) /\ s = Waiting(a, w) /\ t = Waiting(a, Tail(w)) /\ n > 0
      <3>1. Waiting(a, w) \in Seq(Items) /\ Waiting(a, Tail(w)) \in Seq(Items)
        BY <1>1, <2>1
      <3>2. Len(w) \in Nat /\ Len(w) > 0
        BY <1>3
      <3> QED  BY <3>1, <3>2
    <2>4. Len(s) = n /\ Len(t) = n - 1
      BY <1>1, <2>1, <2>3
    <2>5. <<x>> \o t \in Seq(Items) /\ Len(<<x>> \o t) = n
      BY <2>4
    <2>6. ASSUME NEW i \in 1..n PROVE s[i] = (<<x>> \o t)[i]
      <3>1. s[i] = <<a, w[i]>>
        BY <1>1, <2>3
      <3>2. CASE i = 1
        <4>1. w[i] = Head(w) /\ (<<x>> \o t)[i] = x
          BY <2>3, <2>4, <3>2
        <4> QED  BY <2>2, <3>1, <4>1
      <3>3. CASE i # 1
        <4>1. i - 1 \in 1..Len(Tail(w)) /\ i - 1 \in 1..Len(t) /\ i = (i - 1) + 1
          BY <2>1, <2>3, <2>4, <3>3
        <4>2. Tail(w)[i - 1] = w[i]
          BY <1>3, <4>1
        <4>3. (<<x>> \o t)[i] = t[i - 1]
          BY <2>4, <3>3, <4>1
        <4>4. t[i - 1] = <<a, Tail(w)[i - 1]>>
          BY <1>1, <2>1, <2>3, <4>1
        <4> QED  BY <3>1, <4>2, <4>3, <4>4
      <3> QED  BY <3>2, <3>3
    <2>7. s = <<x>> \o t
      BY <2>4, <2>5, <2>6, SeqEqual
    <2> QED  BY <2>2, <2>3, <2>7
  <1> QED  BY <1>1, <1>2, <1>3

(* Concatenations of items may be regrouped. *)
LEMMA Regroup ==
    ASSUME NEW s \in Seq(Items), NEW t \in Seq(Items), NEW u \in Seq(Items)
    PROVE  (s \o t) \o u = s \o (t \o u)
  BY ConcatAssociative

(* The line of a is its three parts. *)
LEMMA LineParts ==
    ASSUME LoopInv, DeliveryInv, NEW a \in Webhooks
    PROVE  /\ a \in Adapters /\ pending[a] \in Seq(Payloads) /\ Waiting(a, pending[a]) \in Seq(Items)
           /\ submitted \in Seq(Items) /\ dispatches \in Seq(Items)
           /\ accepted[a] \in Seq(Payloads)
           /\ InLine(accepted[a], lost, a, (submitted \o dispatches) \o Waiting(a, pending[a]))
  <1>1. /\ a \in Adapters /\ pending[a] \in Seq(Payloads) /\ accepted[a] \in Seq(Payloads)
        /\ submitted \in Seq(Items) /\ dispatches \in Seq(Items)
    BY AdapterKinds DEF LoopInv, LoopTypeOK
  <1>2. Waiting(a, pending[a]) \in Seq(Items)
    BY <1>1, WaitingItems
  <1>3. InLine(accepted[a], lost, a, Line(a))
    BY DEF DeliveryInv
  <1> QED  BY <1>1, <1>2, <1>3 DEF Line, Waiting

(* A sequence and nothing. *)
LEMMA NothingAdded ==
    ASSUME NEW s \in Seq(Items)
    PROVE  s \o << >> = s /\ << >> \in Seq(Items) /\ \A a : Foreign(a, << >>)
  BY ConcatEmptySeq DEF Foreign

(* The items a sequence contains are its range. *)
LEMMA RangeContains ==
    ASSUME NEW s \in Seq(Items), NEW x
    PROVE  x \in Range(s) <=> Contains(s, x)
  <1>1. DOMAIN s = 1..Len(s)
    OBVIOUS
  <1> QED  BY <1>1 DEF Range, Contains

(* A payload is accepted while others are under way. *)
LEMMA IngestDelivers ==
    ASSUME LoopInv, DeliveryInv, NEW b \in Adapters, NEW p \in Payloads, Ingest(b, p)
    PROVE  DeliveryInv'
  <1>1. /\ b \in Webhooks /\ p \notin Delivered
        /\ pending' = [pending EXCEPT ![b] = Append(pending[b], p)]
        /\ accepted' = [accepted EXCEPT ![b] = Append(accepted[b], p)]
        /\ UNCHANGED <<submitted, dispatches, lost>>
    BY DEF Ingest, EnqueuePayload, loopVars
  <1>2. pending \in [Adapters -> Seq(Payloads)] /\ accepted \in [Adapters -> Seq(Payloads)]
    BY DEF LoopInv, LoopTypeOK
  <1>3. ASSUME NEW a \in Webhooks PROVE InLine(accepted'[a], lost', a, Line(a)')
    <2>1. PICK s \in Seq(Items), d \in Seq(Items), w \in Seq(Payloads), acc \in Seq(Payloads) :
              /\ s = submitted /\ d = dispatches /\ w = pending[a] /\ acc = accepted[a]
              /\ a \in Adapters /\ Waiting(a, w) \in Seq(Items)
              /\ InLine(acc, lost, a, (s \o d) \o Waiting(a, w))
      BY LineParts
    <2>0. Line(a)' = (submitted' \o dispatches') \o Waiting(a, pending'[a])
      BY DEF Line, Waiting
    <2>2. CASE a # b
      <3>1. pending'[a] = w /\ accepted'[a] = acc
        BY <1>1, <1>2, <2>1, <2>2
      <3>2. Line(a)' = (s \o d) \o Waiting(a, w)
        BY <1>1, <2>0, <2>1, <3>1
      <3> QED  BY <1>1, <2>1, <3>1, <3>2
    <2>3. CASE a = b
      <3>1. pending'[a] = Append(w, p) /\ accepted'[a] = Append(acc, p)
        BY <1>1, <1>2, <2>1, <2>3
      <3>2. Line(a)' = (s \o d) \o Waiting(a, Append(w, p))
        BY <1>1, <2>0, <2>1, <3>1
      <3>3. << <<a, p>> >> \in Seq(Items) /\ Waiting(a, Append(w, p)) = Waiting(a, w) \o << <<a, p>> >>
        BY <2>1, WaitingItems
      <3>4. s \o d \in Seq(Items)
        OBVIOUS
      <3>5. Line(a)' = ((s \o d) \o Waiting(a, w)) \o << <<a, p>> >>
        <4>1. PICK sd \in Seq(Items), u \in Seq(Items), x \in Seq(Items) :
                  sd = s \o d /\ u = Waiting(a, w) /\ x = << <<a, p>> >>
          BY <2>1, <3>3, <3>4
        <4>2. (sd \o u) \o x = sd \o (u \o x)
          BY Regroup, ZenonT(40)
        <4> QED  BY <3>2, <3>3, <4>1, <4>2
      <3>6. ~Contains(acc, p)
        BY <1>1, <2>1 DEF Delivered, Contains
      <3>7. (s \o d) \o Waiting(a, w) \in Seq(Items)
        BY <2>1, <3>4
      <3>8. InLine(Append(acc, p), lost, a, ((s \o d) \o Waiting(a, w)) \o << <<a, p>> >>)
        BY <2>1, <3>6, <3>7, PayloadJoins
      <3> QED  BY <1>1, <3>1, <3>5, <3>8
    <2> QED  BY <2>2, <2>3
  <1> QED  BY <1>3 DEF DeliveryInv

(* A minute is dispatched, on no webhook's line. *)
LEMMA FiringDelivers ==
    ASSUME LoopInv, LoopInv', DeliveryInv, PollCron PROVE DeliveryInv'
  <1>1. /\ pc = "poll" /\ cur \in Crons /\ UNCHANGED <<pending, accepted, submitted, lost>>
        /\ dispatches = << >>
        /\ \/ cur' = cur
           \/ dispatches' = dispatches
    BY DEF PollCron, LoopInv, Dispatching
  <1>2. ASSUME NEW a \in Webhooks PROVE InLine(accepted'[a], lost', a, Line(a)')
    <2>1. PICK s \in Seq(Items), d \in Seq(Items), u \in Seq(Items) :
              /\ s = submitted /\ d = dispatches' /\ u = Waiting(a, pending[a])
              /\ InLine(accepted[a], lost, a, (s \o << >>) \o u)
      BY <1>1, LineParts DEF LoopInv, LoopTypeOK
    <2>2. Foreign(a, d)
      <3>1. CASE d = << >>
        BY <3>1 DEF Foreign
      <3>2. CASE cur' = cur
        BY <1>1, <2>1, <3>2, AdapterKinds DEF LoopInv, Dispatching, Foreign
      <3> QED  BY <1>1, <2>1, <3>1, <3>2
    <2>3. Line(a)' = (s \o d) \o u
      BY <1>1, <2>1 DEF Line, Waiting
    <2>4. InLine(accepted[a], lost, a, s \o u)
      BY <2>1, NothingAdded
    <2> QED  BY <1>1, <2>2, <2>3, <2>4, ForeignBetween
  <1> QED  BY <1>2 DEF DeliveryInv

(* The next dispatch becomes the latest submission: the line is the same. *)
LEMMA SubmitDelivers == ASSUME LoopInv, DeliveryInv, Submit PROVE DeliveryInv'
  <1>1. /\ dispatches # << >> /\ UNCHANGED <<pending, accepted, lost>>
        /\ submitted' = Append(submitted, Head(dispatches)) /\ dispatches' = Tail(dispatches)
    BY DEF Submit
  <1>2. submitted' \o dispatches' = submitted \o dispatches
    <2>1. PICK s \in Seq(Items), d \in Seq(Items) : s = submitted /\ d = dispatches /\ d # << >>
      BY <1>1 DEF LoopInv, LoopTypeOK
    <2>2. Append(s, Head(d)) \o Tail(d) = s \o d
      BY <2>1
    <2> QED  BY <1>1, <2>1, <2>2
  <1>3. ASSUME NEW a \in Webhooks PROVE InLine(accepted'[a], lost', a, Line(a)')
    <2>1. Line(a)' = Line(a)
      BY <1>1, <1>2 DEF Line
    <2> QED  BY <1>1, <2>1 DEF DeliveryInv
  <1> QED  BY <1>3 DEF DeliveryInv

(* Dispatches are dropped with what else is taken off the line: those of    *)
(* other adapters do not matter.                                            *)
LEMMA DropDelivers ==
    ASSUME NEW acc, NEW lst, NEW a, NEW s \in Seq(Items), NEW d \in Seq(Items), NEW u \in Seq(Items),
           NEW v \in Seq(Items), NEW x \in Seq(Items),
           InLine(acc, lst, a, (s \o d) \o u),
           u = x \o v \/ (Foreign(a, x) /\ u = v)
    PROVE  InLine(acc, lst \cup Range(d) \cup Range(x), a, s \o v)
  <1>0. /\ d \o x \in Seq(Items) /\ s \o d \in Seq(Items) /\ s \o v \in Seq(Items)
    OBVIOUS
  <1>1. \A y : y \in lst \cup Range(d) \cup Range(x) <=> y \in lst \/ Contains(d, y) \/ Contains(x, y)
    BY RangeContains
  <1>2. CASE u = x \o v
    <2>1. (s \o d) \o u = (s \o (d \o x)) \o v
      <3>1. ((s \o d) \o x) \o v = (s \o d) \o (x \o v)
        <4>1. PICK sd \in Seq(Items) : sd = s \o d
          BY <1>0
        <4>2. (sd \o x) \o v = sd \o (x \o v)
          BY Regroup, ZenonT(40)
        <4> QED  BY <4>1, <4>2
      <3>2. (s \o d) \o x = s \o (d \o x)
        BY Regroup, ZenonT(40)
      <3> QED  BY <1>2, <3>1, <3>2
    <2>2. \A y : Contains(d \o x, y) <=> Contains(d, y) \/ Contains(x, y)
      BY ContainsConcat
    <2>3. InLine(acc, lst, a, (s \o (d \o x)) \o v)
      BY <2>1
    <2> DEFINE lst2 == lst \cup Range(d) \cup Range(x)
    <2>4. \A y : y[1] = a => (y \in lst2 <=> y \in lst \/ Contains(d \o x, y))
      BY <1>1, <2>2
    <2> HIDE DEF lst2
    <2>5. InLine(acc, lst2, a, s \o v)
      BY <1>0, <2>3, <2>4, PartDropped
    <2> QED  BY <2>5 DEF lst2
  <1>3. CASE Foreign(a, x) /\ u = v
    <2>1. InLine(acc, lst, a, (s \o d) \o v)
      BY <1>3
    <2> DEFINE lst2 == lst \cup Range(d) \cup Range(x)
    <2>2. \A y : y[1] = a => ~Contains(x, y)
      BY <1>3 DEF Foreign, Contains
    <2>3. \A y : y[1] = a => (y \in lst2 <=> y \in lst \/ Contains(d, y))
      BY <1>1, <2>2
    <2> HIDE DEF lst2
    <2>4. InLine(acc, lst2, a, s \o v)
      BY <2>1, <2>3, PartDropped
    <2> QED  BY <2>4 DEF lst2
  <1> QED  BY <1>2, <1>3

(* The oldest waiting payload is dispatched, or drops the poll's payloads. *)
LEMMA PopDelivers == ASSUME LoopInv, DeliveryInv, PopPayload PROVE DeliveryInv'
  <1>1. /\ pc = "poll" /\ cur \in Webhooks /\ pending[cur] # << >>
        /\ pending' = [pending EXCEPT ![cur] = Tail(pending[cur])]
        /\ UNCHANGED <<submitted, accepted>>
        /\ \/ /\ dispatches' = << >>
              /\ lost' = lost \cup Range(dispatches) \cup {<<cur, Head(pending[cur])>>}
           \/ /\ dispatches' = Append(dispatches, <<cur, Head(pending[cur])>>)
              /\ lost' = lost
    BY DEF PopPayload
  <1>2. PICK c \in Webhooks, q \in Seq(Payloads), x \in Items :
            /\ c = cur /\ q = pending[c] /\ q # << >> /\ c \in Adapters
            /\ x = <<c, Head(q)>> /\ x[1] = c
    <2>1. cur \in Adapters /\ pending[cur] \in Seq(Payloads)
      BY <1>1, LineParts
    <2>2. Head(pending[cur]) \in Payloads
      BY <1>1, <2>1
    <2>3. <<cur, Head(pending[cur])>> \in Items
      BY <2>1, <2>2 DEF Items
    <2>4. <<cur, Head(pending[cur])>>[1] = cur
      OBVIOUS
    <2> QED  BY <1>1, <2>1, <2>3, <2>4
  <1>3. pending \in [Adapters -> Seq(Payloads)]
    BY DEF LoopInv, LoopTypeOK
  <1>4. Tail(q) \in Seq(Payloads) /\ Waiting(c, q) = <<x>> \o Waiting(c, Tail(q)) /\ <<x>> \in Seq(Items)
    <2>1. Tail(q) \in Seq(Payloads) /\ <<x>> \in Seq(Items)
      BY <1>2
    <2>2. Waiting(c, q) = << <<c, Head(q)>> >> \o Waiting(c, Tail(q))
      BY <1>2, WaitingItems
    <2> QED  BY <1>2, <2>1, <2>2
  <1>5. ASSUME NEW a \in Webhooks PROVE InLine(accepted'[a], lost', a, Line(a)')
    <2>0. Line(a)' = (submitted' \o dispatches') \o Waiting(a, pending'[a])
      BY DEF Line, Waiting
    <2>1. PICK s \in Seq(Items), d \in Seq(Items), u \in Seq(Items) :
              /\ s = submitted /\ d = dispatches /\ u = Waiting(a, pending[a]) /\ a \in Adapters
              /\ InLine(accepted[a], lost, a, (s \o d) \o u)
      BY LineParts
    <2>2. PICK v \in Seq(Items) : v = Waiting(a, pending'[a]) /\ IF a = c THEN u = <<x>> \o v ELSE u = v
      <3>1. CASE a = c
        <4>1. pending'[a] = Tail(q)
          BY <1>1, <1>2, <1>3, <3>1
        <4> QED  BY <1>2, <1>4, <2>1, <3>1, <4>1, WaitingItems
      <3>2. CASE a # c
        <4>1. pending'[a] = pending[a]
          BY <1>1, <1>2, <1>3, <3>2
        <4> QED  BY <2>1, <3>2, <4>1
      <3> QED  BY <3>1, <3>2
    <2>3. Len(<<x>>) = 1 /\ <<x>>[1] = x
      OBVIOUS
    <2>4. a # c => Foreign(a, <<x>>)
      BY <1>2, <2>3 DEF Foreign
    <2>5. CASE /\ dispatches' = << >>
               /\ lost' = lost \cup Range(dispatches) \cup {<<cur, Head(pending[cur])>>}
      <3>1. Range(<<x>>) = {x}
        <4>1. DOMAIN <<x>> = 1..1
          OBVIOUS
        <4> QED  BY <2>3, <4>1 DEF Range
      <3>2. lost' = lost \cup Range(d) \cup Range(<<x>>)
        BY <1>2, <2>1, <2>5, <3>1
      <3>3. Line(a)' = s \o v
        BY <1>1, <2>0, <2>1, <2>2, <2>5, NothingAdded
      <3>4. InLine(accepted[a], lost \cup Range(d) \cup Range(<<x>>), a, s \o v)
        <4>0. PICK acc, lst : acc = accepted[a] /\ lst = lost
          OBVIOUS
        <4>1. PICK xs \in Seq(Items) : xs = <<x>>
          BY <1>4
        <4>2. u = xs \o v \/ (Foreign(a, xs) /\ u = v)
          BY <2>2, <2>4, <4>1
        <4>3. InLine(acc, lst, a, (s \o d) \o u)
          BY <2>1, <4>0
        <4>4. InLine(acc, lst \cup Range(d) \cup Range(xs), a, s \o v)
          BY <4>2, <4>3, DropDelivers
        <4> QED  BY <4>0, <4>1, <4>4
      <3> QED  BY <1>1, <3>2, <3>3, <3>4
    <2>6. CASE /\ dispatches' = Append(dispatches, <<cur, Head(pending[cur])>>)
               /\ lost' = lost
      <3>1. dispatches' = d \o <<x>>
        BY <1>2, <2>1, <2>6, AppendIsConcat
      <3>2. s \o d \in Seq(Items)
        OBVIOUS
      <3>3. Line(a)' = ((s \o d) \o <<x>>) \o v
        <4>1. s \o (d \o <<x>>) = (s \o d) \o <<x>>
          BY <1>4, Regroup, ZenonT(40)
        <4> QED  BY <1>1, <2>0, <2>1, <2>2, <3>1, <4>1
      <3>4. CASE a = c
        <4>1. ((s \o d) \o <<x>>) \o v = (s \o d) \o u
          <5>1. ((s \o d) \o <<x>>) \o v = (s \o d) \o (<<x>> \o v)
            BY <1>4, <3>2, Regroup, ZenonT(40)
          <5> QED  BY <2>2, <3>4, <5>1
        <4> QED  BY <1>1, <2>1, <2>6, <3>3, <4>1
      <3>5. CASE a # c
        <4>0. PICK acc, lst : acc = accepted[a] /\ lst = lost
          OBVIOUS
        <4>1. PICK xs \in Seq(Items), sd \in Seq(Items) : xs = <<x>> /\ sd = s \o d
          BY <1>4, <3>2
        <4>2. InLine(acc, lst, a, sd \o v) /\ Foreign(a, xs)
          BY <2>1, <2>2, <2>4, <3>5, <4>0, <4>1
        <4>3. InLine(acc, lst, a, (sd \o xs) \o v)
          BY <4>2, ForeignBetween
        <4> QED  BY <1>1, <2>6, <3>3, <4>0, <4>1, <4>3
      <3> QED  BY <3>4, <3>5
    <2> QED  BY <1>1, <2>5, <2>6
  <1> QED  BY <1>5 DEF DeliveryInv

(* A raising sink drops the dispatches in hand. *)
LEMMA RaiseDelivers == ASSUME LoopInv, DeliveryInv, SubmitRaises PROVE DeliveryInv'
  <1>1. /\ UNCHANGED <<pending, accepted, submitted>>
        /\ dispatches' = << >> /\ lost' = lost \cup Range(dispatches)
    BY DEF SubmitRaises
  <1>2. ASSUME NEW a \in Webhooks PROVE InLine(accepted'[a], lost', a, Line(a)')
    <2>1. PICK s \in Seq(Items), d \in Seq(Items), u \in Seq(Items) :
              /\ s = submitted /\ d = dispatches /\ u = Waiting(a, pending[a])
              /\ InLine(accepted[a], lost, a, (s \o d) \o u)
      BY LineParts
    <2>2. Line(a)' = (submitted' \o dispatches') \o Waiting(a, pending'[a])
      BY DEF Line, Waiting
    <2>3. Line(a)' = s \o u
      BY <1>1, <2>1, <2>2, NothingAdded
    <2>4. PICK acc, lst, lst2 : acc = accepted[a] /\ lst = lost /\ lst2 = lost'
      OBVIOUS
    <2>5. \A x : x[1] = a => (x \in lst2 <=> x \in lst \/ Contains(d, x))
      BY <1>1, <2>1, <2>4, RangeContains
    <2>6. InLine(acc, lst, a, (s \o d) \o u)
      BY <2>1, <2>4
    <2>7. InLine(acc, lst2, a, s \o u)
      BY <2>5, <2>6, PartDropped
    <2> QED  BY <1>1, <2>3, <2>4, <2>7
  <1> QED  BY <1>2 DEF DeliveryInv

(* At the start nothing is accepted and the lines are empty. *)
LEMMA DeliveryInitial == Init => DeliveryInv
  <1> SUFFICES ASSUME Init, NEW a \in Webhooks PROVE InLine(accepted[a], lost, a, Line(a))
    BY DEF DeliveryInv
  <1>1. /\ a \in Adapters /\ accepted[a] = << >> /\ pending[a] = << >> /\ lost = {}
        /\ submitted = << >> /\ dispatches = << >>
    BY AdapterKinds DEF Init
  <1>2. Line(a) = << >>
    <2>1. [i \in 1..Len(pending[a]) |-> <<a, pending[a][i]>>] = << >>
      BY <1>1
    <2> QED  BY <1>1, <2>1 DEF Line
  <1>3. Len(accepted[a]) = 0 /\ Len(Line(a)) = 0
    BY <1>1, <1>2
  <1> QED  BY <1>1, <1>3 DEF InLine, Distinct, Kept, Ordered

(* Every step keeps the lines in order. *)
LEMMA DeliveryStep == LoopInv /\ LoopInv' /\ DeliveryInv /\ [Next]_vars => DeliveryInv'
  <1> SUFFICES ASSUME LoopInv, LoopInv', DeliveryInv, [Next]_vars PROVE DeliveryInv'
    OBVIOUS
  <1>1. ASSUME UNCHANGED <<pending, accepted, dispatches, submitted, lost>> PROVE DeliveryInv'
    BY <1>1 DEF DeliveryInv, Line
  <1>2. ASSUME NEW a \in Adapters, NEW p \in Payloads, Ingest(a, p) PROVE DeliveryInv'
    BY <1>2, IngestDelivers
  <1>3. CASE UNCHANGED vars \/ SetStop \/ Tick \/ BeginCycle \/ PollDone \/ SubmitDone \/ EndCycle \/ Wake
    <2>1. UNCHANGED <<pending, accepted, dispatches, submitted, lost>>
      BY <1>3 DEF vars, loopVars, SetStop, Tick, BeginCycle, PollDone, SubmitDone, EndCycle, Wake
    <2> QED  BY <1>1, <2>1
  <1>4. CASE PollCron
    BY <1>4, FiringDelivers
  <1>5. CASE PopPayload
    BY <1>5, PopDelivers
  <1>6. CASE Submit
    BY <1>6, SubmitDelivers
  <1>7. CASE SubmitRaises
    BY <1>7, RaiseDelivers
  <1> QED  BY <1>2, <1>3, <1>4, <1>5, <1>6, <1>7 DEF Next, Loop

(* Accepted payloads are neither duplicated nor reordered, and none         *)
(* vanishes but those a failing poll or submission drops: for any number of *)
(* adapters and payloads, and however deliveries and polls interleave.      *)
THEOREM DeliveryTheorem == Spec => []DeliveryInOrder
  <1>1. LoopInv /\ DeliveryInv => DeliveryInOrder
    BY DEF DeliveryInv, InLine, Kept, Ordered, After, Older, DeliveryInOrder
  <1>2. Spec => []DeliveryInv
    BY LoopInvariant, DeliveryInitial, DeliveryStep, PTL DEF Spec
  <1> QED  BY <1>1, <1>2, LoopInvariant, PTL


-----------------------------------------------------------------------------
(* CronSchedule, for every expression and every time.                       *)

(* A set of natural numbers has a least element. *)
LEMMA LeastOf ==
  ASSUME NEW S \in SUBSET Nat, S # {}
  PROVE  Min(S) \in S /\ \A j \in S : Min(S) <= j
  <1>1. IsWellFoundedOn(OpToRel(<, Nat), Nat)
    BY NatLessThanWellFounded
  <1>2. PICK R : R = OpToRel(<, Nat)
    OBVIOUS
  <1>3. PICK m \in S : \A j \in S : ~(<<j, m>> \in R)
    BY <1>1, <1>2, WFMin
  <1>4. \A j \in S : ~(j < m)
    BY <1>2, <1>3 DEF OpToRel
  <1>5. \A j \in S : m <= j
    BY <1>4
  <1> QED BY <1>5 DEF Min

(* The times a calendar has. *)
CalendarTimes == (0..59) \X (0..23) \X (1..31) \X (1..12) \X (0..6)

(* What a field is compared with is a number of at most two digits. *)
LEMMA FieldValueRange ==
  ASSUME NEW t \in CalendarTimes, NEW f \in 1..5
  PROVE  /\ FieldValue(t, f) \in 0..59
         /\ f = Weekday => t[f] \in 0..6 /\ FieldValue(t, f) = IF t[f] = 6 THEN 0 ELSE t[f] + 1
         /\ f # Weekday => FieldValue(t, f) = t[f]
  <1>1. t[1] \in 0..59 /\ t[2] \in 0..23 /\ t[3] \in 1..31 /\ t[4] \in 1..12 /\ t[5] \in 0..6
    BY DEF CalendarTimes
  <1>2. CASE f = 5
    <2>1. FieldValue(t, f) = (t[5] + 1) % 7
      BY <1>2 DEF FieldValue, Weekday
    <2>2. \A n \in 0..6 : (n + 1) % 7 = IF n = 6 THEN 0 ELSE n + 1
      OBVIOUS
    <2> QED BY <1>1, <1>2, <2>1, <2>2 DEF Weekday
  <1>3. CASE f # 5
    <2>1. FieldValue(t, f) = t[f]
      BY <1>3 DEF FieldValue, Weekday
    <2>2. f = 1 \/ f = 2 \/ f = 3 \/ f = 4
      BY <1>3
    <2> QED BY <1>1, <1>3, <2>1, <2>2 DEF Weekday
  <1> QED BY <1>2, <1>3

(* A remainder of zero and a whole quotient are the same. *)
LEMMA Multiples ==
  ASSUME NEW v \in 0..59, NEW n \in Nat \ {0}
  PROVE  v % n = 0 <=> \E q \in 0..59 : v = q * n
  <1>1. /\ v \div n \in Int /\ v % n \in 0..(n - 1)
        /\ v = (n * (v \div n)) + (v % n)
    OBVIOUS
  <1>2. PICK d \in Int : d = v \div n
    BY <1>1
  <1>3. PICK m \in 0..(n - 1) : m = v % n
    BY <1>1
  <1>4. v = n * d + m
    BY <1>1, <1>2, <1>3
  <1>5. ASSUME m = 0 PROVE \E q \in 0..59 : v = q * n
    <2>1. v = d * n
      BY <1>4, <1>5
    <2>2. d >= 0
      <3>1. ASSUME d <= -1 PROVE FALSE
        <4>1. n * d <= -n
          BY <3>1
        <4> QED BY <1>4, <1>5, <4>1
      <3> QED BY <3>1
    <2>3. d <= v
      <3>1. n * d >= d
        BY <2>2
      <3> QED BY <1>4, <1>5, <3>1
    <2> QED BY <2>1, <2>2, <2>3
  <1>6. ASSUME NEW q \in 0..59, v = q * n PROVE m = 0
    <2>1. PICK k \in Int : k = q - d
      OBVIOUS
    <2>2. n * k = m
      <3>1. n * k = n * q - n * d
        BY <2>1
      <3> QED BY <1>4, <1>6, <3>1
    <2>3. ~(k >= 1)
      <3>1. k >= 1 => n * k >= n
        OBVIOUS
      <3> QED BY <2>2, <3>1
    <2>4. ~(k <= -1)
      <3>1. k <= -1 => n * k <= -n
        OBVIOUS
      <3> QED BY <2>2, <3>1
    <2>5. k = 0
      BY <2>3, <2>4
    <2> QED BY <2>2, <2>5
  <1> QED BY <1>3, <1>5, <1>6

(* A valid token matches the value of a field exactly if cron admits it,   *)
(* a step of more than 1 in day or month excepted.                         *)
LEMMA TokenMeaning ==
  ASSUME NEW tok \in Tokens, NEW t \in CalendarTimes, NEW f \in 1..5, ~Invalid(tok, f),
         tok.kind = "step" => Minimum[f] = 0 \/ tok.n <= 1
  PROVE  TokenMatches(FieldValue(t, f), tok, f) <=> TokenAdmits(tok, t, f)
  <1>1. PICK v \in 0..59 : v = FieldValue(t, f)
    BY FieldValueRange
  <1>2. tok.kind \in {"star", "step", "literal", "bad"} /\ tok.n \in Int /\ tok.kind # "bad"
    BY DEF Tokens, Invalid
  <1>3. CASE tok.kind = "star"
    BY <1>3 DEF TokenMatches, TokenAdmits
  <1>4. CASE tok.kind = "step"
    <2>1. tok.n \in Nat \ {0}
      BY <1>2, <1>4 DEF Invalid
    <2>2. TokenMatches(FieldValue(t, f), tok, f) <=> v % tok.n = 0
      BY <1>1, <1>4 DEF TokenMatches
    <2>3. TokenAdmits(tok, t, f) <=> \E q \in 0..59 : v = Minimum[f] + q * tok.n
      BY <1>1, <1>4 DEF TokenAdmits
    <2>4. CASE Minimum[f] = 0
      <3>1. v % tok.n = 0 <=> \E q \in 0..59 : v = q * tok.n
        BY <2>1, Multiples
      <3>2. \A q \in 0..59 : Minimum[f] + q * tok.n = q * tok.n
        BY <2>1, <2>4
      <3> QED BY <2>2, <2>3, <3>1, <3>2
    <2>5. CASE Minimum[f] # 0
      <3>1. tok.n = 1
        BY <1>4, <2>1, <2>5
      <3>2. Minimum[f] = 1 /\ v \in 1..59
        <4>1. f = 3 \/ f = 4
          BY <2>5 DEF Minimum
        <4>2. t[3] \in 1..31 /\ t[4] \in 1..12
          BY DEF CalendarTimes
        <4>3. v = t[f]
          BY <1>1, <4>1, FieldValueRange DEF Weekday
        <4> QED BY <4>1, <4>2, <4>3 DEF Minimum
      <3>3. v % 1 = 0
        OBVIOUS
      <3>4. \E q \in 0..59 : v = 1 + q * 1
        <4>1. v - 1 \in 0..59 /\ v = 1 + (v - 1) * 1
          BY <3>2
        <4> QED BY <4>1
      <3> QED BY <2>2, <2>3, <3>1, <3>2, <3>3, <3>4
    <2> QED BY <2>4, <2>5
  <1>5. CASE tok.kind = "literal"
    <2>1. TokenMatches(FieldValue(t, f), tok, f) <=> v = Candidate(tok, f)
      BY <1>1, <1>5 DEF TokenMatches
    <2>2. TokenAdmits(tok, t, f) <=> tok.n \in IF f = Weekday /\ t[f] = 6 THEN {0, 7} ELSE {v}
      BY <1>1, <1>5 DEF TokenAdmits
    <2>3. f = Weekday => t[f] \in 0..6 /\ v = IF t[f] = 6 THEN 0 ELSE t[f] + 1
      BY <1>1, FieldValueRange
    <2>4. v = Candidate(tok, f) <=> tok.n \in IF f = Weekday /\ t[f] = 6 THEN {0, 7} ELSE {v}
      BY <1>2, <2>3 DEF Candidate
    <2> QED BY <2>1, <2>2, <2>4
  <1> QED BY <1>2, <1>3, <1>4, <1>5

(* A field that matches has a valid token that does. *)
LEMMA FieldSound ==
  ASSUME NEW spec \in Seq(Tokens), NEW f \in 1..5, NEW v, FieldMatches(v, spec, f) = "match"
  PROVE  \E i \in 1..Len(spec) : ~Invalid(spec[i], f) /\ TokenMatches(v, spec[i], f)
  <1>1. PICK S : S = {i \in 1..Len(spec) : Decides(v, spec[i], f)}
    OBVIOUS
  <1>2. S # {}
    BY <1>1 DEF FieldMatches
  <1>3. Min(S) \in S
    BY <1>1, <1>2, LeastOf
  <1>4. ~Invalid(spec[Min(S)], f) /\ TokenMatches(v, spec[Min(S)], f)
    BY <1>1, <1>2 DEF FieldMatches
  <1> QED BY <1>1, <1>3, <1>4

(* Of a valid field in a documented form, one matching token is enough. *)
LEMMA FieldComplete ==
  ASSUME NEW spec \in Seq(Tokens), NEW f \in 1..5, NEW v, Documented(spec),
         \A i \in 1..Len(spec) : ~Invalid(spec[i], f),
         NEW i \in 1..Len(spec), TokenMatches(v, spec[i], f)
  PROVE  FieldMatches(v, spec, f) = "match"
  <1>1. PICK S : S = {j \in 1..Len(spec) : Decides(v, spec[j], f)}
    OBVIOUS
  <1>2. i \in S
    BY <1>1 DEF Decides, TokenMatches
  <1>3. Min(S) \in S
    BY <1>1, <1>2, LeastOf
  <1>4. TokenMatches(v, spec[Min(S)], f)
    <2>1. CASE Len(spec) = 1
      <3>1. Min(S) = i
        BY <1>1, <1>3, <2>1
      <3> QED BY <3>1
    <2>2. CASE \A j \in 1..Len(spec) : spec[j].kind = "literal"
      <3>1. Decides(v, spec[Min(S)], f) /\ ~Invalid(spec[Min(S)], f) /\ spec[Min(S)].kind = "literal"
        BY <1>1, <1>3, <2>2
      <3> QED BY <3>1 DEF Decides, TokenMatches
    <2> QED BY <2>1, <2>2 DEF Documented
  <1>5. ~Invalid(spec[Min(S)], f)
    BY <1>1, <1>3
  <1> QED BY <1>1, <1>2, <1>4, <1>5 DEF FieldMatches

(* matches() answers "match" exactly if every field does. *)
LEMMA MatchesEveryField ==
  ASSUME NEW s, NEW t
  PROVE  Matches(s, t) = "match"
           <=> \A f \in 1..5 : FieldMatches(FieldValue(t, f), s[f], f) = "match"
  <1>1. PICK out : out = [f \in 1..5 |-> FieldMatches(FieldValue(t, f), s[f], f)]
    OBVIOUS
  <1>2. PICK S : S = {f \in 1..5 : out[f] # "match"}
    OBVIOUS
  <1>3. Matches(s, t) = IF S = {} THEN "match" ELSE out[Min(S)]
    BY <1>1, <1>2 DEF Matches
  <1>4. ASSUME S # {} PROVE out[Min(S)] # "match"
    BY <1>2, <1>4, LeastOf
  <1>5. S = {} <=> \A f \in 1..5 : FieldMatches(FieldValue(t, f), s[f], f) = "match"
    BY <1>1, <1>2
  <1> QED BY <1>3, <1>4, <1>5

(* A reported time is one that cron admits, and a well-formed expression of *)
(* documented fields, one of day and weekday open, reports every such time. *)
LEMMA MatchesMeaning ==
  ASSUME NEW s \in [1..5 -> Seq(Tokens)], NEW t \in CalendarTimes, StepsFromZero(s)
  PROVE  /\ Matches(s, t) = "match" => Admits(s, t)
         /\ WellFormed(s) /\ (\A f \in 1..5 : Documented(s[f])) /\ ~TwoDayFields(s) =>
              (Matches(s, t) = "match") = Admits(s, t)
  <1>0. ASSUME NEW f \in 1..5, NEW i \in 1..Len(s[f])
        PROVE  /\ s[f] \in Seq(Tokens) /\ s[f][i] \in Tokens
               /\ s[f][i].kind = "step" => Minimum[f] = 0 \/ s[f][i].n <= 1
    BY DEF StepsFromZero
  <1>1. /\ (\A f \in 1..5 : FieldAdmits(s, t, f)) => Admits(s, t)
        /\ ~TwoDayFields(s) /\ Admits(s, t) => \A f \in 1..5 : FieldAdmits(s, t, f)
    BY DEF Admits, Day, Weekday
  <1>2. ASSUME Matches(s, t) = "match", NEW f \in 1..5
        PROVE  FieldAdmits(s, t, f)
    <2>1. s[f] \in Seq(Tokens) /\ FieldMatches(FieldValue(t, f), s[f], f) = "match"
      BY <1>2, MatchesEveryField
    <2>2. PICK i \in 1..Len(s[f]) :
              ~Invalid(s[f][i], f) /\ TokenMatches(FieldValue(t, f), s[f][i], f)
      BY <2>1, FieldSound
    <2>3. TokenAdmits(s[f][i], t, f)
      BY <1>0, <2>2, TokenMeaning
    <2> QED BY <2>3 DEF FieldAdmits
  <1>3. ASSUME WellFormed(s), \A f \in 1..5 : Documented(s[f]),
               \A f \in 1..5 : FieldAdmits(s, t, f)
        PROVE  Matches(s, t) = "match"
    <2>1. ASSUME NEW f \in 1..5
          PROVE  FieldMatches(FieldValue(t, f), s[f], f) = "match"
      <3>1. PICK i \in 1..Len(s[f]) : TokenAdmits(s[f][i], t, f)
        BY <1>3 DEF FieldAdmits
      <3>2. \A j \in 1..Len(s[f]) : ~Invalid(s[f][j], f)
        BY <1>3 DEF WellFormed
      <3>3. TokenMatches(FieldValue(t, f), s[f][i], f)
        BY <1>0, <3>1, <3>2, TokenMeaning
      <3>4. Documented(s[f]) /\ s[f] \in Seq(Tokens)
        BY <1>3
      <3> QED BY <3>2, <3>3, <3>4, FieldComplete
    <2> QED BY <2>1, MatchesEveryField
  <1>4. Matches(s, t) = "match" => Admits(s, t)
    BY <1>1, <1>2
  <1>5. WellFormed(s) /\ (\A f \in 1..5 : Documented(s[f])) /\ ~TwoDayFields(s) =>
          (Matches(s, t) = "match") = Admits(s, t)
    <2> SUFFICES ASSUME WellFormed(s), \A f \in 1..5 : Documented(s[f]), ~TwoDayFields(s)
                 PROVE  (Matches(s, t) = "match") = Admits(s, t)
      OBVIOUS
    <2>1. CASE Matches(s, t) = "match"
      <3>1. Admits(s, t) = TRUE
        BY <1>4, <2>1 DEF Admits
      <3> QED BY <2>1, <3>1
    <2>2. CASE Matches(s, t) # "match"
      <3>1. ~Admits(s, t)
        BY <1>1, <1>3, <2>2
      <3>2. Admits(s, t) = FALSE
        BY <3>1 DEF Admits
      <3>3. (Matches(s, t) = "match") = FALSE
        BY <2>2
      <3> QED BY <3>2, <3>3
    <2> QED BY <2>1, <2>2
  <1> QED BY <1>4, <1>5

(* The verdict is the one on the time asked about: once the scheduler has  *)
(* polled, a time of Times.                                                *)
CronScheduleInv ==
    /\ schedule \in [1..5 -> FieldSpecs]
    /\ cronPc = "new" => now = ProbeTime
    /\ cronPc = "ready" /\ now # ProbeTime =>
           now \in Times /\ cronVerdict = Matches(schedule, now)

(* CronSchedule's property, for every expression without a step of more     *)
(* than 1 in day or month and every set of times the scheduler polls:       *)
(* matches() reports no time cron would not run at, and exactly cron's      *)
(* times for a documented form that leaves day or weekday open.             *)
THEOREM MatchesTheorem == CronSpec => []MatchesAsDocumented
  <1>1. CronInit => CronScheduleInv
    BY DEF CronInit, CronScheduleInv
  <1>2. CronScheduleInv /\ [CronNext]_cronVars => CronScheduleInv'
    <2> SUFFICES ASSUME CronScheduleInv, [CronNext]_cronVars PROVE CronScheduleInv'
      OBVIOUS
    <2>1. CASE Construct
      BY <2>1 DEF CronScheduleInv, Construct
    <2>2. CASE Poll
      BY <2>2 DEF CronScheduleInv, Poll
    <2>3. CASE UNCHANGED cronVars
      BY <2>3 DEF CronScheduleInv, cronVars
    <2> QED BY <2>1, <2>2, <2>3 DEF CronNext
  <1>3. CronScheduleInv => MatchesAsDocumented
    <2> SUFFICES ASSUME CronScheduleInv, cronPc = "ready", now # ProbeTime, StepsFromZero(schedule)
                 PROVE  /\ cronVerdict = "match" => Admits(schedule, now)
                        /\ WellFormed(schedule) /\ (\A f \in 1..5 : Documented(schedule[f]))
                             /\ ~TwoDayFields(schedule) =>
                             (cronVerdict = "match") = Admits(schedule, now)
      BY DEF MatchesAsDocumented
    <2>1. schedule \in [1..5 -> Seq(Tokens)] /\ now \in CalendarTimes
      BY CronConstants DEF CronScheduleInv, CalendarTimes
    <2>2. cronVerdict = Matches(schedule, now)
      BY DEF CronScheduleInv
    <2> QED BY <2>1, <2>2, MatchesMeaning
  <1> QED BY <1>1, <1>2, <1>3, PTL DEF CronSpec
=============================================================================
