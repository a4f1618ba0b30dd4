----------------------- MODULE ExecutionControlProofs -----------------------
(***************************************************************************)
(* Proofs about ExecutionControl, for any number of threads, capabilities, *)
(* policy engines, retry strategies, intervals and timeouts, and with no   *)
(* bound on time.  Three arguments, one for each property: the lock makes  *)
(* a sleeper's wake-up time the end of the interval it waits for; whoever  *)
(* is past the gates was permitted, or waited and was approved; and what   *)
(* nobody waits for is counted by the timeouts that gave it up.            *)
(***************************************************************************)
EXTENDS ExecutionControl, FiniteSetTheorems, TLAPS

Labels == {"policy", "window", "asleep", "start", "pause", "join", "held", "done"}

(* The values the variables take that the properties depend on. *)
ControlTypeOK ==
    /\ setup \in Setups
    /\ clock \in Int
    /\ lastStart \in [Caps -> Int]
    /\ windows \in [Caps -> Nat]
    /\ pc \in [Runners -> Labels]
    /\ DOMAIN wake = Runners
    /\ attempt \in [Runners -> Nat]
    /\ timeouts \in [Runners -> Nat]
    /\ DOMAIN returned = Runners
    /\ opa \in [Runners -> OpaResults]
    /\ reachable \in BOOLEAN /\ outage \in BOOLEAN
    /\ allowed \subseteq listed
    /\ reachable = FALSE => outage = TRUE
    /\ live \in SUBSET (Runners \X Nat) /\ IsFiniteSet(live)

(* _last_capability_start is the time of the last window, and a thread that *)
(* sleeps holds the lock until the interval after it is over.               *)
SleepersHoldTheLock ==
    /\ granted = lastStart
    /\ \A r \in Runners :
           pc[r] = "asleep" =>
               lock = r /\ wake[r] = lastStart[CapOf[r]] + setup.interval

(* The task may start: nothing holds it, or somebody approved it.           *)
Clearance(r) == Permitted(r) \/ (r \in approved /\ NeedsApproval(r))

(* A task is at a gate and was not started, waits for the approval it       *)
(* needs, has ended without a start, or may start.                          *)
GateWasPassed ==
    \A r \in Runners :
        /\ pc[r] \in {"policy", "held"} => attempt[r] = 0
        /\ pc[r] = "held" => NeedsApproval(r)
        /\ ~(pc[r] \in {"policy", "held"} \/ (pc[r] = "done" /\ attempt[r] = 0)) => Clearance(r)

(* Attempts that run were begun, and a thread that pauses has not begun the *)
(* attempt it pauses for.                                                   *)
AttemptsAreBegun ==
    \A x \in live :
        /\ x[2] <= attempt[x[1]]
        /\ pc[x[1]] = "pause" => x[2] < attempt[x[1]]

ControlInv ==
    /\ ControlTypeOK
    /\ SleepersHoldTheLock
    /\ GateWasPassed
    /\ AttemptsAreBegun
    /\ OnlySoftTimeoutsLeaveWork

(* Tasks at the gate and nothing running satisfy the invariant. *)
LEMMA ControlInitial == ControlInit => ControlInv
  <1> SUFFICES ASSUME ControlInit PROVE ControlInv
    OBVIOUS
  <1>1. ControlTypeOK
    <2>1. IsFiniteSet({})
      BY FS_EmptySet
    <2>2. opa \in [Runners -> OpaResults] /\ reachable = TRUE /\ outage = FALSE /\ allowed \subseteq listed
      BY DEF ControlInit
    <2>3. /\ setup \in Setups /\ clock \in Int /\ lastStart \in [Caps -> Int] /\ windows \in [Caps -> Nat]
          /\ pc \in [Runners -> Labels] /\ DOMAIN wake = Runners
          /\ attempt \in [Runners -> Nat] /\ timeouts \in [Runners -> Nat]
          /\ DOMAIN returned = Runners /\ live = {}
      BY DEF ControlInit, Labels, Never
    <2> QED  BY <2>1, <2>2, <2>3 DEF ControlTypeOK
  <1>2. SleepersHoldTheLock /\ GateWasPassed /\ AttemptsAreBegun
    BY DEF ControlInit, SleepersHoldTheLock, GateWasPassed, AttemptsAreBegun
  <1>3. \A r \in Runners : Stray(r) = {} /\ timeouts[r] = 0 /\ returned[r] = "none"
    BY DEF ControlInit, Stray
  <1>4. OnlySoftTimeoutsLeaveWork
    BY <1>3, FS_EmptySet DEF OnlySoftTimeoutsLeaveWork
  <1> QED  BY <1>1, <1>2, <1>4 DEF ControlInv

-----------------------------------------------------------------------------
(* The lists change, or OPA does. *)
EnvironmentStep == ChangeReachable \/ \E c \in Caps : ChangeAllowed(c)

(* A task at a gate, or held at it, goes on. *)
GateStep(r) ==
    RequireApproval(r) \/ EvaluatePolicy(r) \/ EvaluationFails(r) \/ Approve(r) \/ Cancel(r)

(* The three decisions. *)
LEMMA Decided ==
    ASSUME NEW e, NEW names, NEW name, NEW risk, NEW answer,
           e.type \in {"null", "allowlist", "risk", "opa"}
    PROVE  Evaluate(e, names, name, risk, answer) \in Decisions /\ OpaError(e) \in Decisions
  BY DEF Evaluate, DenyByDefault, RiskLevel, MapResponse, OpaError, Decisions

(* The gates lead to the window, to a person or to the end. *)
LEMMA GateLabels ==
    ASSUME ControlTypeOK, NEW r \in Runners, GateStep(r)
    PROVE  /\ pc[r] \in {"policy", "held"}
           /\ \E label \in {"window", "held", "done"} : pc' = [pc EXCEPT ![r] = label]
  <1>1. setup.engine.type \in {"null", "allowlist", "risk", "opa"}
    BY ControlConstants DEF ControlTypeOK
  <1>2. ASSUME NEW d \in Decisions, Decide(r, d)
        PROVE  \E label \in {"window", "held", "done"} : pc' = [pc EXCEPT ![r] = label]
    <2>1. CASE d = "allow"
      BY <1>2, <2>1 DEF Decide, Goto
    <2>2. CASE d = "deny"
      BY <1>2, <2>2 DEF Decide, Goto
    <2>3. CASE d = "require_approval"
      BY <1>2, <2>3 DEF Decide, Goto
    <2> QED  BY <2>1, <2>2, <2>3 DEF Decisions
  <1>3. CASE RequireApproval(r)
    <2>1. pc[r] = "policy" /\ Decide(r, "require_approval") /\ "require_approval" \in Decisions
      BY <1>3 DEF RequireApproval, Decisions
    <2> QED  BY <1>2, <2>1
  <1>4. CASE EvaluatePolicy(r)
    <2>1. PICK d : d = Evaluate(setup.engine, allowed, CapOf[r], RiskOf[r], opa[r])
      OBVIOUS
    <2>2. d \in Decisions
      BY <1>1, <2>1, Decided
    <2> QED  BY <1>2, <1>4, <2>1, <2>2 DEF EvaluatePolicy
  <1>5. CASE EvaluationFails(r)
    BY <1>1, <1>2, <1>5, Decided DEF EvaluationFails
  <1>6. CASE Approve(r) \/ Cancel(r)
    BY <1>6 DEF Approve, Cancel, Goto
  <1> QED  BY <1>3, <1>4, <1>5, <1>6 DEF GateStep

(* They change nothing of the executions. *)
LEMMA GateUnchanged ==
    ASSUME NEW r, GateStep(r)
    PROVE  UNCHANGED <<setup, policyVars, clock, lock, lastStart, wake, attempt, live, returned,
                       granted, windows, timeouts>>
  BY DEF GateStep, RequireApproval, EvaluatePolicy, EvaluationFails, Decide, Approve, Cancel

(* The types are kept: every action, one by one.                            *)
LEMMA ControlTypes == ControlTypeOK /\ ControlNext => ControlTypeOK'
  <1> SUFFICES ASSUME ControlTypeOK, ControlNext PROVE ControlTypeOK'
    OBVIOUS
  <1> USE DEF ControlTypeOK, Labels, policyVars
  <1>1. CASE Tick
    BY <1>1 DEF Tick
  <1>2. CASE EnvironmentStep
    BY <1>2 DEF EnvironmentStep, ChangeAllowed, ChangeReachable
  <1>3. ASSUME NEW r \in Runners, GateStep(r) PROVE ControlTypeOK'
    <2>1. PICK label \in {"window", "held", "done"} : pc' = [pc EXCEPT ![r] = label]
      BY <1>3, GateLabels
    <2> QED  BY <1>3, <2>1, GateUnchanged DEF policyVars
  <1>4. ASSUME NEW r \in Runners, EnterWindow(r) \/ LeaveWindow(r)
        PROVE  ControlTypeOK'
    <2>1. CapOf[r] \in Caps
      BY DEF Caps
    <2> QED  BY <1>4, <2>1 DEF EnterWindow, LeaveWindow, Grant, Goto
  <1>5. ASSUME NEW r \in Runners, StartAttempt(r) PROVE ControlTypeOK'
    <2>1. attempt' \in [Runners -> Nat]
      BY <1>5 DEF StartAttempt
    <2>2. live' = live \cup {<<r, attempt'[r]>>}
      BY <1>5 DEF StartAttempt
    <2>3. live' \in SUBSET (Runners \X Nat) /\ IsFiniteSet(live')
      <3>1. <<r, attempt'[r]>> \in Runners \X Nat
        BY <2>1
      <3>2. IsFiniteSet(live \cup {<<r, attempt'[r]>>})
        BY FS_AddElement, Zenon
      <3> QED  BY <2>2, <3>1, <3>2
    <2> QED  BY <1>5, <2>1, <2>3 DEF StartAttempt, Goto
  <1>6. ASSUME NEW r \in Runners, JoinReturns(r) PROVE ControlTypeOK'
    BY <1>6 DEF JoinReturns, AfterFailure, EndTask, Goto
  <1>7. ASSUME NEW r \in Runners, JoinTimesOut(r) PROVE ControlTypeOK'
    <2>1. live' \subseteq live
      BY <1>7 DEF JoinTimesOut, Survivors
    <2>2. live' \in SUBSET (Runners \X Nat) /\ IsFiniteSet(live')
      BY <2>1, FS_Subset
    <2> QED  BY <1>7, <2>2 DEF JoinTimesOut, AfterFailure, EndTask, Goto
  <1>8. ASSUME NEW x \in live, NEW result \in {"ok", "error"}, ExecutionEnds(x, result)
        PROVE  ControlTypeOK'
    <2>1. live' \subseteq live
      BY <1>8 DEF ExecutionEnds
    <2>2. live' \in SUBSET (Runners \X Nat) /\ IsFiniteSet(live')
      BY <2>1, FS_Subset
    <2> QED  BY <1>8, <2>2 DEF ExecutionEnds
  <1> QED  BY <1>1, <1>2, <1>3, <1>4, <1>5, <1>6, <1>7, <1>8 DEF ControlNext, RunnerStep, GateStep, EnvironmentStep

-----------------------------------------------------------------------------
(* Sleepers keep the lock: nobody is granted a window while another thread  *)
(* sleeps for one, so the start it sleeps after stays the last one.         *)
LEMMA StepKeepsSleepers ==
    ControlTypeOK /\ SleepersHoldTheLock /\ ControlNext => SleepersHoldTheLock'
  <1> SUFFICES ASSUME ControlTypeOK, SleepersHoldTheLock, ControlNext
               PROVE  SleepersHoldTheLock'
    OBVIOUS
  <1> USE DEF ControlTypeOK, SleepersHoldTheLock
  <1>1. CASE \/ Tick \/ EnvironmentStep
             \/ \E x \in live, result \in {"ok", "error"} : ExecutionEnds(x, result)
    BY <1>1 DEF Tick, EnvironmentStep, ChangeAllowed, ChangeReachable, ExecutionEnds
  <1>2. ASSUME NEW r \in Runners, GateStep(r) PROVE SleepersHoldTheLock'
    <2>1. PICK label \in {"window", "held", "done"} : pc' = [pc EXCEPT ![r] = label]
      BY <1>2, GateLabels
    <2>2. \A q \in Runners : pc'[q] = "asleep" => pc[q] = "asleep"
      BY <2>1
    <2> QED  BY <1>2, <2>2, GateUnchanged
  <1>3. ASSUME NEW r \in Runners, Grant(r, clock), UNCHANGED setup,
               \A q \in Runners \ {r} : pc[q] # "asleep"
        PROVE  SleepersHoldTheLock'
    BY <1>3 DEF Grant, Goto
  <1>4. ASSUME NEW r \in Runners, EnterWindow(r) PROVE SleepersHoldTheLock'
    <2>1. \A q \in Runners : pc[q] # "asleep"
      BY <1>4, ControlConstants DEF EnterWindow
    <2>2. CASE lastStart[CapOf[r]] + setup.interval > clock
      BY <1>4, <2>1, <2>2 DEF EnterWindow, Goto
    <2>3. CASE ~(lastStart[CapOf[r]] + setup.interval > clock)
      BY <1>3, <1>4, <2>1, <2>3 DEF EnterWindow
    <2> QED  BY <2>2, <2>3
  <1>5. ASSUME NEW r \in Runners, LeaveWindow(r) PROVE SleepersHoldTheLock'
    <2>1. \A q \in Runners \ {r} : pc[q] # "asleep"
      BY <1>5 DEF LeaveWindow
    <2> QED  BY <1>3, <1>5, <2>1 DEF LeaveWindow
  <1>6. ASSUME NEW r \in Runners, StartAttempt(r) PROVE SleepersHoldTheLock'
    BY <1>6 DEF StartAttempt, Goto
  <1>7. ASSUME NEW r \in Runners, JoinReturns(r) \/ JoinTimesOut(r)
        PROVE  SleepersHoldTheLock'
    <2>1. \E label \in {"done", "pause"} : \E w :
              pc' = [pc EXCEPT ![r] = label] /\ wake' = [wake EXCEPT ![r] = w]
      BY <1>7 DEF JoinReturns, JoinTimesOut, AfterFailure, EndTask, Goto
    <2>2. UNCHANGED <<setup, lock, lastStart, granted>>
      BY <1>7 DEF JoinReturns, JoinTimesOut
    <2> QED  BY <2>1, <2>2
  <1> QED  BY <1>1, <1>2, <1>4, <1>5, <1>6, <1>7 DEF ControlNext, RunnerStep, GateStep, EnvironmentStep

(* An engine's decision to allow means that the task is permitted, and its  *)
(* decision to hold that approval is needed.                                *)
LEMMA DecisionMeans ==
    ASSUME ControlTypeOK, NEW r \in Runners, EvaluatePolicy(r) \/ EvaluationFails(r)
    PROVE  /\ pc'[r] = "window" => Permitted(r)
           /\ pc'[r] = "held" => NeedsApproval(r)
  <1>0. /\ setup \in Setups /\ RiskOf[r] \in RiskLevels
        /\ setup.engine.type \in {"null", "allowlist", "risk", "opa"}
        /\ opa[r] \in OpaResults /\ pc \in [Runners -> Labels]
        /\ setup.engine.type = "opa" => setup.engine.failOpen \in BOOLEAN
        /\ setup.engine.type = "risk" => setup.engine.denyAbove \in RiskLevels
    BY ControlConstants DEF ControlTypeOK
  <1>1. ASSUME NEW d \in Decisions, Decide(r, d)
        PROVE  /\ pc'[r] = "window" => d = "allow"
               /\ pc'[r] = "held" => d = "require_approval"
    BY <1>0, <1>1 DEF Decide, Goto, Decisions
  <1>2. CASE EvaluatePolicy(r)
    <2>1. PICK d : d = Evaluate(setup.engine, allowed, CapOf[r], RiskOf[r], opa[r])
      OBVIOUS
    <2>2. d \in Decisions /\ Decide(r, d) /\ ~setup.gated
      BY <1>0, <1>2, <2>1, Decided DEF EvaluatePolicy
    <2>3. CASE setup.engine.type = "null"
      BY <1>1, <2>1, <2>2, <2>3 DEF Evaluate, Permitted
    <2>4. CASE setup.engine.type = "allowlist"
      <3>1. d = DenyByDefault(allowed, CapOf[r])
        BY <2>1, <2>4 DEF Evaluate
      <3>2. d # "require_approval" /\ (d = "allow" => CapOf[r] \in listed)
        BY <3>1 DEF DenyByDefault, ControlTypeOK
      <3> QED  BY <1>1, <2>2, <2>4, <3>2 DEF Permitted
    <2>5. CASE setup.engine.type = "risk"
      <3>1. d = RiskLevel(setup.engine, allowed, CapOf[r], RiskOf[r])
        BY <2>1, <2>5 DEF Evaluate
      <3>2. d = "require_approval" => RiskOf[r] = setup.engine.approvalAt
        BY <3>1 DEF RiskLevel
      <3>3. ASSUME d = "allow"
            PROVE  /\ ~(RiskOf[r] > setup.engine.denyAbove)
                   /\ setup.engine.restricted => CapOf[r] \in listed
        BY <3>1, <3>3 DEF RiskLevel, ControlTypeOK
      <3>4. d = "allow" => RiskOf[r] # setup.engine.approvalAt
        BY <1>0, <3>1, LevelConstants DEF RiskLevel
      <3>5. d = "allow" => RiskOf[r] <= setup.engine.denyAbove
        BY <1>0, <2>5, <3>3 DEF RiskLevels
      <3> QED  BY <1>1, <2>2, <2>5, <3>2, <3>3, <3>4, <3>5 DEF Permitted, NeedsApproval
    <2>6. CASE setup.engine.type = "opa"
      <3>1. d = MapResponse(opa[r])
        BY <2>1, <2>6 DEF Evaluate
      <3>2. /\ d = "allow" => opa[r].allow /\ ~opa[r].require_approval
            /\ d = "require_approval" => opa[r].require_approval
        BY <1>0, <3>1 DEF MapResponse, OpaResults
      <3> QED  BY <1>1, <2>2, <2>6, <3>2 DEF Permitted, NeedsApproval
    <2> QED  BY <1>0, <2>3, <2>4, <2>5, <2>6
  <1>3. CASE EvaluationFails(r)
    <2>1. /\ Decide(r, OpaError(setup.engine)) /\ ~setup.gated
          /\ setup.engine.type = "opa" /\ ~reachable
      BY <1>3 DEF EvaluationFails
    <2>2. OpaError(setup.engine) \in Decisions
      BY <1>0, Decided
    <2>3. outage = TRUE
      BY <2>1 DEF ControlTypeOK
    <2>4. OpaError(setup.engine) # "require_approval" /\ (OpaError(setup.engine) = "allow" => setup.engine.failOpen)
      BY <1>0, <2>1 DEF OpaError
    <2> QED  BY <1>1, <2>1, <2>2, <2>3, <2>4 DEF Permitted
  <1> QED  BY <1>2, <1>3

(* What is permitted, or needs approval, stays so.                          *)
LEMMA ClearanceStays ==
    ASSUME ControlTypeOK, NEW q \in Runners, UNCHANGED <<setup, opa>>,
           listed \subseteq listed', outage => outage', approved \subseteq approved'
    PROVE  /\ Clearance(q) => Clearance(q)'
           /\ Permitted(q) => Permitted(q)'
           /\ NeedsApproval(q) => NeedsApproval(q)'
  <1>1. NeedsApproval(q) => NeedsApproval(q)'
    BY DEF NeedsApproval
  <1>2. Permitted(q) => Permitted(q)'
    BY DEF Permitted
  <1> QED  BY <1>1, <1>2 DEF Clearance

(* Nobody gets past the gates without clearance, and clearance stays. *)
LEMMA StepKeepsClearance ==
    ControlTypeOK /\ GateWasPassed /\ ControlNext => GateWasPassed'
  <1> DEFINE Good(p, a, needs, clear) ==
                /\ p \in {"policy", "held"} => a = 0
                /\ p = "held" => needs
                /\ ~(p \in {"policy", "held"} \/ (p = "done" /\ a = 0)) => clear
  <1> SUFFICES ASSUME ControlTypeOK, GateWasPassed, ControlNext,
                      NEW q \in Runners
               PROVE  Good(pc'[q], attempt'[q], NeedsApproval(q)', Clearance(q)')
    BY DEF GateWasPassed
  <1>0. Good(pc[q], attempt[q], NeedsApproval(q), Clearance(q))
    BY DEF GateWasPassed
  <1>1. CASE \/ Tick \/ EnvironmentStep
             \/ \E x \in live, result \in {"ok", "error"} : ExecutionEnds(x, result)
    <2>1. UNCHANGED <<setup, pc, attempt, approved, opa>>
      BY <1>1 DEF Tick, EnvironmentStep, ChangeAllowed, ChangeReachable, ExecutionEnds, policyVars
    <2>2. listed \subseteq listed' /\ (outage => outage')
      BY <1>1 DEF Tick, EnvironmentStep, ChangeAllowed, ChangeReachable, ExecutionEnds, policyVars
    <2> QED  BY <1>0, <2>1, <2>2, ClearanceStays
  <1>2. ASSUME NEW r \in Runners, GateStep(r)
        PROVE  Good(pc'[q], attempt'[q], NeedsApproval(q)', Clearance(q)')
    <2>1. UNCHANGED <<setup, attempt, opa, listed, outage>>
      BY <1>2, GateUnchanged DEF policyVars
    <2>2. approved \subseteq approved'
      BY <1>2 DEF GateStep, RequireApproval, EvaluatePolicy, EvaluationFails, Decide, Approve, Cancel
    <2>3. /\ Clearance(q) => Clearance(q)'
          /\ Permitted(q) => Permitted(q)'
          /\ NeedsApproval(q) => NeedsApproval(q)'
      BY <2>1, <2>2, ClearanceStays
    <2>4. PICK label \in {"window", "held", "done"} : pc' = [pc EXCEPT ![r] = label]
      BY <1>2, GateLabels
    <2>5. pc[r] \in {"policy", "held"} /\ pc \in [Runners -> Labels]
      BY <1>2, GateLabels DEF ControlTypeOK
    <2>6. CASE q # r
      BY <1>0, <2>1, <2>3, <2>4, <2>5, <2>6
    <2>7. CASE q = r
      <3>1. pc'[q] = label /\ attempt'[q] = 0
        BY <1>0, <2>1, <2>4, <2>5, <2>7
      <3>2. CASE EvaluatePolicy(r) \/ EvaluationFails(r)
        BY <2>3, <2>7, <3>1, <3>2, DecisionMeans DEF Clearance
      <3>3. CASE RequireApproval(r)
        <4>1. label = "held" /\ NeedsApproval(q)
          BY <2>4, <2>5, <2>7, <3>3 DEF RequireApproval, Decide, Goto, NeedsApproval
        <4> QED  BY <2>3, <3>1, <4>1
      <3>4. CASE Approve(r)
        <4>1. pc[q] = "held" /\ r \in approved' /\ pc'[q] = "window"
          BY <2>5, <2>7, <3>4 DEF Approve, Goto
        <4>2. NeedsApproval(q)'
          BY <1>0, <2>3, <4>1
        <4> QED  BY <2>7, <3>1, <4>1, <4>2 DEF Clearance
      <3>5. CASE Cancel(r)
        <4>1. pc'[q] = "done"
          BY <2>5, <2>7, <3>5 DEF Cancel, Goto
        <4> QED  BY <3>1, <4>1
      <3> QED  BY <1>2, <3>2, <3>3, <3>4, <3>5 DEF GateStep
    <2> QED  BY <2>6, <2>7
  <1>3. ASSUME NEW r \in Runners,
               \/ EnterWindow(r) \/ LeaveWindow(r)
               \/ StartAttempt(r) \/ JoinReturns(r) \/ JoinTimesOut(r)
        PROVE  Good(pc'[q], attempt'[q], NeedsApproval(q)', Clearance(q)')
    <2>1. UNCHANGED <<setup, approved, opa, listed, outage>>
      BY <1>3 DEF EnterWindow, LeaveWindow, StartAttempt, JoinReturns, JoinTimesOut, policyVars
    <2>2. pc[r] \notin {"policy", "held", "done"}
      BY <1>3 DEF EnterWindow, LeaveWindow, StartAttempt, JoinReturns, JoinTimesOut
    <2>3. pc'[r] \notin {"policy", "held"}
      BY <1>3 DEF EnterWindow, LeaveWindow, Grant, StartAttempt, JoinReturns, JoinTimesOut,
                  AfterFailure, EndTask, Goto, ControlTypeOK
    <2>4. q # r => pc'[q] = pc[q] /\ attempt'[q] = attempt[q]
      BY <1>3 DEF EnterWindow, LeaveWindow, Grant, StartAttempt, JoinReturns, JoinTimesOut,
                  AfterFailure, EndTask, Goto, ControlTypeOK
    <2>5. /\ Clearance(q) => Clearance(q)'
          /\ NeedsApproval(q) => NeedsApproval(q)'
      BY <2>1, ClearanceStays
    <2> QED  BY <1>0, <2>2, <2>3, <2>4, <2>5
  <1> QED  BY <1>1, <1>2, <1>3 DEF ControlNext, RunnerStep, GateStep, EnvironmentStep

-----------------------------------------------------------------------------
(* How a failed attempt ends: the task is done, or it pauses for the next   *)
(* attempt.                                                                 *)
FailureOutcome(r) ==
    \/ pc' = [pc EXCEPT ![r] = "done"] /\ attempt' = attempt
    \/ pc' = [pc EXCEPT ![r] = "pause"] /\ attempt' = [attempt EXCEPT ![r] = @ + 1]

(* Whether the awaited execution answered or outlived its timeout. *)
LEMMA Failures ==
    ASSUME NEW r \in Runners, JoinReturns(r) \/ JoinTimesOut(r)
    PROVE  FailureOutcome(r)
  BY DEF JoinReturns, JoinTimesOut, AfterFailure, EndTask, Goto, FailureOutcome

(* Attempts that run were begun, whatever their thread does meanwhile. *)
LEMMA StepKeepsAttempts ==
    ControlTypeOK /\ AttemptsAreBegun /\ ControlNext => AttemptsAreBegun'
  <1> SUFFICES ASSUME ControlTypeOK, AttemptsAreBegun, ControlNext,
                      NEW x \in live'
               PROVE  /\ x[2] <= attempt'[x[1]]
                      /\ pc'[x[1]] = "pause" => x[2] < attempt'[x[1]]
    BY DEF AttemptsAreBegun
  <1>0. x \in live => /\ x[1] \in Runners /\ x[2] \in Nat
                      /\ x[2] <= attempt[x[1]]
                      /\ pc[x[1]] = "pause" => x[2] < attempt[x[1]]
    BY DEF AttemptsAreBegun, ControlTypeOK
  <1> USE DEF ControlTypeOK
  <1>1. CASE \/ Tick \/ EnvironmentStep
             \/ \E y \in live, result \in {"ok", "error"} : ExecutionEnds(y, result)
    <2>1. live' \subseteq live /\ UNCHANGED <<pc, attempt>>
      BY <1>1 DEF Tick, EnvironmentStep, ChangeAllowed, ChangeReachable, ExecutionEnds
    <2> QED  BY <1>0, <2>1
  <1>2. ASSUME NEW r \in Runners,
               GateStep(r) \/ EnterWindow(r) \/ LeaveWindow(r)
        PROVE  /\ x[2] <= attempt'[x[1]]
               /\ pc'[x[1]] = "pause" => x[2] < attempt'[x[1]]
    <2>1. UNCHANGED <<attempt, live>>
      BY <1>2, GateUnchanged DEF EnterWindow, LeaveWindow
    <2>2. \E label \in {"window", "held", "done", "asleep", "start"} : pc' = [pc EXCEPT ![r] = label]
      <3>1. ControlTypeOK
        BY DEF ControlInv, ControlTypeOK
      <3>2. GateStep(r) => \E label \in {"window", "held", "done"} : pc' = [pc EXCEPT ![r] = label]
        BY <3>1, GateLabels
      <3>3. EnterWindow(r) \/ LeaveWindow(r) =>
                \E label \in {"asleep", "start"} : pc' = [pc EXCEPT ![r] = label]
        BY DEF EnterWindow, LeaveWindow, Grant, Goto
      <3> QED  BY <1>2, <3>2, <3>3
    <2> QED  BY <1>0, <2>1, <2>2
  <1>3. ASSUME NEW r \in Runners, StartAttempt(r)
        PROVE  /\ x[2] <= attempt'[x[1]]
               /\ pc'[x[1]] = "pause" => x[2] < attempt'[x[1]]
    <2>1. /\ live' = live \cup {<<r, attempt'[r]>>}
          /\ pc' = [pc EXCEPT ![r] = "join"]
          /\ attempt' = [attempt EXCEPT ![r] = IF pc[r] = "start" THEN @ + 1 ELSE @]
      BY <1>3 DEF StartAttempt, Goto
    <2>2. CASE x \in live
      BY <1>0, <2>1, <2>2
    <2>3. CASE x = <<r, attempt'[r]>>
      BY <2>1, <2>3
    <2> QED  BY <2>1, <2>2, <2>3
  <1>4. ASSUME NEW r \in Runners, JoinReturns(r) \/ JoinTimesOut(r)
        PROVE  /\ x[2] <= attempt'[x[1]]
               /\ pc'[x[1]] = "pause" => x[2] < attempt'[x[1]]
    <2>1. live' \subseteq live
      BY <1>4 DEF JoinReturns, JoinTimesOut, Survivors
    <2> QED  BY <1>0, <1>4, <2>1, Failures DEF FailureOutcome
  <1> QED  BY <1>1, <1>2, <1>3, <1>4 DEF ControlNext, RunnerStep, GateStep, EnvironmentStep

(* What the last property says of one thread. *)
WorkAccounted(r) ==
    /\ Cardinality(Stray(r)) <= timeouts[r]
    /\ Stray(r) # {} => setup.mode = "soft"
    /\ pc[r] = "join" /\ returned[r] # "none" => <<r, attempt[r]>> \notin live

(* Stray work that does not grow stays accounted for. *)
LEMMA StrayShrinks ==
    ASSUME ControlTypeOK, ControlTypeOK', NEW q \in Runners, WorkAccounted(q),
           Stray(q)' \subseteq Stray(q), UNCHANGED setup, timeouts'[q] >= timeouts[q]
    PROVE  Cardinality(Stray(q)') <= timeouts'[q] /\ (Stray(q)' # {} => setup'.mode = "soft")
  <1>1. IsFiniteSet(Stray(q))
    <2>1. Stray(q) \subseteq live /\ IsFiniteSet(live)
      BY DEF Stray, ControlTypeOK
    <2> QED  BY <2>1, FS_Subset
  <1>2. Cardinality(Stray(q)') <= Cardinality(Stray(q)) /\ IsFiniteSet(Stray(q)')
    BY <1>1, FS_Subset
  <1>3. Cardinality(Stray(q)') \in Nat /\ Cardinality(Stray(q)) \in Nat
    BY <1>1, <1>2, FS_CardinalityType
  <1>4. timeouts[q] \in Nat /\ timeouts'[q] \in Nat
    BY DEF ControlTypeOK
  <1>5. Cardinality(Stray(q)) <= timeouts[q]
    BY DEF WorkAccounted
  <1>6. Cardinality(Stray(q)') <= timeouts'[q]
    BY <1>2, <1>3, <1>4, <1>5
  <1>7. Stray(q)' # {} => setup'.mode = "soft"
    BY DEF WorkAccounted
  <1> QED  BY <1>6, <1>7

(* Work nobody waits for is accounted for after every step. *)
LEMMA StepKeepsWork ==
    ASSUME ControlInv, ControlNext, ControlTypeOK', NEW q \in Runners
    PROVE  WorkAccounted(q)'
  <1>0. ControlTypeOK /\ AttemptsAreBegun /\ WorkAccounted(q)
    BY DEF ControlInv, OnlySoftTimeoutsLeaveWork, WorkAccounted
  <1> SUFFICES /\ Cardinality(Stray(q)') <= timeouts'[q]
               /\ Stray(q)' # {} => setup'.mode = "soft"
               /\ pc'[q] = "join" /\ returned'[q] # "none" => <<q, attempt'[q]>> \notin live'
    BY DEF WorkAccounted
  <1>a. timeouts[q] \in Nat
    BY <1>0 DEF ControlTypeOK
  <1>1. CASE Tick \/ EnvironmentStep
    <2>1. UNCHANGED <<setup, pc, attempt, live, returned, timeouts>>
      BY <1>1 DEF Tick, EnvironmentStep, ChangeAllowed, ChangeReachable
    <2>2. Stray(q)' = Stray(q)
      BY <2>1 DEF Stray
    <2> QED  BY <1>0, <2>1, <2>2 DEF WorkAccounted
  <1>2. ASSUME NEW r \in Runners,
               GateStep(r) \/ EnterWindow(r) \/ LeaveWindow(r)
        PROVE  /\ Cardinality(Stray(q)') <= timeouts'[q]
               /\ Stray(q)' # {} => setup'.mode = "soft"
               /\ pc'[q] = "join" /\ returned'[q] # "none" => <<q, attempt'[q]>> \notin live'
    <2>1. UNCHANGED <<setup, attempt, live, returned, timeouts>>
      BY <1>2, GateUnchanged DEF EnterWindow, LeaveWindow
    <2>2. \E label \in {"window", "held", "done", "asleep", "start"} : pc' = [pc EXCEPT ![r] = label]
      <3>1. ControlTypeOK
        BY DEF ControlInv, ControlTypeOK
      <3>2. GateStep(r) => \E label \in {"window", "held", "done"} : pc' = [pc EXCEPT ![r] = label]
        BY <3>1, GateLabels
      <3>3. EnterWindow(r) \/ LeaveWindow(r) =>
                \E label \in {"asleep", "start"} : pc' = [pc EXCEPT ![r] = label]
        BY DEF EnterWindow, LeaveWindow, Grant, Goto
      <3> QED  BY <1>2, <3>2, <3>3
    <2>3. pc[r] # "join"
      <3>1. GateStep(r) => pc[r] \in {"policy", "held"}
        BY <1>0, GateLabels
      <3> QED  BY <1>2, <3>1 DEF EnterWindow, LeaveWindow
    <2>4. pc'[q] = "join" <=> pc[q] = "join"
      BY <1>0, <2>2, <2>3 DEF ControlTypeOK
    <2>5. Stray(q)' = Stray(q)
      BY <2>1, <2>4 DEF Stray
    <2> QED  BY <1>0, <2>1, <2>4, <2>5 DEF WorkAccounted
  <1>3. ASSUME NEW r \in Runners, StartAttempt(r)
        PROVE  /\ Cardinality(Stray(q)') <= timeouts'[q]
               /\ Stray(q)' # {} => setup'.mode = "soft"
               /\ pc'[q] = "join" /\ returned'[q] # "none" => <<q, attempt'[q]>> \notin live'
    <2>1. /\ pc[r] \in {"start", "pause"}
          /\ live' = live \cup {<<r, attempt'[r]>>}
          /\ pc' = [pc EXCEPT ![r] = "join"]
          /\ attempt' = [attempt EXCEPT ![r] = IF pc[r] = "start" THEN @ + 1 ELSE @]
          /\ returned' = [returned EXCEPT ![r] = "none"]
          /\ UNCHANGED <<setup, timeouts>>
      BY <1>3 DEF StartAttempt, Goto
    <2>2. CASE q = r
      <3>1. pc'[r] = "join" /\ returned'[r] = "none"
        BY <1>0, <2>1 DEF ControlTypeOK
      <3>2. ASSUME NEW x \in live', x[1] = r, x[2] # attempt'[r]
            PROVE  x \in live
        BY <2>1, <3>2
      <3>3. Stray(r)' \subseteq Stray(r)
        BY <2>1, <3>1, <3>2 DEF Stray
      <3> QED  BY <1>0, <1>a, <2>1, <2>2, <3>1, <3>3, StrayShrinks
    <2>3. CASE q # r
      <3>1. pc'[q] = pc[q] /\ attempt'[q] = attempt[q] /\ returned'[q] = returned[q]
        BY <1>0, <2>1, <2>3 DEF ControlTypeOK
      <3>2. \A x : x[1] = q => (x \in live' <=> x \in live)
        BY <2>1, <2>3
      <3>3. Stray(q)' = Stray(q)
        BY <3>1, <3>2 DEF Stray
      <3>4. <<q, attempt'[q]>> \in live' <=> <<q, attempt[q]>> \in live
        BY <2>1, <2>3, <3>1
      <3> QED  BY <1>0, <2>1, <3>1, <3>3, <3>4 DEF WorkAccounted
    <2> QED  BY <2>2, <2>3
  <1>4. ASSUME NEW r \in Runners, JoinReturns(r)
        PROVE  /\ Cardinality(Stray(q)') <= timeouts'[q]
               /\ Stray(q)' # {} => setup'.mode = "soft"
               /\ pc'[q] = "join" /\ returned'[q] # "none" => <<q, attempt'[q]>> \notin live'
    <2>1. /\ pc[r] = "join" /\ returned[r] # "none"
          /\ returned' = [returned EXCEPT ![r] = "none"]
          /\ UNCHANGED <<setup, live, timeouts>>
      BY <1>4 DEF JoinReturns
    <2>2. FailureOutcome(r)
      BY <1>4, Failures
    <2>3. CASE q = r
      <3>1. pc'[r] # "join"
        BY <1>0, <2>2 DEF FailureOutcome, ControlTypeOK
      <3>2. <<r, attempt[r]>> \notin live
        BY <1>0, <2>1, <2>3 DEF WorkAccounted
      <3>3. \A x \in live : x[1] = r => x[2] # attempt[r]
        BY <1>0, <3>2 DEF ControlTypeOK
      <3>4. Stray(r)' \subseteq Stray(r)
        BY <2>1, <3>3 DEF Stray
      <3> QED  BY <1>0, <1>a, <2>1, <2>3, <3>1, <3>4, StrayShrinks
    <2>4. CASE q # r
      <3>1. pc'[q] = pc[q] /\ attempt'[q] = attempt[q] /\ returned'[q] = returned[q]
        BY <1>0, <2>1, <2>2, <2>4 DEF FailureOutcome, ControlTypeOK
      <3>2. Stray(q)' = Stray(q)
        BY <2>1, <3>1 DEF Stray
      <3> QED  BY <1>0, <2>1, <3>1, <3>2 DEF WorkAccounted
    <2> QED  BY <2>3, <2>4
  <1>5. ASSUME NEW r \in Runners, JoinTimesOut(r)
        PROVE  /\ Cardinality(Stray(q)') <= timeouts'[q]
               /\ Stray(q)' # {} => setup'.mode = "soft"
               /\ pc'[q] = "join" /\ returned'[q] # "none" => <<q, attempt'[q]>> \notin live'
    <2>1. /\ pc[r] = "join" /\ setup.mode # "inline"
          /\ live' = Survivors(r) /\ live' \subseteq live
          /\ timeouts' = [timeouts EXCEPT ![r] = @ + 1]
          /\ UNCHANGED <<setup, returned>>
      BY <1>5 DEF JoinTimesOut, TimesOut, Survivors
    <2>2. FailureOutcome(r)
      BY <1>5, Failures
    <2>3. setup.mode \in {"soft", "sandbox"}
      BY <1>0, <2>1, ControlConstants DEF ControlTypeOK
    <2>4. CASE q = r /\ setup.mode = "sandbox"
      <3>1. pc'[r] # "join" /\ timeouts'[r] >= timeouts[r]
        BY <1>0, <2>1, <2>2 DEF FailureOutcome, ControlTypeOK
      <3>2. \A x \in live' : x \in live /\ (x[1] = r => x[2] # attempt[r])
        BY <1>0, <2>1, <2>4 DEF Survivors, ControlTypeOK
      <3>3. Stray(r)' \subseteq Stray(r)
        BY <3>2 DEF Stray
      <3> QED  BY <1>0, <2>1, <2>4, <3>1, <3>3, StrayShrinks
    <2>5. CASE q = r /\ setup.mode = "soft"
      <3>1. pc'[r] # "join" /\ timeouts'[r] = timeouts[r] + 1
        BY <1>0, <2>1, <2>2 DEF FailureOutcome, ControlTypeOK
      <3>2. Stray(r)' \subseteq Stray(r) \cup {<<r, attempt[r]>>}
        BY <1>0, <2>1 DEF Stray, ControlTypeOK
      <3>3. IsFiniteSet(Stray(r))
        <4>1. Stray(r) \subseteq live /\ IsFiniteSet(live)
          BY <1>0 DEF Stray, ControlTypeOK
        <4> QED  BY <4>1, FS_Subset
      <3>4. /\ IsFiniteSet(Stray(r) \cup {<<r, attempt[r]>>})
            /\ \/ Cardinality(Stray(r) \cup {<<r, attempt[r]>>}) = Cardinality(Stray(r))
               \/ Cardinality(Stray(r) \cup {<<r, attempt[r]>>}) = Cardinality(Stray(r)) + 1
        BY <3>3, FS_AddElement, Zenon
      <3>5. /\ IsFiniteSet(Stray(r)')
            /\ Cardinality(Stray(r)') <= Cardinality(Stray(r) \cup {<<r, attempt[r]>>})
        BY <3>2, <3>4, FS_Subset
      <3>6. Cardinality(Stray(r)') \in Nat /\ Cardinality(Stray(r)) \in Nat
        BY <3>3, <3>5, FS_CardinalityType
      <3>7. Cardinality(Stray(r)) <= timeouts[r]
        BY <1>0, <2>5 DEF WorkAccounted
      <3>8. Cardinality(Stray(r)') <= timeouts'[r]
        BY <1>a, <2>5, <3>1, <3>4, <3>5, <3>6, <3>7
      <3> QED  BY <2>1, <2>5, <3>1, <3>8
    <2>6. CASE q # r
      <3>1. /\ pc'[q] = pc[q] /\ attempt'[q] = attempt[q] /\ returned'[q] = returned[q]
            /\ timeouts'[q] = timeouts[q]
        BY <1>0, <2>1, <2>2, <2>6 DEF FailureOutcome, ControlTypeOK
      <3>2. Stray(q)' \subseteq Stray(q)
        BY <2>1, <3>1 DEF Stray
      <3>3. pc'[q] = "join" /\ returned'[q] # "none" => <<q, attempt'[q]>> \notin live'
        BY <1>0, <2>1, <3>1 DEF WorkAccounted
      <3> QED  BY <1>0, <1>a, <2>1, <3>1, <3>2, <3>3, StrayShrinks
    <2> QED  BY <2>3, <2>4, <2>5, <2>6
  <1>6. ASSUME NEW x \in live, NEW result \in {"ok", "error"}, ExecutionEnds(x, result)
        PROVE  /\ Cardinality(Stray(q)') <= timeouts'[q]
               /\ Stray(q)' # {} => setup'.mode = "soft"
               /\ pc'[q] = "join" /\ returned'[q] # "none" => <<q, attempt'[q]>> \notin live'
    <2>1. /\ live' = live \ {x}
          /\ returned' = IF pc[x[1]] = "join" /\ attempt[x[1]] = x[2]
                         THEN [returned EXCEPT ![x[1]] = result] ELSE returned
          /\ UNCHANGED <<setup, pc, attempt, timeouts>>
      BY <1>6 DEF ExecutionEnds
    <2>2. x = <<x[1], x[2]>> /\ x[1] \in Runners
      BY <1>0 DEF ControlTypeOK
    <2>3. Stray(q)' \subseteq Stray(q)
      BY <2>1 DEF Stray
    <2>4. pc'[q] = "join" /\ returned'[q] # "none" => <<q, attempt'[q]>> \notin live'
      <3>1. CASE returned'[q] = returned[q]
        BY <1>0, <2>1, <3>1 DEF WorkAccounted
      <3>2. CASE returned'[q] # returned[q]
        <4>1. q = x[1] /\ attempt[q] = x[2]
          BY <1>0, <2>1, <2>2, <3>2 DEF ControlTypeOK
        <4> QED  BY <2>1, <2>2, <4>1
      <3> QED  BY <3>1, <3>2
    <2> QED  BY <1>0, <1>a, <2>1, <2>3, <2>4, StrayShrinks
  <1> QED  BY <1>1, <1>2, <1>3, <1>4, <1>5, <1>6 DEF ControlNext, RunnerStep, GateStep, EnvironmentStep

-----------------------------------------------------------------------------
(* The invariant's parts, in the next state. *)
LEMMA ControlPrimed ==
    ASSUME ControlTypeOK', SleepersHoldTheLock', GateWasPassed', AttemptsAreBegun',
           \A r \in Runners : WorkAccounted(r)'
    PROVE  ControlInv'
  <1>1. OnlySoftTimeoutsLeaveWork'
    BY DEF OnlySoftTimeoutsLeaveWork, WorkAccounted
  <1> QED  BY <1>1 DEF ControlInv

(* Every step keeps the invariant. *)
LEMMA ControlStep == ControlInv /\ [ControlNext]_controlVars => ControlInv'
  <1> SUFFICES ASSUME ControlInv, [ControlNext]_controlVars PROVE ControlInv'
    OBVIOUS
  <1>1. CASE ControlNext
    <2>1. ControlTypeOK' /\ SleepersHoldTheLock' /\ GateWasPassed' /\ AttemptsAreBegun'
      BY <1>1, ControlTypes, StepKeepsSleepers, StepKeepsClearance, StepKeepsAttempts
      DEF ControlInv
    <2>2. \A r \in Runners : WorkAccounted(r)'
      BY <1>1, <2>1, StepKeepsWork
    <2> QED  BY <2>1, <2>2, ControlPrimed
  <1>2. CASE UNCHANGED controlVars
    <2>1. ControlTypeOK' /\ SleepersHoldTheLock' /\ AttemptsAreBegun'
      BY <1>2 DEF controlVars, policyVars, ControlInv, ControlTypeOK, SleepersHoldTheLock, AttemptsAreBegun
    <2>2. GateWasPassed'
      BY <1>2 DEF controlVars, policyVars, ControlInv, GateWasPassed, Clearance, Permitted, NeedsApproval
    <2>3. \A r \in Runners : WorkAccounted(r)'
      BY <1>2 DEF controlVars, ControlInv, OnlySoftTimeoutsLeaveWork, WorkAccounted, Stray
    <2> QED  BY <2>1, <2>2, <2>3, ControlPrimed
  <1> QED  BY <1>1, <1>2

(* The invariant holds in every state of every behaviour. *)
LEMMA ControlInvariant == ControlSpec => []ControlInv
  BY ControlInitial, ControlStep, PTL DEF ControlSpec

(* "work may continue in the background": whatever the interleaving of      *)
(* threads, late executions and the clock, an execution nobody waits for    *)
(* is one that a soft timeout gave up (_execute_with_timeout), one for each *)
(* timeout; the sandbox leaves none, and a late answer is never taken for   *)
(* the answer of a later attempt.                                           *)
THEOREM StrayWorkTheorem == ControlSpec => []OnlySoftTimeoutsLeaveWork
  BY ControlInvariant, PTL DEF ControlInv

(* No attempt of run_task starts that the configuration does not permit, or *)
(* that was not held for approval and approved, for every policy engine,    *)
(* whatever lists and OPA do while tasks wait.                              *)
THEOREM ClearanceTheorem == ControlSpec => []StartedOnClearance
  <1>1. ASSUME ControlInv PROVE StartedOnClearance
    <2> SUFFICES ASSUME NEW r \in Runners, attempt[r] > 0
                 PROVE  Permitted(r) \/ (r \in approved /\ NeedsApproval(r))
      BY DEF StartedOnClearance
    <2>1. attempt[r] # 0
      OBVIOUS
    <2>2. Clearance(r)
      BY <1>1, <2>1 DEF ControlInv, GateWasPassed
    <2> QED  BY <2>2 DEF Clearance
  <1> QED  BY <1>1, ControlInvariant, PTL

(* A window is granted only when the interval since the last one is over:   *)
(* at once if it is, else to the thread that slept for it in the lock.      *)
LEMMA StepKeepsInterval == ControlInv /\ [ControlNext]_controlVars => [KeepsInterval]_controlVars
  <1> SUFFICES ASSUME ControlInv, ControlNext, NEW c \in Caps, windows'[c] # windows[c]
               PROVE  clock - granted[c] >= setup.interval
    BY DEF KeepsInterval
  <1>0. ControlTypeOK /\ SleepersHoldTheLock
    BY DEF ControlInv
  <1>1. PICK r \in Runners : EnterWindow(r) \/ LeaveWindow(r)
    <2>1. ASSUME NEW r \in Runners,
                 \/ GateStep(r) \/ StartAttempt(r)
                 \/ JoinReturns(r) \/ JoinTimesOut(r)
          PROVE  windows' = windows
      BY <2>1, GateUnchanged DEF StartAttempt, JoinReturns, JoinTimesOut
    <2>2. ASSUME \/ Tick \/ EnvironmentStep
                 \/ \E x \in live, result \in {"ok", "error"} : ExecutionEnds(x, result)
          PROVE  windows' = windows
      BY <2>2 DEF Tick, EnvironmentStep, ChangeAllowed, ChangeReachable, ExecutionEnds
    <2> QED  BY <2>1, <2>2 DEF ControlNext, RunnerStep, GateStep, EnvironmentStep
  <1>2. clock >= lastStart[CapOf[r]] + setup.interval
    <2>1. /\ clock \in Int /\ setup.interval \in Nat /\ CapOf[r] \in Caps
          /\ lastStart[CapOf[r]] \in Int
      BY <1>0, ControlConstants DEF ControlTypeOK, Caps
    <2>2. CASE EnterWindow(r)
      BY <2>1, <2>2 DEF EnterWindow
    <2>3. CASE LeaveWindow(r)
      BY <1>0, <2>1, <2>3 DEF LeaveWindow, SleepersHoldTheLock
    <2> QED  BY <1>1, <2>2, <2>3
  <1>3. c = CapOf[r]
    BY <1>0, <1>1 DEF EnterWindow, LeaveWindow, Grant, ControlTypeOK
  <1>4. granted[c] = lastStart[CapOf[r]] /\ lastStart[CapOf[r]] \in Int /\ clock \in Int
    BY <1>0, <1>3 DEF SleepersHoldTheLock, ControlTypeOK
  <1>5. setup.interval \in Nat
    BY <1>0, ControlConstants DEF ControlTypeOK
  <1> QED  BY <1>2, <1>4, <1>5

(* "min-interval rate limiting": two windows of one capability are at least *)
(* the interval apart, whichever threads ask for them                       *)
(* (_wait_for_execution_window) and however long the sleep in the lock.     *)
THEOREM WindowsTheorem == ControlSpec => WindowsApart
  BY ControlInvariant, StepKeepsInterval, PTL DEF ControlSpec, WindowsApart
=============================================================================
