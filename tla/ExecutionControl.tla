-------------------------- MODULE ExecutionControl --------------------------
(***************************************************************************)
(* The timed part of TaskSupervisor.run_task (engine/supervisor/service.py)*)
(* for several threads, each with one task: the two gates, the execution   *)
(* window (a minimum interval between starts of one capability, kept with  *)
(* one lock), execution under no, a soft or the sandbox's hard timeout, and*)
(* the pauses between retries.  Status and audit are TaskSupervisor's part.*)
(*                                                                         *)
(* A setup is [gated, engine, strategy, mode, interval, timeout, retries]; *)
(* gated is the capability's require_approval; mode is "inline" (no        *)
(* timeout), "soft" (_execute_with_timeout) or "sandbox": a capability     *)
(* whose execute hands its work to SubprocessCapabilityRunner              *)
(* (engine/runtime/sandbox.py), which has a timeout of its own.            *)
(***************************************************************************)
EXTENDS Integers, FiniteSets, PolicyEngines, RetryStrategies

CONSTANTS
    Runners,    \* threads, each with one task
    Setups,     \* configurations to consider
    CapOf,      \* [Runners -> capability name]
    RiskOf,     \* [Runners -> risk level of the capability]
    NoRunner,   \* the lock is free
    MaxTime     \* bound: time that passes while nobody waits for it

ASSUME ControlConstants ==
    /\ NoRunner \notin Runners
    /\ RiskOf \in [Runners -> RiskLevels]
    /\ \A s \in Setups :
           /\ s.interval \in Nat
           /\ s.gated \in BOOLEAN
           /\ s.engine.type \in {"null", "allowlist", "risk", "opa"}
           /\ s.mode \in {"inline", "soft", "sandbox"}
           /\ s.engine.type = "risk" => s.engine.denyAbove \in RiskLevels
           /\ s.engine.type = "opa" => s.engine.failOpen \in BOOLEAN

Caps == {CapOf[r] : r \in Runners}
Never == 0 - 1000

VARIABLES
    setup,      \* the configuration
    allowed,    \* allowed_capabilities of the policy engine
    opa,        \* [Runners -> what OPA's rules say of the task]
    reachable,  \* OPA answers
    listed,     \* capabilities that have been in allowed (history)
    outage,     \* OPA has been unreachable (history)
    clock,
    lock,       \* _execution_lock
    lastStart,  \* [Caps -> _last_capability_start]
    pc,         \* [Runners -> label]
    wake,       \* [Runners -> when its sleep or join ends]
    attempt,    \* [Runners -> task.attempt]
    live,       \* executions <<runner, attempt>> that have not ended
    returned,   \* [Runners -> result of the awaited execution: "none", "ok", "error"]
    outcome,    \* [Runners -> "none", "denied", "held", "cancelled", "completed", "failed" or "escalated"]
    granted,    \* [Caps -> when a window was last granted] (history)
    windows,    \* [Caps -> windows granted] (history)
    timeouts,   \* [Runners -> executions given up] (history)
    approved    \* tasks that somebody approved

policyVars == <<allowed, opa, reachable, listed, outage>>

controlVars == <<setup, policyVars, clock, lock, lastStart, pc, wake, attempt, live, returned,
                 outcome, granted, windows, timeouts, approved>>

ControlInit ==
    /\ setup \in Setups
    /\ allowed \in SUBSET Caps /\ listed = allowed
    /\ opa \in [Runners -> OpaResults]
    /\ reachable = TRUE /\ outage = FALSE
    /\ clock = 0
    /\ lock = NoRunner
    /\ lastStart = [c \in Caps |-> Never]
    /\ pc = [r \in Runners |-> "policy"]
    /\ wake = [r \in Runners |-> 0]
    /\ attempt = [r \in Runners |-> 0]
    /\ live = {}
    /\ returned = [r \in Runners |-> "none"]
    /\ outcome = [r \in Runners |-> "none"]
    /\ granted = lastStart
    /\ windows = [c \in Caps |-> 0]
    /\ timeouts = [r \in Runners |-> 0]
    /\ approved = {}

Goto(r, label) == pc' = [pc EXCEPT ![r] = label]

(* A sleep, or a join with a timeout, that is not over. *)
Waits(r) ==
    /\ wake[r] > clock
    /\ pc[r] \in {"asleep", "pause"} \/ (pc[r] = "join" /\ setup.mode # "inline")

(* Time passes; after MaxTime only as long as somebody waits for it. *)
Tick ==
    /\ clock < MaxTime \/ \E r \in Runners : Waits(r)
    /\ clock' = clock + 1
    /\ UNCHANGED <<setup, policyVars, lock, lastStart, pc, wake, attempt, live, returned, outcome,
                   granted, windows, timeouts, approved>>

(* DenyByDefaultPolicy.add_capability and remove_capability. *)
ChangeAllowed(c) ==
    /\ setup.engine.type = "allowlist"
    /\ allowed' = IF c \in allowed THEN allowed \ {c} ELSE allowed \cup {c}
    /\ listed' = listed \cup allowed'
    /\ UNCHANGED <<setup, opa, reachable, outage, clock, lock, lastStart, pc, wake, attempt, live,
                   returned, outcome, granted, windows, timeouts, approved>>

(* The OPA server stops answering, or answers again. *)
ChangeReachable ==
    /\ setup.engine.type = "opa"
    /\ reachable' = ~reachable
    /\ outage' = TRUE
    /\ UNCHANGED <<setup, allowed, opa, listed, clock, lock, lastStart, pc, wake, attempt, live,
                   returned, outcome, granted, windows, timeouts, approved>>

(* The three ways on from the gates. *)
Decide(r, decision) ==
    /\ Goto(r, [allow |-> "window", deny |-> "done", require_approval |-> "held"][decision])
    /\ outcome' = [outcome EXCEPT
           ![r] = [allow |-> "none", deny |-> "denied", require_approval |-> "held"][decision]]
    /\ UNCHANGED <<setup, policyVars, clock, lock, lastStart, wake, attempt, live, returned, granted,
                   windows, timeouts, approved>>

(* The capability's own gate comes first: the policy is not asked. *)
RequireApproval(r) == pc[r] = "policy" /\ setup.gated /\ Decide(r, "require_approval")

EvaluatePolicy(r) ==
    /\ pc[r] = "policy" /\ ~setup.gated
    /\ setup.engine.type = "opa" => reachable
    /\ Decide(r, Evaluate(setup.engine, allowed, CapOf[r], RiskOf[r], opa[r]))

EvaluationFails(r) ==
    /\ pc[r] = "policy" /\ ~setup.gated
    /\ setup.engine.type = "opa" /\ ~reachable
    /\ Decide(r, OpaError(setup.engine))

(* approve_task, whose run_task finds the task APPROVED: no gate is asked   *)
(* again.                                                                   *)
Approve(r) ==
    /\ pc[r] = "held"
    /\ approved' = approved \cup {r}
    /\ outcome' = [outcome EXCEPT ![r] = "none"]
    /\ Goto(r, "window")
    /\ UNCHANGED <<setup, policyVars, clock, lock, lastStart, wake, attempt, live, returned, granted,
                   windows, timeouts>>

Cancel(r) ==
    /\ pc[r] = "held"
    /\ outcome' = [outcome EXCEPT ![r] = "cancelled"]
    /\ Goto(r, "done")
    /\ UNCHANGED <<setup, policyVars, clock, lock, lastStart, wake, attempt, live, returned, granted,
                   windows, timeouts, approved>>

-----------------------------------------------------------------------------
Grant(r, now) ==
    /\ lastStart' = [lastStart EXCEPT ![CapOf[r]] = now]
    /\ granted' = [granted EXCEPT ![CapOf[r]] = clock]
    /\ windows' = [windows EXCEPT ![CapOf[r]] = @ + 1]
    /\ wake' = [wake EXCEPT ![r] = 0]
    /\ lock' = NoRunner
    /\ Goto(r, "start")

(* Mutation: returns early when there is nothing to wait for, without       *)
(* recording the start.                                                     *)
EnterWindowUnrecorded(r) ==
    LET free == lastStart[CapOf[r]] + setup.interval
    IN  /\ pc[r] = "window" /\ lock = NoRunner
        /\ IF free > clock
           THEN /\ wake' = [wake EXCEPT ![r] = free]
                /\ lock' = r
                /\ Goto(r, "asleep")
                /\ UNCHANGED <<lastStart, granted, windows>>
           ELSE Grant(r, lastStart[CapOf[r]])
        /\ UNCHANGED <<setup, policyVars, clock, attempt, live, returned, outcome, timeouts, approved>>

(* _wait_for_execution_window, up to time.sleep, which holds the lock. *)
EnterWindow(r) ==
    LET free == lastStart[CapOf[r]] + setup.interval
    IN  /\ pc[r] = "window" /\ lock = NoRunner
        /\ IF free > clock
           THEN /\ wake' = [wake EXCEPT ![r] = free]
                /\ lock' = r
                /\ Goto(r, "asleep")
                /\ UNCHANGED <<lastStart, granted, windows>>
           ELSE Grant(r, clock)
        /\ UNCHANGED <<setup, policyVars, clock, attempt, live, returned, outcome, timeouts, approved>>

LeaveWindow(r) ==
    /\ pc[r] = "asleep" /\ clock >= wake[r]
    /\ Grant(r, clock)
    /\ UNCHANGED <<setup, policyVars, clock, attempt, live, returned, outcome, timeouts, approved>>

(* One attempt begins: directly, in a daemon thread, or in a child process. *)
StartAttempt(r) ==
    /\ pc[r] \in {"start", "pause"} /\ clock >= wake[r]
    /\ attempt' = [attempt EXCEPT ![r] = IF pc[r] = "start" THEN @ + 1 ELSE @]
    /\ live' = live \cup {<<r, attempt'[r]>>}
    /\ returned' = [returned EXCEPT ![r] = "none"]
    /\ wake' = [wake EXCEPT ![r] = IF setup.mode = "inline" THEN 0 ELSE clock + setup.timeout]
    /\ Goto(r, "join")
    /\ UNCHANGED <<setup, policyVars, clock, lock, lastStart, outcome, granted, windows, timeouts, approved>>

(* Mutation: one result queue serves all attempts of a task. *)
ExecutionEndsShared(x, result) ==
    /\ x \in live
    /\ live' = live \ {x}
    /\ returned' = IF pc[x[1]] = "join"
                   THEN [returned EXCEPT ![x[1]] = result] ELSE returned
    /\ UNCHANGED <<setup, policyVars, clock, lock, lastStart, pc, wake, attempt, outcome, granted, windows,
                   timeouts, approved>>

(* An execution ends, waited for or not.  Each attempt has its own result   *)
(* queue, so only the awaited one is heard.  In the sandbox "error" is an   *)
(* exit code, output that is not JSON, or a reported error.                 *)
ExecutionEnds(x, result) ==
    /\ x \in live
    /\ live' = live \ {x}
    /\ returned' = IF pc[x[1]] = "join" /\ attempt[x[1]] = x[2]
                   THEN [returned EXCEPT ![x[1]] = result] ELSE returned
    /\ UNCHANGED <<setup, policyVars, clock, lock, lastStart, pc, wake, attempt, outcome, granted, windows,
                   timeouts, approved>>

EndTask(r, how) ==
    /\ Goto(r, "done")
    /\ outcome' = [outcome EXCEPT ![r] = how]
    /\ wake' = [wake EXCEPT ![r] = 0]
    /\ UNCHANGED attempt

(* The except branch of the loop: give up, escalate, or pause and go on.    *)
(* The execution window is not consulted again.                             *)
AfterFailure(r) ==
    IF Exhausted(attempt[r], setup.retries)
    THEN EndTask(r, IF Escalates(setup.strategy, attempt[r]) THEN "escalated" ELSE "failed")
    ELSE /\ attempt' = [attempt EXCEPT ![r] = @ + 1]
         /\ \E d \in Delays(setup.strategy, attempt[r]) : wake' = [wake EXCEPT ![r] = clock + d]
         /\ Goto(r, "pause")
         /\ UNCHANGED outcome

JoinReturns(r) ==
    /\ pc[r] = "join" /\ returned[r] # "none"
    /\ IF returned[r] = "ok" THEN EndTask(r, "completed") ELSE AfterFailure(r)
    /\ returned' = [returned EXCEPT ![r] = "none"]
    /\ UNCHANGED <<setup, policyVars, clock, lock, lastStart, live, granted, windows, timeouts, approved>>

(* A thread cannot be stopped; subprocess.run kills its child. *)
Survivors(r) == IF setup.mode = "sandbox" THEN live \ {<<r, attempt[r]>>} ELSE live

(* Mutation: only a timeout of the sandbox is noticed. *)
TimesOutInSandbox(r) == setup.mode = "sandbox" /\ clock >= wake[r]

TimesOut(r) == setup.mode # "inline" /\ clock >= wake[r]

(* The execution outlived its timeout: TimeoutError, a failure like others. *)
JoinTimesOut(r) ==
    /\ pc[r] = "join" /\ <<r, attempt[r]>> \in live /\ TimesOut(r)
    /\ live' = Survivors(r)
    /\ timeouts' = [timeouts EXCEPT ![r] = @ + 1]
    /\ AfterFailure(r)
    /\ UNCHANGED <<setup, policyVars, clock, lock, lastStart, returned, granted, windows, approved>>

RunnerStep(r) ==
    \/ RequireApproval(r) \/ EvaluatePolicy(r) \/ EvaluationFails(r)
    \/ EnterWindow(r) \/ LeaveWindow(r)
    \/ StartAttempt(r) \/ JoinReturns(r) \/ JoinTimesOut(r)

ControlNext ==
    \/ Tick
    \/ ChangeReachable
    \/ \E c \in Caps : ChangeAllowed(c)
    \/ \E r \in Runners : RunnerStep(r) \/ Approve(r) \/ Cancel(r)
    \/ \E x \in live, result \in {"ok", "error"} : ExecutionEnds(x, result)

ControlSpec == ControlInit /\ [][ControlNext]_controlVars

InlineEnds(r) ==
    /\ setup.mode = "inline"
    /\ \E x \in live, result \in {"ok", "error"} : x[1] = r /\ ExecutionEnds(x, result)

(* Threads are scheduled, time passes, and only code that runs without a    *)
(* timeout is relied on to end.                                             *)
ControlFairSpec ==
    /\ ControlSpec /\ WF_controlVars(Tick)
    /\ \A r \in Runners : WF_controlVars(RunnerStep(r)) /\ WF_controlVars(InlineEnds(r))

-----------------------------------------------------------------------------
KeepsInterval ==
    \A c \in Caps : windows'[c] # windows[c] => clock - granted[c] >= setup.interval

(* "min-interval rate limiting": two windows of one capability are at least *)
(* the interval apart, whichever threads ask for them and however long the  *)
(* sleep inside the lock takes.                                             *)
WindowsApart == [][KeepsInterval]_controlVars

(* Executions of r that nobody waits for. *)
Stray(r) == {x \in live : x[1] = r /\ ~(pc[r] = "join" /\ x[2] = attempt[r])}

(* "work may continue in the background": an execution nobody waits for is  *)
(* one that a soft timeout gave up; the sandbox leaves no process behind    *)
(* and inline code is always waited for.  The late answer of an execution   *)
(* that was given up never becomes the result of a later attempt.           *)
OnlySoftTimeoutsLeaveWork ==
    \A r \in Runners :
        /\ Cardinality(Stray(r)) <= timeouts[r]
        /\ Stray(r) # {} => setup.mode = "soft"
        /\ pc[r] = "join" /\ returned[r] # "none" => <<r, attempt[r]>> \notin live

(* What the configuration, the lists and OPA's rules let start unasked. *)
Permitted(r) ==
    /\ ~setup.gated
    /\ setup.engine.type = "allowlist" => CapOf[r] \in listed
    /\ setup.engine.type = "risk" =>
           /\ RiskOf[r] <= setup.engine.denyAbove /\ RiskOf[r] # setup.engine.approvalAt
           /\ setup.engine.restricted => CapOf[r] \in listed
    /\ setup.engine.type = "opa" =>
           \/ opa[r].allow /\ ~opa[r].require_approval
           \/ setup.engine.failOpen /\ outage

(* What waits for a person. *)
NeedsApproval(r) ==
    \/ setup.gated
    \/ setup.engine.type = "risk" /\ RiskOf[r] = setup.engine.approvalAt
    \/ setup.engine.type = "opa" /\ opa[r].require_approval

(* A task that starts is one the configuration permits, or one that waited  *)
(* for approval and got it, although lists change and OPA comes and goes    *)
(* while tasks wait.  So an outage starts nothing unless the engine fails   *)
(* open, and then not what a capability's own gate holds; and no approval   *)
(* reaches a task that was denied.                                          *)
StartedOnClearance ==
    \A r \in Runners :
        attempt[r] > 0 => Permitted(r) \/ (r \in approved /\ NeedsApproval(r))

(* Every task ends, or waits for an approval that nobody gives, although    *)
(* executions with a timeout may hang for ever and a thread sleeping in its *)
(* window holds up all other windows.                                       *)
EveryTaskEnds == \A r \in Runners : <>[](pc[r] \in {"done", "held"})
=============================================================================
