---------------------------- MODULE MCExecution ----------------------------
(* The execution of tasks and the events about them, for TLC: a behaviour   *)
(* is one of ExecutionControl or of EventBus, as part says.                 *)
EXTENDS EventBus, ExecutionControl

CONSTANTS Picky, Risky

VARIABLE part

(* One client asks for the type of the second event only. *)
TypeFilters == [s \in Subscribers |-> IF s = Picky THEN {2} ELSE 1..MaxEvents]

Strategy(type, escalate, threshold) ==
    [type |-> type, base |-> 1, multiplier |-> 2, max |-> 2,
     escalate |-> escalate, threshold |-> threshold]

Default == Strategy("default", FALSE, NoThreshold)

Risk(above, at, restricted) ==
    [type |-> "risk", denyAbove |-> above, approvalAt |-> at, restricted |-> restricted]

Setup(gated, engine, strategy, mode, interval, retries) ==
    [gated |-> gated, engine |-> engine, strategy |-> strategy, mode |-> mode, interval |-> interval,
     timeout |-> 1, retries |-> retries]

(* Every policy engine, retry strategy and way to execute, with and without *)
(* retries and with intervals longer and shorter than an execution.         *)
MCSetups ==
    {Setup(FALSE, [type |-> "null"], Strategy("exponential", FALSE, NoThreshold), "soft", 2, 1),
     Setup(FALSE, [type |-> "null"], Strategy("jittered", TRUE, NoThreshold), "sandbox", 1, 1),
     Setup(FALSE, Risk(2, 1, TRUE), Strategy("adjusting", TRUE, 3), "soft", 2, 1),
     Setup(FALSE, Risk(1, NoLevel, FALSE), Default, "inline", 3, 0),
     Setup(FALSE, [type |-> "allowlist"], Default, "inline", 2, 0),
     Setup(FALSE, [type |-> "opa", failOpen |-> TRUE], Default, "inline", 0, 0),
     Setup(TRUE, [type |-> "opa", failOpen |-> TRUE], Default, "inline", 1, 0),
     Setup(FALSE, [type |-> "opa", failOpen |-> FALSE], Default, "sandbox", 2, 0)}

(* Tasks of one capability; one task is of a higher risk. *)
MCCapOf == [r \in Runners |-> "echo"]
MCRiskOf == [r \in Runners |-> IF r = Risky THEN 2 ELSE 1]

MCInit ==
    /\ part \in {"control", "bus"}
    /\ Init
    /\ ControlInit
    /\ setup.engine.type \in {"null", "opa"} => allowed = {}
    /\ setup.engine.type # "opa" => opa = [r \in Runners |-> [allow |-> FALSE, require_approval |-> FALSE]]
    /\ part = "bus" => allowed = {} /\ setup.engine.type = "allowlist"

MCNext ==
    \/ part = "control" /\ ControlNext /\ UNCHANGED <<part, vars>>
    \/ part = "bus" /\ Next /\ UNCHANGED <<part, controlVars>>

(* FairSpec of EventBus and ControlFairSpec of ExecutionControl. *)
MCSpec ==
    /\ MCInit /\ [][MCNext]_<<part, vars, controlVars>>
    /\ \A c \in Callers : WF_vars(part = "bus" /\ Schedule(c))
    /\ WF_vars(part = "bus" /\ Deliver)
    /\ \A s \in Subscribers : WF_vars(part = "bus" /\ StreamNext(s))
    /\ WF_controlVars(part = "control" /\ Tick)
    /\ \A r \in Runners : WF_controlVars(part = "control" /\ RunnerStep(r))
    /\ \A r \in Runners : WF_controlVars(part = "control" /\ InlineEnds(r))

-----------------------------------------------------------------------------
(* Every task ends: see ExecutionControl. *)
TasksEnd == part = "control" => EveryTaskEnds
=============================================================================
