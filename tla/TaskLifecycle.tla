--------------------------- MODULE TaskLifecycle ---------------------------
(***************************************************************************)
(* What the task supervisor promises about one task, seen from the task    *)
(* store alone: the status machine of TaskStatus and the retry budget.     *)
(* There are no threads, local copies, queues or audit trails here.        *)
(* TaskSupervisor implements this specification when calls on one task do  *)
(* not overlap (see TaskSupervisor!RefinesLifecycle).                      *)
(***************************************************************************)
EXTENDS Integers

CONSTANTS
    Tasks,          \* task ids
    RetryBudgets    \* the max_retries values a submission may carry

VARIABLES
    status,         \* [Tasks -> TaskStatus or "absent"]
    attempt,        \* [Tasks -> Nat], TaskRecord.attempt
    budget          \* [Tasks -> Int], TaskRecord.max_retries

lifecycleVars == <<status, attempt, budget>>

(* TaskStatus, with "absent" for a task id that is not in the store. *)
TaskStatus == {"pending", "running", "completed", "failed", "awaiting_approval",
               "approved", "policy_denied", "cancelled", "escalated"}

TerminalStatuses ==
    {"completed", "failed", "policy_denied", "cancelled", "escalated"}

(* Attempts a task may make in all: the first one and max_retries more.  A  *)
(* negative max_retries (TaskSubmission does not forbid one) acts as zero.  *)
AttemptLimit(m) == 1 + (IF m > 0 THEN m ELSE 0)

Init ==
    /\ status = [k \in Tasks |-> "absent"]
    /\ attempt = [k \in Tasks |-> 0]
    /\ budget = [k \in Tasks |-> 0]

Submit(k, m) ==
    /\ status[k] = "absent"
    /\ status' = [status EXCEPT ![k] = "pending"]
    /\ budget' = [budget EXCEPT ![k] = m]
    /\ UNCHANGED attempt

(* A change of status that starts no attempt. *)
Move(k, from, to) ==
    /\ status[k] = from
    /\ status' = [status EXCEPT ![k] = to]
    /\ UNCHANGED <<attempt, budget>>

(* The one way into "running": from "pending" or "approved", as attempt 1. *)
Start(k) ==
    /\ status[k] \in {"pending", "approved"}
    /\ attempt[k] = 0
    /\ status' = [status EXCEPT ![k] = "running"]
    /\ attempt' = [attempt EXCEPT ![k] = 1]
    /\ UNCHANGED budget

Retry(k) ==
    /\ status[k] = "running"
    /\ attempt[k] < AttemptLimit(budget[k])
    /\ attempt' = [attempt EXCEPT ![k] = attempt[k] + 1]
    /\ UNCHANGED <<status, budget>>

(* The escalation policy may stop a task just after its attempt counter was *)
(* raised for a retry that then does not happen.                            *)
EscalateInsteadOfRetry(k) ==
    /\ status[k] = "running"
    /\ attempt[k] < AttemptLimit(budget[k])
    /\ status' = [status EXCEPT ![k] = "escalated"]
    /\ attempt' = [attempt EXCEPT ![k] = attempt[k] + 1]
    /\ UNCHANGED budget

Next ==
    \E k \in Tasks:
       \/ \E m \in RetryBudgets : Submit(k, m)
       \/ Move(k, "pending", "awaiting_approval")
       \/ Move(k, "pending", "policy_denied")
       \/ Move(k, "awaiting_approval", "approved")
       \/ Move(k, "awaiting_approval", "cancelled")
       \/ Start(k)
       \/ Retry(k)
       \/ Move(k, "running", "completed")
       \/ Move(k, "running", "failed")
       \/ Move(k, "running", "escalated")
       \/ EscalateInsteadOfRetry(k)

Spec == Init /\ [][Next]_lifecycleVars
=============================================================================
