------------------------ MODULE WorkflowOrchestrator ------------------------
(***************************************************************************)
(* engine/workflow/orchestrator.py: WorkflowOrchestrator.run, and the      *)
(* workflow status the control plane derives from the stored tasks         *)
(* (engine/control_plane/contracts.py).                                    *)
(*                                                                         *)
(* Steps of one batch run in a thread each.  supervisor.run_submission is  *)
(* seen here only through its result: a record with a final status, a      *)
(* record left waiting for approval, or an exception.  Once it is back,    *)
(* other callers may approve, cancel or run the step's task; calls on one  *)
(* task that overlap are the subject of TaskSupervisor.                    *)
(***************************************************************************)
EXTENDS Integers, Sequences, SequencesExt

CONSTANTS
    Groups,      \* parallel_group names
    NoGroup,     \* parallel_group is None
    MaxSteps,    \* bound: steps of a plan
    MayRaise     \* TRUE: planner, worker, supervisor and validator may raise

ASSUME FlowConstants == MaxSteps \in Nat /\ MayRaise \in BOOLEAN

VARIABLES
    plan,        \* Seq: the parallel_group of each step
    flowPc,          \* "plan", "batch", "join", "validate", "returned", "raised"
    first,       \* the first step of the current batch
    thread,      \* [steps -> "new", "work", "run", "done" or "raised"]
    status,      \* [steps -> the status of the run's own record; "none" before it is saved]
    stored,      \* [steps -> the status of the stored task]
    prior,       \* [steps -> WorkerContext.prior_results, as step numbers]
    records,     \* the records collected so far, as step numbers
    result,      \* WorkflowResult.status
    verdict      \* "none", "passed" or "rejected"

flowVars == <<plan, flowPc, first, thread, status, stored, prior, records, result, verdict>>

Steps == 1..Len(plan)

(* What run_submission may return: escalation, denial and waiting for       *)
(* approval are not failures to the orchestrator.                           *)
Outcomes ==
    [pending |-> {"policy_denied", "awaiting_approval"},
     running |-> {"completed", "failed", "escalated"}]

FlowInit ==
    /\ plan \in SeqOf(Groups \cup {NoGroup}, MaxSteps)
    /\ flowPc = "plan"
    /\ first = 1
    /\ thread = [i \in Steps |-> "new"]
    /\ status = [i \in Steps |-> "none"]
    /\ stored = status
    /\ prior = [i \in Steps |-> << >>]
    /\ records = << >>
    /\ result = "running"
    /\ verdict = "none"

(* planner.plan *)
Plan ==
    /\ flowPc = "plan"
    /\ \/ flowPc' = "batch"
       \/ MayRaise /\ flowPc' = "raised"
    /\ UNCHANGED <<plan, first, thread, status, stored, prior, records, result, verdict>>

(* Mutation: all steps of a group form one batch, adjacent or not. *)
BatchFromUnordered(i) ==
    IF plan[i] = NoGroup THEN {i} ELSE {j \in i..Len(plan) : plan[j] = plan[i]}

(* _step_batches: the batch that begins at step i is i alone, or i and the  *)
(* following steps as long as they name the same group.                     *)
BatchFrom(i) ==
    {j \in i..Len(plan) :
        j = i \/ (plan[i] # NoGroup /\ \A k \in i..j : plan[k] = plan[i])}

(* Mutation: prior_results is the live list of the batch's own run. *)
StartBatchNoPrior ==
    /\ flowPc = "batch"
    /\ first <= Len(plan)
    /\ thread' = [i \in Steps |-> IF i \in BatchFrom(first) THEN "work" ELSE thread[i]]
    /\ prior' = [i \in Steps |-> IF i \in BatchFrom(first) THEN << >> ELSE prior[i]]
    /\ flowPc' = "join"
    /\ UNCHANGED <<plan, first, status, stored, records, result, verdict>>

StartBatch ==
    /\ flowPc = "batch"
    /\ first <= Len(plan)
    /\ thread' = [i \in Steps |-> IF i \in BatchFrom(first) THEN "work" ELSE thread[i]]
    /\ prior' = [i \in Steps |-> IF i \in BatchFrom(first) THEN records ELSE prior[i]]
    /\ flowPc' = "join"
    /\ UNCHANGED <<plan, first, status, stored, records, result, verdict>>

(* worker.work, then run_submission up to its first save. *)
Work(i) ==
    /\ thread[i] = "work"
    /\ \/ thread' = [thread EXCEPT ![i] = "run"] /\ status' = [status EXCEPT ![i] = "pending"]
       \/ MayRaise /\ thread' = [thread EXCEPT ![i] = "raised"] /\ UNCHANGED status
    /\ stored' = [stored EXCEPT ![i] = status'[i]]
    /\ UNCHANGED <<plan, flowPc, first, prior, records, result, verdict>>

(* The supervisor starts to execute the step's task. *)
Started(i) ==
    /\ thread[i] = "run"
    /\ status[i] = "pending"
    /\ status' = [status EXCEPT ![i] = "running"]
    /\ stored' = [stored EXCEPT ![i] = "running"]
    /\ UNCHANGED <<plan, flowPc, first, thread, prior, records, result, verdict>>

(* The rest of run_submission.  Denied and unapproved tasks never run; a    *)
(* completion, failure or escalation follows an execution.  When it raises, *)
(* the stored task keeps the status it had.                                 *)
RunSubmission(i) ==
    /\ thread[i] = "run"
    /\ \/ /\ thread' = [thread EXCEPT ![i] = "done"]
          /\ \E o \in Outcomes[status[i]] : status' = [status EXCEPT ![i] = o]
       \/ MayRaise /\ thread' = [thread EXCEPT ![i] = "raised"] /\ UNCHANGED status
    /\ stored' = [stored EXCEPT ![i] = status'[i]]
    /\ UNCHANGED <<plan, flowPc, first, prior, records, result, verdict>>

(* What approve_task, cancel_task and run_task make of a stored task.       *)
LaterMoves ==
    [pending           |-> {"policy_denied", "awaiting_approval", "running"},
     awaiting_approval |-> {"approved", "cancelled"},
     approved          |-> {"running"},
     running           |-> {"completed", "failed", "escalated"}]

(* A later call on the task of a step whose run is over.  The record that   *)
(* run() collects is a copy and does not see it.  A task that a raising run *)
(* left RUNNING is executed by nobody, and no call moves it.                *)
LaterCall(i) ==
    /\ thread[i] = "done" \/ (thread[i] = "raised" /\ status[i] = "pending")
    /\ stored[i] \in DOMAIN LaterMoves
    /\ \E s \in LaterMoves[stored[i]] : stored' = [stored EXCEPT ![i] = s]
    /\ UNCHANGED <<plan, flowPc, first, thread, status, prior, records, result, verdict>>

(* batch_records: a record for each of the steps first to last, as planned. *)
Collected(last) == [k \in 1..(last - first + 1) |-> first + k - 1]

AfterBatch ==
    IF \E i \in BatchFrom(first) : thread[i] = "raised"
    THEN /\ flowPc' = "raised"
         /\ UNCHANGED <<first, records, result>>
    ELSE \E last \in Steps :
            /\ BatchFrom(first) = first..last
            /\ records' = records \o Collected(last)
            /\ IF \E i \in BatchFrom(first) : status[i] = "failed"
               THEN result' = "failed" /\ flowPc' = "returned" /\ UNCHANGED first
               ELSE flowPc' = "batch" /\ first' = last + 1 /\ UNCHANGED result

(* Mutation: a future that raised is waited for again and again. *)
JoinDoneOnly ==
    /\ flowPc = "join"
    /\ \A i \in BatchFrom(first) : thread[i] = "done"
    /\ AfterBatch
    /\ UNCHANGED <<plan, thread, status, stored, prior, verdict>>

(* future.result() for every step; leaving the "with" block waits for every *)
(* thread, also when a result raises.                                       *)
Join ==
    /\ flowPc = "join"
    /\ \A i \in BatchFrom(first) : thread[i] \in {"done", "raised"}
    /\ AfterBatch
    /\ UNCHANGED <<plan, thread, status, stored, prior, verdict>>

BatchesDone ==
    /\ flowPc = "batch"
    /\ first > Len(plan)
    /\ flowPc' = "validate"
    /\ UNCHANGED <<plan, first, thread, status, stored, prior, records, result, verdict>>

(* validator.validate *)
Validate ==
    /\ flowPc = "validate"
    /\ \/ verdict' = "passed" /\ result' = "completed" /\ flowPc' = "returned"
       \/ verdict' = "rejected" /\ result' = "partial" /\ flowPc' = "returned"
       \/ MayRaise /\ flowPc' = "raised" /\ UNCHANGED <<verdict, result>>
    /\ UNCHANGED <<plan, first, thread, status, stored, prior, records>>

Main == Plan \/ StartBatch \/ Join \/ BatchesDone \/ Validate

StepThread(i) == i \in Steps /\ (Work(i) \/ Started(i) \/ RunSubmission(i))

FlowNext == Main \/ (\E i \in Steps : StepThread(i) \/ LaterCall(i))

FlowSpec == FlowInit /\ [][FlowNext]_flowVars

(* Every thread is scheduled, and planner, worker, capabilities and         *)
(* validator return.                                                        *)
FlowFairSpec ==
    FlowSpec /\ WF_flowVars(Main) /\ \A i \in 1..MaxSteps : WF_flowVars(StepThread(i))

-----------------------------------------------------------------------------
(* Mutation: a task that waits for approval does not count as active. *)
TraceStatusNotWaiting(statuses) ==
    IF statuses \subseteq {"pending"} THEN "pending"
    ELSE IF statuses = {"completed"} THEN "completed"
    ELSE IF statuses \cap {"pending", "running", "approved"} # {} THEN "running"
    ELSE IF statuses \subseteq {"failed", "policy_denied", "cancelled", "escalated"} THEN "failed"
    ELSE "partial"

(* control_plane/contracts.py: _workflow_status of tasks in these statuses. *)
TraceStatus(statuses) ==
    LET active == {"pending", "running", "approved", "awaiting_approval"}
        failed == {"failed", "policy_denied", "cancelled", "escalated"}
    IN  IF statuses \subseteq {"pending"} THEN "pending"
        ELSE IF statuses = {"completed"} THEN "completed"
        ELSE IF statuses \cap active # {} THEN "running"
        ELSE IF statuses \subseteq failed THEN "failed"
        ELSE "partial"

(* The body of POST /v1/workflows: ControlPlaneWorkflowTraceV1.from_records *)
(* over the result's records.                                               *)
RunWorkflowAnswer == TraceStatus({status[i] : i \in ToSet(records)})

(* The body of GET /v1/workflows/{id}, over all stored tasks of the         *)
(* workflow; without one the answer is 404.                                 *)
WorkflowTrace ==
    LET live == {stored[i] : i \in Steps} \ {"none"}
    IN  IF live = {} THEN "not_found" ELSE TraceStatus(live)

(* Steps i < j of one uninterrupted parallel group. *)
SameBatch(i, j) == plan[i] # NoGroup /\ \A k \in i..j : plan[k] = plan[i]

(* A step begins only when every step of an earlier batch has come back     *)
(* from the supervisor, and none of them failed: fan-outs synchronise and   *)
(* a failure stops the workflow before its next batch.  When run() returns  *)
(* or raises, none of its threads is still at work.                         *)
BatchBarrier ==
    /\ \A i, j \in Steps :
           i < j /\ thread[j] # "new" /\ ~SameBatch(i, j) =>
               thread[i] = "done" /\ status[i] # "failed"
    /\ flowPc \in {"returned", "raised"} => \A i \in Steps : thread[i] \notin {"work", "run"}

(* Whatever order the threads of a batch finish in, results are collected   *)
(* in plan order, and a step is given exactly the records of all batches    *)
(* before its own.                                                          *)
ResultsInPlanOrder ==
    /\ records = [i \in 1..Len(records) |-> i]
    /\ \A j \in Steps : thread[j] # "new" =>
         \A i \in Steps : i < j =>
            (i \in {prior[j][k] : k \in 1..Len(prior[j])}) = ~SameBatch(i, j)

(* run() ends, whichever steps fail, escalate, wait for approval or raise.  *)
WorkflowEnds == <>(flowPc \in {"returned", "raised"})

(* POST /v1/workflows answers from the records run() collected, which are   *)
(* copies, a later GET from the tasks as they are then.  An answer that     *)
(* shows the workflow ended stands: every later GET repeats it, whichever   *)
(* steps were approved, cancelled or run since, or are later.  And no GET   *)
(* ever shows a workflow complete in which a step failed.                   *)
EndedAnswerStands ==
    flowPc = "returned" =>
        /\ RunWorkflowAnswer \in {"completed", "failed", "partial"} => WorkflowTrace = RunWorkflowAnswer
        /\ result = "failed" => WorkflowTrace \notin {"pending", "completed"}
=============================================================================
