--------------------------- MODULE TaskSupervisor ---------------------------
(***************************************************************************)
(* engine/supervisor/service.py: TaskSupervisor, the only path by which a  *)
(* capability runs, with the work queue (engine/runtime/queue.py) and the  *)
(* retry and escalation decisions (engine/runtime/retry.py, escalation.py) *)
(*                                                                         *)
(* A thread is a caller inside one supervisor method: an HTTP request in   *)
(* the server's thread pool, the trigger loop, a workflow fan-out thread   *)
(* or the CLI.  Nothing in the supervisor excludes two callers from one    *)
(* task, so a call is split at every access to shared state: each store    *)
(* get, store save, queue operation and event emission is a step.  Every   *)
(* save writes the caller's whole copy of the record, however old.         *)
(***************************************************************************)
EXTENDS Integers, Sequences, FiniteSets

CONSTANTS
    Tasks,                \* task ids (uuid4, never reused)
    Threads,              \* concurrent callers
    Capabilities,         \* registered capability names
    RequireApproval,      \* those whose descriptor has require_approval
    RetryBudgets,         \* values of TaskSubmission.max_retries
    EnableEscalation,     \* RetryStrategy.enable_escalation
    EscalationThreshold,  \* RetryStrategy.escalation_threshold; 0 is None
    EscalateAfter,        \* EscalationConfig.max_retries_before_escalate; 0 is no policy
    QueueSize,            \* BoundedTaskQueue max_size
    EntryPoints,          \* the supervisor methods this deployment calls
    PeerEngine,           \* a peer suggestion engine is configured
    ExclusiveCallers,     \* TRUE: callers never overlap on one task
    Faults,               \* which collaborators may fail
    MaxCalls,             \* bound: calls made, run_next excepted
    NoTask                \* None

AllEntryPoints == {"submit", "run_submission", "run_next", "run_task",
                   "approve_task", "cancel_task"}

(* "validate": the registry or a capability rejects a stored task;          *)
(* "guild": a guild knowledge base or peer engine raises; "save":           *)
(* store.save raises and writes nothing; "crash": the process dies and is   *)
(* restarted on the same store.                                             *)
AllFaults == {"validate", "guild", "save", "crash"}

ASSUME ConstantTypes ==
    /\ RequireApproval \subseteq Capabilities
    /\ RetryBudgets \subseteq Int
    /\ EnableEscalation \in BOOLEAN
    /\ EscalationThreshold \in Nat
    /\ EscalateAfter \in Nat
    /\ QueueSize \in Nat
    /\ EntryPoints \subseteq AllEntryPoints
    /\ PeerEngine \in BOOLEAN
    /\ ExclusiveCallers \in BOOLEAN
    /\ Faults \subseteq AllFaults
    /\ MaxCalls \in Nat

VARIABLES
    store,       \* [Tasks -> TaskRecord or NoTask], the TaskStore
    queue,       \* Seq(Tasks), the in-memory work queue
    pc,          \* [Threads -> label of the thread's next step]
    tid,         \* [Threads -> the task_id of the call]
    task,        \* [Threads -> the call's local TaskRecord]
    failures,    \* [Threads -> len(failure_history)]
    emitting,    \* [Threads -> a saved transition's event is still to be emitted]
    emitted,     \* [Tasks -> Seq of actions announced on the event bus]
    executions,  \* [Tasks -> times capability.execute was reached], a history variable
    calls        \* calls made so far

vars == <<store, queue, pc, tid, task, failures, emitting, emitted, executions, calls>>

TaskStatus == {"pending", "running", "completed", "failed", "awaiting_approval",
               "approved", "policy_denied", "cancelled", "escalated"}

TerminalStatuses ==
    {"completed", "failed", "policy_denied", "cancelled", "escalated"}

(* Mutation: a supervisor that resumes RUNNING tasks after a restart. *)
ExecutableStatusesResuming == {"pending", "approved", "running"}

ExecutableStatuses == {"pending", "approved"}

AuditActions == {"submitted", "awaiting_approval", "denied", "allowed",
                 "peer_suggestion_applied", "started", "completed", "failure_recorded",
                 "retry", "escalated", "failed", "approved", "cancelled"}

(* "none" is a from_status or to_status of None. *)
AuditStatus == TaskStatus \cup {"none"}

AuditEntry == [action : AuditActions,
               from_status : AuditStatus,
               to_status : AuditStatus]

(* The fields of TaskRecord that control flow or correctness depends on.    *)
(* result is "none", "success" or "error".                                  *)
TaskRecord == [capability : Capabilities,
               status : TaskStatus,
               result : {"none", "success", "error"},
               attempt : Nat,
               max_retries : RetryBudgets,
               audit_trail : Seq(AuditEntry) \ {<< >>}]

ASSUME NoTaskIsNone == NoTask \notin Tasks /\ NoTask \notin TaskRecord

Labels == {"idle", "return", "enqueue", "run_task", "gate", "peer", "start",
           "execute", "publish_success", "record_failure", "decide",
           "publish_escalated", "publish_failed", "fail",
           "approve_run", "approve_queue", "cancel"}

-----------------------------------------------------------------------------
(* Records *)

Entry(action, from, to) ==
    [action |-> action, from_status |-> from, to_status |-> to]

AppendAudit(rec, action, from, to) ==
    [rec EXCEPT !.audit_trail = Append(@, Entry(action, from, to))]

(* Mutation: the audit entry is written after the status was replaced. *)
TransitionedLate(rec, action, to) ==
    [AppendAudit(rec, action, to, to) EXCEPT !.status = to]

(* _transition_status up to its save: the new status and its audit entry. *)
Transitioned(rec, action, to) ==
    [AppendAudit(rec, action, rec.status, to) EXCEPT !.status = to]

WithResult(rec, r) == [rec EXCEPT !.result = r]

CreateTaskRecord(c, m) ==
    [capability |-> c, status |-> "pending", result |-> "none", attempt |-> 0,
     max_retries |-> m, audit_trail |-> << Entry("submitted", "none", "pending") >>]

-----------------------------------------------------------------------------
(* Retry and escalation decisions *)

(* Mutation: one retry too many. *)
ShouldRetryOffByOne(rec) == rec.attempt <= rec.max_retries + 1

(* RetryStrategy.decide: every strategy retries while attempt <= max_retries. *)
ShouldRetry(rec) == rec.attempt <= rec.max_retries

(* RetryStrategy.decide on exhaustion. *)
StrategyEscalates(rec) ==
    /\ ~ShouldRetry(rec)
    /\ EnableEscalation
    /\ EscalationThreshold = 0 \/ rec.attempt >= EscalationThreshold

(* ThresholdEscalationPolicy.should_escalate *)
PolicyEscalates(n) == EscalateAfter > 0 /\ n >= EscalateAfter

-----------------------------------------------------------------------------
(* Steps shared by the operations *)

At(t, label) == pc[t] = label /\ ~emitting[t]

Goto(t, label) == pc' = [pc EXCEPT ![t] = label]

(* The call ends, by return or by an exception: its local record is gone. *)
Return(t) ==
    /\ Goto(t, "idle")
    /\ tid' = [tid EXCEPT ![t] = NoTask]
    /\ task' = [task EXCEPT ![t] = NoTask]
    /\ failures' = [failures EXCEPT ![t] = 0]

(* store.save of the caller's copy; the call goes on at label. *)
Save(t, rec, label) ==
    /\ store' = [store EXCEPT ![tid[t]] = rec]
    /\ task' = [task EXCEPT ![t] = rec]
    /\ Goto(t, label)
    /\ UNCHANGED <<queue, tid, calls>>

(* _save_task: no event follows. *)
SaveQuietly(t, rec, label) ==
    /\ Save(t, rec, label)
    /\ UNCHANGED <<emitting, emitted>>

(* _save_task followed by _emit_event, which is a step of its own. *)
SaveAndEmit(t, rec, label) ==
    /\ Save(t, rec, label)
    /\ emitting' = [emitting EXCEPT ![t] = TRUE]
    /\ UNCHANGED emitted

(* Mutation: an event bus that blocks its emitter once it holds two events. *)
EmitEventBlocking(t) ==
    /\ emitting[t]
    /\ Len(emitted[tid[t]]) < 2
    /\ emitting' = [emitting EXCEPT ![t] = FALSE]
    /\ LET trail == task[t].audit_trail
       IN  emitted' = [emitted EXCEPT ![tid[t]] = Append(@, trail[Len(trail)].action)]
    /\ IF pc[t] = "return" THEN Return(t)
                           ELSE UNCHANGED <<pc, tid, task, failures>>
    /\ UNCHANGED <<store, queue, executions, calls>>

(* _emit_event: TASK_<action> goes to the bus; exceptions are swallowed.  A *)
(* call that only had to emit returns.                                      *)
EmitEvent(t) ==
    /\ emitting[t]
    /\ emitting' = [emitting EXCEPT ![t] = FALSE]
    /\ LET trail == task[t].audit_trail
       IN  emitted' = [emitted EXCEPT ![tid[t]] = Append(@, trail[Len(trail)].action)]
    /\ IF pc[t] = "return" THEN Return(t)
                           ELSE UNCHANGED <<pc, tid, task, failures>>
    /\ UNCHANGED <<store, queue, executions, calls>>

-----------------------------------------------------------------------------
(* Entering the supervisor *)

(* The caller discipline that ExclusiveCallers assumes. *)
MayCall(k) == ExclusiveCallers => \A t \in Threads : tid[t] # k

Call(t, method) ==
    /\ pc[t] = "idle"
    /\ method \in EntryPoints
    /\ calls < MaxCalls
    /\ calls' = calls + 1

(* submit and run_submission up to store.save of the new record.  A call    *)
(* whose submission is rejected by validate_task_submission changes nothing. *)
Create(t, method, label) ==
    /\ Call(t, method)
    /\ \E k \in Tasks, c \in Capabilities, m \in RetryBudgets :
          /\ store[k] = NoTask
          /\ store' = [store EXCEPT ![k] = CreateTaskRecord(c, m)]
          /\ tid' = [tid EXCEPT ![t] = k]
    /\ Goto(t, label)
    /\ UNCHANGED <<queue, task, failures, emitting, emitted, executions>>

Submit(t) == Create(t, "submit", "enqueue")

RunSubmission(t) == Create(t, "run_submission", "run_task")

(* BoundedTaskQueue.enqueue, after the record was saved.  QueueFull leaves  *)
(* the method as an exception; the record stays in the store.               *)
Enqueue(t) ==
    /\ At(t, "enqueue")
    /\ queue' = IF Len(queue) < QueueSize THEN Append(queue, tid[t]) ELSE queue
    /\ Return(t)
    /\ UNCHANGED <<store, emitting, emitted, executions, calls>>

(* run_next: the id leaves the queue before anything is done with it. *)
RunNext(t) ==
    /\ pc[t] = "idle"
    /\ "run_next" \in EntryPoints
    /\ queue # << >>
    /\ MayCall(Head(queue))
    /\ queue' = Tail(queue)
    /\ tid' = [tid EXCEPT ![t] = Head(queue)]
    /\ Goto(t, "run_task")
    /\ UNCHANGED <<store, task, failures, emitting, emitted, executions, calls>>

RunTask(t) ==
    /\ Call(t, "run_task")
    /\ \E k \in Tasks : /\ store[k] # NoTask
                        /\ MayCall(k)
                        /\ tid' = [tid EXCEPT ![t] = k]
    /\ Goto(t, "run_task")
    /\ UNCHANGED <<store, queue, task, failures, emitting, emitted, executions>>

(* Mutation: approve_task and cancel_task accept a task in any status. *)
BeginDecisionUnchecked(t, method, label) ==
    /\ Call(t, method)
    /\ \E k \in Tasks : /\ store[k] # NoTask
                        /\ MayCall(k)
                        /\ tid' = [tid EXCEPT ![t] = k]
                        /\ task' = [task EXCEPT ![t] = store[k]]
    /\ Goto(t, label)
    /\ UNCHANGED <<store, queue, failures, emitting, emitted, executions>>

(* approve_task and cancel_task up to the status check on their own copy. *)
BeginDecision(t, method, label) ==
    /\ Call(t, method)
    /\ \E k \in Tasks : /\ store[k] # NoTask
                        /\ store[k].status = "awaiting_approval"
                        /\ MayCall(k)
                        /\ tid' = [tid EXCEPT ![t] = k]
                        /\ task' = [task EXCEPT ![t] = store[k]]
    /\ Goto(t, label)
    /\ UNCHANGED <<store, queue, failures, emitting, emitted, executions>>

BeginApprove(t) ==
    \E label \in {"approve_run", "approve_queue"} :
       BeginDecision(t, "approve_task", label)

BeginCancel(t) == BeginDecision(t, "cancel_task", "cancel")

(* approve_task from _transition_status on: run, or enqueue for later. *)
Approve(t) ==
    /\ \/ At(t, "approve_run") /\ SaveAndEmit(t, Transitioned(task[t], "approved", "approved"), "run_task")
       \/ At(t, "approve_queue") /\ SaveAndEmit(t, Transitioned(task[t], "approved", "approved"), "enqueue")
    /\ UNCHANGED <<failures, executions>>

CancelTask(t) ==
    /\ At(t, "cancel")
    /\ SaveAndEmit(t, Transitioned(WithResult(task[t], "error"), "cancelled", "cancelled"), "return")
    /\ UNCHANGED <<failures, executions>>

-----------------------------------------------------------------------------
(* run_task *)

(* get_task, the EXECUTABLE_STATUSES check and validate_task_submission. *)
LoadTask(t) ==
    /\ At(t, "run_task")
    /\ LET rec == store[tid[t]]
       IN  IF rec.status \notin ExecutableStatuses
           THEN Return(t)
           ELSE \/ /\ task' = [task EXCEPT ![t] = rec]
                   /\ Goto(t, IF rec.status = "pending" THEN "gate" ELSE "peer")
                   /\ UNCHANGED <<tid, failures>>
                \/ "validate" \in Faults /\ Return(t)
    /\ UNCHANGED <<store, queue, emitting, emitted, executions, calls>>

(* The capability's require_approval gate, ahead of the policy engine. *)
RequireApprovalGate(t) ==
    /\ At(t, "gate")
    /\ task[t].capability \in RequireApproval
    /\ SaveAndEmit(t, Transitioned(task[t], "awaiting_approval", "awaiting_approval"), "return")
    /\ UNCHANGED <<failures, executions>>

(* PolicyEngine.evaluate may decide anything; _apply_policy acts on it. *)
PolicyDenies(t) ==
    /\ At(t, "gate")
    /\ task[t].capability \notin RequireApproval
    /\ SaveAndEmit(t, Transitioned(WithResult(task[t], "error"), "denied", "policy_denied"), "return")
    /\ UNCHANGED <<failures, executions>>

PolicyRequiresApproval(t) ==
    /\ At(t, "gate")
    /\ task[t].capability \notin RequireApproval
    /\ SaveAndEmit(t, Transitioned(task[t], "awaiting_approval", "awaiting_approval"), "return")
    /\ UNCHANGED <<failures, executions>>

(* Mutation: the policy engine is asked without the require_approval gate. *)
PolicyAllowsUngated(t) ==
    /\ At(t, "gate")
    /\ SaveQuietly(t, AppendAudit(task[t], "allowed", "pending", "pending"), "peer")
    /\ UNCHANGED <<failures, executions>>

PolicyAllows(t) ==
    /\ At(t, "gate")
    /\ task[t].capability \notin RequireApproval
    /\ SaveQuietly(t, AppendAudit(task[t], "allowed", "pending", "pending"), "peer")
    /\ UNCHANGED <<failures, executions>>

(* DefaultPeerSuggestionEngine.suggest: nothing to suggest, or the best     *)
(* suggestion is merged into the input and saved, or the guild raises.      *)
PeerSuggestions(t) ==
    /\ At(t, "peer")
    /\ \/ /\ Goto(t, "start")
          /\ UNCHANGED <<store, task, tid, failures>>
       \/ /\ PeerEngine
          /\ LET rec == AppendAudit(task[t], "peer_suggestion_applied", "none", "none")
             IN  /\ store' = [store EXCEPT ![tid[t]] = rec]
                 /\ task' = [task EXCEPT ![t] = rec]
          /\ Goto(t, "start")
          /\ UNCHANGED <<tid, failures>>
       \/ /\ PeerEngine /\ "guild" \in Faults
          /\ Return(t)
          /\ UNCHANGED store
    /\ UNCHANGED <<queue, emitting, emitted, executions, calls>>

(* attempt += 1 and the transition to RUNNING.  The rate-limit wait before  *)
(* it is the subject of another module.                                     *)
Start(t) ==
    /\ At(t, "start")
    /\ LET rec == [task[t] EXCEPT !.attempt = @ + 1]
       IN  SaveAndEmit(t, Transitioned(rec, "started", "running"), "execute")
    /\ failures' = [failures EXCEPT ![t] = 0]
    /\ executions' = [executions EXCEPT ![tid[t]] = @ + 1]

CompletedRecord(rec) == Transitioned(WithResult(rec, "success"), "completed", "completed")

(* validate_input and execute return. *)
ExecuteSucceeds(t) ==
    /\ At(t, "execute")
    /\ SaveAndEmit(t, CompletedRecord(task[t]), "publish_success")
    /\ UNCHANGED <<failures, executions>>

(* validate_input or execute raises, or the soft timeout does. *)
ExecuteRaises(t) ==
    /\ At(t, "execute")
    /\ Goto(t, "record_failure")
    /\ UNCHANGED <<store, queue, tid, task, failures, emitting, emitted, executions, calls>>

(* publish_success runs inside the try: its exception is handled like a     *)
(* failed execution, with the record already COMPLETED.                     *)
PublishSuccess(t) ==
    /\ At(t, "publish_success")
    /\ \/ Return(t)
       \/ /\ "guild" \in Faults
          /\ Goto(t, "record_failure")
          /\ UNCHANGED <<tid, task, failures>>
    /\ UNCHANGED <<store, queue, emitting, emitted, executions, calls>>

(* Mutation: the failure is appended to the trail but not saved. *)
RecordFailureUnsaved(t) ==
    /\ At(t, "record_failure")
    /\ task' = [task EXCEPT ![t] = AppendAudit(@, "failure_recorded", "none", "none")]
    /\ Goto(t, "decide")
    /\ failures' = [failures EXCEPT ![t] = @ + 1]
    /\ UNCHANGED <<store, queue, tid, emitting, emitted, executions, calls>>

(* The except branch up to its save. *)
RecordFailure(t) ==
    /\ At(t, "record_failure")
    /\ SaveQuietly(t, AppendAudit(task[t], "failure_recorded", "none", "none"), "decide")
    /\ failures' = [failures EXCEPT ![t] = @ + 1]
    /\ UNCHANGED executions

EscalatedRecord(rec) == Transitioned(WithResult(rec, "error"), "escalated", "escalated")

(* decide says stop, and the strategy or the escalation policy escalates. *)
EscalateExhausted(t) ==
    /\ At(t, "decide")
    /\ ~ShouldRetry(task[t])
    /\ StrategyEscalates(task[t]) \/ PolicyEscalates(failures[t])
    /\ SaveAndEmit(t, EscalatedRecord(task[t]), "publish_escalated")
    /\ UNCHANGED <<failures, executions>>

(* Mutation: the loop is left without a transition to FAILED. *)
GiveUpSilently(t) ==
    /\ At(t, "decide")
    /\ ~ShouldRetry(task[t])
    /\ ~(StrategyEscalates(task[t]) \/ PolicyEscalates(failures[t]))
    /\ Return(t)
    /\ UNCHANGED <<store, queue, emitting, emitted, executions, calls>>

(* decide says stop and nobody escalates: leave the loop with last_exc. *)
GiveUp(t) ==
    /\ At(t, "decide")
    /\ ~ShouldRetry(task[t])
    /\ ~(StrategyEscalates(task[t]) \/ PolicyEscalates(failures[t]))
    /\ Goto(t, "publish_failed")
    /\ UNCHANGED <<store, queue, tid, task, failures, emitting, emitted, executions, calls>>

NextAttempt(rec) == [rec EXCEPT !.attempt = @ + 1]

(* decide says retry, attempt is raised, then the escalation policy stops it. *)
EscalateInsteadOfRetry(t) ==
    /\ At(t, "decide")
    /\ ShouldRetry(task[t])
    /\ PolicyEscalates(failures[t])
    /\ SaveAndEmit(t, EscalatedRecord(NextAttempt(task[t])), "publish_escalated")
    /\ UNCHANGED <<failures, executions>>

(* Mutation: a retry is audited but not announced. *)
RetrySilent(t) ==
    /\ At(t, "decide")
    /\ ShouldRetry(task[t])
    /\ ~PolicyEscalates(failures[t])
    /\ SaveQuietly(t, AppendAudit(NextAttempt(task[t]), "retry", "running", "running"), "execute")
    /\ executions' = [executions EXCEPT ![tid[t]] = @ + 1]
    /\ UNCHANGED failures

Retry(t) ==
    /\ At(t, "decide")
    /\ ShouldRetry(task[t])
    /\ ~PolicyEscalates(failures[t])
    /\ SaveAndEmit(t, AppendAudit(NextAttempt(task[t]), "retry", "running", "running"), "execute")
    /\ executions' = [executions EXCEPT ![tid[t]] = @ + 1]
    /\ UNCHANGED failures

(* _do_escalate's guild publish; the call ends with it either way. *)
PublishEscalated(t) ==
    /\ At(t, "publish_escalated")
    /\ Return(t)
    /\ UNCHANGED <<store, queue, emitting, emitted, executions, calls>>

(* The guild publish that precedes the transition to FAILED. *)
PublishFailed(t) ==
    /\ At(t, "publish_failed")
    /\ \/ /\ Goto(t, "fail")
          /\ UNCHANGED <<tid, task, failures>>
       \/ "guild" \in Faults /\ Return(t)
    /\ UNCHANGED <<store, queue, emitting, emitted, executions, calls>>

Fail(t) ==
    /\ At(t, "fail")
    /\ SaveAndEmit(t, Transitioned(WithResult(task[t], "error"), "failed", "failed"), "return")
    /\ UNCHANGED <<failures, executions>>

-----------------------------------------------------------------------------
(* Failures of the environment *)

(* store.save raises where a step would have saved: the exception ends the  *)
(* call, except that the COMPLETED save is inside the try.                  *)
SaveRaises(t) ==
    /\ "save" \in Faults
    /\ \/ /\ \E label \in {"gate", "start", "record_failure", "fail",
                           "approve_run", "approve_queue", "cancel"} : At(t, label)
          /\ Return(t)
       \/ At(t, "peer") /\ PeerEngine /\ Return(t)
       \/ /\ At(t, "decide")
          /\ ShouldRetry(task[t]) \/ StrategyEscalates(task[t]) \/ PolicyEscalates(failures[t])
          /\ Return(t)
       \/ /\ At(t, "execute")
          /\ task' = [task EXCEPT ![t] = CompletedRecord(@)]
          /\ Goto(t, "record_failure")
          /\ UNCHANGED <<tid, failures>>
    /\ UNCHANGED <<store, queue, emitting, emitted, executions, calls>>

(* The process dies: every call and the queue are lost, the store is not. *)
Crash ==
    /\ "crash" \in Faults
    /\ queue # << >> \/ \E t \in Threads : pc[t] # "idle"
    /\ pc' = [t \in Threads |-> "idle"]
    /\ tid' = [t \in Threads |-> NoTask]
    /\ task' = [t \in Threads |-> NoTask]
    /\ failures' = [t \in Threads |-> 0]
    /\ emitting' = [t \in Threads |-> FALSE]
    /\ queue' = << >>
    /\ UNCHANGED <<store, emitted, executions, calls>>

-----------------------------------------------------------------------------
(* The specification *)

Init ==
    /\ store = [k \in Tasks |-> NoTask]
    /\ queue = << >>
    /\ pc = [t \in Threads |-> "idle"]
    /\ tid = [t \in Threads |-> NoTask]
    /\ task = [t \in Threads |-> NoTask]
    /\ failures = [t \in Threads |-> 0]
    /\ emitting = [t \in Threads |-> FALSE]
    /\ emitted = [k \in Tasks |-> << >>]
    /\ executions = [k \in Tasks |-> 0]
    /\ calls = 0

(* A caller enters a method. *)
Enter(t) ==
    \/ Submit(t) \/ RunSubmission(t) \/ RunNext(t) \/ RunTask(t)
    \/ BeginApprove(t) \/ BeginCancel(t)

(* A call in progress takes its next step. *)
Step(t) ==
    \/ EmitEvent(t) \/ Enqueue(t) \/ Approve(t) \/ CancelTask(t)
    \/ LoadTask(t) \/ RequireApprovalGate(t)
    \/ PolicyDenies(t) \/ PolicyRequiresApproval(t) \/ PolicyAllows(t)
    \/ PeerSuggestions(t) \/ Start(t)
    \/ ExecuteSucceeds(t) \/ ExecuteRaises(t) \/ PublishSuccess(t)
    \/ RecordFailure(t) \/ EscalateExhausted(t) \/ GiveUp(t)
    \/ EscalateInsteadOfRetry(t) \/ Retry(t)
    \/ PublishEscalated(t) \/ PublishFailed(t) \/ Fail(t)
    \/ SaveRaises(t)

Next == (\E t \in Threads : Enter(t) \/ Step(t)) \/ Crash

Spec == Init /\ [][Next]_vars

(* A thread that is inside a call keeps running it: the interpreter         *)
(* schedules every thread, and capabilities are assumed to return or to     *)
(* have a timeout.  Callers owe nothing: no one is assumed to call          *)
(* run_next.                                                                *)
Fairness == \A t \in Threads : WF_vars(Step(t))

FairSpec == Spec /\ Fairness

-----------------------------------------------------------------------------
(* Properties *)

AttemptLimit(m) == 1 + (IF m > 0 THEN m ELSE 0)

HasEntry(rec, action) ==
    \E i \in DOMAIN rec.audit_trail : rec.audit_trail[i].action = action

(* The labels at which run_task owes the task a final status. *)
OwingLabels == {"execute", "record_failure", "decide", "publish_failed", "fail"}

RunningLabels == OwingLabels \cup {"publish_success"}

LoadedLabels == RunningLabels \cup
    {"gate", "peer", "start", "approve_run", "approve_queue", "cancel",
     "publish_escalated", "return"}

(* Every variable keeps its type, queued ids are stored, and every call     *)
(* that has loaded a record, or has an event to emit, holds one.            *)
TypeOK ==
    /\ store \in [Tasks -> TaskRecord \cup {NoTask}]
    /\ queue \in Seq(Tasks)
    /\ pc \in [Threads -> Labels]
    /\ tid \in [Threads -> Tasks \cup {NoTask}]
    /\ task \in [Threads -> TaskRecord \cup {NoTask}]
    /\ failures \in [Threads -> Nat]
    /\ emitting \in [Threads -> BOOLEAN]
    /\ emitted \in [Tasks -> Seq(AuditActions)]
    /\ executions \in [Tasks -> Nat]
    /\ calls \in Nat
    /\ \A i \in DOMAIN queue : store[queue[i]] # NoTask
    /\ \A t \in Threads :
          /\ pc[t] = "idle" => tid[t] = NoTask /\ ~emitting[t]
          /\ pc[t] # "idle" => tid[t] \in Tasks /\ store[tid[t]] \in TaskRecord
          /\ pc[t] \in LoadedLabels \/ emitting[t] => task[t] \in TaskRecord

(* No record is ever RUNNING or past it without clearance: a person approved *)
(* the task, or the policy engine allowed it and its capability needs no     *)
(* approval.  This holds of the callers' copies too, so no interleaving of   *)
(* stale saves can lead to an uncleared execution.                           *)
Cleared(rec) ==
    \/ HasEntry(rec, "approved")
    \/ HasEntry(rec, "allowed") /\ rec.capability \notin RequireApproval

ClearedBeforeExecution ==
    /\ \A k \in Tasks :
          store[k] # NoTask /\ store[k].attempt > 0 => Cleared(store[k])
    /\ \A t \in Threads :
          pc[t] \in RunningLabels \cup {"start"} => Cleared(task[t])

(* However calls overlap, no record counts more attempts than the first one *)
(* and max_retries more, and only a record that has started counts any.     *)
WithinBudget(rec) ==
    /\ rec.attempt <= AttemptLimit(rec.max_retries)
    /\ rec.status \in {"pending", "awaiting_approval", "approved",
                       "policy_denied", "cancelled"} <=> rec.attempt = 0

AttemptBudget ==
    /\ \A k \in Tasks : store[k] # NoTask => WithinBudget(store[k])
    /\ \A t \in Threads : task[t] # NoTask => WithinBudget(task[t])

(* A record is RUNNING only while some caller is inside run_task for it and *)
(* still owes it a final status: without faults, no task is left RUNNING.   *)
RunningHasRunner ==
    \A k \in Tasks :
       store[k] # NoTask /\ store[k].status = "running" =>
          \E t \in Threads : tid[t] = k /\ pc[t] \in OwingLabels

(* The moves the status machine allows. *)
LegalMoves ==
    {<<"none", "pending">>, <<"pending", "pending">>,
     <<"pending", "awaiting_approval">>, <<"pending", "policy_denied">>,
     <<"pending", "running">>, <<"awaiting_approval", "approved">>,
     <<"awaiting_approval", "cancelled">>, <<"approved", "running">>,
     <<"running", "running">>, <<"running", "completed">>,
     <<"running", "failed">>, <<"running", "escalated">>}

(* The first i entries of a trail lead to status s: the latest of them that *)
(* has a to_status has this one, and s is "none" if there is none.          *)
LeadsTo(trail, i, s) ==
    \/ s = "none" /\ \A j \in 1..i : trail[j].to_status = "none"
    \/ s # "none" /\ \E j \in 1..i :
          /\ trail[j].to_status = s
          /\ \A h \in (j + 1)..i : trail[h].to_status = "none"

(* The audit trail of a record is a walk of the status machine from its     *)
(* submission to its present status, each entry starting where the last     *)
(* one ended.                                                               *)
TrailIsWalk(rec) ==
    /\ \A i \in DOMAIN rec.audit_trail :
          LET e == rec.audit_trail[i]
          IN  e.to_status # "none" =>
                 /\ <<e.from_status, e.to_status>> \in LegalMoves
                 /\ LeadsTo(rec.audit_trail, i - 1, e.from_status)
    /\ LeadsTo(rec.audit_trail, Len(rec.audit_trail), rec.status)

AuditTrailIsWalk == \A k \in Tasks : store[k] # NoTask => TrailIsWalk(store[k])

CountEntries(rec, action) ==
    Cardinality({i \in DOMAIN rec.audit_trail : rec.audit_trail[i].action = action})

(* Failure context is durable before it is acted on: whenever a caller is   *)
(* about to decide on a retry, to execute again or to give up, the stored   *)
(* audit trail holds one failure_recorded entry per failure of the call.    *)
FailuresAreDurable ==
    \A t \in Threads :
       pc[t] \in {"execute", "decide", "publish_failed", "fail"} =>
          CountEntries(store[tid[t]], "failure_recorded") = failures[t]

(* Over the whole life of a task, whatever is queued twice, run directly    *)
(* while queued, crashed and run again, its capability is executed at most  *)
(* max_retries times more than once.                                        *)
ExecutionsWithinBudget ==
    \A k \in Tasks :
       store[k] # NoTask => executions[k] <= AttemptLimit(store[k].max_retries)

(* Actions that are audited without an event. *)
SilentActions == {"submitted", "allowed", "failure_recorded", "peer_suggestion_applied"}

Announced(trail, n) == {i \in 1..n : trail[i].action \notin SilentActions}

(* The events are the announced entries of a trail, each once and in order. *)
Mirrors(events, trail) ==
    /\ Len(events) = Cardinality(Announced(trail, Len(trail)))
    /\ \A i \in Announced(trail, Len(trail)) :
          events[Cardinality(Announced(trail, i))] = trail[i].action

(* The event bus tells the same story as the audit trail: once no emission  *)
(* is pending, the events of a task are its audited moves and retries, each *)
(* once and in order.                                                       *)
EventsMirrorTrail ==
    \A k \in Tasks :
       store[k] # NoTask /\ (\A t \in Threads : tid[t] = k => ~emitting[t]) =>
          Mirrors(emitted[k], store[k].audit_trail)

(* Every call ends: the retry loop terminates and no step waits for another *)
(* caller.                                                                  *)
CallsReturn == \A t \in Threads : pc[t] # "idle" ~> pc[t] = "idle"

StatusOf(k) == IF store[k] = NoTask THEN "absent" ELSE store[k].status

(* docs/conductor/execution-flow.md: the supervisor stores a final          *)
(* TaskRecord.  A task that has started ends in a terminal status.          *)
StartedTasksEnd ==
    \A k \in Tasks : StatusOf(k) = "running" ~> StatusOf(k) \in TerminalStatuses

(* The status machine alone, as the store shows it. *)
Lifecycle == INSTANCE TaskLifecycle WITH
    status  <- [k \in Tasks |-> StatusOf(k)],
    attempt <- [k \in Tasks |-> IF store[k] = NoTask THEN 0 ELSE store[k].attempt],
    budget  <- [k \in Tasks |-> IF store[k] = NoTask THEN 0 ELSE store[k].max_retries]

(* When calls on one task do not overlap, the supervisor implements         *)
(* TaskLifecycle: a terminal status is never left, a task starts once, and  *)
(* every write to the store is one legal move.                              *)
RefinesLifecycle == Lifecycle!Spec

-----------------------------------------------------------------------------
(* Statements of the documentation that the code does not keep *)

(* docs/conductor/design-integrity.md, invariant 9: once ESCALATED is       *)
(* written to the store, no transition overwrites it with RUNNING.          *)
EscalatedNeverRunsAgain ==
    [][\A k \in Tasks : StatusOf(k) = "escalated" => StatusOf(k)' # "running"]_store

(* docs/conductor/task-model.md: the state machine ends in Completed, which *)
(* leads nowhere.                                                           *)
CompletedIsFinal ==
    [][\A k \in Tasks : StatusOf(k) = "completed" => StatusOf(k)' = "completed"]_store
=============================================================================
