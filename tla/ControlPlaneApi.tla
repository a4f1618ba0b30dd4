-------------------------- MODULE ControlPlaneApi --------------------------
(***************************************************************************)
(* The routes of engine/api/routes/tasks.py and health.py, and the         *)
(* commands of cli/cond.py that work on the same task file: what a client  *)
(* is told and what became of its request.  The server                     *)
(* (engine/api/server.py) loads its capabilities, owns a bounded queue and *)
(* a task store that outlives it, and handles requests in a thread pool.   *)
(* Nothing in the server takes ids out of the queue; tasks are run by      *)
(* POST /run and POST /{id}/run.  A command is a process with a supervisor *)
(* of its own: the same file, but a queue that ends with the process, and  *)
(* no policy.                                                              *)
(*                                                                         *)
(* run_task is one load, one gate and one end here; its inner steps, retry *)
(* and races are TaskSupervisor's.  "failed" stands for failed and         *)
(* escalated.                                                              *)
(***************************************************************************)
EXTENDS Integers, Sequences, FiniteSets, CapabilityRegistry

CONSTANTS
    Clients,      \* who asks, one request or command at a time
    Shells,       \* those of them that run cond; the others are HTTP clients
    RequestIds,      \* task ids, 1..n
    Configs,      \* capability configurations
    Leftovers,    \* tasks an earlier server may have left in the store
    QueueSize,    \* max_size
    MaxRequests   \* bound: requests that change something

(* TaskStatus, with one name for failed and escalated. *)
TaskStatuses ==
    {"pending", "awaiting_approval", "approved", "running", "completed", "failed",
     "policy_denied", "cancelled"}

ASSUME ApiConstants ==
    /\ QueueSize \in Nat \ {0}
    /\ RequestIds \subseteq Nat \ {0}
    /\ \A task \in Leftovers :
           task.status \in TaskStatuses /\ task = [status |-> task.status, cap |-> task.cap]

VARIABLES
    config,       \* the capability configuration
    registry,     \* what LoadCapabilities made of it
    tasks,        \* [RequestIds -> [status, cap]]: the store
    queue,        \* BoundedTaskQueue
    req,          \* [Clients -> the request and, when it is done, its answer]
    requests,     \* requests that may change something, so far
    approvals,    \* ids that were approved (history)
    executed      \* ids whose capability was called (history)

apiVars == <<config, registry, tasks, queue, req, requests, approvals, executed>>

NoRecord == [status |-> "absent", cap |-> "none"]
Executable == {"pending", "approved"}
Begun == {"running", "completed", "failed"}
Active == {"pending", "running", "approved", "awaiting_approval"}

(* op, task id, pc, the copy of the status, the run flag; HTTP status and   *)
(* the task status in the body; whether the request saved a record or put   *)
(* an id into the queue (history).                                          *)
NoRequest == [op |-> "none", id |-> 0, pc |-> "done", copy |-> "absent", run |-> FALSE,
              code |-> 0, body |-> "none", saved |-> FALSE, queued |-> FALSE]

ApiInit ==
    /\ config \in Configs
    /\ registry = LoadCapabilities(config)
    /\ ~registry.raised      \* otherwise the server does not start
    /\ tasks \in {[i \in RequestIds |-> IF i = 1 THEN t ELSE NoRecord] : t \in Leftovers \cup {NoRecord}}
    /\ queue = << >>
    /\ req = [c \in Clients |-> NoRequest]
    /\ requests = 0
    /\ approvals = {i \in RequestIds : tasks[i].status \in Begun \cup {"approved"}}
    /\ executed = {i \in RequestIds : tasks[i].status \in Begun}

SetReq(c, r) == req' = [req EXCEPT ![c] = r]

(* The HTTP status, or the exit status of main: 2 for a ValueError. *)
Code(c, code) == IF c \notin Shells THEN code ELSE IF code = 200 THEN 0 ELSE 2

Answer(c, code, body) ==
    SetReq(c, [req[c] EXCEPT !.pc = "done", !.copy = "absent", !.code = Code(c, code), !.body = body])
SaveStatus(i, status) == tasks' = [tasks EXCEPT ![i].status = status]

Begin(c) ==
    /\ req[c].pc = "done" /\ requests < MaxRequests
    /\ requests' = requests + 1

Refuse(c, op, i, code) ==
    SetReq(c, [NoRequest EXCEPT !.op = op, !.id = i, !.code = Code(c, code)])

Unused(i) == i \in RequestIds /\ tasks[i] = NoRecord /\ \A j \in RequestIds : j < i => tasks[j] # NoRecord

(* validate_task_submission: the capability is registered, and the name and *)
(* the input are as its input schema wants them.                            *)
Valid(cap, accepted) == cap \in registry.names /\ accepted

(* submit_task, run_task_inline and cond run: the record is saved if it is  *)
(* valid.                                                                   *)
CreateTask(c, op, i, cap, accepted) ==
    /\ Begin(c) /\ Unused(i)
    /\ IF ~Valid(cap, accepted)
       THEN Refuse(c, op, 0, 400) /\ UNCHANGED tasks
       ELSE /\ tasks' = [tasks EXCEPT ![i] = [status |-> "pending", cap |-> cap]]
            /\ SetReq(c, [NoRequest EXCEPT !.op = op, !.id = i, !.saved = TRUE, !.run = (op = "inline"),
                                           !.pc = IF op = "inline" THEN "load" ELSE "enqueue"])
    /\ UNCHANGED <<config, registry, queue, approvals, executed>>

(* Mutation: submit_task does not look at the outcome of the enqueue. *)
EnqueueUnseen(c) ==
    LET full == Len(queue) >= QueueSize
    IN  /\ req[c].pc = "enqueue" /\ c \notin Shells
        /\ queue' = IF full THEN queue ELSE Append(queue, req[c].id)
        /\ SetReq(c, [req[c] EXCEPT !.pc = "done", !.code = IF req[c].op = "submit" THEN 202 ELSE 200,
                        !.queued = ~full, !.body = tasks[req[c].id].status])
        /\ UNCHANGED <<config, registry, tasks, requests, approvals, executed>>

(* queue.enqueue.  QueueFull is answered 429 by submit_task; approve_task   *)
(* does not catch it.                                                       *)
Enqueue(c) ==
    LET full == Len(queue) >= QueueSize
    IN  /\ req[c].pc = "enqueue" /\ c \notin Shells
        /\ queue' = IF full THEN queue ELSE Append(queue, req[c].id)
        /\ SetReq(c, [req[c] EXCEPT !.pc = "done", !.queued = ~full,
                        !.code = CASE req[c].op = "submit" -> IF full THEN 429 ELSE 202
                                   [] OTHER -> IF full THEN 500 ELSE 200,
                        !.body = IF req[c].op = "submit" THEN "pending" ELSE "approved"])
        /\ UNCHANGED <<config, registry, tasks, requests, approvals, executed>>

(* cond task approve --no-run: the queue is the process's own. *)
EnqueueAndExit(c) ==
    /\ req[c].pc = "enqueue" /\ c \in Shells
    /\ Answer(c, 200, "approved")
    /\ UNCHANGED <<config, registry, tasks, queue, requests, approvals, executed>>

(* run_queued_task *)
RunQueued(c, i) ==
    /\ Begin(c)
    /\ IF tasks[i] = NoRecord
       THEN Refuse(c, "run", i, 404)
       ELSE SetReq(c, [NoRequest EXCEPT !.op = "run", !.id = i, !.run = TRUE, !.pc = "load"])
    /\ UNCHANGED <<config, registry, tasks, queue, approvals, executed>>

(* run_task: load, and return a task that is not executable as it is.  A    *)
(* capability that is no longer registered raises ValueError, which the     *)
(* routes answer differently.                                               *)
LoadTask(c) ==
    LET task == tasks[req[c].id]
    IN  /\ req[c].pc = "load"
        /\ IF task.status \notin Executable THEN Answer(c, 200, task.status)
           ELSE IF task.cap \notin registry.names
           THEN Answer(c, IF req[c].op = "run" THEN 404 ELSE 400, "none")
           ELSE SetReq(c, [req[c] EXCEPT !.pc = "gate", !.copy = task.status])
        /\ UNCHANGED <<config, registry, tasks, queue, requests, approvals, executed>>

(* Mutation: cond, which has no policy, passes the capability's gate too. *)
GateOfServer(c) ==
    LET i == req[c].id
        gated == tasks[i].cap \in registry.gated
        next == IF req[c].copy = "approved" \/ c \in Shells THEN {"running"}
                ELSE IF gated THEN {"awaiting_approval"}
                ELSE {"running", "awaiting_approval", "policy_denied"}
    IN  /\ req[c].pc = "gate"
        /\ \E status \in next :
               /\ SaveStatus(i, status)
               /\ executed' = IF status = "running" THEN executed \cup {i} ELSE executed
               /\ SetReq(c, [req[c] EXCEPT !.pc = IF status = "running" THEN "execute" ELSE "done",
                                           !.copy = "absent", !.saved = TRUE])
        /\ UNCHANGED <<config, registry, queue, requests, approvals>>

(* The capability's own gate, then the policy: hold, deny or start.  In     *)
(* cond the policy is NullPolicyEngine.                                     *)
Gate(c) ==
    LET i == req[c].id
        gated == tasks[i].cap \in registry.gated
        next == IF req[c].copy = "approved" THEN {"running"}
                ELSE IF gated THEN {"awaiting_approval"}
                ELSE IF c \in Shells THEN {"running"}
                ELSE {"running", "awaiting_approval", "policy_denied"}
    IN  /\ req[c].pc = "gate"
        /\ \E status \in next :
               /\ SaveStatus(i, status)
               /\ executed' = IF status = "running" THEN executed \cup {i} ELSE executed
               /\ SetReq(c, IF status = "running"
                            THEN [req[c] EXCEPT !.pc = "execute", !.copy = "absent", !.saved = TRUE]
                            ELSE [req[c] EXCEPT !.pc = "done", !.copy = "absent", !.saved = TRUE,
                                                !.code = Code(c, 200), !.body = status])
        /\ UNCHANGED <<config, registry, queue, requests, approvals>>

Execute(c) ==
    /\ req[c].pc = "execute"
    /\ \E status \in {"completed", "failed"} :
           SaveStatus(req[c].id, status) /\ Answer(c, 200, status)
    /\ UNCHANGED <<config, registry, queue, requests, approvals, executed>>

(* approve_task and cancel_task: "was not found" answers 404, another       *)
(* status 400.                                                              *)
BeginDecision(c, op, i, run) ==
    /\ Begin(c)
    /\ IF tasks[i] = NoRecord THEN Refuse(c, op, i, 404)
       ELSE IF tasks[i].status # "awaiting_approval" THEN Refuse(c, op, i, 400)
       ELSE SetReq(c, [NoRequest EXCEPT !.op = op, !.id = i, !.run = run, !.pc = "decide"])
    /\ UNCHANGED <<config, registry, tasks, queue, approvals, executed>>

(* The decision is saved over whatever is stored by now. *)
SaveDecision(c) ==
    LET r == [req[c] EXCEPT !.saved = TRUE]
    IN  /\ r.pc = "decide"
        /\ IF r.op = "cancel"
           THEN /\ SaveStatus(r.id, "cancelled")
                /\ SetReq(c, [r EXCEPT !.pc = "done", !.code = Code(c, 200), !.body = "cancelled"])
                /\ UNCHANGED approvals
           ELSE /\ SaveStatus(r.id, "approved")
                /\ approvals' = approvals \cup {r.id}
                /\ SetReq(c, [r EXCEPT !.pc = IF r.run THEN "load" ELSE "enqueue"])
        /\ UNCHANGED <<config, registry, queue, requests, executed>>

-----------------------------------------------------------------------------
(* get_task and cond task show *)
GetTask(c, i) ==
    /\ req[c].pc = "done"
    /\ SetReq(c, [NoRequest EXCEPT !.op = "get", !.id = i, !.body = tasks[i].status,
                                   !.code = Code(c, IF tasks[i] = NoRecord THEN 404 ELSE 200)])
    /\ UNCHANGED <<config, registry, tasks, queue, requests, approvals, executed>>

(* BoundedTaskQueue.health_check: utilization > 0.9. *)
QueueHealthy == 10 * Len(queue) <= 9 * QueueSize

(* health_check: 503 when a component reports an issue; the body shows the  *)
(* length of the queue.                                                     *)
GetHealth(c) ==
    /\ req[c].pc = "done"
    /\ SetReq(c, [NoRequest EXCEPT !.op = "health",
                    !.body = IF Len(queue) < QueueSize THEN "room" ELSE "full",
                    !.code = IF RegistryHealthy(registry) /\ QueueHealthy THEN 200 ELSE 503])
    /\ UNCHANGED <<config, registry, tasks, queue, requests, approvals, executed>>

Asked == {e.name : e \in ToSet(config.entries)} \cup {"unknown"}

(* What both the server and the commands offer. *)
Manage(c, i) ==
    \/ \E cap \in Asked, accepted \in BOOLEAN : CreateTask(c, "inline", i, cap, accepted)
    \/ GetTask(c, i)
    \/ BeginDecision(c, "cancel", i, FALSE)
    \/ \E run \in BOOLEAN : BeginDecision(c, "approve", i, run)

Request(c, i) ==
    /\ c \notin Shells
    /\ \/ Manage(c, i)
       \/ \E cap \in Asked, accepted \in BOOLEAN : CreateTask(c, "submit", i, cap, accepted)
       \/ RunQueued(c, i)
       \/ GetHealth(c)

(* cond run, task show, task cancel, task approve. *)
Command(c, i) == c \in Shells /\ Manage(c, i)

ApiNext ==
    \E c \in Clients :
        \/ \E i \in RequestIds : Request(c, i) \/ Command(c, i)
        \/ Enqueue(c) \/ EnqueueAndExit(c)
        \/ LoadTask(c) \/ Gate(c) \/ Execute(c) \/ SaveDecision(c)

ApiSpec == ApiInit /\ [][ApiNext]_apiVars

-----------------------------------------------------------------------------
(* What a client is told is so, however requests and commands interleave on *)
(* the one file: a task said to be enqueued (202, or approved with run      *)
(* false) is in the server's queue; a submission that met a full queue left *)
(* its task in the store; a status read, perhaps from what another client   *)
(* saved, as completed or failed means that the capability was called, and  *)
(* as approved that someone approved; a run that succeeds does not leave    *)
(* the task waiting to be run; a queue that refuses submissions is never    *)
(* reported as healthy; and a request that is refused (400, 404, exit 2)    *)
(* saved nothing, but for an approval whose capability is gone when the     *)
(* task is to run.  An internal error (500) tells nothing.                  *)
AnswersTellEffects ==
    \A c \in Clients :
        LET r == req[c]
        IN  r.pc = "done" =>
                /\ r.op = "submit" /\ r.code = 202 => r.id \in ToSet(queue)
                /\ r.op = "approve" /\ r.code = 200 /\ ~r.run => r.id \in ToSet(queue)
                /\ r.op = "submit" /\ r.code \in {202, 429} => tasks[r.id] # NoRecord
                /\ r.body \in {"completed", "failed"} => r.id \in executed
                /\ r.body = "approved" => r.id \in approvals
                /\ r.run /\ r.code \in {0, 200} => r.body \notin Executable
                /\ r.op = "health" /\ r.body = "full" => r.code = 503
                /\ r.op \in {"submit", "run", "cancel"} /\ r.code \in {2, 400, 404} => ~r.saved
                /\ r.op = "approve" /\ r.code \in {2, 400, 404} /\ r.saved =>
                       tasks[r.id].cap \notin registry.names

(* A capability whose descriptor asks for approval is called for a task     *)
(* only after someone approved the task, whichever of the server and the    *)
(* commands, with or without a policy, runs it, and whatever they read      *)
(* before another of them saved.                                            *)
GatedRunsApproved ==
    \A i \in executed : tasks[i].cap \in registry.gated => i \in approvals

(* "Wait for tasks to complete before submitting more" (QueueFull): when    *)
(* every task has ended and no request is in progress, a submission is not  *)
(* refused.                                                                 *)
RoomAfterCompletion ==
    ( /\ \A c \in Clients : req[c].pc = "done"
      /\ \A i \in RequestIds : tasks[i].status \notin Active ) => Len(queue) < QueueSize

(* "Declarable in YAML capability config via require_approval: true": such  *)
(* a capability is not executed without an approval.                        *)
YamlApprovalHolds ==
    \A i \in executed :
        (\E e \in ToSet(config.entries) : e.name = tasks[i].cap /\ e.yaml) => i \in approvals
=============================================================================
