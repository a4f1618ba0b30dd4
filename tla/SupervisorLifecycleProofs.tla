--------------------- MODULE SupervisorLifecycleProofs ---------------------
(***************************************************************************)
(* What TaskSupervisor guarantees when calls on one task do not overlap:   *)
(* failures are durable before they are acted on, a capability is executed *)
(* at most as often as the budget allows over the whole life of a task,    *)
(* and the store implements TaskLifecycle.                                 *)
(*                                                                         *)
(* The argument: with one caller per task, the caller's copy and the       *)
(* stored record agree at every label, so what the caller decides on is    *)
(* what the store holds.                                                   *)
(***************************************************************************)
EXTENDS TaskSupervisorProofs, FiniteSetTheorems

Failed(rec) == CountEntries(rec, "failure_recorded")

(* What a copy and the stored record share even when the last save failed. *)
Agree(stored, copy) ==
    /\ stored.attempt = copy.attempt
    /\ stored.max_retries = copy.max_retries
    /\ Failed(stored) = Failed(copy)

OneCallerPerTask ==
    \A t, u \in Threads : tid[t] = tid[u] /\ tid[t] # NoTask => t = u

(* A task that never started never executed and never failed; no task was   *)
(* executed more often than its attempts say.                               *)
ExecutionsCounted ==
    /\ \A k \in Tasks : store[k] = NoTask => executions[k] = 0
    /\ \A k \in Tasks : store[k] # NoTask => executions[k] <= store[k].attempt
    /\ \A k \in Tasks : store[k] # NoTask /\ store[k].attempt = 0 => Failed(store[k]) = 0

CopiesAgree ==
    \A t \in Threads : pc[t] \in LoadedLabels => Agree(store[tid[t]], task[t])

FailuresCounted ==
    \A t \in Threads : pc[t] \in RunningLabels => Failed(task[t]) = failures[t]

ExclusiveInv ==
    /\ OneCallerPerTask
    /\ ExecutionsCounted
    /\ CopiesAgree
    /\ FailuresCounted

-----------------------------------------------------------------------------
(* Counting audit entries *)

(* An audit entry adds a failure exactly if it records one. *)
LEMMA CountGrows ==
    ASSUME NEW rec \in TaskRecord, NEW new \in TaskRecord, NEW a, NEW from, NEW to,
           new.audit_trail = Append(rec.audit_trail, Entry(a, from, to))
    PROVE  /\ Failed(rec) \in Nat
           /\ Failed(new) = Failed(rec) + (IF a = "failure_recorded" THEN 1 ELSE 0)
  <1> DEFINE s == rec.audit_trail
             z == new.audit_trail
             e == Entry(a, from, to)
             n == Len(s)
             S == {i \in 1..n : s[i].action = "failure_recorded"}
             Z == {i \in 1..(n + 1) : z[i].action = "failure_recorded"}
  <1>1. s \in Seq(AuditEntry) /\ z \in Seq(AuditEntry)
    BY DEF TaskRecord
  <1>2. z = Append(s, e) /\ e.action = a
    BY DEF Entry
  <1>3. /\ n \in Nat /\ DOMAIN s = 1..n /\ DOMAIN z = 1..(n + 1)
        /\ z[n + 1] = e /\ \A i \in 1..n : z[i] = s[i]
    BY <1>1, <1>2
  <1>4. Failed(rec) = Cardinality(S) /\ Failed(new) = Cardinality(Z)
    BY <1>3 DEF Failed, CountEntries
  <1> HIDE DEF s, z, e, n
  <1>5. IsFiniteSet(S)
    <2>1. IsFiniteSet(1..n) /\ S \subseteq 1..n
      BY <1>3, FS_Interval
    <2> QED BY <2>1, FS_Subset
  <1>6. Cardinality(S) \in Nat
    BY <1>5, FS_CardinalityType
  <1>7. CASE a = "failure_recorded"
    <2>1. Z = S \cup {n + 1} /\ n + 1 \notin S
      BY <1>2, <1>3, <1>7
    <2> HIDE DEF S, Z
    <2>2. Cardinality(Z) = Cardinality(S) + 1
      BY <1>5, <2>1, FS_AddElement
    <2> QED BY <1>4, <1>6, <1>7, <2>2
  <1>8. CASE a # "failure_recorded"
    <2>1. Z = S
      BY <1>2, <1>3, <1>8
    <2> HIDE DEF S, Z
    <2> QED BY <1>4, <1>6, <1>8, <2>1
  <1> QED BY <1>7, <1>8

(* A new record has no failure and no attempt. *)
LEMMA CreatedUnfailed ==
    ASSUME NEW c \in Capabilities, NEW m \in RetryBudgets
    PROVE  Failed(CreateTaskRecord(c, m)) = 0 /\ CreateTaskRecord(c, m).attempt = 0
  <1> DEFINE s == << Entry("submitted", "none", "pending") >>
  <1>1. CreateTaskRecord(c, m).audit_trail = s /\ CreateTaskRecord(c, m).attempt = 0
    BY DEF CreateTaskRecord
  <1>2. DOMAIN s = 1..1 /\ s[1].action = "submitted"
    BY DEF Entry
  <1> HIDE DEF s
  <1>3. {i \in DOMAIN s : s[i].action = "failure_recorded"} = {}
    BY <1>2
  <1> QED BY <1>1, <1>3, FS_EmptySet DEF Failed, CountEntries

-----------------------------------------------------------------------------
(* The invariant is inductive *)

(* The four parts in the next state, with the operators applied to primed   *)
(* variables.                                                               *)
LEMMA ExclusiveInvPrimed ==
    ASSUME \A t, u \in Threads : tid'[t] = tid'[u] /\ tid'[t] # NoTask => t = u,
           \A k \in Tasks : store'[k] = NoTask => executions'[k] = 0,
           \A k \in Tasks : store'[k] # NoTask =>
              /\ executions'[k] <= store'[k].attempt
              /\ store'[k].attempt = 0 => Failed(store'[k]) = 0,
           \A t \in Threads : pc'[t] \in LoadedLabels => Agree(store'[tid'[t]], task'[t]),
           \A t \in Threads : pc'[t] \in RunningLabels => Failed(task'[t]) = failures'[t]
    PROVE  ExclusiveInv'
  BY DEF ExclusiveInv, OneCallerPerTask, ExecutionsCounted, CopiesAgree, FailuresCounted,
         Agree, Failed, CountEntries

(* A caller's own copy, before its step. *)
LEMMA OwnCopy ==
    ASSUME SupervisorInv, ExclusiveInv, NEW t \in Threads, pc[t] \in LoadedLabels
    PROVE  /\ tid[t] \in Tasks /\ store[tid[t]] \in TaskRecord /\ store[tid[t]] # NoTask
           /\ task[t] \in TaskRecord /\ RecordOK(task[t]) /\ LabelOK(pc[t], task[t])
           /\ task[t].attempt \in Nat
           /\ pc[t] \in RunningLabels => task[t].attempt > 0
           /\ Agree(store[tid[t]], task[t])
           /\ executions[tid[t]] <= task[t].attempt
           /\ task[t].attempt = 0 => Failed(task[t]) = 0
           /\ \A u \in Threads \ {t} : tid[u] # tid[t]
  <1>1. "idle" \notin LoadedLabels
    BY DEF LoadedLabels, RunningLabels, OwingLabels
  <1>2. /\ tid[t] \in Tasks /\ store[tid[t]] \in TaskRecord /\ store[tid[t]] # NoTask
        /\ task[t] \in TaskRecord /\ RecordOK(task[t]) /\ LabelOK(pc[t], task[t])
    BY <1>1, NoTaskIsNone DEF SupervisorInv, TypeOK
  <1>3. task[t].attempt \in Nat
    BY <1>2 DEF TaskRecord
  <1>4. pc[t] \in RunningLabels => task[t].attempt > 0
    BY <1>2, <1>3 DEF LabelOK, RecordOK, WithinBudget
  <1>5. Agree(store[tid[t]], task[t])
    BY DEF ExclusiveInv, CopiesAgree
  <1>6. /\ executions[tid[t]] <= store[tid[t]].attempt
        /\ store[tid[t]].attempt = 0 => Failed(store[tid[t]]) = 0
    BY <1>2 DEF ExclusiveInv, ExecutionsCounted
  <1>7. \A u \in Threads \ {t} : tid[u] # tid[t]
    BY <1>2, NoTaskIsNone DEF ExclusiveInv, OneCallerPerTask
  <1> QED BY <1>2, <1>3, <1>4, <1>5, <1>6, <1>7 DEF Agree

(* A save puts the caller's copy where its stored record was. *)
LEMMA SaveKeepsExclusive ==
    ASSUME SupervisorInv, ExclusiveInv, NEW t \in Threads, SaveStep(t)
    PROVE  ExclusiveInv'
  <1>a. /\ tid \in [Threads -> Tasks \cup {NoTask}] /\ pc \in [Threads -> Labels]
        /\ store \in [Tasks -> TaskRecord \cup {NoTask}]
        /\ task \in [Threads -> TaskRecord \cup {NoTask}]
        /\ executions \in [Tasks -> Nat] /\ failures \in [Threads -> Nat]
    BY DEF SupervisorInv, TypeOK
  <1> DEFINE k == tid[t]
             rec == task[t]
  <1>1. PICK row \in Saves, new \in TaskRecord :
           /\ pc[t] = row.at /\ Save(t, new, row.label) /\ Recorded(rec, new, row)
           /\ executions' = IF row.label = "execute"
                            THEN [executions EXCEPT ![k] = @ + 1] ELSE executions
           /\ failures' = [failures EXCEPT ![t] = IF row.at = "start" THEN 0
                                                  ELSE IF row.at = "record_failure" THEN @ + 1 ELSE @]
    BY DEF SaveStep
  <1>2. /\ store' = [store EXCEPT ![k] = new] /\ task' = [task EXCEPT ![t] = new]
        /\ pc' = [pc EXCEPT ![t] = row.label] /\ tid' = tid
    BY <1>1 DEF Save, Goto
  <1>l. /\ LoadedLabels = {"execute", "record_failure", "decide", "publish_failed", "fail",
               "publish_success", "gate", "peer", "start", "approve_run", "approve_queue",
               "cancel", "publish_escalated", "return"}
        /\ RunningLabels = {"execute", "record_failure", "decide", "publish_failed", "fail",
               "publish_success"}
    BY DEF LoadedLabels, RunningLabels, OwingLabels
  <1>3. pc[t] \in LoadedLabels /\ row.more \in {0, 1}
    BY <1>1, <1>l DEF Saves
  <1>4. /\ k \in Tasks /\ store[k] # NoTask /\ rec \in TaskRecord
        /\ rec.attempt \in Nat /\ (pc[t] \in RunningLabels => rec.attempt > 0)
        /\ executions[k] <= rec.attempt /\ (rec.attempt = 0 => Failed(rec) = 0)
        /\ \A u \in Threads \ {t} : tid[u] # k
    BY <1>3, OwnCopy
  <1>5. new.attempt = rec.attempt + row.more /\ new # NoTask
    BY <1>1, NoTaskIsNone DEF Recorded
  <1>6. Failed(new) = Failed(rec) + (IF row.action = "failure_recorded" THEN 1 ELSE 0)
        /\ Failed(rec) \in Nat
    BY <1>1, <1>4, CountGrows DEF Recorded
  <1>s. pc[t] = "start" => rec.attempt = 0
    <2>1. SUFFICES ASSUME pc[t] = "start" PROVE rec.attempt = 0
      OBVIOUS
    <2>2. RecordOK(rec) /\ rec.status \in ExecutableStatuses
      BY <2>1, <1>3, OwnCopy DEF LabelOK
    <2> QED BY <2>2 DEF RecordOK, WithinBudget, ExecutableStatuses
  <1> HIDE DEF k, rec
  <1>7. row.label = "execute" => row.more = 1
    BY DEF Saves
  <1>8. executions'[k] <= new.attempt
    BY <1>a, <1>1, <1>4, <1>5, <1>7, <1>3
  <1>9. new.attempt = 0 => Failed(new) = 0
    <2>1. row.action = "failure_recorded" => row.at \in RunningLabels
      BY <1>l DEF Saves
    <2> QED BY <1>1, <1>3, <1>4, <1>5, <1>6, <2>1
  <1>10. row.label \in RunningLabels => Failed(new) = failures'[t]
    <2> SUFFICES ASSUME row.label \in RunningLabels PROVE Failed(new) = failures'[t]
      OBVIOUS
    <2>1. row.at = "start" \/ row.at \in RunningLabels
      BY <1>l DEF Saves
    <2>2. /\ row.at = "start" => row.action # "failure_recorded"
          /\ row.at \in RunningLabels => (row.action = "failure_recorded" <=> row.at = "record_failure")
          /\ "start" \notin RunningLabels
      BY <1>l DEF Saves
    <2>3. row.at \in RunningLabels => Failed(rec) = failures[t]
      BY <1>1 DEF ExclusiveInv, FailuresCounted, rec
    <2>4. row.at = "start" => Failed(rec) = 0
      BY <1>1, <1>4, <1>s
    <2> QED BY <1>a, <1>1, <1>6, <2>1, <2>2, <2>3, <2>4
  <1>11. \A j \in Tasks \ {k} : store'[j] = store[j] /\ executions'[j] = executions[j]
    BY <1>a, <1>1, <1>2
  <1>12. store'[k] = new /\ task'[t] = new /\ pc'[t] = row.label
    BY <1>a, <1>2, <1>4
  <1>13. \A u \in Threads \ {t} : /\ task'[u] = task[u] /\ pc'[u] = pc[u]
                                  /\ failures'[u] = failures[u] /\ tid'[u] = tid[u]
    BY <1>a, <1>1, <1>2
  <1>14. \A u \in Threads : pc[u] \in LoadedLabels => tid[u] \in Tasks
    BY OwnCopy
  <1>15. \A v, u \in Threads : tid'[v] = tid'[u] /\ tid'[v] # NoTask => v = u
    BY <1>2 DEF ExclusiveInv, OneCallerPerTask
  <1>16. \A j \in Tasks : store'[j] = NoTask => executions'[j] = 0
    BY <1>5, <1>11, <1>12 DEF ExclusiveInv, ExecutionsCounted
  <1>17. \A j \in Tasks : store'[j] # NoTask =>
            /\ executions'[j] <= store'[j].attempt
            /\ store'[j].attempt = 0 => Failed(store'[j]) = 0
    BY <1>8, <1>9, <1>11, <1>12 DEF ExclusiveInv, ExecutionsCounted
  <1>18. ASSUME NEW u \in Threads, pc'[u] \in LoadedLabels PROVE Agree(store'[tid'[u]], task'[u])
    <2>1. CASE u = t
      BY <1>2, <1>12, <2>1 DEF Agree, k
    <2>2. CASE u # t
      <3>1. tid'[u] = tid[u] /\ tid[u] \in Tasks /\ tid[u] # k /\ pc[u] \in LoadedLabels
        BY <1>4, <1>13, <1>14, <1>18, <2>2
      <3>2. store'[tid[u]] = store[tid[u]] /\ task'[u] = task[u]
        BY <1>11, <1>13, <2>2, <3>1
      <3> QED BY <3>1, <3>2 DEF ExclusiveInv, CopiesAgree
    <2> QED BY <2>1, <2>2
  <1>19. \A u \in Threads : pc'[u] \in RunningLabels => Failed(task'[u]) = failures'[u]
    BY <1>10, <1>12, <1>13 DEF ExclusiveInv, FailuresCounted
  <1> QED BY <1>15, <1>16, <1>17, <1>18, <1>19, ExclusiveInvPrimed

(* Every step of a call keeps copy and record in agreement. *)
LEMMA StepKeepsExclusive ==
    ASSUME SupervisorInv, ExclusiveInv, NEW t \in Threads, Step(t)
    PROVE  ExclusiveInv'
  <1>a. /\ tid \in [Threads -> Tasks \cup {NoTask}] /\ pc \in [Threads -> Labels]
        /\ store \in [Tasks -> TaskRecord \cup {NoTask}]
        /\ task \in [Threads -> TaskRecord \cup {NoTask}]
        /\ executions \in [Tasks -> Nat] /\ failures \in [Threads -> Nat]
    BY DEF SupervisorInv, TypeOK
  <1>l. /\ LoadedLabels = {"execute", "record_failure", "decide", "publish_failed", "fail",
               "publish_success", "gate", "peer", "start", "approve_run", "approve_queue",
               "cancel", "publish_escalated", "return"}
        /\ RunningLabels = {"execute", "record_failure", "decide", "publish_failed", "fail",
               "publish_success"}
    BY DEF LoadedLabels, RunningLabels, OwingLabels
  \* A step that leaves the store, the counts and the other callers alone.
  <1>s. ASSUME UNCHANGED <<store, executions>>,
               \A u \in Threads \ {t} : /\ pc'[u] = pc[u] /\ tid'[u] = tid[u]
                                        /\ task'[u] = task[u] /\ failures'[u] = failures[u],
               tid'[t] \in {tid[t], NoTask},
               pc'[t] \in LoadedLabels => Agree(store[tid'[t]], task'[t]),
               pc'[t] \in RunningLabels => Failed(task'[t]) = failures'[t]
        PROVE  ExclusiveInv'
    <2>1. \A v, u \in Threads : tid'[v] = tid'[u] /\ tid'[v] # NoTask => v = u
      BY <1>s DEF ExclusiveInv, OneCallerPerTask
    <2>2. \A j \in Tasks : store'[j] = NoTask => executions'[j] = 0
      BY <1>s DEF ExclusiveInv, ExecutionsCounted
    <2>3. \A j \in Tasks : store'[j] # NoTask =>
             /\ executions'[j] <= store'[j].attempt
             /\ store'[j].attempt = 0 => Failed(store'[j]) = 0
      BY <1>s DEF ExclusiveInv, ExecutionsCounted
    <2>4. \A u \in Threads : pc'[u] \in LoadedLabels => Agree(store'[tid'[u]], task'[u])
      BY <1>s DEF ExclusiveInv, CopiesAgree
    <2>5. \A u \in Threads : pc'[u] \in RunningLabels => Failed(task'[u]) = failures'[u]
      BY <1>s DEF ExclusiveInv, FailuresCounted
    <2> QED BY <2>1, <2>2, <2>3, <2>4, <2>5, ExclusiveInvPrimed
  <1>1. CASE SaveStep(t)
    BY <1>1, SaveKeepsExclusive
  <1>2. CASE MoveStep(t)
    <2>1. PICK m \in Moves : pc[t] = m[1] /\ pc' = [pc EXCEPT ![t] = m[2]]
      BY <1>2 DEF MoveStep
    <2>2. /\ m[1] \in LoadedLabels
          /\ m[2] \in RunningLabels => m[1] \in RunningLabels
      BY <1>l DEF Moves
    <2>3. UNCHANGED <<store, tid, task, failures, executions>>
      BY <1>2 DEF MoveStep
    <2>4. Agree(store[tid[t]], task[t]) /\ (pc[t] \in RunningLabels => Failed(task[t]) = failures[t])
      BY <2>1, <2>2 DEF ExclusiveInv, CopiesAgree, FailuresCounted
    <2>5. pc'[t] = m[2] /\ \A u \in Threads \ {t} : pc'[u] = pc[u]
      BY <1>a, <2>1
    <2> QED BY <1>s, <2>1, <2>2, <2>3, <2>4, <2>5
  <1>3. CASE LoadStep(t)
    <2>1. /\ store' = store /\ task' = [task EXCEPT ![t] = store[tid[t]]] /\ tid' = tid
          /\ pc' = [pc EXCEPT ![t] = IF store[tid[t]].status = "pending" THEN "gate" ELSE "peer"]
          /\ failures' = failures /\ executions' = executions
      BY <1>3 DEF LoadStep
    <2>2. task'[t] = store[tid[t]] /\ pc'[t] \notin RunningLabels
      BY <1>a, <1>l, <2>1
    <2>3. Agree(store[tid[t]], task'[t])
      BY <2>2 DEF Agree
    <2>4. \A u \in Threads \ {t} : /\ pc'[u] = pc[u] /\ tid'[u] = tid[u]
                                   /\ task'[u] = task[u] /\ failures'[u] = failures[u]
      BY <1>a, <2>1
    <2> QED BY <1>s, <2>1, <2>2, <2>3, <2>4
  <1>4. CASE ReturnStep(t)
    <2>1. /\ store' = store /\ task' = [task EXCEPT ![t] = NoTask] /\ tid' = [tid EXCEPT ![t] = NoTask]
          /\ pc' = [pc EXCEPT ![t] = "idle"]
          /\ failures' = [failures EXCEPT ![t] = 0] /\ executions' = executions
      BY <1>4 DEF ReturnStep, Return, Goto
    <2>2. tid'[t] = NoTask /\ pc'[t] \notin LoadedLabels /\ pc'[t] \notin RunningLabels
      BY <1>a, <1>l, <2>1
    <2>3. \A u \in Threads \ {t} : /\ pc'[u] = pc[u] /\ tid'[u] = tid[u]
                                   /\ task'[u] = task[u] /\ failures'[u] = failures[u]
      BY <1>a, <2>1
    <2> QED BY <1>s, <2>1, <2>2, <2>3
  <1>5. CASE LateFailureStep(t)
    <2>1. /\ pc[t] \in RunningLabels /\ pc[t] \in LoadedLabels /\ tid' = tid
          /\ task' = task \/ task' = [task EXCEPT ![t] = CompletedRecord(@)]
          /\ pc' = [pc EXCEPT ![t] = "record_failure"]
          /\ UNCHANGED <<store, failures, executions>>
      BY <1>5, <1>l DEF LateFailureStep
    <2>2. Agree(store[tid[t]], task[t]) /\ Failed(task[t]) = failures[t]
      BY <2>1 DEF ExclusiveInv, CopiesAgree, FailuresCounted
    <2>3. task[t] \in TaskRecord
      BY <2>1, OwnCopy
    <2>4. Agree(task[t], CompletedRecord(task[t]))
      <3> DEFINE rec == task[t]
                 r == WithResult(rec, "success")
                 new == CompletedRecord(rec)
      <3>1. /\ r \in TaskRecord /\ r.attempt = rec.attempt /\ r.max_retries = rec.max_retries
            /\ r.audit_trail = rec.audit_trail
        BY <2>3, FieldFacts, FieldTrails
      <3>2. "completed" \in AuditActions /\ "completed" \in TaskStatus
        BY DEF AuditActions, TaskStatus
      <3>3. /\ new \in TaskRecord /\ new.attempt = rec.attempt /\ new.max_retries = rec.max_retries
        BY <3>1, <3>2, TransitionedFacts DEF CompletedRecord
      <3>4. new.audit_trail = Append(rec.audit_trail, Entry("completed", r.status, "completed"))
        BY <3>1, <3>2, TransitionedRecorded DEF CompletedRecord
      <3> HIDE DEF new, rec
      <3>5. Failed(new) = Failed(rec) + 0 /\ Failed(rec) \in Nat
        BY <2>3, <3>3, <3>4, CountGrows DEF rec
      <3> QED BY <3>3, <3>5 DEF Agree, rec, new
    <2>5. task'[t] \in {task[t], CompletedRecord(task[t])} /\ \A u \in Threads \ {t} : task'[u] = task[u]
      BY <1>a, <2>1
    <2>6. Agree(store[tid[t]], task'[t]) /\ Failed(task'[t]) = failures[t]
      BY <2>2, <2>4, <2>5 DEF Agree
    <2>7. \A u \in Threads \ {t} : pc'[u] = pc[u]
      BY <1>a, <2>1
    <2> QED BY <1>s, <2>1, <2>5, <2>6, <2>7
  <1>6. CASE QuietStep(t)
    BY <1>6, <1>s DEF QuietStep, ExclusiveInv, CopiesAgree, FailuresCounted
  <1> QED BY <1>1, <1>2, <1>3, <1>4, <1>5, <1>6, StepKinds

(* A call begins only on a task that no other call holds. *)
LEMMA EnterKeepsExclusive ==
    ASSUME SupervisorInv, ExclusiveInv, ExclusiveCallers, NEW t \in Threads, Enter(t)
    PROVE  ExclusiveInv'
  <1>a. /\ tid \in [Threads -> Tasks \cup {NoTask}] /\ pc \in [Threads -> Labels]
        /\ store \in [Tasks -> TaskRecord \cup {NoTask}]
        /\ task \in [Threads -> TaskRecord \cup {NoTask}]
        /\ \A u \in Threads : tid[u] # NoTask => store[tid[u]] # NoTask
    BY NoTaskIsNone DEF SupervisorInv, TypeOK
  <1>l. /\ "enqueue" \notin LoadedLabels /\ "run_task" \notin LoadedLabels
        /\ {"enqueue", "run_task", "approve_run", "approve_queue", "cancel"} \cap RunningLabels = {}
    BY DEF LoadedLabels, RunningLabels, OwingLabels
  <1>1. PICK k \in Tasks, label \in {"enqueue", "run_task", "approve_run", "approve_queue", "cancel"} :
                 /\ tid' = [tid EXCEPT ![t] = k]
                 /\ pc' = [pc EXCEPT ![t] = label]
                 /\ \/ /\ store[k] = NoTask
                       /\ \E c \in Capabilities, m \in RetryBudgets :
                             store' = [store EXCEPT ![k] = CreateTaskRecord(c, m)]
                       /\ label \in {"enqueue", "run_task"}
                       /\ UNCHANGED task
                    \/ /\ label = "run_task"
                       /\ MayCall(k) /\ store[k] # NoTask
                       /\ UNCHANGED <<store, task>>
                    \/ /\ label \in {"approve_run", "approve_queue", "cancel"}
                       /\ MayCall(k) /\ store[k] # NoTask
                       /\ store[k].status = "awaiting_approval"
                       /\ task' = [task EXCEPT ![t] = store[k]]
                       /\ UNCHANGED store
    BY EnterKinds
  <1>2. failures' = failures /\ executions' = executions
    BY EnterKinds
  <1>3. \A u \in Threads : tid[u] # k
    BY <1>a, <1>1, NoTaskIsNone DEF MayCall
  <1>4. \A v, u \in Threads : tid'[v] = tid'[u] /\ tid'[v] # NoTask => v = u
    BY <1>a, <1>1, <1>3 DEF ExclusiveInv, OneCallerPerTask
  <1>5. \A u \in Threads \ {t} : /\ tid'[u] = tid[u] /\ pc'[u] = pc[u] /\ task'[u] = task[u]
    BY <1>a, <1>1
  <1>6. \A j \in Tasks \ {k} : store'[j] = store[j]
    BY <1>a, <1>1
  <1>7. store'[k] = store[k] \/ /\ store'[k].attempt = 0 /\ Failed(store'[k]) = 0
                                /\ store[k] = NoTask
    BY <1>a, <1>1, CreatedUnfailed
  <1>8. \A j \in Tasks : store'[j] = NoTask => executions'[j] = 0
    <2>1. executions \in [Tasks -> Nat]
      BY DEF SupervisorInv, TypeOK
    <2> QED BY <1>2, <1>6, <1>7 DEF ExclusiveInv, ExecutionsCounted
  <1>9. \A j \in Tasks : store'[j] # NoTask =>
             /\ executions'[j] <= store'[j].attempt
             /\ store'[j].attempt = 0 => Failed(store'[j]) = 0
    BY <1>2, <1>6, <1>7 DEF ExclusiveInv, ExecutionsCounted
  <1>10. ASSUME NEW u \in Threads, pc'[u] \in LoadedLabels PROVE Agree(store'[tid'[u]], task'[u])
    <2>1. CASE u = t
      <3>1. pc'[t] = label /\ tid'[t] = k
        BY <1>a, <1>1
      <3>2. store' = store /\ task'[t] = store[k]
        BY <1>a, <1>l, <1>1, <1>10, <2>1, <3>1
      <3> QED BY <2>1, <3>1, <3>2 DEF Agree
    <2>2. CASE u # t
      <3>1. pc[u] \in LoadedLabels /\ tid'[u] = tid[u] /\ task'[u] = task[u]
        BY <1>5, <1>10, <2>2
      <3>2. tid[u] \in Tasks /\ Agree(store[tid[u]], task[u])
        BY <3>1, OwnCopy
      <3> QED BY <1>3, <1>6, <3>1, <3>2
    <2> QED BY <2>1, <2>2
  <1>11. \A u \in Threads : pc'[u] \in RunningLabels => Failed(task'[u]) = failures'[u]
    <2>1. pc'[t] \notin RunningLabels
      BY <1>a, <1>l, <1>1
    <2> QED BY <1>2, <1>5, <2>1 DEF ExclusiveInv, FailuresCounted
  <1> QED BY <1>4, <1>8, <1>9, <1>10, <1>11, ExclusiveInvPrimed

(* With one caller per task, copies agree with the store in every reachable *)
(* state, whichever collaborator fails.                                     *)
LEMMA ExclusiveInvariant ==
    ASSUME ExclusiveCallers
    PROVE  Spec => []ExclusiveInv
  <1>l. "idle" \notin LoadedLabels /\ "idle" \notin RunningLabels
    BY DEF LoadedLabels, RunningLabels, OwingLabels
  <1>1. Init => ExclusiveInv
    BY <1>l DEF Init, ExclusiveInv, OneCallerPerTask, ExecutionsCounted, CopiesAgree, FailuresCounted
  <1>2. SupervisorInv /\ ExclusiveInv /\ [Next]_vars => ExclusiveInv'
    <2> SUFFICES ASSUME SupervisorInv, ExclusiveInv, [Next]_vars PROVE ExclusiveInv'
      OBVIOUS
    <2>1. CASE UNCHANGED vars
      <3>1. UNCHANGED <<store, tid, task, pc, failures, executions>>
        BY <2>1 DEF vars
      <3> QED BY <3>1, ExclusiveInvPrimed
              DEF ExclusiveInv, OneCallerPerTask, ExecutionsCounted, CopiesAgree, FailuresCounted
    <2>2. CASE Crash
      <3>1. /\ store' = store /\ executions' = executions
            /\ \A u \in Threads : pc'[u] = "idle" /\ tid'[u] = NoTask
        BY <2>2 DEF Crash
      <3> QED BY <1>l, <3>1, ExclusiveInvPrimed DEF ExclusiveInv, ExecutionsCounted
    <2> QED BY <2>1, <2>2, StepKeepsExclusive, EnterKeepsExclusive DEF Next
  <1> QED BY <1>1, <1>2, SupervisorInvariant, PTL DEF Spec

(* Failure context is durable before it is acted on, whichever collaborator *)
(* fails: the stored trail holds every failure the caller decides on.       *)
THEOREM DurableFailures ==
    ASSUME ExclusiveCallers
    PROVE  Spec => []FailuresAreDurable
  <1>1. SupervisorInv /\ ExclusiveInv => FailuresAreDurable
    <2> SUFFICES ASSUME SupervisorInv, ExclusiveInv, NEW t \in Threads,
                        pc[t] \in {"execute", "decide", "publish_failed", "fail"}
                 PROVE  CountEntries(store[tid[t]], "failure_recorded") = failures[t]
      BY DEF FailuresAreDurable
    <2>1. pc[t] \in LoadedLabels /\ pc[t] \in RunningLabels
      BY DEF LoadedLabels, RunningLabels, OwingLabels
    <2> QED BY <2>1 DEF ExclusiveInv, CopiesAgree, FailuresCounted, Agree, Failed
  <1> QED BY <1>1, SupervisorInvariant, ExclusiveInvariant, PTL

(* Over the whole life of a task, with crashes, restarts and failing        *)
(* collaborators, its capability is executed at most max_retries times more *)
(* than once.                                                               *)
THEOREM ExecutionBudget ==
    ASSUME ExclusiveCallers
    PROVE  Spec => []ExecutionsWithinBudget
  <1>1. SupervisorInv /\ ExclusiveInv => ExecutionsWithinBudget
    <2> SUFFICES ASSUME SupervisorInv, ExclusiveInv, NEW k \in Tasks, store[k] # NoTask
                 PROVE  executions[k] <= AttemptLimit(store[k].max_retries)
      BY DEF ExecutionsWithinBudget
    <2>1. store[k] \in TaskRecord /\ executions[k] \in Nat
      BY DEF SupervisorInv, TypeOK
    <2>2. executions[k] <= store[k].attempt /\ store[k].attempt \in Nat /\ store[k].max_retries \in Int
      BY <2>1, ConstantTypes DEF ExclusiveInv, ExecutionsCounted, TaskRecord
    <2>3. store[k].attempt <= AttemptLimit(store[k].max_retries)
      BY DEF SupervisorInv, RecordOK, WithinBudget
    <2> QED BY <2>1, <2>2, <2>3 DEF AttemptLimit
  <1> QED BY <1>1, SupervisorInvariant, ExclusiveInvariant, PTL

-----------------------------------------------------------------------------
(* The store implements TaskLifecycle *)

(* While no save fails, a caller's copy is the stored record. *)
SameCopies ==
    \A t \in Threads : pc[t] \in LoadedLabels \/ emitting[t] => store[tid[t]] = task[t]

(* Without failing saves the caller's copy is the stored record. *)
LEMMA SameCopiesInvariant ==
    ASSUME ExclusiveCallers, "save" \notin Faults
    PROVE  Spec => []SameCopies
  <1>l. /\ LoadedLabels = {"execute", "record_failure", "decide", "publish_failed", "fail",
               "publish_success", "gate", "peer", "start", "approve_run", "approve_queue",
               "cancel", "publish_escalated", "return"}
    BY DEF LoadedLabels, RunningLabels, OwingLabels
  <1>1. Init => SameCopies
    BY <1>l DEF Init, SameCopies
  <1>2. SupervisorInv /\ ExclusiveInv /\ SameCopies /\ [Next]_vars => SameCopies'
    <2> SUFFICES ASSUME SupervisorInv, ExclusiveInv, SameCopies, [Next]_vars,
                        NEW u \in Threads, pc'[u] \in LoadedLabels \/ emitting'[u]
                 PROVE  store'[tid'[u]] = task'[u]
      BY DEF SameCopies
    <2>a. /\ tid \in [Threads -> Tasks \cup {NoTask}] /\ pc \in [Threads -> Labels]
          /\ store \in [Tasks -> TaskRecord \cup {NoTask}]
          /\ task \in [Threads -> TaskRecord \cup {NoTask}]
          /\ emitting \in [Threads -> BOOLEAN]
          /\ \A v \in Threads : /\ pc[v] # "idle" => tid[v] \in Tasks /\ store[tid[v]] # NoTask
                                /\ pc[v] = "idle" => ~emitting[v]
      BY NoTaskIsNone DEF SupervisorInv, TypeOK
    <2>b. pc[u] \in LoadedLabels \/ emitting[u] => store[tid[u]] = task[u]
      BY DEF SameCopies
    <2>c. \A t, v \in Threads : tid[t] = tid[v] /\ pc[t] # "idle" => t = v
      BY <2>a, NoTaskIsNone DEF ExclusiveInv, OneCallerPerTask
    <2>1. CASE UNCHANGED vars
      BY <2>1, <2>b DEF vars
    <2>2. CASE Crash
      BY <2>2, <1>l DEF Crash
    <2>3. ASSUME NEW t \in Threads, Step(t) PROVE store'[tid'[u]] = task'[u]
      <3>1. CASE SaveStep(t)
        <4>1. PICK row \in Saves, new \in TaskRecord :
             /\ pc[t] = row.at /\ Save(t, new, row.label)
             /\ emitting' = emitting \/ emitting' = [emitting EXCEPT ![t] = TRUE]
          BY <3>1 DEF SaveStep
        <4>2. /\ store' = [store EXCEPT ![tid[t]] = new] /\ task' = [task EXCEPT ![t] = new]
              /\ pc' = [pc EXCEPT ![t] = row.label] /\ tid' = tid
          BY <4>1 DEF Save, Goto
        <4>3. pc[t] # "idle"
          BY <4>1 DEF Saves
        <4>4. CASE u = t
          BY <2>a, <4>2, <4>3, <4>4
        <4>5. CASE u # t
          <5>1. /\ pc'[u] = pc[u] /\ emitting'[u] = emitting[u] /\ tid'[u] = tid[u]
                /\ task'[u] = task[u]
            BY <2>a, <4>1, <4>2, <4>5
          <5>2. tid[u] # tid[t]
            BY <2>c, <4>3, <4>5
          <5>3. tid[u] \in Tasks /\ store[tid[u]] = task[u]
            BY <2>a, <2>b, <5>1, <1>l
          <5> QED BY <2>a, <4>2, <5>1, <5>2, <5>3
        <4> QED BY <4>4, <4>5
      <3>2. CASE MoveStep(t)
        <4>1. PICK m \in Moves : pc[t] = m[1] /\ pc' = [pc EXCEPT ![t] = m[2]]
          BY <3>2 DEF MoveStep
        <4>2. m[1] \in LoadedLabels
          BY <1>l DEF Moves
        <4>3. pc[u] \in LoadedLabels \/ emitting[u]
          BY <2>a, <3>2, <4>1, <4>2 DEF MoveStep
        <4> QED BY <2>b, <3>2, <4>3 DEF MoveStep
      <3>3. CASE LoadStep(t)
        BY <2>a, <2>b, <3>3 DEF LoadStep
      <3>4. CASE ReturnStep(t)
        <4>1. /\ pc' = [pc EXCEPT ![t] = "idle"] /\ tid' = [tid EXCEPT ![t] = NoTask]
              /\ task' = [task EXCEPT ![t] = NoTask] /\ store' = store
          BY <3>4 DEF ReturnStep, Return, Goto
        <4>2. ~emitting'[t] /\ \A v \in Threads \ {t} : emitting'[v] = emitting[v]
          BY <2>a, <3>4 DEF ReturnStep, EmitEvent
        <4> QED BY <2>a, <2>b, <4>1, <4>2, <1>l
      <3>5. CASE QuietStep(t)
        <4>1. /\ UNCHANGED <<store, pc, tid, task>>
              /\ \A v \in Threads \ {t} : emitting'[v] = emitting[v]
              /\ emitting[t]
          BY <2>a, <3>5 DEF QuietStep, EmitEvent
        <4> QED BY <2>b, <4>1
      <3>6. CASE LateFailureStep(t)
        <4>1. /\ UNCHANGED <<store, tid, task, emitting>> /\ pc[t] \in LoadedLabels
              /\ pc' = [pc EXCEPT ![t] = "record_failure"]
          BY <3>6, <1>l DEF LateFailureStep
        <4>2. pc[u] \in LoadedLabels \/ emitting[u]
          BY <2>a, <4>1
        <4> QED BY <2>b, <4>1, <4>2
      <3> QED BY <2>3, <3>1, <3>2, <3>3, <3>4, <3>5, <3>6, StepKinds
    <2>4. ASSUME NEW t \in Threads, Enter(t) PROVE store'[tid'[u]] = task'[u]
      <3>1. PICK k \in Tasks, label \in {"enqueue", "run_task", "approve_run", "approve_queue", "cancel"} :
                 /\ tid' = [tid EXCEPT ![t] = k]
                 /\ pc' = [pc EXCEPT ![t] = label]
                 /\ \/ /\ store[k] = NoTask
                       /\ \E c \in Capabilities, m \in RetryBudgets :
                             store' = [store EXCEPT ![k] = CreateTaskRecord(c, m)]
                       /\ label \in {"enqueue", "run_task"}
                       /\ UNCHANGED task
                    \/ /\ label = "run_task"
                       /\ UNCHANGED <<store, task>>
                    \/ /\ label \in {"approve_run", "approve_queue", "cancel"}
                       /\ task' = [task EXCEPT ![t] = store[k]]
                       /\ UNCHANGED store
        BY <2>4, EnterKinds
      <3>e. pc[t] = "idle" /\ emitting' = emitting
        BY <2>4, EnterKinds
      <3>2. CASE u = t
        <4>1. label \in LoadedLabels
          BY <2>a, <3>e, <3>1, <3>2
        <4> QED BY <2>a, <1>l, <3>1, <3>2, <4>1
      <3>3. CASE u # t
        <4>1. /\ pc[u] \in LoadedLabels \/ emitting[u]
              /\ tid'[u] = tid[u] /\ task'[u] = task[u]
          BY <2>a, <3>e, <3>1, <3>3
        <4>2. store'[tid[u]] = store[tid[u]]
          BY <2>a, <3>1, <4>1, <1>l
        <4> QED BY <2>b, <4>1, <4>2
      <3> QED BY <3>2, <3>3
    <2> QED BY <2>1, <2>2, <2>3, <2>4 DEF Next
  <1> QED BY <1>1, <1>2, SupervisorInvariant, ExclusiveInvariant, PTL DEF Spec

(* What TaskLifecycle sees of the store. *)
SeenStatus == [k \in Tasks |-> StatusOf(k)]
SeenAttempt == [k \in Tasks |-> IF store[k] = NoTask THEN 0 ELSE store[k].attempt]
SeenBudget == [k \in Tasks |-> IF store[k] = NoTask THEN 0 ELSE store[k].max_retries]

(* A write of one record changes what is seen of one task. *)
LEMMA SeenWrite ==
    ASSUME NEW k \in Tasks, NEW new, new # NoTask, store' = [store EXCEPT ![k] = new],
           DOMAIN store = Tasks
    PROVE  /\ SeenStatus' = [SeenStatus EXCEPT ![k] = new.status]
           /\ SeenAttempt' = [SeenAttempt EXCEPT ![k] = new.attempt]
           /\ SeenBudget' = [SeenBudget EXCEPT ![k] = new.max_retries]
  <1>1. \A j \in Tasks : store'[j] = IF j = k THEN new ELSE store[j]
    OBVIOUS
  <1>2. SeenStatus' = [SeenStatus EXCEPT ![k] = new.status]
    BY <1>1 DEF SeenStatus, StatusOf
  <1>3. SeenAttempt' = [SeenAttempt EXCEPT ![k] = new.attempt]
    BY <1>1 DEF SeenAttempt
  <1>4. SeenBudget' = [SeenBudget EXCEPT ![k] = new.max_retries]
    BY <1>1 DEF SeenBudget
  <1> QED BY <1>2, <1>3, <1>4

(* The moves of TaskLifecycle, in terms of what is seen. *)
SeenMove(k, from, to) ==
    /\ SeenStatus[k] = from
    /\ SeenStatus' = [SeenStatus EXCEPT ![k] = to]
    /\ UNCHANGED <<SeenAttempt, SeenBudget>>

(* Moves without a counter are moves of TaskLifecycle. *)
LEMMA SeenMoveIsMove ==
    ASSUME NEW k \in Tasks, NEW from, NEW to, SeenMove(k, from, to),
           <<from, to>> \in {<<"pending", "awaiting_approval">>, <<"pending", "policy_denied">>,
                             <<"awaiting_approval", "approved">>, <<"awaiting_approval", "cancelled">>,
                             <<"running", "completed">>, <<"running", "failed">>,
                             <<"running", "escalated">>}
    PROVE  Lifecycle!Next
  <1>1. Lifecycle!Move(k, from, to)
    BY DEF SeenMove, SeenStatus, SeenAttempt, SeenBudget, Lifecycle!Move
  <1> QED BY <1>1 DEF Lifecycle!Next

(* A save is one move of TaskLifecycle, or none. *)
LEMMA SaveIsLifecycleStep ==
    ASSUME SupervisorInv, ExclusiveInv, SameCopies, WalkInv, NEW t \in Threads, SaveStep(t)
    PROVE  Lifecycle!Next \/ UNCHANGED Lifecycle!lifecycleVars
  <1> DEFINE rec == task[t]
  <1>0. PICK k \in Tasks \cup {NoTask} : k = tid[t]
    BY DEF SupervisorInv, TypeOK
  <1>1. PICK row \in Saves, new \in TaskRecord :
           /\ pc[t] = row.at /\ Save(t, new, row.label) /\ Recorded(rec, new, row)
           /\ row.more = 1 /\ row.at = "decide" => ShouldRetry(rec)
    BY DEF SaveStep
  <1>2. store' = [store EXCEPT ![k] = new]
    BY <1>0, <1>1 DEF Save
  <1>o. OwingLabels = {"execute", "record_failure", "decide", "publish_failed", "fail"}
    BY DEF OwingLabels
  <1>3. pc[t] \in LoadedLabels
    BY <1>1 DEF Saves, LoadedLabels, RunningLabels, OwingLabels
  <1>4. /\ k \in Tasks /\ store[k] # NoTask /\ rec \in TaskRecord /\ store[k] = rec
        /\ rec.attempt \in Nat /\ RecordOK(rec) /\ new # NoTask
        /\ DOMAIN store = Tasks
    BY <1>0, <1>3, OwnCopy, NoTaskIsNone DEF SameCopies, SupervisorInv, TypeOK
  <1>5. rec.max_retries \in Int
    BY <1>4, ConstantTypes DEF TaskRecord
  <1>6. /\ row.at = "gate" => rec.status = "pending"
        /\ row.at \in {"approve_run", "approve_queue", "cancel"} => rec.status = "awaiting_approval"
        /\ row.at \in {"peer", "start"} => rec.status \in {"pending", "approved"}
        /\ row.at \in OwingLabels => rec.status = "running"
    BY <1>1 DEF SupervisorInv, LabelOK, WalkInv, ExecutableStatuses
  <1>7. /\ new.attempt = rec.attempt + row.more /\ new.max_retries = rec.max_retries
        /\ new.status = IF row.action \in {"retry", "peer_suggestion_applied", "failure_recorded"}
                        THEN rec.status ELSE row.to
    BY <1>1 DEF Recorded
  <1>8. /\ SeenStatus' = [SeenStatus EXCEPT ![k] = new.status]
        /\ SeenAttempt' = [SeenAttempt EXCEPT ![k] = new.attempt]
        /\ SeenBudget' = [SeenBudget EXCEPT ![k] = new.max_retries]
    BY <1>2, <1>4, SeenWrite
  <1>9. /\ SeenStatus[k] = rec.status /\ SeenAttempt[k] = rec.attempt /\ SeenBudget[k] = rec.max_retries
        /\ DOMAIN SeenStatus = Tasks /\ DOMAIN SeenAttempt = Tasks /\ DOMAIN SeenBudget = Tasks
        /\ SeenStatus = [j \in Tasks |-> SeenStatus[j]]
        /\ SeenAttempt = [j \in Tasks |-> SeenAttempt[j]]
        /\ SeenBudget = [j \in Tasks |-> SeenBudget[j]]
    BY <1>4 DEF SeenStatus, SeenAttempt, SeenBudget, StatusOf
  <1> HIDE DEF rec
  <1>b. SeenBudget' = SeenBudget
    BY <1>7, <1>8, <1>9
  <1>s. row.more = 0 => SeenAttempt' = SeenAttempt
    <2>1. row.more = 0 => new.attempt = SeenAttempt[k]
      BY <1>4, <1>7, <1>9
    <2> QED BY <1>8, <1>9, <2>1
  <1>10. CASE row.action \in {"allowed", "peer_suggestion_applied", "failure_recorded"}
    <2>1. row.more = 0 /\ new.status = rec.status
      BY <1>6, <1>7, <1>10 DEF Saves
    <2>2. SeenStatus' = SeenStatus
      BY <1>8, <1>9, <2>1
    <2> QED BY <1>b, <1>s, <2>1, <2>2 DEF SeenStatus, SeenAttempt, SeenBudget, Lifecycle!lifecycleVars
  <1>11. CASE row.action = "started"
    <2>1. /\ row.more = 1 /\ new.status = "running" /\ rec.status \in {"pending", "approved"}
      BY <1>6, <1>7, <1>11 DEF Saves
    <2>2. rec.attempt = 0
      BY <1>4, <2>1 DEF RecordOK, WithinBudget
    <2>3. new.attempt = 1
      BY <1>7, <2>1, <2>2
    <2>4. Lifecycle!Start(k)
      BY <1>b, <1>8, <1>9, <2>1, <2>2, <2>3 DEF SeenStatus, SeenAttempt, SeenBudget, Lifecycle!Start
    <2> QED BY <1>4, <2>4 DEF Lifecycle!Next
  <1>12. row.at = "decide" /\ row.more = 1 => rec.attempt < Lifecycle!AttemptLimit(rec.max_retries)
    <2> SUFFICES ASSUME row.at = "decide", row.more = 1
                 PROVE  rec.attempt < Lifecycle!AttemptLimit(rec.max_retries)
      OBVIOUS
    <2>1. rec.attempt <= rec.max_retries
      BY <1>1 DEF ShouldRetry
    <2> QED BY <1>4, <1>5, <2>1 DEF Lifecycle!AttemptLimit
  <1>13. CASE row.action = "retry"
    <2>1. row.at = "decide" /\ row.more = 1 /\ rec.status = "running" /\ new.status = "running"
      BY <1>6, <1>7, <1>13, <1>o DEF Saves
    <2>2. SeenStatus' = SeenStatus
      BY <1>8, <1>9, <2>1
    <2>3. SeenAttempt' = [SeenAttempt EXCEPT ![k] = SeenAttempt[k] + 1]
      BY <1>7, <1>8, <1>9, <2>1
    <2>4. Lifecycle!Retry(k)
      BY <1>b, <1>9, <1>12, <2>1, <2>2, <2>3 DEF SeenStatus, SeenAttempt, SeenBudget, Lifecycle!Retry
    <2> QED BY <1>4, <2>4 DEF Lifecycle!Next
  <1>14. CASE row.action = "escalated" /\ row.more = 1
    <2>1. row.at = "decide" /\ rec.status = "running" /\ new.status = "escalated"
      BY <1>6, <1>7, <1>14, <1>o DEF Saves
    <2>2. SeenAttempt' = [SeenAttempt EXCEPT ![k] = SeenAttempt[k] + 1]
      BY <1>7, <1>8, <1>9, <1>14
    <2>3. Lifecycle!EscalateInsteadOfRetry(k)
      BY <1>b, <1>8, <1>9, <1>12, <1>14, <2>1, <2>2
         DEF SeenStatus, SeenAttempt, SeenBudget, Lifecycle!EscalateInsteadOfRetry
    <2> QED BY <1>4, <2>3 DEF Lifecycle!Next
  <1>15. CASE /\ row.action \notin {"allowed", "peer_suggestion_applied", "failure_recorded", "started", "retry"}
              /\ ~(row.action = "escalated" /\ row.more = 1)
    <2>1. /\ row.more = 0 /\ new.status = row.to
          /\ <<rec.status, row.to>> \in
                {<<"pending", "awaiting_approval">>, <<"pending", "policy_denied">>,
                 <<"awaiting_approval", "approved">>, <<"awaiting_approval", "cancelled">>,
                 <<"running", "completed">>, <<"running", "failed">>, <<"running", "escalated">>}
      BY <1>6, <1>7, <1>15, <1>o DEF Saves
    <2>2. SeenMove(k, rec.status, row.to)
      BY <1>b, <1>s, <1>8, <1>9, <2>1 DEF SeenMove
    <2> QED BY <1>4, <2>1, <2>2, SeenMoveIsMove
  <1> QED BY <1>10, <1>11, <1>13, <1>14, <1>15

(* So is every step of the supervisor. *)
LEMMA NextIsLifecycleStep ==
    ASSUME ExclusiveCallers, Faults \cap {"guild", "save"} = {},
           SupervisorInv, ExclusiveInv, SameCopies, WalkInv, [Next]_vars
    PROVE  Lifecycle!Next \/ UNCHANGED Lifecycle!lifecycleVars
  <1>s. ASSUME store' = store PROVE UNCHANGED Lifecycle!lifecycleVars
    BY <1>s DEF Lifecycle!lifecycleVars, StatusOf
  <1>1. CASE UNCHANGED vars
    BY <1>1, <1>s DEF vars
  <1>2. CASE Crash
    BY <1>2, <1>s DEF Crash
  <1>3. ASSUME NEW t \in Threads, Step(t)
        PROVE  Lifecycle!Next \/ UNCHANGED Lifecycle!lifecycleVars
    <2>1. SaveStep(t) \/ store' = store
      BY <1>3, StepKinds DEF MoveStep, LoadStep, ReturnStep, QuietStep, LateFailureStep
    <2> QED BY <1>s, <2>1, SaveIsLifecycleStep
  <1>4. ASSUME NEW t \in Threads, Enter(t)
        PROVE  Lifecycle!Next \/ UNCHANGED Lifecycle!lifecycleVars
    <2>1. store' = store \/ \E k \in Tasks, c \in Capabilities, m \in RetryBudgets :
             store[k] = NoTask /\ store' = [store EXCEPT ![k] = CreateTaskRecord(c, m)]
      BY <1>4, EnterKinds
    <2>2. ASSUME NEW k \in Tasks, NEW c \in Capabilities, NEW m \in RetryBudgets,
                 store[k] = NoTask, store' = [store EXCEPT ![k] = CreateTaskRecord(c, m)]
          PROVE  Lifecycle!Next
      <3> DEFINE new == CreateTaskRecord(c, m)
      <3>1. new.status = "pending" /\ new.attempt = 0 /\ new.max_retries = m /\ new \in TaskRecord
        BY CreatedRecordOK DEF CreateTaskRecord, RecordOK
      <3>2. DOMAIN store = Tasks /\ new # NoTask
        BY <3>1, NoTaskIsNone DEF SupervisorInv, TypeOK
      <3> HIDE DEF new
      <3>3. /\ SeenStatus' = [SeenStatus EXCEPT ![k] = "pending"]
            /\ SeenAttempt' = [SeenAttempt EXCEPT ![k] = 0]
            /\ SeenBudget' = [SeenBudget EXCEPT ![k] = m]
        <4>1. store' = [store EXCEPT ![k] = new]
          BY <2>2 DEF new
        <4>2. /\ SeenStatus' = [SeenStatus EXCEPT ![k] = new.status]
              /\ SeenAttempt' = [SeenAttempt EXCEPT ![k] = new.attempt]
              /\ SeenBudget' = [SeenBudget EXCEPT ![k] = new.max_retries]
          BY <3>2, <4>1, SeenWrite
        <4> QED BY <3>1, <4>2
      <3>4. SeenStatus[k] = "absent" /\ SeenAttempt[k] = 0 /\ SeenAttempt = [j \in Tasks |-> SeenAttempt[j]]
        BY <2>2 DEF SeenStatus, SeenAttempt, StatusOf
      <3>5. SeenAttempt' = SeenAttempt
        BY <3>3, <3>4
      <3>6. Lifecycle!Submit(k, m)
        BY <3>3, <3>4, <3>5 DEF SeenStatus, SeenAttempt, SeenBudget, Lifecycle!Submit
      <3> QED BY <3>6 DEF Lifecycle!Next
    <2> QED BY <1>s, <2>1, <2>2
  <1> QED BY <1>1, <1>2, <1>3, <1>4 DEF Next

(* When calls on one task do not overlap and no save and no guild call      *)
(* fails, the task store implements TaskLifecycle, across crashes and       *)
(* restarts: a terminal status is never left, a task starts once, and every *)
(* write is one legal move.                                                 *)
THEOREM LifecycleRefinement ==
    ASSUME ExclusiveCallers, Faults \cap {"guild", "save"} = {}
    PROVE  Spec => RefinesLifecycle
  <1>1. Init => Lifecycle!Init
    BY DEF Init, Lifecycle!Init, StatusOf
  <1>2. SupervisorInv /\ ExclusiveInv /\ SameCopies /\ WalkInv /\ [Next]_vars =>
           [Lifecycle!Next]_Lifecycle!lifecycleVars
    BY NextIsLifecycleStep
  <1>3. "save" \notin Faults
    OBVIOUS
  <1> QED BY <1>1, <1>2, <1>3, SupervisorInvariant, ExclusiveInvariant, SameCopiesInvariant,
             WalkInvariant, PTL DEF Spec, RefinesLifecycle, Lifecycle!Spec

-----------------------------------------------------------------------------
(* The event bus tells the story of the audit trail *)

(* A silent entry leaves the events in step, another needs its event. *)
LEMMA MirrorsGrow ==
    ASSUME NEW s \in Seq(AuditEntry), NEW e \in AuditEntry,
           NEW events \in Seq(AuditActions), Mirrors(events, s)
    PROVE  /\ e.action \in SilentActions => Mirrors(events, Append(s, e))
           /\ e.action \notin SilentActions => Mirrors(Append(events, e.action), Append(s, e))
           /\ Append(s, e)[Len(Append(s, e))] = e
  <1> DEFINE z == Append(s, e)
             n == Len(s)
             a == e.action
  <1>3. /\ n \in Nat /\ Len(z) = n + 1 /\ z[n + 1] = e /\ \A i \in 1..n : z[i] = s[i]
    OBVIOUS
  <1>2. e.action = a /\ a \in AuditActions
    BY DEF AuditEntry
  <1>m. /\ Len(events) = Cardinality(Announced(s, n))
        /\ \A i \in Announced(s, n) : events[Cardinality(Announced(s, i))] = s[i].action
    BY DEF Mirrors
  <1> HIDE DEF z, n, a
  <1>4. \A i \in 1..n : Announced(z, i) = Announced(s, i)
    BY <1>3 DEF Announced
  <1>5. Announced(z, n + 1) = IF a \in SilentActions THEN Announced(s, n)
                              ELSE Announced(s, n) \cup {n + 1}
    <2>1. \A i \in 1..(n + 1) : i \in 1..n \/ i = n + 1
      BY <1>3
    <2> QED BY <1>2, <1>3, <2>1 DEF Announced
  <1>6. n + 1 \notin Announced(s, n)
    BY <1>3 DEF Announced
  <1>7. IsFiniteSet(Announced(s, n))
    <2>1. IsFiniteSet(1..n) /\ Announced(s, n) \subseteq 1..n
      BY <1>3, FS_Interval DEF Announced
    <2> QED BY <2>1, FS_Subset
  <1>8. ASSUME NEW i \in Announced(s, n)
        PROVE  /\ i \in 1..n /\ i \in Announced(s, i)
               /\ Cardinality(Announced(s, i)) \in 1..Len(events)
    <2>1. i \in 1..n /\ i \in Announced(s, i) /\ Announced(s, i) \subseteq Announced(s, n)
      BY <1>3 DEF Announced
    <2>2. /\ IsFiniteSet(Announced(s, i))
          /\ Cardinality(Announced(s, i)) <= Cardinality(Announced(s, n))
      BY <1>7, <2>1, FS_Subset
    <2>3. Cardinality(Announced(s, i)) \in Nat /\ Cardinality(Announced(s, i)) # 0
      BY <2>1, <2>2, FS_CardinalityType, FS_EmptySet
    <2> QED BY <1>m, <2>1, <2>2, <2>3
  <1>9. CASE a \in SilentActions
    <2>1. Len(events) = Cardinality(Announced(z, n + 1))
      BY <1>5, <1>9, <1>m
    <2>2. ASSUME NEW i \in Announced(z, n + 1)
          PROVE  events[Cardinality(Announced(z, i))] = z[i].action
      <3>1. i \in Announced(s, n)
        BY <1>5, <1>9
      <3>2. i \in 1..n
        BY <1>8, <3>1
      <3> QED BY <1>3, <1>4, <1>m, <3>1, <3>2
    <2>3. Mirrors(events, z)
      BY <1>3, <2>1, <2>2 DEF Mirrors
    <2> QED BY <1>2, <1>3, <1>9, <2>3 DEF z, a
  <1>10. CASE a \notin SilentActions
    <2> DEFINE ev == Append(events, a)
    <2>1. /\ Len(ev) = Len(events) + 1 /\ ev[Len(events) + 1] = a /\ Len(events) \in Nat
          /\ \A c \in 1..Len(events) : ev[c] = events[c]
      OBVIOUS
    <2> HIDE DEF ev
    <2>2. Cardinality(Announced(z, n + 1)) = Cardinality(Announced(s, n)) + 1
      BY <1>5, <1>6, <1>7, <1>10, FS_AddElement
    <2>3. Len(ev) = Cardinality(Announced(z, n + 1))
      BY <1>m, <2>1, <2>2
    <2>4. ASSUME NEW i \in Announced(z, n + 1)
          PROVE  ev[Cardinality(Announced(z, i))] = z[i].action
      <3>1. CASE i \in Announced(s, n)
        <4>1. i \in 1..n /\ Cardinality(Announced(s, i)) \in 1..Len(events)
          BY <1>8, <3>1
        <4>2. Announced(z, i) = Announced(s, i) /\ z[i] = s[i]
          BY <1>3, <1>4, <4>1
        <4> QED BY <1>m, <2>1, <3>1, <4>1, <4>2
      <3>2. CASE i = n + 1
        <4>1. Cardinality(Announced(z, i)) = Len(events) + 1
          BY <1>m, <2>2, <3>2
        <4> QED BY <1>2, <1>3, <2>1, <3>2, <4>1
      <3> QED BY <1>5, <1>10, <3>1, <3>2
    <2>5. Mirrors(ev, z)
      BY <1>3, <2>3, <2>4 DEF Mirrors
    <2> QED BY <1>2, <1>3, <1>10, <2>5 DEF z, ev, a
  <1> QED BY <1>9, <1>10

(* A new record has no event yet. *)
LEMMA CreatedMirrored ==
    ASSUME NEW c \in Capabilities, NEW m \in RetryBudgets
    PROVE  Mirrors(<< >>, CreateTaskRecord(c, m).audit_trail)
  <1> DEFINE s == << Entry("submitted", "none", "pending") >>
  <1>1. CreateTaskRecord(c, m).audit_trail = s
    BY DEF CreateTaskRecord
  <1>2. Len(s) = 1 /\ s[1].action = "submitted"
    BY DEF Entry
  <1> HIDE DEF s
  <1>3. Announced(s, Len(s)) = {}
    BY <1>2 DEF Announced, SilentActions
  <1>4. Cardinality(Announced(s, Len(s))) = 0 /\ Len(<< >>) = 0
    BY <1>3, FS_EmptySet
  <1> QED BY <1>1, <1>3, <1>4 DEF Mirrors

LastAction(rec) == rec.audit_trail[Len(rec.audit_trail)].action

(* Events and trails of a task agree, up to the one event that its caller   *)
(* is about to emit.                                                        *)
MirrorInv ==
    /\ \A k \in Tasks : store[k] = NoTask => emitted[k] = << >>
    /\ \A k \in Tasks :
          store[k] # NoTask /\ (\A t \in Threads : tid[t] = k => ~emitting[t]) =>
             Mirrors(emitted[k], store[k].audit_trail)
    /\ \A t \in Threads : emitting[t] =>
          Mirrors(Append(emitted[tid[t]], LastAction(store[tid[t]])), store[tid[t]].audit_trail)

(* The parts of MirrorInv, after a step. *)
LEMMA MirrorInvPrimed ==
    ASSUME \A k \in Tasks : store'[k] = NoTask => emitted'[k] = << >>,
           \A k \in Tasks :
              store'[k] # NoTask /\ (\A t \in Threads : tid'[t] = k => ~emitting'[t]) =>
                 Mirrors(emitted'[k], store'[k].audit_trail),
           \A t \in Threads : emitting'[t] =>
              Mirrors(Append(emitted'[tid'[t]], LastAction(store'[tid'[t]])), store'[tid'[t]].audit_trail)
    PROVE  MirrorInv'
  BY DEF MirrorInv, Mirrors, Announced, LastAction

(* Every step of a call keeps events and trail in step. *)
LEMMA StepKeepsMirrors ==
    ASSUME SupervisorInv, ExclusiveInv, SameCopies, MirrorInv, NEW t \in Threads, Step(t)
    PROVE  MirrorInv'
  <1>a. /\ tid \in [Threads -> Tasks \cup {NoTask}] /\ pc \in [Threads -> Labels]
        /\ store \in [Tasks -> TaskRecord \cup {NoTask}]
        /\ task \in [Threads -> TaskRecord \cup {NoTask}]
        /\ emitting \in [Threads -> BOOLEAN] /\ emitted \in [Tasks -> Seq(AuditActions)]
        /\ \A u \in Threads : /\ pc[u] # "idle" => tid[u] \in Tasks /\ store[tid[u]] # NoTask
                              /\ emitting[u] => pc[u] # "idle"
    BY NoTaskIsNone DEF SupervisorInv, TypeOK
  <1>b. \A u, v \in Threads : tid[u] = tid[v] /\ tid[u] \in Tasks => u = v
    BY NoTaskIsNone DEF ExclusiveInv, OneCallerPerTask
  <1>i. /\ \A j \in Tasks : store[j] = NoTask => emitted[j] = << >>
        /\ \A j \in Tasks :
              store[j] # NoTask /\ (\A u \in Threads : tid[u] = j => ~emitting[u]) =>
                 Mirrors(emitted[j], store[j].audit_trail)
        /\ \A u \in Threads : emitting[u] =>
              Mirrors(Append(emitted[tid[u]], LastAction(store[tid[u]])), store[tid[u]].audit_trail)
    BY DEF MirrorInv
  <1>1. CASE SaveStep(t)
    <2>1. PICK row \in Saves, new \in TaskRecord :
             /\ pc[t] = row.at /\ Save(t, new, row.label) /\ Recorded(task[t], new, row)
             /\ ~emitting[t] /\ emitted' = emitted
             /\ emitting' = IF row.action \in SilentActions THEN emitting
                            ELSE [emitting EXCEPT ![t] = TRUE]
      BY <1>1 DEF SaveStep
    <2>2. store' = [store EXCEPT ![tid[t]] = new] /\ tid' = tid
      BY <2>1 DEF Save
    <2>3. pc[t] \in LoadedLabels
      BY <2>1 DEF Saves, LoadedLabels, RunningLabels, OwingLabels
    <2>4. PICK k \in Tasks : k = tid[t]
      BY <2>3, OwnCopy
    <2>5. /\ store[k] # NoTask /\ store[k] = task[t] /\ store[k] \in TaskRecord
          /\ \A u \in Threads \ {t} : tid[u] # k
      BY <2>3, <2>4, OwnCopy DEF SameCopies
    <2>6. Mirrors(emitted[k], store[k].audit_trail)
      BY <1>i, <2>1, <2>5
    <2>7. PICK from \in AuditStatus : new.audit_trail = Append(store[k].audit_trail, Entry(row.action, from, row.to))
      BY <2>1, <2>5 DEF Recorded
    <2>8. row.action \in AuditActions /\ emitted[k] \in Seq(AuditActions)
      BY <1>a DEF Saves, AuditActions
    <2>9. /\ row.action \in SilentActions => Mirrors(emitted[k], new.audit_trail)
          /\ row.action \notin SilentActions => Mirrors(Append(emitted[k], LastAction(new)), new.audit_trail)
      <3> DEFINE e == Entry(row.action, from, row.to)
                 s == store[k].audit_trail
                 events == emitted[k]
      <3>1. e.action = row.action /\ e \in AuditEntry
        BY <2>8 DEF Entry, AuditEntry, Saves, AuditStatus, TaskStatus
      <3>2. s \in Seq(AuditEntry) /\ events \in Seq(AuditActions)
        BY <2>5, <2>8 DEF TaskRecord
      <3>3. Mirrors(events, s) /\ new.audit_trail = Append(s, e)
        BY <2>6, <2>7
      <3> HIDE DEF e, s, events
      <3>4. /\ e.action \in SilentActions => Mirrors(events, Append(s, e))
            /\ e.action \notin SilentActions => Mirrors(Append(events, e.action), Append(s, e))
            /\ Append(s, e)[Len(Append(s, e))] = e
        BY <3>1, <3>2, <3>3, MirrorsGrow
      <3>5. LastAction(new) = row.action
        BY <3>1, <3>3, <3>4 DEF LastAction
      <3> QED BY <3>1, <3>3, <3>4, <3>5 DEF events
    <2>10. store'[k] = new /\ new # NoTask /\ \A j \in Tasks \ {k} : store'[j] = store[j]
      BY <1>a, <2>2, <2>4, NoTaskIsNone
    <2>11. \A u \in Threads \ {t} : emitting'[u] = emitting[u] /\ tid'[u] = tid[u]
      BY <1>a, <2>1, <2>2
    <2>12. emitting'[t] <=> row.action \notin SilentActions
      BY <1>a, <2>1
    <2>13. \A j \in Tasks : store'[j] = NoTask => emitted'[j] = << >>
      BY <1>i, <2>1, <2>10
    <2>14. ASSUME NEW j \in Tasks, store'[j] # NoTask, \A u \in Threads : tid'[u] = j => ~emitting'[u]
           PROVE  Mirrors(emitted'[j], store'[j].audit_trail)
      <3>1. CASE j = k
        BY <2>1, <2>2, <2>4, <2>9, <2>10, <2>12, <2>14, <3>1
      <3>2. CASE j # k
        <4>1. \A u \in Threads : tid[u] = j => ~emitting[u]
          BY <2>4, <2>11, <2>14, <3>2
        <4> QED BY <1>i, <2>1, <2>10, <2>14, <3>2, <4>1
      <3> QED BY <3>1, <3>2
    <2>15. ASSUME NEW u \in Threads, emitting'[u]
           PROVE  Mirrors(Append(emitted'[tid'[u]], LastAction(store'[tid'[u]])), store'[tid'[u]].audit_trail)
      <3>1. CASE u = t
        BY <2>1, <2>2, <2>4, <2>9, <2>10, <2>12, <2>15, <3>1
      <3>2. CASE u # t
        <4>1. emitting[u] /\ tid'[u] = tid[u] /\ tid[u] \in Tasks \ {k}
          BY <1>a, <2>5, <2>11, <2>15, <3>2
        <4> QED BY <1>i, <2>1, <2>10, <4>1
      <3> QED BY <3>1, <3>2
    <2> QED BY <2>13, <2>14, <2>15, MirrorInvPrimed
  <1>2. CASE MoveStep(t) \/ LoadStep(t) \/ LateFailureStep(t)
    <2>1. UNCHANGED <<store, tid, emitting, emitted>>
      BY <1>2 DEF MoveStep, LoadStep, LateFailureStep
    <2> QED BY <1>i, <2>1, MirrorInvPrimed
  \* The emission of the last entry of the trail.
  <1>3. CASE EmitEvent(t)
    <2>1. /\ emitting[t] /\ emitting' = [emitting EXCEPT ![t] = FALSE]
          /\ emitted' = [emitted EXCEPT ![tid[t]] = Append(@, LastAction(task[t]))]
          /\ store' = store /\ (tid' = tid \/ tid' = [tid EXCEPT ![t] = NoTask])
      BY <1>3 DEF EmitEvent, Return, LastAction
    <2>2. PICK k \in Tasks : k = tid[t]
      BY <1>a, <2>1
    <2>3. store[k] # NoTask /\ store[k] = task[t]
      BY <1>a, <2>1, <2>2 DEF SameCopies
    <2>4. Mirrors(Append(emitted[k], LastAction(store[k])), store[k].audit_trail)
      BY <1>i, <2>1, <2>2
    <2>5. /\ emitted'[k] = Append(emitted[k], LastAction(store[k]))
          /\ \A j \in Tasks \ {k} : emitted'[j] = emitted[j]
      BY <1>a, <2>1, <2>2, <2>3
    <2>6. ~emitting'[t] /\ \A u \in Threads \ {t} : /\ emitting'[u] = emitting[u] /\ tid'[u] = tid[u]
                                                    /\ tid[u] # k
      BY <1>a, <1>b, <2>1, <2>2
    <2>7. \A j \in Tasks : store'[j] = NoTask => emitted'[j] = << >>
      BY <1>i, <2>1, <2>3, <2>5
    <2>8. ASSUME NEW j \in Tasks, store'[j] # NoTask, \A u \in Threads : tid'[u] = j => ~emitting'[u]
          PROVE  Mirrors(emitted'[j], store'[j].audit_trail)
      <3>1. CASE j = k
        BY <2>1, <2>4, <2>5, <3>1
      <3>2. CASE j # k
        <4>1. \A u \in Threads : tid[u] = j => ~emitting[u]
          BY <2>2, <2>6, <2>8, <3>2
        <4> QED BY <1>i, <2>1, <2>5, <2>8, <3>2, <4>1
      <3> QED BY <3>1, <3>2
    <2>9. ASSUME NEW u \in Threads, emitting'[u]
          PROVE  Mirrors(Append(emitted'[tid'[u]], LastAction(store'[tid'[u]])), store'[tid'[u]].audit_trail)
      <3>1. u # t /\ emitting[u] /\ tid'[u] = tid[u] /\ tid[u] \in Tasks \ {k}
        BY <1>a, <2>6, <2>9
      <3> QED BY <1>i, <2>1, <2>5, <3>1
    <2> QED BY <2>7, <2>8, <2>9, MirrorInvPrimed
  <1>4. CASE ReturnStep(t) /\ ~EmitEvent(t)
    <2>1. /\ ~emitting[t] /\ UNCHANGED <<emitting, emitted, store>>
          /\ tid' = [tid EXCEPT ![t] = NoTask]
      BY <1>4 DEF ReturnStep, Return
    <2>2. \A u \in Threads \ {t} : tid'[u] = tid[u]
      BY <1>a, <2>1
    <2>3. ASSUME NEW j \in Tasks, store'[j] # NoTask, \A u \in Threads : tid'[u] = j => ~emitting'[u]
          PROVE  Mirrors(emitted'[j], store'[j].audit_trail)
      <3>1. \A u \in Threads : tid[u] = j => ~emitting[u]
        BY <2>1, <2>2, <2>3
      <3> QED BY <1>i, <2>1, <2>3, <3>1
    <2>4. ASSUME NEW u \in Threads, emitting'[u]
          PROVE  Mirrors(Append(emitted'[tid'[u]], LastAction(store'[tid'[u]])), store'[tid'[u]].audit_trail)
      <3>1. u # t /\ emitting[u] /\ tid'[u] = tid[u]
        BY <2>1, <2>2, <2>4
      <3> QED BY <1>i, <2>1, <3>1
    <2>5. \A j \in Tasks : store'[j] = NoTask => emitted'[j] = << >>
      BY <1>i, <2>1
    <2> QED BY <2>3, <2>4, <2>5, MirrorInvPrimed
  <1> QED BY <1>1, <1>2, <1>3, <1>4, StepKinds DEF QuietStep

(* So does a call that begins. *)
LEMMA EnterKeepsMirrors ==
    ASSUME SupervisorInv, ExclusiveInv, MirrorInv, NEW t \in Threads, Enter(t)
    PROVE  MirrorInv'
  <1>a. /\ tid \in [Threads -> Tasks \cup {NoTask}]
        /\ store \in [Tasks -> TaskRecord \cup {NoTask}]
        /\ \A u \in Threads : /\ pc[u] # "idle" => tid[u] \in Tasks /\ store[tid[u]] # NoTask
                              /\ pc[u] = "idle" => tid[u] = NoTask /\ ~emitting[u]
    BY NoTaskIsNone DEF SupervisorInv, TypeOK
  <1>1. /\ pc[t] = "idle" /\ emitting' = emitting /\ emitted' = emitted
        /\ \A u \in Threads \ {t} : tid'[u] = tid[u]
    BY <1>a, EnterKinds
  <1>2. \/ store' = store
        \/ \E k \in Tasks, c \in Capabilities, m \in RetryBudgets :
              store[k] = NoTask /\ store' = [store EXCEPT ![k] = CreateTaskRecord(c, m)]
    BY EnterKinds
  <1>i. /\ \A j \in Tasks : store[j] = NoTask => emitted[j] = << >>
        /\ \A j \in Tasks :
              store[j] # NoTask /\ (\A u \in Threads : tid[u] = j => ~emitting[u]) =>
                 Mirrors(emitted[j], store[j].audit_trail)
        /\ \A u \in Threads : emitting[u] =>
              Mirrors(Append(emitted[tid[u]], LastAction(store[tid[u]])), store[tid[u]].audit_trail)
    BY DEF MirrorInv
  <1>3. \A c \in Capabilities, m \in RetryBudgets :
           CreateTaskRecord(c, m) # NoTask /\ Mirrors(<< >>, CreateTaskRecord(c, m).audit_trail)
    BY CreatedRecordOK, CreatedMirrored, NoTaskIsNone DEF RecordOK
  <1>4. \A j \in Tasks : \/ store'[j] = store[j]
                         \/ /\ store[j] = NoTask /\ store'[j] # NoTask
                            /\ Mirrors(<< >>, store'[j].audit_trail)
    BY <1>a, <1>2, <1>3
  <1>5. \A j \in Tasks : store'[j] = NoTask => emitted'[j] = << >>
    BY <1>i, <1>1, <1>4
  <1>6. ASSUME NEW j \in Tasks, store'[j] # NoTask, \A u \in Threads : tid'[u] = j => ~emitting'[u]
        PROVE  Mirrors(emitted'[j], store'[j].audit_trail)
    <2>1. CASE store'[j] = store[j]
      <3>1. \A u \in Threads : tid[u] = j => ~emitting[u]
        BY <1>a, <1>1, <1>6
      <3> QED BY <1>i, <1>1, <1>6, <2>1, <3>1
    <2>2. CASE store[j] = NoTask /\ Mirrors(<< >>, store'[j].audit_trail)
      BY <1>i, <1>1, <2>2
    <2> QED BY <1>4, <2>1, <2>2
  <1>7. ASSUME NEW u \in Threads, emitting'[u]
        PROVE  Mirrors(Append(emitted'[tid'[u]], LastAction(store'[tid'[u]])), store'[tid'[u]].audit_trail)
    <2>1. u # t /\ emitting[u] /\ tid'[u] = tid[u] /\ tid[u] \in Tasks /\ store[tid[u]] # NoTask
      BY <1>a, <1>1, <1>7
    <2>2. store'[tid[u]] = store[tid[u]]
      BY <1>4, <2>1
    <2> QED BY <1>i, <1>1, <2>1, <2>2
  <1> QED BY <1>5, <1>6, <1>7, MirrorInvPrimed

(* When calls on one task do not overlap, no save fails and the process     *)
(* does not die, the events of a task are its audited moves and retries,    *)
(* each once and in order, whenever no emission is pending.                 *)
THEOREM MirrorTheorem ==
    ASSUME ExclusiveCallers, Faults \cap {"save", "crash"} = {}
    PROVE  Spec => []EventsMirrorTrail
  <1>0. "save" \notin Faults
    OBVIOUS
  <1>1. Init => MirrorInv
    BY DEF Init, MirrorInv
  <1>2. SupervisorInv /\ ExclusiveInv /\ SameCopies /\ MirrorInv /\ [Next]_vars => MirrorInv'
    <2> SUFFICES ASSUME SupervisorInv, ExclusiveInv, SameCopies, MirrorInv, [Next]_vars
                 PROVE  MirrorInv'
      OBVIOUS
    <2>1. CASE UNCHANGED vars
      <3>1. UNCHANGED <<store, tid, emitting, emitted>>
        BY <2>1 DEF vars
      <3> QED BY <3>1, MirrorInvPrimed DEF MirrorInv
    <2>2. ~Crash
      BY DEF Crash
    <2> QED BY <2>1, <2>2, StepKeepsMirrors, EnterKeepsMirrors DEF Next
  <1>3. MirrorInv => EventsMirrorTrail
    BY DEF MirrorInv, EventsMirrorTrail
  <1> QED BY <1>0, <1>1, <1>2, <1>3, SupervisorInvariant, ExclusiveInvariant,
             SameCopiesInvariant, PTL DEF Spec
=============================================================================
