------------------------ MODULE TaskSupervisorProofs ------------------------
(***************************************************************************)
(* Proofs about TaskSupervisor, for every set of tasks, threads and        *)
(* capabilities, every retry and escalation setting, and every bound.      *)
(*                                                                         *)
(* The argument is about records, not about interleavings: every record    *)
(* that is ever saved or held by a caller is RecordOK, and a caller's own  *)
(* record satisfies LabelOK for the step it is about to take.  Neither     *)
(* depends on what other callers wrote in between, so both survive stale   *)
(* saves.                                                                  *)
(***************************************************************************)
EXTENDS TaskSupervisor, TLAPS

RecordOK(rec) ==
    /\ rec \in TaskRecord
    /\ WithinBudget(rec)
    /\ rec.status = "approved" => HasEntry(rec, "approved")
    /\ rec.attempt > 0 => Cleared(rec)

(* What a caller knows of its own record at each label. *)
LabelOK(label, rec) ==
    /\ label = "gate" => rec.status = "pending"
    /\ label \in {"approve_run", "approve_queue", "cancel"} => rec.status = "awaiting_approval"
    /\ label \in {"peer", "start"} => rec.status \in ExecutableStatuses /\ Cleared(rec)
    /\ label \in RunningLabels => rec.status \in {"running", "completed"}
    /\ label = "publish_success" => rec.status = "completed"

SupervisorInv ==
    /\ TypeOK
    /\ \A k \in Tasks : store[k] # NoTask => RecordOK(store[k])
    /\ \A t \in Threads : task[t] # NoTask => RecordOK(task[t])
    /\ \A t \in Threads : LabelOK(pc[t], task[t])

-----------------------------------------------------------------------------
(* Facts about records *)

(* Appending an audit entry keeps a record a record, adds that entry and    *)
(* loses none.                                                              *)
LEMMA AppendAuditFacts ==
    ASSUME NEW rec \in TaskRecord, NEW a \in AuditActions,
           NEW from \in AuditStatus, NEW to \in AuditStatus
    PROVE  /\ AppendAudit(rec, a, from, to) \in TaskRecord
           /\ AppendAudit(rec, a, from, to).capability = rec.capability
           /\ AppendAudit(rec, a, from, to).status = rec.status
           /\ AppendAudit(rec, a, from, to).result = rec.result
           /\ AppendAudit(rec, a, from, to).attempt = rec.attempt
           /\ AppendAudit(rec, a, from, to).max_retries = rec.max_retries
           /\ HasEntry(AppendAudit(rec, a, from, to), a)
           /\ \A b : HasEntry(rec, b) => HasEntry(AppendAudit(rec, a, from, to), b)
  <1> DEFINE e == Entry(a, from, to)
             s == rec.audit_trail
             r == AppendAudit(rec, a, from, to)
  <1>1. e \in AuditEntry /\ e.action = a
    BY DEF Entry, AuditEntry
  <1>2. s \in Seq(AuditEntry)
    BY DEF TaskRecord
  <1>3. /\ Append(s, e) \in Seq(AuditEntry)
        /\ Append(s, e) # << >>
        /\ Len(Append(s, e)) = Len(s) + 1
        /\ Append(s, e)[Len(s) + 1] = e
        /\ \A i \in 1..Len(s) : Append(s, e)[i] = s[i]
    BY <1>1, <1>2
  <1>4. r = [rec EXCEPT !.audit_trail = Append(s, e)]
    BY DEF AppendAudit
  <1>5. r \in TaskRecord /\ r.audit_trail = Append(s, e)
    BY <1>3, <1>4 DEF TaskRecord
  <1>6. /\ r.capability = rec.capability /\ r.status = rec.status
        /\ r.result = rec.result /\ r.attempt = rec.attempt
        /\ r.max_retries = rec.max_retries
    BY <1>4 DEF TaskRecord
  <1>7. HasEntry(r, a)
    BY <1>1, <1>2, <1>3, <1>5 DEF HasEntry
  <1>8. ASSUME NEW b, HasEntry(rec, b) PROVE HasEntry(r, b)
    BY <1>8, <1>2, <1>3, <1>5 DEF HasEntry
  <1> QED BY <1>5, <1>6, <1>7, <1>8

(* A transition is an audit entry and a new status. *)
LEMMA TransitionedFacts ==
    ASSUME NEW rec \in TaskRecord, NEW a \in AuditActions, NEW to \in TaskStatus
    PROVE  /\ Transitioned(rec, a, to) \in TaskRecord
           /\ Transitioned(rec, a, to).capability = rec.capability
           /\ Transitioned(rec, a, to).status = to
           /\ Transitioned(rec, a, to).result = rec.result
           /\ Transitioned(rec, a, to).attempt = rec.attempt
           /\ Transitioned(rec, a, to).max_retries = rec.max_retries
           /\ HasEntry(Transitioned(rec, a, to), a)
           /\ \A b : HasEntry(rec, b) => HasEntry(Transitioned(rec, a, to), b)
  <1> DEFINE r == AppendAudit(rec, a, rec.status, to)
  <1>1. rec.status \in AuditStatus /\ to \in AuditStatus
    BY DEF TaskRecord, AuditStatus
  <1>2. /\ r \in TaskRecord /\ r.capability = rec.capability /\ r.result = rec.result
        /\ r.attempt = rec.attempt /\ r.max_retries = rec.max_retries
        /\ HasEntry(r, a) /\ \A b : HasEntry(rec, b) => HasEntry(r, b)
    BY <1>1, AppendAuditFacts
  <1>3. Transitioned(rec, a, to) = [r EXCEPT !.status = to]
    BY DEF Transitioned
  <1> HIDE DEF r
  <1>4. /\ [r EXCEPT !.status = to] \in TaskRecord
        /\ [r EXCEPT !.status = to].capability = r.capability
        /\ [r EXCEPT !.status = to].status = to
        /\ [r EXCEPT !.status = to].result = r.result
        /\ [r EXCEPT !.status = to].attempt = r.attempt
        /\ [r EXCEPT !.status = to].max_retries = r.max_retries
        /\ [r EXCEPT !.status = to].audit_trail = r.audit_trail
    BY <1>2 DEF TaskRecord
  <1>5. \A b : HasEntry([r EXCEPT !.status = to], b) <=> HasEntry(r, b)
    BY <1>4 DEF HasEntry
  <1> QED BY <1>2, <1>3, <1>4, <1>5

(* Setting the result or raising the attempt touches nothing else. *)
LEMMA FieldFacts ==
    ASSUME NEW rec \in TaskRecord, NEW r \in {"none", "success", "error"}
    PROVE  /\ WithResult(rec, r) \in TaskRecord
           /\ WithResult(rec, r).capability = rec.capability
           /\ WithResult(rec, r).status = rec.status
           /\ WithResult(rec, r).attempt = rec.attempt
           /\ WithResult(rec, r).max_retries = rec.max_retries
           /\ \A b : HasEntry(rec, b) => HasEntry(WithResult(rec, r), b)
           /\ NextAttempt(rec) \in TaskRecord
           /\ NextAttempt(rec).capability = rec.capability
           /\ NextAttempt(rec).status = rec.status
           /\ NextAttempt(rec).attempt = rec.attempt + 1
           /\ NextAttempt(rec).max_retries = rec.max_retries
           /\ \A b : HasEntry(rec, b) => HasEntry(NextAttempt(rec), b)
  <1>1. /\ WithResult(rec, r) \in TaskRecord
        /\ WithResult(rec, r).capability = rec.capability
        /\ WithResult(rec, r).status = rec.status
        /\ WithResult(rec, r).attempt = rec.attempt
        /\ WithResult(rec, r).max_retries = rec.max_retries
        /\ WithResult(rec, r).audit_trail = rec.audit_trail
    BY DEF WithResult, TaskRecord
  <1>2. /\ NextAttempt(rec) \in TaskRecord
        /\ NextAttempt(rec).capability = rec.capability
        /\ NextAttempt(rec).status = rec.status
        /\ NextAttempt(rec).attempt = rec.attempt + 1
        /\ NextAttempt(rec).max_retries = rec.max_retries
        /\ NextAttempt(rec).audit_trail = rec.audit_trail
    BY DEF NextAttempt, TaskRecord
  <1> QED BY <1>1, <1>2 DEF HasEntry

(* The last audit entry of a record, whose action names the event to emit. *)
LEMMA LastEntryFacts ==
    ASSUME NEW rec \in TaskRecord
    PROVE  rec.audit_trail[Len(rec.audit_trail)].action \in AuditActions
  <1> DEFINE s == rec.audit_trail
  <1>1. s \in Seq(AuditEntry) /\ s # << >>
    BY DEF TaskRecord
  <1> HIDE DEF s
  <1>2. s[Len(s)] \in AuditEntry
    BY <1>1
  <1>3. s[Len(s)].action \in AuditActions
    BY <1>2 DEF AuditEntry
  <1> QED BY <1>3 DEF s

(* Clearance never goes away: it is read off entries that are only added. *)
LEMMA ClearedIsStable ==
    ASSUME NEW rec, NEW new, Cleared(rec), new.capability = rec.capability,
           \A b : HasEntry(rec, b) => HasEntry(new, b)
    PROVE  Cleared(new)
  BY DEF Cleared

(* The record of a submission. *)
LEMMA CreatedRecordOK ==
    ASSUME NEW c \in Capabilities, NEW m \in RetryBudgets
    PROVE  RecordOK(CreateTaskRecord(c, m))
  <1> DEFINE r == CreateTaskRecord(c, m)
  <1>1. Entry("submitted", "none", "pending") \in AuditEntry
    BY DEF Entry, AuditEntry, AuditActions, AuditStatus, TaskStatus
  <1>2. r \in TaskRecord
    BY <1>1 DEF CreateTaskRecord, TaskRecord, TaskStatus
  <1>3. r.status = "pending" /\ r.attempt = 0 /\ r.max_retries = m
    BY DEF CreateTaskRecord
  <1>4. m \in Int
    BY ConstantTypes
  <1> HIDE DEF r
  <1> QED BY <1>2, <1>3, <1>4 DEF RecordOK, WithinBudget, AttemptLimit, r

(* A record that has not started may move to any status that is not an      *)
(* execution's, APPROVED being reached by an approval.                      *)
LEMMA UnstartedMoveOK ==
    ASSUME NEW rec, RecordOK(rec), rec.attempt = 0, NEW a \in AuditActions,
           NEW to \in {"awaiting_approval", "policy_denied", "cancelled", "approved"},
           to = "approved" => a = "approved"
    PROVE  RecordOK(Transitioned(rec, a, to))
  <1>1. to \in TaskStatus /\ rec \in TaskRecord
    BY DEF TaskStatus, RecordOK
  <1>2. rec.max_retries \in Int
    BY <1>1, ConstantTypes DEF TaskRecord
  <1> QED BY <1>1, <1>2, TransitionedFacts DEF RecordOK, WithinBudget, AttemptLimit

(* A started record may move to any status an execution ends in. *)
LEMMA StartedMoveOK ==
    ASSUME NEW rec, RecordOK(rec), rec.attempt > 0, NEW a \in AuditActions,
           NEW to \in {"running", "completed", "failed", "escalated"}
    PROVE  RecordOK(Transitioned(rec, a, to)) /\ Cleared(Transitioned(rec, a, to))
  <1> DEFINE new == Transitioned(rec, a, to)
  <1>1. to \in TaskStatus /\ rec \in TaskRecord
    BY DEF TaskStatus, RecordOK
  <1>2. /\ new \in TaskRecord /\ new.attempt = rec.attempt /\ new.status = to
        /\ new.max_retries = rec.max_retries /\ new.capability = rec.capability
        /\ \A b : HasEntry(rec, b) => HasEntry(new, b)
    BY <1>1, TransitionedFacts
  <1> HIDE DEF new
  <1>3. Cleared(rec)
    BY DEF RecordOK
  <1>4. Cleared(new)
    BY <1>2, <1>3, ClearedIsStable
  <1> QED BY <1>2, <1>4 DEF RecordOK, WithinBudget, new

(* An audit entry without a change of status keeps a record as it was. *)
LEMMA AppendAuditOK ==
    ASSUME NEW rec, RecordOK(rec), NEW a \in AuditActions,
           NEW from \in AuditStatus, NEW to \in AuditStatus
    PROVE  /\ RecordOK(AppendAudit(rec, a, from, to))
           /\ Cleared(rec) => Cleared(AppendAudit(rec, a, from, to))
           /\ AppendAudit(rec, a, from, to).status = rec.status
           /\ AppendAudit(rec, a, from, to).attempt = rec.attempt
           /\ AppendAudit(rec, a, from, to).max_retries = rec.max_retries
           /\ AppendAudit(rec, a, from, to).capability = rec.capability
           /\ HasEntry(AppendAudit(rec, a, from, to), a)
  <1> DEFINE new == AppendAudit(rec, a, from, to)
  <1>1. rec \in TaskRecord
    BY DEF RecordOK
  <1>2. /\ new \in TaskRecord /\ new.attempt = rec.attempt /\ new.status = rec.status
        /\ new.max_retries = rec.max_retries /\ new.capability = rec.capability
        /\ HasEntry(new, a) /\ \A b : HasEntry(rec, b) => HasEntry(new, b)
    BY <1>1, AppendAuditFacts
  <1> HIDE DEF new
  <1>3. Cleared(rec) => Cleared(new)
    BY <1>2, ClearedIsStable
  <1> QED BY <1>2, <1>3 DEF RecordOK, WithinBudget, new

(* Setting a result keeps a record as it was. *)
LEMMA WithResultOK ==
    ASSUME NEW rec, RecordOK(rec), NEW r \in {"none", "success", "error"}
    PROVE  /\ RecordOK(WithResult(rec, r))
           /\ WithResult(rec, r).attempt = rec.attempt
           /\ WithResult(rec, r).status = rec.status
  <1> DEFINE new == WithResult(rec, r)
  <1>1. rec \in TaskRecord
    BY DEF RecordOK
  <1>2. /\ new \in TaskRecord /\ new.attempt = rec.attempt /\ new.status = rec.status
        /\ new.max_retries = rec.max_retries /\ new.capability = rec.capability
        /\ \A b : HasEntry(rec, b) => HasEntry(new, b)
    BY <1>1, FieldFacts
  <1> HIDE DEF new
  <1>3. Cleared(rec) => Cleared(new)
    BY <1>2, ClearedIsStable
  <1> QED BY <1>2, <1>3 DEF RecordOK, WithinBudget, new

(* The transition to RUNNING: the first attempt of a cleared record. *)
StartedRecord(rec) == Transitioned(NextAttempt(rec), "started", "running")

(* A cleared record is still cleared when it is started. *)
LEMMA StartedRecordOK ==
    ASSUME NEW rec, RecordOK(rec), Cleared(rec), rec.status \in ExecutableStatuses
    PROVE  /\ RecordOK(StartedRecord(rec)) /\ Cleared(StartedRecord(rec))
           /\ StartedRecord(rec).status = "running"
           /\ StartedRecord(rec).attempt = 1
           /\ StartedRecord(rec).max_retries = rec.max_retries
  <1> DEFINE r == NextAttempt(rec)
             new == StartedRecord(rec)
  <1>1. rec \in TaskRecord /\ rec.attempt = 0 /\ rec.max_retries \in Int
    BY ConstantTypes DEF RecordOK, WithinBudget, ExecutableStatuses, TaskRecord
  <1>2. /\ r \in TaskRecord /\ r.attempt = 1 /\ r.max_retries = rec.max_retries
        /\ r.capability = rec.capability /\ \A b : HasEntry(rec, b) => HasEntry(r, b)
    BY <1>1, FieldFacts
  <1>3. "started" \in AuditActions /\ "running" \in TaskStatus
    BY DEF AuditActions, TaskStatus
  <1>4. /\ new \in TaskRecord /\ new.status = "running" /\ new.attempt = 1
        /\ new.max_retries = rec.max_retries /\ new.capability = rec.capability
        /\ \A b : HasEntry(rec, b) => HasEntry(new, b)
    BY <1>2, <1>3, TransitionedFacts DEF StartedRecord
  <1> HIDE DEF new
  <1>5. Cleared(new)
    BY <1>4, ClearedIsStable
  <1> QED BY <1>1, <1>4, <1>5 DEF RecordOK, WithinBudget, AttemptLimit, new

(* Raising the attempt for a retry stays within the budget, because decide  *)
(* allows a retry only while attempt <= max_retries.                        *)
LEMMA NextAttemptOK ==
    ASSUME NEW rec, RecordOK(rec), rec.attempt > 0, ShouldRetry(rec)
    PROVE  /\ RecordOK(NextAttempt(rec)) /\ Cleared(NextAttempt(rec))
           /\ NextAttempt(rec).attempt = rec.attempt + 1
           /\ NextAttempt(rec).attempt > 0
           /\ NextAttempt(rec).status = rec.status
           /\ NextAttempt(rec).max_retries = rec.max_retries
  <1> DEFINE new == NextAttempt(rec)
  <1>1. rec \in TaskRecord /\ rec.attempt \in Nat /\ rec.max_retries \in Int
    BY ConstantTypes DEF RecordOK, TaskRecord
  <1>2. /\ new \in TaskRecord /\ new.attempt = rec.attempt + 1 /\ new.status = rec.status
        /\ new.max_retries = rec.max_retries /\ new.capability = rec.capability
        /\ \A b : HasEntry(rec, b) => HasEntry(new, b)
    BY <1>1, FieldFacts
  <1> HIDE DEF new
  <1>3. Cleared(rec)
    BY DEF RecordOK
  <1>4. Cleared(new)
    BY <1>2, <1>3, ClearedIsStable
  <1>5. rec.attempt + 1 <= AttemptLimit(rec.max_retries)
    BY <1>1 DEF ShouldRetry, AttemptLimit
  <1> QED BY <1>1, <1>2, <1>4, <1>5 DEF RecordOK, WithinBudget, new

-----------------------------------------------------------------------------
(* The shapes of step *)

(* A call that saves a good record and goes on where that record belongs. *)
LEMMA SavePreservesInv ==
    ASSUME SupervisorInv, NEW t \in Threads, pc[t] # "idle",
           NEW rec, NEW label \in Labels \ {"idle"},
           Save(t, rec, label), RecordOK(rec), LabelOK(label, rec),
           \/ UNCHANGED emitting
           \/ emitting' = [emitting EXCEPT ![t] = TRUE],
           UNCHANGED emitted,
           failures' \in [Threads -> Nat], executions' \in [Tasks -> Nat]
    PROVE  SupervisorInv'
  <1> USE DEF SupervisorInv
  <1>1. tid[t] \in Tasks /\ rec \in TaskRecord /\ rec # NoTask
    BY NoTaskIsNone DEF TypeOK, RecordOK
  <1>2. /\ store' = [store EXCEPT ![tid[t]] = rec]
        /\ task' = [task EXCEPT ![t] = rec]
        /\ pc' = [pc EXCEPT ![t] = label]
        /\ queue' = queue /\ tid' = tid /\ calls' = calls /\ emitted' = emitted
    BY DEF Save, Goto
  <1>3. emitting' \in [Threads -> BOOLEAN]
    BY DEF TypeOK
  <1>4. \A u \in Threads \ {t} : /\ pc'[u] = pc[u] /\ task'[u] = task[u]
                                 /\ emitting'[u] = emitting[u]
    BY <1>2 DEF TypeOK
  <1>5. pc'[t] = label /\ task'[t] = rec
    BY <1>2 DEF TypeOK
  <1>6. \A k \in Tasks : store'[k] = IF k = tid[t] THEN rec ELSE store[k]
    BY <1>2 DEF TypeOK
  <1>7. TypeOK'
    <2>1. store' \in [Tasks -> TaskRecord \cup {NoTask}] /\ task' \in [Threads -> TaskRecord \cup {NoTask}]
      BY <1>1, <1>2 DEF TypeOK
    <2>2. pc' \in [Threads -> Labels]
      BY <1>2 DEF TypeOK
    <2>3. ASSUME NEW u \in Threads
          PROVE  /\ pc'[u] = "idle" => tid'[u] = NoTask /\ ~emitting'[u]
                 /\ pc'[u] # "idle" => tid'[u] \in Tasks /\ store'[tid'[u]] \in TaskRecord
                 /\ pc'[u] \in LoadedLabels \/ emitting'[u] => task'[u] \in TaskRecord
      <3>1. CASE u = t
        BY <3>1, <1>1, <1>2, <1>5, <1>6
      <3>2. CASE u # t
        BY <3>2, <1>1, <1>2, <1>4, <1>6 DEF TypeOK
      <3> QED BY <3>1, <3>2
    <2>4. \A i \in DOMAIN queue' : store'[queue'[i]] # NoTask
      BY <1>1, <1>2, <1>6 DEF TypeOK
    <2> QED BY <1>2, <1>3, <2>1, <2>2, <2>3, <2>4 DEF TypeOK
  <1>8. \A k \in Tasks : store'[k] # NoTask => RecordOK(store'[k])
    BY <1>6
  <1>9. \A u \in Threads : task'[u] # NoTask => RecordOK(task'[u])
    BY <1>4, <1>5
  <1>10. \A u \in Threads : LabelOK(pc'[u], task'[u])
    BY <1>4, <1>5
  <1> QED BY <1>7, <1>8, <1>9, <1>10 DEF LabelOK, RecordOK

(* A call that only moves on, possibly with a new local record. *)
LEMMA GotoPreservesInv ==
    ASSUME SupervisorInv, NEW t \in Threads, NEW rec, NEW label \in Labels \ {"idle"},
           Goto(t, label), task' = [task EXCEPT ![t] = rec],
           rec = NoTask \/ RecordOK(rec), LabelOK(label, rec),
           label \in LoadedLabels \/ emitting[t] => rec \in TaskRecord,
           tid' \in [Threads -> Tasks \cup {NoTask}],
           \A u \in Threads \ {t} : tid'[u] = tid[u],
           tid'[t] \in Tasks, store'[tid'[t]] \in TaskRecord,
           store' \in [Tasks -> TaskRecord \cup {NoTask}],
           \A k \in Tasks : store[k] \in TaskRecord => store'[k] \in TaskRecord,
           \A k \in Tasks : store'[k] # NoTask => RecordOK(store'[k]),
           queue' \in Seq(Tasks), \A i \in DOMAIN queue' : store'[queue'[i]] # NoTask,
           calls' \in Nat, UNCHANGED <<failures, emitting, emitted, executions>>
    PROVE  SupervisorInv'
  <1> USE DEF SupervisorInv
  <1>2. pc' = [pc EXCEPT ![t] = label]
    BY DEF Goto
  <1>3. \A u \in Threads \ {t} : pc'[u] = pc[u] /\ task'[u] = task[u]
    BY <1>2 DEF TypeOK
  <1>4. pc'[t] = label /\ task'[t] = rec
    BY <1>2 DEF TypeOK
  <1>5. rec \in TaskRecord \cup {NoTask}
    BY DEF RecordOK
  <1>6. TypeOK'
    <2>1. task' \in [Threads -> TaskRecord \cup {NoTask}] /\ pc' \in [Threads -> Labels]
      BY <1>2, <1>5 DEF TypeOK
    <2>2. ASSUME NEW u \in Threads
          PROVE  /\ pc'[u] = "idle" => tid'[u] = NoTask /\ ~emitting'[u]
                 /\ pc'[u] # "idle" => tid'[u] \in Tasks /\ store'[tid'[u]] \in TaskRecord
                 /\ pc'[u] \in LoadedLabels \/ emitting'[u] => task'[u] \in TaskRecord
      <3>1. CASE u = t
        BY <3>1, <1>4
      <3>2. CASE u # t
        BY <3>2, <1>3 DEF TypeOK
      <3> QED BY <3>1, <3>2
    <2> QED BY <2>1, <2>2 DEF TypeOK
  <1>7. \A u \in Threads : task'[u] # NoTask => RecordOK(task'[u])
    BY <1>3, <1>4
  <1>8. \A u \in Threads : LabelOK(pc'[u], task'[u])
    BY <1>3, <1>4
  <1> QED BY <1>6, <1>7, <1>8 DEF LabelOK, RecordOK

(* The end of a call. *)
LEMMA ReturnPreservesInv ==
    ASSUME SupervisorInv, NEW t \in Threads, Return(t), ~emitting'[t],
           emitting' \in [Threads -> BOOLEAN], emitted' \in [Tasks -> Seq(AuditActions)],
           \A u \in Threads \ {t} : emitting'[u] = emitting[u],
           queue' \in Seq(Tasks), \A i \in DOMAIN queue' : store'[queue'[i]] # NoTask,
           UNCHANGED <<store, executions, calls>>
    PROVE  SupervisorInv'
  <1> USE DEF SupervisorInv
  <1>1. /\ pc' = [pc EXCEPT ![t] = "idle"] /\ tid' = [tid EXCEPT ![t] = NoTask]
        /\ task' = [task EXCEPT ![t] = NoTask] /\ failures' = [failures EXCEPT ![t] = 0]
    BY DEF Return, Goto
  <1>2. \A u \in Threads \ {t} : pc'[u] = pc[u] /\ task'[u] = task[u] /\ tid'[u] = tid[u]
    BY <1>1 DEF TypeOK
  <1>3. pc'[t] = "idle" /\ task'[t] = NoTask /\ tid'[t] = NoTask
    BY <1>1 DEF TypeOK
  <1>4. "idle" \notin LoadedLabels /\ "idle" \in Labels
    BY DEF LoadedLabels, RunningLabels, OwingLabels, Labels
  <1>5. TypeOK'
    <2>1. /\ pc' \in [Threads -> Labels] /\ tid' \in [Threads -> Tasks \cup {NoTask}]
          /\ task' \in [Threads -> TaskRecord \cup {NoTask}] /\ failures' \in [Threads -> Nat]
      BY <1>1, <1>4 DEF TypeOK
    <2>2. ASSUME NEW u \in Threads
          PROVE  /\ pc'[u] = "idle" => tid'[u] = NoTask /\ ~emitting'[u]
                 /\ pc'[u] # "idle" => tid'[u] \in Tasks /\ store'[tid'[u]] \in TaskRecord
                 /\ pc'[u] \in LoadedLabels \/ emitting'[u] => task'[u] \in TaskRecord
      <3>1. CASE u = t
        BY <3>1, <1>3, <1>4
      <3>2. CASE u # t
        BY <3>2, <1>2 DEF TypeOK
      <3> QED BY <3>1, <3>2
    <2> QED BY <2>1, <2>2 DEF TypeOK
  <1>6. \A u \in Threads : task'[u] # NoTask => RecordOK(task'[u])
    BY <1>2, <1>3
  <1>7. LabelOK("idle", NoTask)
    BY DEF LabelOK, RunningLabels, OwingLabels
  <1>8. \A u \in Threads : LabelOK(pc'[u], task'[u])
    BY <1>2, <1>3, <1>7
  <1>9. \A k \in Tasks : store'[k] # NoTask => RecordOK(store'[k])
    OBVIOUS
  <1> QED BY <1>5, <1>6, <1>8, <1>9 DEF LabelOK, RecordOK

-----------------------------------------------------------------------------
(* The invariant is inductive *)

(* Nothing is stored and nobody calls at the start. *)
LEMMA InitInv == Init => SupervisorInv
  <1> SUFFICES ASSUME Init PROVE SupervisorInv
    OBVIOUS
  <1>1. TypeOK
    BY DEF Init, TypeOK, Labels, LoadedLabels, RunningLabels, OwingLabels
  <1>2. \A t \in Threads : LabelOK(pc[t], task[t])
    BY DEF Init, LabelOK, RunningLabels, OwingLabels
  <1> QED BY <1>1, <1>2 DEF Init, SupervisorInv

(* Entering the supervisor keeps the invariant. *)
LEMMA EnterPreservesInv ==
    ASSUME SupervisorInv, NEW t \in Threads, Enter(t)
    PROVE  SupervisorInv'
  <1>0. TypeOK
    BY DEF SupervisorInv
  <1>a. /\ {"enqueue", "run_task", "approve_run", "approve_queue", "cancel"} \subseteq Labels \ {"idle"}
        /\ "enqueue" \notin LoadedLabels /\ "run_task" \notin LoadedLabels
    BY DEF Labels, LoadedLabels, RunningLabels, OwingLabels
  <1>b. ASSUME NEW label \in {"enqueue", "run_task"}, NEW rec PROVE LabelOK(label, rec)
    BY DEF LabelOK, RunningLabels, OwingLabels
  <1>c. /\ task = [task EXCEPT ![t] = task[t]]
        /\ task[t] = NoTask \/ RecordOK(task[t])
        /\ emitting[t] => task[t] \in TaskRecord
        /\ pc[t] = "idle" => ~emitting[t]
    BY <1>0 DEF SupervisorInv, TypeOK
  <1>1. ASSUME NEW method, NEW label \in {"enqueue", "run_task"}, Create(t, method, label)
        PROVE  SupervisorInv'
    <2>1. PICK k \in Tasks, c \in Capabilities, m \in RetryBudgets :
             /\ store[k] = NoTask
             /\ store' = [store EXCEPT ![k] = CreateTaskRecord(c, m)]
             /\ tid' = [tid EXCEPT ![t] = k]
      BY <1>1 DEF Create
    <2> DEFINE new == CreateTaskRecord(c, m)
    <2>2. RecordOK(new) /\ new \in TaskRecord
      BY CreatedRecordOK DEF RecordOK
    <2> HIDE DEF new
    <2>3. /\ tid' \in [Threads -> Tasks \cup {NoTask}] /\ tid'[t] = k
          /\ \A u \in Threads \ {t} : tid'[u] = tid[u]
      BY <2>1, <1>0 DEF TypeOK
    <2>4. /\ store' \in [Tasks -> TaskRecord \cup {NoTask}] /\ store'[k] = new
          /\ \A j \in Tasks \ {k} : store'[j] = store[j]
      BY <2>1, <2>2, <1>0 DEF TypeOK, new
    <2>5. \A j \in Tasks : store'[j] # NoTask => RecordOK(store'[j])
      BY <2>2, <2>4 DEF SupervisorInv
    <2>6. \A j \in Tasks : store[j] \in TaskRecord => store'[j] \in TaskRecord
      BY <2>2, <2>4
    <2>7. /\ Goto(t, label) /\ task' = task /\ queue' = queue /\ calls' = calls + 1
          /\ UNCHANGED <<failures, emitting, emitted, executions>>
      BY <1>1 DEF Create, Call
    <2>8. queue' \in Seq(Tasks) /\ calls' \in Nat
      BY <2>7, <1>0 DEF TypeOK
    <2>9. \A i \in DOMAIN queue' : store'[queue'[i]] # NoTask
      BY <2>2, <2>4, <2>7, <1>0, NoTaskIsNone DEF TypeOK
    <2> QED BY <1>a, <1>b, <1>c, <2>2, <2>3, <2>4, <2>5, <2>6, <2>7, <2>8, <2>9, GotoPreservesInv
  <1>2. CASE Submit(t)
    BY <1>1, <1>2 DEF Submit
  <1>3. CASE RunSubmission(t)
    BY <1>1, <1>3 DEF RunSubmission
  <1>4. ASSUME NEW k \in Tasks, store[k] \in TaskRecord, NEW label \in Labels \ {"idle"}, NEW rec,
               tid' = [tid EXCEPT ![t] = k], Goto(t, label), task' = [task EXCEPT ![t] = rec],
               rec = NoTask \/ RecordOK(rec), LabelOK(label, rec), pc[t] = "idle",
               label \in LoadedLabels => rec \in TaskRecord,
               queue' \in Seq(Tasks), \A i \in DOMAIN queue' : store'[queue'[i]] # NoTask,
               calls' \in Nat, UNCHANGED <<store, failures, emitting, emitted, executions>>
        PROVE  SupervisorInv'
    <2>1. /\ tid' \in [Threads -> Tasks \cup {NoTask}] /\ tid'[t] = k
          /\ \A u \in Threads \ {t} : tid'[u] = tid[u]
      BY <1>0, <1>4 DEF TypeOK
    <2>2. /\ store' \in [Tasks -> TaskRecord \cup {NoTask}]
          /\ \A j \in Tasks : store'[j] # NoTask => RecordOK(store'[j])
      BY <1>4 DEF SupervisorInv, TypeOK
    <2> QED BY <1>4, <1>c, <2>1, <2>2, GotoPreservesInv
  <1>5. CASE RunNext(t)
    <2>1. /\ Head(queue) \in Tasks /\ Tail(queue) \in Seq(Tasks) /\ queue[1] = Head(queue)
          /\ \A i \in DOMAIN Tail(queue) : i + 1 \in DOMAIN queue /\ Tail(queue)[i] = queue[i + 1]
          /\ 1 \in DOMAIN queue
      BY <1>0, <1>5 DEF TypeOK, RunNext
    <2>2. /\ tid' = [tid EXCEPT ![t] = Head(queue)] /\ queue' = Tail(queue)
          /\ Goto(t, "run_task") /\ pc[t] = "idle" /\ task' = task /\ calls' = calls
          /\ UNCHANGED <<store, failures, emitting, emitted, executions>>
      BY <1>5 DEF RunNext
    <2>3. store[Head(queue)] \in TaskRecord /\ calls' \in Nat
      BY <1>0, <2>1, <2>2 DEF TypeOK
    <2>4. \A i \in DOMAIN queue' : store'[queue'[i]] # NoTask
      BY <1>0, <2>1, <2>2 DEF TypeOK
    <2> QED BY <1>4, <1>a, <1>b, <1>c, <2>1, <2>2, <2>3, <2>4
  <1>d. /\ queue \in Seq(Tasks) /\ calls + 1 \in Nat
        /\ \A i \in DOMAIN queue : store[queue[i]] # NoTask
    BY <1>0 DEF TypeOK
  <1>6. CASE RunTask(t)
    <2>1. PICK k \in Tasks : store[k] # NoTask /\ tid' = [tid EXCEPT ![t] = k]
      BY <1>6 DEF RunTask
    <2>2. store[k] \in TaskRecord
      BY <1>0, <2>1 DEF TypeOK
    <2>3. /\ Goto(t, "run_task") /\ pc[t] = "idle" /\ calls' = calls + 1 /\ task' = task
          /\ queue' = queue /\ UNCHANGED <<store, failures, emitting, emitted, executions>>
      BY <1>6 DEF RunTask, Call
    <2> QED BY <1>4, <1>a, <1>b, <1>c, <1>d, <2>1, <2>2, <2>3
  <1>7. ASSUME NEW method, NEW label \in {"approve_run", "approve_queue", "cancel"},
               BeginDecision(t, method, label)
        PROVE  SupervisorInv'
    <2>1. PICK k \in Tasks :
             /\ store[k] # NoTask /\ store[k].status = "awaiting_approval"
             /\ tid' = [tid EXCEPT ![t] = k] /\ task' = [task EXCEPT ![t] = store[k]]
      BY <1>7 DEF BeginDecision
    <2>2. store[k] \in TaskRecord /\ RecordOK(store[k])
      BY <1>0, <2>1 DEF TypeOK, SupervisorInv
    <2>3. LabelOK(label, store[k])
      BY <2>1 DEF LabelOK, RunningLabels, OwingLabels
    <2>4. /\ Goto(t, label) /\ pc[t] = "idle" /\ calls' = calls + 1 /\ queue' = queue
          /\ UNCHANGED <<store, failures, emitting, emitted, executions>>
      BY <1>7 DEF BeginDecision, Call
    <2> QED BY <1>4, <1>a, <1>d, <2>1, <2>2, <2>3, <2>4
  <1>8. CASE BeginApprove(t)
    BY <1>7, <1>8 DEF BeginApprove
  <1>9. CASE BeginCancel(t)
    BY <1>7, <1>9 DEF BeginCancel
  <1> QED BY <1>2, <1>3, <1>5, <1>6, <1>8, <1>9 DEF Enter

(* So does a crash. *)
LEMMA CrashPreservesInv ==
    ASSUME SupervisorInv, Crash
    PROVE  SupervisorInv'
  <1>1. TypeOK'
    BY DEF SupervisorInv, Crash, TypeOK, Labels, LoadedLabels, RunningLabels, OwingLabels
  <1>2. \A t \in Threads : LabelOK(pc'[t], task'[t])
    BY DEF Crash, LabelOK, RunningLabels, OwingLabels
  <1>3. \A t \in Threads : task'[t] = NoTask
    BY DEF Crash
  <1>4. \A k \in Tasks : store'[k] # NoTask => RecordOK(store'[k])
    BY DEF Crash, SupervisorInv
  <1> QED BY <1>1, <1>2, <1>3, <1>4 DEF SupervisorInv, LabelOK, RecordOK

(* Every step of a call keeps the invariant. *)
LEMMA StepPreservesInv ==
    ASSUME SupervisorInv, NEW t \in Threads, Step(t)
    PROVE  SupervisorInv'
  <1> DEFINE rec == task[t]
  <1>0. TypeOK
    BY DEF SupervisorInv
  <1>a. /\ failures \in [Threads -> Nat] /\ executions \in [Tasks -> Nat]
        /\ failures[t] + 1 \in Nat /\ queue \in Seq(Tasks) /\ calls \in Nat
        /\ \A i \in DOMAIN queue : store[queue[i]] # NoTask
        /\ emitting \in [Threads -> BOOLEAN] /\ emitted \in [Tasks -> Seq(AuditActions)]
    BY <1>0 DEF TypeOK
  <1>b. pc[t] # "idle" => tid[t] \in Tasks /\ store[tid[t]] \in TaskRecord /\ RecordOK(store[tid[t]])
    BY <1>0, NoTaskIsNone DEF SupervisorInv, TypeOK
  <1>c. pc[t] \in LoadedLabels => rec \in TaskRecord /\ RecordOK(rec) /\ LabelOK(pc[t], rec)
    BY <1>0, NoTaskIsNone DEF SupervisorInv, TypeOK
  <1>d. rec \in TaskRecord /\ RecordOK(rec) =>
           /\ rec.attempt \in Nat
           /\ rec.status \in {"pending", "awaiting_approval", "approved"} => rec.attempt = 0
           /\ rec.status \in {"running", "completed"} => rec.attempt > 0
    BY DEF RecordOK, WithinBudget, TaskRecord
  <1>e. /\ Labels \ {"idle"} = {"return", "enqueue", "run_task", "gate", "peer", "start",
               "execute", "publish_success", "record_failure", "decide",
               "publish_escalated", "publish_failed", "fail",
               "approve_run", "approve_queue", "cancel"}
        /\ LoadedLabels = {"execute", "record_failure", "decide", "publish_failed", "fail",
               "publish_success", "gate", "peer", "start", "approve_run", "approve_queue",
               "cancel", "publish_escalated", "return"}
    BY DEF Labels, LoadedLabels, RunningLabels, OwingLabels
  <1>f. ASSUME NEW label \in {"return", "enqueue", "run_task", "publish_escalated"}, NEW r
        PROVE  LabelOK(label, r)
    BY DEF LabelOK, RunningLabels, OwingLabels
  <1>g. ASSUME NEW r, r.status \in {"running", "completed"},
               NEW label \in {"execute", "record_failure", "decide", "publish_failed", "fail"}
        PROVE  LabelOK(label, r)
    BY <1>g DEF LabelOK, RunningLabels, OwingLabels
  <1>h. {"awaiting_approval", "denied", "allowed", "peer_suggestion_applied", "started",
         "completed", "failure_recorded", "retry", "escalated", "failed", "approved",
         "cancelled"} \subseteq AuditActions
    BY DEF AuditActions
  <1>i. {"none", "pending", "running"} \subseteq AuditStatus
    BY DEF AuditStatus, TaskStatus
  \* Steps that save and emit, and steps that save quietly.
  <1>s. ASSUME NEW new, RecordOK(new), NEW label \in Labels \ {"idle"}, LabelOK(label, new),
               SaveAndEmit(t, new, label) \/ SaveQuietly(t, new, label),
               pc[t] # "idle", failures' \in [Threads -> Nat], executions' \in [Tasks -> Nat]
        PROVE  SupervisorInv'
    <2>1. CASE SaveAndEmit(t, new, label)
      BY <1>s, <2>1, SavePreservesInv DEF SaveAndEmit
    <2>2. CASE SaveQuietly(t, new, label)
      BY <1>s, <2>2, SavePreservesInv DEF SaveQuietly
    <2> QED BY <1>s, <2>1, <2>2
  \* Steps that only go on.
  <1>m. ASSUME NEW r, RecordOK(r), NEW label \in Labels \ {"idle"}, LabelOK(label, r),
               Goto(t, label), task' = [task EXCEPT ![t] = r], pc[t] # "idle",
               UNCHANGED <<store, queue, tid, failures, emitting, emitted, executions, calls>>
        PROVE  SupervisorInv'
    <2>1. r \in TaskRecord
      BY <1>m DEF RecordOK
    <2>2. /\ tid' \in [Threads -> Tasks \cup {NoTask}] /\ \A u \in Threads \ {t} : tid'[u] = tid[u]
          /\ store' \in [Tasks -> TaskRecord \cup {NoTask}]
          /\ \A k \in Tasks : store'[k] # NoTask => RecordOK(store'[k])
      BY <1>0, <1>m DEF TypeOK, SupervisorInv
    <2>3. tid'[t] \in Tasks /\ store'[tid'[t]] \in TaskRecord
      BY <1>b, <1>m
    <2>4. queue' = queue /\ calls' = calls
      BY <1>m
    <2> QED BY <1>a, <1>m, <2>1, <2>2, <2>3, <2>4, GotoPreservesInv
  \* Steps that end the call.
  <1>r. ASSUME Return(t), ~emitting[t], UNCHANGED <<store, queue, emitting, emitted, executions, calls>>
        PROVE  SupervisorInv'
    <2>1. queue' = queue /\ emitting' = emitting /\ emitted' = emitted
      BY <1>r
    <2> QED BY <1>a, <1>r, <2>1, ReturnPreservesInv
  <1>t. task = [task EXCEPT ![t] = rec]
    BY <1>0 DEF TypeOK
  <1>1. CASE EmitEvent(t)
    <2>1. rec \in TaskRecord /\ RecordOK(rec) /\ tid[t] \in Tasks /\ pc[t] # "idle"
      BY <1>0, <1>1, NoTaskIsNone DEF EmitEvent, TypeOK, SupervisorInv
    <2> DEFINE trail == rec.audit_trail
    <2>3. trail[Len(trail)].action \in AuditActions
      BY <2>1, LastEntryFacts
    <2>4. /\ emitting' = [emitting EXCEPT ![t] = FALSE]
          /\ emitted' = [emitted EXCEPT ![tid[t]] = Append(@, trail[Len(trail)].action)]
          /\ UNCHANGED <<store, queue, executions, calls>>
      BY <1>1 DEF EmitEvent
    <2>5. /\ emitted' \in [Tasks -> Seq(AuditActions)] /\ emitting' \in [Threads -> BOOLEAN]
          /\ ~emitting'[t] /\ \A u \in Threads \ {t} : emitting'[u] = emitting[u]
      BY <1>a, <2>1, <2>3, <2>4
    <2>6. queue' \in Seq(Tasks) /\ \A i \in DOMAIN queue' : store'[queue'[i]] # NoTask
      BY <1>a, <2>4
    <2>7. CASE pc[t] = "return"
      <3>1. Return(t)
        BY <1>1, <2>7 DEF EmitEvent
      <3> QED BY <2>4, <2>5, <2>6, <3>1, ReturnPreservesInv
    <2>8. CASE pc[t] # "return"
      <3>1. UNCHANGED <<pc, tid, task, failures>>
        BY <1>1, <2>8 DEF EmitEvent
      <3>2. TypeOK'
        BY <1>0, <2>4, <2>5, <3>1 DEF TypeOK
      <3> QED BY <2>4, <3>1, <3>2 DEF SupervisorInv, LabelOK, RecordOK
    <2> QED BY <2>7, <2>8
  <1>2. CASE Enqueue(t)
    <2>1. tid[t] \in Tasks /\ store[tid[t]] # NoTask /\ ~emitting[t] /\ Return(t)
      BY <1>2, <1>b, NoTaskIsNone DEF Enqueue, At
    <2>2. queue' \in {queue, Append(queue, tid[t])} /\ UNCHANGED <<store, emitting, emitted, executions, calls>>
      BY <1>2 DEF Enqueue
    <2>3. queue' \in Seq(Tasks) /\ \A i \in DOMAIN queue' : store'[queue'[i]] # NoTask
      <3>1. CASE queue' = queue
        BY <1>a, <2>2, <3>1
      <3>2. CASE queue' = Append(queue, tid[t])
        <4>1. /\ queue' \in Seq(Tasks) /\ Len(queue') = Len(queue) + 1
              /\ queue'[Len(queue) + 1] = tid[t] /\ Len(queue) \in Nat
              /\ \A i \in 1..Len(queue) : queue'[i] = queue[i]
          BY <1>a, <2>1, <3>2
        <4>2. \A i \in 1..(Len(queue) + 1) : i \in 1..Len(queue) \/ i = Len(queue) + 1
          BY <4>1
        <4>3. /\ DOMAIN queue = 1..Len(queue) /\ DOMAIN queue' = 1..(Len(queue) + 1)
              /\ store' = store
          BY <1>a, <2>2, <4>1
        <4>4. ASSUME NEW i \in DOMAIN queue' PROVE store'[queue'[i]] # NoTask
          <5>1. CASE i \in 1..Len(queue)
            BY <1>a, <4>1, <4>3, <5>1
          <5>2. CASE i = Len(queue) + 1
            BY <2>1, <4>1, <4>3, <5>2
          <5> QED BY <4>2, <4>3, <5>1, <5>2
        <4> QED BY <4>1, <4>4
      <3> QED BY <2>2, <3>1, <3>2
    <2> QED BY <1>a, <2>1, <2>2, <2>3, ReturnPreservesInv
  <1>3. CASE Approve(t)
    <2> DEFINE new == Transitioned(rec, "approved", "approved")
    <2>1. pc[t] \in {"approve_run", "approve_queue"}
          /\ (SaveAndEmit(t, new, "run_task") \/ SaveAndEmit(t, new, "enqueue"))
          /\ UNCHANGED <<failures, executions>>
      BY <1>3 DEF Approve, At
    <2>2. RecordOK(rec) /\ rec.attempt = 0
      BY <2>1, <1>c, <1>d, <1>e DEF LabelOK
    <2>3. RecordOK(new)
      BY <2>2, <1>h, UnstartedMoveOK
    <2> QED BY <2>1, <2>3, <1>a, <1>e, <1>f, <1>s
  <1>4. CASE CancelTask(t)
    <2> DEFINE r == WithResult(rec, "error")
               new == Transitioned(r, "cancelled", "cancelled")
    <2>1. pc[t] = "cancel" /\ SaveAndEmit(t, new, "return") /\ UNCHANGED <<failures, executions>>
      BY <1>4 DEF CancelTask, At
    <2>2. RecordOK(rec) /\ rec.attempt = 0
      BY <2>1, <1>c, <1>d, <1>e DEF LabelOK
    <2>3. RecordOK(r) /\ r.attempt = 0
      BY <2>2, WithResultOK
    <2>4. RecordOK(new)
      BY <2>3, <1>h, UnstartedMoveOK
    <2> QED BY <2>1, <2>4, <1>a, <1>e, <1>f, <1>s
  <1>5. CASE LoadTask(t)
    <2> DEFINE r == store[tid[t]]
    <2>1. /\ pc[t] # "idle" /\ ~emitting[t] /\ RecordOK(r) /\ r \in TaskRecord
          /\ UNCHANGED <<store, queue, emitting, emitted, executions, calls>>
      BY <1>5, <1>b DEF LoadTask, At
    <2>2. CASE Return(t)
      BY <2>1, <2>2, <1>r
    <2>3. CASE ~Return(t)
      <3> DEFINE label == IF r.status = "pending" THEN "gate" ELSE "peer"
      <3>1. /\ r.status \in ExecutableStatuses /\ task' = [task EXCEPT ![t] = r]
            /\ Goto(t, label) /\ UNCHANGED <<tid, failures>>
        BY <1>5, <2>3 DEF LoadTask
      <3>2. r.status = "approved" => Cleared(r)
        BY <2>1 DEF RecordOK, Cleared
      <3>3. LabelOK(label, r) /\ label \in Labels \ {"idle"}
        BY <3>1, <3>2, <1>e DEF ExecutableStatuses, LabelOK, RunningLabels, OwingLabels
      <3> HIDE DEF label
      <3> QED BY <2>1, <3>1, <3>3, <1>m
    <2> QED BY <2>2, <2>3
  <1>6. CASE RequireApprovalGate(t) \/ PolicyRequiresApproval(t)
    <2> DEFINE new == Transitioned(rec, "awaiting_approval", "awaiting_approval")
    <2>1. pc[t] = "gate" /\ SaveAndEmit(t, new, "return") /\ UNCHANGED <<failures, executions>>
      BY <1>6 DEF RequireApprovalGate, PolicyRequiresApproval, At
    <2>2. RecordOK(rec) /\ rec.attempt = 0
      BY <2>1, <1>c, <1>d, <1>e DEF LabelOK
    <2>3. RecordOK(new)
      BY <2>2, <1>h, UnstartedMoveOK
    <2> QED BY <2>1, <2>3, <1>a, <1>e, <1>f, <1>s
  <1>7. CASE PolicyDenies(t)
    <2> DEFINE r == WithResult(rec, "error")
               new == Transitioned(r, "denied", "policy_denied")
    <2>1. pc[t] = "gate" /\ SaveAndEmit(t, new, "return") /\ UNCHANGED <<failures, executions>>
      BY <1>7 DEF PolicyDenies, At
    <2>2. RecordOK(rec) /\ rec.attempt = 0
      BY <2>1, <1>c, <1>d, <1>e DEF LabelOK
    <2>3. RecordOK(r) /\ r.attempt = 0
      BY <2>2, WithResultOK
    <2>4. RecordOK(new)
      BY <2>3, <1>h, UnstartedMoveOK
    <2> QED BY <2>1, <2>4, <1>a, <1>e, <1>f, <1>s
  <1>8. CASE PolicyAllows(t)
    <2> DEFINE new == AppendAudit(rec, "allowed", "pending", "pending")
    <2>1. /\ pc[t] = "gate" /\ SaveQuietly(t, new, "peer") /\ UNCHANGED <<failures, executions>>
          /\ rec.capability \notin RequireApproval
      BY <1>8 DEF PolicyAllows, At
    <2>2. rec \in TaskRecord /\ RecordOK(rec) /\ rec.status = "pending"
      BY <2>1, <1>c, <1>e DEF LabelOK
    <2> HIDE DEF rec
    <2>3. RecordOK(new)
      BY <2>2, <1>h, <1>i, AppendAuditOK
    <2>4. new.status = rec.status /\ new.capability = rec.capability /\ HasEntry(new, "allowed")
      <3>1. "allowed" \in AuditActions /\ "pending" \in AuditStatus
        BY <1>h, <1>i
      <3>2. new.status = rec.status
        BY <2>2, <3>1, AppendAuditOK
      <3>3. new.capability = rec.capability
        BY <2>2, <3>1, AppendAuditOK
      <3>4. HasEntry(new, "allowed")
        BY <2>2, <3>1, AppendAuditOK
      <3> QED BY <3>2, <3>3, <3>4
    <2> HIDE DEF new
    <2>5. LabelOK("peer", new)
      BY <2>1, <2>2, <2>4 DEF LabelOK, Cleared, ExecutableStatuses, RunningLabels, OwingLabels
    <2> QED BY <2>1, <2>3, <2>5, <1>a, <1>e, <1>s
  <1>9. CASE PeerSuggestions(t)
    <2> DEFINE new == AppendAudit(rec, "peer_suggestion_applied", "none", "none")
    <2>1. pc[t] = "peer" /\ ~emitting[t] /\ UNCHANGED <<queue, emitting, emitted, executions, calls>>
      BY <1>9 DEF PeerSuggestions, At
    <2>2. /\ rec \in TaskRecord /\ RecordOK(rec) /\ Cleared(rec) /\ rec.status \in ExecutableStatuses
      BY <2>1, <1>c, <1>e DEF LabelOK
    <2>3. ASSUME NEW r, Cleared(r), r.status \in ExecutableStatuses PROVE LabelOK("start", r)
      BY <2>3 DEF LabelOK, RunningLabels, OwingLabels
    <2>4. CASE Goto(t, "start") /\ UNCHANGED <<store, task, tid, failures>>
      BY <2>1, <2>2, <2>3, <2>4, <1>e, <1>m, <1>t
    <2>5. CASE /\ store' = [store EXCEPT ![tid[t]] = new] /\ task' = [task EXCEPT ![t] = new]
               /\ Goto(t, "start") /\ UNCHANGED <<tid, failures>>
      <3> HIDE DEF rec
      <3>1. RecordOK(new) /\ Cleared(new)
        BY <2>2, <1>h, <1>i, AppendAuditOK
      <3>2. new.status = rec.status
        BY <2>2, <1>h, <1>i, AppendAuditOK
      <3> HIDE DEF new
      <3>3. SaveQuietly(t, new, "start")
        BY <2>1, <2>5 DEF SaveQuietly, Save
      <3>4. failures' = failures /\ executions' = executions
        BY <2>1, <2>5
      <3> QED BY <2>1, <2>2, <2>3, <3>1, <3>2, <3>3, <3>4, <1>a, <1>e, <1>s
    <2>6. CASE Return(t) /\ UNCHANGED store
      BY <2>1, <2>6, <1>r
    <2> QED BY <1>9, <2>4, <2>5, <2>6 DEF PeerSuggestions
  <1>10. CASE Start(t)
    <2> DEFINE new == StartedRecord(rec)
    <2>1. /\ pc[t] = "start" /\ SaveAndEmit(t, new, "execute")
          /\ failures' = [failures EXCEPT ![t] = 0]
          /\ executions' = [executions EXCEPT ![tid[t]] = @ + 1]
      BY <1>10 DEF Start, At, StartedRecord, NextAttempt
    <2>2. RecordOK(rec) /\ Cleared(rec) /\ rec.status \in ExecutableStatuses
      BY <2>1, <1>c, <1>e DEF LabelOK
    <2>3. RecordOK(new) /\ new.status = "running"
      BY <2>2, StartedRecordOK
    <2>4. failures' \in [Threads -> Nat] /\ executions' \in [Tasks -> Nat]
      BY <2>1, <1>a, <1>b
    <2> HIDE DEF new
    <2> QED BY <2>1, <2>3, <2>4, <1>e, <1>g, <1>s
  <1>11. RecordOK(rec) /\ rec.attempt > 0 =>
            /\ RecordOK(CompletedRecord(rec)) /\ CompletedRecord(rec).status = "completed"
            /\ RecordOK(EscalatedRecord(rec))
            /\ RecordOK(Transitioned(WithResult(rec, "error"), "failed", "failed"))
    <2> SUFFICES ASSUME RecordOK(rec), rec.attempt > 0
                 PROVE  /\ RecordOK(CompletedRecord(rec)) /\ CompletedRecord(rec).status = "completed"
                        /\ RecordOK(EscalatedRecord(rec))
                        /\ RecordOK(Transitioned(WithResult(rec, "error"), "failed", "failed"))
      OBVIOUS
    <2>1. /\ RecordOK(WithResult(rec, "success")) /\ WithResult(rec, "success").attempt > 0
          /\ RecordOK(WithResult(rec, "error")) /\ WithResult(rec, "error").attempt > 0
      BY WithResultOK
    <2>2. WithResult(rec, "success") \in TaskRecord /\ "completed" \in TaskStatus
      BY <2>1 DEF RecordOK, TaskStatus
    <2>3. RecordOK(CompletedRecord(rec))
      BY <2>1, <1>h, StartedMoveOK DEF CompletedRecord
    <2>4. CompletedRecord(rec).status = "completed"
      BY <2>2, <1>h, TransitionedFacts DEF CompletedRecord
    <2>5. RecordOK(EscalatedRecord(rec))
      BY <2>1, <1>h, StartedMoveOK DEF EscalatedRecord
    <2>6. RecordOK(Transitioned(WithResult(rec, "error"), "failed", "failed"))
      BY <2>1, <1>h, StartedMoveOK
    <2> QED BY <2>3, <2>4, <2>5, <2>6
  <1>12. CASE ExecuteSucceeds(t)
    <2> DEFINE new == CompletedRecord(rec)
    <2>1. /\ pc[t] = "execute" /\ SaveAndEmit(t, new, "publish_success")
          /\ UNCHANGED <<failures, executions>>
      BY <1>12 DEF ExecuteSucceeds, At
    <2>2. RecordOK(rec) /\ rec.attempt > 0
      BY <2>1, <1>c, <1>d, <1>e DEF LabelOK, RunningLabels, OwingLabels
    <2>3. RecordOK(new) /\ new.status = "completed"
      BY <2>2, <1>11
    <2> HIDE DEF new
    <2>4. LabelOK("publish_success", new)
      BY <2>3 DEF LabelOK
    <2> QED BY <2>1, <2>3, <2>4, <1>a, <1>e, <1>s
  <1>13. CASE ExecuteRaises(t)
    <2>1. /\ pc[t] = "execute" /\ Goto(t, "record_failure") /\ task' = task
          /\ UNCHANGED <<store, queue, tid, failures, emitting, emitted, executions, calls>>
      BY <1>13 DEF ExecuteRaises, At
    <2>2. RecordOK(rec) /\ rec.status \in {"running", "completed"}
      BY <2>1, <1>c, <1>e DEF LabelOK, RunningLabels, OwingLabels
    <2> QED BY <2>1, <2>2, <1>e, <1>g, <1>m, <1>t
  <1>14. CASE PublishSuccess(t)
    <2>1. /\ pc[t] = "publish_success" /\ ~emitting[t]
          /\ UNCHANGED <<store, queue, emitting, emitted, executions, calls>>
      BY <1>14 DEF PublishSuccess, At
    <2>2. RecordOK(rec) /\ rec.status \in {"running", "completed"}
      BY <2>1, <1>c, <1>e DEF LabelOK, RunningLabels, OwingLabels
    <2>3. CASE Return(t)
      BY <2>1, <2>3, <1>r
    <2>4. CASE Goto(t, "record_failure") /\ UNCHANGED <<tid, task, failures>>
      BY <2>1, <2>2, <2>4, <1>e, <1>g, <1>m, <1>t
    <2> QED BY <1>14, <2>3, <2>4 DEF PublishSuccess
  <1>15. CASE RecordFailure(t)
    <2> DEFINE new == AppendAudit(rec, "failure_recorded", "none", "none")
    <2>1. /\ pc[t] = "record_failure" /\ SaveQuietly(t, new, "decide")
          /\ failures' = [failures EXCEPT ![t] = @ + 1] /\ UNCHANGED executions
      BY <1>15 DEF RecordFailure, At
    <2>2. rec \in TaskRecord /\ RecordOK(rec) /\ rec.status \in {"running", "completed"}
      BY <2>1, <1>c, <1>e DEF LabelOK, RunningLabels, OwingLabels
    <2> HIDE DEF rec
    <2>3. RecordOK(new)
      BY <2>2, <1>h, <1>i, AppendAuditOK
    <2>4. new.status = rec.status
      BY <2>2, <1>h, <1>i, AppendAuditOK
    <2>5. failures' \in [Threads -> Nat] /\ executions' \in [Tasks -> Nat]
      BY <2>1, <1>a
    <2> HIDE DEF new
    <2> QED BY <2>1, <2>2, <2>3, <2>4, <2>5, <1>e, <1>g, <1>s
  <1>16. CASE EscalateExhausted(t)
    <2>1. /\ pc[t] = "decide" /\ SaveAndEmit(t, EscalatedRecord(rec), "publish_escalated")
          /\ UNCHANGED <<failures, executions>>
      BY <1>16 DEF EscalateExhausted, At
    <2>2. RecordOK(rec) /\ rec.attempt > 0
      BY <2>1, <1>c, <1>d, <1>e DEF LabelOK, RunningLabels, OwingLabels
    <2>3. RecordOK(EscalatedRecord(rec))
      BY <2>2, <1>11
    <2> QED BY <2>1, <2>3, <1>a, <1>e, <1>f, <1>s
  <1>17. CASE GiveUp(t)
    <2>1. /\ pc[t] = "decide" /\ Goto(t, "publish_failed") /\ task' = task
          /\ UNCHANGED <<store, queue, tid, failures, emitting, emitted, executions, calls>>
      BY <1>17 DEF GiveUp, At
    <2>2. RecordOK(rec) /\ rec.status \in {"running", "completed"}
      BY <2>1, <1>c, <1>e DEF LabelOK, RunningLabels, OwingLabels
    <2> QED BY <2>1, <2>2, <1>e, <1>g, <1>m, <1>t
  <1>18. CASE EscalateInsteadOfRetry(t)
    <2> DEFINE r == NextAttempt(rec)
               new == EscalatedRecord(r)
    <2>1. /\ pc[t] = "decide" /\ SaveAndEmit(t, new, "publish_escalated")
          /\ UNCHANGED <<failures, executions>> /\ ShouldRetry(rec)
      BY <1>18 DEF EscalateInsteadOfRetry, At
    <2>2. RecordOK(rec) /\ rec.attempt > 0
      BY <2>1, <1>c, <1>d, <1>e DEF LabelOK, RunningLabels, OwingLabels
    <2>3. RecordOK(r) /\ r.attempt > 0
      BY <2>1, <2>2, NextAttemptOK
    <2>4. RecordOK(WithResult(r, "error")) /\ WithResult(r, "error").attempt > 0
      BY <2>3, WithResultOK
    <2>5. RecordOK(new)
      BY <2>4, <1>h, StartedMoveOK DEF EscalatedRecord
    <2> QED BY <2>1, <2>5, <1>a, <1>e, <1>f, <1>s
  <1>19. CASE Retry(t)
    <2> DEFINE r == NextAttempt(rec)
               new == AppendAudit(r, "retry", "running", "running")
    <2>1. /\ pc[t] = "decide" /\ SaveAndEmit(t, new, "execute") /\ ShouldRetry(rec)
          /\ executions' = [executions EXCEPT ![tid[t]] = @ + 1] /\ UNCHANGED failures
      BY <1>19 DEF Retry, At
    <2>2. RecordOK(rec) /\ rec.attempt > 0 /\ rec.status \in {"running", "completed"}
      BY <2>1, <1>c, <1>d, <1>e DEF LabelOK, RunningLabels, OwingLabels
    <2>3. RecordOK(r) /\ r \in TaskRecord /\ r.status \in {"running", "completed"}
      BY <2>1, <2>2, NextAttemptOK DEF RecordOK
    <2>4. RecordOK(new)
      BY <2>3, <1>h, <1>i, AppendAuditOK
    <2>5. new.status = r.status
      BY <2>3, <1>h, <1>i, AppendAuditOK
    <2>6. failures' \in [Threads -> Nat] /\ executions' \in [Tasks -> Nat]
      BY <2>1, <1>a, <1>b
    <2> HIDE DEF new
    <2> HIDE DEF r
    <2> QED BY <2>1, <2>3, <2>4, <2>5, <2>6, <1>e, <1>g, <1>s
  <1>20. CASE PublishEscalated(t)
    BY <1>20, <1>r DEF PublishEscalated, At
  <1>21. CASE PublishFailed(t)
    <2>1. /\ pc[t] = "publish_failed" /\ ~emitting[t]
          /\ UNCHANGED <<store, queue, emitting, emitted, executions, calls>>
      BY <1>21 DEF PublishFailed, At
    <2>2. RecordOK(rec) /\ rec.status \in {"running", "completed"}
      BY <2>1, <1>c, <1>e DEF LabelOK, RunningLabels, OwingLabels
    <2>3. CASE Return(t)
      BY <2>1, <2>3, <1>r
    <2>4. CASE Goto(t, "fail") /\ UNCHANGED <<tid, task, failures>>
      BY <2>1, <2>2, <2>4, <1>e, <1>g, <1>m, <1>t
    <2> QED BY <1>21, <2>3, <2>4 DEF PublishFailed
  <1>22. CASE Fail(t)
    <2> DEFINE new == Transitioned(WithResult(rec, "error"), "failed", "failed")
    <2>1. pc[t] = "fail" /\ SaveAndEmit(t, new, "return") /\ UNCHANGED <<failures, executions>>
      BY <1>22 DEF Fail, At
    <2>2. RecordOK(rec) /\ rec.attempt > 0
      BY <2>1, <1>c, <1>d, <1>e DEF LabelOK, RunningLabels, OwingLabels
    <2>3. RecordOK(new)
      BY <2>2, <1>11
    <2> QED BY <2>1, <2>3, <1>a, <1>e, <1>f, <1>s
  <1>23. CASE SaveRaises(t)
    <2>1. ~emitting[t] /\ UNCHANGED <<store, queue, emitting, emitted, executions, calls>>
      BY <1>23 DEF SaveRaises, At
    <2>2. CASE Return(t)
      BY <2>1, <2>2, <1>r
    <2>3. CASE /\ pc[t] = "execute" /\ task' = [task EXCEPT ![t] = CompletedRecord(@)]
               /\ Goto(t, "record_failure") /\ UNCHANGED <<tid, failures>>
      <3>1. RecordOK(rec) /\ rec.attempt > 0
        BY <2>3, <1>c, <1>d, <1>e DEF LabelOK, RunningLabels, OwingLabels
      <3>2. RecordOK(CompletedRecord(rec)) /\ CompletedRecord(rec).status = "completed"
        BY <3>1, <1>11
      <3>3. task' = [task EXCEPT ![t] = CompletedRecord(rec)]
        BY <2>3
      <3>4. LabelOK("record_failure", CompletedRecord(rec))
        BY <3>2, <1>g
      <3>5. "record_failure" \in Labels \ {"idle"} /\ pc[t] # "idle"
        BY <2>3, <1>e
      <3> QED BY <2>1, <2>3, <3>2, <3>3, <3>4, <3>5, <1>m
    <2> QED BY <1>23, <2>2, <2>3 DEF SaveRaises, At
  <1> QED
    BY <1>1, <1>2, <1>3, <1>4, <1>5, <1>6, <1>7, <1>8, <1>9, <1>10, <1>12, <1>13, <1>14,
       <1>15, <1>16, <1>17, <1>18, <1>19, <1>20, <1>21, <1>22, <1>23 DEF Step

(* Every step keeps records and labels good. *)
LEMMA NextPreservesInv == SupervisorInv /\ [Next]_vars => SupervisorInv'
  <1> SUFFICES ASSUME SupervisorInv, [Next]_vars PROVE SupervisorInv'
    OBVIOUS
  <1>1. CASE UNCHANGED vars
    BY <1>1 DEF vars, SupervisorInv, TypeOK, RecordOK, LabelOK
  <1> QED BY <1>1, EnterPreservesInv, StepPreservesInv, CrashPreservesInv DEF Next

(* Every reachable state of the supervisor is well typed and well recorded, *)
(* whatever the callers do and whichever collaborator fails.                *)
THEOREM SupervisorInvariant == Spec => []SupervisorInv
  BY InitInv, NextPreservesInv, PTL DEF Spec

(* Type correctness of the supervisor: no call ever acts on a record it did *)
(* not load, and the queue only holds stored tasks.                         *)
THEOREM TypeCorrect == Spec => []TypeOK
  <1>1. SupervisorInv => TypeOK
    BY DEF SupervisorInv
  <1> QED BY <1>1, SupervisorInvariant, PTL

(* No capability is executed for a task that was neither approved nor       *)
(* allowed by policy, under every interleaving of stale saves, crashes and  *)
(* failures of the collaborators.                                           *)
THEOREM ClearanceTheorem == Spec => []ClearedBeforeExecution
  <1>1. SupervisorInv => ClearedBeforeExecution
    <2> SUFFICES ASSUME SupervisorInv PROVE ClearedBeforeExecution
      OBVIOUS
    <2>1. ASSUME NEW t \in Threads, pc[t] \in RunningLabels \cup {"start"}
          PROVE  Cleared(task[t])
      <3>1. task[t] \in TaskRecord /\ RecordOK(task[t]) /\ LabelOK(pc[t], task[t])
        BY <2>1, NoTaskIsNone DEF SupervisorInv, TypeOK, LoadedLabels
      <3>2. CASE pc[t] = "start"
        BY <3>1, <3>2 DEF LabelOK
      <3>3. CASE pc[t] \in RunningLabels
        <4>1. task[t].status \in {"running", "completed"} /\ task[t].attempt \in Nat
          BY <3>1, <3>3 DEF LabelOK, TaskRecord
        <4>2. task[t].attempt > 0
          BY <3>1, <4>1 DEF RecordOK, WithinBudget
        <4> QED BY <3>1, <4>2 DEF RecordOK
      <3> QED BY <2>1, <3>2, <3>3
    <2>2. \A k \in Tasks : store[k] # NoTask /\ store[k].attempt > 0 => Cleared(store[k])
      BY DEF SupervisorInv, RecordOK
    <2> QED BY <2>1, <2>2 DEF ClearedBeforeExecution
  <1> QED BY <1>1, SupervisorInvariant, PTL

(* No record counts more attempts than its budget allows. *)
THEOREM BudgetTheorem == Spec => []AttemptBudget
  <1>1. SupervisorInv => AttemptBudget
    BY DEF SupervisorInv, AttemptBudget, RecordOK
  <1> QED BY <1>1, SupervisorInvariant, PTL

-----------------------------------------------------------------------------
(* What a step does, seen from outside *)

(* Every save a call makes, as one row: the label it is made at, the action *)
(* it audits, the to_status of the entry, by how much it raises attempt, and *)
(* the label the call goes on at.                                           *)
Saves == {[at |-> "approve_run", action |-> "approved", to |-> "approved", more |-> 0, label |-> "run_task"],
          [at |-> "approve_queue", action |-> "approved", to |-> "approved", more |-> 0, label |-> "enqueue"],
          [at |-> "cancel", action |-> "cancelled", to |-> "cancelled", more |-> 0, label |-> "return"],
          [at |-> "gate", action |-> "awaiting_approval", to |-> "awaiting_approval", more |-> 0, label |-> "return"],
          [at |-> "gate", action |-> "denied", to |-> "policy_denied", more |-> 0, label |-> "return"],
          [at |-> "gate", action |-> "allowed", to |-> "pending", more |-> 0, label |-> "peer"],
          [at |-> "peer", action |-> "peer_suggestion_applied", to |-> "none", more |-> 0, label |-> "start"],
          [at |-> "start", action |-> "started", to |-> "running", more |-> 1, label |-> "execute"],
          [at |-> "execute", action |-> "completed", to |-> "completed", more |-> 0, label |-> "publish_success"],
          [at |-> "record_failure", action |-> "failure_recorded", to |-> "none", more |-> 0, label |-> "decide"],
          [at |-> "decide", action |-> "retry", to |-> "running", more |-> 1, label |-> "execute"],
          [at |-> "decide", action |-> "escalated", to |-> "escalated", more |-> 0, label |-> "publish_escalated"],
          [at |-> "decide", action |-> "escalated", to |-> "escalated", more |-> 1, label |-> "publish_escalated"],
          [at |-> "fail", action |-> "failed", to |-> "failed", more |-> 0, label |-> "return"]}

(* new is rec with one more audit entry.  A retry audits RUNNING without    *)
(* setting the status, which matters when the record is already COMPLETED.  *)
Recorded(rec, new, row) ==
    /\ new \in TaskRecord
    /\ new.attempt = rec.attempt + row.more
    /\ new.max_retries = rec.max_retries
    /\ \E from \in AuditStatus :
          /\ new.audit_trail = Append(rec.audit_trail, Entry(row.action, from, row.to))
          /\ row.action \notin {"retry", "peer_suggestion_applied", "failure_recorded"} =>
                from = rec.status
          /\ row.action = "retry" => from = "running"
    /\ new.status = IF row.action \in {"retry", "peer_suggestion_applied", "failure_recorded"}
                    THEN rec.status ELSE row.to

SaveStep(t) ==
    \E row \in Saves, new \in TaskRecord :
       /\ pc[t] = row.at
       /\ Save(t, new, row.label)
       /\ Recorded(task[t], new, row)
       /\ executions' = IF row.label = "execute"
                        THEN [executions EXCEPT ![tid[t]] = @ + 1] ELSE executions
       /\ failures' = [failures EXCEPT ![t] = IF row.at = "start" THEN 0
                                              ELSE IF row.at = "record_failure" THEN @ + 1 ELSE @]
       /\ row.more = 1 /\ row.at = "decide" => ShouldRetry(task[t])
       /\ ~emitting[t]
       /\ emitting' = IF row.action \in SilentActions THEN emitting
                      ELSE [emitting EXCEPT ![t] = TRUE]
       /\ UNCHANGED emitted

(* A call moves on without a save. *)
Moves == {<<"peer", "start">>, <<"execute", "record_failure">>,
          <<"decide", "publish_failed">>, <<"publish_failed", "fail">>}

MoveStep(t) ==
    /\ \E m \in Moves : pc[t] = m[1] /\ pc' = [pc EXCEPT ![t] = m[2]]
    /\ UNCHANGED <<store, tid, task, failures, executions, emitting, emitted>>

LoadStep(t) ==
    /\ pc[t] = "run_task"
    /\ store[tid[t]].status \in ExecutableStatuses
    /\ task' = [task EXCEPT ![t] = store[tid[t]]]
    /\ pc' = [pc EXCEPT ![t] = IF store[tid[t]].status = "pending" THEN "gate" ELSE "peer"]
    /\ UNCHANGED <<store, tid, failures, executions, emitting, emitted>>

ReturnStep(t) ==
    /\ Return(t)
    /\ pc[t] \in OwingLabels => Faults \cap {"guild", "save"} # {}
    /\ EmitEvent(t) \/ (~emitting[t] /\ UNCHANGED <<emitting, emitted>>)
    /\ UNCHANGED <<store, executions>>

(* An exception raised after the capability has succeeded. *)
LateFailureStep(t) ==
    /\ Faults \cap {"guild", "save"} # {}
    /\ pc[t] \in {"execute", "publish_success"}
    /\ pc' = [pc EXCEPT ![t] = "record_failure"]
    /\ \/ task' = task
       \/ /\ "save" \in Faults
          /\ task' = [task EXCEPT ![t] = CompletedRecord(@)]
    /\ pc[t] = "publish_success" => task' = task
    /\ UNCHANGED <<store, tid, failures, executions, emitting, emitted>>

(* An event is emitted and the call goes on. *)
QuietStep(t) == EmitEvent(t) /\ UNCHANGED <<store, pc, tid, task, failures, executions>>

(* How the trail of a record grows, for each way in which a step builds a   *)
(* new record.                                                              *)
LEMMA AppendRecorded ==
    ASSUME NEW rec \in TaskRecord, NEW a \in AuditActions,
           NEW from \in AuditStatus, NEW to \in AuditStatus
    PROVE  AppendAudit(rec, a, from, to).audit_trail = Append(rec.audit_trail, Entry(a, from, to))
  <1> DEFINE s == Append(rec.audit_trail, Entry(a, from, to))
  <1>1. AppendAudit(rec, a, from, to) = [rec EXCEPT !.audit_trail = s]
    BY DEF AppendAudit
  <1> HIDE DEF s
  <1>2. [rec EXCEPT !.audit_trail = s].audit_trail = s
    BY DEF TaskRecord
  <1> QED BY <1>1, <1>2 DEF s

(* A transition appends one entry to the trail. *)
LEMMA TransitionedRecorded ==
    ASSUME NEW rec \in TaskRecord, NEW a \in AuditActions, NEW to \in TaskStatus
    PROVE  Transitioned(rec, a, to).audit_trail = Append(rec.audit_trail, Entry(a, rec.status, to))
  <1> DEFINE r == AppendAudit(rec, a, rec.status, to)
  <1>1. rec.status \in AuditStatus /\ to \in AuditStatus
    BY DEF TaskRecord, AuditStatus
  <1>2. r.audit_trail = Append(rec.audit_trail, Entry(a, rec.status, to)) /\ r \in TaskRecord
    BY <1>1, AppendRecorded, AppendAuditFacts
  <1>3. Transitioned(rec, a, to) = [r EXCEPT !.status = to]
    BY DEF Transitioned
  <1> HIDE DEF r
  <1>4. [r EXCEPT !.status = to].audit_trail = r.audit_trail
    BY <1>2 DEF TaskRecord
  <1> QED BY <1>2, <1>3, <1>4

(* Results and attempts leave the trail alone. *)
LEMMA FieldTrails ==
    ASSUME NEW rec \in TaskRecord, NEW r \in {"none", "success", "error"}
    PROVE  /\ WithResult(rec, r).audit_trail = rec.audit_trail
           /\ NextAttempt(rec).audit_trail = rec.audit_trail
  BY DEF WithResult, NextAttempt, TaskRecord

(* A transition of a record whose fields were touched first. *)
LEMMA RecordedTransition ==
    ASSUME NEW rec \in TaskRecord, NEW r \in TaskRecord, NEW row,
           row.action \in AuditActions, row.to \in TaskStatus, row.more \in Nat,
           row.action \notin {"retry", "peer_suggestion_applied", "failure_recorded"},
           r.attempt = rec.attempt + row.more, r.max_retries = rec.max_retries,
           r.status = rec.status, r.audit_trail = rec.audit_trail
    PROVE  /\ Recorded(rec, Transitioned(r, row.action, row.to), row)
           /\ Transitioned(r, row.action, row.to) \in TaskRecord
  <1> DEFINE new == Transitioned(r, row.action, row.to)
  <1>1. /\ new \in TaskRecord /\ new.status = row.to /\ new.attempt = r.attempt
        /\ new.max_retries = r.max_retries
    BY TransitionedFacts
  <1>2. new.audit_trail = Append(r.audit_trail, Entry(row.action, r.status, row.to))
    BY TransitionedRecorded
  <1>3. r.status \in AuditStatus
    BY DEF TaskRecord, AuditStatus
  <1> HIDE DEF new
  <1>4. Recorded(rec, new, row)
    BY <1>1, <1>2, <1>3 DEF Recorded
  <1> QED BY <1>1, <1>4 DEF new

(* An audit entry alone. *)
LEMMA RecordedAppend ==
    ASSUME NEW rec \in TaskRecord, NEW r \in TaskRecord, NEW row, NEW from \in AuditStatus,
           row.action \in AuditActions, row.to \in AuditStatus, row.more \in Nat,
           row.action \notin {"retry", "peer_suggestion_applied", "failure_recorded"} =>
              from = rec.status /\ row.to = rec.status,
           row.action = "retry" => from = "running",
           r.attempt = rec.attempt + row.more, r.max_retries = rec.max_retries,
           r.status = rec.status, r.audit_trail = rec.audit_trail
    PROVE  /\ Recorded(rec, AppendAudit(r, row.action, from, row.to), row)
           /\ AppendAudit(r, row.action, from, row.to) \in TaskRecord
  <1> DEFINE new == AppendAudit(r, row.action, from, row.to)
  <1>1. /\ new \in TaskRecord /\ new.status = r.status /\ new.attempt = r.attempt
        /\ new.max_retries = r.max_retries
    BY AppendAuditFacts
  <1>2. new.audit_trail = Append(r.audit_trail, Entry(row.action, from, row.to))
    BY AppendRecorded
  <1> HIDE DEF new
  <1>4. Recorded(rec, new, row)
    BY <1>1, <1>2 DEF Recorded
  <1> QED BY <1>1, <1>4 DEF new

(* Every step of a call is of one of six kinds. *)
LEMMA StepKinds ==
    ASSUME SupervisorInv, NEW t \in Threads, Step(t)
    PROVE  \/ SaveStep(t) \/ MoveStep(t) \/ LoadStep(t) \/ ReturnStep(t)
           \/ LateFailureStep(t) \/ QuietStep(t)
  <1> DEFINE rec == task[t]
  <1>a. TypeOK
    BY DEF SupervisorInv
  <1>b. pc[t] \in LoadedLabels => rec \in TaskRecord /\ rec.attempt \in Nat
    BY <1>a DEF TypeOK, TaskRecord
  <1>e. LoadedLabels = {"execute", "record_failure", "decide", "publish_failed", "fail",
               "publish_success", "gate", "peer", "start", "approve_run", "approve_queue",
               "cancel", "publish_escalated", "return"}
    BY DEF LoadedLabels, RunningLabels, OwingLabels
  <1>f. \A row \in Saves : /\ row.action \in AuditActions /\ row.to \in AuditStatus
                           /\ row.more \in {0, 1}
                           /\ row.to # "none" => row.to \in TaskStatus
    BY DEF Saves, AuditActions, AuditStatus, TaskStatus
  <1>o. OwingLabels = {"execute", "record_failure", "decide", "publish_failed", "fail"}
    BY DEF OwingLabels
  <1>g. /\ failures = [failures EXCEPT ![t] = failures[t]]
        /\ failures = [failures EXCEPT ![t] = @]
    BY <1>a DEF TypeOK
  <1>r. pc[t] \in LoadedLabels =>
           /\ \A v \in {"none", "success", "error"} :
                 /\ WithResult(rec, v) \in TaskRecord /\ WithResult(rec, v).status = rec.status
                 /\ WithResult(rec, v).attempt = rec.attempt
                 /\ WithResult(rec, v).max_retries = rec.max_retries
                 /\ WithResult(rec, v).audit_trail = rec.audit_trail
           /\ NextAttempt(rec) \in TaskRecord /\ NextAttempt(rec).status = rec.status
           /\ NextAttempt(rec).attempt = rec.attempt + 1
           /\ NextAttempt(rec).max_retries = rec.max_retries
           /\ NextAttempt(rec).audit_trail = rec.audit_trail
    BY <1>b, FieldFacts, FieldTrails
  \* A step that saves what a row says.
  <1>s. ASSUME NEW row \in Saves, NEW new \in TaskRecord, pc[t] = row.at,
               \/ SaveAndEmit(t, new, row.label) /\ row.action \notin SilentActions
               \/ SaveQuietly(t, new, row.label) /\ row.action \in SilentActions,
               Recorded(rec, new, row),
               executions' = IF row.label = "execute"
                             THEN [executions EXCEPT ![tid[t]] = @ + 1] ELSE executions,
               failures' = [failures EXCEPT ![t] = IF row.at = "start" THEN 0
                                                   ELSE IF row.at = "record_failure" THEN @ + 1 ELSE @],
               row.more = 1 /\ row.at = "decide" => ShouldRetry(rec),
               ~emitting[t]
        PROVE  SaveStep(t)
    BY <1>s DEF SaveStep, SaveAndEmit, SaveQuietly
  <1>1. CASE EmitEvent(t)
    <2>1. CASE pc[t] = "return"
      <3>1. Return(t) /\ UNCHANGED <<store, executions>>
        BY <1>1, <2>1 DEF EmitEvent
      <3>2. pc[t] \notin OwingLabels
        BY <2>1, <1>o
      <3> QED BY <1>1, <3>1, <3>2 DEF ReturnStep
    <2>2. CASE pc[t] # "return"
      <3>1. UNCHANGED <<store, pc, tid, task, failures, executions>>
        BY <1>1, <2>2 DEF EmitEvent
      <3> QED BY <1>1, <3>1 DEF QuietStep
    <2> QED BY <2>1, <2>2
  <1>2. CASE Enqueue(t)
    BY <1>2, <1>o DEF Enqueue, ReturnStep, At
  <1>3. CASE Approve(t)
    <2>1. PICK row \in Saves : /\ row.action = "approved" /\ row.to = "approved" /\ row.more = 0
                               /\ pc[t] = row.at /\ ~emitting[t] /\ row.at \in {"approve_run", "approve_queue"}
                               /\ SaveAndEmit(t, Transitioned(rec, row.action, row.to), row.label)
                               /\ row.label \in {"run_task", "enqueue"}
                               /\ UNCHANGED <<failures, executions>>
      BY <1>3 DEF Approve, At, Saves
    <2>2. /\ Recorded(rec, Transitioned(rec, row.action, row.to), row)
          /\ Transitioned(rec, row.action, row.to) \in TaskRecord
      BY <2>1, <1>b, <1>e, <1>f, RecordedTransition
    <2> QED BY <2>1, <2>2, <1>g, <1>s DEF SilentActions
  <1>4. CASE CancelTask(t)
    <2> DEFINE row == [at |-> "cancel", action |-> "cancelled", to |-> "cancelled", more |-> 0, label |-> "return"]
               r == WithResult(rec, "error")
    <2>1. row \in Saves
      BY DEF Saves
    <2>2. /\ pc[t] = "cancel" /\ ~emitting[t] /\ SaveAndEmit(t, Transitioned(r, row.action, row.to), row.label)
          /\ UNCHANGED <<failures, executions>>
      BY <1>4 DEF CancelTask, At
    <2>3. /\ Recorded(rec, Transitioned(r, row.action, row.to), row)
          /\ Transitioned(r, row.action, row.to) \in TaskRecord
      BY <2>1, <2>2, <1>b, <1>e, <1>f, <1>r, RecordedTransition
    <2> QED BY <2>1, <2>2, <2>3, <1>g, <1>s DEF SilentActions
  <1>5. CASE LoadTask(t)
    BY <1>5, <1>o DEF LoadTask, LoadStep, ReturnStep, At, Goto
  <1>h. {"none", "pending", "running"} \subseteq AuditStatus
    BY DEF AuditStatus, TaskStatus
  <1>6. CASE RequireApprovalGate(t) \/ PolicyRequiresApproval(t)
    <2> DEFINE row == [at |-> "gate", action |-> "awaiting_approval", to |-> "awaiting_approval", more |-> 0, label |-> "return"]
    <2>1. row \in Saves
      BY DEF Saves
    <2>2. /\ pc[t] = "gate" /\ ~emitting[t] /\ SaveAndEmit(t, Transitioned(rec, row.action, row.to), row.label)
          /\ UNCHANGED <<failures, executions>>
      BY <1>6 DEF RequireApprovalGate, PolicyRequiresApproval, At
    <2>3. /\ Recorded(rec, Transitioned(rec, row.action, row.to), row)
          /\ Transitioned(rec, row.action, row.to) \in TaskRecord
      BY <2>1, <2>2, <1>b, <1>e, <1>f, <1>r, RecordedTransition
    <2> QED BY <2>1, <2>2, <2>3, <1>g, <1>s DEF SilentActions
  <1>7. CASE PolicyDenies(t)
    <2> DEFINE row == [at |-> "gate", action |-> "denied", to |-> "policy_denied", more |-> 0, label |-> "return"]
               r == WithResult(rec, "error")
    <2>1. row \in Saves
      BY DEF Saves
    <2>2. /\ pc[t] = "gate" /\ ~emitting[t] /\ SaveAndEmit(t, Transitioned(r, row.action, row.to), row.label)
          /\ UNCHANGED <<failures, executions>>
      BY <1>7 DEF PolicyDenies, At
    <2>3. /\ Recorded(rec, Transitioned(r, row.action, row.to), row)
          /\ Transitioned(r, row.action, row.to) \in TaskRecord
      BY <2>1, <2>2, <1>b, <1>e, <1>f, <1>r, RecordedTransition
    <2> QED BY <2>1, <2>2, <2>3, <1>g, <1>s DEF SilentActions
  <1>8. CASE PolicyAllows(t)
    <2> DEFINE row == [at |-> "gate", action |-> "allowed", to |-> "pending", more |-> 0, label |-> "peer"]
    <2>1. row \in Saves
      BY DEF Saves
    <2>2. /\ pc[t] = "gate" /\ ~emitting[t] /\ SaveQuietly(t, AppendAudit(rec, row.action, "pending", row.to), row.label)
          /\ UNCHANGED <<failures, executions>>
      BY <1>8 DEF PolicyAllows, At
    <2>4. rec.status = "pending"
      BY <2>2 DEF SupervisorInv, LabelOK
    <2>3. /\ Recorded(rec, AppendAudit(rec, row.action, "pending", row.to), row)
          /\ AppendAudit(rec, row.action, "pending", row.to) \in TaskRecord
      BY <2>1, <2>2, <2>4, <1>b, <1>e, <1>f, <1>r, <1>h, RecordedAppend, SMTT(30)
    <2> QED BY <2>1, <2>2, <2>3, <1>g, <1>s DEF SilentActions
  <1>9. CASE PeerSuggestions(t)
    <2> DEFINE row == [at |-> "peer", action |-> "peer_suggestion_applied", to |-> "none", more |-> 0, label |-> "start"]
               new == AppendAudit(rec, row.action, "none", row.to)
    <2>1. row \in Saves
      BY DEF Saves
    <2>2. pc[t] = "peer" /\ ~emitting[t] /\ UNCHANGED <<queue, emitting, emitted, executions, calls>>
      BY <1>9 DEF PeerSuggestions, At
    <2>3. Recorded(rec, new, row) /\ new \in TaskRecord
      BY <2>1, <2>2, <1>b, <1>e, <1>f, <1>h, RecordedAppend
    <2>4. CASE Goto(t, "start") /\ UNCHANGED <<store, task, tid, failures>>
      BY <2>2, <2>4 DEF MoveStep, Moves, Goto
    <2>5. CASE /\ store' = [store EXCEPT ![tid[t]] = new] /\ task' = [task EXCEPT ![t] = new]
               /\ Goto(t, "start") /\ UNCHANGED <<tid, failures>>
      <3>1. SaveQuietly(t, new, row.label) /\ UNCHANGED <<failures, executions>>
        BY <2>2, <2>5 DEF SaveQuietly, Save
      <3> QED BY <2>1, <2>2, <2>3, <3>1, <1>g, <1>s DEF SilentActions
    <2>6. CASE Return(t) /\ UNCHANGED store
      BY <2>2, <2>6, <1>o DEF ReturnStep
    <2> QED BY <1>9, <2>4, <2>5, <2>6 DEF PeerSuggestions
  <1>10. CASE Start(t)
    <2> DEFINE row == [at |-> "start", action |-> "started", to |-> "running", more |-> 1, label |-> "execute"]
               r == NextAttempt(rec)
    <2>1. row \in Saves
      BY DEF Saves
    <2>2. /\ pc[t] = "start" /\ ~emitting[t] /\ SaveAndEmit(t, Transitioned(r, row.action, row.to), row.label)
          /\ failures' = [failures EXCEPT ![t] = 0]
          /\ executions' = [executions EXCEPT ![tid[t]] = @ + 1]
      BY <1>10 DEF Start, At, NextAttempt
    <2>3. /\ Recorded(rec, Transitioned(r, row.action, row.to), row)
          /\ Transitioned(r, row.action, row.to) \in TaskRecord
      BY <2>1, <2>2, <1>b, <1>e, <1>f, <1>r, RecordedTransition
    <2> QED BY <2>1, <2>2, <2>3, <1>g, <1>s DEF SilentActions
  <1>11. CASE ExecuteSucceeds(t)
    <2> DEFINE row == [at |-> "execute", action |-> "completed", to |-> "completed", more |-> 0, label |-> "publish_success"]
               r == WithResult(rec, "success")
    <2>1. row \in Saves
      BY DEF Saves
    <2>2. /\ pc[t] = "execute" /\ ~emitting[t] /\ SaveAndEmit(t, Transitioned(r, row.action, row.to), row.label)
          /\ UNCHANGED <<failures, executions>>
      BY <1>11 DEF ExecuteSucceeds, At, CompletedRecord
    <2>3. /\ Recorded(rec, Transitioned(r, row.action, row.to), row)
          /\ Transitioned(r, row.action, row.to) \in TaskRecord
      BY <2>1, <2>2, <1>b, <1>e, <1>f, <1>r, RecordedTransition, SMTT(30)
    <2> QED BY <2>1, <2>2, <2>3, <1>g, <1>s DEF SilentActions
  <1>12. CASE ExecuteRaises(t)
    BY <1>12 DEF ExecuteRaises, At, Goto, MoveStep, Moves
  <1>13. CASE PublishSuccess(t)
    BY <1>13, <1>o DEF PublishSuccess, At, Goto, ReturnStep, LateFailureStep
  <1>14. CASE RecordFailure(t)
    <2> DEFINE row == [at |-> "record_failure", action |-> "failure_recorded", to |-> "none", more |-> 0, label |-> "decide"]
    <2>1. row \in Saves
      BY DEF Saves
    <2>2. /\ pc[t] = "record_failure" /\ ~emitting[t] /\ SaveQuietly(t, AppendAudit(rec, row.action, "none", row.to), row.label)
          /\ failures' = [failures EXCEPT ![t] = @ + 1]
          /\ UNCHANGED executions
      BY <1>14 DEF RecordFailure, At
    <2>3. /\ Recorded(rec, AppendAudit(rec, row.action, "none", row.to), row)
          /\ AppendAudit(rec, row.action, "none", row.to) \in TaskRecord
      BY <2>1, <2>2, <1>b, <1>e, <1>f, <1>r, <1>h, RecordedAppend, SMTT(30)
    <2> QED BY <2>1, <2>2, <2>3, <1>g, <1>s DEF SilentActions
  <1>15. CASE EscalateExhausted(t)
    <2> DEFINE row == [at |-> "decide", action |-> "escalated", to |-> "escalated", more |-> 0, label |-> "publish_escalated"]
               r == WithResult(rec, "error")
    <2>1. row \in Saves
      BY DEF Saves
    <2>2. /\ pc[t] = "decide" /\ ~emitting[t] /\ SaveAndEmit(t, Transitioned(r, row.action, row.to), row.label)
          /\ UNCHANGED <<failures, executions>>
      BY <1>15 DEF EscalateExhausted, At, EscalatedRecord
    <2>3. /\ Recorded(rec, Transitioned(r, row.action, row.to), row)
          /\ Transitioned(r, row.action, row.to) \in TaskRecord
      BY <2>1, <2>2, <1>b, <1>e, <1>f, <1>r, RecordedTransition
    <2> QED BY <2>1, <2>2, <2>3, <1>g, <1>s DEF SilentActions
  <1>16. CASE GiveUp(t)
    BY <1>16 DEF GiveUp, At, Goto, MoveStep, Moves
  <1>17. CASE EscalateInsteadOfRetry(t)
    <2> DEFINE row == [at |-> "decide", action |-> "escalated", to |-> "escalated", more |-> 1, label |-> "publish_escalated"]
               r == WithResult(NextAttempt(rec), "error")
    <2>1. row \in Saves
      BY DEF Saves
    <2>2. /\ pc[t] = "decide" /\ ~emitting[t] /\ SaveAndEmit(t, Transitioned(r, row.action, row.to), row.label)
          /\ UNCHANGED <<failures, executions>> /\ ShouldRetry(rec)
      BY <1>17 DEF EscalateInsteadOfRetry, EscalatedRecord, At
    <2>3. /\ r \in TaskRecord /\ r.status = rec.status /\ r.attempt = rec.attempt + 1
          /\ r.max_retries = rec.max_retries /\ r.audit_trail = rec.audit_trail
      BY <2>2, <1>e, <1>r, FieldFacts, FieldTrails
    <2>4. /\ Recorded(rec, Transitioned(r, row.action, row.to), row)
          /\ Transitioned(r, row.action, row.to) \in TaskRecord
      BY <2>1, <2>2, <2>3, <1>b, <1>e, <1>f, RecordedTransition
    <2> QED BY <2>1, <2>2, <2>4, <1>g, <1>s DEF SilentActions
  <1>18. CASE Retry(t)
    <2> DEFINE row == [at |-> "decide", action |-> "retry", to |-> "running", more |-> 1, label |-> "execute"]
               r == NextAttempt(rec)
    <2>1. row \in Saves
      BY DEF Saves
    <2>2. /\ pc[t] = "decide" /\ ~emitting[t] /\ SaveAndEmit(t, AppendAudit(r, row.action, "running", row.to), row.label)
          /\ UNCHANGED failures
          /\ executions' = [executions EXCEPT ![tid[t]] = @ + 1] /\ ShouldRetry(rec)
      BY <1>18 DEF Retry, At
    <2>3. /\ Recorded(rec, AppendAudit(r, row.action, "running", row.to), row)
          /\ AppendAudit(r, row.action, "running", row.to) \in TaskRecord
      BY <2>1, <2>2, <1>b, <1>e, <1>f, <1>r, <1>h, RecordedAppend
    <2> QED BY <2>1, <2>2, <2>3, <1>g, <1>s DEF SilentActions
  <1>19. CASE PublishEscalated(t)
    BY <1>19, <1>o DEF PublishEscalated, At, ReturnStep
  <1>20. CASE PublishFailed(t)
    BY <1>20 DEF PublishFailed, At, Goto, ReturnStep, MoveStep, Moves
  <1>21. CASE Fail(t)
    <2> DEFINE row == [at |-> "fail", action |-> "failed", to |-> "failed", more |-> 0, label |-> "return"]
               r == WithResult(rec, "error")
    <2>1. row \in Saves
      BY DEF Saves
    <2>2. /\ pc[t] = "fail" /\ ~emitting[t] /\ SaveAndEmit(t, Transitioned(r, row.action, row.to), row.label)
          /\ UNCHANGED <<failures, executions>>
      BY <1>21 DEF Fail, At
    <2>3. /\ Recorded(rec, Transitioned(r, row.action, row.to), row)
          /\ Transitioned(r, row.action, row.to) \in TaskRecord
      BY <2>1, <2>2, <1>b, <1>e, <1>f, <1>r, RecordedTransition
    <2> QED BY <2>1, <2>2, <2>3, <1>g, <1>s DEF SilentActions
  <1>22. CASE SaveRaises(t)
    BY <1>22 DEF SaveRaises, At, Goto, ReturnStep, LateFailureStep
  <1> QED
    BY <1>1, <1>2, <1>3, <1>4, <1>5, <1>6, <1>7, <1>8, <1>9, <1>10, <1>11, <1>12, <1>13, <1>14,
       <1>15, <1>16, <1>17, <1>18, <1>19, <1>20, <1>21, <1>22 DEF Step

(* A caller that enters a method was idle, disturbs no other caller, and    *)
(* writes to the store at most the record of a new submission.              *)
LEMMA EnterKinds ==
    ASSUME SupervisorInv, NEW t \in Threads, Enter(t)
    PROVE  /\ pc[t] = "idle"
           /\ UNCHANGED <<failures, executions, emitting, emitted>>
           /\ \E k \in Tasks, label \in {"enqueue", "run_task", "approve_run", "approve_queue", "cancel"} :
                 /\ tid' = [tid EXCEPT ![t] = k]
                 /\ pc' = [pc EXCEPT ![t] = label]
                 /\ \/ /\ store[k] = NoTask
                       /\ \E c \in Capabilities, m \in RetryBudgets :
                             store' = [store EXCEPT ![k] = CreateTaskRecord(c, m)]
                       /\ label \in {"enqueue", "run_task"}
                       /\ UNCHANGED task
                    \/ /\ label = "run_task"
                       /\ MayCall(k) /\ store[k] # NoTask
                       /\ UNCHANGED <<store, task>>
                    \/ /\ label \in {"approve_run", "approve_queue", "cancel"}
                       /\ MayCall(k) /\ store[k] # NoTask
                       /\ store[k].status = "awaiting_approval"
                       /\ task' = [task EXCEPT ![t] = store[k]]
                       /\ UNCHANGED store
  <1>1. CASE Submit(t)
    BY <1>1 DEF Submit, Create, Call, Goto
  <1>2. CASE RunSubmission(t)
    BY <1>2 DEF RunSubmission, Create, Call, Goto
  <1>3. CASE RunNext(t)
    <2>1. queue \in Seq(Tasks) /\ queue # << >> /\ \A i \in DOMAIN queue : store[queue[i]] # NoTask
      BY <1>3 DEF RunNext, SupervisorInv, TypeOK
    <2>2. Head(queue) \in Tasks /\ store[Head(queue)] # NoTask
      BY <2>1
    <2> QED BY <1>3, <2>2 DEF RunNext, Goto
  <1>4. CASE RunTask(t)
    BY <1>4 DEF RunTask, Call, Goto
  <1>5. CASE BeginApprove(t)
    BY <1>5 DEF BeginApprove, BeginDecision, Call, Goto
  <1>6. CASE BeginCancel(t)
    BY <1>6 DEF BeginCancel, BeginDecision, Call, Goto
  <1> QED BY <1>1, <1>2, <1>3, <1>4, <1>5, <1>6 DEF Enter

-----------------------------------------------------------------------------
(* Nobody leaves a task RUNNING *)

(* A step either writes RUNNING and still owes the task an end, or pays.    *)
LEMMA StepKeepsRunner ==
    ASSUME SupervisorInv, RunningHasRunner, Faults \cap {"guild", "save"} = {},
           NEW t \in Threads, Step(t)
    PROVE  RunningHasRunner'
  <1> SUFFICES ASSUME NEW k \in Tasks, store'[k] # NoTask, store'[k].status = "running"
               PROVE  \E u \in Threads : tid'[u] = k /\ pc'[u] \in OwingLabels
    BY DEF RunningHasRunner
  <1>a. /\ tid \in [Threads -> Tasks \cup {NoTask}] /\ pc \in [Threads -> Labels]
        /\ store \in [Tasks -> TaskRecord \cup {NoTask}]
    BY DEF SupervisorInv, TypeOK
  <1>b. store[k] # NoTask /\ store[k].status = "running" =>
           \E u \in Threads : tid[u] = k /\ pc[u] \in OwingLabels
    BY DEF RunningHasRunner
  <1>o. OwingLabels = {"execute", "record_failure", "decide", "publish_failed", "fail"}
    BY DEF OwingLabels
  <1>1. CASE SaveStep(t)
    <2>1. PICK row \in Saves, new \in TaskRecord :
             pc[t] = row.at /\ Save(t, new, row.label) /\ Recorded(task[t], new, row)
      BY <1>1 DEF SaveStep
    <2>2. /\ store' = [store EXCEPT ![tid[t]] = new] /\ tid' = tid
          /\ pc' = [pc EXCEPT ![t] = row.label]
      BY <2>1 DEF Save, Goto
    <2>3. CASE k = tid[t]
      <3>1. new.status = "running"
        BY <1>a, <2>2, <2>3
      <3>2. row.label \in OwingLabels
        <4>1. /\ row.at = "peer" => task[t].status \in ExecutableStatuses
              /\ row.at = "gate" => task[t].status = "pending"
          BY <2>1 DEF SupervisorInv, LabelOK
        <4>2. new.status = IF row.action \in {"retry", "peer_suggestion_applied", "failure_recorded"}
                           THEN task[t].status ELSE row.to
          BY <2>1 DEF Recorded
        <4> QED BY <3>1, <4>1, <4>2, <1>o DEF Saves, ExecutableStatuses
      <3> QED BY <1>a, <2>2, <2>3, <3>2
    <2>4. CASE k # tid[t]
      <3>1. store'[k] = store[k]
        BY <1>a, <2>2, <2>4
      <3>2. PICK u \in Threads : tid[u] = k /\ pc[u] \in OwingLabels
        BY <1>b, <3>1
      <3> QED BY <1>a, <2>2, <2>4, <3>2
    <2> QED BY <2>3, <2>4
  <1>2. CASE MoveStep(t)
    <2>1. PICK u \in Threads : tid[u] = k /\ pc[u] \in OwingLabels
      BY <1>2, <1>b DEF MoveStep
    <2>2. PICK m \in Moves : pc[t] = m[1] /\ pc' = [pc EXCEPT ![t] = m[2]]
      BY <1>2 DEF MoveStep
    <2>3. m[1] \in OwingLabels => m[2] \in OwingLabels
      BY <1>o DEF Moves
    <2> QED BY <1>2, <1>a, <2>1, <2>2, <2>3 DEF MoveStep
  <1>3. CASE LoadStep(t)
    <2>1. PICK u \in Threads : tid[u] = k /\ pc[u] \in OwingLabels
      BY <1>3, <1>b DEF LoadStep
    <2> QED BY <1>3, <1>a, <1>o, <2>1 DEF LoadStep
  <1>4. CASE ReturnStep(t)
    <2>1. PICK u \in Threads : tid[u] = k /\ pc[u] \in OwingLabels
      BY <1>4, <1>b DEF ReturnStep
    <2>2. u # t
      BY <1>4, <2>1 DEF ReturnStep
    <2> QED BY <1>4, <1>a, <2>1, <2>2 DEF ReturnStep, Return, Goto
  <1>5. CASE QuietStep(t)
    BY <1>5, <1>b DEF QuietStep
  <1> QED BY <1>1, <1>2, <1>3, <1>4, <1>5, StepKinds DEF LateFailureStep

(* A call that begins takes no running task from its runner. *)
LEMMA EnterKeepsRunner ==
    ASSUME SupervisorInv, RunningHasRunner, NEW t \in Threads, Enter(t)
    PROVE  RunningHasRunner'
  <1> SUFFICES ASSUME NEW k \in Tasks, store'[k] # NoTask, store'[k].status = "running"
               PROVE  \E u \in Threads : tid'[u] = k /\ pc'[u] \in OwingLabels
    BY DEF RunningHasRunner
  <1>a. /\ tid \in [Threads -> Tasks \cup {NoTask}] /\ pc \in [Threads -> Labels]
        /\ store \in [Tasks -> TaskRecord \cup {NoTask}]
    BY DEF SupervisorInv, TypeOK
  <1>1. /\ pc[t] = "idle"
        /\ \A u \in Threads \ {t} : tid'[u] = tid[u] /\ pc'[u] = pc[u]
    BY <1>a, EnterKinds
  <1>2. store' = store
        \/ \E j \in Tasks, c \in Capabilities, m \in RetryBudgets :
              store' = [store EXCEPT ![j] = CreateTaskRecord(c, m)]
    BY EnterKinds
  <1>3. \A c \in Capabilities, m \in RetryBudgets : CreateTaskRecord(c, m).status = "pending"
    BY DEF CreateTaskRecord
  <1>4. store'[k] = store[k]
    BY <1>a, <1>2, <1>3
  <1>5. PICK u \in Threads : tid[u] = k /\ pc[u] \in OwingLabels
    BY <1>4 DEF RunningHasRunner
  <1> QED BY <1>1, <1>5 DEF OwingLabels

(* As long as no guild call, no save and no process fails, a task is RUNNING *)
(* only while a caller of run_task is still going to end it, however many    *)
(* callers work on the task at once: no task is stuck RUNNING.               *)
THEOREM RunnerTheorem ==
    ASSUME Faults \cap {"guild", "save", "crash"} = {}
    PROVE  Spec => []RunningHasRunner
  <1>1. Init => RunningHasRunner
    BY DEF Init, RunningHasRunner
  <1>2. SupervisorInv /\ RunningHasRunner /\ [Next]_vars => RunningHasRunner'
    <2> SUFFICES ASSUME SupervisorInv, RunningHasRunner, [Next]_vars PROVE RunningHasRunner'
      OBVIOUS
    <2>1. CASE UNCHANGED vars
      BY <2>1 DEF vars, RunningHasRunner
    <2>2. ~Crash
      BY DEF Crash
    <2>3. Faults \cap {"guild", "save"} = {}
      OBVIOUS
    <2> QED BY <2>1, <2>2, <2>3, StepKeepsRunner, EnterKeepsRunner DEF Next
  <1> QED BY <1>1, <1>2, SupervisorInvariant, PTL DEF Spec

-----------------------------------------------------------------------------
(* The audit trail is a walk of the status machine *)

(* One more entry keeps a walk a walk when it says no status, or one that   *)
(* may follow the present one.                                              *)
LEMMA WalkGrows ==
    ASSUME NEW rec \in TaskRecord, NEW new \in TaskRecord, TrailIsWalk(rec),
           NEW a, NEW from \in AuditStatus, NEW to \in AuditStatus,
           new.audit_trail = Append(rec.audit_trail, Entry(a, from, to)),
           \/ to = "none" /\ new.status = rec.status
           \/ from = rec.status /\ new.status = to /\ <<from, to>> \in LegalMoves
    PROVE  TrailIsWalk(new)
  <1> DEFINE s == rec.audit_trail
             e == Entry(a, from, to)
             z == new.audit_trail
  <1>1. s \in Seq(AuditEntry) /\ z \in Seq(AuditEntry)
    BY DEF TaskRecord
  <1>2. rec.status # "none" /\ new.status # "none"
    BY DEF TaskRecord, TaskStatus
  <1>3. e.from_status = from /\ e.to_status = to
    BY DEF Entry
  <1>t. TrailIsWalk(rec)
    OBVIOUS
  <1>4. /\ Len(s) \in Nat /\ DOMAIN s = 1..Len(s) /\ Len(z) = Len(s) + 1
        /\ DOMAIN z = 1..(Len(s) + 1) /\ z[Len(s) + 1] = e
        /\ \A i \in 1..Len(s) : z[i] = s[i]
    BY <1>1
  <1> DEFINE n == Len(s)
  <1> HIDE DEF s, e, z, n
  <1>n. n \in Nat /\ n = Len(s)
    BY <1>4 DEF n
  \* What the old entries lead to, they still lead to.
  <1>5. ASSUME NEW i \in 0..n, NEW st, LeadsTo(s, i, st) PROVE LeadsTo(z, i, st)
    <2>1. \A j \in 1..i : z[j] = s[j]
      BY <1>4, <1>n
    <2>2. CASE st = "none" /\ \A j \in 1..i : s[j].to_status = "none"
      BY <2>1, <2>2 DEF LeadsTo
    <2>3. CASE st # "none" /\ \E j \in 1..i : /\ s[j].to_status = st
                                              /\ \A h \in (j + 1)..i : s[h].to_status = "none"
      <3>1. PICK j \in 1..i : s[j].to_status = st /\ \A h \in (j + 1)..i : s[h].to_status = "none"
        BY <2>3
      <3>2. z[j].to_status = st /\ \A h \in (j + 1)..i : z[h].to_status = "none"
        BY <2>1, <3>1
      <3> QED BY <2>3, <3>2 DEF LeadsTo
    <2> QED BY <1>5, <2>2, <2>3 DEF LeadsTo
  <1>6. /\ \A i \in 1..n : s[i].to_status # "none" =>
              /\ <<s[i].from_status, s[i].to_status>> \in LegalMoves
              /\ LeadsTo(s, i - 1, s[i].from_status)
        /\ LeadsTo(s, n, rec.status)
    BY <1>t, <1>4, <1>n DEF TrailIsWalk, s, n
  <1>7. ASSUME NEW i \in 1..n, z[i].to_status # "none"
        PROVE  /\ <<z[i].from_status, z[i].to_status>> \in LegalMoves
               /\ LeadsTo(z, i - 1, z[i].from_status)
    <2>1. i - 1 \in 0..n /\ z[i] = s[i]
      BY <1>4, <1>n
    <2> QED BY <1>5, <1>6, <1>7, <2>1
  <1>8. LeadsTo(z, n, rec.status)
    BY <1>5, <1>6, <1>n
  <1>9. z[n + 1] = e /\ (n + 1) - 1 = n
    BY <1>4, <1>n
  <1>10. to # "none" => /\ <<z[n + 1].from_status, z[n + 1].to_status>> \in LegalMoves
                        /\ LeadsTo(z, (n + 1) - 1, z[n + 1].from_status)
    BY <1>3, <1>8, <1>9
  <1>11. LeadsTo(z, n + 1, new.status)
    <2>1. CASE to = "none" /\ new.status = rec.status
      <3>1. PICK j \in 1..n : z[j].to_status = rec.status /\ \A h \in (j + 1)..n : z[h].to_status = "none"
        BY <1>2, <1>8 DEF LeadsTo
      <3>2. z[n + 1].to_status = "none"
        BY <1>3, <1>9, <2>1
      <3>3. ASSUME NEW h \in (j + 1)..(n + 1) PROVE z[h].to_status = "none"
        <4>1. h \in (j + 1)..n \/ h = n + 1
          BY <1>n
        <4> QED BY <3>1, <3>2, <4>1
      <3>4. j \in 1..(n + 1)
        BY <1>n
      <3> QED BY <1>2, <2>1, <3>1, <3>3, <3>4 DEF LeadsTo
    <2>2. CASE new.status = to
      <3>1. z[n + 1].to_status = new.status /\ n + 1 \in 1..(n + 1)
        BY <1>3, <1>9, <1>n, <2>2
      <3>2. \A h \in ((n + 1) + 1)..(n + 1) : z[h].to_status = "none"
        BY <1>n
      <3> QED BY <1>2, <3>1, <3>2 DEF LeadsTo
    <2> QED BY <2>1, <2>2
  <1>12. ASSUME NEW i \in DOMAIN z, z[i].to_status # "none"
         PROVE  /\ <<z[i].from_status, z[i].to_status>> \in LegalMoves
                /\ LeadsTo(z, i - 1, z[i].from_status)
    <2>1. i \in 1..n \/ i = n + 1
      BY <1>4, <1>n
    <2>2. CASE i \in 1..n
      BY <1>7, <1>12, <2>2
    <2>3. CASE i = n + 1
      BY <1>3, <1>9, <1>10, <1>12, <2>3
    <2> QED BY <2>1, <2>2, <2>3
  <1>13. /\ \A i \in DOMAIN z : z[i].to_status # "none" =>
               /\ <<z[i].from_status, z[i].to_status>> \in LegalMoves
               /\ LeadsTo(z, i - 1, z[i].from_status)
         /\ LeadsTo(z, Len(z), new.status)
    BY <1>4, <1>11, <1>12, <1>n
  <1> QED BY <1>13 DEF TrailIsWalk, z

(* The record of a submission starts the walk. *)
LEMMA CreatedIsWalk ==
    ASSUME NEW c \in Capabilities, NEW m \in RetryBudgets
    PROVE  TrailIsWalk(CreateTaskRecord(c, m))
  <1> DEFINE s == << Entry("submitted", "none", "pending") >>
  <1>1. CreateTaskRecord(c, m).audit_trail = s /\ CreateTaskRecord(c, m).status = "pending"
    BY DEF CreateTaskRecord
  <1>2. /\ Len(s) = 1 /\ DOMAIN s = 1..1
        /\ s[1].from_status = "none" /\ s[1].to_status = "pending"
    BY DEF Entry
  <1> HIDE DEF s
  <1>3. LeadsTo(s, 1, "pending")
    BY <1>2 DEF LeadsTo
  <1>4. LeadsTo(s, 0, "none") /\ <<"none", "pending">> \in LegalMoves
    BY DEF LeadsTo, LegalMoves
  <1>5. \A i \in DOMAIN s : i = 1 /\ i - 1 = 0
    BY <1>2
  <1> QED BY <1>1, <1>2, <1>3, <1>4, <1>5 DEF TrailIsWalk

(* Every stored record and every copy of one is a walk, and a caller that   *)
(* owes a task an end holds a copy that says RUNNING.                       *)
WalkInv ==
    /\ \A k \in Tasks : store[k] # NoTask => TrailIsWalk(store[k])
    /\ \A t \in Threads : task[t] # NoTask => TrailIsWalk(task[t])
    /\ \A t \in Threads : pc[t] \in OwingLabels => task[t].status = "running"

(* Every step of a call extends a trail by a legal move or not at all. *)
LEMMA StepKeepsWalks ==
    ASSUME SupervisorInv, WalkInv, Faults \cap {"guild", "save"} = {},
           NEW t \in Threads, Step(t)
    PROVE  WalkInv'
  <1>a. /\ tid \in [Threads -> Tasks \cup {NoTask}] /\ pc \in [Threads -> Labels]
        /\ store \in [Tasks -> TaskRecord \cup {NoTask}]
        /\ task \in [Threads -> TaskRecord \cup {NoTask}]
        /\ pc[t] # "idle" => tid[t] \in Tasks /\ store[tid[t]] \in TaskRecord
        /\ pc[t] \in LoadedLabels => task[t] \in TaskRecord
    BY DEF SupervisorInv, TypeOK
  <1>o. OwingLabels = {"execute", "record_failure", "decide", "publish_failed", "fail"}
    BY DEF OwingLabels
  \* The three parts of the invariant in the next state.
  <1>p. ASSUME \A k \in Tasks : store'[k] # NoTask => TrailIsWalk(store'[k]),
               \A u \in Threads : task'[u] # NoTask => TrailIsWalk(task'[u]),
               \A u \in Threads : pc'[u] \in OwingLabels => task'[u].status = "running"
        PROVE  WalkInv'
    BY <1>p DEF WalkInv, TrailIsWalk, LeadsTo
  <1>w. ASSUME store' = store, task' = task,
               \A u \in Threads : pc'[u] \in OwingLabels => task'[u].status = "running"
        PROVE  WalkInv'
    <2>1. /\ \A k \in Tasks : store'[k] # NoTask => TrailIsWalk(store'[k])
          /\ \A u \in Threads : task'[u] # NoTask => TrailIsWalk(task'[u])
      BY <1>w DEF WalkInv
    <2> QED BY <1>p, <1>w, <2>1
  <1>1. CASE SaveStep(t)
    <2>1. PICK row \in Saves, new \in TaskRecord :
             pc[t] = row.at /\ Save(t, new, row.label) /\ Recorded(task[t], new, row)
      BY <1>1 DEF SaveStep
    <2>2. /\ store' = [store EXCEPT ![tid[t]] = new] /\ task' = [task EXCEPT ![t] = new]
          /\ pc' = [pc EXCEPT ![t] = row.label]
      BY <2>1 DEF Save, Goto
    <2> DEFINE rec == task[t]
    <2>3. rec \in TaskRecord /\ TrailIsWalk(rec)
      <3>1. row.at \in LoadedLabels
        BY DEF Saves, LoadedLabels, RunningLabels, OwingLabels
      <3> QED BY <1>a, <2>1, <3>1, NoTaskIsNone DEF WalkInv
    <2>4. /\ row.at = "gate" => rec.status = "pending"
          /\ row.at \in {"approve_run", "approve_queue", "cancel"} => rec.status = "awaiting_approval"
          /\ row.at \in {"peer", "start"} => rec.status \in {"pending", "approved"}
          /\ row.at \in OwingLabels => rec.status = "running"
      BY <2>1 DEF SupervisorInv, LabelOK, WalkInv, ExecutableStatuses
    <2>5. PICK from \in AuditStatus :
             /\ new.audit_trail = Append(rec.audit_trail, Entry(row.action, from, row.to))
             /\ row.action \notin {"retry", "peer_suggestion_applied", "failure_recorded"} =>
                   from = rec.status
             /\ row.action = "retry" => from = "running"
      BY <2>1 DEF Recorded
    <2>6. new.status = IF row.action \in {"retry", "peer_suggestion_applied", "failure_recorded"}
                       THEN rec.status ELSE row.to
      BY <2>1 DEF Recorded
    <2>7. row.to \in AuditStatus
      BY DEF Saves, AuditStatus, TaskStatus
    <2>8. \/ row.to = "none" /\ new.status = rec.status
          \/ from = rec.status /\ new.status = row.to /\ <<from, row.to>> \in LegalMoves
      BY <2>4, <2>5, <2>6, <1>o DEF Saves, LegalMoves
    <2>9. row.label \in OwingLabels => new.status = "running"
      BY <2>4, <2>6, <1>o DEF Saves
    <2> HIDE DEF rec
    <2>10. TrailIsWalk(new)
      BY <2>3, <2>5, <2>7, <2>8, WalkGrows
    <2>11. \A k \in Tasks : store'[k] # NoTask => TrailIsWalk(store'[k])
      BY <1>a, <2>2, <2>10 DEF WalkInv
    <2>12. \A u \in Threads : task'[u] # NoTask => TrailIsWalk(task'[u])
      BY <1>a, <2>2, <2>10 DEF WalkInv
    <2>13. \A u \in Threads : pc'[u] \in OwingLabels => task'[u].status = "running"
      BY <1>a, <2>2, <2>9 DEF WalkInv
    <2> QED BY <1>p, <2>11, <2>12, <2>13
  <1>2. CASE MoveStep(t)
    <2>1. PICK m \in Moves : pc[t] = m[1] /\ pc' = [pc EXCEPT ![t] = m[2]]
      BY <1>2 DEF MoveStep
    <2>2. store' = store /\ task' = task
      BY <1>2 DEF MoveStep
    <2>3. m[2] \in OwingLabels => m[1] \in OwingLabels
      BY <1>o DEF Moves
    <2>4. \A u \in Threads : pc'[u] \in OwingLabels => task'[u].status = "running"
      BY <1>a, <2>1, <2>2, <2>3 DEF WalkInv
    <2> QED BY <2>2, <2>4, <1>w
  <1>3. CASE LoadStep(t)
    <2>1. /\ store' = store /\ task' = [task EXCEPT ![t] = store[tid[t]]]
          /\ pc' = [pc EXCEPT ![t] = IF store[tid[t]].status = "pending" THEN "gate" ELSE "peer"]
          /\ tid[t] \in Tasks /\ store[tid[t]] # NoTask
      BY <1>3, <1>a, NoTaskIsNone DEF LoadStep
    <2>2. \A u \in Threads : task'[u] # NoTask => TrailIsWalk(task'[u])
      BY <1>a, <2>1 DEF WalkInv
    <2>3. \A u \in Threads : pc'[u] \in OwingLabels => task'[u].status = "running"
      BY <1>a, <1>o, <2>1 DEF WalkInv
    <2>4. \A k \in Tasks : store'[k] # NoTask => TrailIsWalk(store'[k])
      BY <2>1 DEF WalkInv
    <2> QED BY <1>p, <2>2, <2>3, <2>4
  <1>4. CASE ReturnStep(t)
    <2>1. /\ store' = store /\ task' = [task EXCEPT ![t] = NoTask]
          /\ pc' = [pc EXCEPT ![t] = "idle"]
      BY <1>4 DEF ReturnStep, Return, Goto
    <2>2. \A u \in Threads : task'[u] # NoTask => TrailIsWalk(task'[u])
      BY <1>a, <2>1 DEF WalkInv
    <2>3. \A u \in Threads : pc'[u] \in OwingLabels => task'[u].status = "running"
      BY <1>a, <1>o, <2>1 DEF WalkInv
    <2>4. \A k \in Tasks : store'[k] # NoTask => TrailIsWalk(store'[k])
      BY <2>1 DEF WalkInv
    <2> QED BY <1>p, <2>2, <2>3, <2>4
  <1>5. CASE QuietStep(t)
    BY <1>5, <1>w DEF QuietStep, WalkInv
  <1> QED BY <1>1, <1>2, <1>3, <1>4, <1>5, StepKinds DEF LateFailureStep

(* A submission starts a walk, other calls change no trail. *)
LEMMA EnterKeepsWalks ==
    ASSUME SupervisorInv, WalkInv, NEW t \in Threads, Enter(t)
    PROVE  WalkInv'
  <1>a. /\ pc \in [Threads -> Labels] /\ task \in [Threads -> TaskRecord \cup {NoTask}]
        /\ store \in [Tasks -> TaskRecord \cup {NoTask}]
    BY DEF SupervisorInv, TypeOK
  <1>1. PICK label \in {"enqueue", "run_task", "approve_run", "approve_queue", "cancel"} :
           pc' = [pc EXCEPT ![t] = label]
    BY EnterKinds
  <1>2. task' = task \/ \E k \in Tasks : store[k] # NoTask /\ task' = [task EXCEPT ![t] = store[k]]
    BY EnterKinds
  <1>3. store' = store
        \/ \E j \in Tasks, c \in Capabilities, m \in RetryBudgets :
              store' = [store EXCEPT ![j] = CreateTaskRecord(c, m)]
    BY EnterKinds
  <1>4. \A k \in Tasks : store'[k] # NoTask => TrailIsWalk(store'[k])
    BY <1>a, <1>3, CreatedIsWalk DEF WalkInv
  <1>5. \A u \in Threads : task'[u] # NoTask => TrailIsWalk(task'[u])
    BY <1>a, <1>2 DEF WalkInv
  <1>6. \A u \in Threads \ {t} : task'[u] = task[u] /\ pc'[u] = pc[u]
    BY <1>a, <1>1, <1>2
  <1>7. pc'[t] \notin OwingLabels
    BY <1>a, <1>1 DEF OwingLabels
  <1>8. \A u \in Threads : pc'[u] \in OwingLabels => task'[u].status = "running"
    BY <1>6, <1>7 DEF WalkInv
  <1> QED BY <1>4, <1>5, <1>8 DEF WalkInv, TrailIsWalk, LeadsTo

(* Walks stay walks in every reachable state. *)
LEMMA WalkInvariant ==
    ASSUME Faults \cap {"guild", "save"} = {}
    PROVE  Spec => []WalkInv
  <1>1. Init => WalkInv
    BY DEF Init, WalkInv, OwingLabels
  <1>2. SupervisorInv /\ WalkInv /\ [Next]_vars => WalkInv'
    <2> SUFFICES ASSUME SupervisorInv, WalkInv, [Next]_vars PROVE WalkInv'
      OBVIOUS
    <2>p. ASSUME \A k \in Tasks : store'[k] # NoTask => TrailIsWalk(store'[k]),
                 \A u \in Threads : task'[u] # NoTask => TrailIsWalk(task'[u]),
                 \A u \in Threads : pc'[u] \in OwingLabels => task'[u].status = "running"
          PROVE  WalkInv'
      BY <2>p DEF WalkInv, TrailIsWalk, LeadsTo
    <2>1. CASE UNCHANGED vars
      <3>1. store' = store /\ task' = task /\ pc' = pc
        BY <2>1 DEF vars
      <3> QED BY <2>p, <3>1 DEF WalkInv
    <2>2. CASE Crash
      <3>1. /\ store' = store /\ \A u \in Threads : task'[u] = NoTask
            /\ \A u \in Threads : pc'[u] \notin OwingLabels
        BY <2>2 DEF Crash, OwingLabels
      <3> QED BY <2>p, <3>1 DEF WalkInv
    <2> QED BY <2>1, <2>2, StepKeepsWalks, EnterKeepsWalks DEF Next
  <1> QED BY <1>1, <1>2, SupervisorInvariant, PTL DEF Spec

(* As long as no guild call and no save fails, every stored audit trail is a *)
(* walk of the status machine that ends in the stored status, however calls  *)
(* on the task overlap and wherever the process dies.                        *)
THEOREM WalkTheorem ==
    ASSUME Faults \cap {"guild", "save"} = {}
    PROVE  Spec => []AuditTrailIsWalk
  <1>1. WalkInv => AuditTrailIsWalk
    BY DEF WalkInv, AuditTrailIsWalk
  <1> QED BY <1>1, WalkInvariant, PTL
=============================================================================
