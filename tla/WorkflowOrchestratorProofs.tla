--------------------- MODULE WorkflowOrchestratorProofs ---------------------
(***************************************************************************)
(* Proofs about WorkflowOrchestrator, for any plan and any threads.  The   *)
(* invariant follows the first step of the current batch: what lies before *)
(* it has come back without a failure, what lies behind the batch has not  *)
(* begun, and the records collected are the steps before it.               *)
(***************************************************************************)
EXTENDS WorkflowOrchestrator, SequenceTheorems, TLAPS

Results == {"policy_denied", "awaiting_approval", "completed", "failed", "escalated"}

(* The values the variables take. *)
FlowTypeOK ==
    /\ plan \in Seq(Groups \cup {NoGroup})
    /\ flowPc \in {"plan", "batch", "join", "validate", "returned", "raised"}
    /\ first \in Nat /\ 1 <= first /\ first <= Len(plan) + 1
    /\ thread \in [Steps -> {"new", "work", "run", "done", "raised"}]
    /\ status \in [Steps -> {"none", "pending", "running"} \cup Results]
    /\ stored \in [Steps -> {"none", "pending", "running", "approved", "cancelled"} \cup Results]
    /\ prior \in [Steps -> Seq(Nat)]
    /\ records \in Seq(Nat)
    /\ result \in {"running", "failed", "completed", "partial"}

(* A batch begins at first: no parallel group reaches across it. *)
AtBatchEdge ==
    \A i, j \in Steps : i < first /\ first <= j => ~SameBatch(i, j)

(* What a thread is doing shows in the task it stored. *)
StatusFits ==
    \A i \in Steps :
        /\ thread[i] \in {"new", "work"} => status[i] = "none"
        /\ thread[i] = "run" => status[i] \in {"pending", "running"}
        /\ thread[i] = "done" => status[i] \in Results

(* The threads before, in and behind the current batch. *)
ThreadsFit ==
    /\ \A i \in Steps : i < first => thread[i] = "done" /\ status[i] # "failed"
    /\ \A i \in Steps : first <= i /\ i \notin BatchFrom(first) => thread[i] = "new"
    /\ flowPc \in {"plan", "batch", "validate"} =>
           \A i \in Steps : first <= i => thread[i] = "new"
    /\ flowPc = "join" => first \in Steps
    /\ flowPc \in {"returned", "raised"} =>
           \A i \in Steps : thread[i] \notin {"work", "run"}

(* The records are those of the steps before the batch; the last batch of a *)
(* run that failed is collected too.                                        *)
RecordsFit ==
    /\ \A i \in 1..Len(records) : records[i] = i
    /\ Len(records) <= Len(plan)
    /\ flowPc # "returned" => Len(records) = first - 1 /\ result = "running"
    /\ flowPc = "validate" => first = Len(plan) + 1
    /\ flowPc = "returned" =>
           /\ \A i \in Steps : IF i <= Len(records) THEN thread[i] = "done" ELSE thread[i] = "new"
           /\ result = "failed" => \E i \in 1..Len(records) : status[i] = "failed"
           /\ result # "failed" => Len(records) = Len(plan) /\ first = Len(plan) + 1

(* A step was given the steps of the batches before its own. *)
PriorFits ==
    \A j \in Steps : thread[j] # "new" =>
        \A i \in Steps : i < j =>
            ((\E k \in 1..Len(prior[j]) : prior[j][k] = i) <=> ~SameBatch(i, j))

(* Later calls move only a task that was left pending or waiting. *)
StoredFits ==
    \A i \in Steps :
        /\ stored[i] = "none" <=> status[i] = "none"
        /\ stored[i] = status[i] \/ status[i] = "awaiting_approval"
             \/ (thread[i] = "raised" /\ status[i] = "pending")

FlowInv ==
    StoredFits /\ FlowTypeOK /\ AtBatchEdge /\ StatusFits /\ ThreadsFit /\ RecordsFit /\ PriorFits

-----------------------------------------------------------------------------
(* A batch is a run of steps of one parallel group, which ends where the    *)
(* group does.                                                              *)
LEMMA BatchIsRun ==
    ASSUME plan \in Seq(Groups \cup {NoGroup}), NEW f \in Steps
    PROVE  /\ BatchFrom(f) \subseteq Steps
           /\ f \in BatchFrom(f)
           /\ \A i \in BatchFrom(f) : f <= i
           /\ \A i, j \in BatchFrom(f) : i < j => SameBatch(i, j)
           /\ \A i, j \in Steps : i \in BatchFrom(f) /\ i < j /\ SameBatch(i, j) => j \in BatchFrom(f)
  <1>0. Len(plan) \in Nat /\ f \in Nat /\ 1 <= f /\ f <= Len(plan)
    BY DEF Steps
  <1>1. BatchFrom(f) \subseteq Steps /\ f \in BatchFrom(f) /\ \A i \in BatchFrom(f) : f <= i
    BY <1>0 DEF BatchFrom, Steps
  <1>2. ASSUME NEW i \in BatchFrom(f), NEW j \in BatchFrom(f), i < j PROVE SameBatch(i, j)
    <2>1. i \in Nat /\ j \in Nat /\ f <= i /\ f < j
      BY <1>0, <1>1, <1>2 DEF Steps
    <2>2. plan[f] # NoGroup /\ \A k \in f..j : plan[k] = plan[f]
      BY <1>0, <2>1 DEF BatchFrom
    <2>3. plan[i] = plan[f] /\ \A k \in i..j : plan[k] = plan[f]
      BY <1>0, <1>2, <2>1, <2>2
    <2> QED  BY <2>2, <2>3 DEF SameBatch
  <1>3. ASSUME NEW i \in Steps, NEW j \in Steps, i \in BatchFrom(f), i < j, SameBatch(i, j)
        PROVE  j \in BatchFrom(f)
    <2>1. i \in Nat /\ j \in Nat /\ f <= i /\ f < j /\ j <= Len(plan)
      BY <1>0, <1>1, <1>3 DEF Steps
    <2>2. plan[i] # NoGroup /\ \A k \in i..j : plan[k] = plan[i]
      BY <1>3 DEF SameBatch
    <2>3. \A k \in f..i : plan[k] = plan[f]
      BY <1>0, <1>3, <2>1 DEF BatchFrom
    <2>4. plan[i] = plan[f]
      BY <1>0, <2>1, <2>3
    <2>5. \A k \in f..j : plan[k] = plan[f]
      <3> SUFFICES ASSUME NEW k \in f..j PROVE plan[k] = plan[f]
        OBVIOUS
      <3>1. k \in f..i \/ k \in i..j
        BY <1>0, <2>1
      <3> QED  BY <2>2, <2>3, <2>4, <3>1
    <2> QED  BY <1>0, <2>1, <2>2, <2>4, <2>5 DEF BatchFrom
  <1> QED  BY <1>1, <1>2, <1>3

(* A run starts in the invariant. *)
LEMMA FlowInitial == FlowInit => FlowInv
  <1> SUFFICES ASSUME FlowInit PROVE FlowInv
    OBVIOUS
  <1>1. plan \in Seq(Groups \cup {NoGroup}) /\ Len(plan) \in Nat
    <2>1. PICK m \in 0..MaxSteps : plan \in [1..m -> Groups \cup {NoGroup}]
      BY DEF FlowInit, SeqOf
    <2> QED  BY <2>1, FlowConstants
  <1>2. FlowTypeOK
    BY <1>1 DEF FlowInit, FlowTypeOK
  <1>3. \A i \in Steps : i \in Nat /\ 1 <= i /\ thread[i] = "new" /\ status[i] = "none" /\ stored[i] = "none"
    BY <1>1 DEF FlowInit, Steps
  <1>4. AtBatchEdge
    BY <1>3 DEF AtBatchEdge, FlowInit
  <1>5. StatusFits /\ ThreadsFit /\ PriorFits /\ StoredFits
    BY <1>3 DEF StatusFits, StoredFits, ThreadsFit, PriorFits, FlowInit
  <1>6. RecordsFit
    BY <1>1 DEF RecordsFit, FlowInit
  <1> QED  BY <1>2, <1>4, <1>5, <1>6 DEF FlowInv


(* A thread at work belongs to the batch that is being joined. *)
LEMMA WorkerIsInBatch ==
    ASSUME FlowInv, NEW i \in Steps, thread[i] \in {"work", "run"}
    PROVE  flowPc = "join" /\ first \in Steps /\ i \in BatchFrom(first) /\ first <= i
  <1>1. first \in Nat /\ i \in Nat
    BY DEF FlowInv, FlowTypeOK, Steps
  <1>2. ~(i < first)
    BY DEF FlowInv, ThreadsFit
  <1>3. first <= i
    BY <1>1, <1>2
  <1>4. i \in BatchFrom(first) /\ flowPc \notin {"plan", "batch", "validate", "returned", "raised"}
    BY <1>3 DEF FlowInv, ThreadsFit
  <1> QED  BY <1>3, <1>4 DEF FlowInv, FlowTypeOK, ThreadsFit

(* The steps of the threads: worker.work and run_submission. *)
LEMMA ThreadKeepsInv ==
    ASSUME FlowInv, NEW i \in Steps, Work(i) \/ Started(i) \/ RunSubmission(i)
    PROVE  FlowInv'
  <1>1. /\ thread[i] \in {"work", "run"}
        /\ UNCHANGED <<plan, flowPc, first, prior, records, result>>
    BY DEF Work, Started, RunSubmission
  <1>2. flowPc = "join" /\ first \in Steps /\ i \in BatchFrom(first) /\ first <= i
    BY <1>1, WorkerIsInBatch
  <1>3. FlowTypeOK /\ StatusFits
    BY DEF FlowInv
  <1>3a. /\ stored' = [stored EXCEPT ![i] = status'[i]]
         /\ \A j \in Steps : j # i => stored'[j] = stored[j]
         /\ stored'[i] = status'[i]
    <2>1. status \in [Steps -> {"none", "pending", "running"} \cup Results]
          /\ stored \in [Steps -> {"none", "pending", "running", "approved", "cancelled"} \cup Results]
      BY <1>3 DEF FlowTypeOK
    <2>2. stored' = [stored EXCEPT ![i] = status'[i]]
      BY <2>1 DEF Work, Started, RunSubmission
    <2> QED  BY <2>1, <2>2
  <1>4. /\ thread' \in [Steps -> {"new", "work", "run", "done", "raised"}]
        /\ status' \in [Steps -> {"none", "pending", "running"} \cup Results]
        /\ thread'[i] \in {"run", "done", "raised"}
        /\ \A j \in Steps : j # i => thread'[j] = thread[j] /\ status'[j] = status[j]
        /\ thread'[i] = "run" => status'[i] \in {"pending", "running"}
        /\ thread'[i] = "done" => status'[i] \in Results
    <2>1. CASE Work(i)
      BY <1>3, <2>1 DEF Work, FlowTypeOK
    <2>2. CASE Started(i)
      BY <1>3, <2>2 DEF Started, FlowTypeOK
    <2>3. CASE RunSubmission(i)
      <3>1. status[i] \in {"pending", "running"} /\ thread[i] = "run"
        BY <1>3, <2>3 DEF StatusFits, RunSubmission
      <3>2. \A o \in Outcomes[status[i]] : o \in Results
        BY <3>1 DEF Outcomes, Results
      <3> QED  BY <1>3, <2>3, <3>1, <3>2 DEF RunSubmission, FlowTypeOK
    <2> QED  BY <2>1, <2>2, <2>3
  <1>5. FlowTypeOK'
    <2>1. stored' \in [Steps -> {"none", "pending", "running", "approved", "cancelled"} \cup Results]
      <3>1. status'[i] \in {"none", "pending", "running"} \cup Results
        BY <1>4
      <3> QED  BY <1>3, <1>3a, <3>1 DEF FlowTypeOK
    <2> QED  BY <1>1, <1>3, <1>4, <2>1 DEF FlowTypeOK, Steps
  <1>6. Steps' = Steps /\ BatchFrom(first)' = BatchFrom(first)
    BY <1>1 DEF Steps, BatchFrom
  <1>7. \A a, b : SameBatch(a, b)' = SameBatch(a, b)
    BY <1>1 DEF SameBatch
  <1>8. AtBatchEdge'
    BY <1>1, <1>6, <1>7 DEF FlowInv, AtBatchEdge
  <1>9. StatusFits'
    BY <1>3, <1>4, <1>6 DEF StatusFits
  <1>10. ThreadsFit'
    <2>1. first \in Nat /\ i \in Nat
      BY <1>3 DEF FlowTypeOK, Steps
    <2>2. ASSUME NEW j \in Steps, j < first PROVE thread'[j] = "done" /\ status'[j] # "failed"
      BY <1>2, <1>4, <2>1, <2>2 DEF FlowInv, ThreadsFit, Steps
    <2>3. ASSUME NEW j \in Steps, first <= j, j \notin BatchFrom(first) PROVE thread'[j] = "new"
      BY <1>2, <1>4, <2>3 DEF FlowInv, ThreadsFit
    <2> QED  BY <1>1, <1>2, <1>6, <2>2, <2>3 DEF ThreadsFit
  <1>11. RecordsFit'
    BY <1>1, <1>2 DEF FlowInv, RecordsFit
  <1>12. PriorFits'
    <2>1. \A j \in Steps : thread'[j] # "new" => thread[j] # "new"
      BY <1>1, <1>4
    <2> QED  BY <1>1, <1>6, <1>7, <2>1 DEF FlowInv, PriorFits
  <1>13. StoredFits'
    BY <1>3a, <1>4, <1>6 DEF FlowInv, StoredFits
  <1> QED  BY <1>13, <1>5, <1>8, <1>9, <1>10, <1>11, <1>12 DEF FlowInv

(* The steps of run() that change no thread: the plan, the end of the       *)
(* batches and the validation.                                              *)
LEMMA EndsKeepInv ==
    ASSUME FlowInv, Plan \/ BatchesDone \/ Validate
    PROVE  FlowInv'
  <1>1. UNCHANGED <<plan, first, thread, status, stored, prior, records>>
    BY DEF Plan, BatchesDone, Validate
  <1>2. Steps' = Steps /\ BatchFrom(first)' = BatchFrom(first)
    BY <1>1 DEF Steps, BatchFrom
  <1>3. \A a, b : SameBatch(a, b)' = SameBatch(a, b)
    BY <1>1 DEF SameBatch
  <1>4. FlowTypeOK'
    BY <1>1 DEF FlowInv, FlowTypeOK, Steps, Plan, BatchesDone, Validate
  <1>5. AtBatchEdge' /\ StatusFits' /\ PriorFits' /\ StoredFits'
    BY <1>1, <1>2, <1>3 DEF FlowInv, AtBatchEdge, StatusFits, PriorFits, StoredFits
  <1>6. /\ first \in Nat /\ Len(plan) \in Nat /\ Len(records) \in Nat
        /\ \A i \in Steps : i \in Nat /\ i <= Len(plan)
        /\ first <= Len(plan) + 1
    BY DEF FlowInv, FlowTypeOK, Steps
  <1>7. flowPc \in {"plan", "batch", "validate"} /\ flowPc' # "join"
    BY DEF Plan, BatchesDone, Validate
  <1>8. \A i \in Steps : (first <= i => thread[i] = "new") /\ (i < first => thread[i] = "done")
    BY <1>7 DEF FlowInv, ThreadsFit
  <1>9. \A i \in Steps : thread[i] \in {"new", "done"}
    BY <1>6, <1>8
  <1>10. ThreadsFit'
    BY <1>1, <1>2, <1>7, <1>8, <1>9 DEF FlowInv, ThreadsFit
  <1>11. RecordsFit'
    <2>1. /\ \A i \in 1..Len(records) : records[i] = i
          /\ Len(records) = first - 1 /\ result = "running" /\ Len(records) <= Len(plan)
      BY <1>7 DEF FlowInv, RecordsFit
    <2>2. CASE Plan
      BY <1>1, <2>1, <2>2 DEF Plan, RecordsFit
    <2>3. CASE BatchesDone
      <3>1. first = Len(plan) + 1
        BY <1>6, <2>3 DEF BatchesDone
      <3> QED  BY <1>1, <2>1, <2>3, <3>1 DEF BatchesDone, RecordsFit
    <2>4. CASE Validate
      <3>1. first = Len(plan) + 1
        BY <2>4 DEF Validate, FlowInv, RecordsFit
      <3>2. \A i \in Steps : i <= Len(records) /\ thread[i] = "done"
        BY <1>6, <1>8, <2>1, <3>1
      <3>3. Len(records) = Len(plan)
        BY <1>6, <2>1, <3>1
      <3> QED  BY <1>1, <1>2, <2>1, <2>4, <3>1, <3>2, <3>3 DEF Validate, RecordsFit
    <2> QED  BY <2>2, <2>3, <2>4
  <1> QED  BY <1>4, <1>5, <1>10, <1>11 DEF FlowInv


(* The threads of a batch begin, with the records collected so far. *)
LEMMA StartKeepsInv == ASSUME FlowInv, StartBatch PROVE FlowInv'
  <1>1. /\ flowPc = "batch" /\ flowPc' = "join" /\ first <= Len(plan)
        /\ UNCHANGED <<plan, first, status, stored, records, result>>
    BY DEF StartBatch
  <1>2. FlowTypeOK
    BY DEF FlowInv
  <1>3. /\ first \in Steps /\ first \in Nat /\ Len(plan) \in Nat
        /\ \A i \in Steps : i \in Nat /\ 1 <= i
    BY <1>1, <1>2 DEF FlowTypeOK, Steps
  <1>4. \A i \in Steps : (first <= i => thread[i] = "new") /\ (i < first => thread[i] = "done")
    BY <1>1 DEF FlowInv, ThreadsFit
  <1>5. /\ BatchFrom(first) \subseteq Steps
        /\ \A i \in BatchFrom(first) : first <= i
        /\ \A i, j \in BatchFrom(first) : i < j => SameBatch(i, j)
        /\ \A i, j \in Steps : i \in BatchFrom(first) /\ i < j /\ SameBatch(i, j) => j \in BatchFrom(first)
    BY <1>2, <1>3, BatchIsRun DEF FlowTypeOK
  <1>6. /\ thread' \in [Steps -> {"new", "work", "run", "done", "raised"}]
        /\ prior' \in [Steps -> Seq(Nat)]
        /\ \A i \in BatchFrom(first) : thread'[i] = "work" /\ prior'[i] = records
        /\ \A i \in Steps \ BatchFrom(first) : thread'[i] = thread[i] /\ prior'[i] = prior[i]
    BY <1>2, <1>5 DEF StartBatch, FlowTypeOK
  <1>7. Steps' = Steps /\ BatchFrom(first)' = BatchFrom(first)
    BY <1>1 DEF Steps, BatchFrom
  <1>8. \A a, b : SameBatch(a, b)' = SameBatch(a, b)
    BY <1>1 DEF SameBatch
  <1>9. FlowTypeOK'
    BY <1>1, <1>2, <1>6, <1>7 DEF FlowTypeOK
  <1>10. AtBatchEdge'
    BY <1>1, <1>7, <1>8 DEF FlowInv, AtBatchEdge
  <1>11. StatusFits'
    BY <1>1, <1>4, <1>5, <1>6, <1>7 DEF FlowInv, StatusFits
  <1>12. ThreadsFit'
    <2>1. ASSUME NEW i \in Steps, i < first PROVE thread'[i] = "done" /\ status'[i] # "failed"
      <3>1. i \notin BatchFrom(first)
        BY <1>3, <1>5, <2>1
      <3> QED  BY <1>1, <1>6, <2>1, <3>1 DEF FlowInv, ThreadsFit
    <2> QED  BY <1>1, <1>3, <1>4, <1>6, <1>7, <2>1 DEF ThreadsFit
  <1>13. RecordsFit'
    BY <1>1 DEF FlowInv, RecordsFit
  <1>14. PriorFits'
    <2> SUFFICES ASSUME NEW j \in Steps, thread'[j] # "new", NEW i \in Steps, i < j
                 PROVE  (\E k \in 1..Len(prior'[j]) : prior'[j][k] = i) <=> ~SameBatch(i, j)
      BY <1>7, <1>8 DEF PriorFits
    <2>1. CASE j \in BatchFrom(first)
      <3>1. /\ \A k \in 1..Len(records) : records[k] = k
            /\ Len(records) = first - 1
        BY <1>1 DEF FlowInv, RecordsFit
      <3>2. (\E k \in 1..Len(records) : records[k] = i) <=> i < first
        BY <1>3, <3>1
      <3>3. i < first => ~SameBatch(i, j)
        BY <1>5, <2>1 DEF FlowInv, AtBatchEdge
      <3>4. ~(i < first) => SameBatch(i, j)
        <4> SUFFICES ASSUME ~(i < first) PROVE SameBatch(i, j)
          OBVIOUS
        <4>1. first <= i /\ j \in first..Len(plan) /\ i \in first..j /\ j # first
          BY <1>3, <1>5, <2>1 DEF Steps
        <4>2. plan[first] # NoGroup /\ \A k \in first..j : plan[k] = plan[first]
          BY <2>1, <4>1 DEF BatchFrom
        <4>3. \A k \in i..j : k \in first..j
          BY <1>3, <4>1
        <4> QED  BY <4>1, <4>2, <4>3 DEF SameBatch
      <3> QED  BY <1>6, <2>1, <3>2, <3>3, <3>4
    <2>2. CASE j \notin BatchFrom(first)
      <3>1. prior'[j] = prior[j] /\ thread[j] # "new"
        BY <1>6, <2>2
      <3> QED  BY <3>1 DEF FlowInv, PriorFits
    <2> QED  BY <2>1, <2>2
  <1>15. StoredFits'
    <2>1. \A i \in Steps : thread[i] = "raised" => thread'[i] = "raised"
      BY <1>4, <1>5, <1>6
    <2> QED  BY <1>1, <1>7, <2>1 DEF FlowInv, StoredFits
  <1> QED  BY <1>15, <1>9, <1>10, <1>11, <1>12, <1>13, <1>14 DEF FlowInv

(* The batch is joined: a thread raised, a step failed, or the next batch   *)
(* begins behind it.                                                        *)
LEMMA JoinKeepsInv == ASSUME FlowInv, Join PROVE FlowInv'
  <1>1. /\ flowPc = "join"
        /\ \A i \in BatchFrom(first) : thread[i] \in {"done", "raised"}
        /\ AfterBatch
        /\ UNCHANGED <<plan, thread, status, stored, prior>>
    BY DEF Join
  <1>2. FlowTypeOK
    BY DEF FlowInv
  <1>3. /\ first \in Steps /\ first \in Nat /\ Len(plan) \in Nat /\ Len(records) \in Nat
        /\ \A i \in Steps : i \in Nat /\ 1 <= i
    BY <1>1, <1>2 DEF FlowInv, FlowTypeOK, ThreadsFit, Steps
  <1>4. /\ \A i \in Steps : i < first => thread[i] = "done" /\ status[i] # "failed"
        /\ \A i \in Steps : first <= i /\ i \notin BatchFrom(first) => thread[i] = "new"
    BY DEF FlowInv, ThreadsFit
  <1>5. \A i \in Steps : thread[i] \notin {"work", "run"}
    BY <1>1, <1>3, <1>4
  <1>6. /\ \A k \in 1..Len(records) : records[k] = k
        /\ Len(records) = first - 1 /\ result = "running"
    BY <1>1 DEF FlowInv, RecordsFit
  <1>7. Steps' = Steps
    BY <1>1 DEF Steps
  <1>8. \A a, b : SameBatch(a, b)' = SameBatch(a, b)
    BY <1>1 DEF SameBatch
  <1>9. StatusFits' /\ PriorFits' /\ StoredFits'
    BY <1>1, <1>7, <1>8 DEF FlowInv, StatusFits, PriorFits, StoredFits
  <1>10. CASE flowPc' = "raised" /\ UNCHANGED <<first, records, result>>
    <2>1. BatchFrom(first)' = BatchFrom(first)
      BY <1>1, <1>10 DEF BatchFrom
    <2>2. FlowTypeOK'
      BY <1>1, <1>2, <1>7, <1>10 DEF FlowTypeOK
    <2>3. AtBatchEdge'
      BY <1>7, <1>8, <1>10 DEF FlowInv, AtBatchEdge
    <2>4. ThreadsFit'
      BY <1>1, <1>4, <1>5, <1>7, <1>10, <2>1 DEF ThreadsFit
    <2>5. RecordsFit'
      BY <1>1, <1>10 DEF FlowInv, RecordsFit
    <2> QED  BY <1>9, <2>2, <2>3, <2>4, <2>5 DEF FlowInv
  <1>11. ASSUME NEW last \in Steps, BatchFrom(first) = first..last,
                \A i \in BatchFrom(first) : thread[i] # "raised",
                records' = records \o Collected(last)
         PROVE  /\ records' \in Seq(Nat) /\ Len(records') = last /\ last <= Len(plan) /\ first <= last
                /\ \A k \in 1..Len(records') : records'[k] = k
                /\ \A i \in Steps : IF i <= last THEN thread[i] = "done" ELSE thread[i] = "new"
    <2>0. last \in Nat /\ last <= Len(plan) /\ first <= last
      <3>1. first \in BatchFrom(first)
        BY <1>2, <1>3, BatchIsRun DEF FlowTypeOK
      <3> QED  BY <1>3, <1>11, <3>1 DEF Steps
    <2>1. /\ Collected(last) \in Seq(Nat) /\ Len(Collected(last)) = last - first + 1
          /\ \A k \in 1..(last - first + 1) : Collected(last)[k] = first + k - 1
      BY <1>3, <2>0 DEF Collected
    <2>2. records \in Seq(Nat)
      BY <1>2 DEF FlowTypeOK
    <2>3. /\ records' \in Seq(Nat) /\ Len(records') = Len(records) + Len(Collected(last))
          /\ \A k \in 1..(Len(records) + Len(Collected(last))) :
                 records'[k] = IF k <= Len(records) THEN records[k] ELSE Collected(last)[k - Len(records)]
      BY <1>11, <2>1, <2>2, ConcatProperties
    <2>4. Len(records') = last
      BY <1>3, <1>6, <2>0, <2>1, <2>3
    <2>5. ASSUME NEW k \in 1..last PROVE records'[k] = k
      <3>1. CASE k <= Len(records)
        BY <1>3, <1>6, <2>0, <2>3, <2>4, <3>1, SMTT(30)
      <3>2. CASE ~(k <= Len(records))
        <4>1. k - Len(records) \in 1..(last - first + 1)
          BY <1>3, <1>6, <2>0, <3>2
        <4>2. records'[k] = Collected(last)[k - Len(records)]
          BY <2>3, <2>4, <3>2
        <4> QED  BY <1>3, <1>6, <2>0, <2>1, <4>1, <4>2
      <3> QED  BY <3>1, <3>2
    <2>6. ASSUME NEW i \in Steps PROVE IF i <= last THEN thread[i] = "done" ELSE thread[i] = "new"
      <3>1. CASE i < first
        BY <1>3, <1>4, <2>0, <3>1
      <3>2. CASE i \in first..last
        <4>1. thread[i] = "done"
          BY <1>1, <1>11, <3>2
        <4> QED  BY <3>2, <4>1
      <3>3. CASE last < i
        <4>1. first <= i /\ i \notin BatchFrom(first) /\ ~(i <= last)
          BY <1>3, <1>11, <2>0, <3>3
        <4> QED  BY <1>4, <4>1
      <3> QED  BY <1>3, <2>0, <3>1, <3>2, <3>3
    <2> QED  BY <2>0, <2>3, <2>4, <2>5, <2>6
  <1>12. ASSUME NEW last \in Steps, BatchFrom(first) = first..last,
                \A i \in BatchFrom(first) : thread[i] # "raised",
                records' = records \o Collected(last),
                \E i \in BatchFrom(first) : status[i] = "failed",
                result' = "failed", flowPc' = "returned", first' = first
         PROVE  FlowInv'
    <2>1. /\ records' \in Seq(Nat) /\ Len(records') = last /\ last <= Len(plan) /\ first <= last
          /\ \A k \in 1..Len(records') : records'[k] = k
          /\ \A i \in Steps : IF i <= last THEN thread[i] = "done" ELSE thread[i] = "new"
      BY <1>11, <1>12
    <2>2. BatchFrom(first)' = BatchFrom(first)
      BY <1>1, <1>12 DEF BatchFrom
    <2>3. FlowTypeOK'
      BY <1>1, <1>2, <1>7, <1>12, <2>1 DEF FlowTypeOK
    <2>4. AtBatchEdge'
      BY <1>7, <1>8, <1>12 DEF FlowInv, AtBatchEdge
    <2>5. ThreadsFit'
      BY <1>1, <1>4, <1>5, <1>7, <1>12, <2>2 DEF ThreadsFit
    <2>6. \E i \in 1..last : status'[i] = "failed"
      BY <1>1, <1>3, <1>12 DEF Steps
    <2>7. RecordsFit'
      BY <1>1, <1>7, <1>12, <2>1, <2>6 DEF RecordsFit
    <2> QED  BY <1>9, <2>3, <2>4, <2>5, <2>7 DEF FlowInv
  <1>13. ASSUME NEW last \in Steps, BatchFrom(first) = first..last,
                \A i \in BatchFrom(first) : thread[i] # "raised",
                records' = records \o Collected(last),
                ~\E i \in BatchFrom(first) : status[i] = "failed",
                result' = result, flowPc' = "batch", first' = last + 1
         PROVE  FlowInv'
    <2>0. last \in Nat /\ last <= Len(plan)
      BY <1>3 DEF Steps
    <2>1. /\ records' \in Seq(Nat) /\ Len(records') = last /\ first <= last
          /\ \A k \in 1..Len(records') : records'[k] = k
          /\ \A i \in Steps : IF i <= last THEN thread[i] = "done" ELSE thread[i] = "new"
      BY <1>11, <1>13
    <2>2. FlowTypeOK'
      BY <1>1, <1>2, <1>3, <1>7, <1>13, <2>0, <2>1 DEF FlowTypeOK
    <2>3. ASSUME NEW i \in Steps, NEW j \in Steps, i <= last, last < j PROVE ~SameBatch(i, j)
      <3>1. CASE i < first
        <4>1. first <= j
          BY <1>3, <2>0, <2>1, <2>3
        <4> QED  BY <3>1, <4>1 DEF FlowInv, AtBatchEdge
      <3>2. CASE ~(i < first)
        <4>1. i \in first..last /\ i < j /\ j \notin first..last
          BY <1>3, <2>0, <2>3, <3>2
        <4>2. i \in BatchFrom(first) /\ j \notin BatchFrom(first)
          BY <1>13, <4>1
        <4>3. \A a, b \in Steps : a \in BatchFrom(first) /\ a < b /\ SameBatch(a, b) => b \in BatchFrom(first)
          BY <1>2, <1>3, BatchIsRun DEF FlowTypeOK
        <4> QED  BY <4>1, <4>2, <4>3
      <3> QED  BY <3>1, <3>2
    <2>4. \A i \in Steps : (i < last + 1 <=> i <= last) /\ (last + 1 <= i <=> last < i)
      BY <1>3, <2>0
    <2>5. AtBatchEdge'
      BY <1>7, <1>8, <1>13, <2>3, <2>4 DEF AtBatchEdge
    <2>6. ASSUME NEW i \in Steps, i <= last PROVE status[i] # "failed"
      <3>1. CASE i < first
        BY <1>4, <3>1
      <3>2. CASE ~(i < first)
        <4>1. i \in first..last
          BY <1>3, <2>0, <2>6, <3>2
        <4> QED  BY <1>13, <4>1
      <3> QED  BY <3>1, <3>2
    <2>7. \A i \in Steps : last + 1 <= i => thread[i] = "new"
      BY <1>3, <2>0, <2>1
    <2>8. ThreadsFit'
      BY <1>1, <1>7, <1>13, <2>1, <2>4, <2>6, <2>7 DEF ThreadsFit
    <2>9. RecordsFit'
      BY <1>1, <1>6, <1>13, <2>0, <2>1 DEF RecordsFit
    <2> QED  BY <1>9, <2>2, <2>5, <2>8, <2>9 DEF FlowInv
  <1> QED  BY <1>1, <1>10, <1>12, <1>13 DEF AfterBatch

(* A later call on a step's task changes nothing that run() looks at. *)
LEMMA LaterKeepsInv == ASSUME FlowInv, NEW i \in Steps, LaterCall(i) PROVE FlowInv'
  <1>1. UNCHANGED <<plan, flowPc, first, thread, status, prior, records, result>>
    BY DEF LaterCall
  <1>2. Steps' = Steps /\ BatchFrom(first)' = BatchFrom(first)
    BY <1>1 DEF Steps, BatchFrom
  <1>3. \A a, b : SameBatch(a, b)' = SameBatch(a, b)
    BY <1>1 DEF SameBatch
  <1>4. FlowTypeOK /\ StoredFits /\ StatusFits
    BY DEF FlowInv
  <1>5. /\ stored \in [Steps -> {"none", "pending", "running", "approved", "cancelled"} \cup Results]
        /\ stored[i] \in {"pending", "awaiting_approval", "approved", "running"}
        /\ \E t \in LaterMoves[stored[i]] : stored' = [stored EXCEPT ![i] = t]
    BY <1>4 DEF FlowTypeOK, LaterCall, LaterMoves
  <1>6. PICK t \in LaterMoves[stored[i]] : stored' = [stored EXCEPT ![i] = t]
    BY <1>5
  <1>7. t \in {"running", "approved", "cancelled"} \cup Results
    BY <1>5, <1>6 DEF LaterMoves, Results
  <1>8. FlowTypeOK'
    <2>1. stored' \in [Steps -> {"none", "pending", "running", "approved", "cancelled"} \cup Results]
      BY <1>5, <1>6, <1>7
    <2> QED  BY <1>1, <1>2, <1>4, <2>1 DEF FlowTypeOK
  <1>9. StoredFits'
    <2>1. /\ \A j \in Steps : j # i => stored'[j] = stored[j]
          /\ stored'[i] # "none" /\ stored[i] # "none"
      BY <1>5, <1>6, <1>7 DEF Results
    <2>2. status[i] = "awaiting_approval" \/ (thread[i] = "raised" /\ status[i] = "pending")
      BY <1>4, <1>5 DEF StoredFits, StatusFits, LaterCall, Results
    <2> QED  BY <1>1, <1>2, <1>4, <2>1, <2>2 DEF StoredFits
  <1> QED  BY <1>1, <1>2, <1>3, <1>8, <1>9
           DEF FlowInv, AtBatchEdge, StatusFits, ThreadsFit, RecordsFit, PriorFits

(* Every step of a run keeps the invariant. *)
LEMMA FlowStep == FlowInv /\ [FlowNext]_flowVars => FlowInv'
  <1> SUFFICES ASSUME FlowInv, [FlowNext]_flowVars PROVE FlowInv'
    OBVIOUS
  <1>1. CASE Plan \/ BatchesDone \/ Validate
    BY <1>1, EndsKeepInv
  <1>2. CASE StartBatch
    BY <1>2, StartKeepsInv
  <1>3. CASE Join
    BY <1>3, JoinKeepsInv
  <1>4. ASSUME NEW i \in Steps, StepThread(i) PROVE FlowInv'
    BY <1>4, ThreadKeepsInv DEF StepThread
  <1>5. CASE UNCHANGED flowVars
    <2>1. UNCHANGED <<plan, flowPc, first, thread, status, stored, prior, records, result>>
      BY <1>5 DEF flowVars
    <2>2. Steps' = Steps /\ BatchFrom(first)' = BatchFrom(first)
      BY <2>1 DEF Steps, BatchFrom
    <2>3. \A a, b : SameBatch(a, b)' = SameBatch(a, b)
      BY <2>1 DEF SameBatch
    <2> QED  BY <2>1, <2>2, <2>3
             DEF FlowInv, FlowTypeOK, AtBatchEdge, StatusFits, ThreadsFit, RecordsFit, PriorFits, StoredFits
  <1>6. ASSUME NEW i \in Steps, LaterCall(i) PROVE FlowInv'
    BY <1>6, LaterKeepsInv
  <1> QED  BY <1>1, <1>2, <1>3, <1>4, <1>5, <1>6 DEF FlowNext, Main

(* The batches of a run follow each other. *)
LEMMA FlowInvariant == FlowSpec => []FlowInv
  BY FlowInitial, FlowStep, PTL DEF FlowSpec

-----------------------------------------------------------------------------
(* WorkflowOrchestrator.run, for any plan: a step begins only when every    *)
(* step of an earlier batch came back and none failed, and no thread is     *)
(* left at work when run() returns or raises.                               *)
THEOREM BarrierTheorem == FlowSpec => []BatchBarrier
  <1>1. FlowInv => BatchBarrier
    <2> SUFFICES ASSUME FlowInv PROVE BatchBarrier
      OBVIOUS
    <2>1. ASSUME NEW i \in Steps, NEW j \in Steps, i < j, thread[j] # "new", ~SameBatch(i, j)
          PROVE  thread[i] = "done" /\ status[i] # "failed"
      <3>0. first \in Nat /\ i \in Nat /\ j \in Nat /\ 1 <= first /\ Len(plan) \in Nat
        BY DEF FlowInv, FlowTypeOK, Steps
      <3>1. i < first
        <4> SUFFICES ASSUME ~(i < first) PROVE FALSE
          OBVIOUS
        <4>1. first <= i /\ first <= j
          BY <2>1, <3>0
        <4>2. j \in BatchFrom(first) /\ j \in first..Len(plan) /\ first \in Steps
          BY <2>1, <3>0, <4>1 DEF FlowInv, ThreadsFit, Steps
        <4>3. j # first /\ i \in first..j /\ \A k \in i..j : k \in first..j
          BY <2>1, <3>0, <4>1
        <4>4. plan[first] # NoGroup /\ \A k \in first..j : plan[k] = plan[first]
          BY <4>2, <4>3 DEF BatchFrom
        <4>5. SameBatch(i, j)
          BY <4>3, <4>4 DEF SameBatch
        <4> QED  BY <2>1, <4>5
      <3> QED  BY <3>1 DEF FlowInv, ThreadsFit
    <2>2. flowPc \in {"returned", "raised"} => \A i \in Steps : thread[i] \notin {"work", "run"}
      BY DEF FlowInv, ThreadsFit
    <2> QED  BY <2>1, <2>2 DEF BatchBarrier
  <1> QED  BY <1>1, FlowInvariant, PTL

(* The same for its results: they are collected in plan order whatever      *)
(* order the threads finish in, and a step is given those of the batches    *)
(* before its own.                                                          *)
THEOREM ResultsTheorem == FlowSpec => []ResultsInPlanOrder
  <1>1. FlowInv => ResultsInPlanOrder
    <2> SUFFICES ASSUME FlowInv PROVE ResultsInPlanOrder
      OBVIOUS
    <2>1. records = [i \in 1..Len(records) |-> i]
      <3>1. records \in Seq(Nat) /\ \A i \in 1..Len(records) : records[i] = i
        BY DEF FlowInv, FlowTypeOK, RecordsFit
      <3> QED  BY <3>1
    <2>2. ASSUME NEW j \in Steps, thread[j] # "new", NEW i \in Steps, i < j
          PROVE  (i \in {prior[j][k] : k \in 1..Len(prior[j])}) = ~SameBatch(i, j)
      <3>1. (\E k \in 1..Len(prior[j]) : prior[j][k] = i) <=> ~SameBatch(i, j)
        BY <2>2 DEF FlowInv, PriorFits
      <3>2. (i \in {prior[j][k] : k \in 1..Len(prior[j])})
                <=> \E k \in 1..Len(prior[j]) : prior[j][k] = i
        OBVIOUS
      <3> QED  BY <3>1, <3>2
    <2> QED  BY <2>1, <2>2 DEF ResultsInPlanOrder
  <1> QED  BY <1>1, FlowInvariant, PTL

(* Once run() has returned and its answer shows the workflow ended, every   *)
(* later GET shows the same, whatever calls on the steps' tasks came in     *)
(* between; and a failed workflow is never shown complete.                  *)
THEOREM TraceTheorem == FlowSpec => []EndedAnswerStands
  <1>1. FlowInv => EndedAnswerStands
    <2> SUFFICES ASSUME FlowInv, flowPc = "returned"
                 PROVE  /\ RunWorkflowAnswer \in {"completed", "failed", "partial"} =>
                              WorkflowTrace = RunWorkflowAnswer
                        /\ result = "failed" => WorkflowTrace \notin {"pending", "completed"}
      BY DEF EndedAnswerStands
    <2> DEFINE live == {stored[i] : i \in Steps} \ {"none"}
               collected == {status[i] : i \in ToSet(records)}
    <2>1. /\ records \in Seq(Nat) /\ \A i \in 1..Len(records) : records[i] = i
          /\ Len(records) \in Nat /\ Len(plan) \in Nat /\ Len(records) <= Len(plan)
      BY DEF FlowInv, FlowTypeOK, RecordsFit
    <2>2. ToSet(records) = 1..Len(records) /\ ToSet(records) \subseteq Steps
      BY <2>1 DEF ToSet, Steps
    <2>3. /\ \A i \in Steps : IF i <= Len(records) THEN thread[i] = "done" ELSE thread[i] = "new"
          /\ result = "failed" => \E i \in 1..Len(records) : status[i] = "failed"
      BY DEF FlowInv, RecordsFit
    <2>4. ASSUME NEW i \in Steps
          PROVE  /\ i \in ToSet(records) => status[i] \in Results /\ stored[i] # "none"
                 /\ i \in ToSet(records) /\ status[i] # "awaiting_approval" => stored[i] = status[i]
                 /\ i \notin ToSet(records) => stored[i] = "none"
      <3>1. i \in Nat /\ 1 <= i /\ (i \in ToSet(records) <=> i <= Len(records))
        BY <2>1, <2>2 DEF Steps
      <3>2. i \in ToSet(records) => thread[i] = "done" /\ status[i] \in Results
        BY <2>3, <3>1 DEF FlowInv, StatusFits
      <3>3. i \notin ToSet(records) => status[i] = "none"
        BY <2>3, <3>1 DEF FlowInv, StatusFits
      <3>4. /\ stored[i] = "none" <=> status[i] = "none"
            /\ stored[i] = status[i] \/ status[i] = "awaiting_approval"
                 \/ (thread[i] = "raised" /\ status[i] = "pending")
        BY DEF FlowInv, StoredFits
      <3> QED  BY <3>2, <3>3, <3>4 DEF Results
    <2>5. ASSUME RunWorkflowAnswer \in {"completed", "failed", "partial"}
          PROVE  WorkflowTrace = RunWorkflowAnswer
      <3>1. "awaiting_approval" \notin collected /\ collected # {}
        BY <2>5 DEF RunWorkflowAnswer, TraceStatus
      <3>2. \A i \in ToSet(records) : i \in Steps /\ stored[i] = status[i] /\ stored[i] # "none"
        BY <2>2, <2>4, <3>1
      <3>3. live = collected
        BY <2>4, <3>2
      <3> QED  BY <3>1, <3>3 DEF WorkflowTrace, RunWorkflowAnswer
    <2>6. ASSUME result = "failed" PROVE WorkflowTrace \notin {"pending", "completed"}
      <3>1. PICK i \in ToSet(records) : status[i] = "failed"
        BY <2>2, <2>3, <2>6
      <3>2. i \in Steps /\ stored[i] = "failed"
        BY <2>2, <2>4, <3>1
      <3>3. "failed" \in live
        BY <3>2
      <3>4. live # {"completed"} /\ ~(live \subseteq {"pending"}) /\ live # {}
        BY <3>3
      <3> QED  BY <3>4 DEF WorkflowTrace, TraceStatus
    <2> QED  BY <2>5, <2>6
  <1> QED  BY <1>1, FlowInvariant, PTL
=============================================================================
