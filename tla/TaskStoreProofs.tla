-------------------------- MODULE TaskStoreProofs --------------------------
(* Proofs about the task stores: LocalTaskStore, for any number of clients, *)
(* ids and records; then TaskStoreBackends, its concurrent saves and lists  *)
(* and the pages of its lists.                                              *)
EXTENDS LocalTaskStore, TaskStoreBackends, FiniteSetTheorems, SequenceTheorems, TLAPS

(* Only the client that holds the lock is past AcquireLock. *)
LockInv == \A c \in Clients : pc[c] \in LockedLabels <=> lock = c

(* The visible file and the one the disk names are whole and fsynced. *)
IntactInv ==
    /\ file.content \in Payloads /\ file.synced = TRUE
    /\ disk.content \in Payloads /\ disk.synced = TRUE

(* What the holder of the lock knows: its dictionary is the file, with its  *)
(* own record changed once it has begun to write.                           *)
HolderInv ==
    \A c \in Clients :
        /\ pc[c] \in WriteLabels => request[c] \in Saves
        /\ pc[c] = "mkstemp" => payload[c] = file.content
        /\ pc[c] \in {"dump", "fsync", "replace"} =>
             payload[c] = [file.content EXCEPT ![request[c].id] = request[c].record]
        /\ pc[c] = "replace" => tmp[c] = "synced"
        /\ raised[c] = TRUE => pc[c] = "release"

IInv == TypeOK /\ LockInv /\ IntactInv /\ HolderInv

(* A store without records is a whole file. *)
LEMMA EmptyIsPayload == Empty \in Payloads
  BY DEF Empty, Payloads

(* So is a whole file with one record replaced. *)
LEMMA SaveIsPayload ==
  ASSUME NEW p \in Payloads, NEW r \in Saves
  PROVE  [p EXCEPT ![r.id] = r.record] \in Payloads
  BY DEF Payloads, Saves

(* The store starts whole, unlocked and idle. *)
LEMMA IInvInit == Init => IInv
  <1> SUFFICES ASSUME Init PROVE IInv
    OBVIOUS
  <1> USE DEF Init
  <1>1. file \in Files /\ disk \in Files
    BY EmptyIsPayload DEF Files
  <1>2. TypeOK
    BY <1>1, EmptyIsPayload DEF TypeOK, Labels, Requests
  <1>3. LockInv
    BY StoreConstants DEF LockInv, LockedLabels, WriteLabels
  <1>4. IntactInv
    BY EmptyIsPayload DEF IntactInv
  <1>5. HolderInv
    BY DEF HolderInv, WriteLabels
  <1> QED BY <1>2, <1>3, <1>4, <1>5 DEF IInv

(* Every system call, failure, kill and power loss keeps IInv. *)
LEMMA IInvNext == IInv /\ [Next]_vars => IInv'
  <1> SUFFICES ASSUME IInv, [Next]_vars PROVE IInv'
    OBVIOUS
  <1> USE DEF IInv
  <1>1. ASSUME NEW c \in Clients, Call(c) PROVE IInv'
    <2> USE <1>1 DEF Call, Goto
    <2>1. TypeOK' BY DEF TypeOK, Labels
    <2>2. LockInv' BY DEF LockInv, LockedLabels, WriteLabels, TypeOK
    <2>3. IntactInv' BY DEF IntactInv
    <2>4. HolderInv' BY DEF HolderInv, WriteLabels, TypeOK
    <2> QED BY <2>1, <2>2, <2>3, <2>4
  <1>2. ASSUME NEW c \in Clients, AcquireLock(c) PROVE IInv'
    <2> USE <1>2 DEF AcquireLock, Goto
    <2>1. TypeOK' BY DEF TypeOK, Labels, LockedLabels
    <2>2. LockInv' BY StoreConstants DEF LockInv, LockedLabels, WriteLabels, TypeOK
    <2>3. IntactInv' BY DEF IntactInv
    <2>4. HolderInv' BY DEF HolderInv, WriteLabels, TypeOK
    <2> QED BY <2>1, <2>2, <2>3, <2>4
  <1>3. ASSUME NEW c \in Clients, ReadUnlocked(c) PROVE IInv'
    <2>0. file.content # Corrupt /\ file.content \in Payloads
      BY StoreConstants DEF IntactInv
    <2>a. /\ pc[c] = "read"
          /\ raised' = [raised EXCEPT ![c] = FALSE]
          /\ payload' = [payload EXCEPT ![c] = file.content]
          /\ pc' = [pc EXCEPT ![c] = IF request[c] = ReadRequest THEN "release" ELSE "mkstemp"]
          /\ UNCHANGED <<file, disk, lock, request, tmp>>
      BY <1>3, <2>0 DEF ReadUnlocked, Goto
    <2> USE <2>0, <2>a
    <2>1. TypeOK' BY DEF TypeOK, Labels, LockedLabels, WriteLabels
    <2>2. LockInv' BY DEF LockInv, LockedLabels, WriteLabels, TypeOK
    <2>3. IntactInv' BY DEF IntactInv
    <2>4. HolderInv' BY DEF HolderInv, WriteLabels, TypeOK, Requests
    <2> QED BY <2>1, <2>2, <2>3, <2>4
  <1>4. ASSUME NEW c \in Clients, Mkstemp(c) PROVE IInv'
    <2>0. /\ request[c] \in Saves
          /\ payload[c] = file.content
          /\ payload[c] \in Payloads
      BY <1>4 DEF Mkstemp, HolderInv, IntactInv, WriteLabels
    <2> DEFINE new == [file.content EXCEPT ![request[c].id] = request[c].record]
    <2>a. new \in Payloads
      BY <2>0, SaveIsPayload
    <2>b. payload' = [payload EXCEPT ![c] = new]
      BY <1>4, <2>0 DEF Mkstemp, TypeOK
    <2>c. UNCHANGED <<file, disk, lock, request, raised>>
      BY <1>4 DEF Mkstemp
    <2>d. payload'[c] = [file.content EXCEPT ![request[c].id] = request[c].record]'
      BY <2>b, <2>c DEF TypeOK
    <2> HIDE DEF new
    <2> USE <1>4 DEF Mkstemp, Goto
    <2>1. TypeOK' BY <2>a, <2>b DEF TypeOK, Labels, LockedLabels, WriteLabels
    <2>2. LockInv' BY DEF LockInv, LockedLabels, WriteLabels, TypeOK
    <2>3. IntactInv' BY DEF IntactInv
    <2>4. HolderInv' BY <2>0, <2>b, <2>c, <2>d DEF HolderInv, WriteLabels, TypeOK
    <2> QED BY <2>1, <2>2, <2>3, <2>4
  <1>5. ASSUME NEW c \in Clients, Dump(c) PROVE IInv'
    <2> USE <1>5 DEF Dump, Goto
    <2>1. TypeOK' BY DEF TypeOK, Labels, LockedLabels, WriteLabels
    <2>2. LockInv' BY DEF LockInv, LockedLabels, WriteLabels, TypeOK
    <2>3. IntactInv' BY DEF IntactInv
    <2>4. HolderInv' BY DEF HolderInv, WriteLabels, TypeOK
    <2> QED BY <2>1, <2>2, <2>3, <2>4
  <1>6. ASSUME NEW c \in Clients, Fsync(c) PROVE IInv'
    <2> USE <1>6 DEF Fsync, Goto
    <2>1. TypeOK' BY DEF TypeOK, Labels, LockedLabels, WriteLabels
    <2>2. LockInv' BY DEF LockInv, LockedLabels, WriteLabels, TypeOK
    <2>3. IntactInv' BY DEF IntactInv
    <2>4. HolderInv' BY DEF HolderInv, WriteLabels, TypeOK
    <2> QED BY <2>1, <2>2, <2>3, <2>4
  <1>7. ASSUME NEW c \in Clients, Replace(c) PROVE IInv'
    <2>0. payload[c] \in Payloads /\ tmp[c] = "synced" /\ lock = c
      BY <1>7 DEF Replace, HolderInv, TypeOK, LockInv, LockedLabels, WriteLabels
    <2>a. \A d \in Clients : d # c => pc[d] \notin LockedLabels
      BY <2>0 DEF LockInv
    <2>b. file' = [content |-> payload[c], synced |-> TRUE]
      BY <1>7, <2>0 DEF Replace
    <2> USE <1>7 DEF Replace, Goto
    <2>1. TypeOK' BY <2>0, <2>b DEF TypeOK, Labels, LockedLabels, WriteLabels, Files
    <2>2. LockInv' BY DEF LockInv, LockedLabels, WriteLabels, TypeOK
    <2>3. IntactInv' BY <2>0, <2>b DEF IntactInv
    <2>4. HolderInv' BY <2>a, <2>b DEF HolderInv, WriteLabels, LockedLabels, TypeOK
    <2> QED BY <2>1, <2>2, <2>3, <2>4
  <1>8. ASSUME NEW c \in Clients, Raise(c) PROVE IInv'
    <2> USE <1>8 DEF Raise, Goto
    <2>1. TypeOK' BY DEF TypeOK, Labels, LockedLabels, WriteLabels
    <2>2. LockInv' BY DEF LockInv, LockedLabels, WriteLabels, TypeOK
    <2>3. IntactInv' BY DEF IntactInv
    <2>4. HolderInv' BY DEF HolderInv, WriteLabels, TypeOK
    <2> QED BY <2>1, <2>2, <2>3, <2>4
  <1>9. ASSUME NEW c \in Clients, ReleaseLock(c) PROVE IInv'
    <2>0. lock = c
      BY <1>9 DEF ReleaseLock, LockInv, LockedLabels
    <2> USE <1>9, EmptyIsPayload DEF ReleaseLock, Goto
    <2>1. TypeOK' BY DEF TypeOK, Labels, LockedLabels, WriteLabels
    <2>2. LockInv' BY <2>0, StoreConstants DEF LockInv, LockedLabels, WriteLabels, TypeOK
    <2>3. IntactInv' BY DEF IntactInv
    <2>4. HolderInv' BY DEF HolderInv, WriteLabels, TypeOK
    <2> QED BY <2>1, <2>2, <2>3, <2>4
  <1>10. ASSUME NEW c \in Clients, Kill(c) PROVE IInv'
    <2> USE <1>10, EmptyIsPayload DEF Kill, Goto
    <2>1. TypeOK' BY DEF TypeOK, Labels
    <2>2. LockInv' BY StoreConstants DEF LockInv, LockedLabels, WriteLabels, TypeOK
    <2>3. IntactInv' BY DEF IntactInv
    <2>4. HolderInv' BY DEF HolderInv, WriteLabels, TypeOK
    <2> QED BY <2>1, <2>2, <2>3, <2>4
  <1>11. ASSUME NEW c \in Clients, Start(c) PROVE IInv'
    <2> USE <1>11 DEF Start, Goto
    <2>1. TypeOK' BY DEF TypeOK, Labels
    <2>2. LockInv' BY DEF LockInv, LockedLabels, WriteLabels, TypeOK
    <2>3. IntactInv' BY DEF IntactInv
    <2>4. HolderInv' BY DEF HolderInv, WriteLabels, TypeOK
    <2> QED BY <2>1, <2>2, <2>3, <2>4
  <1>12. CASE SyncDirectory
    <2> USE <1>12 DEF SyncDirectory
    <2>1. TypeOK' BY DEF TypeOK
    <2>2. LockInv' BY DEF LockInv
    <2>3. IntactInv' BY DEF IntactInv
    <2>4. HolderInv' BY DEF HolderInv
    <2> QED BY <2>1, <2>2, <2>3, <2>4
  <1>13. CASE PowerLoss
    <2>1. PICK image \in {file, disk} :
             file' = [content |-> IF image.synced THEN image.content ELSE Corrupt,
                      synced |-> TRUE]
      BY <1>13 DEF PowerLoss
    <2>2. image.content \in Payloads /\ image.synced = TRUE
      BY <2>1 DEF IntactInv
    <2>3. file' = [content |-> image.content, synced |-> TRUE] /\ disk' = file'
      BY <1>13, <2>1, <2>2 DEF PowerLoss
    <2>4. file' \in Files /\ disk' \in Files
      BY <2>2, <2>3 DEF Files
    <2>5. TypeOK'
      BY <1>13, <2>4, EmptyIsPayload DEF PowerLoss, TypeOK, Labels
    <2>6. LockInv'
      BY <1>13, StoreConstants DEF PowerLoss, LockInv, LockedLabels, WriteLabels
    <2>7. IntactInv'
      BY <2>2, <2>3 DEF IntactInv
    <2>8. HolderInv'
      BY <1>13 DEF PowerLoss, HolderInv, WriteLabels
    <2> QED BY <2>5, <2>6, <2>7, <2>8
  <1>14. CASE UNCHANGED vars
    <2> USE <1>14 DEF vars
    <2>1. TypeOK' BY DEF TypeOK
    <2>2. LockInv' BY DEF LockInv
    <2>3. IntactInv' BY DEF IntactInv
    <2>4. HolderInv' BY DEF HolderInv
    <2> QED BY <2>1, <2>2, <2>3, <2>4
  <1> QED
    BY <1>1, <1>2, <1>3, <1>4, <1>5, <1>6, <1>7, <1>8, <1>9, <1>10, <1>11,
       <1>12, <1>13, <1>14 DEF Next, Step

(* IInv always holds. *)
LEMMA LocalStoreInvariant == Spec => []IInv
  BY IInvInit, IInvNext, PTL DEF Spec

(* LocalTaskStore keeps its types, for every set of faults. *)
THEOREM LocalStoreTypeCorrect == Spec => []TypeOK
  <1>1. IInv => TypeOK
    BY DEF IInv
  <1> QED BY <1>1, LocalStoreInvariant, PTL

(* The task file can always be parsed, whatever clients and power supplies  *)
(* do in the middle of _write_unlocked.                                     *)
THEOREM IntactTheorem == Spec => []FileIsIntact
  <1>1. IInv => FileIsIntact
    BY StoreConstants DEF IInv, IntactInv, FileIsIntact
  <1> QED BY <1>1, LocalStoreInvariant, PTL

-----------------------------------------------------------------------------
(* The refinement: os.replace is the instant of a save, the read of the     *)
(* file that of a read.                                                     *)

(* What the contract sees of a client depends on its own variables only. *)
LEMMA PhaseUnchanged ==
  ASSUME UNCHANGED <<pc, request, payload, raised>>
  PROVE  /\ \A c \in Clients : phaseOf(c)' = phaseOf(c)
         /\ \A c \in Clients : answerOf(c)' = answerOf(c)
  BY DEF phaseOf, answerOf

(* A step of client c moves no other client's call. *)
LEMMA OthersUnchanged ==
  ASSUME TypeOK, TypeOK', NEW c \in Clients,
         \A d \in Clients \ {c} : /\ pc'[d] = pc[d]
                                  /\ request'[d] = request[d]
                                  /\ payload'[d] = payload[d]
                                  /\ raised'[d] = raised[d]
  PROVE  /\ [d \in Clients |-> phaseOf(d)]'
              = [[d \in Clients |-> phaseOf(d)] EXCEPT ![c] = phaseOf(c)']
         /\ [d \in Clients |-> answerOf(d)]'
              = [[d \in Clients |-> answerOf(d)] EXCEPT ![c] = answerOf(c)']
  BY DEF phaseOf, answerOf

(* The initial states are those of the contract. *)
LEMMA RefinesInit == Init => Contract!Init
  BY DEF Init, Contract!Init, phaseOf, answerOf, Empty, Contract!Empty

(* Every step is a step of the contract or stutters. *)
LEMMA RefinesNext ==
  ASSUME IInv, IInv', [Next]_vars
  PROVE  [Contract!Next]_(Contract!contractVars)
  <1> DEFINE phase == [d \in Clients |-> phaseOf(d)]
             answer == [d \in Clients |-> answerOf(d)]
  <1> USE DEF IInv
  <1>0. TypeOK /\ TypeOK'
    OBVIOUS
  <1>1. ASSUME NEW c \in Clients, Call(c) PROVE Contract!Call(c)
    <2>1. /\ phase' = [phase EXCEPT ![c] = phaseOf(c)']
          /\ answer' = [answer EXCEPT ![c] = answerOf(c)']
      BY <1>0, <1>1, OthersUnchanged DEF Call, Goto, TypeOK
    <2>2. /\ phaseOf(c) = "idle" /\ phaseOf(c)' = "called"
          /\ answerOf(c) = Empty /\ answerOf(c)' = Empty
      BY <1>0, <1>1 DEF Call, Goto, TypeOK, phaseOf, answerOf
    <2>3. answer' = answer
      BY <2>1, <2>2
    <2> QED BY <1>1, <2>1, <2>2, <2>3 DEF Call, Contract!Call, Contract!Requests,
                 Contract!Saves, Requests, Saves
  <1>2. ASSUME NEW c \in Clients,
               AcquireLock(c) \/ Mkstemp(c) \/ Dump(c) \/ Fsync(c)
        PROVE  UNCHANGED <<file.content, disk.content, phase, request, answer>>
    <2>1. /\ phase' = [phase EXCEPT ![c] = phaseOf(c)']
          /\ answer' = [answer EXCEPT ![c] = answerOf(c)']
      <3>1. \A d \in Clients \ {c} : /\ pc'[d] = pc[d]
                                     /\ request'[d] = request[d]
                                     /\ payload'[d] = payload[d]
                                     /\ raised'[d] = raised[d]
        BY <1>0, <1>2 DEF AcquireLock, Mkstemp, Dump, Fsync, Goto, TypeOK
      <3> QED BY <1>0, <3>1, OthersUnchanged
    <2>2. /\ phaseOf(c) = "called" /\ phaseOf(c)' = "called"
          /\ answerOf(c) = Empty /\ answerOf(c)' = Empty
      BY <1>0, <1>2 DEF AcquireLock, Mkstemp, Dump, Fsync, Goto, TypeOK, phaseOf, answerOf
    <2> QED BY <1>2, <2>1, <2>2 DEF AcquireLock, Mkstemp, Dump, Fsync
  <1>3. ASSUME NEW c \in Clients, ReadUnlocked(c)
        PROVE  \/ Contract!Read(c)
               \/ UNCHANGED <<file.content, disk.content, phase, request, answer>>
    <2>0. file.content # Corrupt
      BY StoreConstants DEF IntactInv
    <2>1. /\ phase' = [phase EXCEPT ![c] = phaseOf(c)']
          /\ answer' = [answer EXCEPT ![c] = answerOf(c)']
      BY <1>0, <1>3, OthersUnchanged DEF ReadUnlocked, Goto, TypeOK
    <2>2. phaseOf(c) = "called" /\ answerOf(c) = Empty
      BY <1>3 DEF ReadUnlocked, phaseOf, answerOf
    <2>3. CASE request[c] = ReadRequest
      <3>1. phaseOf(c)' = "ok" /\ answerOf(c)' = file.content
        BY <1>0, <1>3, <2>0, <2>3 DEF ReadUnlocked, Goto, TypeOK, phaseOf, answerOf
      <3> QED BY <1>3, <2>1, <2>2, <2>3, <3>1 DEF ReadUnlocked, Contract!Read
    <2>4. CASE request[c] # ReadRequest
      <3>1. phaseOf(c)' = "called" /\ answerOf(c)' = Empty
        BY <1>0, <1>3, <2>0, <2>4 DEF ReadUnlocked, Goto, TypeOK, phaseOf, answerOf
      <3> QED BY <1>3, <2>1, <2>2, <3>1 DEF ReadUnlocked
    <2> QED BY <2>3, <2>4
  <1>4. ASSUME NEW c \in Clients, Replace(c) PROVE Contract!Save(c)
    <2>0. /\ request[c] # ReadRequest
          /\ payload[c] = [file.content EXCEPT ![request[c].id] = request[c].record]
          /\ raised[c] = FALSE
      BY <1>4, StoreConstants DEF Replace, HolderInv, WriteLabels, TypeOK
    <2>1. /\ phase' = [phase EXCEPT ![c] = phaseOf(c)']
          /\ answer' = [answer EXCEPT ![c] = answerOf(c)']
      BY <1>0, <1>4, OthersUnchanged DEF Replace, Goto, TypeOK
    <2>2. /\ phaseOf(c) = "called" /\ phaseOf(c)' = "ok"
          /\ answerOf(c) = Empty /\ answerOf(c)' = Empty
      BY <1>0, <1>4, <2>0 DEF Replace, Goto, TypeOK, phaseOf, answerOf
    <2>3. answer' = answer
      BY <2>1, <2>2
    <2>4. file.content' = [file.content EXCEPT ![request[c].id] = request[c].record]
      BY <1>4, <2>0 DEF Replace
    <2> QED BY <1>4, <2>0, <2>1, <2>2, <2>3, <2>4 DEF Replace, Contract!Save
  <1>5. ASSUME NEW c \in Clients, Raise(c) PROVE Contract!Fail(c)
    <2>0. request[c] # ReadRequest
      BY <1>5, StoreConstants, ZenonT(60) DEF Raise, HolderInv
    <2>1. /\ phase' = [phase EXCEPT ![c] = phaseOf(c)']
          /\ answer' = [answer EXCEPT ![c] = answerOf(c)']
      BY <1>0, <1>5, OthersUnchanged DEF Raise, Goto, TypeOK
    <2>2. /\ phaseOf(c) = "called" /\ phaseOf(c)' = "failed"
          /\ answerOf(c) = Empty /\ answerOf(c)' = Empty
      BY <1>0, <1>5, <2>0 DEF Raise, Goto, TypeOK, phaseOf, answerOf, WriteLabels
    <2>3. answer' = answer
      BY <2>1, <2>2
    <2> QED BY <1>5, <2>1, <2>2, <2>3 DEF Raise, Contract!Fail
  <1>6. ASSUME NEW c \in Clients, ReleaseLock(c) PROVE Contract!Reply(c)
    <2>1. /\ phase' = [phase EXCEPT ![c] = phaseOf(c)']
          /\ answer' = [answer EXCEPT ![c] = answerOf(c)']
      BY <1>0, <1>6, OthersUnchanged DEF ReleaseLock, Goto, TypeOK
    <2>2. phaseOf(c) \in {"ok", "failed"} /\ phaseOf(c)' = "idle" /\ answerOf(c)' = Empty
      BY <1>0, <1>6 DEF ReleaseLock, Goto, TypeOK, phaseOf, answerOf
    <2> QED BY <1>6, <2>1, <2>2 DEF ReleaseLock, Contract!Reply, Contract!Empty, Empty
  <1>7. ASSUME NEW c \in Clients, Kill(c) PROVE Contract!Die(c)
    <2>1. /\ phase' = [phase EXCEPT ![c] = phaseOf(c)']
          /\ answer' = [answer EXCEPT ![c] = answerOf(c)']
      BY <1>0, <1>7, OthersUnchanged DEF Kill, Goto, TypeOK
    <2>2. phaseOf(c) # "dead" /\ phaseOf(c)' = "dead" /\ answerOf(c)' = Empty
      BY <1>0, <1>7 DEF Kill, Goto, TypeOK, phaseOf, answerOf
    <2> QED BY <1>7, <2>1, <2>2 DEF Kill, Contract!Die, Contract!Empty, Empty
  <1>8. ASSUME NEW c \in Clients, Start(c) PROVE Contract!Restart(c)
    <2>1. /\ phase' = [phase EXCEPT ![c] = phaseOf(c)']
          /\ answer' = [answer EXCEPT ![c] = answerOf(c)']
      BY <1>0, <1>8, OthersUnchanged DEF Start, Goto, TypeOK
    <2>2. /\ phaseOf(c) = "dead" /\ phaseOf(c)' = "idle"
          /\ answerOf(c) = Empty /\ answerOf(c)' = Empty
      BY <1>0, <1>8 DEF Start, Goto, TypeOK, phaseOf, answerOf
    <2>3. answer' = answer
      BY <2>1, <2>2
    <2> QED BY <1>8, <2>1, <2>2, <2>3 DEF Start, Contract!Restart
  <1>9. CASE SyncDirectory
    <2>1. UNCHANGED <<file, pc, request, payload, raised>> /\ disk' = file
      BY <1>9 DEF SyncDirectory
    <2>2. phase' = phase /\ answer' = answer
      BY <2>1, PhaseUnchanged
    <2> QED BY <2>1, <2>2 DEF Contract!Next, Contract!Persist
  <1>10. CASE PowerLoss
    <2>1. \A c \in Clients : phaseOf(c)' = "dead" /\ answerOf(c)' = Empty
      BY <1>10 DEF PowerLoss, phaseOf, answerOf
    <2>2. /\ phase' = [c \in Clients |-> "dead"]
          /\ answer' = [c \in Clients |-> Empty]
      BY <2>1
    <2>3. file.content' \in {file.content, disk.content} /\ disk.content' = file.content'
      BY <1>10 DEF PowerLoss, IntactInv
    <2>4. request' = request
      BY <1>10 DEF PowerLoss
    <2> QED BY <2>2, <2>3, <2>4 DEF Contract!Next, Contract!PowerCut, Contract!Empty, Empty
  <1>11. CASE UNCHANGED vars
    <2>1. UNCHANGED <<file, disk, pc, request, payload, raised>>
      BY <1>11 DEF vars
    <2>2. phase' = phase /\ answer' = answer
      BY <2>1, PhaseUnchanged
    <2> QED BY <2>1, <2>2 DEF Contract!contractVars
  <1>12. ASSUME NEW c \in Clients, Step(c)
         PROVE  Contract!Next \/ UNCHANGED Contract!contractVars
    BY <1>12, <1>2, <1>3, <1>4, <1>5, <1>6 DEF Step, Contract!Next, Contract!contractVars
  <1> QED
    BY <1>1, <1>7, <1>8, <1>9, <1>10, <1>11, <1>12 DEF Next, Contract!Next

(* LocalTaskStore implements TaskStoreContract, for any number of threads   *)
(* and processes, ids and records, and under every set of faults.           *)
THEOREM LocalStoreRefinement == Spec => RefinesContract
  <1>1. IInv /\ IInv' /\ [Next]_vars => [Contract!Next]_(Contract!contractVars)
    BY RefinesNext
  <1> QED
    BY <1>1, RefinesInit, LocalStoreInvariant, PTL DEF RefinesContract, Contract!Spec, Spec

-----------------------------------------------------------------------------
(* TaskStoreBackends, for any number of clients, tasks and saves, over each *)
(* of the stores.                                                           *)

StoredRecords == [status : Statuses \cup {AnyStatus}, stamp : Nat]
ReadRecords == TaskIds \X Nat
StoreCalls ==
    [pc : {"idle", "save", "sadd", "saved", "list", "get"}, id : TaskIds,
     status : Statuses \cup {AnyStatus}, ids : Seq(TaskIds), got : Seq(ReadRecords)]

BackendsTypeOK ==
    /\ table \in [TaskIds -> StoredRecords]
    /\ index \in SUBSET TaskIds
    /\ saves \in Nat
    /\ op \in [StoreClients -> StoreCalls]
    /\ acked \in [TaskIds -> Nat]
    /\ due \in [StoreClients -> [TaskIds -> Nat]]
    /\ listed = [c \in StoreClients |-> listed[c]]

(* The stamps of a task grow from the list's promise to the store's record. *)
StampsGrow ==
    \A i \in TaskIds :
        /\ acked[i] <= table[i].stamp /\ table[i].stamp <= saves
        /\ \A c \in StoreClients : due[c][i] <= acked[i]

(* What a save that returned, or is about to, put into the Redis index. *)
Indexed ==
    kind = "redis" =>
        /\ \A i \in TaskIds : acked[i] > 0 => i \in index
        /\ \A c \in StoreClients : op[c].pc = "saved" => op[c].id \in index

(* A list of records has every task that it promises, and each once. *)
Complete(got, rest, promise) ==
    \A i \in TaskIds : promise[i] > 0 =>
        \/ \E n \in 1..Len(got) : got[n][1] = i /\ got[n][2] >= promise[i]
        \/ \E n \in 1..Len(rest) : rest[n] = i
Distinct(got, rest) ==
    /\ \A m, n \in 1..Len(got) : got[m][1] = got[n][1] => m = n
    /\ \A m, n \in 1..Len(rest) : rest[m] = rest[n] => m = n
    /\ \A m \in 1..Len(got), n \in 1..Len(rest) : got[m][1] # rest[n]

(* A Redis list between its GETs: the ids still to read and the records     *)
(* read so far.                                                             *)
Reading ==
    \A c \in StoreClients :
        /\ op[c].pc = "list" => op[c].got = << >>
        /\ op[c].pc = "get" =>
               Complete(op[c].got, op[c].ids, due[c]) /\ Distinct(op[c].got, op[c].ids)

(* The property, of one answer. *)
Lists(answer, promise) ==
    answer # NotListed =>
        /\ \A i \in TaskIds : promise[i] > 0 =>
               \E n \in 1..Len(answer) : answer[n][1] = i /\ answer[n][2] >= promise[i]
        /\ \A m, n \in 1..Len(answer) : answer[m][1] = answer[n][1] => m = n

BackendsInv ==
    BackendsTypeOK /\ StampsGrow /\ Indexed /\ Reading /\ ListedAfterSave

(* The task ids are finitely many numbers, 1 among them. *)
LEMMA IdFacts ==
  /\ IsFiniteSet(TaskIds) /\ 1 \in TaskIds
  /\ \A S \in SUBSET TaskIds : IsFiniteSet(S) /\ Cardinality(S) \in Nat
  <1>1. IsFiniteSet(TaskIds)
    BY BackendConstants, FS_Interval DEF TaskIds
  <1>2. 1 \in TaskIds
    BY BackendConstants DEF TaskIds
  <1>3. \A S \in SUBSET TaskIds : IsFiniteSet(S) /\ Cardinality(S) \in Nat
    BY <1>1, FS_Subset, FS_CardinalityType
  <1> QED BY <1>1, <1>2, <1>3

(* An ordering has every id, and each once. *)
Orders(s, ids) ==
    /\ s \in Seq(TaskIds) /\ DOMAIN s = 1..Len(s) /\ \A n \in 1..Len(s) : s[n] \in ids
    /\ \A i \in ids : \E n \in 1..Len(s) : s[n] = i
    /\ \A m, n \in 1..Len(s) : s[m] = s[n] => m = n

(* So it has, whatever its order is. *)
LEMMA OrderingFacts ==
  ASSUME NEW ids \in SUBSET TaskIds, NEW k, NEW s \in Orderings(ids, k)
  PROVE  Orders(s, ids)
  <1>1. PICK size \in Nat : size = Cardinality(ids)
    BY IdFacts
  <1>2. /\ s \in [1..size -> ids]
        /\ \A i \in ids : \E n \in DOMAIN s : s[n] = i
        /\ \A m, n \in DOMAIN s : m < n => Before(s[m], s[n], k)
    BY <1>1 DEF Orderings
  <1>3. s \in Seq(TaskIds) /\ Len(s) = size /\ DOMAIN s = 1..Len(s)
    BY <1>2
  <1>4. \A i \in TaskIds : ~Before(i, i, k)
    BY DEF Before, TaskIds
  <1>5. ASSUME NEW m \in 1..Len(s), NEW n \in 1..Len(s), s[m] = s[n]
        PROVE  m = n
    <2>1. ~(m < n)
      BY <1>2, <1>3, <1>4, <1>5
    <2>2. ~(n < m)
      BY <1>2, <1>3, <1>4, <1>5
    <2> QED BY <1>3, <2>1, <2>2
  <1> QED BY <1>2, <1>3, <1>5 DEF Orders

(* The table after a write. *)
LEMMA WriteFacts ==
  ASSUME BackendsInv, NEW c \in StoreClients, Write(c), op[c].pc = "save"
  PROVE  /\ table' \in [TaskIds -> StoredRecords]
         /\ \A i \in TaskIds : table[i].stamp <= table'[i].stamp /\ table'[i].stamp <= saves
  <1>1. op[c] \in StoreCalls /\ saves \in Nat /\ table \in [TaskIds -> StoredRecords]
    BY DEF BackendsInv, BackendsTypeOK
  <1>2. op[c].id \in TaskIds /\ op[c].status \in Statuses \cup {AnyStatus}
    BY <1>1 DEF StoreCalls
  <1>3. PICK rec : rec = [status |-> op[c].status, stamp |-> saves]
    OBVIOUS
  <1>4. rec \in StoredRecords /\ rec.stamp = saves
    BY <1>1, <1>2, <1>3 DEF StoredRecords
  <1>5. table' = [table EXCEPT ![op[c].id] = rec]
    BY <1>3 DEF Write
  <1>6. table' \in [TaskIds -> StoredRecords]
    BY <1>1, <1>4, <1>5
  <1>7. ASSUME NEW i \in TaskIds
        PROVE  table[i].stamp <= table'[i].stamp /\ table'[i].stamp <= saves
    <2>1. table[i].stamp \in Nat /\ table[i].stamp <= saves
      BY <1>1 DEF BackendsInv, StampsGrow, StoredRecords
    <2>2. table'[i] = IF i = op[c].id THEN rec ELSE table[i]
      BY <1>1, <1>2, <1>5
    <2> QED BY <1>1, <1>4, <2>1, <2>2
  <1> QED BY <1>6, <1>7

(* The property, client by client. *)
LEMMA ListedByClient ==
  ListedAfterSave <=> \A c \in StoreClients : Lists(listed[c], due[c])
  BY DEF ListedAfterSave, Lists


(* A step of one client keeps the invariant if its own call, promise and    *)
(* answer are as they should be and the store only grows.                   *)
LEMMA OneCall ==
  ASSUME BackendsInv, NEW c \in StoreClients, kind' = kind,
         NEW o \in StoreCalls, op' = [op EXCEPT ![c] = o],
         saves' \in Nat,
         table' \in [TaskIds -> StoredRecords],
         \A i \in TaskIds : table'[i].stamp <= saves',
         acked' \in [TaskIds -> Nat],
         \A i \in TaskIds : acked[i] <= acked'[i] /\ acked'[i] <= table'[i].stamp,
         index' \in SUBSET TaskIds, index \subseteq index',
         kind = "redis" => \A i \in TaskIds : acked'[i] > 0 => i \in index',
         kind = "redis" /\ o.pc = "saved" => o.id \in index',
         NEW d \in [TaskIds -> Nat], due' = [due EXCEPT ![c] = d], \A i \in TaskIds : d[i] <= acked'[i],
         o.pc = "list" => o.got = << >>,
         o.pc = "get" => Complete(o.got, o.ids, d) /\ Distinct(o.got, o.ids),
         NEW a, listed' = [listed EXCEPT ![c] = a], Lists(a, d)
  PROVE  BackendsInv'
  <1>0. /\ op \in [StoreClients -> StoreCalls] /\ due \in [StoreClients -> [TaskIds -> Nat]]
        /\ acked \in [TaskIds -> Nat] /\ listed = [b \in StoreClients |-> listed[b]]
    BY DEF BackendsInv, BackendsTypeOK
  <1>1. \A b \in StoreClients : /\ op'[b] = IF b = c THEN o ELSE op[b]
                                /\ due'[b] = IF b = c THEN d ELSE due[b]
                                /\ listed'[b] = IF b = c THEN a ELSE listed[b]
    BY <1>0
  <1>2. BackendsTypeOK'
    <2>1. op' \in [StoreClients -> StoreCalls] /\ due' \in [StoreClients -> [TaskIds -> Nat]]
      BY <1>0
    <2>2. listed' = [b \in StoreClients |-> listed'[b]]
      BY <1>0
    <2> QED BY <2>1, <2>2 DEF BackendsTypeOK
  <1>3. StampsGrow'
    <2>1. ASSUME NEW i \in TaskIds, NEW b \in StoreClients
          PROVE  due'[b][i] <= acked'[i]
      <3>1. due[b][i] <= acked[i]
        BY DEF BackendsInv, StampsGrow
      <3>2. due[b][i] \in Nat /\ acked[i] \in Nat /\ acked'[i] \in Nat
        BY <1>0
      <3>3. CASE b = c
        BY <1>1, <3>3
      <3>4. CASE b # c
        <4>1. due'[b] = due[b] /\ acked[i] <= acked'[i]
          BY <1>1, <3>4
        <4> QED BY <3>1, <3>2, <4>1
      <3> QED BY <3>3, <3>4
    <2> QED BY <2>1 DEF StampsGrow
  <1>4. Indexed'
    <2>1. ASSUME kind = "redis", NEW b \in StoreClients, op'[b].pc = "saved"
          PROVE  op'[b].id \in index'
      <3>1. CASE b = c
        BY <1>1, <2>1, <3>1
      <3>2. CASE b # c
        <4>1. op'[b] = op[b]
          BY <1>1, <3>2
        <4> QED BY <2>1, <4>1 DEF BackendsInv, Indexed
      <3> QED BY <3>1, <3>2
    <2> QED BY <2>1 DEF Indexed
  <1>5. Reading'
    <2>1. ASSUME NEW b \in StoreClients
          PROVE  /\ op'[b].pc = "list" => op'[b].got = << >>
                 /\ op'[b].pc = "get" =>
                        Complete(op'[b].got, op'[b].ids, due'[b]) /\ Distinct(op'[b].got, op'[b].ids)
      <3>1. CASE b = c
        BY <1>1, <3>1
      <3>2. CASE b # c
        <4>1. op'[b] = op[b] /\ due'[b] = due[b]
          BY <1>1, <3>2
        <4> QED BY <4>1 DEF BackendsInv, Reading
      <3> QED BY <3>1, <3>2
    <2> QED BY <2>1 DEF Reading
  <1>6. \A b \in StoreClients : Lists(listed'[b], due'[b])
    BY <1>1, ListedByClient DEF BackendsInv
  <1>7. ListedAfterSave'
    BY <1>6 DEF ListedAfterSave, Lists
  <1> QED BY <1>2, <1>3, <1>4, <1>5, <1>7 DEF BackendsInv

(* The facts every step starts from. *)
LEMMA BackendFacts ==
  ASSUME BackendsInv, NEW c \in StoreClients
  PROVE  /\ table \in [TaskIds -> StoredRecords] /\ index \in SUBSET TaskIds /\ saves \in Nat
         /\ op[c] \in StoreCalls /\ op[c].id \in TaskIds /\ acked \in [TaskIds -> Nat]
         /\ due \in [StoreClients -> [TaskIds -> Nat]] /\ due[c] \in [TaskIds -> Nat]
         /\ due = [due EXCEPT ![c] = due[c]]
         /\ listed = [listed EXCEPT ![c] = listed[c]] /\ Lists(listed[c], due[c])
         /\ \A i \in TaskIds : /\ table[i].stamp \in Nat /\ acked[i] \in Nat
                               /\ table[i].stamp <= saves /\ acked[i] <= table[i].stamp
                               /\ acked[i] <= acked[i]
                               /\ due[c][i] <= acked[i]
         /\ kind = "redis" => \A i \in TaskIds : acked[i] > 0 => i \in index
  <1>1. /\ table \in [TaskIds -> StoredRecords] /\ index \in SUBSET TaskIds /\ saves \in Nat
        /\ op[c] \in StoreCalls /\ acked \in [TaskIds -> Nat]
        /\ due \in [StoreClients -> [TaskIds -> Nat]] /\ due[c] \in [TaskIds -> Nat]
    BY DEF BackendsInv, BackendsTypeOK
  <1>2. op[c].id \in TaskIds
    BY <1>1 DEF StoreCalls
  <1>3. due = [due EXCEPT ![c] = due[c]]
    BY <1>1
  <1>4. listed = [listed EXCEPT ![c] = listed[c]]
    <2>1. listed = [b \in StoreClients |-> listed[b]]
      BY DEF BackendsInv, BackendsTypeOK
    <2> QED BY <2>1
  <1>5. Lists(listed[c], due[c])
    BY ListedByClient DEF BackendsInv
  <1>6. ASSUME NEW i \in TaskIds
        PROVE  /\ table[i].stamp \in Nat /\ acked[i] \in Nat
               /\ table[i].stamp <= saves /\ acked[i] <= table[i].stamp /\ acked[i] <= acked[i]
               /\ due[c][i] <= acked[i]
    BY <1>1 DEF StoredRecords, BackendsInv, StampsGrow
  <1>7. kind = "redis" => \A i \in TaskIds : acked[i] > 0 => i \in index
    BY DEF BackendsInv, Indexed
  <1> QED BY <1>1, <1>2, <1>3, <1>4, <1>5, <1>6, <1>7

(* No call promises nothing. *)
LEMMA NoCallFacts ==
  NoCall \in StoreCalls /\ NoCall.pc = "idle" /\ NoCall.got = << >>
  BY IdFacts DEF NoCall, StoreCalls

(* A step that only writes: it neither begins nor ends a list. *)
LEMMA WritingCall ==
  ASSUME BackendsInv, NEW c \in StoreClients, kind' = kind,
         NEW o \in StoreCalls, op' = [op EXCEPT ![c] = o], o.pc \notin {"list", "get"},
         saves' = saves, table' \in [TaskIds -> StoredRecords],
         \A i \in TaskIds : table[i].stamp <= table'[i].stamp /\ table'[i].stamp <= saves,
         index' \in SUBSET TaskIds, index \subseteq index',
         kind = "redis" /\ o.pc = "saved" => o.id \in index',
         acked' = acked, due' = due, listed' = listed
  PROVE  BackendsInv'
  <1>1. \A i \in TaskIds : acked[i] <= acked'[i] /\ acked'[i] <= table'[i].stamp
    <2>1. ASSUME NEW i \in TaskIds
          PROVE  acked[i] <= acked'[i] /\ acked'[i] <= table'[i].stamp
      <3>1. /\ table[i].stamp \in Nat /\ acked[i] \in Nat /\ acked[i] <= table[i].stamp
            /\ acked[i] <= acked[i]
        BY BackendFacts
      <3>2. table'[i].stamp \in Nat /\ table[i].stamp <= table'[i].stamp
        BY DEF StoredRecords
      <3> QED BY <3>1, <3>2
    <2> QED BY <2>1
  <1>2. kind = "redis" => \A i \in TaskIds : acked'[i] > 0 => i \in index'
    BY BackendFacts
  <1>3. saves' \in Nat /\ \A i \in TaskIds : table'[i].stamp <= saves'
    BY BackendFacts
  <1>4. PICK d : d = due[c]
    OBVIOUS
  <1>5. PICK a : a = listed[c]
    OBVIOUS
  <1>6. /\ d \in [TaskIds -> Nat] /\ due' = [due EXCEPT ![c] = d]
        /\ \A i \in TaskIds : d[i] <= acked'[i]
        /\ listed' = [listed EXCEPT ![c] = a] /\ Lists(a, d)
    BY <1>4, <1>5, BackendFacts
  <1>7. acked' \in [TaskIds -> Nat] /\ o.pc # "list" /\ o.pc # "get"
    BY BackendFacts
  <1> QED BY <1>1, <1>2, <1>3, <1>6, <1>7, OneCall

(* A call at its next step. *)
LEMMA MovedCall ==
  ASSUME NEW o \in StoreCalls, NEW l \in {"sadd", "saved"}, NEW p, p = [o EXCEPT !.pc = l]
  PROVE  p \in StoreCalls /\ p.pc = l /\ p.id = o.id /\ p.pc \notin {"list", "get"}
  BY DEF StoreCalls

(* A row is written, or the Redis record. *)
LEMMA WriteStep ==
  ASSUME BackendsInv, NEW c \in StoreClients, SaveRow(c) \/ RedisSet(c)
  PROVE  BackendsInv'
  <1>1. PICK l \in {"sadd", "saved"} : /\ op' = [op EXCEPT ![c] = [op[c] EXCEPT !.pc = l]]
                                       /\ l = "saved" => kind # "redis"
    BY DEF SaveRow, RedisSet, SetOp
  <1>2. PICK p : p = [op[c] EXCEPT !.pc = l]
    OBVIOUS
  <1>3. /\ p \in StoreCalls /\ p.pc = l /\ p.pc \notin {"list", "get"}
    BY <1>2, BackendFacts, MovedCall
  <1>4. op' = [op EXCEPT ![c] = p]
    BY <1>1, <1>2
  <1>5. /\ kind' = kind /\ index' = index /\ saves' = saves /\ acked' = acked /\ due' = due
        /\ listed' = listed /\ Write(c) /\ op[c].pc = "save"
    BY DEF SaveRow, RedisSet
  <1>6. /\ table' \in [TaskIds -> StoredRecords]
        /\ \A i \in TaskIds : table[i].stamp <= table'[i].stamp /\ table'[i].stamp <= saves
    BY <1>5, WriteFacts
  <1>7. index' \in SUBSET TaskIds /\ index \subseteq index'
    BY <1>5, BackendFacts
  <1>8. kind = "redis" /\ p.pc = "saved" => p.id \in index'
    BY <1>1, <1>3
  <1> QED BY <1>3, <1>4, <1>5, <1>6, <1>7, <1>8, WritingCall

(* The table stays as it is. *)
LEMMA SameTable ==
  ASSUME BackendsInv, NEW c \in StoreClients, table' = table
  PROVE  /\ table' \in [TaskIds -> StoredRecords]
         /\ \A i \in TaskIds : table[i].stamp <= table'[i].stamp /\ table'[i].stamp <= saves
  <1>1. table \in [TaskIds -> StoredRecords]
    BY BackendFacts
  <1>2. ASSUME NEW i \in TaskIds
        PROVE  table[i].stamp <= table[i].stamp /\ table[i].stamp <= saves
    <2>1. table[i].stamp \in Nat /\ table[i].stamp <= saves
      BY BackendFacts
    <2> QED BY <2>1
  <1> QED BY <1>1, <1>2

(* The id goes into the Redis index. *)
LEMMA RedisAddStep ==
  ASSUME BackendsInv, NEW c \in StoreClients, RedisAdd(c)
  PROVE  BackendsInv'
  <1>1. PICK p : p = [op[c] EXCEPT !.pc = "saved"]
    OBVIOUS
  <1>2. /\ p \in StoreCalls /\ p.pc = "saved" /\ p.id = op[c].id /\ p.pc \notin {"list", "get"}
    BY <1>1, BackendFacts, MovedCall
  <1>3. op' = [op EXCEPT ![c] = p] /\ index' = index \cup {op[c].id}
    BY <1>1 DEF RedisAdd, SetOp
  <1>4. /\ kind' = kind /\ table' = table /\ saves' = saves /\ acked' = acked /\ due' = due
        /\ listed' = listed
    BY DEF RedisAdd
  <1>5. index' \in SUBSET TaskIds /\ index \subseteq index' /\ p.id \in index'
    BY <1>2, <1>3, BackendFacts
  <1>6. /\ table' \in [TaskIds -> StoredRecords]
        /\ \A i \in TaskIds : table[i].stamp <= table'[i].stamp /\ table'[i].stamp <= saves
    BY <1>4, SameTable
  <1> QED BY <1>2, <1>3, <1>4, <1>5, <1>6, WritingCall

(* A call ends early. *)
LEMMA ConnectionLostStep ==
  ASSUME BackendsInv, NEW c \in StoreClients, ConnectionLost(c)
  PROVE  BackendsInv'
  <1>1. PICK p : p = NoCall
    OBVIOUS
  <1>2. p \in StoreCalls /\ p.pc = "idle" /\ p.pc \notin {"list", "get"} /\ p.pc # "saved"
    BY <1>1, NoCallFacts
  <1>3. op' = [op EXCEPT ![c] = p]
    BY <1>1 DEF ConnectionLost, SetOp
  <1>4. /\ kind' = kind /\ table' = table /\ saves' = saves /\ acked' = acked /\ due' = due
        /\ listed' = listed /\ index' = index
    BY DEF ConnectionLost
  <1>5. index' \in SUBSET TaskIds /\ index \subseteq index'
    BY <1>4, BackendFacts
  <1>6. /\ table' \in [TaskIds -> StoredRecords]
        /\ \A i \in TaskIds : table[i].stamp <= table'[i].stamp /\ table'[i].stamp <= saves
    BY <1>4, SameTable
  <1> QED BY <1>2, <1>3, <1>4, <1>5, <1>6, WritingCall

(* A save begins: the answer of the client's last list is forgotten. *)
LEMMA BeginSaveStep ==
  ASSUME BackendsInv, NEW c \in StoreClients, NEW i \in TaskIds, NEW st \in Statuses, BeginSave(c, i, st)
  PROVE  BackendsInv'
  <1>1. PICK p : p = [NoCall EXCEPT !.pc = "save", !.id = i, !.status = st]
    OBVIOUS
  <1>2. p \in StoreCalls /\ p.pc = "save"
    BY <1>1, NoCallFacts DEF StoreCalls
  <1>3. op' = [op EXCEPT ![c] = p] /\ listed' = [listed EXCEPT ![c] = NotListed] /\ saves' = saves + 1
    BY <1>1 DEF BeginSave, SetOp
  <1>4. kind' = kind /\ table' = table /\ index' = index /\ acked' = acked /\ due' = due
    BY DEF BeginSave
  <1>5. PICK d : d = due[c]
    OBVIOUS
  <1>6. /\ d \in [TaskIds -> Nat] /\ due' = [due EXCEPT ![c] = d] /\ \A j \in TaskIds : d[j] <= acked'[j]
        /\ acked' \in [TaskIds -> Nat] /\ index' \in SUBSET TaskIds /\ index \subseteq index'
        /\ table' \in [TaskIds -> StoredRecords]
    BY <1>4, <1>5, BackendFacts
  <1>7. saves' \in Nat /\ \A j \in TaskIds : table'[j].stamp <= saves'
    <2>1. saves \in Nat
      BY BackendFacts
    <2>2. ASSUME NEW j \in TaskIds PROVE table[j].stamp <= saves + 1
      <3>1. table[j].stamp \in Nat /\ table[j].stamp <= saves
        BY BackendFacts
      <3> QED BY <2>1, <3>1
    <2> QED BY <1>3, <1>4, <2>1, <2>2
  <1>8. \A j \in TaskIds : acked[j] <= acked'[j] /\ acked'[j] <= table'[j].stamp
    BY <1>4, BackendFacts
  <1>9. kind = "redis" => \A j \in TaskIds : acked'[j] > 0 => j \in index'
    BY <1>4, BackendFacts
  <1>10. Lists(NotListed, d)
    BY DEF Lists
  <1>11. p.pc # "list" /\ p.pc # "get" /\ p.pc # "saved"
    BY <1>2
  <1> QED BY <1>2, <1>3, <1>4, <1>6, <1>7, <1>8, <1>9, <1>10, <1>11, OneCall

(* A save returns: the client may rely on what the store holds. *)
LEMMA SaveReturnsStep ==
  ASSUME BackendsInv, NEW c \in StoreClients, SaveReturns(c)
  PROVE  BackendsInv'
  <1>1. PICK p : p = NoCall
    OBVIOUS
  <1>2. p \in StoreCalls /\ p.pc = "idle" /\ p.pc # "list" /\ p.pc # "get" /\ p.pc # "saved"
    BY <1>1, NoCallFacts
  <1>3. op' = [op EXCEPT ![c] = p]
    BY <1>1 DEF SaveReturns, SetOp
  <1>4. /\ kind' = kind /\ table' = table /\ index' = index /\ saves' = saves /\ due' = due
        /\ listed' = listed /\ op[c].pc = "saved"
    BY DEF SaveReturns
  <1>5. PICK i \in TaskIds : i = op[c].id
    BY BackendFacts
  <1>6. acked' = [acked EXCEPT ![i] = table[i].stamp]
    BY <1>5 DEF SaveReturns
  <1>7. acked' \in [TaskIds -> Nat] /\ \A j \in TaskIds : acked'[j] = IF j = i THEN table[j].stamp ELSE acked[j]
    BY <1>6, BackendFacts
  <1>8. ASSUME NEW j \in TaskIds
        PROVE  acked[j] <= acked'[j] /\ acked'[j] <= table'[j].stamp /\ due[c][j] <= acked'[j]
    <2>1. /\ table[j].stamp \in Nat /\ acked[j] \in Nat /\ due[c][j] \in Nat
          /\ acked[j] <= table[j].stamp /\ due[c][j] <= acked[j]
      BY BackendFacts
    <2>2. acked'[j] = table[j].stamp \/ acked'[j] = acked[j]
      BY <1>7
    <2> QED BY <1>4, <2>1, <2>2
  <1>9. PICK d : d = due[c]
    OBVIOUS
  <1>10. PICK a : a = listed[c]
    OBVIOUS
  <1>11. /\ d \in [TaskIds -> Nat] /\ due' = [due EXCEPT ![c] = d]
         /\ listed' = [listed EXCEPT ![c] = a] /\ Lists(a, d)
         /\ index' \in SUBSET TaskIds /\ index \subseteq index' /\ table' \in [TaskIds -> StoredRecords]
         /\ saves' \in Nat /\ \A j \in TaskIds : table'[j].stamp <= saves'
    BY <1>4, <1>9, <1>10, BackendFacts
  <1>12. \A j \in TaskIds : d[j] <= acked'[j]
    BY <1>8, <1>9
  <1>13. kind = "redis" => \A j \in TaskIds : acked'[j] > 0 => j \in index'
    <2>1. kind = "redis" => i \in index
      BY <1>4, <1>5 DEF BackendsInv, Indexed
    <2> QED BY <1>4, <1>7, <2>1, BackendFacts
  <1>14. \A j \in TaskIds : acked[j] <= acked'[j] /\ acked'[j] <= table'[j].stamp
    BY <1>8
  <1> QED BY <1>2, <1>3, <1>4, <1>7, <1>11, <1>12, <1>13, <1>14, OneCall

(* A step of a list writes nothing. *)
LEMMA ListingCall ==
  ASSUME BackendsInv, NEW c \in StoreClients,
         kind' = kind, saves' = saves, table' = table, index' = index, acked' = acked,
         NEW o \in StoreCalls, op' = [op EXCEPT ![c] = o], o.pc # "saved",
         NEW d \in [TaskIds -> Nat], due' = [due EXCEPT ![c] = d], \A i \in TaskIds : d[i] <= acked[i],
         o.pc = "list" => o.got = << >>,
         o.pc = "get" => Complete(o.got, o.ids, d) /\ Distinct(o.got, o.ids),
         NEW a, listed' = [listed EXCEPT ![c] = a], Lists(a, d)
  PROVE  BackendsInv'
  <1>1. /\ saves' \in Nat /\ table' \in [TaskIds -> StoredRecords]
        /\ \A i \in TaskIds : table'[i].stamp <= saves'
        /\ acked' \in [TaskIds -> Nat]
        /\ \A i \in TaskIds : acked[i] <= acked'[i] /\ acked'[i] <= table'[i].stamp
        /\ index' \in SUBSET TaskIds /\ index \subseteq index'
    BY BackendFacts
  <1>2. kind = "redis" => \A i \in TaskIds : acked'[i] > 0 => i \in index'
    BY BackendFacts
  <1>3. \A i \in TaskIds : d[i] <= acked'[i]
    OBVIOUS
  <1>4. kind = "redis" /\ o.pc = "saved" => o.id \in index'
    OBVIOUS
  <1> QED BY <1>1, <1>2, <1>3, <1>4, OneCall

(* A list begins: it owes what the saves that returned have left. *)
LEMMA BeginListStep ==
  ASSUME BackendsInv, NEW c \in StoreClients, BeginList(c)
  PROVE  BackendsInv'
  <1>1. PICK o : o = [NoCall EXCEPT !.pc = "list"]
    OBVIOUS
  <1>2. o \in StoreCalls /\ o.pc = "list" /\ o.pc # "get" /\ o.pc # "saved" /\ o.got = << >>
    BY <1>1, NoCallFacts DEF StoreCalls
  <1>3. PICK d : d = acked
    OBVIOUS
  <1>4. /\ op' = [op EXCEPT ![c] = o] /\ due' = [due EXCEPT ![c] = d]
        /\ listed' = [listed EXCEPT ![c] = NotListed]
        /\ kind' = kind /\ saves' = saves /\ table' = table /\ index' = index /\ acked' = acked
    BY <1>1, <1>3 DEF BeginList, SetOp
  <1>5. d \in [TaskIds -> Nat] /\ \A i \in TaskIds : d[i] <= acked[i]
    BY <1>3, BackendFacts
  <1>6. Lists(NotListed, d)
    BY DEF Lists
  <1> QED BY <1>2, <1>4, <1>5, <1>6, ListingCall

(* What a list owes is stored, with a stamp as new. *)
LEMMA DueIsStored ==
  ASSUME BackendsInv, NEW c \in StoreClients, NEW i \in TaskIds, due[c][i] > 0
  PROVE  /\ i \in Present /\ table[i].stamp >= due[c][i] /\ table[i] # Missing
         /\ kind = "redis" => i \in index
  <1>1. /\ due[c][i] \in Nat /\ acked[i] \in Nat /\ table[i].stamp \in Nat
        /\ due[c][i] <= acked[i] /\ acked[i] <= table[i].stamp
        /\ kind = "redis" => (acked[i] > 0 => i \in index)
    BY BackendFacts
  <1>2. table[i].stamp > 0 /\ table[i].stamp >= due[c][i] /\ acked[i] > 0
    BY <1>1
  <1>3. table[i] # Missing
    BY <1>2 DEF Missing
  <1> QED BY <1>1, <1>2, <1>3 DEF Present

(* One query answers with every stored task, in order. *)
LEMMA ListRowsStep ==
  ASSUME BackendsInv, NEW c \in StoreClients, ListRows(c)
  PROVE  BackendsInv'
  <1>1. PICK s \in Orderings(Present, kind) :
            listed' = [listed EXCEPT ![c] = [n \in DOMAIN s |-> <<s[n], table[s[n]].stamp>>]]
    BY DEF ListRows
  <1>2. Present \in SUBSET TaskIds
    BY DEF Present
  <1>3. /\ s \in Seq(TaskIds) /\ DOMAIN s = 1..Len(s)
        /\ \A i \in Present : \E n \in 1..Len(s) : s[n] = i
        /\ \A m, n \in 1..Len(s) : s[m] = s[n] => m = n
    <2>1. Orders(s, Present)
      BY <1>2, OrderingFacts
    <2> QED BY <2>1 DEF Orders
  <1>4. PICK a : a = [n \in DOMAIN s |-> <<s[n], table[s[n]].stamp>>]
    OBVIOUS
  <1>5. Len(s) \in Nat
    BY <1>3
  <1>6. /\ Len(a) = Len(s)
        /\ \A n \in 1..Len(s) : a[n] = <<s[n], table[s[n]].stamp>>
    BY <1>3, <1>4, <1>5
  <1>7. PICK d : d = due[c]
    OBVIOUS
  <1>8. \A n \in 1..Len(a) : a[n][1] = s[n] /\ a[n][2] = table[s[n]].stamp
    BY <1>6
  <1>9. Lists(a, d)
    <2>1. ASSUME NEW i \in TaskIds, d[i] > 0
          PROVE  \E n \in 1..Len(a) : a[n][1] = i /\ a[n][2] >= d[i]
      <3>1. i \in Present /\ table[i].stamp >= d[i]
        BY <1>7, <2>1, DueIsStored
      <3>2. PICK n \in 1..Len(s) : s[n] = i
        BY <1>3, <3>1
      <3> QED BY <1>6, <1>8, <3>1, <3>2
    <2>2. \A m, n \in 1..Len(a) : a[m][1] = a[n][1] => m = n
      BY <1>3, <1>6, <1>8
    <2> QED BY <2>1, <2>2 DEF Lists
  <1>10. PICK o : o = NoCall
    OBVIOUS
  <1>11. o \in StoreCalls /\ o.pc # "list" /\ o.pc # "get" /\ o.pc # "saved"
    BY <1>10, NoCallFacts
  <1>12. /\ op' = [op EXCEPT ![c] = o] /\ listed' = [listed EXCEPT ![c] = a]
         /\ kind' = kind /\ saves' = saves /\ table' = table /\ index' = index /\ acked' = acked
         /\ due' = due
    BY <1>1, <1>4, <1>10 DEF ListRows, SetOp
  <1>13. d \in [TaskIds -> Nat] /\ due' = [due EXCEPT ![c] = d] /\ \A i \in TaskIds : d[i] <= acked[i]
    BY <1>7, <1>12, BackendFacts
  <1> QED BY <1>9, <1>11, <1>12, <1>13, ListingCall

(* SMEMBERS names every task that a returned save put into the index. *)
LEMMA RedisMembersStep ==
  ASSUME BackendsInv, NEW c \in StoreClients, RedisMembers(c)
  PROVE  BackendsInv'
  <1>1. PICK s \in Orderings(index, kind) : op' = [op EXCEPT ![c] = [op[c] EXCEPT !.pc = "get", !.ids = s]]
    BY DEF RedisMembers, SetOp
  <1>2. index \in SUBSET TaskIds
    BY BackendFacts
  <1>3. /\ s \in Seq(TaskIds) /\ DOMAIN s = 1..Len(s)
        /\ \A i \in index : \E n \in 1..Len(s) : s[n] = i
        /\ \A m, n \in 1..Len(s) : s[m] = s[n] => m = n
    <2>1. Orders(s, index)
      BY <1>2, OrderingFacts
    <2> QED BY <2>1 DEF Orders
  <1>4. /\ kind' = kind /\ saves' = saves /\ table' = table /\ index' = index /\ acked' = acked
        /\ due' = due /\ listed' = listed /\ kind = "redis" /\ op[c].pc = "list"
    BY DEF RedisMembers
  <1>5. op[c].got = << >>
    BY <1>4 DEF BackendsInv, Reading
  <1>6. PICK o : o = [op[c] EXCEPT !.pc = "get", !.ids = s]
    OBVIOUS
  <1>7. /\ o \in StoreCalls /\ o.pc = "get" /\ o.ids = s /\ o.got = << >>
        /\ o.pc # "list" /\ o.pc # "saved" /\ op' = [op EXCEPT ![c] = o]
    BY <1>1, <1>3, <1>5, <1>6, BackendFacts DEF StoreCalls
  <1>8. PICK d : d = due[c]
    OBVIOUS
  <1>9. PICK a : a = listed[c]
    OBVIOUS
  <1>10. /\ d \in [TaskIds -> Nat] /\ due' = [due EXCEPT ![c] = d] /\ \A i \in TaskIds : d[i] <= acked[i]
         /\ listed' = [listed EXCEPT ![c] = a] /\ Lists(a, d)
    BY <1>4, <1>8, <1>9, BackendFacts
  <1>11. Complete(o.got, o.ids, d)
    <2>1. ASSUME NEW i \in TaskIds, d[i] > 0
          PROVE  \E n \in 1..Len(s) : s[n] = i
      BY <1>3, <1>4, <1>8, <2>1, DueIsStored
    <2> QED BY <1>7, <2>1 DEF Complete
  <1>12. Distinct(o.got, o.ids)
    <2>1. Len(o.got) = 0
      BY <1>7
    <2> QED BY <1>3, <1>7, <2>1 DEF Distinct
  <1> QED BY <1>4, <1>7, <1>10, <1>11, <1>12, ListingCall

(* The rest of a sequence of ids, once its head is read. *)
LEMMA RestOfIds ==
  ASSUME NEW ids \in Seq(TaskIds), ids # << >>
  PROVE  /\ Len(ids) \in Nat /\ Head(ids) \in TaskIds /\ Head(ids) = ids[1]
         /\ Tail(ids) \in Seq(TaskIds) /\ Len(Tail(ids)) = Len(ids) - 1 /\ Len(ids) >= 1
         /\ \A n \in 1..Len(ids) - 1 : Tail(ids)[n] = ids[n + 1]
         /\ \A n \in 1..Len(ids) : n = 1 \/ (n - 1 \in 1..Len(Tail(ids)) /\ Tail(ids)[n - 1] = ids[n])
  OBVIOUS

(* An id without a record, which the list does not owe, is passed over. *)
LEMMA PassOver ==
  ASSUME NEW ids \in Seq(TaskIds), ids # << >>, NEW got \in Seq(ReadRecords),
         NEW d \in [TaskIds -> Nat], Complete(got, ids, d), Distinct(got, ids), d[Head(ids)] = 0
  PROVE  Complete(got, Tail(ids), d) /\ Distinct(got, Tail(ids))
  <1>1. PICK rest : rest = Tail(ids)
    OBVIOUS
  <1>2. /\ Len(rest) \in Nat /\ \A n \in 1..Len(rest) : n + 1 \in 1..Len(ids) /\ rest[n] = ids[n + 1]
        /\ \A n \in 1..Len(ids) : n = 1 \/ (n - 1 \in 1..Len(rest) /\ rest[n - 1] = ids[n])
        /\ Head(ids) = ids[1]
    BY <1>1, RestOfIds
  <1>3. Complete(got, rest, d)
    <2>1. ASSUME NEW i \in TaskIds, d[i] > 0, NEW n \in 1..Len(ids), ids[n] = i
          PROVE  \E m \in 1..Len(rest) : rest[m] = i
      <3>1. n # 1
        BY <1>2, <2>1
      <3>2. n - 1 \in 1..Len(rest) /\ rest[n - 1] = i
        BY <1>2, <2>1, <3>1
      <3> QED BY <3>2
    <2> QED BY <2>1 DEF Complete
  <1>4. Distinct(got, rest)
    <2>1. ASSUME NEW m \in 1..Len(rest), NEW n \in 1..Len(rest), rest[m] = rest[n]
          PROVE  m = n
      <3>1. m + 1 = n + 1
        <4>1. m + 1 \in 1..Len(ids) /\ n + 1 \in 1..Len(ids) /\ ids[m + 1] = ids[n + 1]
          BY <1>2, <2>1
        <4>2. \A p, q \in 1..Len(ids) : ids[p] = ids[q] => p = q
          BY DEF Distinct
        <4> QED BY <4>1, <4>2
      <3> QED BY <1>2, <3>1
    <2>2. \A m \in 1..Len(got), n \in 1..Len(rest) : got[m][1] # rest[n]
      BY <1>2 DEF Distinct
    <2> QED BY <2>1, <2>2 DEF Distinct
  <1> QED BY <1>1, <1>3, <1>4

(* A record that is read is as new as the list owes. *)
LEMMA ReadOne ==
  ASSUME NEW ids \in Seq(TaskIds), ids # << >>, NEW got \in Seq(ReadRecords),
         NEW d \in [TaskIds -> Nat], Complete(got, ids, d), Distinct(got, ids),
         NEW stamp \in Nat, stamp >= d[Head(ids)]
  PROVE  /\ Append(got, <<Head(ids), stamp>>) \in Seq(ReadRecords)
         /\ Complete(Append(got, <<Head(ids), stamp>>), Tail(ids), d)
         /\ Distinct(Append(got, <<Head(ids), stamp>>), Tail(ids))
  <1>1. PICK rest : rest = Tail(ids)
    OBVIOUS
  <1>2. /\ Len(rest) \in Nat /\ \A n \in 1..Len(rest) : n + 1 \in 1..Len(ids) /\ rest[n] = ids[n + 1]
        /\ \A n \in 1..Len(ids) : n = 1 \/ (n - 1 \in 1..Len(rest) /\ rest[n - 1] = ids[n])
        /\ Head(ids) = ids[1] /\ Head(ids) \in TaskIds /\ 1 \in 1..Len(ids)
    BY <1>1, RestOfIds
  <1>3. PICK rec : rec = <<Head(ids), stamp>>
    OBVIOUS
  <1>4. rec \in ReadRecords /\ rec[1] = ids[1] /\ rec[2] = stamp
    BY <1>2, <1>3 DEF ReadRecords
  <1>5. PICK new : new = Append(got, rec)
    OBVIOUS
  <1>6. /\ new \in Seq(ReadRecords) /\ Len(got) \in Nat /\ Len(new) = Len(got) + 1
        /\ \A n \in 1..Len(got) : n \in 1..Len(new) /\ new[n] = got[n]
        /\ new[Len(new)] = rec /\ Len(new) \in 1..Len(new)
        /\ \A n \in 1..Len(new) : n = Len(new) \/ n \in 1..Len(got)
    BY <1>4, <1>5
  <1>7. Complete(new, rest, d)
    <2>1. ASSUME NEW i \in TaskIds, d[i] > 0
          PROVE  \/ \E n \in 1..Len(new) : new[n][1] = i /\ new[n][2] >= d[i]
                 \/ \E n \in 1..Len(rest) : rest[n] = i
      <3>1. CASE \E n \in 1..Len(got) : got[n][1] = i /\ got[n][2] >= d[i]
        BY <1>6, <3>1
      <3>2. CASE i = ids[1]
        <4>1. rec[1] = i /\ rec[2] >= d[i]
          BY <1>2, <1>4, <3>2
        <4> QED BY <1>6, <4>1
      <3>3. ASSUME NEW n \in 1..Len(ids), ids[n] = i, i # ids[1]
            PROVE  \E m \in 1..Len(rest) : rest[m] = i
        <4>1. n - 1 \in 1..Len(rest) /\ rest[n - 1] = i
          BY <1>2, <3>3
        <4> QED BY <4>1
      <3> QED BY <2>1, <3>1, <3>2, <3>3 DEF Complete
    <2> QED BY <2>1 DEF Complete
  <1>8. \A m \in 1..Len(got) : got[m][1] # ids[1]
    BY <1>2 DEF Distinct
  <1>9. Distinct(new, rest)
    <2>1. ASSUME NEW m \in 1..Len(new), NEW n \in 1..Len(new), new[m][1] = new[n][1]
          PROVE  m = n
      <3>1. CASE m \in 1..Len(got) /\ n \in 1..Len(got)
        BY <1>6, <2>1, <3>1 DEF Distinct
      <3>2. CASE m = Len(new) /\ n \in 1..Len(got)
        BY <1>4, <1>6, <1>8, <2>1, <3>2
      <3>3. CASE n = Len(new) /\ m \in 1..Len(got)
        BY <1>4, <1>6, <1>8, <2>1, <3>3
      <3> QED BY <1>6, <3>1, <3>2, <3>3
    <2>2. ASSUME NEW m \in 1..Len(rest), NEW n \in 1..Len(rest), rest[m] = rest[n]
          PROVE  m = n
      <3>1. m + 1 = n + 1
        <4>1. m + 1 \in 1..Len(ids) /\ n + 1 \in 1..Len(ids) /\ ids[m + 1] = ids[n + 1]
          BY <1>2, <2>2
        <4>2. \A p, q \in 1..Len(ids) : ids[p] = ids[q] => p = q
          BY DEF Distinct
        <4> QED BY <4>1, <4>2
      <3> QED BY <1>2, <3>1
    <2>3. ASSUME NEW m \in 1..Len(new), NEW n \in 1..Len(rest)
          PROVE  new[m][1] # rest[n]
      <3>1. CASE m \in 1..Len(got)
        <4>1. n + 1 \in 1..Len(ids) /\ rest[n] = ids[n + 1] /\ new[m] = got[m]
          BY <1>2, <1>6, <3>1
        <4>2. got[m][1] # ids[n + 1]
          BY <3>1, <4>1 DEF Distinct
        <4> QED BY <4>1, <4>2
      <3>2. CASE m = Len(new)
        <4>1. ids[n + 1] # ids[1]
          <5>1. n + 1 \in 1..Len(ids) /\ n + 1 # 1
            BY <1>2
          <5> QED BY <1>2, <5>1 DEF Distinct
        <4> QED BY <1>2, <1>4, <1>6, <3>2, <4>1
      <3> QED BY <1>6, <3>1, <3>2
    <2> QED BY <2>1, <2>2, <2>3 DEF Distinct
  <1> QED BY <1>1, <1>3, <1>5, <1>6, <1>7, <1>9

(* One GET, or the end of the list. *)
LEMMA RedisGetStep ==
  ASSUME BackendsInv, NEW c \in StoreClients, RedisGet(c)
  PROVE  BackendsInv'
  <1>1. /\ kind' = kind /\ saves' = saves /\ table' = table /\ index' = index /\ acked' = acked
        /\ due' = due /\ op[c].pc = "get"
    BY DEF RedisGet
  <1>2. PICK d : d = due[c]
    OBVIOUS
  <1>3. d \in [TaskIds -> Nat] /\ due' = [due EXCEPT ![c] = d] /\ \A i \in TaskIds : d[i] <= acked[i]
    BY <1>1, <1>2, BackendFacts
  <1>4. PICK ids : ids = op[c].ids
    OBVIOUS
  <1>5. PICK got : got = op[c].got
    OBVIOUS
  <1>6. /\ op[c] \in StoreCalls /\ ids \in Seq(TaskIds) /\ got \in Seq(ReadRecords)
    BY <1>4, <1>5, BackendFacts DEF StoreCalls
  <1>7. Complete(got, ids, d) /\ Distinct(got, ids)
    BY <1>1, <1>2, <1>4, <1>5 DEF BackendsInv, Reading
  <1>8. CASE ids = << >>
    <2>1. PICK o : o = NoCall
      OBVIOUS
    <2>2. o \in StoreCalls /\ o.pc # "list" /\ o.pc # "get" /\ o.pc # "saved"
      BY <2>1, NoCallFacts
    <2>3. op' = [op EXCEPT ![c] = o] /\ listed' = [listed EXCEPT ![c] = got]
      BY <1>4, <1>5, <1>8, <2>1 DEF RedisGet, SetOp
    <2>4. Lists(got, d)
      <3>1. Len(ids) = 0
        BY <1>8
      <3> QED BY <1>7, <3>1 DEF Complete, Distinct, Lists
    <2> QED BY <1>1, <1>3, <2>2, <2>3, <2>4, ListingCall
  <1>9. CASE ids # << >>
    <2>1. PICK a : a = listed[c]
      OBVIOUS
    <2>2. listed' = listed /\ listed' = [listed EXCEPT ![c] = a] /\ Lists(a, d)
      BY <1>2, <1>4, <1>9, <2>1, BackendFacts DEF RedisGet
    <2>3. PICK i \in TaskIds : i = Head(ids)
      BY <1>6, <1>9, RestOfIds
    <2>4. d[i] \in Nat /\ table[i].stamp \in Nat
      BY <1>3, BackendFacts
    <2>5. Tail(ids) \in Seq(TaskIds)
      BY <1>6, <1>9, RestOfIds
    <2>6. CASE table[i] = Missing
      <3>1. d[i] = 0
        <4>1. ~(due[c][i] > 0)
          BY <2>6, DueIsStored
        <4> QED BY <1>2, <2>4, <4>1
      <3>2. PICK o : o = [op[c] EXCEPT !.ids = Tail(ids), !.got = got]
        OBVIOUS
      <3>3. op' = [op EXCEPT ![c] = o]
        BY <1>4, <1>5, <1>9, <2>3, <2>6, <3>2 DEF RedisGet, SetOp
      <3>4. /\ o \in StoreCalls /\ o.pc = "get" /\ o.pc # "list" /\ o.pc # "saved"
            /\ o.ids = Tail(ids) /\ o.got = got
        BY <1>1, <1>6, <2>5, <3>2 DEF StoreCalls
      <3>5. Complete(got, Tail(ids), d) /\ Distinct(got, Tail(ids))
        BY <1>3, <1>6, <1>7, <1>9, <2>3, <3>1, PassOver
      <3>6. Complete(o.got, o.ids, d) /\ Distinct(o.got, o.ids)
        BY <3>4, <3>5
      <3> QED BY <1>1, <1>3, <2>2, <3>3, <3>4, <3>6, ListingCall
    <2>7. CASE table[i] # Missing
      <3>1. table[i].stamp >= d[i]
        <4>1. due[c][i] > 0 => table[i].stamp >= due[c][i]
          BY DueIsStored
        <4> QED BY <1>2, <2>4, <4>1
      <3>2. PICK stamp \in Nat : stamp = table[i].stamp
        BY <2>4
      <3>3. PICK more : more = Append(got, <<i, stamp>>)
        OBVIOUS
      <3>4. PICK o : o = [op[c] EXCEPT !.ids = Tail(ids), !.got = more]
        OBVIOUS
      <3>5. op' = [op EXCEPT ![c] = o]
        BY <1>4, <1>5, <1>9, <2>3, <2>7, <3>2, <3>3, <3>4 DEF RedisGet, SetOp
      <3>6. /\ more \in Seq(ReadRecords)
            /\ Complete(more, Tail(ids), d) /\ Distinct(more, Tail(ids))
        BY <1>3, <1>6, <1>7, <1>9, <2>3, <3>1, <3>2, <3>3, ReadOne
      <3>7. /\ o \in StoreCalls /\ o.pc = "get" /\ o.pc # "list" /\ o.pc # "saved"
            /\ o.ids = Tail(ids) /\ o.got = more
        BY <1>1, <1>6, <2>5, <3>4, <3>6 DEF StoreCalls
      <3>8. Complete(o.got, o.ids, d) /\ Distinct(o.got, o.ids)
        BY <3>6, <3>7
      <3> QED BY <1>1, <1>3, <2>2, <3>5, <3>7, <3>8, ListingCall
    <2> QED BY <2>6, <2>7
  <1> QED BY <1>8, <1>9

(* The stores start empty and idle. *)
LEMMA BackendsInvInit ==
  ASSUME BackendsInit
  PROVE  BackendsInv
  <1>1. Missing \in StoredRecords /\ Missing.stamp = 0
    BY DEF Missing, StoredRecords
  <1>2. BackendsTypeOK
    BY <1>1, NoCallFacts DEF BackendsInit, BackendsTypeOK
  <1>3. StampsGrow
    BY <1>1 DEF BackendsInit, StampsGrow
  <1>4. Indexed /\ Reading
    BY NoCallFacts DEF BackendsInit, Indexed, Reading
  <1>5. ListedAfterSave
    BY DEF BackendsInit, ListedAfterSave
  <1> QED BY <1>2, <1>3, <1>4, <1>5 DEF BackendsInv

(* Every step of every client keeps the invariant. *)
LEMMA BackendsInvStep ==
  ASSUME BackendsInv, [BackendsNext]_backendVars
  PROVE  BackendsInv'
  <1>1. CASE UNCHANGED backendVars
    <2>1. BackendsTypeOK' /\ StampsGrow'
      BY <1>1 DEF backendVars, BackendsInv, BackendsTypeOK, StampsGrow
    <2>2. Indexed' /\ Reading'
      BY <1>1 DEF backendVars, BackendsInv, Indexed, Reading
    <2>3. ListedAfterSave'
      BY <1>1 DEF backendVars, BackendsInv, ListedAfterSave
    <2> QED BY <2>1, <2>2, <2>3 DEF BackendsInv
  <1>2. ASSUME NEW c \in StoreClients,
               \/ \E i \in TaskIds, st \in Statuses : BeginSave(c, i, st)
               \/ SaveRow(c) \/ RedisSet(c) \/ RedisAdd(c) \/ SaveReturns(c) \/ ConnectionLost(c)
        PROVE  BackendsInv'
    BY <1>2, BeginSaveStep, WriteStep, RedisAddStep, SaveReturnsStep, ConnectionLostStep
  <1>3. ASSUME NEW c \in StoreClients,
               BeginList(c) \/ ListRows(c) \/ RedisMembers(c) \/ RedisGet(c)
        PROVE  BackendsInv'
    BY <1>3, BeginListStep, ListRowsStep, RedisMembersStep, RedisGetStep
  <1> QED BY <1>1, <1>2, <1>3 DEF BackendsNext

(* ListedAfterSave, for any number of clients, tasks and saves: a list that *)
(* begins after a save returned contains the task, once, with a record as   *)
(* new, also where record and index are written and read apart.             *)
THEOREM ListedTheorem == BackendsSpec => []ListedAfterSave
  <1>1. BackendsInit => BackendsInv
    BY BackendsInvInit
  <1>2. BackendsInv /\ [BackendsNext]_backendVars => BackendsInv'
    BY BackendsInvStep
  <1>3. BackendsInv => ListedAfterSave
    BY DEF BackendsInv
  <1> QED BY <1>1, <1>2, <1>3, PTL DEF BackendsSpec

-----------------------------------------------------------------------------
(* The pages of the lists, for any tasks and any filter.                    *)

(* Before is a strict total order on numbers, and for SQL on the task ids,  *)
(* which have a time of creation.                                           *)
StrictOrder(k, S) ==
    /\ \A i \in S : ~Before(i, i, k)
    /\ \A i, j \in S : i = j \/ Before(i, j, k) \/ Before(j, i, k)
    /\ \A h, i, j \in S : Before(h, i, k) /\ Before(i, j, k) => Before(h, j, k)

(* It is. *)
LEMMA BeforeOrders ==
  ASSUME NEW S \in SUBSET Nat, NEW k, k # "sql" \/ S \subseteq TaskIds
  PROVE  StrictOrder(k, S)
  <1>1. CASE k # "sql"
    BY <1>1 DEF StrictOrder, Before
  <1>2. CASE k = "sql" /\ S \subseteq TaskIds
    <2>1. \A i \in S : i \in Int /\ CreatedAt[i] \in Int
      BY <1>2, BackendConstants DEF TaskIds
    <2> QED BY <1>2, <2>1 DEF StrictOrder, Before
  <1> QED BY <1>1, <1>2

(* The members of S that come before i. *)
Below(i, k, S) == {j \in S : Before(j, i, k)}

(* Every finite set has an ordering: each member at the place that the      *)
(* number of members before it gives.                                       *)
LEMMA OrderingExists ==
  ASSUME NEW S, IsFiniteSet(S), NEW k, StrictOrder(k, S)
  PROVE  Orderings(S, k) # {}
  <1>1. PICK N \in Nat : N = Cardinality(S)
    BY FS_CardinalityType
  <1>2. PICK rank : rank = [i \in S |-> Cardinality(Below(i, k, S)) + 1]
    OBVIOUS
  <1>3. ASSUME NEW i \in S
        PROVE  /\ IsFiniteSet(Below(i, k, S)) /\ Cardinality(Below(i, k, S)) \in Nat
               /\ rank[i] = Cardinality(Below(i, k, S)) + 1
               /\ rank[i] \in 1..N
    <2>1. Below(i, k, S) \in SUBSET S /\ i \notin Below(i, k, S)
      BY DEF Below, StrictOrder
    <2>2. /\ IsFiniteSet(Below(i, k, S)) /\ Cardinality(Below(i, k, S)) <= N
          /\ Cardinality(Below(i, k, S)) = N => Below(i, k, S) = S
      BY <1>1, <2>1, FS_Subset
    <2>3. Cardinality(Below(i, k, S)) \in Nat
      BY <2>2, FS_CardinalityType
    <2>4. Cardinality(Below(i, k, S)) # N
      BY <2>1, <2>2
    <2>5. rank[i] = Cardinality(Below(i, k, S)) + 1
      BY <1>2
    <2> QED BY <2>2, <2>3, <2>4, <2>5
  <1>4. ASSUME NEW i \in S, NEW j \in S, Before(i, j, k)
        PROVE  rank[i] < rank[j]
    <2>1. Below(i, k, S) \in SUBSET Below(j, k, S)
      BY <1>4 DEF Below, StrictOrder
    <2>2. i \in Below(j, k, S) /\ i \notin Below(i, k, S)
      BY <1>4 DEF Below, StrictOrder
    <2>3. /\ Cardinality(Below(i, k, S)) <= Cardinality(Below(j, k, S))
          /\ Cardinality(Below(i, k, S)) # Cardinality(Below(j, k, S))
      BY <1>3, <2>1, <2>2, FS_Subset
    <2> QED BY <1>3, <2>3
  <1>5. ASSUME NEW i \in S, NEW j \in S, rank[i] = rank[j]
        PROVE  i = j
    <2>1. rank[i] \in Nat /\ rank[j] \in Nat
      BY <1>3
    <2>2. ~Before(i, j, k) /\ ~Before(j, i, k)
      BY <1>4, <1>5, <2>1
    <2> QED BY <2>2 DEF StrictOrder
  <1>6. rank \in Injection(S, 1..N)
    <2>1. rank \in [S -> 1..N]
      BY <1>2, <1>3
    <2>2. IsInjective(rank)
      BY <1>5, <2>1 DEF IsInjective
    <2> QED BY <2>1, <2>2 DEF Injection
  <1>7. \A n \in 1..N : \E i \in S : rank[i] = n
    <2>1. IsFiniteSet(1..N) /\ Cardinality(1..N) = N
      BY FS_Interval
    <2>2. rank \in Surjection(S, 1..N)
      BY <1>1, <1>6, <2>1, FS_Injection
    <2> QED BY <2>2 DEF Surjection
  <1>8. PICK s : s = [n \in 1..N |-> CHOOSE i \in S : rank[i] = n]
    OBVIOUS
  <1>9. \A n \in 1..N : s[n] \in S /\ rank[s[n]] = n
    BY <1>7, <1>8
  <1>10. s \in [1..N -> S]
    BY <1>8, <1>9
  <1>11. \A i \in S : s[rank[i]] = i
    BY <1>3, <1>5, <1>9
  <1>12. \A i \in S : \E n \in DOMAIN s : s[n] = i
    BY <1>3, <1>10, <1>11
  <1>13. ASSUME NEW m \in 1..N, NEW n \in 1..N, m < n
         PROVE  Before(s[m], s[n], k)
    <2>1. s[m] \in S /\ s[n] \in S /\ rank[s[m]] = m /\ rank[s[n]] = n
      BY <1>9
    <2>2. ~Before(s[n], s[m], k)
      BY <1>4, <1>13, <2>1
    <2>3. s[m] # s[n]
      BY <1>13, <2>1
    <2> QED BY <2>1, <2>2, <2>3 DEF StrictOrder
  <1>14. s \in Orderings(S, k)
    BY <1>1, <1>10, <1>12, <1>13 DEF Orderings
  <1> QED BY <1>14

(* So Ordered denotes one. *)
LEMMA OrderedIsOrdering ==
  ASSUME NEW S \in SUBSET Nat, IsFiniteSet(S), NEW k, k # "sql" \/ S \subseteq TaskIds
  PROVE  Ordered(S, k) \in Orderings(S, k)
  BY BeforeOrders, OrderingExists DEF Ordered

(* What a filter keeps. *)
Keeps(f, i) == f.status = AnyStatus \/ table[i].status = f.status
Kept(ids, f) == {n \in DOMAIN ids : Keeps(f, ids[n])}
IdsAt(ids, kept) == {ids[n] : n \in kept}

(* What Selected returns: the positions it keeps, ascending. *)
LEMMA SelectedFacts ==
  ASSUME NEW ids \in Seq(TaskIds), NEW f,
         NEW kept, kept = Kept(ids, f)
  PROVE  /\ Selected(ids, f) \in Seq(TaskIds)
         /\ IsFiniteSet(kept) /\ Len(Selected(ids, f)) = Cardinality(kept)
         /\ ToSet(Selected(ids, f)) = IdsAt(ids, kept)
  <1>1. kept \in SUBSET (1..Len(ids)) /\ kept \in SUBSET Nat
    BY DEF Kept
  <1>2. IsFiniteSet(kept) /\ Cardinality(kept) \in Nat
    <2>1. IsFiniteSet(1..Len(ids))
      BY FS_Interval
    <2> QED BY <1>1, <2>1, FS_Subset, FS_CardinalityType
  <1>3. PICK place : place = Ordered(kept, "memory")
    OBVIOUS
  <1>4. place \in Orderings(kept, "memory")
    BY <1>1, <1>2, <1>3, OrderedIsOrdering
  <1>5. PICK size \in Nat : size = Cardinality(kept)
    BY <1>2
  <1>6. place \in [1..size -> kept] /\ \A n \in kept : \E p \in 1..size : place[p] = n
    BY <1>4, <1>5 DEF Orderings
  <1>7. Selected(ids, f) = [p \in DOMAIN place |-> ids[place[p]]]
    BY <1>3 DEF Selected, Kept, Keeps
  <1>8. PICK chosen : chosen = [p \in 1..size |-> ids[place[p]]]
    OBVIOUS
  <1>9. Selected(ids, f) = chosen
    BY <1>6, <1>7, <1>8
  <1>10. \A p \in 1..size : place[p] \in kept /\ chosen[p] = ids[place[p]] /\ ids[place[p]] \in TaskIds
    BY <1>1, <1>6, <1>8
  <1>11. chosen \in Seq(TaskIds) /\ Len(chosen) = size /\ DOMAIN chosen = 1..size
    BY <1>8, <1>10
  <1>12. ToSet(chosen) = IdsAt(ids, kept)
    <2>1. ASSUME NEW i \in ToSet(chosen)
          PROVE  i \in IdsAt(ids, kept)
      <3>1. PICK p \in 1..size : chosen[p] = i
        BY <1>11, <2>1 DEF ToSet
      <3> QED BY <1>10, <3>1 DEF IdsAt
    <2>2. ASSUME NEW i \in IdsAt(ids, kept)
          PROVE  i \in ToSet(chosen)
      <3>1. PICK n \in kept : ids[n] = i
        BY <2>2 DEF IdsAt
      <3>2. PICK p \in 1..size : place[p] = n
        BY <1>6, <3>1
      <3> QED BY <1>10, <1>11, <3>1, <3>2 DEF ToSet
    <2> QED BY <2>1, <2>2
  <1> QED BY <1>2, <1>5, <1>9, <1>11, <1>12

(* The ids that a filter keeps of an ordering are as many as the filter     *)
(* keeps of its set, and the same.                                          *)
LEMMA SelectedOfOrdering ==
  ASSUME NEW S \in SUBSET TaskIds, NEW k, NEW f
  PROVE  /\ Selected(Ordered(S, k), f) \in Seq(TaskIds)
         /\ Len(Selected(Ordered(S, k), f)) = Cardinality({i \in S : Keeps(f, i)})
         /\ ToSet(Selected(Ordered(S, k), f)) = {i \in S : Keeps(f, i)}
  <1>1. PICK ids : ids = Ordered(S, k)
    OBVIOUS
  <1>2. S \in SUBSET Nat /\ IsFiniteSet(S)
    BY IdFacts DEF TaskIds
  <1>3. ids \in Orderings(S, k)
    BY <1>1, <1>2, OrderedIsOrdering
  <1>4. /\ ids \in Seq(TaskIds) /\ DOMAIN ids = 1..Len(ids) /\ \A n \in 1..Len(ids) : ids[n] \in S
        /\ \A i \in S : \E n \in 1..Len(ids) : ids[n] = i
        /\ \A m, n \in 1..Len(ids) : ids[m] = ids[n] => m = n
    BY <1>3, OrderingFacts DEF Orders
  <1>5. PICK kept : kept = Kept(ids, f)
    OBVIOUS
  <1>6. PICK all : all = {i \in S : Keeps(f, i)}
    OBVIOUS
  <1>7. /\ Selected(ids, f) \in Seq(TaskIds)
        /\ IsFiniteSet(kept) /\ Len(Selected(ids, f)) = Cardinality(kept)
        /\ ToSet(Selected(ids, f)) = IdsAt(ids, kept)
    BY <1>4, <1>5, SelectedFacts
  <1>8. IdsAt(ids, kept) = all
    BY <1>4, <1>5, <1>6 DEF IdsAt, Kept
  <1>9. Cardinality(all) = Cardinality(kept)
    <2>1. PICK g : g = [n \in kept |-> ids[n]]
      OBVIOUS
    <2>2. g \in [kept -> all] /\ DOMAIN g = kept /\ \A n \in kept : g[n] = ids[n]
      BY <1>8, <2>1 DEF IdsAt
    <2>3. IsInjective(g)
      BY <1>4, <1>5, <2>2 DEF IsInjective, Kept
    <2>4. \A i \in all : \E n \in kept : g[n] = i
      BY <1>8, <2>2 DEF IdsAt
    <2>5. g \in Bijection(kept, all)
      BY <2>2, <2>3, <2>4 DEF Bijection, Injection, Surjection
    <2>6. ExistsBijection(kept, all)
      BY <2>5 DEF ExistsBijection
    <2> QED BY <1>7, <2>6, FS_Bijection
  <1> QED BY <1>1, <1>6, <1>7, <1>8, <1>9

(* A page of a list: how many entries it has, and which.                    *)
PageLen(total, offset, limit) ==
    IF offset >= total THEN 0
    ELSE IF limit > total - offset THEN total - offset ELSE limit

IsPage(page, chosen, offset, limit) ==
    /\ page \in Seq(TaskIds)
    /\ Len(page) = PageLen(Len(chosen), offset, limit)
    /\ \A n \in 1..Len(page) : page[n] = chosen[offset + n]

(* The slices [offset:] and [:limit] give a page. *)
LEMMA MemoryPage ==
  ASSUME NEW ids, NEW f, Selected(ids, f) \in Seq(TaskIds), f.offset \in Nat,
         NEW limit \in Nat, f.limit = limit \/ (f.limit = NoLimit /\ limit = Len(Selected(ids, f)))
  PROVE  IsPage(FilterRecords(ids, f), Selected(ids, f), f.offset, limit)
  <1>1. PICK chosen \in Seq(TaskIds) : chosen = Selected(ids, f)
    OBVIOUS
  <1>2. PICK o \in Nat : o = f.offset
    OBVIOUS
  <1>3. PICK L \in Nat : L = Len(chosen)
    OBVIOUS
  <1>4. PICK rest : rest = SubSeq(chosen, o + 1, L)
    OBVIOUS
  <1>5. /\ rest \in Seq(TaskIds)
        /\ Len(rest) = IF o + 1 <= L THEN L - (o + 1) + 1 ELSE 0
        /\ \A i \in 1..(L - (o + 1) + 1) : rest[i] = chosen[o + 1 + i - 1]
    <2>1. \A i \in (o + 1)..L : chosen[i] \in TaskIds
      BY <1>3
    <2> QED BY <1>4, <2>1, SubSeqProperties
  <1>6. /\ Len(rest) = IF o >= L THEN 0 ELSE L - o
        /\ \A i \in 1..Len(rest) : rest[i] = chosen[o + i]
    <2>1. Len(rest) = IF o >= L THEN 0 ELSE L - o
      BY <1>5
    <2>2. ASSUME NEW i \in 1..Len(rest)
          PROVE  rest[i] = chosen[o + i]
      <3>1. i \in 1..(L - (o + 1) + 1) /\ o + 1 + i - 1 = o + i
        BY <2>1, <2>2
      <3> QED BY <1>5, <3>1
    <2> QED BY <2>1, <2>2
  <1>7. CASE f.limit = NoLimit \/ f.limit > Len(rest)
    <2>1. FilterRecords(ids, f) = rest
      BY <1>1, <1>2, <1>3, <1>4, <1>7 DEF FilterRecords
    <2>2. f.limit = NoLimit => limit >= Len(rest)
      BY <1>1, <1>3, <1>6, BackendConstants
    <2>3. Len(rest) = PageLen(L, o, limit)
      BY <1>6, <1>7, <2>2 DEF PageLen
    <2> QED BY <1>1, <1>2, <1>3, <1>5, <1>6, <2>1, <2>3 DEF IsPage
  <1>8. CASE f.limit = limit /\ f.limit # NoLimit /\ ~(limit > Len(rest))
    <2>1. FilterRecords(ids, f) = SubSeq(rest, 1, limit)
      BY <1>1, <1>2, <1>3, <1>4, <1>8 DEF FilterRecords
    <2>2. PICK page : page = SubSeq(rest, 1, limit)
      OBVIOUS
    <2>3. /\ page \in Seq(TaskIds)
          /\ Len(page) = IF 1 <= limit THEN limit - 1 + 1 ELSE 0
          /\ \A i \in 1..(limit - 1 + 1) : page[i] = rest[1 + i - 1]
      <3>1. \A i \in 1..limit : rest[i] \in TaskIds
        BY <1>5, <1>8
      <3> QED BY <2>2, <3>1, SubSeqProperties
    <2>4. Len(page) = limit /\ limit <= Len(rest)
      BY <1>5, <1>8, <2>3
    <2>5. Len(page) = PageLen(L, o, limit)
      BY <1>6, <2>4 DEF PageLen
    <2>6. ASSUME NEW n \in 1..Len(page)
          PROVE  page[n] = chosen[o + n]
      <3>1. n \in 1..(limit - 1 + 1) /\ 1 + n - 1 = n /\ n \in 1..Len(rest)
        BY <1>5, <2>4, <2>6
      <3> QED BY <1>6, <2>3, <3>1
    <2> QED BY <1>1, <1>2, <1>3, <2>1, <2>2, <2>3, <2>5, <2>6 DEF IsPage
  <1> QED BY <1>7, <1>8

(* LIMIT and OFFSET give a page. *)
LEMMA SqlPageFacts ==
  ASSUME NEW ids, NEW f, Selected(ids, f) \in Seq(TaskIds), f.offset \in Nat,
         NEW limit \in Nat, f.limit = limit \/ (f.limit = NoLimit /\ limit = Len(Selected(ids, f)))
  PROVE  IsPage(SqlPage(ids, f), Selected(ids, f), f.offset, limit)
  <1>1. PICK chosen \in Seq(TaskIds) : chosen = Selected(ids, f)
    OBVIOUS
  <1>2. PICK o \in Nat : o = f.offset
    OBVIOUS
  <1>3. PICK L \in Nat : L = Len(chosen)
    OBVIOUS
  <1>4. PICK last : last = IF f.limit = NoLimit THEN L ELSE o + f.limit
    OBVIOUS
  <1>5. PICK to : to = IF last > L THEN L ELSE last
    OBVIOUS
  <1>6. /\ to \in Int /\ to <= L
        /\ (IF o + 1 <= to THEN to - (o + 1) + 1 ELSE 0) = PageLen(L, o, limit)
    <2>1. CASE f.limit = NoLimit
      <3>1. limit = L
        BY <1>1, <1>3, <2>1, BackendConstants
      <3>2. to = L
        BY <1>4, <1>5, <2>1
      <3> QED BY <3>1, <3>2 DEF PageLen
    <2>2. CASE f.limit # NoLimit
      <3>1. last = o + limit
        BY <1>4, <2>2
      <3> QED BY <1>5, <3>1 DEF PageLen
    <2> QED BY <2>1, <2>2
  <1>7. PICK page : page = SubSeq(chosen, o + 1, to)
    OBVIOUS
  <1>8. SqlPage(ids, f) = page
    BY <1>1, <1>2, <1>3, <1>4, <1>5, <1>7 DEF SqlPage
  <1>9. /\ page \in Seq(TaskIds)
        /\ Len(page) = IF o + 1 <= to THEN to - (o + 1) + 1 ELSE 0
        /\ \A i \in 1..(to - (o + 1) + 1) : page[i] = chosen[o + 1 + i - 1]
    <2>1. \A i \in (o + 1)..to : chosen[i] \in TaskIds
      BY <1>3, <1>6
    <2> QED BY <1>6, <1>7, <2>1, SubSeqProperties
  <1>10. Len(page) = PageLen(L, o, limit)
    BY <1>6, <1>9
  <1>11. ASSUME NEW n \in 1..Len(page)
         PROVE  page[n] = chosen[o + n]
    <2>1. n \in 1..(to - (o + 1) + 1) /\ o + 1 + n - 1 = o + n
      BY <1>6, <1>9, <1>11
    <2> QED BY <1>9, <2>1
  <1> QED BY <1>1, <1>2, <1>3, <1>8, <1>9, <1>10, <1>11 DEF IsPage

(* Two pages, each as long as the limit at most, make one of twice the      *)
(* limit.                                                                   *)
LEMMA PagesFollow ==
  ASSUME NEW chosen \in Seq(TaskIds), NEW o \in Nat, NEW limit \in Nat,
         NEW first, IsPage(first, chosen, o, limit),
         NEW next, NEW after, after = o + limit, IsPage(next, chosen, after, limit),
         NEW both, NEW double, double = 2 * limit, IsPage(both, chosen, o, double)
  PROVE  both = first \o next
  <1>1. PICK L \in Nat : L = Len(chosen)
    OBVIOUS
  <1>2. first \in Seq(TaskIds) /\ next \in Seq(TaskIds) /\ both \in Seq(TaskIds)
    BY DEF IsPage
  <1>3. /\ Len(first) = PageLen(L, o, limit)
        /\ Len(next) = PageLen(L, o + limit, limit)
        /\ Len(both) = PageLen(L, o, 2 * limit)
    BY <1>1 DEF IsPage
  <1>4. /\ \A n \in 1..Len(first) : first[n] = chosen[o + n]
        /\ \A n \in 1..Len(next) : next[n] = chosen[o + limit + n]
        /\ \A n \in 1..Len(both) : both[n] = chosen[o + n]
    BY DEF IsPage
  <1>5. /\ Len(both) = Len(first) + Len(next)
        /\ Len(next) > 0 => Len(first) = limit
    BY <1>3 DEF PageLen
  <1>6. PICK whole : whole = first \o next
    OBVIOUS
  <1>7. /\ whole \in Seq(TaskIds) /\ Len(whole) = Len(first) + Len(next)
        /\ \A n \in 1..(Len(first) + Len(next)) :
               whole[n] = IF n <= Len(first) THEN first[n] ELSE next[n - Len(first)]
    BY <1>2, <1>6, ConcatProperties
  <1>8. PICK a \in Nat : a = Len(first)
    BY <1>2
  <1>9. PICK b \in Nat : b = Len(next)
    BY <1>2
  <1>10. Len(both) = a + b /\ (b > 0 => a = limit)
    BY <1>5, <1>8, <1>9
  <1>11. ASSUME NEW n \in 1..(a + b)
         PROVE  both[n] = whole[n]
    <2>1. both[n] = chosen[o + n] /\ whole[n] = IF n <= a THEN first[n] ELSE next[n - a]
      BY <1>4, <1>7, <1>8, <1>9, <1>10
    <2>2. CASE n <= a
      <3>1. first[n] = chosen[o + n]
        BY <1>4, <1>8, <2>2
      <3> QED BY <2>1, <2>2, <3>1
    <2>3. CASE ~(n <= a)
      <3>1. n - a \in 1..b /\ a = limit
        BY <1>10, <2>3
      <3>2. next[n - a] = chosen[o + limit + (n - a)]
        BY <1>4, <1>9, <3>1
      <3>3. o + limit + (n - a) = o + n
        BY <3>1
      <3> QED BY <2>1, <2>3, <3>2, <3>3
    <2> QED BY <2>2, <2>3
  <1>12. Len(whole) = Len(both) /\ \A n \in 1..Len(both) : both[n] = whole[n]
    BY <1>7, <1>8, <1>9, <1>10, <1>11
  <1> QED BY <1>2, <1>6, <1>7, <1>12, SeqEqual

(* The number of entries a page may have. *)
Allowed(f, total) == IF f.limit = NoLimit THEN total ELSE f.limit

(* Both stores answer a filter with a page of the tasks it keeps. *)
LEMMA Answers ==
  ASSUME NEW f, f.offset \in Nat, f.limit \in Nat \cup {NoLimit},
         NEW total, total = Cardinality({i \in Listable : Keeps(f, i)})
  PROVE  /\ total \in Nat /\ Allowed(f, total) \in Nat
         /\ Selected(Ordered(Listable, "memory"), f) \in Seq(TaskIds)
         /\ Len(Selected(Ordered(Listable, "memory"), f)) = total
         /\ Len(Selected(Ordered(Listable, "sql"), f)) = total
         /\ ToSet(Selected(Ordered(Listable, "memory"), f)) = ToSet(Selected(Ordered(Listable, "sql"), f))
         /\ IsPage(FilterRecords(Ordered(Listable, "memory"), f),
                   Selected(Ordered(Listable, "memory"), f), f.offset, Allowed(f, total))
         /\ IsPage(SqlPage(Ordered(Listable, "sql"), f),
                   Selected(Ordered(Listable, "sql"), f), f.offset, Allowed(f, total))
  <1>1. PICK byId : byId = Ordered(Listable, "memory")
    OBVIOUS
  <1>2. PICK byCreation : byCreation = Ordered(Listable, "sql")
    OBVIOUS
  <1>3. Listable \in SUBSET TaskIds
    BY DEF Listable, Present
  <1>4. /\ Selected(byId, f) \in Seq(TaskIds) /\ Len(Selected(byId, f)) = total
        /\ ToSet(Selected(byId, f)) = {i \in Listable : Keeps(f, i)}
    BY <1>1, <1>3, SelectedOfOrdering
  <1>5. /\ Selected(byCreation, f) \in Seq(TaskIds) /\ Len(Selected(byCreation, f)) = total
        /\ ToSet(Selected(byCreation, f)) = {i \in Listable : Keeps(f, i)}
    BY <1>2, <1>3, SelectedOfOrdering
  <1>6. total \in Nat
    BY <1>4
  <1>7. PICK limit \in Nat : limit = Allowed(f, total)
    BY <1>6 DEF Allowed
  <1>8. f.limit = limit \/ (f.limit = NoLimit /\ limit = total)
    BY <1>7 DEF Allowed
  <1>9. IsPage(FilterRecords(byId, f), Selected(byId, f), f.offset, limit)
    BY <1>4, <1>8, MemoryPage
  <1>10. IsPage(SqlPage(byCreation, f), Selected(byCreation, f), f.offset, limit)
    BY <1>5, <1>8, SqlPageFacts
  <1> QED BY <1>1, <1>2, <1>4, <1>5, <1>6, <1>7, <1>9, <1>10

(* A page of everything is the list. *)
LEMMA WholePage ==
  ASSUME NEW chosen \in Seq(TaskIds), NEW page, IsPage(page, chosen, 0, Len(chosen))
  PROVE  page = chosen
  <1>1. page \in Seq(TaskIds) /\ Len(page) = Len(chosen)
    BY DEF IsPage, PageLen
  <1>2. \A n \in 1..Len(page) : page[n] = chosen[n]
    BY <1>1 DEF IsPage
  <1> QED BY <1>1, <1>2, SeqEqual

(* PagesAgree, for any number of tasks, any times of creation and any    *)
(* filter with a limit and an offset that are not negative: the stores that *)
(* page in Python and the ones that page in SQL answer with pages of equal  *)
(* length, with the same tasks, and the pages of a list follow each other.  *)
LEMMA PagesFacts == PagesAgree
  <1> SUFFICES ASSUME NEW f \in Filters,
                      NEW following, following = [f EXCEPT !.offset = f.offset + f.limit],
                      NEW all, all = [f EXCEPT !.offset = 0, !.limit = NoLimit],
                      NEW twice, twice = [f EXCEPT !.limit = 2 * f.limit]
               PROVE  /\ Len(FilterRecords(Ordered(Listable, "memory"), f))
                             = Len(SqlPage(Ordered(Listable, "sql"), f))
                      /\ ToSet(FilterRecords(Ordered(Listable, "memory"), all))
                             = ToSet(SqlPage(Ordered(Listable, "sql"), all))
                      /\ f.limit # NoLimit =>
                             FilterRecords(Ordered(Listable, "memory"), twice)
                                 = FilterRecords(Ordered(Listable, "memory"), f)
                                       \o FilterRecords(Ordered(Listable, "memory"), following)
    BY DEF PagesAgree
  <1>1. PICK byId : byId = Ordered(Listable, "memory")
    OBVIOUS
  <1>2. PICK byCreation : byCreation = Ordered(Listable, "sql")
    OBVIOUS
  <1>3. PICK total : total = Cardinality({i \in Listable : Keeps(f, i)})
    OBVIOUS
  <1>4. f.offset \in Nat /\ f.limit \in Nat \cup {NoLimit} /\ NoLimit \notin Nat
    BY BackendConstants
  <1>5. Len(FilterRecords(byId, f)) = Len(SqlPage(byCreation, f))
    BY <1>1, <1>2, <1>3, <1>4, Answers DEF IsPage
  <1>6. ToSet(FilterRecords(byId, all)) = ToSet(SqlPage(byCreation, all))
    <2>1. all.offset = 0 /\ all.limit = NoLimit
      BY BackendConstants
    <2>2. PICK n : n = Cardinality({i \in Listable : Keeps(all, i)})
      OBVIOUS
    <2>3. PICK mem : mem = Selected(byId, all)
      OBVIOUS
    <2>4. PICK sql : sql = Selected(byCreation, all)
      OBVIOUS
    <2>5. /\ n \in Nat /\ Allowed(all, n) = n /\ Len(mem) = n /\ Len(sql) = n
          /\ ToSet(mem) = ToSet(sql) /\ mem \in Seq(TaskIds) /\ sql \in Seq(TaskIds)
          /\ IsPage(FilterRecords(byId, all), mem, 0, n)
          /\ IsPage(SqlPage(byCreation, all), sql, 0, n)
      <3>1. all.offset \in Nat /\ all.limit \in Nat \cup {NoLimit}
        BY <2>1
      <3>2. Allowed(all, n) = n
        BY <2>1 DEF Allowed
      <3>3. /\ n \in Nat /\ mem \in Seq(TaskIds) /\ Len(mem) = n /\ Len(sql) = n
            /\ ToSet(mem) = ToSet(sql)
            /\ IsPage(FilterRecords(byId, all), mem, all.offset, Allowed(all, n))
            /\ IsPage(SqlPage(byCreation, all), sql, all.offset, Allowed(all, n))
        BY <1>1, <1>2, <2>2, <2>3, <2>4, <3>1, Answers
      <3>4. sql \in Seq(TaskIds)
        BY <1>2, <2>4, SelectedOfOrdering DEF Listable, Present
      <3> QED BY <2>1, <3>2, <3>3, <3>4
    <2>6. FilterRecords(byId, all) = mem
      BY <2>5, WholePage
    <2>7. SqlPage(byCreation, all) = sql
      BY <2>5, WholePage
    <2> QED BY <2>5, <2>6, <2>7
  <1>7. ASSUME f.limit # NoLimit
        PROVE  FilterRecords(byId, twice) = FilterRecords(byId, f) \o FilterRecords(byId, following)
    <2>1. PICK o \in Nat : o = f.offset
      BY <1>4
    <2>2. PICK l \in Nat : l = f.limit
      BY <1>4, <1>7
    <2>3. /\ following.offset = o + l /\ following.limit = l /\ following.status = f.status
          /\ twice.offset = o /\ twice.limit = 2 * l /\ twice.status = f.status
      BY <2>1, <2>2, BackendConstants
    <2>4. o + l \in Nat /\ 2 * l \in Nat
      OBVIOUS
    <2>5. Selected(byId, following) = Selected(byId, f) /\ Selected(byId, twice) = Selected(byId, f)
      BY <2>3 DEF Selected
    <2>6. PICK chosen : chosen = Selected(byId, f)
      OBVIOUS
    <2>7. chosen \in Seq(TaskIds) /\ IsPage(FilterRecords(byId, f), chosen, o, l)
      BY <1>1, <1>3, <1>4, <1>7, <2>1, <2>2, <2>6, Answers DEF Allowed
    <2>8. IsPage(FilterRecords(byId, following), chosen, o + l, l)
      BY <2>3, <2>4, <2>5, <2>6, <2>7, MemoryPage
    <2>9. IsPage(FilterRecords(byId, twice), chosen, o, 2 * l)
      BY <2>3, <2>4, <2>5, <2>6, <2>7, MemoryPage
    <2>10. PICK first : first = FilterRecords(byId, f)
      OBVIOUS
    <2>11. PICK next : next = FilterRecords(byId, following)
      OBVIOUS
    <2>12. PICK both : both = FilterRecords(byId, twice)
      OBVIOUS
    <2>13. both = first \o next
      <3>1. PICK after : after = o + l
        OBVIOUS
      <3>2. PICK double : double = 2 * l
        OBVIOUS
      <3>3. /\ IsPage(first, chosen, o, l) /\ IsPage(next, chosen, after, l)
            /\ IsPage(both, chosen, o, double)
        BY <2>7, <2>8, <2>9, <2>10, <2>11, <2>12, <3>1, <3>2
      <3> QED BY <2>7, <3>1, <3>2, <3>3, PagesFollow
    <2> QED BY <2>10, <2>11, <2>12, <2>13
  <1> QED BY <1>1, <1>2, <1>5, <1>6, <1>7

(* PagesAgree holds of whatever the stores hold, so in every state: the     *)
(* slices of Python and the LIMIT and OFFSET of SQL cut the same pages, for *)
(* any number of tasks and any filter.                                      *)
THEOREM PagesTheorem == BackendsSpec => []PagesAgree
  BY PagesFacts, PTL
=============================================================================
