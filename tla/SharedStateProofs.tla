------------------------- MODULE SharedStateProofs -------------------------
(***************************************************************************)
(* Proofs about the components that request threads and processes share:   *)
(* TaskQueue, ApiKeyStore, EngineCluster, GuildKnowledge and               *)
(* ControlPlaneApi, one section each.  They have no state in common.       *)
(***************************************************************************)
EXTENDS TaskQueue, ApiKeyStore, EngineCluster, GuildKnowledge, ControlPlaneApi, FiniteSetTheorems,
        SequenceTheorems, TLAPS

-----------------------------------------------------------------------------
(* TaskQueue, for any number of threads, ids and any capacity. *)

(* What the threads hold: an id to append, or nothing. *)
QueueTypeInv ==
    /\ deque \in Seq(TaskIds)
    /\ taken \in Seq(TaskIds)
    /\ appended \in Seq(TaskIds)
    /\ pc \in [Threads -> {"idle", "append", "popleft"}]
    /\ arg \in [Threads -> TaskIds \cup {NoTask}]
    /\ \A t \in Threads : pc[t] = "append" => arg[t] \in TaskIds

QueueInv == QueueTypeInv /\ FirstInFirstOut /\ OvershootBounded

(* At most all threads are between test and append. *)
LEMMA AppendingFinite ==
  /\ IsFiniteSet(Appending)
  /\ Cardinality(Appending) \in Nat
  /\ Cardinality(Threads) \in Nat
  /\ Cardinality(Appending) <= Cardinality(Threads)
  <1>1. Appending \subseteq Threads
    BY DEF Appending
  <1> QED BY <1>1, QueueConstants, FS_Subset, FS_CardinalityType

(* A thread that has appended is no longer counted. *)
LEMMA OneLess ==
  ASSUME NEW t \in Threads, QueueTypeInv, pc[t] = "append",
         pc' = [pc EXCEPT ![t] = "idle"]
  PROVE  Cardinality(Appending') = Cardinality(Appending) - 1
  <1>1. Appending' = Appending \ {t}
    BY DEF Appending, QueueTypeInv
  <1>2. t \in Appending
    BY DEF Appending
  <1> QED BY <1>1, <1>2, AppendingFinite, FS_RemoveElement

(* Appending to a concatenation appends to its second part. *)
LEMMA AppendAfterConcat ==
  \A s, u \in Seq(TaskIds) : \A e \in TaskIds : Append(s \o u, e) = s \o Append(u, e)
  <1> TAKE s, u \in Seq(TaskIds)
  <1> TAKE e \in TaskIds
  <1>1. <<e>> \in Seq(TaskIds) /\ s \o u \in Seq(TaskIds)
    OBVIOUS
  <1>2. Append(s \o u, e) = (s \o u) \o <<e>>
    BY <1>1, AppendIsConcat
  <1>3. Append(u, e) = u \o <<e>>
    BY AppendIsConcat
  <1> QED BY <1>1, <1>2, <1>3, ConcatAssociative

(* The queue starts empty. *)
LEMMA QueueInit == Init => QueueInv
  <1> SUFFICES ASSUME Init PROVE QueueInv
    OBVIOUS
  <1> USE DEF Init
  <1>1. QueueTypeInv
    BY DEF QueueTypeInv
  <1>2. FirstInFirstOut
    BY DEF FirstInFirstOut
  <1>3. OvershootBounded
    <2>1. Appending = {}
      BY DEF Appending
    <2>2. CASE Threads = {}
      <3>1. Cardinality(Appending) = 0 /\ Cardinality(Threads) = 0
        BY <2>1, <2>2, FS_EmptySet
      <3> QED BY <3>1, QueueConstants DEF OvershootBounded
    <2>3. CASE Threads # {}
      <3>1. Cardinality(Appending) = 0 /\ Len(deque) = 0
        BY <2>1, FS_EmptySet
      <3> QED BY <3>1, AppendingFinite, QueueConstants DEF OvershootBounded
    <2> QED BY <2>2, <2>3
  <1> QED BY <1>1, <1>2, <1>3 DEF QueueInv

(* Every test, append and popleft keeps the order and the bound. *)
LEMMA QueueNext == QueueInv /\ [Next]_vars => QueueInv'
  <1> SUFFICES ASSUME QueueInv, [Next]_vars PROVE QueueInv'
    OBVIOUS
  <1> USE DEF QueueInv
  <1>0. Len(deque) \in Nat
    BY DEF QueueTypeInv
  <1>1. ASSUME NEW t \in Threads, NEW k \in TaskIds, EnqueueCheck(t, k) PROVE QueueInv'
    <2>1. QueueTypeInv'
      BY <1>1 DEF EnqueueCheck, QueueTypeInv
    <2>2. FirstInFirstOut'
      BY <1>1 DEF EnqueueCheck, FirstInFirstOut
    <2>3. CASE Full
      <3>1. Appending' = Appending /\ deque' = deque
        BY <1>1, <2>3 DEF EnqueueCheck, Appending
      <3> QED BY <2>1, <2>2, <3>1 DEF OvershootBounded
    <2>4. CASE ~Full
      <3>1. Len(deque) < MaxSize /\ deque' = deque
        BY <1>0, <1>1, <2>4, QueueConstants DEF EnqueueCheck, Full
      <3>2. /\ Cardinality(Appending)' \in Nat /\ Cardinality(Threads) \in Nat
            /\ Cardinality(Appending)' <= Cardinality(Threads)
        <4>1. Appending' \subseteq Threads
          BY DEF Appending
        <4> QED BY <4>1, QueueConstants, FS_Subset, FS_CardinalityType
      <3>3. OvershootBounded'
        BY <1>0, <3>1, <3>2, QueueConstants DEF OvershootBounded
      <3> QED BY <2>1, <2>2, <3>3
    <2> QED BY <2>3, <2>4
  <1>2. ASSUME NEW t \in Threads, AppendTask(t) PROVE QueueInv'
    <2>0. arg[t] \in TaskIds
      BY <1>2 DEF AppendTask, QueueTypeInv
    <2>1. QueueTypeInv'
      BY <1>2, <2>0 DEF AppendTask, QueueTypeInv
    <2>2. FirstInFirstOut'
      <3>1. Append(taken \o deque, arg[t]) = taken \o Append(deque, arg[t])
        <4>1. taken \in Seq(TaskIds) /\ deque \in Seq(TaskIds)
          BY DEF QueueTypeInv
        <4> QED BY <2>0, <4>1, AppendAfterConcat, Zenon
      <3> QED BY <1>2, <3>1 DEF AppendTask, FirstInFirstOut
    <2>3. Cardinality(Appending') = Cardinality(Appending) - 1
      BY <1>2, OneLess DEF AppendTask
    <2>4. Len(deque') = Len(deque) + 1
      BY <1>2, <2>0 DEF AppendTask, QueueTypeInv
    <2>5. OvershootBounded'
      BY <1>0, <2>3, <2>4, AppendingFinite, QueueConstants DEF OvershootBounded
    <2> QED BY <2>1, <2>2, <2>5
  <1>3. ASSUME NEW t \in Threads, DequeueCheck(t) PROVE QueueInv'
    <2>1. QueueTypeInv'
      BY <1>3 DEF DequeueCheck, QueueTypeInv
    <2>2. Appending' = Appending /\ deque' = deque
      BY <1>3 DEF DequeueCheck, Appending, QueueTypeInv
    <2>3. FirstInFirstOut' /\ OvershootBounded'
      BY <1>3, <2>2 DEF DequeueCheck, FirstInFirstOut, OvershootBounded
    <2> QED BY <2>1, <2>3
  <1>4. ASSUME NEW t \in Threads, PopLeft(t) PROVE QueueInv'
    <2>0. Appending' = Appending
      BY <1>4 DEF PopLeft, Appending, QueueTypeInv
    <2>1. CASE deque = << >>
      <3>1. QueueTypeInv'
        BY <1>4, <2>1 DEF PopLeft, QueueTypeInv
      <3>2. deque' = deque /\ taken' = taken /\ appended' = appended
        BY <1>4, <2>1 DEF PopLeft
      <3> QED BY <2>0, <3>1, <3>2 DEF FirstInFirstOut, OvershootBounded
    <2>2. CASE deque # << >>
      <3>1. /\ Head(deque) \in TaskIds
            /\ Tail(deque) \in Seq(TaskIds)
            /\ Len(Tail(deque)) = Len(deque) - 1
        BY <2>2 DEF QueueTypeInv
      <3>2. deque' = Tail(deque) /\ taken' = Append(taken, Head(deque)) /\ appended' = appended
        BY <1>4, <2>2 DEF PopLeft
      <3>3. QueueTypeInv'
        BY <1>4, <3>1, <3>2 DEF PopLeft, QueueTypeInv
      <3>4. Append(taken, Head(deque)) \o Tail(deque) = taken \o deque
        BY <2>2, <3>1 DEF QueueTypeInv
      <3>5. FirstInFirstOut'
        BY <3>2, <3>4 DEF FirstInFirstOut
      <3>6. OvershootBounded'
        BY <1>0, <2>0, <3>1, <3>2, AppendingFinite, QueueConstants DEF OvershootBounded
      <3> QED BY <3>3, <3>5, <3>6
    <2> QED BY <2>1, <2>2
  <1>5. CASE UNCHANGED vars
    BY <1>5 DEF vars, QueueTypeInv, FirstInFirstOut, OvershootBounded, Appending
  <1> QED BY <1>1, <1>2, <1>3, <1>4, <1>5 DEF Next

(* The queue's invariant always holds. *)
LEMMA QueueInvariant == Spec => []QueueInv
  BY QueueInit, QueueNext, PTL DEF Spec

(* Racing enqueue and dequeue calls never lose, duplicate or reorder an id. *)
THEOREM FifoTheorem == Spec => []FirstInFirstOut
  <1>1. QueueInv => FirstInFirstOut
    BY DEF QueueInv
  <1> QED BY <1>1, QueueInvariant, PTL

(* The unlocked test of enqueue lets the queue exceed max_size by less than *)
(* one entry per thread.                                                    *)
THEOREM OvershootTheorem == Spec => []OvershootBounded
  <1>1. QueueInv => OvershootBounded
    BY DEF QueueInv
  <1> QED BY <1>1, QueueInvariant, PTL

-----------------------------------------------------------------------------
(***************************************************************************)
(* ApiKeyStore, for any keys and any number of commands and requests.  A   *)
(* request compares two times: the one stat returned and the one of the    *)
(* entries in memory.  The invariant says what each of them tells about    *)
(* the file, at every point at which a command may replace it.             *)
(***************************************************************************)

KeyStates == {"absent", "active", "revoked"}

(* The values the variables take. *)
KeysTypeOK ==
    /\ keyFile \in [ApiKeys -> KeyStates]
    /\ entries \in [ApiKeys -> KeyStates]
    /\ mtime \in Nat /\ lastMtime \in Nat /\ statMtime \in Nat
    /\ server \in {"down", "up"}
    /\ phase \in {"none", "stat", "load", "find"}
    /\ changed \in BOOLEAN

KeyCommands ==
    [step : {"none", "loaded", "written"}, op : {"none", "generate", "revoke"},
     key : ApiKeys \cup {NoKey}, entries : [ApiKeys -> KeyStates], used : SUBSET ApiKeys]

(* The commands and what a rename would install. *)
CommandsTypeOK ==
    /\ cli \in [Commands -> KeyCommands]
    /\ \A c \in Commands : cli[c].step = "loaded" => cli[c].key \in ApiKeys
    /\ tmp # NoKey => tmp.entries \in [ApiKeys -> KeyStates] /\ tmp.used \subseteq ApiKeys
    /\ usedFile \subseteq ApiKeys /\ used \subseteq ApiKeys

(* Only commands write: a server never has anything to flush. *)
NeverDirty == dirty = FALSE

(* The command that wrote the temporary file last has not renamed it yet.   *)
TmpHasAuthor ==
    tmp # NoKey =>
        \E c \in Commands : cli[c].step = "written" /\ cli[c].entries = tmp.entries

(* The time of the entries is never ahead of the file's, and when it is the *)
(* file's, so are the entries; where there is no file there is no key.      *)
TimeTellsEntries ==
    /\ lastMtime <= mtime
    /\ mtime = 0 => \A k \in ApiKeys : keyFile[k] # "active"
    /\ server = "up" /\ lastMtime = mtime => entries = keyFile

(* What a request knows while nobody replaced the file. *)
RequestIsCurrent ==
    /\ phase # "none" => server = "up" /\ asked \in ApiKeys /\ keyAnswer = "none"
    /\ phase \in {"load", "find"} => statMtime <= mtime
    /\ ~changed => began = keyFile
    /\ phase = "load" /\ ~changed => statMtime = mtime
    /\ phase = "find" /\ ~changed => entries = keyFile

KeysInv ==
    /\ KeysTypeOK
    /\ CommandsTypeOK
    /\ NeverDirty
    /\ TmpHasAuthor
    /\ TimeTellsEntries
    /\ RequestIsCurrent
    /\ LookupReflectsFile

(* An empty store, no command and no request satisfy the invariant. *)
LEMMA KeysInitial == KeysInit => KeysInv
  <1> SUFFICES ASSUME KeysInit PROVE KeysInv
    OBVIOUS
  <1>1. NoEntries \in [ApiKeys -> KeyStates]
    BY DEF NoEntries, KeyStates
  <1>2. NoCommand \in KeyCommands /\ NoCommand.step = "none"
    BY <1>1 DEF NoCommand, KeyCommands
  <1>3. KeysTypeOK
    BY <1>1 DEF KeysInit, KeysTypeOK
  <1>4. CommandsTypeOK /\ TmpHasAuthor
    BY <1>2 DEF KeysInit, CommandsTypeOK, TmpHasAuthor
  <1>5. TimeTellsEntries /\ RequestIsCurrent
    BY DEF KeysInit, TimeTellsEntries, RequestIsCurrent, NoEntries
  <1> QED  BY <1>3, <1>4, <1>5 DEF KeysInit, KeysInv, NeverDirty, LookupReflectsFile

(* A step of the commands. *)
CommandStep ==
    \E c \in Commands :
        \/ \E k \in ApiKeys, op \in {"generate", "revoke"} : CliLoad(c, op, k)
        \/ Generate(c) \/ Revoke(c) \/ CliReplace(c)

(* What a command writes is a key file. *)
LEMMA WrittenType ==
    ASSUME NEW e \in [ApiKeys -> KeyStates], NEW k \in ApiKeys, NEW state \in KeyStates
    PROVE  [e EXCEPT ![k] = state] \in [ApiKeys -> KeyStates]
  OBVIOUS

(* Writing the temporary file makes the writer its author. *)
LEMMA WriteKeepsInv ==
    ASSUME KeysInv, NEW c \in Commands, NEW op, NEW state \in KeyStates, CliWrite(c, op, state)
    PROVE  KeysInv'
  <1> DEFINE contents == [cli[c].entries EXCEPT ![cli[c].key] = state]
  <1>1. cli \in [Commands -> KeyCommands] /\ cli[c] \in KeyCommands /\ cli[c].key \in ApiKeys
    BY DEF KeysInv, CommandsTypeOK, CliWrite
  <1>2. contents \in [ApiKeys -> KeyStates]
    BY <1>1, WrittenType DEF KeyCommands
  <1>3. tmp' = [entries |-> contents, used |-> cli[c].used]
        /\ cli' = [cli EXCEPT ![c] = [cli[c] EXCEPT !.step = "written", !.entries = contents]]
    BY <1>1 DEF CliWrite
  <1> HIDE DEF contents
  <1>4. tmp'.entries = contents /\ tmp'.used \subseteq ApiKeys /\ cli'[c].step = "written" /\ cli'[c].entries = contents
    BY <1>1, <1>3 DEF KeyCommands
  <1>5. [cli[c] EXCEPT !.step = "written", !.entries = contents] \in KeyCommands
    BY <1>1, <1>2 DEF KeyCommands
  <1>6. CommandsTypeOK'
    BY <1>1, <1>2, <1>3, <1>4, <1>5 DEF KeysInv, CommandsTypeOK, CliWrite, memoryVars
  <1>7. TmpHasAuthor'
    BY <1>4 DEF TmpHasAuthor
  <1>8. KeysTypeOK' /\ NeverDirty' /\ TimeTellsEntries' /\ RequestIsCurrent'
        /\ LookupReflectsFile'
    BY DEF KeysInv, CliWrite, KeysTypeOK, NeverDirty, TimeTellsEntries, RequestIsCurrent,
           LookupReflectsFile, memoryVars, requestVars
  <1> QED  BY <1>6, <1>7, <1>8 DEF KeysInv

(* Loading the file for a command, writing and renaming keep the invariant. *)
LEMMA CommandKeepsInv == KeysInv /\ CommandStep => KeysInv'
  <1> SUFFICES ASSUME KeysInv, CommandStep PROVE KeysInv'
    OBVIOUS
  <1>1. ASSUME NEW c \in Commands, NEW k \in ApiKeys, NEW op \in {"generate", "revoke"},
               CliLoad(c, op, k)
        PROVE  KeysInv'
    <2> DEFINE loaded == [step |-> "loaded", op |-> op, key |-> k,
                          entries |-> keyFile, used |-> usedFile]
    <2>1. loaded \in KeyCommands /\ loaded.step = "loaded" /\ loaded.key = k
      BY DEF KeysInv, KeysTypeOK, CommandsTypeOK, KeyCommands
    <2>2. cli' = [cli EXCEPT ![c] = loaded] /\ cli[c].step = "none"
      BY <1>1 DEF CliLoad
    <2> HIDE DEF loaded
    <2>3. CommandsTypeOK'
      BY <1>1, <2>1, <2>2 DEF KeysInv, CommandsTypeOK, CliLoad, fileVars, memoryVars
    <2>4. TmpHasAuthor'
      BY <1>1, <2>1, <2>2 DEF KeysInv, CommandsTypeOK, TmpHasAuthor, CliLoad, fileVars
    <2>5. KeysTypeOK' /\ NeverDirty' /\ TimeTellsEntries' /\ RequestIsCurrent'
          /\ LookupReflectsFile'
      BY <1>1 DEF KeysInv, CliLoad, KeysTypeOK, NeverDirty, TimeTellsEntries, RequestIsCurrent,
                  LookupReflectsFile, fileVars, memoryVars, requestVars
    <2> QED  BY <2>3, <2>4, <2>5 DEF KeysInv
  <1>2. ASSUME NEW c \in Commands, Generate(c) PROVE KeysInv'
    BY <1>2, WriteKeepsInv DEF Generate, KeyStates
  <1>3. ASSUME NEW c \in Commands, Revoke(c) PROVE KeysInv'
    BY <1>3, WriteKeepsInv DEF Revoke, KeyStates
  <1>4. ASSUME NEW c \in Commands, CliReplace(c) PROVE KeysInv'
    <2>1. NoCommand \in KeyCommands /\ NoCommand.step = "none"
      <3>1. NoEntries \in [ApiKeys -> KeyStates]
        BY DEF NoEntries, KeyStates
      <3> QED  BY <3>1 DEF NoCommand, KeyCommands
    <2>2. cli' = [cli EXCEPT ![c] = NoCommand] /\ tmp' = NoKey
      BY <1>4 DEF CliReplace, Replace, fileVars
    <2>3. usedFile' \subseteq ApiKeys /\ used' \subseteq ApiKeys
      BY <1>4 DEF KeysInv, CommandsTypeOK, CliReplace, Replace, fileVars, memoryVars
    <2>4. CommandsTypeOK'
      BY <1>4, <2>1, <2>2, <2>3 DEF KeysInv, CommandsTypeOK, CliReplace, memoryVars
    <2>5. TmpHasAuthor'
      BY <2>2 DEF TmpHasAuthor
    <2>6. KeysTypeOK' /\ NeverDirty' /\ TimeTellsEntries' /\ RequestIsCurrent'
          /\ LookupReflectsFile'
      <3> USE DEF KeysInv, KeysTypeOK, CommandsTypeOK, NeverDirty, TimeTellsEntries,
                  RequestIsCurrent, LookupReflectsFile, memoryVars, requestVars
      <3>1. CASE tmp = NoKey
        BY <1>4, <3>1 DEF CliReplace, fileVars
      <3>2. CASE tmp # NoKey
        <4>1. keyFile' = tmp.entries /\ mtime' = mtime + 1 /\ changed' = TRUE
          BY <1>4, <3>2 DEF CliReplace, Replace
        <4> QED  BY <1>4, <3>2, <4>1 DEF CliReplace
      <3> QED  BY <3>1, <3>2
    <2> QED  BY <2>4, <2>5, <2>6 DEF KeysInv
  <1> QED  BY <1>1, <1>2, <1>3, <1>4 DEF CommandStep

(* Starting, stopping and killing the server keep the invariant. *)
LEMMA ServerKeepsInv ==
    KeysInv /\ (ServerStart \/ ServerStop \/ ServerKilled) => KeysInv'
  <1> SUFFICES ASSUME KeysInv, ServerStart \/ ServerStop \/ ServerKilled PROVE KeysInv'
    OBVIOUS
  <1> USE DEF KeysInv, KeysTypeOK, KeyStates, CommandsTypeOK, NeverDirty, TmpHasAuthor,
              TimeTellsEntries, RequestIsCurrent, LookupReflectsFile, NoEntries,
              fileVars, memoryVars, requestVars
  <1>1. CASE ServerStart
    BY <1>1 DEF ServerStart, LoadFile
  <1>2. CASE ServerStop
    BY <1>2 DEF ServerStop, FlushUsage
  <1>3. CASE ServerKilled
    BY <1>3 DEF ServerKilled
  <1> QED  BY <1>1, <1>2, <1>3

(* The steps of a request keep the invariant. *)
LEMMA RequestKeepsInv ==
    KeysInv /\ ((\E k \in ApiKeys : Dispatch(k)) \/ Stat \/ Reload \/ Find) => KeysInv'
  <1> SUFFICES ASSUME KeysInv, (\E k \in ApiKeys : Dispatch(k)) \/ Stat \/ Reload \/ Find
               PROVE  KeysInv'
    OBVIOUS
  <1> USE DEF KeysInv, KeysTypeOK, KeyStates, CommandsTypeOK, NeverDirty, TmpHasAuthor,
              TimeTellsEntries, RequestIsCurrent, LookupReflectsFile,
              fileVars, memoryVars, requestVars
  <1>1. CASE \E k \in ApiKeys : Dispatch(k)
    <2>1. PICK k \in ApiKeys : Dispatch(k)
      BY <1>1
    <2>2. /\ KeysTypeOK' /\ CommandsTypeOK' /\ NeverDirty' /\ TmpHasAuthor'
          /\ TimeTellsEntries' /\ RequestIsCurrent'
      BY <2>1 DEF Dispatch
    <2>3. CASE AuthEnabled
      BY <2>1, <2>2, <2>3 DEF Dispatch
    <2>4. CASE ~AuthEnabled
      <3>1. \A j \in ApiKeys : entries[j] # "active"
        BY <2>4 DEF AuthEnabled
      <3>2. began' = keyFile /\ lastMtime' = lastMtime /\ mtime' = mtime /\ keyAnswer' = "open"
            /\ server = "up"
        BY <2>1, <2>4 DEF Dispatch
      <3>3. LookupReflectsFile'
        BY <3>1, <3>2
      <3> QED BY <2>2, <3>3
    <2> QED BY <2>3, <2>4
  <1>2. CASE Stat
    BY <1>2 DEF Stat
  <1>3. CASE Reload
    BY <1>3 DEF Reload, LoadFile
  <1>4. CASE Find
    BY <1>4 DEF Find
  <1> QED  BY <1>1, <1>2, <1>3, <1>4

(* Every step keeps the invariant. *)
LEMMA KeysStep == KeysInv /\ [KeysNext]_keyVars => KeysInv'
  <1>1. ASSUME KeysInv, UNCHANGED keyVars PROVE KeysInv'
    BY <1>1 DEF keyVars, KeysInv, KeysTypeOK, CommandsTypeOK, NeverDirty, TmpHasAuthor,
                TimeTellsEntries, RequestIsCurrent, LookupReflectsFile
  <1> QED  BY <1>1, CommandKeepsInv, ServerKeepsInv, RequestKeepsInv
           DEF KeysNext, CommandStep

(* The invariant holds in every state of every behaviour. *)
LEMMA KeysInvariant == KeysSpec => []KeysInv
  BY KeysInitial, KeysStep, PTL DEF KeysSpec

(* "so that cond api-key revoke from another process is reflected without a *)
(* server restart": whatever commands and restarts come between the stat,   *)
(* the load and the lookup of a request, its answer agrees with the file as *)
(* it was when the request began, or the file was replaced meanwhile; and a *)
(* server that has loaded the file as it is enforces the keys in it.        *)
THEOREM LookupTheorem == KeysSpec => []LookupReflectsFile
  BY KeysInvariant, PTL DEF KeysInv

(* One step never brings a key back that every command under way knows to   *)
(* be revoked: a rename installs what its author wrote from such a copy,    *)
(* and flush_usage writes nothing.                                          *)
LEMMA StepKeepsRevocations == KeysInv /\ [KeysNext]_keyVars => [KeepsRevocations]_keyVars
  <1> SUFFICES ASSUME KeysInv, KeysNext PROVE KeepsRevocations
    OBVIOUS
  <1>1. ASSUME NEW c \in Commands, CliReplace(c) PROVE KeepsRevocations
    <2>1. SUFFICES ASSUME NEW k \in ApiKeys, keyFile[k] = "revoked", ~OldCopy(k)
                   PROVE  keyFile'[k] = "revoked"
      BY DEF KeepsRevocations
    <2>2. CASE tmp = NoKey
      BY <1>1, <2>1, <2>2 DEF CliReplace, fileVars
    <2>3. CASE tmp # NoKey
      <3>1. PICK d \in Commands : cli[d].step = "written" /\ cli[d].entries = tmp.entries
        BY <2>3 DEF KeysInv, TmpHasAuthor
      <3>2. tmp.entries[k] = "revoked"
        BY <2>1, <3>1 DEF OldCopy
      <3> QED  BY <1>1, <2>3, <3>2 DEF CliReplace, Replace
    <2> QED  BY <2>2, <2>3
  <1>2. ASSUME keyFile' = keyFile PROVE KeepsRevocations
    BY <1>2 DEF KeepsRevocations
  <1>3. ASSUME ServerStop PROVE keyFile' = keyFile
    BY <1>3 DEF KeysInv, NeverDirty, ServerStop, FlushUsage, fileVars
  <1>4. ASSUME ~ServerStop, ~\E c \in Commands : CliReplace(c) PROVE keyFile' = keyFile
    BY <1>4 DEF KeysNext, CliLoad, Generate, Revoke, CliWrite, ServerStart, ServerKilled,
                Dispatch, Stat, Reload, Find, fileVars
  <1> QED  BY <1>1, <1>2, <1>3, <1>4

(* A saved revocation is undone only while a command that loaded the file   *)
(* before it is still under way: however many commands share the temporary  *)
(* file, and although servers keep the copy they started with until         *)
(* flush_usage, nothing else makes a revoked key active again.              *)
THEOREM RevocationTheorem == KeysSpec => RevocationStays
  BY KeysInvariant, StepKeepsRevocations, PTL DEF KeysSpec, RevocationStays

-----------------------------------------------------------------------------
(***************************************************************************)
(* EngineCluster, for any machines, clients and number of registrations    *)
(* and requests.  A post that is on its way, an execution and a request    *)
(* that waits are counted together: what a client's requests may still     *)
(* cause is bounded by the failures it was told of.                        *)
(***************************************************************************)

Responses == {"none", "ok", "error", "unreadable"}

Nodes == [machine : Machines, healthy : BOOLEAN]

Routes == [pc : {"idle", "filter", "sort", "wait", "done"}, tags : BOOLEAN,
           found : SUBSET Nat, node : Nat \cup {NoNode}, status : Nat]

(* The values the variables take; a registered id has its node. *)
ClusterTypeOK ==
    /\ nodes \in Seq(Nodes)
    /\ registered \subseteq 1..Len(nodes)
    /\ routed \in [Callers -> Routes]
    /\ wire \in [Callers -> SUBSET (Machines \X Nat)]
    /\ answer \in [Callers -> Responses]
    /\ tries \in [Callers -> Nat]
    /\ runs \in [Callers -> Nat]
    /\ unclear \in [Callers -> Nat]

(* A request's candidates have their nodes, registered or not. *)
Selected(r) == r.found \subseteq 1..Len(nodes)

(* A request that waits, or was answered 200, accounts for one execution. *)
Worth(r) == IF r.pc = "wait" \/ r.status = 200 THEN 1 ELSE 0

(* What the request r, the posts w, the response a, the executions n and    *)
(* the failures u told to one client have to do with each other.              *)
Accounted(r, w, a, n, u) ==
    /\ IsFiniteSet(w)
    /\ r.pc # "done" => r.status = 0
    /\ n + Cardinality(w) <= u + Worth(r)
    /\ a = "ok" => n >= 1
    /\ r.status = 200 => n >= 1

ClusterInv ==
    /\ ClusterTypeOK
    /\ \A c \in Callers : Selected(routed[c])
    /\ \A c \in Callers : Accounted(routed[c], wire[c], answer[c], runs[c], unclear[c])

(* No node and no request satisfy the invariant. *)
LEMMA ClusterInitial == ClusterInit => ClusterInv
  <1> SUFFICES ASSUME ClusterInit PROVE ClusterInv
    OBVIOUS
  <1>1. NoRoute \in Routes
    BY DEF NoRoute, Routes
  <1>2. nodes \in Seq(Nodes) /\ Len(nodes) = 0
    BY DEF ClusterInit
  <1>3. ClusterTypeOK
    BY <1>1, <1>2 DEF ClusterInit, ClusterTypeOK, Responses
  <1>4. \A c \in Callers : Selected(routed[c])
    BY DEF ClusterInit, NoRoute, Selected
  <1>5. \A c \in Callers : Accounted(routed[c], wire[c], answer[c], runs[c], unclear[c])
    BY FS_EmptySet DEF ClusterInit, NoRoute, Accounted, Worth
  <1> QED  BY <1>3, <1>4, <1>5 DEF ClusterInv

-----------------------------------------------------------------------------
(* The steps of the registry. *)
RegistryStep ==
    \/ \E m \in Machines : RegisterEngine(m) \/ MachineStops(m)
    \/ \E i \in Ids : DeregisterEngine(i) \/ \E h \in BOOLEAN : EngineHeartbeat(i, h)

MachinesKept ==
    /\ nodes' \in Seq(Nodes)
    /\ registered' \subseteq 1..Len(nodes')
    /\ Len(nodes) <= Len(nodes')
    /\ \A i \in 1..Len(nodes) : nodes'[i].machine = nodes[i].machine

(* Nodes are added and marked healthy or not; a node keeps its machine. *)
LEMMA MachinesStay ==
    ASSUME ClusterTypeOK, RegistryStep
    PROVE  MachinesKept
  <1>0. nodes \in Seq(Nodes) /\ registered \subseteq 1..Len(nodes) /\ Len(nodes) \in Nat
    BY DEF ClusterTypeOK
  <1>1. ASSUME NEW m \in Machines, RegisterEngine(m)
        PROVE  MachinesKept
    <2>1. NewNode(m) \in Nodes
      BY DEF NewNode, Nodes
    <2>2. nodes' = Append(nodes, NewNode(m)) /\ registered' = registered \cup {Len(nodes) + 1}
      BY <1>1 DEF RegisterEngine
    <2>3. nodes' \in Seq(Nodes) /\ Len(nodes') = Len(nodes) + 1
      BY <1>0, <2>1, <2>2
    <2>4. \A i \in 1..Len(nodes) : nodes'[i] = nodes[i]
      BY <1>0, <2>1, <2>2
    <2>5. ASSUME NEW i \in registered' PROVE i \in 1..Len(nodes')
      <3>1. CASE i \in registered
        BY <1>0, <2>3, <3>1
      <3>2. CASE i = Len(nodes) + 1
        BY <1>0, <2>3, <3>2
      <3> QED  BY <2>2, <3>1, <3>2
    <2> QED  BY <1>0, <2>3, <2>4, <2>5 DEF MachinesKept
  <1>2. ASSUME NEW m \in Machines, MachineStops(m)
        PROVE  MachinesKept
    BY <1>0, <1>2 DEF MachinesKept, MachineStops, registryVars
  <1>3. ASSUME NEW i \in Ids, DeregisterEngine(i)
        PROVE  MachinesKept
    <2>1. nodes' = nodes /\ registered' = registered \ {i}
      BY <1>3 DEF DeregisterEngine
    <2>2. registered \ {i} \subseteq 1..Len(nodes)
      BY <1>0
    <2>3. registered' \subseteq 1..Len(nodes')
      BY <2>1, <2>2
    <2>4. nodes' \in Seq(Nodes) /\ Len(nodes) <= Len(nodes')
      BY <1>0, <2>1
    <2> QED  BY <2>1, <2>3, <2>4 DEF MachinesKept
  <1>4. ASSUME NEW i \in Ids, NEW h \in BOOLEAN, EngineHeartbeat(i, h)
        PROVE  MachinesKept
    <2>1. nodes' = [nodes EXCEPT ![i] = [nodes[i] EXCEPT !.healthy = h]]
      BY <1>4 DEF EngineHeartbeat, Heartbeat
    <2>2. i \in 1..Len(nodes)
      BY <1>0, <1>4 DEF EngineHeartbeat, Known
    <2>3. nodes[i] \in Nodes
      BY <1>0, <2>2
    <2>4. [nodes[i] EXCEPT !.healthy = h] \in Nodes
      BY <2>3 DEF Nodes
    <2>5. [nodes[i] EXCEPT !.healthy = h].machine = nodes[i].machine
      BY <2>3 DEF Nodes
    <2>6. registered' = registered
      BY <1>4 DEF EngineHeartbeat
    <2>7. PICK n \in Nodes : n.machine = nodes[i].machine /\ nodes' = [nodes EXCEPT ![i] = n]
      BY <2>1, <2>4, <2>5
    <2>8. nodes' \in Seq(Nodes) /\ Len(nodes') = Len(nodes)
      BY <1>0, <2>2, <2>7
    <2>9. \A j \in 1..Len(nodes) : nodes'[j] = IF j = i THEN n ELSE nodes[j]
      BY <1>0, <2>2, <2>7
    <2> QED  BY <1>0, <2>6, <2>7, <2>8, <2>9 DEF MachinesKept
  <1> QED  BY <1>1, <1>2, <1>3, <1>4 DEF RegistryStep

(* The registry's steps keep the invariant: selections stay valid although  *)
(* their nodes are deregistered or change their health meanwhile.           *)
LEMMA RegistryKeepsInv == ClusterInv /\ RegistryStep => ClusterInv'
  <1> SUFFICES ASSUME ClusterInv, RegistryStep PROVE ClusterInv'
    OBVIOUS
  <1>1. UNCHANGED callVars
    BY DEF RegistryStep, RegisterEngine, MachineStops, DeregisterEngine, EngineHeartbeat
  <1>2. MachinesKept
    BY MachinesStay DEF ClusterInv
  <1>3. ClusterTypeOK'
    BY <1>1, <1>2 DEF MachinesKept, ClusterInv, ClusterTypeOK, callVars
  <1>4. Len(nodes) \in Nat /\ Len(nodes') \in Nat
    BY <1>2 DEF MachinesKept, ClusterInv, ClusterTypeOK
  <1>5. ASSUME NEW c \in Callers PROVE Selected(routed[c])'
    <2>1. routed'[c] = routed[c] /\ Selected(routed[c])
      BY <1>1 DEF ClusterInv, callVars
    <2> QED  BY <1>2, <1>4, <2>1 DEF MachinesKept, Selected
  <1>6. \A c \in Callers : Accounted(routed[c], wire[c], answer[c], runs[c], unclear[c])'
    BY <1>1 DEF ClusterInv, callVars
  <1> QED  BY <1>3, <1>5, <1>6 DEF ClusterInv

-----------------------------------------------------------------------------
(* A step of the client c's request alone, after which the client's values  *)
(* fit together.                                                            *)
Settled(c) ==
    /\ UNCHANGED <<nodes, registered>>
    /\ routed' \in [Callers -> Routes]
    /\ wire' \in [Callers -> SUBSET (Machines \X Nat)]
    /\ answer' \in [Callers -> Responses]
    /\ tries' \in [Callers -> Nat]
    /\ runs' \in [Callers -> Nat]
    /\ unclear' \in [Callers -> Nat]
    /\ \A d \in Callers \ {c} :
           /\ routed'[d] = routed[d] /\ wire'[d] = wire[d] /\ answer'[d] = answer[d]
           /\ runs'[d] = runs[d] /\ unclear'[d] = unclear[d]
    /\ Selected(routed'[c])
    /\ Accounted(routed'[c], wire'[c], answer'[c], runs'[c], unclear'[c])

(* Such a step keeps the invariant. *)
LEMMA SettledKeepsInv ==
    ASSUME ClusterInv, NEW c \in Callers, Settled(c)
    PROVE  ClusterInv'
  <1>1. ClusterTypeOK'
    BY DEF Settled, ClusterInv, ClusterTypeOK
  <1>2. nodes' = nodes
    BY DEF Settled
  <1>3. ASSUME NEW d \in Callers PROVE Selected(routed[d])'
    <2>1. Selected(routed'[d])
      BY DEF Settled, ClusterInv
    <2> QED  BY <1>2, <2>1 DEF Selected
  <1>4. ASSUME NEW d \in Callers
        PROVE  Accounted(routed[d], wire[d], answer[d], runs[d], unclear[d])'
    <2>1. Accounted(routed'[d], wire'[d], answer'[d], runs'[d], unclear'[d])
      BY DEF Settled, ClusterInv
    <2> QED  BY <2>1
  <1> QED  BY <1>1, <1>3, <1>4 DEF ClusterInv

(* What the invariant says of one client. *)
LEMMA OfOne ==
    ASSUME ClusterInv, NEW c \in Callers
    PROVE  /\ routed[c] \in Routes /\ routed[c].status \in Nat
           /\ wire[c] \in SUBSET (Machines \X Nat) /\ IsFiniteSet(wire[c])
           /\ Cardinality(wire[c]) \in Nat
           /\ answer[c] \in Responses
           /\ tries[c] \in Nat /\ runs[c] \in Nat /\ unclear[c] \in Nat
           /\ Selected(routed[c])
           /\ Accounted(routed[c], wire[c], answer[c], runs[c], unclear[c])
  <1>1. /\ routed[c] \in Routes
        /\ wire[c] \in SUBSET (Machines \X Nat)
        /\ answer[c] \in Responses
        /\ tries[c] \in Nat /\ runs[c] \in Nat /\ unclear[c] \in Nat
    BY DEF ClusterInv, ClusterTypeOK
  <1>2. /\ Selected(routed[c])
        /\ Accounted(routed[c], wire[c], answer[c], runs[c], unclear[c])
    BY DEF ClusterInv
  <1>3. IsFiniteSet(wire[c]) /\ Cardinality(wire[c]) \in Nat
    BY <1>2, FS_CardinalityType DEF Accounted
  <1>4. routed[c].status \in Nat
    BY <1>1 DEF Routes
  <1> QED  BY <1>1, <1>2, <1>3, <1>4

(* Another request of the client, or an answer to the one it has: the posts *)
(* and the executions stay.                                                 *)
LEMMA RouteSettles ==
    ASSUME ClusterInv, NEW c \in Callers, NEW r \in Routes,
           SetRoute(c, r),
           Selected(r),
           r.pc # "done" => r.status = 0,
           Worth(routed[c]) <= Worth(r),
           r.status = 200 => runs[c] >= 1,
           UNCHANGED <<nodes, registered, wire, answer, runs, unclear>>,
           tries' \in [Callers -> Nat]
    PROVE  Settled(c)
  <1>1. /\ routed' \in [Callers -> Routes] /\ routed'[c] = r
        /\ \A d \in Callers \ {c} : routed'[d] = routed[d]
    BY DEF ClusterInv, ClusterTypeOK, SetRoute
  <1>2. Worth(r) \in Nat /\ Worth(routed[c]) \in Nat
    BY DEF Worth
  <1>3. Accounted(r, wire[c], answer[c], runs[c], unclear[c])
    BY <1>2, OfOne DEF Accounted
  <1>4. /\ wire' \in [Callers -> SUBSET (Machines \X Nat)]
        /\ answer' \in [Callers -> Responses]
        /\ runs' \in [Callers -> Nat] /\ unclear' \in [Callers -> Nat]
    BY DEF ClusterInv, ClusterTypeOK
  <1> QED  BY <1>1, <1>3, <1>4 DEF Settled

(* A request that posts its task and waits for the answer. *)
LEMMA PostSettles ==
    ASSUME ClusterInv, NEW c \in Callers, NEW r \in Routes, NEW i \in 1..Len(nodes),
           NEW try \in Nat,
           SetRoute(c, r), Post(c, i, try),
           Selected(r),
           r.pc = "wait" /\ r.status = 0,
           Worth(routed[c]) = 0,
           UNCHANGED <<nodes, registered, answer, runs, unclear>>,
           tries' \in [Callers -> Nat]
    PROVE  Settled(c)
  <1>1. /\ routed' \in [Callers -> Routes] /\ routed'[c] = r
        /\ \A d \in Callers \ {c} : routed'[d] = routed[d]
    BY DEF ClusterInv, ClusterTypeOK, SetRoute
  <1>2. nodes[i].machine \in Machines
    <2>1. nodes[i] \in Nodes
      BY DEF ClusterInv, ClusterTypeOK
    <2> QED  BY <2>1 DEF Nodes
  <1>3. PICK p \in Machines \X Nat : wire' = [wire EXCEPT ![c] = @ \cup {p}]
    BY <1>2 DEF Post
  <1>4. /\ wire' \in [Callers -> SUBSET (Machines \X Nat)]
        /\ wire'[c] = wire[c] \cup {p}
        /\ \A d \in Callers \ {c} : wire'[d] = wire[d]
    BY <1>3 DEF ClusterInv, ClusterTypeOK
  <1>5. /\ IsFiniteSet(wire[c] \cup {p})
        /\ Cardinality(wire[c] \cup {p}) \in Nat
        /\ Cardinality(wire[c] \cup {p}) <= Cardinality(wire[c]) + 1
    <2>1. IsFiniteSet(wire[c]) /\ Cardinality(wire[c]) \in Nat
      BY OfOne
    <2>2. /\ IsFiniteSet(wire[c] \cup {p})
          /\ \/ Cardinality(wire[c] \cup {p}) = Cardinality(wire[c])
             \/ Cardinality(wire[c] \cup {p}) = Cardinality(wire[c]) + 1
      BY <2>1, FS_AddElement, Zenon
    <2> QED  BY <2>1, <2>2
  <1>6. Accounted(r, wire[c] \cup {p}, answer[c], runs[c], unclear[c])
    BY <1>5, OfOne, SMTT(40) DEF Accounted, Worth
  <1>7. /\ answer' \in [Callers -> Responses]
        /\ runs' \in [Callers -> Nat] /\ unclear' \in [Callers -> Nat]
    BY DEF ClusterInv, ClusterTypeOK
  <1> QED  BY <1>1, <1>4, <1>6, <1>7 DEF Settled

(* A post that arrives, at a machine that runs it or at none. *)
LEMMA ArrivalSettles ==
    ASSUME ClusterInv, NEW c \in Callers, NEW p \in wire[c],
           PostLost(c, p) \/ \E a \in Responses \ {"none"} : EngineExecutes(c, p, a)
    PROVE  Settled(c)
  <1>1. wire' = [wire EXCEPT ![c] = @ \ {p}]
    BY DEF PostLost, EngineExecutes
  <1>2. /\ wire' \in [Callers -> SUBSET (Machines \X Nat)]
        /\ wire'[c] = wire[c] \ {p}
        /\ \A d \in Callers \ {c} : wire'[d] = wire[d]
    BY <1>1 DEF ClusterInv, ClusterTypeOK
  <1>3. /\ IsFiniteSet(wire[c] \ {p})
        /\ Cardinality(wire[c] \ {p}) = Cardinality(wire[c]) - 1
    BY OfOne, FS_RemoveElement
  <1>4. UNCHANGED <<nodes, registered, routed, tries, unclear>>
    BY DEF PostLost, EngineExecutes, registryVars
  <1>5. Worth(routed[c]) \in Nat
    BY DEF Worth
  <1>6. /\ routed' \in [Callers -> Routes] /\ tries' \in [Callers -> Nat]
        /\ unclear' \in [Callers -> Nat]
    BY <1>4 DEF ClusterInv, ClusterTypeOK
  <1>7. CASE PostLost(c, p)
    <2>1. UNCHANGED <<answer, runs>>
      BY <1>7 DEF PostLost
    <2>2. answer' \in [Callers -> Responses] /\ runs' \in [Callers -> Nat]
      BY <2>1 DEF ClusterInv, ClusterTypeOK
    <2>3. Accounted(routed[c], wire[c] \ {p}, answer[c], runs[c], unclear[c])
      BY <1>3, <1>5, OfOne DEF Accounted
    <2> QED  BY <1>2, <1>4, <1>6, <2>1, <2>2, <2>3, OfOne DEF Settled
  <1>8. CASE \E a \in Responses \ {"none"} : EngineExecutes(c, p, a)
    <2>1. runs' = [runs EXCEPT ![c] = @ + 1]
      BY <1>8 DEF EngineExecutes
    <2>2. PICK a \in Responses : answer' = [answer EXCEPT ![c] = a]
      <3>1. answer = [answer EXCEPT ![c] = answer[c]] /\ answer[c] \in Responses
        BY DEF ClusterInv, ClusterTypeOK
      <3> QED  BY <1>8, <3>1 DEF EngineExecutes
    <2>3. /\ answer' \in [Callers -> Responses] /\ answer'[c] = a
          /\ \A d \in Callers \ {c} : answer'[d] = answer[d]
      BY <2>2 DEF ClusterInv, ClusterTypeOK
    <2>4. /\ runs' \in [Callers -> Nat] /\ runs'[c] = runs[c] + 1
          /\ \A d \in Callers \ {c} : runs'[d] = runs[d]
      BY <2>1 DEF ClusterInv, ClusterTypeOK
    <2>5. Accounted(routed[c], wire[c] \ {p}, a, runs[c] + 1, unclear[c])
      BY <1>3, <1>5, OfOne DEF Accounted
    <2> QED  BY <1>2, <1>4, <1>6, <2>3, <2>4, <2>5, OfOne DEF Settled
  <1> QED  BY <1>7, <1>8

(* An answer other than 200 to a request that posted nothing. *)
LEMMA RefusalSettles ==
    ASSUME ClusterInv, NEW c \in Callers, NEW code \in Nat, code # 200,
           FinishRoute(c, code),
           Worth(routed[c]) = 0,
           UNCHANGED <<nodes, registered, wire, answer, runs, unclear>>,
           tries' \in [Callers -> Nat]
    PROVE  Settled(c)
  <1> DEFINE r == [NoRoute EXCEPT !.pc = "done", !.status = code]
  <1>1. /\ r \in Routes /\ r.pc = "done" /\ r.status = code
        /\ r.found = {}
    BY DEF NoRoute, Routes
  <1>2. SetRoute(c, r)
    BY DEF FinishRoute
  <1> HIDE DEF r
  <1>3. Selected(r)
    BY <1>1 DEF Selected
  <1>4. Worth(r) = 0
    BY <1>1 DEF Worth
  <1> QED  BY <1>1, <1>2, <1>3, <1>4, RouteSettles

-----------------------------------------------------------------------------
ProbeCodes == {204, 400, 404, 500, 502}

(* A request begins: run_task_auto_route, the lookup that answers 404 or    *)
(* 502, and the task posted to the node the caller named.                   *)
LEMMA BeginningSettles ==
    ASSUME ClusterInv, NEW c \in Callers,
           (\E tags \in BOOLEAN : AutoRoute(c, tags))
               \/ \E i \in Ids : RunOnEngine(c, i) \/ \E code \in ProbeCodes : ProbeEngine(c, i, code)
    PROVE  Settled(c)
  <1>1. CanBegin(c)
    BY DEF AutoRoute, RunOnEngine, ProbeEngine
  <1>2. Worth(routed[c]) = 0
    BY <1>1 DEF CanBegin, Worth
  <1>3. tries' \in [Callers -> Nat]
    <2>1. tries' = [tries EXCEPT ![c] = @ + 1]
      BY DEF AutoRoute, RunOnEngine, ProbeEngine, BeginRoute
    <2> QED  BY <2>1 DEF ClusterInv, ClusterTypeOK
  <1>4. /\ registered \subseteq 1..Len(nodes) /\ Len(nodes) \in Nat
        /\ registered \in SUBSET Nat
    BY DEF ClusterInv, ClusterTypeOK
  <1>5. CASE \E tags \in BOOLEAN : AutoRoute(c, tags)
    <2>1. PICK tags \in BOOLEAN : AutoRoute(c, tags)
      BY <1>5
    <2> DEFINE r == [NoRoute EXCEPT !.pc = "filter", !.tags = tags, !.found = registered]
    <2>2. SetRoute(c, r) /\ UNCHANGED <<nodes, registered, wire, answer, runs, unclear>>
      BY <2>1 DEF AutoRoute, BeginRoute, registryVars
    <2>3. /\ r \in Routes /\ r.pc = "filter" /\ r.status = 0
          /\ r.found = registered
      BY <1>4 DEF NoRoute, Routes
    <2> HIDE DEF r
    <2>4. Selected(r)
      BY <1>4, <2>3 DEF Selected
    <2>5. Worth(r) = 0
      BY <2>3 DEF Worth
    <2> QED  BY <1>2, <1>3, <2>2, <2>3, <2>4, <2>5, RouteSettles
  <1>6. ASSUME NEW i \in Ids, RunOnEngine(c, i), Known(i) PROVE Settled(c)
    <2> DEFINE r == [NoRoute EXCEPT !.pc = "wait", !.node = i]
    <2>1. /\ SetRoute(c, r) /\ Post(c, i, tries[c] + 1)
          /\ UNCHANGED <<nodes, registered, answer, runs, unclear>>
      BY <1>6 DEF RunOnEngine, registryVars
    <2>2. i \in registered /\ i \in 1..Len(nodes) /\ i \in Nat
      BY <1>4, <1>6 DEF Known
    <2>3. /\ r \in Routes /\ r.pc = "wait" /\ r.status = 0 /\ r.found = {}
      BY <1>4, <2>2 DEF NoRoute, Routes
    <2> HIDE DEF r
    <2>4. Selected(r)
      BY <2>3 DEF Selected
    <2>5. tries[c] + 1 \in Nat
      BY OfOne
    <2> QED  BY <1>2, <1>3, <2>1, <2>2, <2>3, <2>4, <2>5, PostSettles
  <1>7. ASSUME NEW i \in Ids, RunOnEngine(c, i), ~Known(i) PROVE Settled(c)
    <2>1. FinishRoute(c, 404) /\ UNCHANGED <<nodes, registered, wire, answer, runs, unclear>>
      BY <1>7 DEF RunOnEngine, registryVars
    <2> QED  BY <1>2, <1>3, <2>1, RefusalSettles
  <1>8. ASSUME NEW i \in Ids, NEW code \in ProbeCodes, ProbeEngine(c, i, code) PROVE Settled(c)
    <2>1. FinishRoute(c, code)
      BY <1>8 DEF ProbeEngine, BeginRoute, FinishRoute
    <2>2. UNCHANGED <<nodes, registered, wire, answer, runs, unclear>>
      BY <1>8 DEF ProbeEngine, BeginRoute, registryVars
    <2> QED  BY <1>2, <1>3, <2>1, <2>2, RefusalSettles DEF ProbeCodes
  <1> QED  BY <1>5, <1>6, <1>7, <1>8

(* A request goes on: select's filter and sort, and the ways in which       *)
(* waiting ends.                                                            *)
LEMMA HandlingSettles ==
    ASSUME ClusterInv, NEW c \in Callers, Handle(c)
    PROVE  Settled(c)
  <1>0. /\ routed[c] \in Routes /\ routed[c].pc # "done" /\ routed[c].status = 0
        /\ Selected(routed[c])
    BY OfOne DEF Handle, Filter, RouteToFirst, ReturnResult, AnswerBadGateway, Unreachable,
                 AnswerUnreadable, Accounted
  <1>1. tries' \in [Callers -> Nat]
    <2>1. tries' = tries
      BY DEF Handle, Filter, RouteToFirst, ReturnResult, AnswerBadGateway, AnswerUnreadable,
             FailRoute
    <2> QED  BY <2>1 DEF ClusterInv, ClusterTypeOK
  <1>2. CASE Filter(c)
    <2> DEFINE found == {i \in routed[c].found :
                            nodes[i].healthy /\ MatchesTags(i, routed[c].tags)}
    <2>1. Worth(routed[c]) = 0
      BY <1>0, <1>2 DEF Filter, Worth
    <2>2. UNCHANGED <<nodes, registered, wire, answer, runs, unclear>>
      BY <1>2 DEF Filter, registryVars
    <2>3. CASE FinishRoute(c, 400)
      BY <1>1, <2>1, <2>2, <2>3, RefusalSettles
    <2>4. CASE SetRoute(c, [routed[c] EXCEPT !.pc = "sort", !.found = found])
      <3> DEFINE r == [routed[c] EXCEPT !.pc = "sort", !.found = found]
      <3>1. /\ r \in Routes /\ r.pc = "sort" /\ r.status = 0 /\ r.found = found
        BY <1>0 DEF Routes
      <3>2. SetRoute(c, r)
        BY <2>4
      <3> HIDE DEF r
      <3>3. Selected(r)
        BY <1>0, <3>1 DEF Selected
      <3>4. Worth(r) = 0
        BY <3>1 DEF Worth
      <3> QED  BY <1>1, <2>1, <2>2, <3>1, <3>2, <3>3, <3>4, RouteSettles
    <2> QED  BY <1>2, <2>3, <2>4 DEF Filter
  <1>3. CASE RouteToFirst(c)
    <2>1. PICK i \in routed[c].found :
              /\ SetRoute(c, [routed[c] EXCEPT !.pc = "wait", !.node = i])
              /\ Post(c, i, tries[c])
      BY <1>3 DEF RouteToFirst
    <2> DEFINE r == [routed[c] EXCEPT !.pc = "wait", !.node = i]
    <2>2. i \in 1..Len(nodes)
      BY <1>0 DEF Selected
    <2>3. i \in Nat
      BY <1>0 DEF Routes
    <2>4. /\ r \in Routes /\ r.pc = "wait" /\ r.status = 0
          /\ r.found = routed[c].found
      BY <1>0, <2>3 DEF Routes
    <2>5. SetRoute(c, r)
      BY <2>1
    <2> HIDE DEF r
    <2>6. Selected(r)
      BY <1>0, <2>2, <2>4 DEF Selected
    <2>7. Worth(routed[c]) = 0
      BY <1>0, <1>3 DEF RouteToFirst, Worth
    <2>8. UNCHANGED <<nodes, registered, answer, runs, unclear>> /\ tries[c] \in Nat
      BY <1>3, OfOne DEF RouteToFirst, registryVars
    <2> QED  BY <1>1, <2>1, <2>2, <2>4, <2>5, <2>6, <2>7, <2>8, PostSettles
  <1>4. CASE ReturnResult(c) \/ AnswerBadGateway(c)
               \/ \E code \in {400, 500} : AnswerUnreadable(c, code)
    <2>0. ReturnResult(c) \/ \E code \in {400, 500, 502} : FailRoute(c, code)
      BY <1>4 DEF AnswerBadGateway, AnswerUnreadable
    <2>a. routed[c].pc = "wait"
      BY <1>4 DEF ReturnResult, AnswerBadGateway, Unreachable, AnswerUnreadable
    <2>1. PICK code \in {200, 400, 500, 502} :
              FinishRoute(c, code) /\ (IF code = 200 THEN ReturnResult(c) ELSE FailRoute(c, code))
      BY <2>0 DEF ReturnResult, FailRoute
    <2> code \in Nat
      BY <2>1
    <2> DEFINE r == [NoRoute EXCEPT !.pc = "done", !.status = code]
    <2>2. /\ r \in Routes /\ r.pc = "done" /\ r.status = code
          /\ r.found = {}
      BY DEF NoRoute, Routes
    <2>3. /\ routed' \in [Callers -> Routes] /\ routed'[c] = r
          /\ \A d \in Callers \ {c} : routed'[d] = routed[d]
      BY <2>1, <2>2 DEF FinishRoute, SetRoute, ClusterInv, ClusterTypeOK
    <2> HIDE DEF r
    <2>4. Selected(r)
      BY <2>2 DEF Selected
    <2>5. UNCHANGED <<nodes, registered, wire, runs>>
      BY <2>1 DEF ReturnResult, FailRoute, registryVars
    <2>6. /\ answer' \in [Callers -> Responses] /\ answer'[c] = "none"
          /\ \A d \in Callers \ {c} : answer'[d] = answer[d]
      <3>1. answer' = [answer EXCEPT ![c] = "none"]
        BY <2>1 DEF ReturnResult, FailRoute, Heard
      <3> QED  BY <3>1 DEF ClusterInv, ClusterTypeOK, Responses
    <2>7. /\ wire' \in [Callers -> SUBSET (Machines \X Nat)]
          /\ runs' \in [Callers -> Nat]
      BY <2>5 DEF ClusterInv, ClusterTypeOK
    <2>8. /\ unclear' \in [Callers -> Nat]
          /\ unclear'[c] = IF code = 200 THEN unclear[c] ELSE unclear[c] + 1
          /\ \A d \in Callers \ {c} : unclear'[d] = unclear[d]
      <3>1. CASE code = 200
        <4>1. unclear' = unclear
          BY <2>1, <3>1 DEF ReturnResult
        <4> QED  BY <3>1, <4>1 DEF ClusterInv, ClusterTypeOK
      <3>2. CASE code # 200
        <4>1. unclear' = [unclear EXCEPT ![c] = @ + 1]
          BY <2>1, <3>2 DEF FailRoute
        <4> QED  BY <3>2, <4>1 DEF ClusterInv, ClusterTypeOK
      <3> QED  BY <3>1, <3>2
    <2>9. Worth(routed[c]) = 1 /\ Worth(r) = IF code = 200 THEN 1 ELSE 0
      BY <2>a, <2>2 DEF Worth
    <2>10. code = 200 => runs[c] >= 1
      BY <2>1, OfOne DEF ReturnResult, Accounted
    <2>11. Accounted(r, wire[c], "none", runs[c], unclear'[c])
      BY <2>2, <2>8, <2>9, <2>10, OfOne DEF Accounted
    <2> QED  BY <1>1, <2>3, <2>4, <2>5, <2>6, <2>7, <2>8, <2>11 DEF Settled
  <1> QED  BY <1>2, <1>3, <1>4 DEF Handle

(* Every step keeps the invariant. *)
LEMMA ClusterStep == ClusterInv /\ [ClusterNext]_clusterVars => ClusterInv'
  <1> SUFFICES ASSUME ClusterInv, [ClusterNext]_clusterVars PROVE ClusterInv'
    OBVIOUS
  <1>1. CASE UNCHANGED clusterVars
    <2>1. ClusterTypeOK'
      BY <1>1 DEF clusterVars, ClusterInv, ClusterTypeOK
    <2>2. (\A c \in Callers : Selected(routed[c]))'
      BY <1>1 DEF clusterVars, ClusterInv, Selected
    <2>3. \A c \in Callers : Accounted(routed[c], wire[c], answer[c], runs[c], unclear[c])'
      BY <1>1 DEF clusterVars, ClusterInv
    <2> QED  BY <2>1, <2>2, <2>3 DEF ClusterInv
  <1>2. CASE RegistryStep
    BY <1>2, RegistryKeepsInv
  <1>3. ASSUME NEW c \in Callers, Settled(c) PROVE ClusterInv'
    BY <1>3, SettledKeepsInv
  <1> QED  BY <1>1, <1>2, <1>3, BeginningSettles, ArrivalSettles, HandlingSettles
           DEF ClusterNext, RegistryStep, Responses, ProbeCodes

(* The invariant holds in every state of every behaviour. *)
LEMMA ClusterInvariant == ClusterSpec => []ClusterInv
  BY ClusterInitial, ClusterStep, PTL DEF ClusterSpec

(* Every execution of a client's task belongs to a request of its own that  *)
(* was answered 200, was told to have failed after it was posted (502, or   *)
(* 400 and 500 for an unreadable answer: run_task_on_engine,                *)
(* run_task_auto_route), or still waits; 200 means that the task ran.       *)
(* However late posts arrive, whichever machines stop, any other refusal    *)
(* executed nothing.                                                        *)
THEOREM RoutedOnceTheorem == ClusterSpec => []RoutedOnce
  <1>1. ASSUME ClusterInv PROVE RoutedOnce
    <2> SUFFICES ASSUME NEW c \in Callers
                 PROVE  /\ runs[c] <= unclear[c] + Worth(routed[c])
                        /\ routed[c].status = 200 => runs[c] >= 1
      BY DEF RoutedOnce, Worth, Waiting
    <2>1. /\ Cardinality(wire[c]) \in Nat /\ runs[c] \in Nat /\ unclear[c] \in Nat
          /\ Accounted(routed[c], wire[c], answer[c], runs[c], unclear[c])
      BY <1>1, OfOne
    <2>2. Worth(routed[c]) \in Nat
      BY DEF Worth
    <2> QED  BY <2>1, <2>2 DEF Accounted
  <1> QED  BY <1>1, ClusterInvariant, PTL

-----------------------------------------------------------------------------
(* GuildKnowledge, for any number of callers, fingerprints and contexts and *)
(* any limit, over both stores.                                             *)

GuildRecords == [count : Nat, created : Nat]

(* What a store, a file's contents or the records of a call can be. *)
RecordMaps == UNION {[S -> GuildRecords] : S \in SUBSET Keys}

GuildTypeOK ==
    /\ backend \in {"memory", "local"}
    /\ records \in RecordMaps
    /\ clock \in Nat
    /\ guildPc \in [Publishers -> {"idle", "next", "save", "replace", "limit", "delete"}]
    /\ todo \in [Publishers -> Seq(Keys)]
    /\ held \in [Publishers -> RecordMaps]
    /\ payload \in [Publishers -> RecordMaps]
    /\ victims \in [Publishers -> Seq(Keys)]
    /\ faults \in Nat
    /\ reported \in [Keys -> Nat] /\ credited \in [Keys -> Nat]
    /\ forgotten \in [Keys -> Nat] /\ lost \in [Keys -> Nat]
    /\ overlapped \in BOOLEAN /\ disturbed \in BOOLEAN

(* The call has raised a count that its save has not stored yet. *)
Saving(t) == guildPc[t] = "save" \/ (guildPc[t] = "replace" /\ todo[t] # << >>)

(* A call saves before it trims, and deletes one victim at a time. *)
GuildPhases ==
    \A t \in Publishers :
        /\ Saving(t) => todo[t] # << >> /\ Head(todo[t]) \in DOMAIN held[t]
        /\ guildPc[t] \in {"limit", "delete"} => todo[t] = << >>
        /\ guildPc[t] = "idle" => victims[t] = << >>
        /\ guildPc[t] = "replace" => backend = "local"
        /\ guildPc[t] = "replace" /\ todo[t] = << >> => victims[t] # << >>

(* No copy of a record, however stale, counts more than was published. *)
Backed(copy) == \A k \in DOMAIN copy : copy[k].count <= credited[k]

NothingInvented ==
    /\ Backed(records)
    /\ \A t \in Publishers : Backed(held[t]) /\ Backed(payload[t])

(* Calls never overlapped, or have not since one began alone. *)
Solo == ~overlapped \/ ~disturbed

Alone ==
    Solo =>
        \A t, u \in Publishers : guildPc[t] # "idle" /\ guildPc[u] # "idle" => t = u

Stored(store, r, j) == j \in DOMAIN store /\ r = store[j]

(* What a call that nobody disturbs knows of the store: its copies are the  *)
(* stored records, but for the one it is about to save.                     *)
CopiesCurrent ==
    Solo =>
        \A t \in Publishers :
            /\ guildPc[t] = "next" =>
                   \A j \in DOMAIN held[t] : Stored(records, held[t][j], j)
            /\ Saving(t) =>
                   /\ held[t][Head(todo[t])].count = StoredCount(records, Head(todo[t])) + 1
                   /\ \A j \in DOMAIN held[t] \ {Head(todo[t])} : Stored(records, held[t][j], j)
            /\ guildPc[t] = "replace" =>
                   payload[t] = IF todo[t] # << >>
                                THEN With(records, Head(todo[t]), held[t][Head(todo[t])])
                                ELSE Without(Head(victims[t]))

(* The outcomes of k that are stored, were stored or were given up. *)
Books(k) == StoredCount(records, k) + forgotten[k] + lost[k]

(* What was reported is in the books, but for the contexts of the call that *)
(* is under way.                                                            *)
Ledger ==
    ~overlapped =>
        \A k \in Keys :
            /\ Quiet => Books(k) = reported[k]
            /\ \A t \in Publishers :
                   guildPc[t] # "idle" => Books(k) + Occurs(todo[t], k) = reported[k]

(* The call will look at the limit again. *)
WillTrim(t) == guildPc[t] \in {"next", "limit"} \/ Saving(t)

Doomed == {k \in Keys : \E t \in Publishers : \E i \in 1..Len(victims[t]) : victims[t][i] = k}

(* Unless a trim is still to come, enough records are marked for deletion.  *)
TrimCovers ==
    ~disturbed /\ MaxRecords > 0 =>
        \/ \E t \in Publishers : WillTrim(t)
        \/ Cardinality(DOMAIN records \ Doomed) <= MaxRecords

GuildInv ==
    /\ GuildTypeOK /\ GuildPhases /\ NothingInvented
    /\ Alone /\ CopiesCurrent /\ Ledger /\ TrimCovers


(* A store with one record changed or one taken out is a store. *)
LEMMA WithIsMap ==
  ASSUME NEW m \in RecordMaps, NEW k \in Keys, NEW r \in GuildRecords
  PROVE  /\ With(m, k, r) \in RecordMaps
         /\ DOMAIN With(m, k, r) = DOMAIN m \cup {k}
         /\ With(m, k, r)[k] = r
         /\ \A j \in DOMAIN m : j # k => With(m, k, r)[j] = m[j]
  <1>1. PICK S \in SUBSET Keys : m \in [S -> GuildRecords]
    BY DEF RecordMaps
  <1>2. With(m, k, r) \in [S \cup {k} -> GuildRecords]
    BY <1>1 DEF With
  <1>3. S \cup {k} \in SUBSET Keys
    BY <1>1
  <1>4. With(m, k, r) \in RecordMaps
    BY <1>2, <1>3 DEF RecordMaps
  <1> QED BY <1>1, <1>4 DEF With

(* The records of a store are records of fingerprints. *)
LEMMA MapTypes ==
  ASSUME NEW m \in RecordMaps
  PROVE  /\ DOMAIN m \subseteq Keys
         /\ \A k \in DOMAIN m : m[k] \in GuildRecords /\ m[k].count \in Nat /\ m[k].created \in Nat
         /\ IsFiniteSet(DOMAIN m)
  <1>1. PICK S \in SUBSET Keys : m \in [S -> GuildRecords]
    BY DEF RecordMaps
  <1>2. DOMAIN m = S
    BY <1>1
  <1>3. IsFiniteSet(S)
    BY <1>1, GuildConstants, FS_Subset
  <1> QED BY <1>1, <1>2, <1>3 DEF GuildRecords

(* A part of a store is a store. *)
LEMMA PartIsMap ==
  ASSUME NEW m \in RecordMaps, NEW k
  PROVE  /\ [j \in DOMAIN m \ {k} |-> m[j]] \in RecordMaps
         /\ DOMAIN [j \in DOMAIN m \ {k} |-> m[j]] = DOMAIN m \ {k}
  <1>1. PICK S \in SUBSET Keys : m \in [S -> GuildRecords]
    BY DEF RecordMaps
  <1>2. [j \in DOMAIN m \ {k} |-> m[j]] \in [S \ {k} -> GuildRecords]
    BY <1>1
  <1>3. S \ {k} \in SUBSET Keys
    BY <1>1
  <1> QED BY <1>2, <1>3 DEF RecordMaps

(* The empty store is a store. *)
LEMMA NoRecordsIsMap == NoRecords \in RecordMaps /\ DOMAIN NoRecords = {}
  <1>1. NoRecords \in [{} -> GuildRecords]
    BY DEF NoRecords
  <1> QED BY <1>1 DEF RecordMaps, NoRecords

(* Taking the first of a sequence leaves a sequence. *)
LEMMA KeySeq ==
  ASSUME NEW s \in Seq(Keys), s # << >>
  PROVE  /\ Head(s) \in Keys /\ Tail(s) \in Seq(Keys)
         /\ Len(s) > 0 /\ Head(s) = s[1] /\ Len(Tail(s)) = Len(s) - 1
         /\ \A i \in 1..Len(Tail(s)) : Tail(s)[i] = s[i + 1]
  OBVIOUS

(* The record to save is a record. *)
LEMMA CountOutcomeType ==
  ASSUME GuildTypeOK, NEW t \in Publishers, NEW k \in Keys
  PROVE  CountOutcome(t, k) \in GuildRecords
  <1>1. held[t] \in RecordMaps /\ records \in RecordMaps /\ clock \in Nat
    BY DEF GuildTypeOK
  <1>2. ASSUME NEW r \in GuildRecords PROVE Increment(r) \in GuildRecords
    BY <1>2 DEF Increment, GuildRecords
  <1>3. [count |-> 1, created |-> clock] \in GuildRecords
    BY <1>1 DEF GuildRecords
  <1>4. k \in DOMAIN held[t] => Increment(held[t][k]) \in GuildRecords
    BY <1>1, <1>2, MapTypes
  <1>5. k \in DOMAIN records => Increment(records[k]) \in GuildRecords
    BY <1>1, <1>2, MapTypes
  <1> QED BY <1>3, <1>4, <1>5 DEF CountOutcome

(* How many records a trim deletes. *)
LEMMA ExcessType ==
  ASSUME records \in RecordMaps
  PROVE  /\ Cardinality(DOMAIN records) \in Nat
         /\ Excess \in Nat
         /\ Excess <= Cardinality(DOMAIN records)
         /\ MaxRecords > 0 => Cardinality(DOMAIN records) - Excess <= MaxRecords
  <1>1. Cardinality(DOMAIN records) \in Nat
    BY MapTypes, FS_CardinalityType
  <1> QED BY <1>1, GuildConstants DEF Excess

(* The victims are records of the store. *)
LEMMA OldestType ==
  ASSUME records \in RecordMaps, NEW v \in Oldest(Excess)
  PROVE  v \in Seq(Keys) /\ Len(v) = Excess /\ v \in [1..Excess -> DOMAIN records]
  <1>1. Excess \in Nat
    BY ExcessType
  <1>2. v \in [1..Excess -> DOMAIN records]
    BY DEF Oldest
  <1>3. v \in [1..Excess -> Keys]
    BY <1>2, MapTypes
  <1> QED BY <1>1, <1>2, <1>3

(* One step of a caller, by the action it is. *)
LEMMA GuildNextCases ==
  ASSUME [GuildNext]_guildVars
  PROVE  \/ Clear
         \/ UNCHANGED guildVars
         \/ \E t \in Publishers :
               \/ \E contexts \in Publications : Publish(t, contexts)
               \/ NextContext(t) \/ SaveRecord(t) \/ ReplaceFile(t)
               \/ EnforceLimit(t) \/ DeleteRecord(t) \/ StoreRaises(t)
  BY DEF GuildNext, GuildStep

(* How often a key occurs is a number. *)
LEMMA OccursType ==
  ASSUME NEW s \in Seq(Keys), NEW k
  PROVE  Occurs(s, k) \in Nat /\ IsFiniteSet({i \in 1..Len(s) : s[i] = k})
  <1>1. Len(s) \in Nat /\ IsFiniteSet(1..Len(s))
    BY FS_Interval
  <1>2. IsFiniteSet({i \in 1..Len(s) : s[i] = k})
    BY <1>1, FS_Subset
  <1> QED BY <1>2, FS_CardinalityType DEF Occurs

(* Nothing occurs in the empty sequence; dropping the first element takes   *)
(* one occurrence of it away.                                               *)
LEMMA OccursTail ==
  ASSUME NEW k
  PROVE  /\ Occurs(<< >>, k) = 0
         /\ \A s \in Seq(Keys) : s # << >> =>
                Occurs(s, k) = Occurs(Tail(s), k) + (IF Head(s) = k THEN 1 ELSE 0)
  <1>1. Occurs(<< >>, k) = 0
    <2>1. {i \in 1..Len(<< >>) : << >>[i] = k} = {}
      OBVIOUS
    <2> QED BY <2>1, FS_EmptySet DEF Occurs
  <1>2. ASSUME NEW s \in Seq(Keys), s # << >>
        PROVE  Occurs(s, k) = Occurs(Tail(s), k) + (IF Head(s) = k THEN 1 ELSE 0)
    <2> DEFINE A == {i \in 1..Len(s) : s[i] = k}
               B == {i \in 1..Len(Tail(s)) : Tail(s)[i] = k}
               f == [i \in B |-> i + 1]
    <2>1. /\ Tail(s) \in Seq(Keys) /\ Len(s) \in Nat /\ Len(s) > 0 /\ Head(s) = s[1]
          /\ Len(Tail(s)) = Len(s) - 1
          /\ \A i \in 1..Len(Tail(s)) : Tail(s)[i] = s[i + 1]
      BY <1>2, KeySeq
    <2>2. f \in [B -> A \ {1}]
      BY <2>1
    <2>3. \A i, j \in B : f[i] = f[j] => i = j
      OBVIOUS
    <2>4. \A e \in A \ {1} : \E i \in B : f[i] = e
      <3> TAKE e \in A \ {1}
      <3>1. e - 1 \in B /\ f[e - 1] = e
        BY <2>1
      <3> QED BY <3>1
    <2>5. f \in Bijection(B, A \ {1})
      BY <2>2, <2>3, <2>4 DEF Bijection, Injection, Surjection, IsInjective
    <2>6. IsFiniteSet(A) /\ IsFiniteSet(B) /\ Cardinality(A) \in Nat /\ Cardinality(B) \in Nat
      BY <2>1, OccursType, FS_CardinalityType
    <2>7. Cardinality(A \ {1}) = Cardinality(B)
      <3>1. ExistsBijection(B, A \ {1})
        BY <2>5 DEF ExistsBijection
      <3> HIDE DEF A, B
      <3> QED BY <2>6, <3>1, FS_Bijection
    <2>8. 1 \in A <=> Head(s) = k
      BY <2>1
    <2>9. Cardinality(A) = Cardinality(B) + (IF Head(s) = k THEN 1 ELSE 0)
      <3> HIDE DEF A, B
      <3>1. CASE 1 \in A
        <4>1. Cardinality(A \ {1}) = Cardinality(A) - 1
          BY <2>6, <3>1, FS_RemoveElement
        <4> QED BY <2>6, <2>7, <2>8, <3>1, <4>1
      <3>2. CASE 1 \notin A
        <4>1. A \ {1} = A
          BY <3>2
        <4>2. Cardinality(A) = Cardinality(B)
          BY ONLY <2>7, <4>1
        <4>3. Head(s) # k
          BY ONLY <2>8, <3>2
        <4> QED BY ONLY <2>6, <4>2, <4>3
      <3> QED BY <3>1, <3>2
    <2> QED BY <2>9 DEF Occurs
  <1> QED BY <1>1, <1>2

(* The number stored is a number. *)
LEMMA StoredCountType ==
  ASSUME NEW m \in RecordMaps, NEW k
  PROVE  StoredCount(m, k) \in Nat
  BY MapTypes DEF StoredCount

(* The types and the phases of a call are kept. *)
LEMMA GuildTypeStep ==
  ASSUME GuildTypeOK, GuildPhases, [GuildNext]_guildVars
  PROVE  GuildTypeOK'
  <1> USE DEF GuildTypeOK, GuildGoto
  <1>1. CASE Clear
    <2>0. forgotten' \in [Keys -> Nat]
      BY <1>1, StoredCountType DEF Clear
    <2>1. records' \in RecordMaps /\ overlapped' \in BOOLEAN /\ disturbed' \in BOOLEAN
      BY <1>1, NoRecordsIsMap DEF Clear
    <2> QED BY <1>1, <2>0, <2>1 DEF Clear
  <1>2. CASE UNCHANGED guildVars
    BY <1>2 DEF guildVars
  <1>3. ASSUME NEW t \in Publishers, NEW contexts \in Publications, Publish(t, contexts)
        PROVE  GuildTypeOK'
    <2>1. contexts \in Seq(Keys)
      BY GuildConstants
    <2>2. overlapped' \in BOOLEAN /\ disturbed' \in BOOLEAN
      BY <1>3 DEF Publish
    <2>3. reported' \in [Keys -> Nat]
      <3>1. \A k \in Keys : reported[k] \in Nat /\ Occurs(contexts, k) \in Nat
        BY <2>1, OccursType
      <3> QED BY <1>3, <3>1 DEF Publish
    <2> QED BY <1>3, <2>1, <2>2, <2>3, NoRecordsIsMap DEF Publish
  <1>4. ASSUME NEW t \in Publishers, NextContext(t) PROVE GuildTypeOK'
    <2>1. CASE todo[t] = << >>
      BY <1>4, <2>1 DEF NextContext
    <2>2. CASE todo[t] # << >>
      <3> DEFINE k == Head(todo[t])
      <3>1. k \in Keys
        BY <2>2, KeySeq
      <3>2. With(held[t], k, CountOutcome(t, k)) \in RecordMaps
        BY <3>1, CountOutcomeType, WithIsMap
      <3>3. /\ held' = [held EXCEPT ![t] = With(held[t], k, CountOutcome(t, k))]
            /\ credited' = [credited EXCEPT ![k] = @ + 1]
            /\ clock' = IF k \in DOMAIN held[t] \cup DOMAIN records THEN clock ELSE clock + 1
            /\ guildPc' = [guildPc EXCEPT ![t] = "save"]
            /\ UNCHANGED <<backend, records, todo, payload, victims, calls, faults,
                           reported, forgotten, lost, overlapped, disturbed>>
        BY <1>4, <2>2 DEF NextContext
      <3> HIDE DEF k
      <3>4. credited' \in [Keys -> Nat]
        BY <3>1, <3>3
      <3>5. held' \in [Publishers -> RecordMaps]
        BY <3>2, <3>3
      <3>6. clock' \in Nat
        BY <3>3
      <3> QED BY <3>3, <3>4, <3>5, <3>6
    <2> QED BY <2>1, <2>2
  <1>5. ASSUME NEW t \in Publishers, SaveRecord(t) PROVE GuildTypeOK'
    <2>1. todo[t] # << >> /\ Head(todo[t]) \in DOMAIN held[t]
      BY <1>5 DEF SaveRecord, GuildPhases, Saving
    <2>2. With(records, Head(todo[t]), held[t][Head(todo[t])]) \in RecordMaps
      <3>1. held[t][Head(todo[t])] \in GuildRecords
        BY <2>1, MapTypes
      <3> QED BY <2>1, <3>1, KeySeq, WithIsMap
    <2>3. Tail(todo[t]) \in Seq(Keys)
      BY <2>1, KeySeq
    <2> QED BY <1>5, <2>2, <2>3 DEF SaveRecord, history
  <1>6. ASSUME NEW t \in Publishers, ReplaceFile(t) PROVE GuildTypeOK'
    <2>1. CASE todo[t] # << >>
      <3>1. Tail(todo[t]) \in Seq(Keys)
        BY <2>1, KeySeq
      <3> QED BY <1>6, <2>1, <3>1, NoRecordsIsMap DEF ReplaceFile
    <2>2. CASE todo[t] = << >>
      <3>1. victims[t] # << >>
        BY <1>6, <2>2 DEF ReplaceFile, GuildPhases
      <3>2. Tail(victims[t]) \in Seq(Keys) /\ Head(victims[t]) \in Keys
        BY <3>1, KeySeq
      <3>3. forgotten' \in [Keys -> Nat]
        <4>1. PICK k \in Keys : k = Head(victims[t])
          BY <3>2
        <4>2. forgotten' = [forgotten EXCEPT ![k] = @ + StoredCount(records, k)]
          BY <1>6, <2>2, <4>1 DEF ReplaceFile, Forget
        <4>3. StoredCount(records, k) \in Nat
          BY StoredCountType
        <4> QED BY <4>2, <4>3
      <3>4. /\ victims' = [victims EXCEPT ![t] = Tail(victims[t])]
            /\ guildPc' = [guildPc EXCEPT ![t] = "delete"]
            /\ payload' = [payload EXCEPT ![t] = NoRecords] /\ records' = payload[t]
        BY <1>6, <2>2 DEF ReplaceFile
      <3>5. UNCHANGED <<backend, clock, todo, held, calls, faults, reported, credited, lost,
                        overlapped, disturbed>>
        BY <1>6, <2>2 DEF ReplaceFile
      <3> QED BY <3>2, <3>3, <3>4, <3>5, NoRecordsIsMap
    <2> QED BY <2>1, <2>2
  <1>7. ASSUME NEW t \in Publishers, EnforceLimit(t) PROVE GuildTypeOK'
    <2>1. PICK v \in Oldest(Excess) : victims' = [victims EXCEPT ![t] = v]
      BY <1>7 DEF EnforceLimit
    <2>2. v \in Seq(Keys)
      BY <2>1, OldestType
    <2> QED BY <1>7, <2>1, <2>2 DEF EnforceLimit, history
  <1>8. ASSUME NEW t \in Publishers, DeleteRecord(t) PROVE GuildTypeOK'
    <2>1. CASE victims[t] = << >>
      BY <1>8, <2>1, NoRecordsIsMap DEF DeleteRecord
    <2>2. CASE victims[t] # << >>
      <3> DEFINE k == Head(victims[t])
      <3>1. k \in Keys /\ Tail(victims[t]) \in Seq(Keys)
        BY <2>2, KeySeq
      <3>2. Without(k) \in RecordMaps
        BY PartIsMap DEF Without
      <3>3. CASE backend = "local" /\ k \in DOMAIN records
        BY <1>8, <2>2, <3>2, <3>3 DEF DeleteRecord
      <3>4. CASE ~(backend = "local" /\ k \in DOMAIN records)
        <4>1. forgotten' = [forgotten EXCEPT ![k] = @ + StoredCount(records, k)]
          BY <1>8, <2>2, <3>4 DEF DeleteRecord, Forget
        <4>2. forgotten' \in [Keys -> Nat]
          BY <3>1, <4>1, StoredCountType
        <4> QED BY <1>8, <2>2, <3>1, <3>2, <3>4, <4>2 DEF DeleteRecord
      <3> QED BY <3>3, <3>4
    <2> QED BY <2>1, <2>2
  <1>9. ASSUME NEW t \in Publishers, StoreRaises(t) PROVE GuildTypeOK'
    <2>1. << >> \in Seq(Keys)
      OBVIOUS
    <2>2. lost' \in [Keys -> Nat]
      <3>1. \A k \in Keys : lost[k] \in Nat /\ Occurs(todo[t], k) \in Nat
        BY OccursType
      <3> QED BY <1>9, <3>1 DEF StoreRaises
    <2> QED BY <1>9, <2>1, <2>2, NoRecordsIsMap DEF StoreRaises
  <1> QED BY <1>1, <1>2, <1>3, <1>4, <1>5, <1>6, <1>7, <1>8, <1>9, GuildNextCases

(* What a call knows is touched by its own steps only. *)
LEMMA OthersUntouched ==
  ASSUME GuildTypeOK, NEW t \in Publishers, NEW u \in Publishers \ {t},
         \/ \E contexts \in Publications : Publish(t, contexts)
         \/ NextContext(t) \/ SaveRecord(t) \/ ReplaceFile(t)
         \/ EnforceLimit(t) \/ DeleteRecord(t) \/ StoreRaises(t)
  PROVE  /\ guildPc'[u] = guildPc[u] /\ todo'[u] = todo[u] /\ held'[u] = held[u]
         /\ payload'[u] = payload[u] /\ victims'[u] = victims[u]
  <1> USE DEF GuildTypeOK, GuildGoto
  <1>1. CASE \E contexts \in Publications : Publish(t, contexts)
    BY <1>1 DEF Publish
  <1>2. CASE NextContext(t)
    BY <1>2 DEF NextContext
  <1>3. CASE SaveRecord(t)
    BY <1>3 DEF SaveRecord
  <1>4. CASE ReplaceFile(t)
    BY <1>4 DEF ReplaceFile
  <1>5. CASE EnforceLimit(t)
    BY <1>5 DEF EnforceLimit
  <1>6. CASE DeleteRecord(t)
    BY <1>6 DEF DeleteRecord
  <1>7. CASE StoreRaises(t)
    BY <1>7 DEF StoreRaises
  <1> QED BY <1>1, <1>2, <1>3, <1>4, <1>5, <1>6, <1>7

(* A call saves before it trims, whatever its store calls do. *)
LEMMA GuildPhasesStep ==
  ASSUME GuildTypeOK, GuildPhases, [GuildNext]_guildVars
  PROVE  GuildPhases'
  <1> DEFINE P(u) == /\ Saving(u) => todo[u] # << >> /\ Head(todo[u]) \in DOMAIN held[u]
                     /\ guildPc[u] \in {"limit", "delete"} => todo[u] = << >>
                     /\ guildPc[u] = "idle" => victims[u] = << >>
                     /\ guildPc[u] = "replace" => backend = "local"
                     /\ guildPc[u] = "replace" /\ todo[u] = << >> => victims[u] # << >>
  <1>1. CASE Clear
    BY <1>1 DEF Clear, GuildPhases, Saving
  <1>2. CASE UNCHANGED guildVars
    BY <1>2 DEF guildVars, GuildPhases, Saving
  <1>3. ASSUME NEW t \in Publishers,
               \/ \E contexts \in Publications : Publish(t, contexts)
               \/ NextContext(t) \/ SaveRecord(t) \/ ReplaceFile(t)
               \/ EnforceLimit(t) \/ DeleteRecord(t) \/ StoreRaises(t)
        PROVE  GuildPhases'
    <2>1. ASSUME NEW u \in Publishers \ {t} PROVE P(u)'
      <3>1. P(u)
        BY DEF GuildPhases
      <3>2. backend' = backend
        BY <1>3 DEF Publish, NextContext, SaveRecord, ReplaceFile, EnforceLimit, DeleteRecord, StoreRaises
      <3> QED BY <1>3, <2>1, <3>1, <3>2, OthersUntouched DEF Saving
    <2>2. P(t)'
      <3> USE DEF GuildTypeOK, GuildGoto, Saving
      <3>0. P(t)
        BY DEF GuildPhases
      <3>1. CASE \E contexts \in Publications : Publish(t, contexts)
        BY <3>1 DEF Publish
      <3>2. CASE NextContext(t)
        <4>1. CASE todo[t] = << >>
          BY <3>2, <4>1 DEF NextContext
        <4>2. CASE todo[t] # << >>
          <5>1. /\ held' = [held EXCEPT ![t] = With(held[t], Head(todo[t]), CountOutcome(t, Head(todo[t])))]
                /\ guildPc'[t] = "save" /\ todo' = todo
            BY <3>2, <4>2 DEF NextContext
          <5>2. Head(todo[t]) \in DOMAIN held'[t]
            BY <5>1 DEF With
          <5> QED BY <4>2, <5>1, <5>2
        <4> QED BY <4>1, <4>2
      <3>3. CASE SaveRecord(t)
        BY <3>0, <3>3 DEF SaveRecord
      <3>4. CASE ReplaceFile(t)
        BY <3>0, <3>4 DEF ReplaceFile
      <3>5. CASE EnforceLimit(t)
        BY <3>0, <3>5 DEF EnforceLimit
      <3>6. CASE DeleteRecord(t)
        BY <3>0, <3>6 DEF DeleteRecord
      <3>7. CASE StoreRaises(t)
        BY <3>7 DEF StoreRaises
      <3> QED BY <1>3, <3>1, <3>2, <3>3, <3>4, <3>5, <3>6, <3>7
    <2> QED BY <2>1, <2>2 DEF GuildPhases
  <1> QED BY <1>1, <1>2, <1>3, GuildNextCases

(* A step of a call that is under way neither ends nor hides an overlap. *)
LEMMA StepGoesOn ==
  ASSUME GuildTypeOK, NEW t \in Publishers,
         \/ NextContext(t) \/ SaveRecord(t) \/ ReplaceFile(t)
         \/ EnforceLimit(t) \/ DeleteRecord(t) \/ StoreRaises(t)
  PROVE  /\ guildPc[t] # "idle" /\ overlapped' = overlapped
         /\ disturbed \/ StoreRaises(t) => disturbed'
         /\ ~StoreRaises(t) => disturbed' = disturbed
         /\ Solo' => Solo
  <1>1. guildPc[t] # "idle" /\ overlapped' = overlapped
    BY DEF NextContext, SaveRecord, ReplaceFile, EnforceLimit, DeleteRecord, StoreRaises, history
  <1>2. CASE StoreRaises(t)
    <2>1. disturbed' = TRUE
      BY <1>2 DEF StoreRaises
    <2> QED BY <1>1, <1>2, <2>1, Zenon DEF Solo
  <1>3. CASE ~StoreRaises(t)
    <2>1. disturbed' = disturbed
      BY <1>3 DEF NextContext, SaveRecord, ReplaceFile, EnforceLimit, DeleteRecord, history
    <2> QED BY <1>1, <1>3, <2>1 DEF Solo
  <1> QED BY <1>2, <1>3

(* Calls that overlap are noticed. *)
LEMMA AloneStep ==
  ASSUME GuildTypeOK, Alone, [GuildNext]_guildVars
  PROVE  Alone'
  <1> USE DEF GuildTypeOK, GuildGoto
  <1>1. CASE Clear
    <2>1. Solo' => Quiet
      BY <1>1 DEF Clear, Solo
    <2> QED BY <1>1, <2>1 DEF Clear, Alone, Quiet
  <1>2. CASE UNCHANGED guildVars
    BY <1>2 DEF guildVars, Alone, Solo
  <1>3. ASSUME NEW t \in Publishers, \E contexts \in Publications : Publish(t, contexts)
        PROVE  Alone'
    <2>1. (Solo' => Quiet) /\ guildPc' = [guildPc EXCEPT ![t] = "next"]
      BY <1>3 DEF Publish, Solo
    <2> QED BY <2>1 DEF Alone, Quiet
  <1>4. ASSUME NEW t \in Publishers,
               \/ NextContext(t) \/ SaveRecord(t) \/ ReplaceFile(t)
               \/ EnforceLimit(t) \/ DeleteRecord(t) \/ StoreRaises(t)
        PROVE  Alone'
    <2>1. (Solo' => Solo) /\ guildPc[t] # "idle"
      BY <1>4, StepGoesOn
    <2>2. \A u \in Publishers \ {t} : guildPc'[u] = guildPc[u]
      BY <1>4, OthersUntouched
    <2> QED BY <2>1, <2>2 DEF Alone
  <1> QED BY <1>1, <1>2, <1>3, <1>4, GuildNextCases

(* The same for one copy and one account of the published outcomes. *)
BackedBy(copy, account) == \A k \in DOMAIN copy : copy[k].count <= account[k]

(* A copy stays backed when more is published. *)
LEMMA BackedGrows ==
  ASSUME NEW m \in RecordMaps, NEW a \in [Keys -> Nat], NEW k \in Keys, BackedBy(m, a)
  PROVE  BackedBy(m, [a EXCEPT ![k] = @ + 1])
  <1> SUFFICES ASSUME NEW j \in DOMAIN m PROVE m[j].count <= [a EXCEPT ![k] = @ + 1][j]
    BY DEF BackedBy
  <1>1. j \in Keys /\ m[j].count \in Nat
    BY MapTypes
  <1>2. m[j].count <= a[j] /\ a[j] \in Nat
    BY <1>1 DEF BackedBy
  <1> QED BY <1>1, <1>2

(* A copy with one backed record more is backed. *)
LEMMA BackedWith ==
  ASSUME NEW m \in RecordMaps, NEW a \in [Keys -> Nat], NEW k \in Keys, BackedBy(m, a),
         NEW r \in GuildRecords, r.count <= a[k]
  PROVE  BackedBy(With(m, k, r), a)
  <1> SUFFICES ASSUME NEW j \in DOMAIN With(m, k, r) PROVE With(m, k, r)[j].count <= a[j]
    BY DEF BackedBy
  <1>1. CASE j = k
    BY <1>1, WithIsMap
  <1>2. CASE j # k
    <2>0. DOMAIN With(m, k, r) = DOMAIN m \cup {k}
      BY WithIsMap
    <2>1. j \in DOMAIN m /\ With(m, k, r)[j] = m[j]
      BY <1>2, <2>0 DEF With
    <2> QED BY <2>1 DEF BackedBy
  <1> QED BY <1>1, <1>2

(* One turn of the loop raises one count by one. *)
LEMMA NextContextTakes ==
  ASSUME GuildTypeOK, NEW t \in Publishers, NextContext(t), todo[t] # << >>, NEW k, k = Head(todo[t])
  PROVE  /\ k \in Keys
         /\ held' = [held EXCEPT ![t] = With(held[t], k, CountOutcome(t, k))]
         /\ credited' = [credited EXCEPT ![k] = @ + 1]
         /\ guildPc' = [guildPc EXCEPT ![t] = "save"]
         /\ UNCHANGED <<backend, records, todo, payload, victims, reported, forgotten, lost,
                        overlapped, disturbed>>
  <1>1. todo[t] \in Seq(Keys)
    BY DEF GuildTypeOK
  <1>2. k \in Keys
    BY <1>1, KeySeq
  <1> QED BY <1>2 DEF NextContext, GuildGoto

(* What a call publishes counts one outcome more than a copy or the store,  *)
(* or one.                                                                  *)
LEMMA CountOutcomeCounts ==
  ASSUME GuildTypeOK, NEW t \in Publishers, NEW k \in Keys
  PROVE  CountOutcome(t, k).count = IF k \in DOMAIN held[t] THEN held[t][k].count + 1
                                    ELSE StoredCount(records, k) + 1
  <1>1. held[t] \in RecordMaps /\ records \in RecordMaps
    BY DEF GuildTypeOK
  <1>2. ASSUME NEW r \in GuildRecords PROVE Increment(r).count = r.count + 1
    BY <1>2 DEF Increment, GuildRecords
  <1>3. k \in DOMAIN held[t] => Increment(held[t][k]).count = held[t][k].count + 1
    BY <1>1, <1>2, MapTypes
  <1>4. k \in DOMAIN records => Increment(records[k]).count = records[k].count + 1
    BY <1>1, <1>2, MapTypes
  <1> QED BY <1>3, <1>4 DEF CountOutcome, StoredCount

(* No step lets a copy count more than was published, overlapping calls,    *)
(* evictions and stale files included.                                      *)
LEMMA NothingInventedStep ==
  ASSUME GuildTypeOK, GuildPhases, NothingInvented, [GuildNext]_guildVars
  PROVE  NothingInvented'
  <1>0. /\ BackedBy(records, credited)
        /\ \A t \in Publishers : BackedBy(held[t], credited) /\ BackedBy(payload[t], credited)
    BY DEF NothingInvented, Backed, BackedBy
  <1>a. /\ records \in RecordMaps /\ credited \in [Keys -> Nat] /\ forgotten \in [Keys -> Nat]
        /\ held \in [Publishers -> RecordMaps] /\ payload \in [Publishers -> RecordMaps]
        /\ todo \in [Publishers -> Seq(Keys)] /\ victims \in [Publishers -> Seq(Keys)]
    BY DEF GuildTypeOK
  <1>b. \A a : BackedBy(NoRecords, a)
    BY NoRecordsIsMap DEF BackedBy
  <1> SUFFICES /\ BackedBy(records', credited')
               /\ \A t \in Publishers : BackedBy(held'[t], credited') /\ BackedBy(payload'[t], credited')
    BY DEF NothingInvented, Backed, BackedBy
  <1> USE <1>0, <1>a, <1>b
  <1>1. CASE Clear
    BY <1>1 DEF Clear
  <1>2. CASE UNCHANGED guildVars
    BY <1>2 DEF guildVars
  <1>3. ASSUME NEW t \in Publishers, \E contexts \in Publications : Publish(t, contexts)
        PROVE  /\ BackedBy(records', credited')
               /\ \A u \in Publishers : BackedBy(held'[u], credited') /\ BackedBy(payload'[u], credited')
    BY <1>3 DEF Publish
  <1>4. ASSUME NEW t \in Publishers, NextContext(t)
        PROVE  /\ BackedBy(records', credited')
               /\ \A u \in Publishers : BackedBy(held'[u], credited') /\ BackedBy(payload'[u], credited')
    <2>1. CASE todo[t] = << >>
      BY <1>4, <2>1 DEF NextContext
    <2>2. CASE todo[t] # << >>
      <3>1. PICK k : k = Head(todo[t])
        OBVIOUS
      <3>2. /\ k \in Keys
            /\ held' = [held EXCEPT ![t] = With(held[t], k, CountOutcome(t, k))]
            /\ credited' = [credited EXCEPT ![k] = @ + 1]
            /\ UNCHANGED <<records, payload>>
        BY <1>4, <2>2, <3>1, NextContextTakes
      <3>3. \A m \in RecordMaps : BackedBy(m, credited) => BackedBy(m, credited')
        BY <3>2, BackedGrows
      <3>4. credited' \in [Keys -> Nat] /\ credited'[k] = credited[k] + 1
        BY <3>2
      <3>5. CountOutcome(t, k).count <= credited'[k]
        <4>1. k \in DOMAIN held[t] => held[t][k].count <= credited[k] /\ held[t][k].count \in Nat
          BY MapTypes DEF BackedBy
        <4>2. StoredCount(records, k) <= credited[k] /\ StoredCount(records, k) \in Nat
          BY <3>2, MapTypes DEF BackedBy, StoredCount
        <4> QED BY <3>2, <3>4, <4>1, <4>2, CountOutcomeCounts
      <3>6. BackedBy(With(held[t], k, CountOutcome(t, k)), credited')
        BY <3>2, <3>3, <3>4, <3>5, CountOutcomeType, BackedWith
      <3>7. \A u \in Publishers : BackedBy(held'[u], credited')
        BY <3>2, <3>3, <3>6
      <3> QED BY <3>2, <3>3, <3>7
    <2> QED BY <2>1, <2>2
  <1>5. ASSUME NEW t \in Publishers, SaveRecord(t)
        PROVE  /\ BackedBy(records', credited')
               /\ \A u \in Publishers : BackedBy(held'[u], credited') /\ BackedBy(payload'[u], credited')
    <2>1. PICK k : k = Head(todo[t])
      OBVIOUS
    <2>2. todo[t] # << >> /\ k \in DOMAIN held[t]
      BY <1>5, <2>1 DEF SaveRecord, GuildPhases, Saving
    <2>3. held[t][k] \in GuildRecords /\ held[t][k].count <= credited[k] /\ k \in Keys
      BY <2>2, MapTypes DEF BackedBy
    <2>4. BackedBy(With(records, k, held[t][k]), credited)
      BY <2>3, BackedWith
    <2>5. /\ \/ records' = With(records, k, held[t][k]) /\ payload' = payload
             \/ records' = records /\ payload' = [payload EXCEPT ![t] = With(records, k, held[t][k])]
          /\ UNCHANGED <<held, credited>>
      BY <1>5, <2>1 DEF SaveRecord, history
    <2> QED BY <2>4, <2>5
  <1>6. ASSUME NEW t \in Publishers, ReplaceFile(t)
        PROVE  /\ BackedBy(records', credited')
               /\ \A u \in Publishers : BackedBy(held'[u], credited') /\ BackedBy(payload'[u], credited')
    <2>1. /\ records' = payload[t] /\ payload' = [payload EXCEPT ![t] = NoRecords]
          /\ UNCHANGED <<held, credited>>
      BY <1>6 DEF ReplaceFile
    <2> QED BY <2>1
  <1>7. ASSUME NEW t \in Publishers, EnforceLimit(t)
        PROVE  /\ BackedBy(records', credited')
               /\ \A u \in Publishers : BackedBy(held'[u], credited') /\ BackedBy(payload'[u], credited')
    BY <1>7 DEF EnforceLimit, history
  <1>8. ASSUME NEW t \in Publishers, DeleteRecord(t)
        PROVE  /\ BackedBy(records', credited')
               /\ \A u \in Publishers : BackedBy(held'[u], credited') /\ BackedBy(payload'[u], credited')
    <2>1. \A k : BackedBy(Without(k), credited)
      BY DEF BackedBy, Without
    <2>2. /\ records' = records \/ records' = Without(Head(victims[t]))
          /\ payload' = payload \/ payload' = [payload EXCEPT ![t] = Without(Head(victims[t]))]
          /\ held' = held \/ held' = [held EXCEPT ![t] = NoRecords]
          /\ credited' = credited
      BY <1>8 DEF DeleteRecord
    <2>4. BackedBy(records', credited')
      BY <2>1, <2>2
    <2>5. \A u \in Publishers : BackedBy(held'[u], credited')
      <3>1. CASE held' = held
        BY <2>2, <3>1
      <3>2. CASE held' = [held EXCEPT ![t] = NoRecords]
        BY <2>2, <3>2
      <3> QED BY <2>2, <3>1, <3>2
    <2>6. \A u \in Publishers : BackedBy(payload'[u], credited')
      <3>1. CASE payload' = payload
        BY <2>2, <3>1
      <3>2. CASE payload' = [payload EXCEPT ![t] = Without(Head(victims[t]))]
        BY <2>1, <2>2, <3>2
      <3> QED BY <2>2, <3>1, <3>2
    <2> QED BY <2>4, <2>5, <2>6
  <1>9. ASSUME NEW t \in Publishers, StoreRaises(t)
        PROVE  /\ BackedBy(records', credited')
               /\ \A u \in Publishers : BackedBy(held'[u], credited') /\ BackedBy(payload'[u], credited')
    BY <1>9 DEF StoreRaises
  <1> QED BY <1>1, <1>2, <1>3, <1>4, <1>5, <1>6, <1>7, <1>8, <1>9, GuildNextCases

(* While calls do not overlap, the others are idle when one takes a step. *)
LEMMA OthersIdle ==
  ASSUME GuildTypeOK, Alone, Solo', NEW t \in Publishers,
         \/ \E contexts \in Publications : Publish(t, contexts)
         \/ NextContext(t) \/ SaveRecord(t) \/ ReplaceFile(t)
         \/ EnforceLimit(t) \/ DeleteRecord(t) \/ StoreRaises(t)
  PROVE  /\ Solo \/ Quiet
         /\ ~overlapped' => ~overlapped
         /\ \A u \in Publishers \ {t} : guildPc[u] = "idle" /\ guildPc'[u] = "idle"
         /\ ~Quiet => Solo /\ guildPc[t] # "idle"
  <1>0. \A u \in Publishers \ {t} : guildPc'[u] = guildPc[u]
    BY OthersUntouched
  <1>1. CASE \E contexts \in Publications : Publish(t, contexts)
    <2>1. Quiet /\ (~overlapped' => ~overlapped)
      BY <1>1 DEF Publish, Solo
    <2> QED BY <1>0, <2>1 DEF Quiet
  <1>2. CASE \/ NextContext(t) \/ SaveRecord(t) \/ ReplaceFile(t)
             \/ EnforceLimit(t) \/ DeleteRecord(t) \/ StoreRaises(t)
    <2>1. overlapped' = overlapped /\ guildPc[t] # "idle" /\ Solo
      BY <1>2, StepGoesOn
    <2> QED BY <1>0, <2>1 DEF Alone
  <1> QED BY <1>1, <1>2

(* After a save the copies of the call are the stored records. *)
LEMMA SavedCopies ==
  ASSUME NEW m \in RecordMaps, NEW h \in RecordMaps, NEW k \in DOMAIN h,
         \A j \in DOMAIN h \ {k} : Stored(m, h[j], j)
  PROVE  \A j \in DOMAIN h : Stored(With(m, k, h[k]), h[j], j)
  <1> TAKE j \in DOMAIN h
  <1>1. CASE j = k
    BY <1>1 DEF Stored, With
  <1>2. CASE j # k
    BY <1>2 DEF Stored, With
  <1> QED BY <1>1, <1>2

(* What CopiesCurrent says of one call. *)
Current(t) ==
    /\ guildPc[t] = "next" =>
           \A j \in DOMAIN held[t] : Stored(records, held[t][j], j)
    /\ Saving(t) =>
           /\ held[t][Head(todo[t])].count = StoredCount(records, Head(todo[t])) + 1
           /\ \A j \in DOMAIN held[t] \ {Head(todo[t])} : Stored(records, held[t][j], j)
    /\ guildPc[t] = "replace" =>
           payload[t] = IF todo[t] # << >>
                        THEN With(records, Head(todo[t]), held[t][Head(todo[t])])
                        ELSE Without(Head(victims[t]))

(* A call that nobody disturbs knows what is stored. *)
LEMMA CopiesCurrentStep ==
  ASSUME GuildTypeOK, GuildPhases, Alone, CopiesCurrent, [GuildNext]_guildVars
  PROVE  CopiesCurrent'
  <1> SUFFICES ASSUME Solo' PROVE \A t \in Publishers : Current(t)'
    BY DEF CopiesCurrent, Current
  <1>0. Solo => \A t \in Publishers : Current(t)
    BY DEF CopiesCurrent, Current
  <1>1. CASE Clear
    BY <1>1 DEF Clear, Current, Saving, Solo, Quiet
  <1>2. CASE UNCHANGED guildVars
    BY <1>0, <1>2 DEF guildVars, Current, Saving, Without, Solo
  <1>3. ASSUME NEW t \in Publishers,
               \/ \E contexts \in Publications : Publish(t, contexts)
               \/ NextContext(t) \/ SaveRecord(t) \/ ReplaceFile(t)
               \/ EnforceLimit(t) \/ DeleteRecord(t) \/ StoreRaises(t)
        PROVE  \A u \in Publishers : Current(u)'
    <2>0. Current(t) /\ \A u \in Publishers \ {t} : Current(u)'
      <3>1. (Solo \/ Quiet) /\ \A u \in Publishers \ {t} : guildPc'[u] = "idle"
        BY <1>3, OthersIdle
      <3>2. \A u \in Publishers \ {t} : Current(u)'
        BY <3>1 DEF Current, Saving
      <3>3. Quiet => Current(t)
        BY DEF Quiet, Current, Saving
      <3> QED BY <1>0, <3>1, <3>2, <3>3
    <2>a. /\ records \in RecordMaps /\ held[t] \in RecordMaps
          /\ todo \in [Publishers -> Seq(Keys)] /\ held \in [Publishers -> RecordMaps]
          /\ payload \in [Publishers -> RecordMaps]
          /\ DOMAIN guildPc = Publishers
      BY DEF GuildTypeOK
    <2>b. PICK k : k = Head(todo[t])
      OBVIOUS
    <2>1. CASE \E contexts \in Publications : Publish(t, contexts)
      <3>1. guildPc'[t] = "next" /\ held'[t] = NoRecords
        BY <2>1, <2>a DEF Publish, GuildGoto
      <3> QED BY <2>0, <3>1, NoRecordsIsMap DEF Current, Saving
    <2>2. CASE NextContext(t) /\ todo[t] = << >>
      <3>1. guildPc'[t] = "limit"
        BY <2>2, <2>a DEF NextContext, GuildGoto
      <3> QED BY <2>0, <3>1 DEF Current, Saving
    <2>3. CASE NextContext(t) /\ todo[t] # << >>
      <3>1. /\ k \in Keys
            /\ held' = [held EXCEPT ![t] = With(held[t], k, CountOutcome(t, k))]
            /\ guildPc' = [guildPc EXCEPT ![t] = "save"]
            /\ todo' = todo /\ records' = records
        BY <2>3, <2>b, NextContextTakes
      <3>2. /\ held'[t] = With(held[t], k, CountOutcome(t, k))
            /\ guildPc'[t] = "save" /\ Head(todo'[t]) = k
        BY <2>a, <2>b, <3>1
      <3>3. \A j \in DOMAIN held[t] : Stored(records, held[t][j], j)
        BY <2>0, <2>3 DEF Current, NextContext
      <3>4. held'[t][k].count = StoredCount(records', k) + 1
        <4>1. held'[t][k] = CountOutcome(t, k)
          BY <3>2 DEF With
        <4> QED BY <3>1, <3>3, <4>1, CountOutcomeCounts DEF Stored, StoredCount
      <3>5. \A j \in DOMAIN held'[t] \ {k} : Stored(records', held'[t][j], j)
        BY <3>1, <3>2, <3>3 DEF With
      <3> QED BY <2>0, <3>2, <3>4, <3>5 DEF Current, Saving
    <2>4. CASE SaveRecord(t)
      <3>1. k \in DOMAIN held[t] /\ todo[t] # << >> /\ Saving(t)
        BY <2>4, <2>b DEF SaveRecord, GuildPhases, Saving
      <3>2. \A j \in DOMAIN held[t] \ {k} : Stored(records, held[t][j], j)
        BY <2>0, <2>b, <3>1 DEF Current
      <3>3. CASE backend = "memory"
        <4>1. guildPc'[t] = "next" /\ records' = With(records, k, held[t][k]) /\ held' = held
          BY <2>4, <2>a, <2>b, <3>3 DEF SaveRecord, GuildGoto
        <4>2. \A j \in DOMAIN held[t] : Stored(With(records, k, held[t][k]), held[t][j], j)
          BY <2>a, <3>1, <3>2, SavedCopies
        <4> QED BY <2>0, <4>1, <4>2 DEF Current, Saving
      <3>4. CASE backend # "memory"
        <4>1. /\ guildPc'[t] = "replace" /\ payload'[t] = With(records, k, held[t][k])
              /\ held' = held /\ records' = records /\ todo' = todo
          BY <2>4, <2>a, <2>b, <3>4 DEF SaveRecord, GuildGoto
        <4> QED BY <2>0, <2>b, <3>1, <4>1 DEF Current, Saving
      <3> QED BY <3>3, <3>4
    <2>5. CASE ReplaceFile(t) /\ todo[t] # << >>
      <3>1. k \in DOMAIN held[t] /\ Saving(t)
        BY <2>5, <2>b DEF ReplaceFile, GuildPhases, Saving
      <3>2. /\ payload[t] = With(records, k, held[t][k])
            /\ \A j \in DOMAIN held[t] \ {k} : Stored(records, held[t][j], j)
        BY <2>0, <2>5, <2>b, <3>1 DEF Current, ReplaceFile
      <3>3. guildPc'[t] = "next" /\ records' = payload[t] /\ held' = held
        BY <2>5, <2>a DEF ReplaceFile, GuildGoto
      <3>4. \A j \in DOMAIN held[t] : Stored(With(records, k, held[t][k]), held[t][j], j)
        BY <2>a, <3>1, <3>2, SavedCopies
      <3> QED BY <2>0, <3>2, <3>3, <3>4 DEF Current, Saving
    <2>6. CASE ReplaceFile(t) /\ todo[t] = << >>
      <3>1. guildPc'[t] = "delete"
        BY <2>6, <2>a DEF ReplaceFile, GuildGoto
      <3> QED BY <2>0, <3>1 DEF Current, Saving
    <2>7. CASE EnforceLimit(t)
      <3>1. guildPc'[t] = "delete"
        BY <2>7, <2>a DEF EnforceLimit, GuildGoto
      <3> QED BY <2>0, <3>1 DEF Current, Saving
    <2>8. CASE DeleteRecord(t)
      <3>1. CASE victims[t] = << >>
        <4>1. guildPc'[t] = "idle"
          BY <2>8, <2>a, <3>1 DEF DeleteRecord, GuildGoto
        <4> QED BY <2>0, <4>1 DEF Current, Saving
      <3>2. CASE victims[t] # << >> /\ backend = "local" /\ Head(victims[t]) \in DOMAIN records
        <4>1. /\ guildPc'[t] = "replace" /\ payload'[t] = Without(Head(victims[t]))
              /\ todo' = todo /\ victims' = victims /\ records' = records
          BY <2>8, <2>a, <3>2 DEF DeleteRecord, GuildGoto
        <4>2. todo[t] = << >>
          BY <2>8 DEF DeleteRecord, GuildPhases
        <4>3. Current(t)'
          BY <4>1, <4>2 DEF Current, Saving, Without
        <4> QED BY <2>0, <4>3
      <3>3. CASE victims[t] # << >> /\ ~(backend = "local" /\ Head(victims[t]) \in DOMAIN records)
        <4>1. guildPc'[t] = "delete"
          BY <2>8, <2>a, <3>3 DEF DeleteRecord, GuildGoto
        <4> QED BY <2>0, <4>1 DEF Current, Saving
      <3> QED BY <3>1, <3>2, <3>3
    <2>9. CASE StoreRaises(t)
      <3>1. guildPc'[t] = "idle"
        BY <2>9, <2>a DEF StoreRaises, GuildGoto
      <3> QED BY <2>0, <3>1 DEF Current, Saving
    <2> QED BY <1>3, <2>1, <2>2, <2>3, <2>4, <2>5, <2>6, <2>7, <2>8, <2>9
  <1> QED BY <1>1, <1>2, <1>3, GuildNextCases

(* The number stored after one record was saved or deleted. *)
LEMMA StoredCountAfter ==
  ASSUME NEW m, NEW k, NEW r
  PROVE  /\ StoredCount(With(m, k, r), k) = r.count
         /\ StoredCount([j \in DOMAIN m \ {k} |-> m[j]], k) = 0
  BY DEF StoredCount, With

(* After a deletion the others are as they were. *)
LEMMA StoredCountOther ==
  ASSUME NEW m, NEW k, NEW j, j # k
  PROVE  StoredCount([i \in DOMAIN m \ {k} |-> m[i]], j) = StoredCount(m, j)
  BY DEF StoredCount

(* What the books still owe to the call t. *)
Owed(t, k) == IF guildPc[t] = "idle" THEN 0 ELSE Occurs(todo[t], k)

(* The books stay balanced. *)
LEMMA LedgerStep ==
  ASSUME GuildTypeOK, GuildPhases, Alone, CopiesCurrent, Ledger, [GuildNext]_guildVars
  PROVE  Ledger'
  <1>t. /\ records \in RecordMaps /\ DOMAIN guildPc = Publishers /\ todo \in [Publishers -> Seq(Keys)]
        /\ reported \in [Keys -> Nat] /\ forgotten \in [Keys -> Nat] /\ lost \in [Keys -> Nat]
    BY DEF GuildTypeOK
  <1>1. CASE Clear
    <2> SUFFICES ASSUME ~overlapped', NEW j \in Keys
                 PROVE  Books(j)' = reported'[j] /\ Quiet'
      BY DEF Ledger, Quiet
    <2>1. Quiet /\ ~overlapped /\ Quiet'
      BY <1>1 DEF Clear, Quiet
    <2>2. Books(j) = reported[j]
      BY <2>1 DEF Ledger
    <2>3. StoredCount(records', j) = 0
      BY <1>1, NoRecordsIsMap DEF Clear, StoredCount
    <2>4. forgotten'[j] = forgotten[j] + StoredCount(records, j)
          /\ lost' = lost /\ reported' = reported
      BY <1>1, <1>t DEF Clear
    <2> QED BY <1>t, <2>1, <2>2, <2>3, <2>4, StoredCountType DEF Books
  <1>2. CASE UNCHANGED guildVars
    BY <1>2 DEF guildVars, Ledger, Books, Quiet, StoredCount
  <1>3. ASSUME NEW t \in Publishers,
               \/ \E contexts \in Publications : Publish(t, contexts)
               \/ NextContext(t) \/ SaveRecord(t) \/ ReplaceFile(t)
               \/ EnforceLimit(t) \/ DeleteRecord(t) \/ StoreRaises(t)
        PROVE  Ledger'
    <2> SUFFICES ASSUME ~overlapped', NEW j \in Keys
                 PROVE  /\ Quiet' => Books(j)' = reported'[j]
                        /\ \A u \in Publishers : guildPc'[u] # "idle" =>
                               Books(j)' + Occurs(todo'[u], j) = reported'[j]
      BY DEF Ledger
    <2>a. /\ ~overlapped /\ \A u \in Publishers \ {t} : guildPc[u] = "idle" /\ guildPc'[u] = "idle"
      <3>1. Solo'
        BY DEF Solo
      <3> QED BY <1>3, <3>1, OthersIdle
    <2>b. /\ StoredCount(records, j) \in Nat /\ forgotten[j] \in Nat /\ lost[j] \in Nat
          /\ reported[j] \in Nat /\ Occurs(todo[t], j) \in Nat
      BY <1>t, StoredCountType, OccursType
    <2>c. Books(j) + Owed(t, j) = reported[j]
      <3>1. CASE guildPc[t] = "idle"
        <4>1. Quiet
          BY <2>a, <3>1 DEF Quiet
        <4>2. Books(j) = reported[j] /\ Owed(t, j) = 0
          BY <2>a, <3>1, <4>1 DEF Ledger, Owed
        <4> QED BY <2>b, <4>2
      <3>2. CASE guildPc[t] # "idle"
        BY <2>a, <3>2 DEF Ledger, Owed
      <3> QED BY <3>1, <3>2
    <2>d. SUFFICES Books(j)' + Owed(t, j)' = reported'[j] /\ Books(j)' \in Nat
      <3>1. Quiet' => Owed(t, j)' = 0
        BY DEF Quiet, Owed
      <3>2. guildPc'[t] # "idle" => Owed(t, j)' = Occurs(todo'[t], j)
        BY DEF Owed
      <3> QED BY <2>a, <2>d, <3>1, <3>2
    <2>e. PICK k : k = Head(todo[t])
      OBVIOUS
    <2>1. ASSUME records' = records, forgotten' = forgotten, lost' = lost, reported' = reported,
                 todo'[t] = todo[t], guildPc[t] # "idle",
                 guildPc'[t] # "idle" \/ todo[t] = << >>
          PROVE  Books(j)' + Owed(t, j)' = reported'[j] /\ Books(j)' \in Nat
      <3>1. Books(j)' = Books(j) /\ Books(j) \in Nat
        BY <2>1, <2>b DEF Books
      <3>2. Owed(t, j)' = Owed(t, j)
        BY <2>1, OccursTail DEF Owed
      <3> QED BY <2>1, <2>c, <3>1, <3>2
    <2>2. CASE \E contexts \in Publications : Publish(t, contexts)
      <3>1. PICK contexts \in Publications : Publish(t, contexts)
        BY <2>2
      <3>2. /\ guildPc[t] = "idle" /\ guildPc'[t] = "next" /\ todo'[t] = contexts
            /\ records' = records /\ forgotten' = forgotten /\ lost' = lost
            /\ reported'[j] = reported[j] + Occurs(contexts, j)
        BY <1>t, <3>1 DEF Publish, GuildGoto
      <3>3. Occurs(contexts, j) \in Nat
        BY GuildConstants, OccursType
      <3> QED BY <2>b, <2>c, <3>2, <3>3 DEF Books, Owed
    <2>3. CASE NextContext(t)
      <3>1. /\ guildPc[t] = "next" /\ guildPc'[t] \in {"limit", "save"}
            /\ records' = records /\ forgotten' = forgotten /\ lost' = lost
            /\ reported' = reported /\ todo' = todo
        BY <2>3, <1>t DEF NextContext, GuildGoto
      <3> QED BY <2>1, <3>1
    <2>5. ASSUME Saving(t), records' = With(records, k, held[t][k]), guildPc'[t] # "idle",
                 todo'[t] = Tail(todo[t]), forgotten' = forgotten, lost' = lost,
                 reported' = reported
          PROVE  Books(j)' + Owed(t, j)' = reported'[j] /\ Books(j)' \in Nat
      <3>1. held[t][k].count = StoredCount(records, k) + 1
        BY <2>5, <2>a, <2>e DEF CopiesCurrent, Solo
      <3>2. StoredCount(records', j) = StoredCount(records, j) + (IF k = j THEN 1 ELSE 0)
        <4>1. CASE j = k
          <5>1. StoredCount(With(records, k, held[t][k]), k) = held[t][k].count
            BY StoredCountAfter
          <5> QED BY <2>5, <3>1, <4>1, <5>1
        <4>2. CASE j # k
          <5>1. StoredCount(With(records, k, held[t][k]), j) = StoredCount(records, j)
            BY <4>2 DEF StoredCount, With
          <5> QED BY <2>5, <2>b, <4>2, <5>1
        <4> QED BY <4>1, <4>2
      <3>3. todo[t] # << >> /\ todo[t] \in Seq(Keys) /\ guildPc[t] # "idle"
        BY <1>t, <2>5 DEF GuildPhases, Saving
      <3>4. /\ Occurs(todo[t], j) = Occurs(Tail(todo[t]), j) + (IF k = j THEN 1 ELSE 0)
            /\ Occurs(Tail(todo[t]), j) \in Nat
        BY <2>e, <3>3, OccursTail, OccursType, KeySeq
      <3>5. PICK d \in {0, 1} : d = IF k = j THEN 1 ELSE 0
        OBVIOUS
      <3>6. /\ StoredCount(records', j) = StoredCount(records, j) + d
            /\ Occurs(todo[t], j) = Occurs(Tail(todo[t]), j) + d
        BY ONLY <3>2, <3>4, <3>5
      <3>7. /\ Owed(t, j) = Occurs(todo[t], j)
            /\ Owed(t, j)' = Occurs(Tail(todo[t]), j)
        BY <2>5, <3>3 DEF Owed
      <3> QED BY <2>5, <2>b, <2>c, <3>4, <3>6, <3>7 DEF Books
    <2>6. CASE SaveRecord(t)
      <3>1. Saving(t) /\ guildPc[t] # "idle"
        BY <2>6 DEF SaveRecord, Saving
      <3>2. CASE backend = "memory"
        <4>1. /\ records' = With(records, k, held[t][k]) /\ guildPc'[t] = "next"
              /\ todo'[t] = Tail(todo[t])
              /\ forgotten' = forgotten /\ lost' = lost /\ reported' = reported
          BY <2>6, <2>e, <1>t, <3>2 DEF SaveRecord, GuildGoto, history
        <4> QED BY <2>5, <3>1, <4>1
      <3>3. CASE backend # "memory"
        <4>1. /\ records' = records /\ guildPc'[t] = "replace" /\ todo' = todo
              /\ forgotten' = forgotten /\ lost' = lost /\ reported' = reported
          BY <2>6, <1>t, <3>3 DEF SaveRecord, GuildGoto, history
        <4> QED BY <2>1, <3>1, <4>1
      <3> QED BY <3>2, <3>3
    <2>7. CASE ReplaceFile(t) /\ todo[t] # << >>
      <3>1. Saving(t) /\ payload[t] = With(records, k, held[t][k])
        BY <2>7, <2>a, <2>e DEF ReplaceFile, Saving, CopiesCurrent, Solo
      <3>2. /\ records' = payload[t] /\ guildPc'[t] = "next" /\ todo'[t] = Tail(todo[t])
            /\ forgotten' = forgotten /\ lost' = lost /\ reported' = reported
        BY <2>7, <1>t DEF ReplaceFile, GuildGoto
      <3> QED BY <2>5, <3>1, <3>2
    <2>8. ASSUME NEW v, records' = Without(v), guildPc[t] # "idle", guildPc'[t] # "idle",
                 todo'[t] = todo[t], lost' = lost, reported' = reported,
                 forgotten' = [forgotten EXCEPT ![v] = @ + StoredCount(records, v)]
          PROVE  Books(j)' + Owed(t, j)' = reported'[j] /\ Books(j)' \in Nat
      <3>0. Owed(t, j)' = Owed(t, j) /\ Owed(t, j) = Occurs(todo[t], j)
        BY <2>8 DEF Owed
      <3>1. StoredCount(records', j) + forgotten'[j] = StoredCount(records, j) + forgotten[j]
            /\ StoredCount(records', j) \in Nat /\ forgotten'[j] \in Nat
        <4>1. CASE j = v
          <5>1. StoredCount(records', j) = 0
            BY <2>8, <4>1, StoredCountAfter DEF Without
          <5>2. forgotten'[j] = forgotten[j] + StoredCount(records, j)
            BY <1>t, <2>8, <4>1
          <5> QED BY <2>b, <5>1, <5>2
        <4>2. CASE j # v
          <5>1. StoredCount(records', j) = StoredCount(records, j)
            BY <2>8, <4>2, StoredCountOther DEF Without
          <5>2. forgotten'[j] = forgotten[j]
            BY <1>t, <2>8, <4>2
          <5> QED BY <2>b, <5>1, <5>2
        <4> QED BY <4>1, <4>2
      <3> QED BY <2>8, <2>b, <2>c, <3>0, <3>1 DEF Books
    <2>9. CASE ReplaceFile(t) /\ todo[t] = << >>
      <3>1. payload[t] = Without(Head(victims[t])) /\ guildPc[t] = "replace"
        BY <2>9, <2>a DEF ReplaceFile, CopiesCurrent, Solo
      <3>2. /\ records' = payload[t] /\ guildPc'[t] = "delete" /\ todo' = todo
            /\ forgotten' = [forgotten EXCEPT ![Head(victims[t])] =
                                 @ + StoredCount(records, Head(victims[t]))]
            /\ lost' = lost /\ reported' = reported
        BY <2>9, <1>t DEF ReplaceFile, GuildGoto, Forget
      <3> QED BY <2>8, <3>1, <3>2
    <2>10. CASE EnforceLimit(t)
      <3>1. /\ guildPc[t] = "limit" /\ guildPc'[t] = "delete" /\ records' = records /\ todo' = todo
            /\ forgotten' = forgotten /\ lost' = lost /\ reported' = reported
        BY <2>10, <1>t DEF EnforceLimit, GuildGoto, history
      <3> QED BY <2>1, <3>1
    <2>11. CASE DeleteRecord(t)
      <3>0. /\ guildPc[t] = "delete" /\ todo[t] = << >> /\ todo' = todo
            /\ lost' = lost /\ reported' = reported
        BY <2>11, <1>t DEF DeleteRecord, GuildPhases
      <3>2. CASE victims[t] = << >> \/ (backend = "local" /\ Head(victims[t]) \in DOMAIN records)
        <4>1. records' = records /\ forgotten' = forgotten
          BY <2>11, <3>2 DEF DeleteRecord
        <4> QED BY <2>1, <3>0, <4>1
      <3>3. CASE victims[t] # << >> /\ ~(backend = "local" /\ Head(victims[t]) \in DOMAIN records)
        <4>1. /\ records' = Without(Head(victims[t])) /\ guildPc' = guildPc
              /\ forgotten' = [forgotten EXCEPT ![Head(victims[t])] =
                                   @ + StoredCount(records, Head(victims[t]))]
          BY <2>11, <3>3 DEF DeleteRecord, Forget
        <4> QED BY <2>8, <3>0, <4>1
      <3> QED BY <3>2, <3>3
    <2>12. CASE StoreRaises(t)
      <3>1. /\ guildPc[t] # "idle" /\ guildPc'[t] = "idle" /\ records' = records
            /\ forgotten' = forgotten /\ lost'[j] = lost[j] + Occurs(todo[t], j)
            /\ reported' = reported
        BY <2>12, <1>t DEF StoreRaises, GuildGoto
      <3> QED BY <2>b, <2>c, <3>1 DEF Books, Owed
    <2> QED BY <1>3, <2>2, <2>3, <2>6, <2>7, <2>9, <2>10, <2>11, <2>12
  <1> QED BY <1>1, <1>2, <1>3, GuildNextCases

(* The elements of v are those of T, a part of S, each once. *)
Enumerates(v, n, S, T) ==
    /\ v \in [1..n -> S]
    /\ \A i, j \in 1..n : i < j => v[i] # v[j]
    /\ T = {v[i] : i \in 1..n}

(* Different elements of a sequence are as many as it is long. *)
LEMMA DistinctImage ==
  ASSUME NEW n \in Nat, NEW S, NEW v, NEW T, Enumerates(v, n, S, T)
  PROVE  Cardinality(T) = n
  <1> USE DEF Enumerates
  <1>1. v \in [1..n -> T]
    OBVIOUS
  <1>2. \A i, j \in 1..n : v[i] = v[j] => i = j
    <2> SUFFICES ASSUME NEW i \in 1..n, NEW j \in 1..n, i # j PROVE v[i] # v[j]
      OBVIOUS
    <2>1. i < j \/ j < i
      OBVIOUS
    <2> QED BY <2>1
  <1>3. \A e \in T : \E i \in 1..n : v[i] = e
    OBVIOUS
  <1>4. v \in Bijection(1..n, T)
    BY <1>1, <1>2, <1>3 DEF Bijection, Injection, Surjection, IsInjective
  <1>5. ExistsBijection(1..n, T)
    BY <1>4 DEF ExistsBijection
  <1> QED BY <1>5, FS_CountingElements

(* Without the victims the store is within its limit. *)
LEMMA TrimLeaves ==
  ASSUME records \in RecordMaps, MaxRecords > 0, NEW v \in Oldest(Excess)
  PROVE  Cardinality(DOMAIN records \ {v[i] : i \in 1..Excess}) <= MaxRecords
  <1>1. PICK n, D : n = Excess /\ D = DOMAIN records
    OBVIOUS
  <1>t. PICK T : T = {v[i] : i \in 1..n}
    OBVIOUS
  <1>2. /\ n \in Nat /\ Cardinality(D) \in Nat /\ IsFiniteSet(D)
        /\ Cardinality(D) - n <= MaxRecords
    BY <1>1, ExcessType, MapTypes
  <1>3. v \in [1..n -> D] /\ \A i, j \in 1..n : i < j => v[i] # v[j]
    BY <1>1 DEF Oldest
  <1>4. Cardinality(T) = n
    <2>1. Enumerates(v, n, D, T)
      BY <1>3, <1>t DEF Enumerates
    <2> QED BY <1>2, <2>1, DistinctImage
  <1>5. D \cap T = T
    BY <1>3, <1>t
  <1>6. Cardinality(D \ T) = Cardinality(D) - Cardinality(D \cap T)
    BY <1>2, FS_Difference
  <1>7. Cardinality(D \ T) <= MaxRecords
    BY <1>2, <1>4, <1>5, <1>6
  <1> QED BY <1>1, <1>t, <1>7

(* A part of a store that is within the limit is within the limit. *)
LEMMA FewerRecords ==
  ASSUME NEW A, NEW C, A \subseteq C, IsFiniteSet(C), Cardinality(C) <= MaxRecords
  PROVE  Cardinality(A) <= MaxRecords
  <1>1. Cardinality(A) <= Cardinality(C) /\ IsFiniteSet(A)
    BY FS_Subset
  <1>2. Cardinality(A) \in Nat /\ Cardinality(C) \in Nat
    BY <1>1, FS_CardinalityType
  <1> QED BY <1>1, <1>2, GuildConstants

(* A deletion takes the record and its mark away together. *)
LEMMA DeletionKeepsCover ==
  ASSUME GuildTypeOK, NEW t \in Publishers, victims[t] # << >>,
         victims' = [victims EXCEPT ![t] = Tail(@)],
         DOMAIN records' = DOMAIN records \ {Head(victims[t])}
  PROVE  DOMAIN records' \ Doomed' \subseteq DOMAIN records \ Doomed
  <1> SUFFICES ASSUME NEW x \in DOMAIN records, x # Head(victims[t]), x \in Doomed
               PROVE  x \in Doomed'
    OBVIOUS
  <1>0. PICK u \in Publishers : \E i \in 1..Len(victims[u]) : victims[u][i] = x
    BY DEF Doomed
  <1>1. PICK i \in 1..Len(victims[u]) : victims[u][i] = x
    BY <1>0
  <1>2. x \in Keys
    BY DEF Doomed
  <1>3. victims \in [Publishers -> Seq(Keys)]
    BY DEF GuildTypeOK
  <1>4. CASE u = t
    <2>1. i # 1
      BY <1>1, <1>3, <1>4, KeySeq
    <2>2. i - 1 \in 1..Len(Tail(victims[t])) /\ Tail(victims[t])[i - 1] = x
      BY <1>1, <1>3, <1>4, <2>1
    <2>3. victims'[t] = Tail(victims[t])
      BY <1>3
    <2> QED BY <1>2, <2>2, <2>3 DEF Doomed
  <1>5. CASE u # t
    <2>1. victims'[u] = victims[u]
      BY <1>3, <1>5
    <2> QED BY <1>1, <1>2, <2>1 DEF Doomed
  <1> QED BY <1>4, <1>5

(* Until the last trim has looked, or enough is marked for deletion. *)
LEMMA TrimCoversStep ==
  ASSUME GuildTypeOK, GuildPhases, Alone, CopiesCurrent, TrimCovers, [GuildNext]_guildVars
  PROVE  TrimCovers'
  <1>a. /\ records \in RecordMaps /\ DOMAIN guildPc = Publishers /\ faults \in Nat
        /\ victims \in [Publishers -> Seq(Keys)] /\ todo \in [Publishers -> Seq(Keys)]
        /\ held \in [Publishers -> RecordMaps]
    BY DEF GuildTypeOK
  <1> SUFFICES ASSUME ~disturbed', MaxRecords > 0,
                      \A t \in Publishers : ~WillTrim(t)'
               PROVE  Cardinality(DOMAIN records' \ Doomed') <= MaxRecords
    BY DEF TrimCovers
  <1>b. IsFiniteSet(DOMAIN records \ Doomed)
    BY <1>a, MapTypes, FS_Difference
  <1>1. CASE Clear
    <2>1. DOMAIN records' = {}
      BY <1>1, NoRecordsIsMap DEF Clear
    <2>2. DOMAIN records' \ Doomed' = {}
      BY <2>1
    <2>3. Cardinality(DOMAIN records' \ Doomed') = 0 /\ MaxRecords \in Int
      BY <2>2, FS_EmptySet, GuildConstants
    <2> QED BY <2>3
  <1>2. CASE UNCHANGED guildVars
    <2>1. Doomed' = Doomed /\ \A t \in Publishers : WillTrim(t)' <=> WillTrim(t)
      BY <1>2 DEF guildVars, Doomed, WillTrim, Saving
    <2> QED BY <1>2, <2>1 DEF guildVars, TrimCovers
  <1>3. ASSUME NEW t \in Publishers,
               \/ \E contexts \in Publications : Publish(t, contexts)
               \/ NextContext(t) \/ SaveRecord(t) \/ ReplaceFile(t)
               \/ EnforceLimit(t) \/ DeleteRecord(t) \/ StoreRaises(t)
        PROVE  Cardinality(DOMAIN records' \ Doomed') <= MaxRecords
    <2>a. \A u \in Publishers \ {t} : ~WillTrim(u)
      BY <1>3, OthersUntouched DEF WillTrim, Saving
    <2>b. ASSUME ~WillTrim(t), disturbed' = disturbed
          PROVE  Cardinality(DOMAIN records \ Doomed) <= MaxRecords
      BY <2>a, <2>b DEF TrimCovers
    <2>c. ASSUME guildPc'[t] \in {"next", "limit", "save"} PROVE FALSE
      BY <2>c DEF WillTrim, Saving
    <2>1. CASE \E contexts \in Publications : Publish(t, contexts)
      BY <1>a, <2>1, <2>c DEF Publish, GuildGoto
    <2>2. CASE NextContext(t)
      BY <1>a, <2>2, <2>c DEF NextContext, GuildGoto
    <2>3. CASE SaveRecord(t)
      <3>1. todo[t] # << >>
        BY <2>3 DEF SaveRecord, GuildPhases, Saving
      <3>2. \/ guildPc'[t] = "next"
            \/ guildPc'[t] = "replace" /\ todo' = todo
        BY <1>a, <2>3 DEF SaveRecord, GuildGoto
      <3>3. WillTrim(t)'
        BY <3>1, <3>2 DEF WillTrim, Saving
      <3> QED BY <3>3
    <2>4. CASE ReplaceFile(t) /\ todo[t] # << >>
      BY <1>a, <2>4, <2>c DEF ReplaceFile, GuildGoto
    <2>5. CASE ReplaceFile(t) /\ todo[t] = << >>
      <3>1. /\ records' = payload[t] /\ victims' = [victims EXCEPT ![t] = Tail(@)]
            /\ disturbed' = disturbed /\ guildPc[t] = "replace"
        BY <2>5 DEF ReplaceFile
      <3>2. victims[t] # << >>
        BY <2>5, <3>1 DEF GuildPhases
      <3>3. Solo
        BY <3>1 DEF Solo
      <3>4. payload[t] = Without(Head(victims[t]))
        BY <2>5, <3>1, <3>3 DEF CopiesCurrent
      <3>5. DOMAIN records' = DOMAIN records \ {Head(victims[t])}
        BY <3>1, <3>4 DEF Without
      <3>6. DOMAIN records' \ Doomed' \subseteq DOMAIN records \ Doomed
        BY <3>1, <3>2, <3>5, DeletionKeepsCover
      <3>7. ~WillTrim(t)
        BY <2>5, <3>1 DEF WillTrim, Saving
      <3> QED BY <1>b, <2>b, <3>1, <3>6, <3>7, FewerRecords
    <2>6. CASE EnforceLimit(t)
      <3>1. PICK v \in Oldest(Excess) : victims' = [victims EXCEPT ![t] = v]
        BY <2>6 DEF EnforceLimit
      <3>2. v \in Seq(Keys) /\ Len(v) = Excess
        BY <1>a, <3>1, OldestType
      <3>3. victims'[t] = v /\ records' = records
        BY <1>a, <2>6, <3>1 DEF EnforceLimit
      <3>4. \A i \in 1..Excess : v[i] \in Doomed'
        BY <3>2, <3>3 DEF Doomed
      <3>5. DOMAIN records' \ Doomed' \subseteq DOMAIN records \ {v[i] : i \in 1..Excess}
        BY <3>3, <3>4
      <3>6. Cardinality(DOMAIN records \ {v[i] : i \in 1..Excess}) <= MaxRecords
        BY <1>a, <3>1, TrimLeaves
      <3>7. IsFiniteSet(DOMAIN records \ {v[i] : i \in 1..Excess})
        BY <1>a, MapTypes, FS_Difference
      <3> QED BY <3>5, <3>6, <3>7, FewerRecords
    <2>7. CASE DeleteRecord(t)
      <3>0. /\ guildPc[t] = "delete" /\ todo[t] = << >>
            /\ disturbed' = disturbed
        BY <2>7 DEF DeleteRecord, GuildPhases
      <3>1. Cardinality(DOMAIN records \ Doomed) <= MaxRecords
        BY <2>b, <3>0 DEF WillTrim, Saving
      <3>2. CASE victims[t] = << >> \/ (backend = "local" /\ Head(victims[t]) \in DOMAIN records)
        <4>1. records' = records /\ victims' = victims
          BY <2>7, <3>2 DEF DeleteRecord
        <4> QED BY <3>1, <4>1 DEF Doomed
      <3>3. CASE victims[t] # << >> /\ ~(backend = "local" /\ Head(victims[t]) \in DOMAIN records)
        <4>1. records' = Without(Head(victims[t])) /\ victims' = [victims EXCEPT ![t] = Tail(@)]
          BY <2>7, <3>3 DEF DeleteRecord
        <4>2. DOMAIN records' = DOMAIN records \ {Head(victims[t])}
          BY <4>1 DEF Without
        <4>3. DOMAIN records' \ Doomed' \subseteq DOMAIN records \ Doomed
          BY <3>3, <4>1, <4>2, DeletionKeepsCover
        <4> QED BY <1>b, <3>1, <4>3, FewerRecords
      <3> QED BY <3>2, <3>3
    <2>8. CASE StoreRaises(t)
      BY <1>a, <2>8 DEF StoreRaises
    <2> QED BY <1>3, <2>1, <2>2, <2>3, <2>4, <2>5, <2>6, <2>7, <2>8
  <1> QED BY <1>1, <1>2, <1>3, GuildNextCases

(* All of it at the start. *)
LEMMA GuildInitInv == GuildInit => GuildInv
  <1> SUFFICES ASSUME GuildInit PROVE GuildInv
    OBVIOUS
  <1> USE DEF GuildInit
  <1>1. GuildTypeOK
    <2>1. << >> \in Seq(Keys) /\ NoRecords \in RecordMaps
      BY NoRecordsIsMap
    <2>2. todo \in [Publishers -> Seq(Keys)] /\ victims \in [Publishers -> Seq(Keys)]
      BY <2>1
    <2>3. held \in [Publishers -> RecordMaps] /\ payload \in [Publishers -> RecordMaps]
      BY <2>1
    <2> QED BY <2>1, <2>2, <2>3 DEF GuildTypeOK
  <1>2. GuildPhases
    BY DEF GuildPhases, Saving
  <1>3. NothingInvented
    BY NoRecordsIsMap DEF NothingInvented, Backed
  <1>4. Alone
    BY DEF Alone
  <1>5. CopiesCurrent
    BY DEF CopiesCurrent, Saving
  <1>6. Ledger
    <2>1. \A k \in Keys : StoredCount(records, k) = 0
      BY NoRecordsIsMap DEF StoredCount
    <2> QED BY <2>1 DEF Ledger, Books
  <1>7. TrimCovers
    <2>1. DOMAIN records \ Doomed = {}
      BY NoRecordsIsMap
    <2>2. Cardinality(DOMAIN records \ Doomed) = 0 /\ MaxRecords \in Int
      BY <2>1, FS_EmptySet, GuildConstants
    <2> QED BY <2>2 DEF TrimCovers
  <1> QED BY <1>1, <1>2, <1>3, <1>4, <1>5, <1>6, <1>7 DEF GuildInv

(* Every store call, failure and clear keeps all of it. *)
LEMMA GuildInvStep == GuildInv /\ [GuildNext]_guildVars => GuildInv'
  <1> SUFFICES ASSUME GuildInv, [GuildNext]_guildVars PROVE GuildInv'
    OBVIOUS
  <1>1. /\ GuildTypeOK /\ GuildPhases /\ NothingInvented
        /\ Alone /\ CopiesCurrent /\ Ledger /\ TrimCovers
    BY DEF GuildInv
  <1>2. GuildTypeOK' /\ GuildPhases'
    BY <1>1, GuildTypeStep, GuildPhasesStep
  <1>3. NothingInvented'
    BY <1>1, NothingInventedStep
  <1>4. Alone' /\ CopiesCurrent'
    BY <1>1, AloneStep, CopiesCurrentStep
  <1>5. Ledger'
    BY <1>1, LedgerStep
  <1>6. TrimCovers'
    BY <1>1, TrimCoversStep
  <1> QED BY <1>2, <1>3, <1>4, <1>5, <1>6 DEF GuildInv

(* "Records with the same fingerprint accumulate failure counts": while     *)
(* calls do not overlap, every context reported to them is counted by its   *)
(* record, by a record that was evicted or cleared, or was given up when a  *)
(* store call raised, whatever is repeated in a call and created again; and *)
(* no interleaving of callers and processes over either store, with stale   *)
(* copies written back, counts an outcome that nobody published.            *)
THEOREM OutcomesCountedTheorem == GuildSpec => []OutcomesCounted
  <1>1. GuildInv => OutcomesCounted
    <2> SUFFICES ASSUME GuildInv, NEW k \in Keys
                 PROVE  /\ StoredCount(records, k) <= credited[k]
                        /\ ~overlapped /\ Quiet => Books(k) = reported[k]
      BY DEF OutcomesCounted, Books
    <2>1. StoredCount(records, k) <= credited[k]
      BY DEF GuildInv, GuildTypeOK, NothingInvented, Backed, StoredCount
    <2> QED BY <2>1 DEF GuildInv, Ledger
  <1> QED BY <1>1, GuildInitInv, GuildInvStep, PTL DEF GuildSpec

(* "prevent unbounded growth by enforcing a max-records limit": over either *)
(* store, a call that ran alone and did not raise leaves the store within   *)
(* its limit, whatever calls that overlapped or raised left there before.   *)
THEOREM LimitTheorem == GuildSpec => []LimitWhenQuiet
  <1>1. GuildInv => LimitWhenQuiet
    <2> SUFFICES ASSUME GuildInv, Quiet, ~disturbed, MaxRecords > 0
                 PROVE  Cardinality(DOMAIN records) <= MaxRecords
      BY DEF LimitWhenQuiet
    <2>1. \A t \in Publishers : ~WillTrim(t)
      BY DEF Quiet, WillTrim, Saving
    <2>2. Cardinality(DOMAIN records \ Doomed) <= MaxRecords
      BY <2>1 DEF GuildInv, TrimCovers
    <2>3. Doomed = {}
      <3>1. \A t \in Publishers : victims[t] = << >>
        BY DEF GuildInv, GuildPhases, Quiet
      <3> QED BY <3>1 DEF Doomed
    <2>4. DOMAIN records \ Doomed = DOMAIN records
      BY <2>3
    <2> QED BY <2>2, <2>4
  <1> QED BY <1>1, GuildInitInv, GuildInvStep, PTL DEF GuildSpec

-----------------------------------------------------------------------------
(* ControlPlaneApi, for any number of clients, commands and tasks, any      *)
(* capacity of the queue and any capability configuration.                  *)

(* The capabilities a task can name. *)
Configured == UNION {{e.name : e \in ToSet(cf.entries)} : cf \in Configs}
LeftoverNames == {task.cap : task \in Leftovers}
CapNames == Configured \cup LeftoverNames \cup {"unknown", "none"}

TaskRecords == [status : TaskStatuses, cap : CapNames] \cup {NoRecord}

Requests ==
    [op : {"none", "inline", "submit", "run", "approve", "cancel", "get", "health"}, id : Nat,
     pc : {"done", "enqueue", "load", "gate", "execute", "decide"},
     copy : TaskStatuses \cup {"absent"}, run : BOOLEAN, code : Nat,
     body : TaskStatuses \cup {"absent", "none", "room", "full"},
     saved : BOOLEAN, queued : BOOLEAN]

ApiTypeOK ==
    /\ tasks \in [RequestIds -> TaskRecords]
    /\ queue \in Seq(Nat)
    /\ req \in [Clients -> Requests]
    /\ config \in Configs

Present(store, i) == i \in RequestIds /\ store[i].status # "absent"

(* What is known of a request between its steps, of the store it works on.  *)
InProgress(c, r, store) ==
    /\ r.pc # "done" \/ r.saved = TRUE => Present(store, r.id)
    /\ r.op = "submit" => c \notin Shells
    /\ r.pc = "enqueue" =>
           r.op \in {"submit", "approve"} /\ r.saved = TRUE /\ r.queued = FALSE /\ r.run = FALSE
    /\ r.pc \in {"load", "gate", "execute"} =>
           r.op \in {"inline", "run", "approve"} /\ r.queued = FALSE /\ r.run = TRUE
    /\ r.pc \in {"load", "gate", "execute"} /\ r.op = "approve" => r.saved = TRUE
    /\ r.pc \in {"load", "gate"} /\ r.op = "run" => r.saved = FALSE
    /\ r.pc = "decide" => r.op \in {"approve", "cancel"} /\ r.saved = FALSE /\ r.queued = FALSE

(* What an answer says of the request's own steps. *)
Told(c, r, store, names) ==
    r.pc = "done" =>
        /\ r.op = "submit" =>
               /\ r.queued = TRUE <=> r.code = 202
               /\ r.saved = TRUE <=> r.code \in {202, 429}
        /\ r.op = "run" /\ r.code \in {2, 400, 404} => r.saved = FALSE
        /\ r.run = TRUE /\ r.code \in {0, 200} => r.body \notin Executable
        /\ r.op = "health" /\ r.body = "full" => r.code = 503
        /\ r.op = "cancel" => (r.saved = TRUE <=> r.code \in {0, 200})
        /\ r.op = "approve" =>
               /\ r.code \in {0, 200} => r.saved = TRUE
               /\ r.code = 200 => (r.queued = TRUE <=> r.run = FALSE)
               /\ r.code \in {2, 400, 404} /\ r.saved = TRUE => store[r.id].cap \notin names

ApiInv ==
    /\ ApiTypeOK
    /\ \A c \in Clients :
           InProgress(c, req[c], tasks) /\ Told(c, req[c], tasks, registry.names)

(* A stored task stays and keeps its capability. *)
Extends(old, new) ==
    \A i \in RequestIds : old[i].status # "absent" =>
        new[i].status # "absent" /\ new[i].cap = old[i].cap

(* What others do leaves a request as it is. *)
LEMMA OthersKeepRequest ==
  ASSUME NEW c, NEW r \in Requests, NEW old, NEW new, NEW names, Extends(old, new),
         InProgress(c, r, old), Told(c, r, old, names)
  PROVE  InProgress(c, r, new) /\ Told(c, r, new, names)
  <1>1. InProgress(c, r, new)
    BY DEF InProgress, Present, Extends
  <1>2. r.saved = TRUE => r.id \in RequestIds /\ old[r.id].status # "absent"
    BY DEF InProgress, Present
  <1>3. r.saved = TRUE => new[r.id].cap = old[r.id].cap
    BY <1>2 DEF Extends
  <1>4. Told(c, r, new, names)
    BY <1>3 DEF Told
  <1> QED BY <1>1, <1>4

(* Saving a status neither loses a task nor changes its capability. *)
LEMMA SaveStatusExtends ==
  ASSUME NEW store \in [RequestIds -> TaskRecords], NEW i \in RequestIds, NEW s \in TaskStatuses
  PROVE  /\ [store EXCEPT ![i].status = s] \in [RequestIds -> TaskRecords]
         /\ Extends(store, [store EXCEPT ![i].status = s])
         /\ Present([store EXCEPT ![i].status = s], i)
         /\ [store EXCEPT ![i].status = s][i].cap = store[i].cap
  <1>1. s # "absent"
    BY DEF TaskStatuses
  <1>2. PICK new : new = [store EXCEPT ![i].status = s]
    OBVIOUS
  <1>3. PICK task : task = [status |-> s, cap |-> store[i].cap]
    OBVIOUS
  <1>4. task \in TaskRecords /\ task.status = s /\ task.cap = store[i].cap
    <2>1. store[i] \in TaskRecords
      OBVIOUS
    <2>2. store[i].cap \in CapNames
      <3>1. CASE store[i] \in [status : TaskStatuses, cap : CapNames]
        BY <3>1
      <3>2. CASE store[i] = NoRecord
        BY <3>2 DEF NoRecord, CapNames
      <3> QED BY <2>1, <3>1, <3>2 DEF TaskRecords
    <2> QED BY <1>3, <2>2 DEF TaskRecords
  <1>5. new = [store EXCEPT ![i] = task]
    <2>1. [store[i] EXCEPT !.status = s] = task
      <3>1. store[i] \in TaskRecords
        OBVIOUS
      <3>2. CASE store[i] \in [status : TaskStatuses, cap : CapNames]
        BY <1>3, <3>2
      <3>3. CASE store[i] = NoRecord
        BY <1>3, <3>3 DEF NoRecord
      <3> QED BY <3>1, <3>2, <3>3 DEF TaskRecords
    <2> QED BY <1>2, <2>1
  <1>6. new \in [RequestIds -> TaskRecords] /\ new[i] = task /\ \A j \in RequestIds \ {i} : new[j] = store[j]
    BY <1>4, <1>5
  <1>7. Extends(store, new) /\ Present(new, i) /\ new[i].cap = store[i].cap
    BY <1>1, <1>4, <1>6 DEF Extends, Present
  <1> QED BY <1>2, <1>6, <1>7

(* Nor does a new task. *)
LEMMA CreateExtends ==
  ASSUME NEW store \in [RequestIds -> TaskRecords], NEW i \in RequestIds, NEW cap \in CapNames,
         store[i] = NoRecord, NEW new, new = [store EXCEPT ![i] = [status |-> "pending", cap |-> cap]]
  PROVE  new \in [RequestIds -> TaskRecords] /\ Extends(store, new) /\ Present(new, i)
  <1>1. store[i].status = "absent"
    BY DEF NoRecord
  <1>2. [status |-> "pending", cap |-> cap] \in TaskRecords
    BY DEF TaskRecords, TaskStatuses
  <1>3. new \in [RequestIds -> TaskRecords]
    BY <1>2
  <1>4. new[i].status = "pending" /\ \A j \in RequestIds \ {i} : new[j] = store[j]
    OBVIOUS
  <1>5. Present(new, i)
    BY <1>4 DEF Present
  <1>6. Extends(store, new)
    BY <1>1, <1>4 DEF Extends
  <1> QED BY <1>3, <1>5, <1>6

(* A step of one client: its own request is as it should be, and the store  *)
(* only grows.                                                              *)
LEMMA OneRequest ==
  ASSUME ApiInv, NEW c \in Clients, NEW r \in Requests, req' = [req EXCEPT ![c] = r],
         NEW store \in [RequestIds -> TaskRecords], tasks' = store, Extends(tasks, store),
         InProgress(c, r, store), Told(c, r, store, registry.names),
         registry' = registry, config' = config, queue' \in Seq(Nat)
  PROVE  ApiInv'
  <1>1. ApiTypeOK'
    BY DEF ApiInv, ApiTypeOK
  <1>2. ASSUME NEW d \in Clients \ {c}
        PROVE  InProgress(d, req[d], store) /\ Told(d, req[d], store, registry.names)
    <2>1. req[d] \in Requests /\ InProgress(d, req[d], tasks) /\ Told(d, req[d], tasks, registry.names)
      BY DEF ApiInv, ApiTypeOK
    <2> QED BY <2>1, OthersKeepRequest
  <1>3. \A d \in Clients : req'[d] = IF d = c THEN r ELSE req[d]
    BY DEF ApiInv, ApiTypeOK
  <1>4. \A d \in Clients :
           InProgress(d, req'[d], store) /\ Told(d, req'[d], store, registry.names)
    BY <1>2, <1>3
  <1> QED BY <1>1, <1>4 DEF ApiInv

(* No change extends a store. *)
LEMMA SameExtends == \A store : Extends(store, store)
  BY DEF Extends

(* The answer to a request that did nothing. *)
Refusal(op, i, code) ==
    [op |-> op, id |-> i, pc |-> "done", copy |-> "absent", run |-> FALSE,
     code |-> code, body |-> "none", saved |-> FALSE, queued |-> FALSE]

RefusedOps == {"submit", "inline", "run", "cancel", "approve"}
RefusalCodes == {2, 400, 404}

(* A request that did nothing can be refused. *)
LEMMA RefusalTold ==
  ASSUME NEW c, NEW op \in RefusedOps, NEW i \in Nat,
         NEW code \in RefusalCodes, NEW store, NEW names, op = "submit" => c \notin Shells
  PROVE  /\ Refusal(op, i, code) \in Requests
         /\ InProgress(c, Refusal(op, i, code), store)
         /\ Told(c, Refusal(op, i, code), store, names)
  <1> DEFINE r == Refusal(op, i, code)
  <1>2. r \in Requests
    BY DEF Requests, Refusal, RefusedOps, RefusalCodes
  <1>3. /\ r.pc = "done" /\ r.run = FALSE /\ r.saved = FALSE /\ r.queued = FALSE
        /\ r.code = code /\ r.op = op
    BY DEF Refusal
  <1> HIDE DEF r
  <1>4. InProgress(c, r, store)
    BY <1>3 DEF InProgress
  <1>5. code \in {2, 400, 404} /\ op # "health"
    BY DEF RefusalCodes, RefusedOps
  <1>6. Told(c, r, store, names)
    BY <1>3, <1>5 DEF Told
  <1> QED BY <1>2, <1>4, <1>6 DEF r

(* The facts every step starts from. *)
LEMMA ApiFacts ==
  ASSUME ApiInv, NEW c \in Clients
  PROVE  /\ tasks \in [RequestIds -> TaskRecords] /\ queue \in Seq(Nat)
         /\ req[c] \in Requests
         /\ InProgress(c, req[c], tasks) /\ Told(c, req[c], tasks, registry.names)
         /\ \A i \in RequestIds : i \in Nat
  BY ApiConstants DEF ApiInv, ApiTypeOK, TaskRecords

(* A submission, an inline run and cond run. *)
LEMMA CreateTaskStep ==
  ASSUME ApiInv, NEW c \in Clients, NEW op \in {"inline", "submit"}, NEW i \in RequestIds,
         NEW cap \in Asked, NEW accepted, CreateTask(c, op, i, cap, accepted),
         op = "submit" => c \notin Shells
  PROVE  ApiInv'
  <1>0. tasks \in [RequestIds -> TaskRecords] /\ queue \in Seq(Nat) /\ i \in Nat
    BY ApiFacts
  <1>1. registry' = registry /\ config' = config /\ queue' = queue
    BY DEF CreateTask
  <1>2. CASE ~Valid(cap, accepted)
    <2>1. PICK r : r = [NoRequest EXCEPT !.op = op, !.id = 0, !.code = Code(c, 400)]
      OBVIOUS
    <2>2. req' = [req EXCEPT ![c] = r] /\ tasks' = tasks
      BY <1>2, <2>1 DEF CreateTask, Refuse, SetReq
    <2>3. Code(c, 400) \in RefusalCodes /\ Code(c, 400) \in Nat /\ op \in RefusedOps
      BY DEF Code, RefusalCodes, RefusedOps
    <2>4. r = Refusal(op, 0, Code(c, 400))
      <3>1. PICK code \in Nat : code = Code(c, 400)
        BY <2>3
      <3>2. r = [NoRequest EXCEPT !.op = op, !.id = 0, !.code = code]
        BY <2>1, <3>1
      <3>3. r = Refusal(op, 0, code)
        BY <3>2 DEF NoRequest, Refusal
      <3> QED BY <3>1, <3>3
    <2>5. r \in Requests /\ InProgress(c, r, tasks) /\ Told(c, r, tasks, registry.names)
      BY <2>3, <2>4, RefusalTold
    <2> QED BY <1>0, <1>1, <2>2, <2>5, SameExtends, OneRequest
  <1>3. CASE Valid(cap, accepted)
    <2>1. PICK r : r = [NoRequest EXCEPT !.op = op, !.id = i, !.saved = TRUE, !.run = (op = "inline"),
                                         !.pc = IF op = "inline" THEN "load" ELSE "enqueue"]
      OBVIOUS
    <2>2. PICK store : store = [tasks EXCEPT ![i] = [status |-> "pending", cap |-> cap]]
      OBVIOUS
    <2>3. req' = [req EXCEPT ![c] = r] /\ tasks' = store /\ tasks[i] = NoRecord
      BY <1>3, <2>1, <2>2 DEF CreateTask, SetReq, Unused
    <2>4. cap \in CapNames
      <3>1. config \in Configs
        BY DEF ApiInv, ApiTypeOK
      <3>2. cap \in {e.name : e \in ToSet(config.entries)} \/ cap = "unknown"
        BY DEF Asked
      <3>3. {e.name : e \in ToSet(config.entries)}
              \in {{e.name : e \in ToSet(cf.entries)} : cf \in Configs}
        BY <3>1
      <3>4. {e.name : e \in ToSet(config.entries)} \subseteq Configured
        BY <3>3 DEF Configured
      <3> QED BY <3>2, <3>4 DEF CapNames
    <2>5. store \in [RequestIds -> TaskRecords] /\ Extends(tasks, store) /\ Present(store, i)
      BY <1>0, <2>2, <2>3, <2>4, CreateExtends
    <2>6. CASE op = "inline"
      <3>1. r = [op |-> "inline", id |-> i, pc |-> "load", copy |-> "absent", run |-> TRUE, code |-> 0,
                 body |-> "none", saved |-> TRUE, queued |-> FALSE]
        BY <2>1, <2>6 DEF NoRequest
      <3>2. r \in Requests
        BY <1>0, <3>1 DEF Requests
      <3>3. InProgress(c, r, store)
        BY <2>5, <3>1 DEF InProgress
      <3>4. Told(c, r, store, registry.names)
        BY <3>1 DEF Told
      <3> QED BY <1>0, <1>1, <2>3, <2>5, <3>2, <3>3, <3>4, OneRequest
    <2>7. CASE op = "submit"
      <3>1. r = [op |-> "submit", id |-> i, pc |-> "enqueue", copy |-> "absent", run |-> FALSE, code |-> 0,
                 body |-> "none", saved |-> TRUE, queued |-> FALSE]
        BY <2>1, <2>7 DEF NoRequest
      <3>2. r \in Requests
        BY <1>0, <3>1 DEF Requests
      <3>3. InProgress(c, r, store)
        BY <2>5, <2>7, <3>1 DEF InProgress
      <3>4. Told(c, r, store, registry.names)
        BY <3>1 DEF Told
      <3> QED BY <1>0, <1>1, <2>3, <2>5, <3>2, <3>3, <3>4, OneRequest
    <2> QED BY <2>6, <2>7
  <1> QED BY <1>2, <1>3

(* A request that ends keeps its name, its id and its flags. *)
Ended(q, code, body) == [q EXCEPT !.pc = "done", !.copy = "absent", !.code = code, !.body = body]
Bodies == TaskStatuses \cup {"absent", "none", "room", "full"}
Keeps(r, q, code, body) ==
    /\ r \in Requests /\ r.pc = "done" /\ r.code = code /\ r.body = body
    /\ r.op = q.op /\ r.id = q.id /\ r.saved = q.saved /\ r.run = q.run
NotQueued(r) == r.queued = FALSE

(* The request as it ends. *)
LEMMA EndedRequest ==
  ASSUME NEW q \in Requests, NEW code \in Nat, NEW body \in Bodies
  PROVE  Keeps(Ended(q, code, body), q, code, body) /\ Ended(q, code, body).queued = q.queued
  <1>1. PICK r : r = Ended(q, code, body)
    OBVIOUS
  <1>2. r = [q EXCEPT !.pc = "done", !.copy = "absent", !.code = code, !.body = body]
    BY <1>1 DEF Ended
  <1>3. Keeps(r, q, code, body) /\ r.queued = q.queued
    BY <1>2 DEF Requests, Keeps, Bodies
  <1> QED BY <1>1, <1>3

(* The request as it ends at the queue, which took its id or did not. *)
Accepted(q, code, body) == [q EXCEPT !.pc = "done", !.queued = TRUE, !.code = code, !.body = body]
Rejected(q, code, body) == [q EXCEPT !.pc = "done", !.queued = FALSE, !.code = code, !.body = body]

(* An accepted request keeps its name, its id and its flags too. *)
LEMMA AcceptedRequest ==
  ASSUME NEW q \in Requests, NEW code \in Nat, NEW body \in Bodies
  PROVE  Keeps(Accepted(q, code, body), q, code, body) /\ Accepted(q, code, body).queued = TRUE
  <1>1. PICK r : r = Accepted(q, code, body)
    OBVIOUS
  <1>2. r = [q EXCEPT !.pc = "done", !.queued = TRUE, !.code = code, !.body = body]
    BY <1>1 DEF Accepted
  <1>3. Keeps(r, q, code, body) /\ r.queued = TRUE
    BY <1>2 DEF Requests, Keeps, Bodies
  <1> QED BY <1>1, <1>3

(* And so does a rejected one. *)
LEMMA RejectedRequest ==
  ASSUME NEW q \in Requests, NEW code \in Nat, NEW body \in Bodies
  PROVE  Keeps(Rejected(q, code, body), q, code, body) /\ NotQueued(Rejected(q, code, body))
  <1>4. PICK r : r = Rejected(q, code, body)
    OBVIOUS
  <1>5. r = [q EXCEPT !.pc = "done", !.queued = FALSE, !.code = code, !.body = body]
    BY <1>4 DEF Rejected
  <1>6. Keeps(r, q, code, body) /\ NotQueued(r)
    BY <1>5 DEF Requests, Keeps, NotQueued, Bodies
  <1> QED BY <1>4, <1>6

(* The queue takes the id or is full. *)
LEMMA EnqueueStep ==
  ASSUME ApiInv, NEW c \in Clients, Enqueue(c)
  PROVE  ApiInv'
  <1>0. /\ tasks \in [RequestIds -> TaskRecords] /\ queue \in Seq(Nat) /\ req[c] \in Requests
        /\ InProgress(c, req[c], tasks)
    BY ApiFacts
  <1>1. /\ tasks' = tasks /\ req[c].pc = "enqueue" /\ registry' = registry /\ config' = config
    BY DEF Enqueue
  <1>2. queue' \in Seq(Nat)
    <2>1. req[c].id \in Nat
      BY <1>0 DEF Requests
    <2> QED BY <1>0, <2>1 DEF Enqueue
  <1>3. /\ req[c].op \in {"submit", "approve"} /\ req[c].saved = TRUE /\ req[c].run = FALSE
        /\ Present(tasks, req[c].id)
        /\ req[c].op = "submit" => c \notin Shells
    BY <1>0, <1>1 DEF InProgress
  <1>4. PICK r : r = [req[c] EXCEPT !.pc = "done", !.queued = ~(Len(queue) >= QueueSize),
                        !.code = CASE req[c].op = "submit" -> IF Len(queue) >= QueueSize THEN 429 ELSE 202
                                   [] OTHER -> IF Len(queue) >= QueueSize THEN 500 ELSE 200,
                        !.body = IF req[c].op = "submit" THEN "pending" ELSE "approved"]
    OBVIOUS
  <1>9. req' = [req EXCEPT ![c] = r]
    BY <1>4 DEF Enqueue, SetReq
  <1>5. /\ 429 \in Nat /\ 500 \in Nat /\ 202 \in Nat /\ 200 \in Nat
        /\ "pending" \in Bodies /\ "approved" \in Bodies
    BY DEF Bodies, TaskStatuses
  <1>6. /\ r \in Requests /\ r.pc = "done" /\ r.op = req[c].op /\ r.id = req[c].id
        /\ r.saved = TRUE /\ r.run = FALSE
        /\ \/ r.queued = FALSE /\ r.op = "submit" /\ r.code = 429
           \/ r.queued = FALSE /\ r.op = "approve" /\ r.code = 500
           \/ r.queued = TRUE /\ r.op = "submit" /\ r.code = 202
           \/ r.queued = TRUE /\ r.op = "approve" /\ r.code = 200
    <2>1. CASE Len(queue) >= QueueSize /\ req[c].op = "submit"
      <3>1. r = Rejected(req[c], 429, "pending")
        BY <1>4, <2>1 DEF Rejected
      <3>2. Keeps(r, req[c], 429, "pending") /\ NotQueued(r)
        BY <1>0, <1>5, <3>1, RejectedRequest
      <3> QED BY <1>3, <2>1, <3>2 DEF Keeps, NotQueued
    <2>2. CASE Len(queue) >= QueueSize /\ req[c].op = "approve"
      <3>1. r = Rejected(req[c], 500, "approved")
        BY <1>4, <2>2 DEF Rejected
      <3>2. Keeps(r, req[c], 500, "approved") /\ NotQueued(r)
        BY <1>0, <1>5, <3>1, RejectedRequest
      <3> QED BY <1>3, <2>2, <3>2 DEF Keeps, NotQueued
    <2>3. CASE ~(Len(queue) >= QueueSize) /\ req[c].op = "submit"
      <3>1. r = Accepted(req[c], 202, "pending")
        BY <1>4, <2>3 DEF Accepted
      <3>2. Keeps(r, req[c], 202, "pending") /\ r.queued = TRUE
        BY <1>0, <1>5, <3>1, AcceptedRequest
      <3> QED BY <1>3, <2>3, <3>2 DEF Keeps
    <2>4. CASE ~(Len(queue) >= QueueSize) /\ req[c].op = "approve"
      <3>1. r = Accepted(req[c], 200, "approved")
        BY <1>4, <2>4 DEF Accepted
      <3>2. Keeps(r, req[c], 200, "approved") /\ r.queued = TRUE
        BY <1>0, <1>5, <3>1, AcceptedRequest
      <3> QED BY <1>3, <2>4, <3>2 DEF Keeps
    <2> QED BY <1>3, <2>1, <2>2, <2>3, <2>4
  <1>7. InProgress(c, r, tasks)
    BY <1>3, <1>6 DEF InProgress
  <1>8. Told(c, r, tasks, registry.names)
    BY <1>6 DEF Told
  <1> QED BY <1>0, <1>1, <1>2, <1>6, <1>7, <1>8, <1>9, SameExtends, OneRequest

(* cond task approve --no-run. *)
LEMMA EnqueueAndExitStep ==
  ASSUME ApiInv, NEW c \in Clients, EnqueueAndExit(c)
  PROVE  ApiInv'
  <1>0. /\ tasks \in [RequestIds -> TaskRecords] /\ queue \in Seq(Nat) /\ req[c] \in Requests
        /\ InProgress(c, req[c], tasks)
    BY ApiFacts
  <1>1. PICK r : r = Ended(req[c], 0, "approved")
    OBVIOUS
  <1>2. /\ req' = [req EXCEPT ![c] = r] /\ tasks' = tasks /\ req[c].pc = "enqueue" /\ c \in Shells
        /\ registry' = registry /\ config' = config /\ queue' = queue
    BY <1>1 DEF EnqueueAndExit, Answer, SetReq, Code, Ended
  <1>3. /\ r \in Requests /\ r.pc = "done" /\ r.op = req[c].op /\ r.id = req[c].id
        /\ r.saved = req[c].saved /\ r.run = req[c].run /\ r.code = 0
    <2>1. 0 \in Nat /\ "approved" \in Bodies
      BY DEF TaskStatuses, Bodies
    <2> QED BY <1>0, <1>1, <2>1, EndedRequest DEF Keeps
  <1>4. r.op = "approve" /\ r.saved = TRUE /\ r.run = FALSE /\ Present(tasks, r.id)
    BY <1>0, <1>2, <1>3 DEF InProgress
  <1>5. InProgress(c, r, tasks)
    BY <1>3, <1>4 DEF InProgress
  <1>6. Told(c, r, tasks, registry.names)
    BY <1>3, <1>4 DEF Told
  <1> QED BY <1>0, <1>2, <1>3, <1>5, <1>6, SameExtends, OneRequest

(* A refused request changes nothing. *)
LEMMA RefuseStep ==
  ASSUME ApiInv, NEW c \in Clients, NEW op \in {"run", "cancel", "approve"}, NEW i \in RequestIds,
         NEW code \in {400, 404}, Refuse(c, op, i, code),
         registry' = registry, config' = config, queue' = queue, tasks' = tasks
  PROVE  ApiInv'
  <1>0. tasks \in [RequestIds -> TaskRecords] /\ queue \in Seq(Nat) /\ i \in Nat
    BY ApiFacts
  <1>1. PICK k : k = Code(c, code)
    OBVIOUS
  <1>2. /\ k \in RefusalCodes /\ k \in Nat /\ op \in RefusedOps
        /\ op = "submit" => c \notin Shells
    BY <1>1 DEF Code, RefusalCodes, RefusedOps
  <1>3. PICK r : r = [NoRequest EXCEPT !.op = op, !.id = i, !.code = k]
    OBVIOUS
  <1>4. req' = [req EXCEPT ![c] = r]
    BY <1>1, <1>3 DEF Refuse, SetReq
  <1>5. r = Refusal(op, i, k)
    BY <1>0, <1>2, <1>3 DEF NoRequest, Refusal
  <1>6. r \in Requests /\ InProgress(c, r, tasks) /\ Told(c, r, tasks, registry.names)
    BY <1>0, <1>2, <1>5, RefusalTold
  <1> QED BY <1>0, <1>4, <1>6, SameExtends, OneRequest

(* A stored task is one with a status. *)
LEMMA StoredIsPresent ==
  ASSUME NEW store \in [RequestIds -> TaskRecords], NEW i \in RequestIds, store[i] # NoRecord
  PROVE  Present(store, i) /\ store[i].status \in TaskStatuses
  <1>1. store[i] \in [status : TaskStatuses, cap : CapNames]
    BY DEF TaskRecords
  <1>2. store[i].status \in TaskStatuses
    BY <1>1
  <1> QED BY <1>2 DEF Present, TaskStatuses

(* And a task with a status is a stored one. *)
LEMMA PresentIsStored ==
  ASSUME NEW store \in [RequestIds -> TaskRecords], NEW i, Present(store, i)
  PROVE  i \in RequestIds /\ store[i] # NoRecord /\ store[i].status \in TaskStatuses
  <1>1. i \in RequestIds /\ store[i].status # "absent"
    BY DEF Present
  <1>2. store[i] # NoRecord
    BY <1>1 DEF NoRecord
  <1> QED BY <1>1, <1>2, StoredIsPresent

(* POST /{id}/run. *)
LEMMA RunQueuedStep ==
  ASSUME ApiInv, NEW c \in Clients, NEW i \in RequestIds, RunQueued(c, i)
  PROVE  ApiInv'
  <1>0. tasks \in [RequestIds -> TaskRecords] /\ queue \in Seq(Nat) /\ i \in Nat
    BY ApiFacts
  <1>1. registry' = registry /\ config' = config /\ queue' = queue /\ tasks' = tasks
    BY DEF RunQueued
  <1>2. CASE tasks[i] = NoRecord
    <2>1. Refuse(c, "run", i, 404)
      BY <1>2 DEF RunQueued
    <2> QED BY <1>1, <2>1, RefuseStep
  <1>3. CASE tasks[i] # NoRecord
    <2>1. PICK r : r = [NoRequest EXCEPT !.op = "run", !.id = i, !.run = TRUE, !.pc = "load"]
      OBVIOUS
    <2>2. req' = [req EXCEPT ![c] = r]
      BY <1>3, <2>1 DEF RunQueued, SetReq
    <2>3. r = [op |-> "run", id |-> i, pc |-> "load", copy |-> "absent", run |-> TRUE, code |-> 0,
               body |-> "none", saved |-> FALSE, queued |-> FALSE]
      BY <2>1 DEF NoRequest
    <2>4. r \in Requests
      BY <1>0, <2>3 DEF Requests
    <2>5. Present(tasks, i)
      BY <1>0, <1>3, StoredIsPresent
    <2>6. InProgress(c, r, tasks)
      BY <2>3, <2>5 DEF InProgress
    <2>7. Told(c, r, tasks, registry.names)
      BY <2>3 DEF Told
    <2> QED BY <1>0, <1>1, <2>2, <2>4, <2>6, <2>7, SameExtends, OneRequest
  <1> QED BY <1>2, <1>3

(* The begin of an approval or a cancellation. *)
LEMMA BeginDecisionStep ==
  ASSUME ApiInv, NEW c \in Clients, NEW i \in RequestIds, NEW op \in {"approve", "cancel"},
         NEW run \in {TRUE, FALSE}, BeginDecision(c, op, i, run)
  PROVE  ApiInv'
  <1>0. tasks \in [RequestIds -> TaskRecords] /\ queue \in Seq(Nat) /\ i \in Nat
    BY ApiFacts
  <1>1. registry' = registry /\ config' = config /\ queue' = queue /\ tasks' = tasks
    BY DEF BeginDecision
  <1>2. CASE tasks[i] = NoRecord
    <2>1. Refuse(c, op, i, 404)
      BY <1>2 DEF BeginDecision
    <2> QED BY <1>1, <2>1, RefuseStep
  <1>3. CASE tasks[i] # NoRecord /\ tasks[i].status # "awaiting_approval"
    <2>1. Refuse(c, op, i, 400)
      BY <1>3 DEF BeginDecision
    <2> QED BY <1>1, <2>1, RefuseStep
  <1>4. CASE tasks[i] # NoRecord /\ tasks[i].status = "awaiting_approval"
    <2>1. PICK r : r = [NoRequest EXCEPT !.op = op, !.id = i, !.run = run, !.pc = "decide"]
      OBVIOUS
    <2>2. req' = [req EXCEPT ![c] = r]
      BY <1>4, <2>1 DEF BeginDecision, SetReq
    <2>3. r = [op |-> op, id |-> i, pc |-> "decide", copy |-> "absent", run |-> run, code |-> 0,
               body |-> "none", saved |-> FALSE, queued |-> FALSE]
      BY <2>1 DEF NoRequest
    <2>4. r \in Requests
      BY <1>0, <2>3 DEF Requests
    <2>5. Present(tasks, i)
      BY <1>0, <1>4, StoredIsPresent
    <2>6. InProgress(c, r, tasks)
      BY <2>3, <2>5 DEF InProgress
    <2>7. Told(c, r, tasks, registry.names)
      BY <2>3 DEF Told
    <2> QED BY <1>0, <1>1, <2>2, <2>4, <2>6, <2>7, SameExtends, OneRequest
  <1> QED BY <1>2, <1>3, <1>4

(* run_task loads the task: it answers, refuses or goes to the gate. *)
LEMMA LoadTaskStep ==
  ASSUME ApiInv, NEW c \in Clients, LoadTask(c)
  PROVE  ApiInv'
  <1>0. /\ tasks \in [RequestIds -> TaskRecords] /\ queue \in Seq(Nat) /\ req[c] \in Requests
        /\ InProgress(c, req[c], tasks)
    BY ApiFacts
  <1>1. /\ registry' = registry /\ config' = config /\ queue' = queue /\ tasks' = tasks
        /\ req[c].pc = "load"
    BY DEF LoadTask
  <1>2. /\ Present(tasks, req[c].id) /\ req[c].op \in {"inline", "run", "approve"}
        /\ req[c].queued = FALSE /\ req[c].run = TRUE
        /\ req[c].op = "approve" => req[c].saved = TRUE
        /\ req[c].op = "run" => req[c].saved = FALSE
    BY <1>0, <1>1 DEF InProgress
  <1>3. /\ req[c].id \in RequestIds
        /\ tasks[req[c].id].status \in TaskStatuses /\ tasks[req[c].id].status \in Bodies
    BY <1>0, <1>2, PresentIsStored DEF Bodies
  <1>4. CASE tasks[req[c].id].status \notin Executable
    <2>1. PICK k : k = Code(c, 200)
      OBVIOUS
    <2>2. k \in {0, 200} /\ k \in Nat
      BY <2>1 DEF Code
    <2>3. PICK r : r = Ended(req[c], k, tasks[req[c].id].status)
      OBVIOUS
    <2>4. req' = [req EXCEPT ![c] = r]
      BY <1>4, <2>1, <2>3 DEF LoadTask, Answer, SetReq, Ended
    <2>5. Keeps(r, req[c], k, tasks[req[c].id].status) /\ r.queued = req[c].queued
      BY <1>0, <1>3, <2>2, <2>3, EndedRequest
    <2>6. /\ r \in Requests /\ r.pc = "done" /\ r.code = k /\ r.body = tasks[req[c].id].status
          /\ r.op = req[c].op /\ r.id = req[c].id /\ r.saved = req[c].saved /\ r.run = TRUE
          /\ r.queued = FALSE
      BY <1>2, <2>5 DEF Keeps
    <2>7. InProgress(c, r, tasks)
      BY <1>2, <2>6 DEF InProgress
    <2>8. Told(c, r, tasks, registry.names)
      BY <1>2, <1>4, <2>2, <2>6 DEF Told
    <2> QED BY <1>0, <1>1, <2>4, <2>6, <2>7, <2>8, SameExtends, OneRequest
  <1>5. CASE tasks[req[c].id].status \in Executable /\ tasks[req[c].id].cap \notin registry.names
    <2>1. PICK code \in {400, 404} : code = IF req[c].op = "run" THEN 404 ELSE 400
      OBVIOUS
    <2>2. PICK k : k = Code(c, code)
      OBVIOUS
    <2>3. /\ k \in {2, 400, 404} /\ k \in Nat
          /\ req[c].op # "run" => k \in {2, 400}
      BY <2>1, <2>2 DEF Code
    <2>4. PICK r : r = Ended(req[c], k, "none")
      OBVIOUS
    <2>5. req' = [req EXCEPT ![c] = r]
      BY <1>5, <2>1, <2>2, <2>4 DEF LoadTask, Answer, SetReq, Ended
    <2>6. Keeps(r, req[c], k, "none") /\ r.queued = req[c].queued
      <3>1. "none" \in Bodies
        BY DEF Bodies
      <3> QED BY <1>0, <2>3, <2>4, <3>1, EndedRequest
    <2>7. /\ r \in Requests /\ r.pc = "done" /\ r.code = k
          /\ r.op = req[c].op /\ r.id = req[c].id /\ r.saved = req[c].saved /\ r.run = TRUE
          /\ r.queued = FALSE
      BY <1>2, <2>6 DEF Keeps
    <2>8. InProgress(c, r, tasks)
      BY <1>2, <2>7 DEF InProgress
    <2>9. Told(c, r, tasks, registry.names)
      BY <1>2, <1>5, <2>3, <2>7 DEF Told
    <2> QED BY <1>0, <1>1, <2>5, <2>7, <2>8, <2>9, SameExtends, OneRequest
  <1>6. CASE tasks[req[c].id].status \in Executable /\ tasks[req[c].id].cap \in registry.names
    <2>1. PICK r : r = [req[c] EXCEPT !.pc = "gate", !.copy = tasks[req[c].id].status]
      OBVIOUS
    <2>2. req' = [req EXCEPT ![c] = r]
      BY <1>6, <2>1 DEF LoadTask, SetReq
    <2>3. /\ r \in Requests /\ r.pc = "gate"
          /\ r.op = req[c].op /\ r.id = req[c].id /\ r.saved = req[c].saved /\ r.run = req[c].run
          /\ r.queued = req[c].queued
      BY <1>0, <1>3, <2>1 DEF Requests
    <2>4. InProgress(c, r, tasks)
      BY <1>2, <2>3 DEF InProgress
    <2>5. Told(c, r, tasks, registry.names)
      BY <2>3 DEF Told
    <2> QED BY <1>0, <1>1, <2>2, <2>3, <2>4, <2>5, SameExtends, OneRequest
  <1> QED BY <1>4, <1>5, <1>6

(* A capability is called and its end saved. *)
LEMMA ExecuteStep ==
  ASSUME ApiInv, NEW c \in Clients, Execute(c)
  PROVE  ApiInv'
  <1>0. /\ tasks \in [RequestIds -> TaskRecords] /\ queue \in Seq(Nat) /\ req[c] \in Requests
        /\ InProgress(c, req[c], tasks)
    BY ApiFacts
  <1>1. registry' = registry /\ config' = config /\ queue' = queue /\ req[c].pc = "execute"
    BY DEF Execute
  <1>2. /\ Present(tasks, req[c].id) /\ req[c].op \in {"inline", "run", "approve"}
        /\ req[c].queued = FALSE /\ req[c].run = TRUE
        /\ req[c].op = "approve" => req[c].saved = TRUE
    BY <1>0, <1>1 DEF InProgress
  <1>3. req[c].id \in RequestIds
    BY <1>2 DEF Present
  <1>4. PICK status \in {"completed", "failed"} : SaveStatus(req[c].id, status) /\ Answer(c, 200, status)
    BY DEF Execute
  <1>5. status \in TaskStatuses /\ status \in Bodies /\ status \notin Executable
    BY <1>4 DEF TaskStatuses, Bodies, Executable
  <1>6. PICK store : store = [tasks EXCEPT ![req[c].id].status = status]
    OBVIOUS
  <1>7. /\ tasks' = store /\ store \in [RequestIds -> TaskRecords] /\ Extends(tasks, store)
        /\ Present(store, req[c].id)
    BY <1>0, <1>3, <1>4, <1>5, <1>6, SaveStatusExtends DEF SaveStatus
  <1>8. PICK k : k = Code(c, 200)
    OBVIOUS
  <1>9. k \in {0, 200} /\ k \in Nat
    BY <1>8 DEF Code
  <1>10. PICK r : r = Ended(req[c], k, status)
    OBVIOUS
  <1>11. req' = [req EXCEPT ![c] = r]
    BY <1>4, <1>8, <1>10 DEF Answer, SetReq, Ended
  <1>12. Keeps(r, req[c], k, status) /\ r.queued = req[c].queued
    BY <1>0, <1>5, <1>9, <1>10, EndedRequest
  <1>13. /\ r \in Requests /\ r.pc = "done" /\ r.code = k /\ r.body = status
         /\ r.op = req[c].op /\ r.id = req[c].id /\ r.saved = req[c].saved /\ r.run = TRUE
         /\ r.queued = FALSE
    BY <1>2, <1>12 DEF Keeps
  <1>14. InProgress(c, r, store)
    BY <1>2, <1>7, <1>13 DEF InProgress
  <1>15. Told(c, r, store, registry.names)
    BY <1>2, <1>5, <1>9, <1>13 DEF Told
  <1> QED BY <1>0, <1>1, <1>7, <1>11, <1>13, <1>14, <1>15, OneRequest

(* The gate holds, denies or starts the task. *)
LEMMA GateStep ==
  ASSUME ApiInv, NEW c \in Clients, Gate(c)
  PROVE  ApiInv'
  <1>0. /\ tasks \in [RequestIds -> TaskRecords] /\ queue \in Seq(Nat) /\ req[c] \in Requests
        /\ InProgress(c, req[c], tasks)
    BY ApiFacts
  <1>1. registry' = registry /\ config' = config /\ queue' = queue /\ req[c].pc = "gate"
    BY DEF Gate
  <1>2. /\ Present(tasks, req[c].id) /\ req[c].op \in {"inline", "run", "approve"}
        /\ req[c].queued = FALSE /\ req[c].run = TRUE
    BY <1>0, <1>1 DEF InProgress
  <1>3. req[c].id \in RequestIds
    BY <1>2 DEF Present
  <1>4. PICK status \in {"running", "awaiting_approval", "policy_denied"} :
           /\ tasks' = [tasks EXCEPT ![req[c].id].status = status]
           /\ req' = [req EXCEPT ![c] =
                        IF status = "running"
                        THEN [req[c] EXCEPT !.pc = "execute", !.copy = "absent", !.saved = TRUE]
                        ELSE [req[c] EXCEPT !.pc = "done", !.copy = "absent", !.saved = TRUE,
                                            !.code = Code(c, 200), !.body = status]]
    BY DEF Gate, SaveStatus, SetReq
  <1>5. status \in TaskStatuses /\ status \in Bodies /\ status \notin Executable
    BY <1>4 DEF TaskStatuses, Bodies, Executable
  <1>6. PICK store : store = [tasks EXCEPT ![req[c].id].status = status]
    OBVIOUS
  <1>7. /\ tasks' = store /\ store \in [RequestIds -> TaskRecords] /\ Extends(tasks, store)
        /\ Present(store, req[c].id)
    BY <1>0, <1>3, <1>4, <1>5, <1>6, SaveStatusExtends
  <1>8. CASE status = "running"
    <2>1. PICK r : r = [req[c] EXCEPT !.pc = "execute", !.copy = "absent", !.saved = TRUE]
      OBVIOUS
    <2>2. req' = [req EXCEPT ![c] = r]
      BY <1>4, <1>8, <2>1
    <2>3. /\ r \in Requests /\ r.pc = "execute" /\ r.op = req[c].op /\ r.id = req[c].id
          /\ r.run = req[c].run /\ r.queued = req[c].queued /\ r.saved = TRUE
      BY <1>0, <2>1 DEF Requests
    <2>4. InProgress(c, r, store)
      BY <1>2, <1>7, <2>3 DEF InProgress
    <2>5. Told(c, r, store, registry.names)
      BY <2>3 DEF Told
    <2> QED BY <1>0, <1>1, <1>7, <2>2, <2>3, <2>4, <2>5, OneRequest
  <1>9. CASE status # "running"
    <2>1. PICK k : k = Code(c, 200)
      OBVIOUS
    <2>2. k \in {0, 200} /\ k \in Nat
      BY <2>1 DEF Code
    <2>3. PICK r : r = [req[c] EXCEPT !.pc = "done", !.copy = "absent", !.saved = TRUE,
                                      !.code = k, !.body = status]
      OBVIOUS
    <2>4. req' = [req EXCEPT ![c] = r]
      BY <1>4, <1>9, <2>1, <2>3
    <2>5. /\ r \in Requests /\ r.pc = "done" /\ r.op = req[c].op /\ r.id = req[c].id
          /\ r.run = req[c].run /\ r.queued = req[c].queued /\ r.saved = TRUE
          /\ r.code = k /\ r.body = status
      BY <1>0, <1>5, <2>2, <2>3 DEF Requests, Bodies
    <2>6. InProgress(c, r, store)
      BY <1>2, <1>7, <2>5 DEF InProgress
    <2>7. Told(c, r, store, registry.names)
      BY <1>2, <1>5, <2>2, <2>5 DEF Told
    <2> QED BY <1>0, <1>1, <1>7, <2>4, <2>5, <2>6, <2>7, OneRequest
  <1> QED BY <1>8, <1>9

(* The decision is saved. *)
LEMMA SaveDecisionStep ==
  ASSUME ApiInv, NEW c \in Clients, SaveDecision(c)
  PROVE  ApiInv'
  <1>0. /\ tasks \in [RequestIds -> TaskRecords] /\ queue \in Seq(Nat) /\ req[c] \in Requests
        /\ InProgress(c, req[c], tasks)
    BY ApiFacts
  <1>1. PICK q : q = [req[c] EXCEPT !.saved = TRUE]
    OBVIOUS
  <1>2. /\ q \in Requests /\ q.pc = req[c].pc /\ q.op = req[c].op /\ q.id = req[c].id
        /\ q.run = req[c].run /\ q.queued = req[c].queued /\ q.saved = TRUE
    BY <1>0, <1>1 DEF Requests
  <1>3. registry' = registry /\ config' = config /\ queue' = queue /\ req[c].pc = "decide"
    BY <1>1, <1>2 DEF SaveDecision
  <1>4. Present(tasks, q.id) /\ q.op \in {"approve", "cancel"} /\ q.queued = FALSE
    BY <1>0, <1>2, <1>3 DEF InProgress
  <1>5. q.id \in RequestIds
    BY <1>4 DEF Present
  <1>6. CASE q.op = "cancel"
    <2>1. PICK store : store = [tasks EXCEPT ![q.id].status = "cancelled"]
      OBVIOUS
    <2>2. tasks' = store
      BY <1>1, <1>6, <2>1 DEF SaveDecision, SaveStatus
    <2>3. /\ store \in [RequestIds -> TaskRecords] /\ Extends(tasks, store) /\ Present(store, q.id)
      <3>1. "cancelled" \in TaskStatuses
        BY DEF TaskStatuses
      <3> QED BY <1>0, <1>5, <2>1, <3>1, SaveStatusExtends
    <2>4. PICK k : k = Code(c, 200)
      OBVIOUS
    <2>5. k \in {0, 200} /\ k \in Nat
      BY <2>4 DEF Code
    <2>6. PICK r : r = [q EXCEPT !.pc = "done", !.code = k, !.body = "cancelled"]
      OBVIOUS
    <2>7. req' = [req EXCEPT ![c] = r]
      BY <1>1, <1>6, <2>4, <2>6 DEF SaveDecision, SetReq
    <2>8. /\ r \in Requests /\ r.pc = "done" /\ r.op = "cancel" /\ r.id = q.id /\ r.saved = TRUE
          /\ r.code = k /\ r.body = "cancelled"
      BY <1>2, <1>6, <2>5, <2>6 DEF Requests, TaskStatuses
    <2>9. InProgress(c, r, store)
      BY <2>3, <2>8 DEF InProgress
    <2>10. Told(c, r, store, registry.names)
      BY <2>5, <2>8 DEF Told, Executable
    <2> QED BY <1>0, <1>3, <2>2, <2>3, <2>7, <2>8, <2>9, <2>10, OneRequest
  <1>7. CASE q.op = "approve"
    <2>1. PICK store : store = [tasks EXCEPT ![q.id].status = "approved"]
      OBVIOUS
    <2>2. tasks' = store
      BY <1>1, <1>7, <2>1 DEF SaveDecision, SaveStatus
    <2>3. /\ store \in [RequestIds -> TaskRecords] /\ Extends(tasks, store) /\ Present(store, q.id)
      <3>1. "approved" \in TaskStatuses
        BY DEF TaskStatuses
      <3> QED BY <1>0, <1>5, <2>1, <3>1, SaveStatusExtends
    <2>4. PICK next : next = IF q.run THEN "load" ELSE "enqueue"
      OBVIOUS
    <2>5. \/ q.run = TRUE /\ next = "load"
          \/ q.run = FALSE /\ next = "enqueue"
      <3>1. q.run \in BOOLEAN
        BY <1>2 DEF Requests
      <3> QED BY <2>4, <3>1
    <2>6. PICK r : r = [q EXCEPT !.pc = next]
      OBVIOUS
    <2>7. req' = [req EXCEPT ![c] = r]
      BY <1>1, <1>7, <2>4, <2>6 DEF SaveDecision, SetReq
    <2>8. /\ r \in Requests /\ r.pc = next /\ r.op = "approve" /\ r.id = q.id /\ r.saved = TRUE
          /\ r.run = q.run /\ r.queued = q.queued
      BY <1>2, <1>7, <2>5, <2>6 DEF Requests
    <2>9. InProgress(c, r, store)
      BY <1>4, <2>3, <2>5, <2>8 DEF InProgress
    <2>10. Told(c, r, store, registry.names)
      BY <2>5, <2>8 DEF Told
    <2> QED BY <1>0, <1>3, <2>2, <2>3, <2>7, <2>8, <2>9, <2>10, OneRequest
  <1> QED BY <1>4, <1>6, <1>7

(* Reading a task changes nothing. *)
LEMMA GetTaskStep ==
  ASSUME ApiInv, NEW c \in Clients, NEW i \in RequestIds, GetTask(c, i)
  PROVE  ApiInv'
  <1>0. tasks \in [RequestIds -> TaskRecords] /\ queue \in Seq(Nat) /\ i \in Nat
    BY ApiFacts
  <1>1. registry' = registry /\ config' = config /\ queue' = queue /\ tasks' = tasks
    BY DEF GetTask
  <1>2. PICK k : k = Code(c, IF tasks[i] = NoRecord THEN 404 ELSE 200)
    OBVIOUS
  <1>3. k \in Nat
    BY <1>2 DEF Code
  <1>4. PICK status : status = tasks[i].status
    OBVIOUS
  <1>5. status \in Bodies
    <2>1. CASE tasks[i] = NoRecord
      BY <1>4, <2>1 DEF NoRecord, Bodies
    <2>2. CASE tasks[i] # NoRecord
      BY <1>0, <1>4, <2>2, StoredIsPresent DEF Bodies
    <2> QED BY <2>1, <2>2
  <1>6. PICK r : r = [NoRequest EXCEPT !.op = "get", !.id = i, !.body = status, !.code = k]
    OBVIOUS
  <1>7. req' = [req EXCEPT ![c] = r]
    BY <1>2, <1>4, <1>6 DEF GetTask, SetReq
  <1>8. r = [op |-> "get", id |-> i, pc |-> "done", copy |-> "absent", run |-> FALSE, code |-> k,
             body |-> status, saved |-> FALSE, queued |-> FALSE]
    BY <1>6 DEF NoRequest
  <1>9. r \in Requests
    BY <1>0, <1>3, <1>5, <1>8 DEF Requests, Bodies
  <1>10. InProgress(c, r, tasks)
    BY <1>8 DEF InProgress
  <1>11. Told(c, r, tasks, registry.names)
    BY <1>8 DEF Told
  <1> QED BY <1>0, <1>1, <1>7, <1>9, <1>10, <1>11, SameExtends, OneRequest

(* A full queue is reported as unhealthy: 10 * Len <= 9 * QueueSize and     *)
(* Len >= QueueSize > 0 exclude each other.                                 *)
LEMMA GetHealthStep ==
  ASSUME ApiInv, NEW c \in Clients, GetHealth(c)
  PROVE  ApiInv'
  <1>0. tasks \in [RequestIds -> TaskRecords] /\ queue \in Seq(Nat) /\ Len(queue) \in Nat
    BY ApiFacts
  <1>1. registry' = registry /\ config' = config /\ queue' = queue /\ tasks' = tasks
    BY DEF GetHealth
  <1>2. PICK k \in {200, 503} : k = IF RegistryHealthy(registry) /\ QueueHealthy THEN 200 ELSE 503
    OBVIOUS
  <1>3. PICK body \in {"room", "full"} : body = IF Len(queue) < QueueSize THEN "room" ELSE "full"
    OBVIOUS
  <1>4. body = "full" => k = 503
    BY <1>0, <1>2, <1>3, ApiConstants DEF QueueHealthy
  <1>5. PICK r : r = [NoRequest EXCEPT !.op = "health", !.body = body, !.code = k]
    OBVIOUS
  <1>6. req' = [req EXCEPT ![c] = r]
    BY <1>2, <1>3, <1>5 DEF GetHealth, SetReq
  <1>7. r = [op |-> "health", id |-> 0, pc |-> "done", copy |-> "absent", run |-> FALSE, code |-> k,
             body |-> body, saved |-> FALSE, queued |-> FALSE]
    BY <1>5 DEF NoRequest
  <1>8. r \in Requests
    BY <1>7 DEF Requests
  <1>9. InProgress(c, r, tasks)
    BY <1>7 DEF InProgress
  <1>10. Told(c, r, tasks, registry.names)
    BY <1>4, <1>7 DEF Told
  <1> QED BY <1>0, <1>1, <1>6, <1>8, <1>9, <1>10, SameExtends, OneRequest

(* The server as it starts, with the tasks an earlier one left. *)
LEMMA ApiInvInit ==
  ASSUME ApiInit
  PROVE  ApiInv
  <1>1. PICK t \in Leftovers \cup {NoRecord} :
            tasks = [i \in RequestIds |-> IF i = 1 THEN t ELSE NoRecord]
    BY DEF ApiInit
  <1>2. t \in TaskRecords
    <2>1. CASE t = NoRecord
      BY <2>1 DEF TaskRecords
    <2>2. CASE t \in Leftovers
      <3>1. t.status \in TaskStatuses /\ t = [status |-> t.status, cap |-> t.cap]
        BY <2>2, ApiConstants
      <3>2. t.cap \in LeftoverNames
        BY <2>2 DEF LeftoverNames
      <3>3. t.cap \in CapNames
        BY <3>2 DEF CapNames
      <3>4. t \in [status : TaskStatuses, cap : CapNames]
        BY <3>1, <3>3
      <3> QED BY <3>4 DEF TaskRecords
    <2> QED BY <2>1, <2>2
  <1>3. tasks \in [RequestIds -> TaskRecords]
    BY <1>1, <1>2 DEF TaskRecords
  <1>4. NoRequest \in Requests
    BY DEF NoRequest, Requests
  <1>5. ApiTypeOK
    BY <1>3, <1>4 DEF ApiInit, ApiTypeOK
  <1>6. ASSUME NEW c \in Clients
        PROVE  InProgress(c, req[c], tasks) /\ Told(c, req[c], tasks, registry.names)
    <2>1. req[c] = [op |-> "none", id |-> 0, pc |-> "done", copy |-> "absent", run |-> FALSE,
                    code |-> 0, body |-> "none", saved |-> FALSE, queued |-> FALSE]
      BY DEF ApiInit, NoRequest
    <2>2. InProgress(c, req[c], tasks)
      BY <2>1 DEF InProgress
    <2>3. Told(c, req[c], tasks, registry.names)
      BY <2>1 DEF Told
    <2> QED BY <2>2, <2>3
  <1> QED BY <1>5, <1>6 DEF ApiInv

(* Every step of every client keeps the invariant. *)
LEMMA ApiInvStep ==
  ASSUME ApiInv, [ApiNext]_apiVars
  PROVE  ApiInv'
  <1>1. CASE UNCHANGED apiVars
    BY <1>1 DEF apiVars, ApiInv, ApiTypeOK
  <1>2. ASSUME NEW c \in Clients, NEW i \in RequestIds, Manage(c, i)
        PROVE  ApiInv'
    <2>1. CASE \E cap \in Asked, accepted \in BOOLEAN : CreateTask(c, "inline", i, cap, accepted)
      BY <2>1, CreateTaskStep
    <2>2. CASE GetTask(c, i)
      BY <2>2, GetTaskStep
    <2>3. CASE BeginDecision(c, "cancel", i, FALSE)
      BY <2>3, BeginDecisionStep
    <2>4. CASE \E run \in BOOLEAN : BeginDecision(c, "approve", i, run)
      <3>1. PICK run \in BOOLEAN : BeginDecision(c, "approve", i, run)
        BY <2>4
      <3>2. run \in {TRUE, FALSE}
        OBVIOUS
      <3> QED BY <3>1, <3>2, BeginDecisionStep
    <2> QED BY <1>2, <2>1, <2>2, <2>3, <2>4 DEF Manage
  <1>3. ASSUME NEW c \in Clients, NEW i \in RequestIds, Request(c, i) \/ Command(c, i)
        PROVE  ApiInv'
    <2>1. CASE Manage(c, i)
      BY <1>2, <2>1
    <2>2. CASE /\ c \notin Shells
               /\ \E cap \in Asked, accepted \in BOOLEAN : CreateTask(c, "submit", i, cap, accepted)
      BY <2>2, CreateTaskStep
    <2>3. CASE RunQueued(c, i)
      BY <2>3, RunQueuedStep
    <2>4. CASE GetHealth(c)
      BY <2>4, GetHealthStep
    <2> QED BY <1>3, <2>1, <2>2, <2>3, <2>4 DEF Request, Command
  <1>4. ASSUME NEW c \in Clients,
               \/ Enqueue(c) \/ EnqueueAndExit(c) \/ LoadTask(c) \/ Gate(c) \/ Execute(c)
               \/ SaveDecision(c)
        PROVE  ApiInv'
    BY <1>4, EnqueueStep, EnqueueAndExitStep, LoadTaskStep, GateStep, ExecuteStep, SaveDecisionStep
  <1> QED BY <1>1, <1>3, <1>4 DEF ApiNext

(* What the histories know of the store, ... *)
Recorded(store, ran, ok) ==
    /\ \A i \in RequestIds :
           /\ store[i].status \in Begun => i \in ran
           /\ store[i].status = "approved" => i \in ok
    /\ \A i \in ran : i \in RequestIds /\ store[i].status # "absent"

(* ... and of a request: the ids that are in the queue, were called or were *)
(* approved.                                                                *)
Attested(r, waiting, ran, ok) ==
    /\ r.queued = TRUE => r.id \in waiting
    /\ r.pc = "done" /\ r.body \in {"completed", "failed"} => r.id \in ran
    /\ r.pc = "done" /\ r.body = "approved" => r.id \in ok
    /\ r.pc = "execute" => r.id \in ran
    /\ r.pc = "enqueue" /\ r.op = "approve" => r.id \in ok
    /\ r.pc = "gate" /\ r.copy = "approved" => r.id \in ok

ApiHistory ==
    /\ Recorded(tasks, executed, approvals)
    /\ \A c \in Clients : Attested(req[c], ToSet(queue), executed, approvals)
    /\ GatedRunsApproved

(* A step of one client that calls no capability. *)
LEMMA OneHistory ==
  ASSUME ApiInv, ApiHistory, NEW c \in Clients, NEW r, req' = [req EXCEPT ![c] = r],
         Attested(r, ToSet(queue'), executed, approvals'), ToSet(queue) \subseteq ToSet(queue'),
         approvals \subseteq approvals', executed' = executed, registry' = registry,
         Extends(tasks, tasks'), Recorded(tasks', executed, approvals')
  PROVE  ApiHistory'
  <1>1. \A d \in Clients : req'[d] = IF d = c THEN r ELSE req[d]
    BY DEF ApiInv, ApiTypeOK
  <1>2. ASSUME NEW d \in Clients
        PROVE  Attested(req'[d], ToSet(queue'), executed, approvals')
    <2>1. CASE d = c
      BY <1>1, <2>1
    <2>2. CASE d # c
      <3>1. Attested(req[d], ToSet(queue), executed, approvals) /\ req'[d] = req[d]
        BY <1>1, <2>2 DEF ApiHistory
      <3> QED BY <3>1 DEF Attested
    <2> QED BY <2>1, <2>2
  <1>3. ASSUME NEW i \in executed, tasks'[i].cap \in registry.gated
        PROVE  i \in approvals'
    <2>1. i \in RequestIds /\ tasks[i].status # "absent"
      BY DEF ApiHistory, Recorded
    <2>2. tasks'[i].cap = tasks[i].cap
      BY <2>1 DEF Extends
    <2> QED BY <1>3, <2>2 DEF ApiHistory, GatedRunsApproved
  <1> QED BY <1>2, <1>3 DEF ApiHistory, GatedRunsApproved

(* A request that is read, begun or refused: the store is as it was. *)
LEMMA ReadHistory ==
  ASSUME ApiInv, ApiHistory, NEW c \in Clients, NEW r, req' = [req EXCEPT ![c] = r],
         Attested(r, ToSet(queue), executed, approvals),
         UNCHANGED <<registry, tasks, queue, approvals, executed>>
  PROVE  ApiHistory'
  BY SameExtends, OneHistory DEF ApiHistory

(* A new request, or the answer to one that saved nothing. *)
Untold(r) == r.queued = FALSE /\ r.pc # "execute" /\ r.pc # "enqueue" /\ r.pc # "gate" /\ r.body = "none"

(* Nothing is to be known of it. *)
LEMMA FreshBacked ==
  ASSUME NEW r, Untold(r), NEW waiting, NEW ran, NEW ok
  PROVE  Attested(r, waiting, ran, ok)
  BY DEF Untold, Attested

(* Saving a status: what the store tells then. *)
LEMMA SavedRecorded ==
  ASSUME ApiInv, ApiHistory, NEW i \in RequestIds, Present(tasks, i), NEW s \in TaskStatuses,
         SaveStatus(i, s), NEW ran, NEW ok, executed \subseteq ran, ran \subseteq executed \cup {i},
         approvals \subseteq ok,
         s \in Begun => i \in ran, s = "approved" => i \in ok
  PROVE  Recorded(tasks', ran, ok) /\ Extends(tasks, tasks')
  <1>1. tasks \in [RequestIds -> TaskRecords]
    BY DEF ApiInv, ApiTypeOK
  <1>2. tasks' \in [RequestIds -> TaskRecords] /\ Extends(tasks, tasks')
    BY <1>1, SaveStatusExtends DEF SaveStatus
  <1>3. tasks'[i].status = s /\ \A j \in RequestIds \ {i} : tasks'[j] = tasks[j]
    BY <1>1 DEF SaveStatus
  <1>4. s # "absent"
    BY DEF TaskStatuses
  <1>5. Recorded(tasks, executed, approvals)
    BY DEF ApiHistory
  <1>6. ASSUME NEW j \in RequestIds
        PROVE  /\ tasks'[j].status \in Begun => j \in ran
               /\ tasks'[j].status = "approved" => j \in ok
    <2>1. CASE j = i
      BY <1>3, <2>1
    <2>2. CASE j # i
      BY <1>3, <1>5, <2>2 DEF Recorded
    <2> QED BY <2>1, <2>2
  <1>7. ASSUME NEW j \in ran
        PROVE  j \in RequestIds /\ tasks'[j].status # "absent"
    <2>1. CASE j = i
      BY <1>3, <1>4, <2>1
    <2>2. CASE j # i
      BY <1>3, <1>5, <2>2 DEF Recorded
    <2> QED BY <2>1, <2>2
  <1> QED BY <1>2, <1>6, <1>7 DEF Recorded

(* The histories after a submission, an inline run or cond run. *)
LEMMA CreateTaskHistory ==
  ASSUME ApiInv, ApiHistory, NEW c \in Clients, NEW op \in {"inline", "submit"}, NEW i \in RequestIds,
         NEW cap \in Asked, NEW accepted, CreateTask(c, op, i, cap, accepted)
  PROVE  ApiHistory'
  <1>1. /\ registry' = registry /\ queue' = queue /\ approvals' = approvals /\ executed' = executed
        /\ tasks \in [RequestIds -> TaskRecords]
    BY DEF CreateTask, ApiInv, ApiTypeOK
  <1>2. CASE ~Valid(cap, accepted)
    <2>1. PICK code : code = Code(c, 400)
      OBVIOUS
    <2>2. PICK r : r = [NoRequest EXCEPT !.op = op, !.id = 0, !.code = code]
      OBVIOUS
    <2>3. req' = [req EXCEPT ![c] = r] /\ tasks' = tasks
      BY <1>2, <2>1, <2>2 DEF CreateTask, Refuse, SetReq
    <2>4. Untold(r)
      BY <2>2 DEF NoRequest, Untold
    <2> QED BY <1>1, <2>3, <2>4, FreshBacked, ReadHistory
  <1>3. CASE Valid(cap, accepted)
    <2>1. PICK pc1 \in {"load", "enqueue"} : pc1 = IF op = "inline" THEN "load" ELSE "enqueue"
      OBVIOUS
    <2>2. PICK run \in BOOLEAN : run = (op = "inline")
      OBVIOUS
    <2>3. PICK r : r = [NoRequest EXCEPT !.op = op, !.id = i, !.saved = TRUE, !.run = run, !.pc = pc1]
      OBVIOUS
    <2>4. req' = [req EXCEPT ![c] = r]
      BY <1>3, <2>1, <2>2, <2>3 DEF CreateTask, SetReq
    <2>5. r.queued = FALSE /\ r.pc = pc1 /\ r.body = "none" /\ r.op = op /\ r.copy = "absent"
      BY <2>3 DEF NoRequest
    <2>6. Attested(r, ToSet(queue'), executed, approvals')
      BY <2>1, <2>5 DEF Attested
    <2>7. /\ tasks[i] = NoRecord
          /\ tasks' = [tasks EXCEPT ![i] = [status |-> "pending", cap |-> cap]]
      BY <1>3 DEF CreateTask, Unused
    <2>8. tasks[i].status = "absent"
      BY <2>7 DEF NoRecord
    <2>9. tasks'[i].status = "pending" /\ \A j \in RequestIds \ {i} : tasks'[j] = tasks[j]
      BY <1>1, <2>7
    <2>10. Extends(tasks, tasks')
      BY <2>8, <2>9 DEF Extends
    <2>11. Recorded(tasks', executed, approvals')
      BY <1>1, <2>8, <2>9 DEF ApiHistory, Recorded, Begun
    <2> QED BY <1>1, <2>4, <2>6, <2>10, <2>11, OneHistory
  <1> QED BY <1>2, <1>3

(* The histories after a refusal. *)
LEMMA RefuseHistory ==
  ASSUME ApiInv, ApiHistory, NEW c \in Clients, NEW op, NEW i, NEW code, Refuse(c, op, i, code),
         UNCHANGED <<registry, tasks, queue, approvals, executed>>
  PROVE  ApiHistory'
  <1>1. PICK k : k = Code(c, code)
    OBVIOUS
  <1>2. PICK r : r = [NoRequest EXCEPT !.op = op, !.id = i, !.code = k]
    OBVIOUS
  <1>3. req' = [req EXCEPT ![c] = r]
    BY <1>1, <1>2 DEF Refuse, SetReq
  <1>4. Untold(r)
    BY <1>2 DEF NoRequest, Untold
  <1> QED BY <1>3, <1>4, FreshBacked, ReadHistory

(* The histories after a request that only begins. *)
LEMMA BeginHistory ==
  ASSUME ApiInv, ApiHistory, NEW c \in Clients, NEW i \in RequestIds, NEW op, NEW run,
         RunQueued(c, i) \/ BeginDecision(c, op, i, run)
  PROVE  ApiHistory'
  <1>1. UNCHANGED <<registry, tasks, queue, approvals, executed>>
    BY DEF RunQueued, BeginDecision
  <1>2. CASE \E o, code : Refuse(c, o, i, code)
    BY <1>1, <1>2, RefuseHistory
  <1>3. CASE \E o, f, p : /\ p \in {"load", "decide"}
                          /\ SetReq(c, [NoRequest EXCEPT !.op = o, !.id = i, !.run = f, !.pc = p])
    <2>1. PICK o, f, p : /\ p \in {"load", "decide"}
                         /\ SetReq(c, [NoRequest EXCEPT !.op = o, !.id = i, !.run = f, !.pc = p])
      BY <1>3
    <2>2. PICK r : r = [NoRequest EXCEPT !.op = o, !.id = i, !.run = f, !.pc = p]
      OBVIOUS
    <2>3. req' = [req EXCEPT ![c] = r]
      BY <2>1, <2>2 DEF SetReq
    <2>4. Untold(r)
      BY <2>1, <2>2 DEF NoRequest, Untold
    <2> QED BY <1>1, <2>3, <2>4, FreshBacked, ReadHistory
  <1>4. CASE RunQueued(c, i)
    <2>1. CASE tasks[i] = NoRecord
      BY <1>2, <1>4, <2>1 DEF RunQueued
    <2>2. CASE tasks[i] # NoRecord
      BY <1>3, <1>4, <2>2 DEF RunQueued
    <2> QED BY <2>1, <2>2
  <1>5. CASE BeginDecision(c, op, i, run)
    <2>1. CASE tasks[i] = NoRecord
      BY <1>2, <1>5, <2>1 DEF BeginDecision
    <2>2. CASE tasks[i] # NoRecord /\ tasks[i].status # "awaiting_approval"
      BY <1>2, <1>5, <2>2 DEF BeginDecision
    <2>3. CASE tasks[i] # NoRecord /\ tasks[i].status = "awaiting_approval"
      BY <1>3, <1>5, <2>3 DEF BeginDecision
    <2> QED BY <2>1, <2>2, <2>3
  <1> QED BY <1>4, <1>5

(* The histories after a task or the health of the engine was read. *)
LEMMA GetHistory ==
  ASSUME ApiInv, ApiHistory, NEW c \in Clients, NEW i \in RequestIds, GetTask(c, i) \/ GetHealth(c)
  PROVE  ApiHistory'
  <1>1. CASE GetTask(c, i)
    <2>1. UNCHANGED <<registry, tasks, queue, approvals, executed>>
      BY <1>1 DEF GetTask
    <2>2. PICK k : k = Code(c, IF tasks[i] = NoRecord THEN 404 ELSE 200)
      OBVIOUS
    <2>3. PICK status : status = tasks[i].status
      OBVIOUS
    <2>4. PICK r : r = [NoRequest EXCEPT !.op = "get", !.id = i, !.body = status, !.code = k]
      OBVIOUS
    <2>5. req' = [req EXCEPT ![c] = r]
      BY <1>1, <2>2, <2>3, <2>4 DEF GetTask, SetReq
    <2>6. r.pc = "done" /\ r.id = i /\ r.body = status /\ r.queued = FALSE
      BY <2>4 DEF NoRequest
    <2>7. Attested(r, ToSet(queue), executed, approvals)
      BY <2>3, <2>6 DEF Attested, ApiHistory, Recorded, Begun
    <2> QED BY <2>1, <2>5, <2>7, ReadHistory
  <1>2. CASE GetHealth(c)
    <2>1. UNCHANGED <<registry, tasks, queue, approvals, executed>>
      BY <1>2 DEF GetHealth
    <2>2. PICK k : k = IF RegistryHealthy(registry) /\ QueueHealthy THEN 200 ELSE 503
      OBVIOUS
    <2>3. PICK body \in {"room", "full"} : body = IF Len(queue) < QueueSize THEN "room" ELSE "full"
      OBVIOUS
    <2>4. PICK r : r = [NoRequest EXCEPT !.op = "health", !.body = body, !.code = k]
      OBVIOUS
    <2>5. req' = [req EXCEPT ![c] = r]
      BY <1>2, <2>2, <2>3, <2>4 DEF GetHealth, SetReq
    <2>6. r.pc = "done" /\ r.body = body /\ r.queued = FALSE
      BY <2>4 DEF NoRequest
    <2>7. Attested(r, ToSet(queue), executed, approvals)
      BY <2>6 DEF Attested
    <2> QED BY <2>1, <2>5, <2>7, ReadHistory
  <1> QED BY <1>1, <1>2

(* What an append adds to a queue. *)
LEMMA AppendedIsQueued ==
  ASSUME NEW q \in Seq(Nat), NEW n \in Nat
  PROVE  ToSet(q) \subseteq ToSet(Append(q, n)) /\ n \in ToSet(Append(q, n))
  <1>1. PICK p : p = Append(q, n)
    OBVIOUS
  <1>2. /\ DOMAIN q = 1..Len(q) /\ Len(q) \in Nat /\ DOMAIN p = 1..(Len(q) + 1)
        /\ p[Len(q) + 1] = n /\ \A k \in 1..Len(q) : p[k] = q[k]
    BY <1>1
  <1>3. \A x \in ToSet(q) : x \in ToSet(p)
    BY <1>2 DEF ToSet
  <1>4. n \in ToSet(p)
    BY <1>2 DEF ToSet
  <1> QED BY <1>1, <1>3, <1>4

(* The histories after the queue took an id or did not. *)
LEMMA EnqueueHistory ==
  ASSUME ApiInv, ApiHistory, NEW c \in Clients, Enqueue(c) \/ EnqueueAndExit(c)
  PROVE  ApiHistory'
  <1>0. /\ queue \in Seq(Nat) /\ req[c] \in Requests /\ InProgress(c, req[c], tasks)
        /\ Attested(req[c], ToSet(queue), executed, approvals)
    BY ApiFacts DEF ApiHistory
  <1>1. /\ UNCHANGED <<registry, tasks, approvals, executed>> /\ req[c].pc = "enqueue"
    BY DEF Enqueue, EnqueueAndExit
  <1>2. req[c].op \in {"submit", "approve"} /\ req[c].queued = FALSE /\ req[c].id \in Nat
    BY <1>0, <1>1 DEF InProgress, Requests
  <1>3. req[c].op = "approve" => req[c].id \in approvals
    BY <1>0, <1>1 DEF Attested
  <1>4. CASE EnqueueAndExit(c)
    <2>1. PICK r : r = Ended(req[c], 0, "approved")
      OBVIOUS
    <2>2. req' = [req EXCEPT ![c] = r] /\ c \in Shells /\ queue' = queue
      BY <1>4, <2>1 DEF EnqueueAndExit, Answer, SetReq, Code, Ended
    <2>3. r.pc = "done" /\ r.id = req[c].id /\ r.body = "approved" /\ r.queued = FALSE
      <3>1. 0 \in Nat /\ "approved" \in Bodies
        BY DEF TaskStatuses, Bodies
      <3> QED BY <1>0, <1>2, <2>1, <3>1, EndedRequest DEF Keeps
    <2>4. req[c].op = "approve"
      BY <1>0, <1>2, <2>2 DEF InProgress
    <2>5. Attested(r, ToSet(queue), executed, approvals)
      BY <1>3, <2>3, <2>4 DEF Attested
    <2> QED BY <1>1, <2>2, <2>5, ReadHistory
  <1>5. CASE Enqueue(c)
    <2>1. PICK hasRoom \in BOOLEAN : hasRoom = ~(Len(queue) >= QueueSize)
      OBVIOUS
    <2>2. PICK code : code = CASE req[c].op = "submit" -> IF Len(queue) >= QueueSize THEN 429 ELSE 202
                               [] OTHER -> IF Len(queue) >= QueueSize THEN 500 ELSE 200
      OBVIOUS
    <2>3. PICK body \in {"pending", "approved"} :
              body = IF req[c].op = "submit" THEN "pending" ELSE "approved"
      OBVIOUS
    <2>4. PICK r : r = [req[c] EXCEPT !.pc = "done", !.queued = hasRoom, !.code = code, !.body = body]
      OBVIOUS
    <2>5. req' = [req EXCEPT ![c] = r]
      BY <1>5, <2>1, <2>2, <2>3, <2>4 DEF Enqueue, SetReq
    <2>6. r.pc = "done" /\ r.id = req[c].id /\ r.body = body /\ r.queued = hasRoom
      BY <1>0, <2>4 DEF Requests
    <2>7. queue' = IF hasRoom THEN Append(queue, req[c].id) ELSE queue
      BY <1>5, <2>1 DEF Enqueue
    <2>8. ToSet(queue) \subseteq ToSet(queue') /\ (hasRoom = TRUE => req[c].id \in ToSet(queue'))
      BY <1>0, <1>2, <2>7, AppendedIsQueued
    <2>9. body = "approved" => req[c].id \in approvals
      BY <1>2, <1>3, <2>3
    <2>10. Attested(r, ToSet(queue'), executed, approvals)
      BY <2>3, <2>6, <2>8, <2>9 DEF Attested
    <2>11. Recorded(tasks, executed, approvals)
      BY DEF ApiHistory
    <2> QED BY <1>1, <2>5, <2>8, <2>10, <2>11, SameExtends, OneHistory
  <1> QED BY <1>4, <1>5

(* The histories after run_task has loaded the task. *)
LEMMA LoadTaskHistory ==
  ASSUME ApiInv, ApiHistory, NEW c \in Clients, LoadTask(c)
  PROVE  ApiHistory'
  <1>0. /\ tasks \in [RequestIds -> TaskRecords] /\ req[c] \in Requests
        /\ InProgress(c, req[c], tasks)
    BY ApiFacts
  <1>1. /\ UNCHANGED <<registry, tasks, queue, approvals, executed>> /\ req[c].pc = "load"
    BY DEF LoadTask
  <1>2. Present(tasks, req[c].id) /\ req[c].queued = FALSE
    BY <1>0, <1>1 DEF InProgress
  <1>3. PICK status : status = tasks[req[c].id].status
    OBVIOUS
  <1>4. /\ req[c].id \in RequestIds /\ status \in TaskStatuses /\ status \in Bodies
    BY <1>0, <1>2, <1>3, PresentIsStored DEF Bodies
  <1>5. /\ status \in Begun => req[c].id \in executed
        /\ status = "approved" => req[c].id \in approvals
    BY <1>3, <1>4 DEF ApiHistory, Recorded
  <1>6. ASSUME NEW k \in Nat, NEW body, body \in {status, "none"},
               req' = [req EXCEPT ![c] = Ended(req[c], k, body)]
        PROVE  ApiHistory'
    <2>1. body \in Bodies
      BY <1>4, <1>6 DEF Bodies
    <2>2. PICK r : r = Ended(req[c], k, body)
      OBVIOUS
    <2>3. r.pc = "done" /\ r.id = req[c].id /\ r.body = body /\ r.queued = FALSE
      BY <1>0, <1>2, <2>1, <2>2, EndedRequest DEF Keeps
    <2>4. Attested(r, ToSet(queue), executed, approvals)
      BY <1>5, <1>6, <2>3 DEF Attested, Begun
    <2> QED BY <1>1, <1>6, <2>2, <2>4, ReadHistory
  <1>7. CASE status \notin Executable
    <2>1. PICK k : k = Code(c, 200)
      OBVIOUS
    <2>2. k \in Nat
      BY <2>1 DEF Code
    <2>3. req' = [req EXCEPT ![c] = Ended(req[c], k, status)]
      BY <1>3, <1>7, <2>1 DEF LoadTask, Answer, SetReq, Ended
    <2> QED BY <1>6, <2>2, <2>3
  <1>8. CASE status \in Executable /\ tasks[req[c].id].cap \notin registry.names
    <2>1. PICK k : k = Code(c, IF req[c].op = "run" THEN 404 ELSE 400)
      OBVIOUS
    <2>2. k \in Nat
      BY <2>1 DEF Code
    <2>3. req' = [req EXCEPT ![c] = Ended(req[c], k, "none")]
      BY <1>3, <1>8, <2>1 DEF LoadTask, Answer, SetReq, Ended
    <2> QED BY <1>6, <2>2, <2>3
  <1>9. CASE status \in Executable /\ tasks[req[c].id].cap \in registry.names
    <2>1. PICK r : r = [req[c] EXCEPT !.pc = "gate", !.copy = status]
      OBVIOUS
    <2>2. req' = [req EXCEPT ![c] = r]
      BY <1>3, <1>9, <2>1 DEF LoadTask, SetReq
    <2>3. r.pc = "gate" /\ r.copy = status /\ r.id = req[c].id /\ r.queued = req[c].queued
      BY <1>0, <1>4, <2>1 DEF Requests
    <2>4. Attested(r, ToSet(queue), executed, approvals)
      BY <1>2, <1>5, <2>3 DEF Attested
    <2> QED BY <1>1, <2>2, <2>4, ReadHistory
  <1> QED BY <1>7, <1>8, <1>9

(* The histories after a capability has ended. *)
LEMMA ExecuteHistory ==
  ASSUME ApiInv, ApiHistory, NEW c \in Clients, Execute(c)
  PROVE  ApiHistory'
  <1>0. /\ tasks \in [RequestIds -> TaskRecords] /\ req[c] \in Requests
        /\ InProgress(c, req[c], tasks) /\ Attested(req[c], ToSet(queue), executed, approvals)
    BY ApiFacts DEF ApiHistory
  <1>1. /\ UNCHANGED <<registry, queue, approvals, executed>> /\ req[c].pc = "execute"
    BY DEF Execute
  <1>2. /\ Present(tasks, req[c].id) /\ req[c].queued = FALSE /\ req[c].id \in executed
    BY <1>0, <1>1 DEF InProgress, Attested
  <1>3. req[c].id \in RequestIds
    BY <1>2 DEF Present
  <1>4. PICK status \in {"completed", "failed"} : SaveStatus(req[c].id, status) /\ Answer(c, 200, status)
    BY DEF Execute
  <1>5. status \in TaskStatuses /\ status \in Bodies /\ status # "approved"
    BY <1>4 DEF TaskStatuses, Bodies
  <1>6. Recorded(tasks', executed, approvals) /\ Extends(tasks, tasks')
    BY <1>2, <1>3, <1>4, <1>5, SavedRecorded
  <1>7. PICK k : k = Code(c, 200)
    OBVIOUS
  <1>8. k \in Nat
    BY <1>7 DEF Code
  <1>9. PICK r : r = Ended(req[c], k, status)
    OBVIOUS
  <1>10. req' = [req EXCEPT ![c] = r]
    BY <1>4, <1>7, <1>9 DEF Answer, SetReq, Ended
  <1>11. r.pc = "done" /\ r.id = req[c].id /\ r.body = status /\ r.queued = FALSE
    BY <1>0, <1>2, <1>5, <1>8, <1>9, EndedRequest DEF Keeps
  <1>12. Attested(r, ToSet(queue), executed, approvals)
    BY <1>2, <1>5, <1>11 DEF Attested
  <1> QED BY <1>1, <1>6, <1>10, <1>12, OneHistory

(* The histories after the gate: a task of a gated capability starts only   *)
(* from a copy that says approved.                                          *)
LEMMA GateHistory ==
  ASSUME ApiInv, ApiHistory, NEW c \in Clients, Gate(c)
  PROVE  ApiHistory'
  <1>0. /\ tasks \in [RequestIds -> TaskRecords] /\ req[c] \in Requests
        /\ InProgress(c, req[c], tasks) /\ Attested(req[c], ToSet(queue), executed, approvals)
    BY ApiFacts DEF ApiHistory
  <1>1. /\ UNCHANGED <<registry, queue, approvals>> /\ req[c].pc = "gate"
    BY DEF Gate
  <1>2. PICK i : i = req[c].id
    OBVIOUS
  <1>3. Present(tasks, i) /\ req[c].queued = FALSE /\ i \in RequestIds
    BY <1>0, <1>1, <1>2 DEF InProgress, Present
  <1>4. req[c].copy = "approved" => i \in approvals
    BY <1>0, <1>1, <1>2 DEF Attested
  <1>5. PICK status \in {"running", "awaiting_approval", "policy_denied"} :
           /\ SaveStatus(i, status)
           /\ executed' = IF status = "running" THEN executed \cup {i} ELSE executed
           /\ req' = [req EXCEPT ![c] =
                        IF status = "running"
                        THEN [req[c] EXCEPT !.pc = "execute", !.copy = "absent", !.saved = TRUE]
                        ELSE [req[c] EXCEPT !.pc = "done", !.copy = "absent", !.saved = TRUE,
                                            !.code = Code(c, 200), !.body = status]]
           /\ status = "running" /\ tasks[i].cap \in registry.gated => req[c].copy = "approved"
    <2> DEFINE Statuses == IF req[c].copy = "approved" THEN {"running"}
                           ELSE IF tasks[i].cap \in registry.gated THEN {"awaiting_approval"}
                           ELSE IF c \in Shells THEN {"running"}
                           ELSE {"running", "awaiting_approval", "policy_denied"}
               Step(status) ==
                   /\ SaveStatus(i, status)
                   /\ executed' = IF status = "running" THEN executed \cup {i} ELSE executed
                   /\ req' = [req EXCEPT ![c] =
                        IF status = "running"
                        THEN [req[c] EXCEPT !.pc = "execute", !.copy = "absent", !.saved = TRUE]
                        ELSE [req[c] EXCEPT !.pc = "done", !.copy = "absent", !.saved = TRUE,
                                            !.code = Code(c, 200), !.body = status]]
    <2>1. \E status \in Statuses : Step(status)
      BY <1>2, Zenon DEF Gate, SetReq
    <2>2. /\ Statuses \subseteq {"running", "awaiting_approval", "policy_denied"}
          /\ "running" \in Statuses /\ tasks[i].cap \in registry.gated => req[c].copy = "approved"
      <3> HIDE DEF Step
      <3>1. CASE req[c].copy = "approved"
        BY <3>1
      <3>2. CASE req[c].copy # "approved" /\ tasks[i].cap \in registry.gated
        BY <3>2
      <3>3. CASE req[c].copy # "approved" /\ tasks[i].cap \notin registry.gated
        BY <3>3
      <3> QED BY <3>1, <3>2, <3>3
    <2>3. \E status \in {"running", "awaiting_approval", "policy_denied"} :
              Step(status) /\ (status = "running" /\ tasks[i].cap \in registry.gated
                                  => req[c].copy = "approved")
      <3> HIDE DEF Step, Statuses
      <3> QED BY <2>1, <2>2
    <2> QED BY <2>3, Zenon
  <1>6. status \in TaskStatuses /\ status \in Bodies /\ (status \in Begun => status = "running")
    BY <1>5 DEF TaskStatuses, Bodies, Begun
  <1>7. Recorded(tasks', executed', approvals) /\ Extends(tasks, tasks')
    BY <1>3, <1>5, <1>6, SavedRecorded
  <1>8. CASE status # "running"
    <2>1. PICK k : k = Code(c, 200)
      OBVIOUS
    <2>2. k \in Nat
      BY <2>1 DEF Code
    <2>3. PICK r : r = [req[c] EXCEPT !.pc = "done", !.copy = "absent", !.saved = TRUE,
                                      !.code = k, !.body = status]
      OBVIOUS
    <2>4. req' = [req EXCEPT ![c] = r] /\ executed' = executed
      BY <1>5, <1>8, <2>1, <2>3
    <2>5. r.pc = "done" /\ r.queued = req[c].queued /\ r.body = status
      BY <1>0, <1>6, <2>2, <2>3 DEF Requests, Bodies
    <2>6. Attested(r, ToSet(queue), executed, approvals)
      BY <1>3, <1>5, <2>5 DEF Attested
    <2> QED BY <1>1, <1>7, <2>4, <2>6, OneHistory
  <1>9. CASE status = "running"
    <2>1. PICK r : r = [req[c] EXCEPT !.pc = "execute", !.copy = "absent", !.saved = TRUE]
      OBVIOUS
    <2>2. req' = [req EXCEPT ![c] = r] /\ executed' = executed \cup {i}
      BY <1>5, <1>9, <2>1
    <2>3. r.pc = "execute" /\ r.queued = FALSE /\ r.id = i
      BY <1>0, <1>2, <1>3, <2>1 DEF Requests
    <2>4. Attested(r, ToSet(queue), executed', approvals)
      BY <2>2, <2>3 DEF Attested
    <2>5. \A d \in Clients : req'[d] = IF d = c THEN r ELSE req[d]
      BY <2>2 DEF ApiInv, ApiTypeOK
    <2>6. ASSUME NEW d \in Clients
          PROVE  Attested(req'[d], ToSet(queue), executed', approvals)
      <3>1. CASE d = c
        BY <2>4, <2>5, <3>1
      <3>2. CASE d # c
        <4>1. Attested(req[d], ToSet(queue), executed, approvals) /\ req'[d] = req[d]
          BY <2>5, <3>2 DEF ApiHistory
        <4> QED BY <2>2, <4>1 DEF Attested
      <3> QED BY <3>1, <3>2
    <2>7. ASSUME NEW j \in executed', tasks'[j].cap \in registry.gated
          PROVE  j \in approvals
      <3>1. CASE j = i
        <4>1. tasks'[i].cap = tasks[i].cap
          BY <1>3, <1>7 DEF Present, Extends
        <4> QED BY <1>4, <1>5, <1>9, <2>7, <3>1, <4>1
      <3>2. CASE j # i
        <4>1. j \in executed
          BY <2>2, <2>7, <3>2
        <4>2. j \in RequestIds /\ tasks[j].status # "absent"
          BY <4>1 DEF ApiHistory, Recorded
        <4>3. tasks'[j].cap = tasks[j].cap
          BY <1>7, <4>2 DEF Extends
        <4> QED BY <2>7, <4>1, <4>3 DEF ApiHistory, GatedRunsApproved
      <3> QED BY <3>1, <3>2
    <2> QED BY <1>1, <1>7, <2>6, <2>7 DEF ApiHistory, GatedRunsApproved
  <1> QED BY <1>8, <1>9

(* The histories after a decision was saved. *)
LEMMA SaveDecisionHistory ==
  ASSUME ApiInv, ApiHistory, NEW c \in Clients, SaveDecision(c)
  PROVE  ApiHistory'
  <1>0. /\ tasks \in [RequestIds -> TaskRecords] /\ req[c] \in Requests
        /\ InProgress(c, req[c], tasks)
    BY ApiFacts
  <1>1. PICK q : q = [req[c] EXCEPT !.saved = TRUE]
    OBVIOUS
  <1>2. /\ q \in Requests /\ q.pc = req[c].pc /\ q.op = req[c].op /\ q.id = req[c].id
        /\ q.run = req[c].run /\ q.queued = req[c].queued
    BY <1>0, <1>1 DEF Requests
  <1>3. UNCHANGED <<registry, queue, executed>> /\ req[c].pc = "decide"
    BY <1>1, <1>2 DEF SaveDecision
  <1>4. /\ Present(tasks, q.id) /\ q.op \in {"approve", "cancel"} /\ q.queued = FALSE
        /\ q.id \in RequestIds
    BY <1>0, <1>2, <1>3 DEF InProgress, Present
  <1>5. CASE q.op = "cancel"
    <2>1. SaveStatus(q.id, "cancelled") /\ approvals' = approvals
      BY <1>1, <1>5 DEF SaveDecision
    <2>2. "cancelled" \in TaskStatuses /\ "cancelled" \notin Begun
      BY DEF TaskStatuses, Begun
    <2>3. Recorded(tasks', executed, approvals) /\ Extends(tasks, tasks')
      BY <1>4, <2>1, <2>2, SavedRecorded
    <2>4. PICK k : k = Code(c, 200)
      OBVIOUS
    <2>5. k \in Nat
      BY <2>4 DEF Code
    <2>6. PICK r : r = [q EXCEPT !.pc = "done", !.code = k, !.body = "cancelled"]
      OBVIOUS
    <2>7. req' = [req EXCEPT ![c] = r]
      BY <1>1, <1>5, <2>4, <2>6 DEF SaveDecision, SetReq
    <2>8. r.pc = "done" /\ r.queued = FALSE /\ r.body = "cancelled"
      BY <1>2, <1>4, <2>5, <2>6 DEF Requests, TaskStatuses
    <2>9. Attested(r, ToSet(queue), executed, approvals)
      BY <2>8 DEF Attested
    <2> QED BY <1>3, <2>1, <2>3, <2>7, <2>9, OneHistory
  <1>6. CASE q.op = "approve"
    <2>1. SaveStatus(q.id, "approved") /\ approvals' = approvals \cup {q.id}
      BY <1>1, <1>6 DEF SaveDecision
    <2>2. "approved" \in TaskStatuses /\ "approved" \notin Begun
      BY DEF TaskStatuses, Begun
    <2>3. Recorded(tasks', executed, approvals') /\ Extends(tasks, tasks')
      BY <1>4, <2>1, <2>2, SavedRecorded
    <2>4. PICK next \in {"load", "enqueue"} : next = IF q.run THEN "load" ELSE "enqueue"
      OBVIOUS
    <2>5. PICK r : r = [q EXCEPT !.pc = next]
      OBVIOUS
    <2>6. req' = [req EXCEPT ![c] = r]
      BY <1>1, <1>6, <2>4, <2>5 DEF SaveDecision, SetReq
    <2>7. r.pc = next /\ r.queued = FALSE /\ r.id = q.id
      BY <1>2, <1>4, <2>5 DEF Requests
    <2>8. Attested(r, ToSet(queue), executed, approvals')
      BY <2>1, <2>4, <2>7 DEF Attested
    <2> QED BY <1>3, <2>1, <2>3, <2>6, <2>8, OneHistory
  <1> QED BY <1>4, <1>5, <1>6

(* The histories as the server starts. *)
LEMMA ApiHistoryInit ==
  ASSUME ApiInit
  PROVE  ApiHistory
  <1>1. Recorded(tasks, executed, approvals)
    BY DEF ApiInit, Recorded, Begun
  <1>2. ASSUME NEW c \in Clients
        PROVE  Attested(req[c], ToSet(queue), executed, approvals)
    <2>1. req[c] = NoRequest
      BY DEF ApiInit
    <2>2. Untold(req[c])
      BY <2>1 DEF NoRequest, Untold
    <2> QED BY <2>2, FreshBacked
  <1>3. GatedRunsApproved
    BY DEF ApiInit, GatedRunsApproved
  <1> QED BY <1>1, <1>2, <1>3 DEF ApiHistory

(* Every step of every client keeps them. *)
LEMMA ApiHistoryStep ==
  ASSUME ApiInv, ApiHistory, [ApiNext]_apiVars
  PROVE  ApiHistory'
  <1>1. CASE UNCHANGED apiVars
    BY <1>1 DEF apiVars, ApiHistory, GatedRunsApproved
  <1>2. ASSUME NEW c \in Clients, NEW i \in RequestIds, Request(c, i) \/ Command(c, i)
        PROVE  ApiHistory'
    <2>1. CASE \E cap \in Asked, accepted \in BOOLEAN : CreateTask(c, "inline", i, cap, accepted)
      BY <2>1, CreateTaskHistory
    <2>2. CASE \E cap \in Asked, accepted \in BOOLEAN : CreateTask(c, "submit", i, cap, accepted)
      BY <2>2, CreateTaskHistory
    <2>3. CASE GetTask(c, i) \/ GetHealth(c)
      BY <2>3, GetHistory
    <2>4. CASE \/ RunQueued(c, i) \/ BeginDecision(c, "cancel", i, FALSE)
               \/ \E run \in BOOLEAN : BeginDecision(c, "approve", i, run)
      BY <2>4, BeginHistory
    <2> QED BY <1>2, <2>1, <2>2, <2>3, <2>4 DEF Request, Command, Manage
  <1>3. ASSUME NEW c \in Clients,
               \/ Enqueue(c) \/ EnqueueAndExit(c) \/ LoadTask(c) \/ Gate(c) \/ Execute(c)
               \/ SaveDecision(c)
        PROVE  ApiHistory'
    BY <1>3, EnqueueHistory, LoadTaskHistory, GateHistory, ExecuteHistory, SaveDecisionHistory
  <1> QED BY <1>1, <1>2, <1>3 DEF ApiNext

(* ApiInv and ApiHistory are invariants. *)
LEMMA ApiInvariants == ApiSpec => [](ApiInv /\ ApiHistory)
  <1>1. ApiInit => ApiInv /\ ApiHistory
    BY ApiInvInit, ApiHistoryInit
  <1>2. ApiInv /\ ApiHistory /\ [ApiNext]_apiVars => (ApiInv /\ ApiHistory)'
    BY ApiInvStep, ApiHistoryStep
  <1> QED BY <1>1, <1>2, PTL DEF ApiSpec

(* AnswersTellEffects of one request, the flags read as truth values. *)
Faithful(r, store, names, waiting, ran, ok) ==
    r.pc = "done" =>
        /\ r.op = "submit" /\ r.code = 202 => r.id \in waiting
        /\ r.op = "approve" /\ r.code = 200 /\ ~r.run => r.id \in waiting
        /\ r.op = "submit" /\ r.code \in {202, 429} => store[r.id] # NoRecord
        /\ r.body \in {"completed", "failed"} => r.id \in ran
        /\ r.body = "approved" => r.id \in ok
        /\ r.run /\ r.code \in {0, 200} => r.body \notin Executable
        /\ r.op = "health" /\ r.body = "full" => r.code = 503
        /\ r.op \in {"submit", "run", "cancel"} /\ r.code \in {2, 400, 404} => ~r.saved
        /\ r.op = "approve" /\ r.code \in {2, 400, 404} /\ r.saved => store[r.id].cap \notin names

(* Told and Attested imply it. *)
LEMMA ToldIsFaithful ==
  ASSUME NEW c, NEW r \in Requests, NEW store, NEW names, Told(c, r, store, names),
         NEW waiting, NEW ran, NEW ok, Attested(r, waiting, ran, ok),
         r.saved = TRUE => store[r.id] # NoRecord
  PROVE  Faithful(r, store, names, waiting, ran, ok)
  <1>1. r.saved \in BOOLEAN /\ r.queued \in BOOLEAN /\ r.run \in BOOLEAN
    BY DEF Requests
  <1>2. CASE r.pc # "done"
    BY <1>2 DEF Faithful
  <1>3. CASE r.pc = "done"
    <2>1. r.op = "submit" /\ r.code = 202 => r.id \in waiting
      BY <1>3 DEF Told, Attested
    <2>2. r.op = "approve" /\ r.code = 200 /\ ~r.run => r.id \in waiting
      BY <1>1, <1>3 DEF Told, Attested
    <2>3. r.op = "submit" /\ r.code \in {202, 429} => store[r.id] # NoRecord
      BY <1>3 DEF Told
    <2>4. /\ r.body \in {"completed", "failed"} => r.id \in ran
          /\ r.body = "approved" => r.id \in ok
      BY <1>3 DEF Attested
    <2>5. r.run /\ r.code \in {0, 200} => r.body \notin Executable
      BY <1>1, <1>3 DEF Told
    <2>6. r.op = "health" /\ r.body = "full" => r.code = 503
      BY <1>3 DEF Told
    <2>7. r.op \in {"submit", "run", "cancel"} /\ r.code \in {2, 400, 404} => ~r.saved
      BY <1>1, <1>3 DEF Told
    <2>8. r.op = "approve" /\ r.code \in {2, 400, 404} /\ r.saved => store[r.id].cap \notin names
      BY <1>1, <1>3 DEF Told
    <2> QED BY <2>1, <2>2, <2>3, <2>4, <2>5, <2>6, <2>7, <2>8 DEF Faithful
  <1> QED BY <1>2, <1>3

(* The invariants say of every request what AnswersTellEffects says. *)
LEMMA ApiInvTells == ApiInv /\ ApiHistory => AnswersTellEffects
  <1> SUFFICES ASSUME ApiInv, ApiHistory PROVE AnswersTellEffects
    OBVIOUS
  <1>1. ASSUME NEW c \in Clients
        PROVE  Faithful(req[c], tasks, registry.names, ToSet(queue), executed, approvals)
    <2>1. /\ tasks \in [RequestIds -> TaskRecords] /\ req[c] \in Requests
          /\ InProgress(c, req[c], tasks) /\ Told(c, req[c], tasks, registry.names)
          /\ Attested(req[c], ToSet(queue), executed, approvals)
      BY ApiFacts DEF ApiHistory
    <2>2. req[c].saved = TRUE => Present(tasks, req[c].id)
      BY <2>1 DEF InProgress
    <2>3. req[c].saved = TRUE => tasks[req[c].id] # NoRecord
      BY <2>1, <2>2, PresentIsStored
    <2> QED BY <2>1, <2>3, ToldIsFaithful
  <1> QED BY <1>1, Zenon DEF AnswersTellEffects, Faithful

(* AnswersTellEffects, for any number of clients, commands and tasks, any   *)
(* capacity of the queue and any configuration: what a route or a command   *)
(* answers is so, however the requests interleave.                          *)
THEOREM AnswersTheorem == ApiSpec => []AnswersTellEffects
  BY ApiInvariants, ApiInvTells, PTL

(* GatedRunsApproved, for any number of clients, commands and tasks and any *)
(* configuration: no race between requests and commands on the one file     *)
(* calls a gated capability for a task that nobody approved.                *)
THEOREM GatedTheorem == ApiSpec => []GatedRunsApproved
  <1>1. ApiHistory => GatedRunsApproved
    BY DEF ApiHistory
  <1> QED BY <1>1, ApiInvariants, PTL
=============================================================================
