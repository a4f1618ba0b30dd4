--------------------------- MODULE LocalTaskStore ---------------------------
(***************************************************************************)
(* engine/runtime/store.py: LocalTaskStore, the JSON file that the server  *)
(* and the CLI share.  Every call opens the lock file and takes flock on   *)
(* it, so threads and processes exclude each other alike; a save reads the *)
(* whole file, changes one key, writes a temporary file, fsyncs it and     *)
(* renames it over the old one.  Each system call is a step, and a client  *)
(* may be killed, or the machine lose power, between any two of them.      *)
(***************************************************************************)
CONSTANTS
    Clients,     \* threads and processes that hold a store object
    Ids,         \* task ids
    Records,     \* task records
    Absent,      \* no record under this id
    ReadRequest, \* get, list or health_check: all of them call _read
    NoClient,    \* the lock is free
    Corrupt,     \* a file json.loads rejects
    Faults       \* "io": a system call of the write fails; "kill"; "power"

Saves == [id : Ids, record : Records]
Requests == Saves \cup {ReadRequest}
Payloads == [Ids -> Records \cup {Absent}]
Empty == [i \in Ids |-> Absent]

ASSUME StoreConstants ==
    /\ Absent \notin Records
    /\ ReadRequest \notin Saves
    /\ NoClient \notin Clients
    /\ Corrupt \notin Payloads
    /\ Faults \subseteq {"io", "kill", "power"}

VARIABLES
    file,        \* what the path names: [content, synced]
    disk,        \* what the directory on the platter names: [content, synced]
    lock,        \* the holder of flock(LOCK_EX)
    pc,          \* [Clients -> label of the next step]
    request,     \* [Clients -> the call]
    payload,     \* [Clients -> the dictionary in memory]
    tmp,         \* [Clients -> state of the call's temporary file]
    raised       \* [Clients -> the call ends in an exception]

vars == <<file, disk, lock, pc, request, payload, tmp, raised>>

Files == [content : Payloads \cup {Corrupt}, synced : BOOLEAN]

WriteLabels == {"mkstemp", "dump", "fsync", "replace"}
LockedLabels == WriteLabels \cup {"read", "release"}
Labels == LockedLabels \cup {"idle", "acquire", "dead"}

(* A missing or empty file reads as {}. *)
Init ==
    /\ file = [content |-> Empty, synced |-> TRUE]
    /\ disk = file
    /\ lock = NoClient
    /\ pc = [c \in Clients |-> "idle"]
    /\ request = [c \in Clients |-> ReadRequest]
    /\ payload = [c \in Clients |-> Empty]
    /\ tmp = [c \in Clients |-> "none"]
    /\ raised = [c \in Clients |-> FALSE]

Goto(c, l) == pc' = [pc EXCEPT ![c] = l]

Call(c) ==
    /\ pc[c] = "idle"
    /\ \E r \in Requests : request' = [request EXCEPT ![c] = r]
    /\ Goto(c, "acquire")
    /\ UNCHANGED <<file, disk, lock, payload, tmp, raised>>

(* Mutation: save without _locked(). *)
AcquireLockUnguarded(c) ==
    /\ pc[c] = "acquire"
    /\ lock' = c
    /\ Goto(c, "read")
    /\ UNCHANGED <<file, disk, request, payload, tmp, raised>>

AcquireLock(c) ==
    /\ pc[c] = "acquire"
    /\ lock = NoClient
    /\ lock' = c
    /\ Goto(c, "read")
    /\ UNCHANGED <<file, disk, request, payload, tmp, raised>>

(* json.loads raises on a file it cannot parse. *)
ReadUnlocked(c) ==
    /\ pc[c] = "read"
    /\ raised' = [raised EXCEPT ![c] = (file.content = Corrupt)]
    /\ payload' = [payload EXCEPT ![c] = IF file.content = Corrupt THEN Empty ELSE file.content]
    /\ Goto(c, IF file.content = Corrupt \/ request[c] = ReadRequest
               THEN "release" ELSE "mkstemp")
    /\ UNCHANGED <<file, disk, lock, request, tmp>>

(* payload[task.task_id] = ..., then the first line of _write_unlocked. *)
Mkstemp(c) ==
    /\ pc[c] = "mkstemp"
    /\ payload' = [payload EXCEPT ![c][request[c].id] = request[c].record]
    /\ tmp' = [tmp EXCEPT ![c] = "created"]
    /\ Goto(c, "dump")
    /\ UNCHANGED <<file, disk, lock, request, raised>>

Dump(c) ==
    /\ pc[c] = "dump"
    /\ tmp' = [tmp EXCEPT ![c] = "written"]
    /\ Goto(c, "fsync")
    /\ UNCHANGED <<file, disk, lock, request, payload, raised>>

(* Mutation: flush without fsync, as LocalGuildStore does. *)
FsyncSkipped(c) ==
    /\ pc[c] = "fsync"
    /\ Goto(c, "replace")
    /\ UNCHANGED <<file, disk, lock, request, payload, tmp, raised>>

Fsync(c) ==
    /\ pc[c] = "fsync"
    /\ tmp' = [tmp EXCEPT ![c] = "synced"]
    /\ Goto(c, "replace")
    /\ UNCHANGED <<file, disk, lock, request, payload, raised>>

Replace(c) ==
    /\ pc[c] = "replace"
    /\ file' = [content |-> payload[c], synced |-> tmp[c] = "synced"]
    /\ tmp' = [tmp EXCEPT ![c] = "none"]
    /\ Goto(c, "release")
    /\ UNCHANGED <<disk, lock, request, payload, raised>>

(* Mutation: the exception skips the finally clause of _locked. *)
RaiseKeepingLock(c) ==
    /\ "io" \in Faults
    /\ pc[c] \in WriteLabels
    /\ tmp' = [tmp EXCEPT ![c] = "none"]
    /\ raised' = [raised EXCEPT ![c] = TRUE]
    /\ Goto(c, "idle")
    /\ UNCHANGED <<file, disk, lock, request, payload>>

(* A system call of _write_unlocked fails: both finally clauses run. *)
Raise(c) ==
    /\ "io" \in Faults
    /\ pc[c] \in WriteLabels
    /\ tmp' = [tmp EXCEPT ![c] = "none"]
    /\ raised' = [raised EXCEPT ![c] = TRUE]
    /\ Goto(c, "release")
    /\ UNCHANGED <<file, disk, lock, request, payload>>

(* LOCK_UN, then the call returns or raises. *)
ReleaseLock(c) ==
    /\ pc[c] = "release"
    /\ lock' = NoClient
    /\ raised' = [raised EXCEPT ![c] = FALSE]
    /\ payload' = [payload EXCEPT ![c] = Empty]
    /\ Goto(c, "idle")
    /\ UNCHANGED <<file, disk, request, tmp>>

(* The kernel closes a dead client's descriptors, which drops its flock.    *)
(* A temporary file stays behind: nothing ever removes it.                  *)
Kill(c) ==
    /\ "kill" \in Faults
    /\ pc[c] # "dead"
    /\ lock' = IF lock = c THEN NoClient ELSE lock
    /\ payload' = [payload EXCEPT ![c] = Empty]
    /\ raised' = [raised EXCEPT ![c] = FALSE]
    /\ Goto(c, "dead")
    /\ UNCHANGED <<file, disk, request, tmp>>

(* A new process: its mkstemp will not meet the old temporary name. *)
Start(c) ==
    /\ pc[c] = "dead"
    /\ tmp' = [tmp EXCEPT ![c] = "none"]
    /\ Goto(c, "idle")
    /\ UNCHANGED <<file, disk, lock, request, payload, raised>>

Step(c) ==
    \/ AcquireLock(c) \/ ReadUnlocked(c) \/ Mkstemp(c) \/ Dump(c) \/ Fsync(c)
    \/ Replace(c) \/ Raise(c) \/ ReleaseLock(c)

(* The kernel writes the directory back when it likes: os.replace is not    *)
(* followed by an fsync of the directory.                                   *)
SyncDirectory ==
    /\ disk # file
    /\ disk' = file
    /\ UNCHANGED <<file, lock, pc, request, payload, tmp, raised>>

(* After a power loss the directory may name the new file or the one last   *)
(* written back; data that was never fsynced is lost.                       *)
PowerLoss ==
    /\ "power" \in Faults
    /\ \E image \in {file, disk} :
         file' = [content |-> IF image.synced THEN image.content ELSE Corrupt,
                  synced |-> TRUE]
    /\ disk' = file'
    /\ lock' = NoClient
    /\ pc' = [c \in Clients |-> "dead"]
    /\ payload' = [c \in Clients |-> Empty]
    /\ raised' = [c \in Clients |-> FALSE]
    /\ UNCHANGED <<request, tmp>>

Next ==
    \/ \E c \in Clients : Call(c) \/ Step(c) \/ Kill(c) \/ Start(c)
    \/ SyncDirectory
    \/ PowerLoss

Spec == Init /\ [][Next]_vars

(* A client that holds or can take the lock makes its next system call. *)
FairSpec == Spec /\ \A c \in Clients : WF_vars(Step(c))

-----------------------------------------------------------------------------
(* The store's variables have the types the code gives them. *)
TypeOK ==
    /\ file \in Files
    /\ disk \in Files
    /\ lock \in Clients \cup {NoClient}
    /\ pc \in [Clients -> Labels]
    /\ request \in [Clients -> Requests]
    /\ payload \in [Clients -> Payloads]
    /\ tmp \in [Clients -> {"none", "created", "written", "synced"}]
    /\ raised \in [Clients -> BOOLEAN]

(* At no point, not even after a power loss in the middle of a save, does   *)
(* the path name a file that json.loads would reject: the temporary file is *)
(* complete and on disk before os.replace makes it visible.                 *)
FileIsIntact == file.content # Corrupt

(* No client keeps the lock for ever, whatever fails while it holds it:     *)
(* returning, raising and dying all release it.                             *)
LockIsReleased == \A c \in Clients : lock = c ~> lock # c

(* Where the contract sees a call of LocalTaskStore. *)
phaseOf(c) ==
    IF pc[c] \in {"idle", "dead"} THEN pc[c]
    ELSE IF pc[c] # "release" THEN "called"
    ELSE IF raised[c] THEN "failed" ELSE "ok"

answerOf(c) ==
    IF pc[c] = "release" /\ request[c] = ReadRequest /\ ~raised[c]
    THEN payload[c] ELSE Empty

Contract == INSTANCE TaskStoreContract WITH
    stored <- file.content,
    durable <- disk.content,
    phase <- [c \in Clients |-> phaseOf(c)],
    answer <- [c \in Clients |-> answerOf(c)]

(* The store is linearizable: a save changes exactly its own record, at     *)
(* os.replace; concurrent saves of threads and processes are all kept; a    *)
(* read returns one state of the whole file; a failed save changes nothing; *)
(* a client that is killed in mid-save leaves the file as it was before or  *)
(* after the save; and a power loss undoes at most the saves whose rename   *)
(* had not been written back, without ever tearing one.                     *)
RefinesContract == Contract!Spec
=============================================================================
