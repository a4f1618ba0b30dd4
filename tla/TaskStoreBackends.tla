------------------------- MODULE TaskStoreBackends -------------------------
(***************************************************************************)
(* The other task stores of engine/runtime/store.py: MemoryTaskStore,      *)
(* SQLiteTaskStore and PostgresTaskStore, whose save and list are one      *)
(* operation each, and RedisTaskStore, whose save is SET then SADD on an   *)
(* index and whose list is SMEMBERS then one GET for each id.  The servers *)
(* are external: a command takes effect at once or its connection fails.   *)
(***************************************************************************)
EXTENDS Integers, Sequences, FiniteSets, SequencesExt

CONSTANTS
    StoreClients,  \* threads and processes that use the store
    MaxId,         \* task ids are 1..MaxId
    CreatedAt,     \* [1..MaxId -> created_at]
    Filters,       \* list arguments: [status, limit, offset]; NoLimit for None
    NoLimit,       \* limit=None
    AnyStatus,     \* status=None
    MaxSaves       \* bound: save calls

Statuses == {"pending", "completed"}

ASSUME BackendConstants ==
    /\ MaxId \in Nat \ {0}
    /\ CreatedAt \in [1..MaxId -> Int]
    /\ NoLimit \notin Nat
    /\ Filters \subseteq
         [status : Statuses \cup {AnyStatus}, limit : Nat \cup {NoLimit}, offset : Nat]

TaskIds == 1..MaxId
Missing == [status |-> AnyStatus, stamp |-> 0]

VARIABLES
    kind,      \* "memory", "sql" or "redis"
    table,     \* [TaskIds -> [status, stamp]]: the records; the stamp counts writes
    index,     \* the ids in the Redis set
    saves,     \* save calls so far
    op,        \* [StoreClients -> the call: [pc, id, status, filter, ids, got]]
    acked,     \* [TaskIds -> stamp of the newest record whose save returned] (history)
    due,       \* [StoreClients -> acked when the list began] (history)
    listed     \* [StoreClients -> records the last list call read, before filtering] (history)

backendVars == <<kind, table, index, saves, op, acked, due, listed>>

NoCall == [pc |-> "idle", id |-> 1, status |-> AnyStatus, ids |-> << >>, got |-> << >>]
NotListed == << <<0, 0>> >>

BackendsInit ==
    /\ kind \in {"memory", "sql", "redis"}
    /\ table = [i \in TaskIds |-> Missing]
    /\ index = {}
    /\ saves = 0
    /\ op = [c \in StoreClients |-> NoCall]
    /\ acked = [i \in TaskIds |-> 0]
    /\ due = [c \in StoreClients |-> acked]
    /\ listed = [c \in StoreClients |-> NotListed]

SetOp(c, o) == op' = [op EXCEPT ![c] = o]

BeginSave(c, i, st) ==
    /\ op[c].pc = "idle" /\ saves < MaxSaves
    /\ saves' = saves + 1
    /\ SetOp(c, [NoCall EXCEPT !.pc = "save", !.id = i, !.status = st])
    /\ listed' = [listed EXCEPT ![c] = NotListed]
    /\ UNCHANGED <<kind, table, index, acked, due>>

Write(c) == table' = [table EXCEPT ![op[c].id] = [status |-> op[c].status, stamp |-> saves]]

(* A dict assignment, or INSERT ... ON CONFLICT DO UPDATE and commit. *)
SaveRow(c) ==
    /\ op[c].pc = "save" /\ kind # "redis"
    /\ Write(c)
    /\ SetOp(c, [op[c] EXCEPT !.pc = "saved"])
    /\ UNCHANGED <<kind, index, saves, acked, due, listed>>

(* Mutation: only a record that was not there yet is added to the index. *)
RedisSetIndexingNew(c) ==
    /\ op[c].pc = "save" /\ kind = "redis"
    /\ Write(c)
    /\ SetOp(c, [op[c] EXCEPT !.pc = IF table[op[c].id] = Missing THEN "sadd" ELSE "saved"])
    /\ UNCHANGED <<kind, index, saves, acked, due, listed>>

RedisSet(c) ==
    /\ op[c].pc = "save" /\ kind = "redis"
    /\ Write(c)
    /\ SetOp(c, [op[c] EXCEPT !.pc = "sadd"])
    /\ UNCHANGED <<kind, index, saves, acked, due, listed>>

RedisAdd(c) ==
    /\ op[c].pc = "sadd"
    /\ index' = index \cup {op[c].id}
    /\ SetOp(c, [op[c] EXCEPT !.pc = "saved"])
    /\ UNCHANGED <<kind, table, saves, acked, due, listed>>

(* save returns: what the table holds by now is at least as new. *)
SaveReturns(c) ==
    /\ op[c].pc = "saved"
    /\ acked' = [acked EXCEPT ![op[c].id] = table[op[c].id].stamp]
    /\ SetOp(c, NoCall)
    /\ UNCHANGED <<kind, table, index, saves, due, listed>>

(* The connection fails or the process dies: what was written stays. *)
ConnectionLost(c) ==
    /\ op[c].pc # "idle" /\ kind # "memory"
    /\ SetOp(c, NoCall)
    /\ UNCHANGED <<kind, table, index, saves, acked, due, listed>>

-----------------------------------------------------------------------------
(* sorted(), or ORDER BY created_at, task_id. *)
Before(i, j, k) ==
    IF k = "sql" /\ CreatedAt[i] # CreatedAt[j] THEN CreatedAt[i] < CreatedAt[j] ELSE i < j

(* The one sequence of these numbers in that order. *)
Orderings(ids, k) ==
    {s \in [1..Cardinality(ids) -> ids] :
        /\ \A i \in ids : \E n \in DOMAIN s : s[n] = i
        /\ \A m, n \in DOMAIN s : m < n => Before(s[m], s[n], k)}
Ordered(ids, k) == CHOOSE s \in Orderings(ids, k) : TRUE

Present == {i \in TaskIds : table[i] # Missing}

BeginList(c) ==
    /\ op[c].pc = "idle"
    /\ SetOp(c, [NoCall EXCEPT !.pc = "list"])
    /\ due' = [due EXCEPT ![c] = acked]
    /\ listed' = [listed EXCEPT ![c] = NotListed]
    /\ UNCHANGED <<kind, table, index, saves, acked>>

(* One query sees one state of the table. *)
ListRows(c) ==
    /\ op[c].pc = "list" /\ kind # "redis"
    /\ \E ids \in Orderings(Present, kind) :
           listed' = [listed EXCEPT ![c] = [n \in DOMAIN ids |-> <<ids[n], table[ids[n]].stamp>>]]
    /\ SetOp(c, NoCall)
    /\ UNCHANGED <<kind, table, index, saves, acked, due>>

RedisMembers(c) ==
    /\ op[c].pc = "list" /\ kind = "redis"
    /\ \E ids \in Orderings(index, kind) : SetOp(c, [op[c] EXCEPT !.pc = "get", !.ids = ids])
    /\ UNCHANGED <<kind, table, index, saves, acked, due, listed>>

(* One GET for each id; an id without a record is passed over. *)
RedisGet(c) ==
    /\ op[c].pc = "get"
    /\ IF op[c].ids = << >>
       THEN /\ listed' = [listed EXCEPT ![c] = op[c].got]
            /\ SetOp(c, NoCall)
       ELSE LET i == Head(op[c].ids)
            IN  /\ SetOp(c, [op[c] EXCEPT !.ids = Tail(@),
                       !.got = IF table[i] = Missing THEN @ ELSE Append(@, <<i, table[i].stamp>>)])
                /\ UNCHANGED listed
    /\ UNCHANGED <<kind, table, index, saves, acked, due>>

BackendsNext ==
    \E c \in StoreClients :
        \/ \E i \in TaskIds, st \in Statuses : BeginSave(c, i, st)
        \/ SaveRow(c) \/ RedisSet(c) \/ RedisAdd(c) \/ SaveReturns(c) \/ ConnectionLost(c)
        \/ BeginList(c) \/ ListRows(c) \/ RedisMembers(c) \/ RedisGet(c)

BackendsSpec == BackendsInit /\ [][BackendsNext]_backendVars

-----------------------------------------------------------------------------
(* The ids whose record has the status asked for, in the order they had. *)
Selected(ids, f) ==
    LET kept == {n \in DOMAIN ids : f.status = AnyStatus \/ table[ids[n]].status = f.status}
        place == Ordered(kept, "memory")
    IN  [n \in DOMAIN place |-> ids[place[n]]]

(* Mutation: offset and limit are applied to the unfiltered list. *)
FilterAfterPaging(ids, f) ==
    LET rest == SubSeq(ids, f.offset + 1, Len(ids))
    IN  Selected(IF f.limit = NoLimit \/ f.limit > Len(rest) THEN rest ELSE SubSeq(rest, 1, f.limit), f)

(* _filter_records: status, then [offset:], then [:limit]. *)
FilterRecords(ids, f) ==
    LET chosen == Selected(ids, f)
        rest == SubSeq(chosen, f.offset + 1, Len(chosen))
    IN  IF f.limit = NoLimit \/ f.limit > Len(rest) THEN rest ELSE SubSeq(rest, 1, f.limit)

(* WHERE status = ?, LIMIT and OFFSET: the rows numbered offset + 1 to      *)
(* offset + limit of the selected ones.                                     *)
SqlPage(ids, f) ==
    LET chosen == Selected(ids, f)
        last == IF f.limit = NoLimit THEN Len(chosen) ELSE f.offset + f.limit
    IN  SubSeq(chosen, f.offset + 1, IF last > Len(chosen) THEN Len(chosen) ELSE last)

(* The tasks a list would read now: in Redis the indexed ones. *)
Listable == IF kind = "redis" THEN Present \cap index ELSE Present

(* Paging is written twice, as slices in Python (memory, local, Redis) and  *)
(* as LIMIT and OFFSET in SQL.  For every filter the two cut pages of the   *)
(* same length out of the same tasks, agree on the whole list, and pages    *)
(* follow each other without a gap or a repetition.  Only the order differs:*)
(* by id, or by creation.  This is about the cutting; which tasks a Redis   *)
(* list finds while others save is ListedAfterSave.                         *)
PagesAgree ==
    \A f \in Filters :
        LET byId == FilterRecords(Ordered(Listable, "memory"), f)
            byCreation == SqlPage(Ordered(Listable, "sql"), f)
            following == [f EXCEPT !.offset = f.offset + f.limit]
            all == [f EXCEPT !.offset = 0, !.limit = NoLimit]
        IN  /\ Len(byId) = Len(byCreation)
            /\ ToSet(FilterRecords(Ordered(Listable, "memory"), all))
                   = ToSet(SqlPage(Ordered(Listable, "sql"), all))
            /\ f.limit # NoLimit =>
                   FilterRecords(Ordered(Listable, "memory"), [f EXCEPT !.limit = 2 * f.limit])
                       = byId \o FilterRecords(Ordered(Listable, "memory"), following)

(* A list that begins after a save returned contains the task, with that    *)
(* record or a newer one, and each task once, although the Redis store      *)
(* writes record and index apart, reads them apart, and a save may be cut   *)
(* off between its two commands and tried again.                            *)
ListedAfterSave ==
    \A c \in StoreClients :
        listed[c] # NotListed =>
            /\ \A i \in TaskIds : due[c][i] > 0 =>
                   \E n \in 1..Len(listed[c]) :
                       listed[c][n][1] = i /\ listed[c][n][2] >= due[c][i]
            /\ \A m, n \in 1..Len(listed[c]) : listed[c][m][1] = listed[c][n][1] => m = n
=============================================================================
