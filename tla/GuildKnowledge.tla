--------------------------- MODULE GuildKnowledge ---------------------------
(***************************************************************************)
(* engine/guild/knowledge.py: FailureKnowledgeBase over the two stores of  *)
(* engine/guild/store.py.  publish and publish_success get a record, raise *)
(* its count and save it in separate store calls, without a lock, and then *)
(* trim the store.  A call of MemoryGuildStore is one step, which may raise*)
(* while other calls change the dict; LocalGuildStore reads the whole file *)
(* and replaces it, two steps.                                             *)
(*                                                                         *)
(* A fingerprint is a key; a key determines whether failure_count or       *)
(* success_count is raised, so a record needs one count.                   *)
(***************************************************************************)
EXTENDS Integers, Sequences, FiniteSets

CONSTANTS
    Publishers,       \* callers: supervisor threads, or processes sharing the file
    Keys,          \* fingerprints
    Publications,  \* the failure_contexts of a call, as sequences of keys
    MaxRecords,    \* GuildConfig.max_records
    MaxCalls,      \* bound: publish calls
    MaxFaults      \* bound: store calls that raise

ASSUME GuildConstants ==
    /\ IsFiniteSet(Keys)                  \* 16 hexadecimal digits of a hash
    /\ Publications \subseteq Seq(Keys)
    /\ MaxRecords \in Int

VARIABLES
    backend,   \* "memory" or "local"
    records,   \* the store: key -> [count, created]
    clock,     \* creations so far: the order of created_at
    guildPc,        \* [Publishers -> "idle", "next", "save", "replace", "limit" or "delete"]
    todo,      \* [Publishers -> Seq: keys of this call not yet saved]
    held,      \* [Publishers -> the records of this call: published and seen]
    payload,   \* [Publishers -> the whole file, as read and edited]
    victims,   \* [Publishers -> Seq: records _enforce_limit has still to delete]
    calls,     \* publish calls so far
    faults,    \* store calls that raised
    reported,  \* [Keys -> contexts of the publish calls so far] (history)
    credited,  \* [Keys -> contexts the calls have come to so far] (history)
    forgotten, \* [Keys -> outcomes counted by records that were deleted or cleared] (history)
    lost,      \* [Keys -> contexts that calls which raised did not save] (history)
    overlapped,\* two calls were in progress at once (history)
    disturbed  \* as overlapped, or a store call raised, since a call last began alone (history)

guildVars == <<backend, records, clock, guildPc, todo, held, payload, victims, calls,
          faults, reported, credited, forgotten, lost, overlapped, disturbed>>
history == <<reported, credited, forgotten, lost, overlapped, disturbed>>

NoRecords == [k \in {} |-> 0]

(* payload[key] = record *)
With(map, k, r) == [j \in DOMAIN map \cup {k} |-> IF j = k THEN r ELSE map[j]]

GuildInit ==
    /\ backend \in {"memory", "local"}
    /\ records = NoRecords
    /\ clock = 0
    /\ guildPc = [t \in Publishers |-> "idle"]
    /\ todo = [t \in Publishers |-> << >>]
    /\ held = [t \in Publishers |-> NoRecords]
    /\ payload = [t \in Publishers |-> NoRecords]
    /\ victims = [t \in Publishers |-> << >>]
    /\ calls = 0
    /\ faults = 0
    /\ reported = [k \in Keys |-> 0] /\ credited = [k \in Keys |-> 0]
    /\ forgotten = [k \in Keys |-> 0] /\ lost = [k \in Keys |-> 0]
    /\ overlapped = FALSE /\ disturbed = FALSE

Quiet == \A t \in Publishers : guildPc[t] = "idle"

(* How often k is among the contexts. *)
Occurs(contexts, k) == Cardinality({i \in 1..Len(contexts) : contexts[i] = k})

GuildGoto(t, label) == guildPc' = [guildPc EXCEPT ![t] = label]

(* publish, publish_failure, publish_success with the guild enabled. *)
Publish(t, contexts) ==
    /\ guildPc[t] = "idle" /\ calls < MaxCalls
    /\ calls' = calls + 1
    /\ todo' = [todo EXCEPT ![t] = contexts]
    /\ held' = [held EXCEPT ![t] = NoRecords]
    /\ reported' = [k \in Keys |-> reported[k] + Occurs(contexts, k)]
    /\ overlapped' = (overlapped \/ ~Quiet)
    /\ disturbed' = ~Quiet
    /\ GuildGoto(t, "next")
    /\ UNCHANGED <<backend, records, clock, payload, victims, faults, credited, forgotten, lost>>

Increment(r) == [r EXCEPT !.count = @ + 1]

(* Mutation: a context whose fingerprint was seen in this call is skipped.  *)
CountOutcomeOnce(t, k) ==
    IF k \in DOMAIN held[t] THEN held[t][k]
    ELSE IF k \in DOMAIN records THEN Increment(records[k])
    ELSE [count |-> 1, created |-> clock]

(* The record to save: the copy this call already published, the stored     *)
(* record, or a new one.                                                    *)
CountOutcome(t, k) ==
    IF k \in DOMAIN held[t] THEN Increment(held[t][k])
    ELSE IF k \in DOMAIN records THEN Increment(records[k])
    ELSE [count |-> 1, created |-> clock]

(* One turn of the loop up to the save: store.get for an unseen key. *)
NextContext(t) ==
    /\ guildPc[t] = "next"
    /\ IF todo[t] = << >>
       THEN /\ GuildGoto(t, "limit")
            /\ UNCHANGED <<clock, held, credited>>
       ELSE LET k == Head(todo[t])
            IN  /\ held' = [held EXCEPT ![t] = With(@, k, CountOutcome(t, k))]
                /\ credited' = [credited EXCEPT ![k] = @ + 1]
                /\ clock' = IF k \in DOMAIN held[t] \cup DOMAIN records THEN clock ELSE clock + 1
                /\ GuildGoto(t, "save")
    /\ UNCHANGED <<backend, records, todo, payload, victims, calls, faults,
                   reported, forgotten, lost, overlapped, disturbed>>

(* store.save: at once in memory; the local store reads the file and has    *)
(* still to replace it.                                                     *)
SaveRecord(t) ==
    LET k == Head(todo[t])
        updated == With(records, k, held[t][k])
    IN  /\ guildPc[t] = "save"
        /\ IF backend = "memory"
           THEN /\ records' = updated
                /\ todo' = [todo EXCEPT ![t] = Tail(@)]
                /\ GuildGoto(t, "next")
                /\ UNCHANGED payload
           ELSE /\ payload' = [payload EXCEPT ![t] = updated]
                /\ GuildGoto(t, "replace")
                /\ UNCHANGED <<records, todo>>
        /\ UNCHANGED <<backend, clock, held, victims, calls, faults>> /\ UNCHANGED history

StoredCount(store, k) == IF k \in DOMAIN store THEN store[k].count ELSE 0

Forget(k) == forgotten' = [forgotten EXCEPT ![k] = @ + StoredCount(records, k)]

(* _write_all: the temporary file takes the place of the store's file. *)
ReplaceFile(t) ==
    /\ guildPc[t] = "replace"
    /\ records' = payload[t]
    /\ payload' = [payload EXCEPT ![t] = NoRecords]
    /\ IF todo[t] # << >>
       THEN /\ todo' = [todo EXCEPT ![t] = Tail(@)]
            /\ GuildGoto(t, "next")
            /\ UNCHANGED <<victims, forgotten>>
       ELSE /\ victims' = [victims EXCEPT ![t] = Tail(@)]
            /\ Forget(Head(victims[t]))
            /\ GuildGoto(t, "delete")
            /\ UNCHANGED todo
    /\ UNCHANGED <<backend, clock, held, calls, faults, reported, credited, lost,
                   overlapped, disturbed>>

(* Mutation: one record too few is removed. *)
ExcessOffByOne ==
    IF MaxRecords <= 0 \/ Cardinality(DOMAIN records) <= MaxRecords + 1 THEN 0
    ELSE Cardinality(DOMAIN records) - MaxRecords

Excess ==
    IF MaxRecords <= 0 \/ Cardinality(DOMAIN records) <= MaxRecords THEN 0
    ELSE Cardinality(DOMAIN records) - MaxRecords

(* sorted(all_records, key=created_at)[:n]: the n oldest records, in order. *)
Oldest(n) ==
    {v \in [1..n -> DOMAIN records] :
        /\ \A i, j \in 1..n :
               i < j => v[i] # v[j] /\ records[v[i]].created <= records[v[j]].created
        /\ \A k \in DOMAIN records \ {v[i] : i \in 1..n} :
               \A i \in 1..n : records[v[i]].created <= records[k].created}

(* _enforce_limit: list, and pick the oldest records. *)
EnforceLimit(t) ==
    /\ guildPc[t] = "limit"
    /\ \E oldest \in Oldest(Excess) : victims' = [victims EXCEPT ![t] = oldest]
    /\ GuildGoto(t, "delete")
    /\ UNCHANGED <<backend, records, clock, todo, held, payload, calls, faults>>
    /\ UNCHANGED history

Without(k) == [j \in DOMAIN records \ {k} |-> records[j]]

(* store.delete of the next victim; one that is gone already is passed over *)
(* and after the last one the call returns.                                 *)
DeleteRecord(t) ==
    /\ guildPc[t] = "delete"
    /\ IF victims[t] = << >>
       THEN /\ GuildGoto(t, "idle")
            /\ held' = [held EXCEPT ![t] = NoRecords]
            /\ UNCHANGED <<records, payload, victims, forgotten>>
       ELSE LET k == Head(victims[t])
            IN  /\ UNCHANGED held
                /\ IF backend = "local" /\ k \in DOMAIN records
                   THEN /\ payload' = [payload EXCEPT ![t] = Without(k)]
                        /\ GuildGoto(t, "replace")
                        /\ UNCHANGED <<records, victims, forgotten>>
                   ELSE /\ records' = Without(k)
                        /\ victims' = [victims EXCEPT ![t] = Tail(@)]
                        /\ Forget(k)
                        /\ UNCHANGED <<payload, guildPc>>
    /\ UNCHANGED <<backend, clock, todo, calls, faults, reported, credited, lost,
                   overlapped, disturbed>>

(* The dict changes size while list() of MemoryGuildStore iterates over it, *)
(* or the key that delete() has found is gone: another call is under way.   *)
DictChanges(t) ==
    /\ guildPc[t] \in {"limit", "delete"}
    /\ \E u \in Publishers \ {t} : guildPc[u] # "idle"

(* A store call raises, and publish with it: any call of the local store,   *)
(* whose temporary file is removed; RuntimeError or KeyError in memory.     *)
(* The store is as it was.                                                  *)
StoreRaises(t) ==
    /\ guildPc[t] # "idle" /\ faults < MaxFaults
    /\ backend = "local" \/ DictChanges(t)
    /\ faults' = faults + 1
    /\ GuildGoto(t, "idle")
    /\ todo' = [todo EXCEPT ![t] = << >>]
    /\ held' = [held EXCEPT ![t] = NoRecords]
    /\ payload' = [payload EXCEPT ![t] = NoRecords]
    /\ victims' = [victims EXCEPT ![t] = << >>]
    /\ lost' = [k \in Keys |-> lost[k] + Occurs(todo[t], k)]
    /\ disturbed' = TRUE
    /\ UNCHANGED <<backend, records, clock, calls, reported, credited, forgotten, overlapped>>

(* cond guild clear, a process of its own: the file is removed. *)
Clear ==
    /\ backend = "local" /\ records # NoRecords
    /\ records' = NoRecords
    /\ forgotten' = [k \in Keys |-> forgotten[k] + StoredCount(records, k)]
    /\ overlapped' = (overlapped \/ ~Quiet)
    /\ disturbed' = (disturbed \/ ~Quiet)
    /\ UNCHANGED <<backend, clock, guildPc, todo, held, payload, victims, calls, faults,
                   reported, credited, lost>>

GuildStep(t) ==
    \/ NextContext(t) \/ SaveRecord(t) \/ ReplaceFile(t)
    \/ EnforceLimit(t) \/ DeleteRecord(t)

GuildNext ==
    \/ Clear
    \/ \E t \in Publishers :
          \/ \E contexts \in Publications : Publish(t, contexts)
          \/ GuildStep(t)
          \/ StoreRaises(t)

GuildSpec == GuildInit /\ [][GuildNext]_guildVars

-----------------------------------------------------------------------------
(* "Records with the same fingerprint accumulate failure counts".  While    *)
(* calls have not overlapped, every context that was ever reported is, once *)
(* the calls have returned, in the count of its record, in that of a record *)
(* evicted or cleared before, or among those that a call did not save       *)
(* because a store call raised: repeated contexts of one call and records   *)
(* created again included.  Calls that overlap can lose outcomes, but a     *)
(* stale copy written back never invents one.                               *)
OutcomesCounted ==
    \A k \in Keys :
        /\ StoredCount(records, k) <= credited[k]
        /\ ~overlapped /\ Quiet =>
               StoredCount(records, k) + forgotten[k] + lost[k] = reported[k]

(* "prevent unbounded growth by enforcing a max-records limit": a call that *)
(* ran alone and was not cut short leaves the store within its limit,       *)
(* whatever earlier calls left there that overlapped (a file read before a  *)
(* trim and written after it brings back what was deleted) or raised before *)
(* they had trimmed.                                                        *)
LimitWhenQuiet ==
    (Quiet /\ ~disturbed /\ MaxRecords > 0) => Cardinality(DOMAIN records) <= MaxRecords

=============================================================================
