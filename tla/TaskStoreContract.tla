------------------------- MODULE TaskStoreContract -------------------------
(***************************************************************************)
(* The TaskStore protocol (engine/runtime/store.py) as its callers see it: *)
(* a map from task ids to records on which every call takes effect in one  *)
(* instant between the call and its reply, or fails and has no effect.     *)
(***************************************************************************)
CONSTANTS
    Clients,     \* threads and processes that hold a store object
    Ids,         \* task ids
    Records,     \* task records
    Absent,      \* no record under this id
    ReadRequest  \* get, list or health_check

Saves == [id : Ids, record : Records]
Requests == Saves \cup {ReadRequest}
Payloads == [Ids -> Records \cup {Absent}]
Empty == [i \in Ids |-> Absent]

VARIABLES
    stored,      \* the map
    durable,     \* the map a power loss may bring back
    phase,       \* [Clients -> where the client's call is]
    request,     \* [Clients -> its last call]
    answer       \* [Clients -> what a read call will return]

contractVars == <<stored, durable, phase, request, answer>>

Init ==
    /\ stored = Empty
    /\ durable = Empty
    /\ phase = [c \in Clients |-> "idle"]
    /\ request = [c \in Clients |-> ReadRequest]
    /\ answer = [c \in Clients |-> Empty]

Call(c) ==
    /\ phase[c] = "idle"
    /\ \E r \in Requests : request' = [request EXCEPT ![c] = r]
    /\ phase' = [phase EXCEPT ![c] = "called"]
    /\ UNCHANGED <<stored, durable, answer>>

Save(c) ==
    /\ phase[c] = "called"
    /\ request[c] # ReadRequest
    /\ stored' = [stored EXCEPT ![request[c].id] = request[c].record]
    /\ phase' = [phase EXCEPT ![c] = "ok"]
    /\ UNCHANGED <<durable, request, answer>>

Read(c) ==
    /\ phase[c] = "called"
    /\ request[c] = ReadRequest
    /\ answer' = [answer EXCEPT ![c] = stored]
    /\ phase' = [phase EXCEPT ![c] = "ok"]
    /\ UNCHANGED <<stored, durable, request>>

Fail(c) ==
    /\ phase[c] = "called"
    /\ phase' = [phase EXCEPT ![c] = "failed"]
    /\ UNCHANGED <<stored, durable, request, answer>>

Reply(c) ==
    /\ phase[c] \in {"ok", "failed"}
    /\ phase' = [phase EXCEPT ![c] = "idle"]
    /\ answer' = [answer EXCEPT ![c] = Empty]
    /\ UNCHANGED <<stored, durable, request>>

(* A client may die at any point of its call; what it had stored stays. *)
Die(c) ==
    /\ phase[c] # "dead"
    /\ phase' = [phase EXCEPT ![c] = "dead"]
    /\ answer' = [answer EXCEPT ![c] = Empty]
    /\ UNCHANGED <<stored, durable, request>>

Restart(c) ==
    /\ phase[c] = "dead"
    /\ phase' = [phase EXCEPT ![c] = "idle"]
    /\ UNCHANGED <<stored, durable, request, answer>>

(* Some time after a save its effect is durable. *)
Persist ==
    /\ durable' = stored
    /\ UNCHANGED <<stored, phase, request, answer>>

(* The machine loses power: every client dies and the saves since the last  *)
(* Persist may be undone, all of them or none; never a part of one.         *)
PowerCut ==
    /\ stored' \in {stored, durable}
    /\ durable' = stored'
    /\ phase' = [c \in Clients |-> "dead"]
    /\ answer' = [c \in Clients |-> Empty]
    /\ UNCHANGED request

Next ==
    \/ \E c \in Clients :
          Call(c) \/ Save(c) \/ Read(c) \/ Fail(c) \/ Reply(c) \/ Die(c) \/ Restart(c)
    \/ Persist
    \/ PowerCut

Spec == Init /\ [][Next]_contractVars
=============================================================================
