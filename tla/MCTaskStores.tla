---------------------------- MODULE MCTaskStores ----------------------------
(* The stores of engine/runtime/store.py for TLC: a behaviour is one of     *)
(* LocalTaskStore or one of TaskStoreBackends, as part says.                *)
EXTENDS LocalTaskStore, TaskStoreBackends

VARIABLE part

(* Task 2 is created before task 1, so that the two orders differ. *)
MCCreatedAt == <<2, 1>>

MCFilters ==
    [status : {"pending", "completed", AnyStatus}, limit : {NoLimit, 1}, offset : {0, 1}]

MCInit ==
    /\ part \in {"local", "backends"}
    /\ Init
    /\ BackendsInit
    /\ part = "local" => kind = "memory"

MCNext ==
    \/ part = "local" /\ Next /\ UNCHANGED <<part, backendVars>>
    \/ part = "backends" /\ BackendsNext /\ UNCHANGED <<part, vars>>

(* LocalTaskStore!FairSpec. *)
MCSpec ==
    /\ MCInit /\ [][MCNext]_<<part, vars, backendVars>>
    /\ \A c \in Clients : WF_vars(part = "local" /\ Step(c))
=============================================================================
