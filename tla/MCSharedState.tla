--------------------------- MODULE MCSharedState ---------------------------
(* State that request threads and processes share, for TLC: a behaviour is  *)
(* one of TaskQueue, of ControlPlaneApi, of ApiKeyStore, of EngineCluster   *)
(* or of GuildKnowledge, as part says.                                      *)
EXTENDS TaskQueue, ControlPlaneApi, ApiKeyStore, EngineCluster, GuildKnowledge

VARIABLE part

(* One capability with require_approval in its YAML entry, which keeps its  *)
(* descriptor (as MCP tools do) or not, with or without the built-in ones;  *)
(* and a task of a capability that is no longer configured.                 *)
Tool(keeps) ==
    [name |-> "tool", yaml |-> TRUE, own |-> FALSE, keeps |-> keeps, controls |-> FALSE]

MCConfigs ==
    {[builtins |-> k, entries |-> <<Tool(k)>>, controls |-> <<"tool">>] : k \in BOOLEAN}

MCLeftovers ==
    {[status |-> s, cap |-> "retired"] : s \in {"pending", "awaiting_approval"}}

(* One context for each key, and a context that is repeated in one call. *)
MCPublications == {<<k>> : k \in Keys} \cup {<<k, k>> : k \in {CHOOSE k \in Keys : TRUE}}

MCInit ==
    /\ part \in {"queue", "api", "keys", "cluster", "guild"}
    /\ Init
    /\ ApiInit
    /\ part # "api" => config.builtins /\ \A i \in RequestIds : tasks[i] = NoRecord
    /\ KeysInit
    /\ ClusterInit
    /\ GuildInit
    /\ part # "guild" => backend = "memory"

MCNext ==
    \/ part = "queue" /\ Next /\ UNCHANGED <<part, apiVars, keyVars, clusterVars, guildVars>>
    \/ part = "api" /\ ApiNext /\ UNCHANGED <<part, vars, keyVars, clusterVars, guildVars>>
    \/ part = "keys" /\ KeysNext /\ UNCHANGED <<part, vars, apiVars, clusterVars, guildVars>>
    \/ part = "cluster" /\ ClusterNext /\ UNCHANGED <<part, vars, apiVars, keyVars, guildVars>>
    \/ part = "guild" /\ GuildNext /\ UNCHANGED <<part, vars, apiVars, keyVars, clusterVars>>

MCSpec == MCInit /\ [][MCNext]_<<part, vars, apiVars, keyVars, clusterVars, guildVars>>
=============================================================================
