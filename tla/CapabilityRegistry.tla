------------------------- MODULE CapabilityRegistry -------------------------
(***************************************************************************)
(* Loading of capabilities (engine/loader.py) into the registry            *)
(* (engine/registry/capabilities.py).  A configuration is [builtins,       *)
(* entries, controls]: include_builtins, the entries of "capabilities" in  *)
(* order, and the names of "execution_controls" in order.  An entry is     *)
(* [name, yaml, own, keeps, controls]: require_approval in the YAML and of *)
(* the class, whether the instance keeps one descriptor object or builds a *)
(* new one at each access, and whether it has an "execution" section.      *)
(***************************************************************************)
EXTENDS Sequences, SequencesExt

(* A registry: names, names whose descriptor says require_approval, names   *)
(* with execution controls, and whether loading raised.                     *)
EmptyRegistry == [names |-> {}, gated |-> {}, controlled |-> {}, raised |-> FALSE]

(* cap_instance.descriptor.require_approval = True: what the next access to *)
(* the descriptor will say.                                                 *)
RequiresApproval(e) == e.own \/ (e.yaml /\ e.keeps)

(* CapabilityRegistry.register; a second capability of one name raises. *)
Register(registry, e) ==
    IF registry.raised \/ e.name \in registry.names
    THEN [registry EXCEPT !.raised = TRUE]
    ELSE [registry EXCEPT
            !.names = @ \cup {e.name},
            !.gated = IF RequiresApproval(e) THEN @ \cup {e.name} ELSE @,
            !.controlled = IF e.controls THEN @ \cup {e.name} ELSE @]

(* CapabilityRegistry.set_execution_controls; an unknown name raises. *)
SetExecutionControls(registry, name) ==
    IF registry.raised \/ name \notin registry.names
    THEN [registry EXCEPT !.raised = TRUE]
    ELSE [registry EXCEPT !.controlled = @ \cup {name}]

Builtin(name) ==
    [name |-> name, yaml |-> FALSE, own |-> FALSE, keeps |-> FALSE, controls |-> FALSE]

(* load_builtin_capabilities *)
Builtins == << Builtin("echo"), Builtin("filesystem"), Builtin("http") >>

(* load_capabilities_from_file *)
LoadCapabilities(config) ==
    LET entries == (IF config.builtins THEN Builtins ELSE << >>) \o config.entries
    IN  FoldLeft(SetExecutionControls, FoldLeft(Register, EmptyRegistry, entries), config.controls)

(* CapabilityRegistry.health_check reports an empty registry; controls for  *)
(* an unknown name cannot get in.                                           *)
RegistryHealthy(registry) == registry.names # {} /\ registry.controlled \subseteq registry.names
=============================================================================
