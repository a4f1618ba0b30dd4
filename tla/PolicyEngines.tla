--------------------------- MODULE PolicyEngines ---------------------------
(***************************************************************************)
(* engine/runtime/policy.py: the decision of each policy engine.  An       *)
(* engine is a record: [type |-> "null"], [type |-> "allowlist"] whose set *)
(* of names can change while the server runs, [type |-> "risk", denyAbove, *)
(* approvalAt, restricted] or [type |-> "opa", failOpen].                  *)
(***************************************************************************)
EXTENDS Integers

CONSTANT NoLevel   \* require_approval_at=None

(* _RISK_ORDER: low, medium, high, critical. *)
RiskLevels == 0..3

ASSUME LevelConstants == NoLevel \notin RiskLevels

Decisions == {"allow", "deny", "require_approval"}

(* What OPA answers: the two flags of a result.  A body without a result    *)
(* reads as both FALSE.                                                     *)
OpaResults == [allow : BOOLEAN, require_approval : BOOLEAN]

(* DenyByDefaultPolicy.evaluate *)
DenyByDefault(allowed, name) == IF name \in allowed THEN "allow" ELSE "deny"

(* RiskLevelPolicyEngine.evaluate: allowlist, then approval at exactly one  *)
(* level, then the maximum.                                                 *)
RiskLevel(e, allowed, name, risk) ==
    IF e.restricted /\ name \notin allowed THEN "deny"
    ELSE IF e.approvalAt # NoLevel /\ risk = e.approvalAt THEN "require_approval"
    ELSE IF risk > e.denyAbove THEN "deny"
    ELSE "allow"

(* OPAPolicyEngine._map_response: require_approval comes before allow. *)
MapResponse(result) ==
    IF result.require_approval THEN "require_approval"
    ELSE IF result.allow THEN "allow"
    ELSE "deny"

(* Mutation: an error is read as an empty result only when failing open. *)
OpaErrorInverted(e) == IF e.failOpen THEN "deny" ELSE "allow"

(* OPAPolicyEngine.evaluate, the except clause: connection, timeout, status *)
(* or JSON.                                                                 *)
OpaError(e) == IF e.failOpen THEN "allow" ELSE "deny"

(* What evaluate returns for a capability; result is OPA's answer. *)
Evaluate(e, allowed, name, risk, result) ==
    CASE e.type = "null" -> "allow"
      [] e.type = "allowlist" -> DenyByDefault(allowed, name)
      [] e.type = "risk" -> RiskLevel(e, allowed, name, risk)
      [] e.type = "opa" -> MapResponse(result)
=============================================================================
