-------------------------- MODULE RetryStrategies --------------------------
(***************************************************************************)
(* engine/runtime/retry.py.  A strategy is [type, base, multiplier, max,   *)
(* escalate, threshold] with type "default", "exponential", "jittered" or  *)
(* "adjusting" (which takes its delay from a wrapped exponential one; with *)
(* none it does not pause, as "default").                                  *)
(* Delays are whole time units; the jitter is any of 0..cap.               *)
(***************************************************************************)
EXTENDS Integers

CONSTANT NoThreshold   \* escalation_threshold=None

(* The same test in all strategies. *)
Exhausted(attempt, maxRetries) == attempt > maxRetries

(* Exhausted retries escalate if that is enabled and the threshold met. *)
Escalates(s, attempt) ==
    s.escalate /\ (s.threshold = NoThreshold \/ attempt >= s.threshold)

(* _compute_delay: min(base * multiplier ** (attempt - 1), max_delay) *)
ComputeDelay(s, attempt) ==
    LET raw == s.base * s.multiplier ^ (attempt - 1)
    IN  IF raw < s.max THEN raw ELSE s.max

(* delay_seconds of a retry decision. *)
Delays(s, attempt) ==
    CASE s.type = "default" -> {0}
      [] s.type \in {"exponential", "adjusting"} -> {ComputeDelay(s, attempt)}
      [] s.type = "jittered" -> 0..ComputeDelay(s, attempt)
=============================================================================
