---------------------------- MODULE CronSchedule ----------------------------
(***************************************************************************)
(* engine/runtime/scheduler.py: CronSchedule and _field_matches, with the  *)
(* calls CronTriggerAdapter makes: the constructor once, then matches() at *)
(* whatever times the scheduler polls.                                     *)
(*                                                                         *)
(* A field is a sequence of tokens, its comma-separated parts.  A token is *)
(* [kind, n]: "star" is *, "step" is */n, "literal" is n, "bad" is a token *)
(* of any other form.                                                      *)
(***************************************************************************)
EXTENDS Integers, Sequences, FiniteSetsExt

CONSTANTS
    FieldSpecs,   \* the sequences of tokens an expression may have in a field
    Times         \* UTC times: <<minute, hour, day, month, weekday>>, Monday = 0

Tokens == [kind : {"star", "step", "literal", "bad"}, n : Int]

ASSUME CronConstants ==
    /\ FieldSpecs \subseteq Seq(Tokens)
    /\ Times \subseteq (0..59) \X (0..23) \X (1..31) \X (1..12) \X (0..6)

VARIABLES
    schedule,     \* the five fields of the expression
    cronVerdict,  \* what the last matches() did: "match", "no_match", "raise"
    now,          \* the time it was asked about
    cronPc        \* "new", "ready" or "rejected"

cronVars == <<schedule, cronVerdict, now, cronPc>>

(* minute, hour, day, month, weekday *)
Minimum == <<0, 0, 1, 1, 0>>
Maximum == <<59, 23, 31, 12, 6>>
Day == 3
Weekday == 5

(* 2026-01-01T00:00, a Thursday: the time the constructor tries. *)
ProbeTime == <<0, 0, 1, 1, 3>>

(* datetime.weekday() counts from Monday, cron from Sunday. *)
FieldValue(t, f) == IF f = Weekday THEN (t[f] + 1) % 7 ELSE t[f]

(* 7 is another name for Sunday. *)
Candidate(tok, f) == IF f = Weekday /\ tok.n = 7 THEN 0 ELSE tok.n

OutOfRange(tok, f) == Candidate(tok, f) < Minimum[f] \/ Candidate(tok, f) > Maximum[f]

Invalid(tok, f) ==
    \/ tok.kind = "bad"
    \/ tok.kind = "step" /\ tok.n <= 0
    \/ tok.kind = "literal" /\ OutOfRange(tok, f)

(* The tokens at which the loop of _field_matches returns or raises. *)
Decides(v, tok, f) ==
    \/ Invalid(tok, f)
    \/ tok.kind \in {"star", "step"}
    \/ tok.kind = "literal" /\ v = Candidate(tok, f)

(* Mutation: a step is counted from 1. *)
TokenMatchesFromOne(v, tok, f) ==
    \/ tok.kind = "star"
    \/ tok.kind = "step" /\ (v - 1) % tok.n = 0
    \/ tok.kind = "literal" /\ v = Candidate(tok, f)

TokenMatches(v, tok, f) ==
    \/ tok.kind = "star"
    \/ tok.kind = "step" /\ v % tok.n = 0
    \/ tok.kind = "literal" /\ v = Candidate(tok, f)

FieldMatches(v, spec, f) ==
    LET deciding == {i \in 1..Len(spec) : Decides(v, spec[i], f)}
    IN  IF deciding = {} THEN "no_match"
        ELSE LET tok == spec[Min(deciding)]
             IN  IF Invalid(tok, f) THEN "raise"
                 ELSE IF TokenMatches(v, tok, f) THEN "match" ELSE "no_match"

(* matches(): a chain of "and", so the first field that does not match, or  *)
(* raises, decides and the later ones are not looked at.                    *)
Matches(s, t) ==
    LET out == [f \in 1..5 |-> FieldMatches(FieldValue(t, f), s[f], f)]
        stops == {f \in 1..5 : out[f] # "match"}
    IN  IF stops = {} THEN "match" ELSE out[Min(stops)]

CronInit ==
    /\ schedule \in [1..5 -> FieldSpecs]
    /\ cronVerdict = "no_match"
    /\ now = ProbeTime
    /\ cronPc = "new"

Construct ==
    /\ cronPc = "new"
    /\ cronVerdict' = Matches(schedule, ProbeTime)
    /\ cronPc' = IF cronVerdict' = "raise" THEN "rejected" ELSE "ready"
    /\ UNCHANGED <<schedule, now>>

Poll ==
    /\ cronPc = "ready"
    /\ now' \in Times
    /\ cronVerdict' = Matches(schedule, now')
    /\ UNCHANGED <<schedule, cronPc>>

CronNext == Construct \/ Poll

CronSpec == CronInit /\ [][CronNext]_cronVars

-----------------------------------------------------------------------------
(* The forms the docstring of CronSchedule lists: "*", "*/N", and lists of  *)
(* literal values.                                                          *)
Documented(spec) == Len(spec) = 1 \/ \A i \in 1..Len(spec) : spec[i].kind = "literal"

WellFormed(s) == \A f \in 1..5 : \A i \in 1..Len(s[f]) : ~Invalid(s[f][i], f)

(* What a token means to cron: a step counts from the field's minimum, so   *)
(* that */2 is every odd day, and weekday 7 is Sunday.                      *)
TokenAdmits(tok, t, f) ==
    \/ tok.kind = "star"
    \/ tok.kind = "step" /\ \E q \in 0..59 : FieldValue(t, f) = Minimum[f] + q * tok.n
    \/ tok.kind = "literal"
         /\ tok.n \in IF f = Weekday /\ t[f] = 6 THEN {0, 7} ELSE {FieldValue(t, f)}

FieldAdmits(s, t, f) == \E i \in 1..Len(s[f]) : TokenAdmits(s[f][i], t, f)

(* cron runs on either of day and weekday when both are restricted.         *)
TwoDayFields(s) == \A f \in {Day, Weekday} : \A i \in 1..Len(s[f]) : s[f][i].kind # "star"

(* The times a cron expression stands for, as crontab(5) reads it.          *)
Admits(s, t) ==
    /\ \A f \in 1..5 \ {Day, Weekday} : FieldAdmits(s, t, f)
    /\ IF TwoDayFields(s)
          THEN FieldAdmits(s, t, Day) \/ FieldAdmits(s, t, Weekday)
          ELSE FieldAdmits(s, t, Day) /\ FieldAdmits(s, t, Weekday)

(* value % step counts from 0: in day and month that is cron's step only    *)
(* for N = 1.                                                               *)
StepsFromZero(s) ==
    \A f \in 1..5 : \A i \in 1..Len(s[f]) :
        s[f][i].kind = "step" => Minimum[f] = 0 \/ s[f][i].n <= 1

(* Where no step of more than 1 stands in day or month, matches() never     *)
(* reports a time cron would not run at, whatever else the expression       *)
(* holds; and it reports exactly cron's times when the expression is        *)
(* well-formed, in the documented forms, and leaves day or weekday open.    *)
MatchesAsDocumented ==
    cronPc = "ready" /\ now # ProbeTime /\ StepsFromZero(schedule) =>
        /\ cronVerdict = "match" => Admits(schedule, now)
        /\ WellFormed(schedule) /\ (\A f \in 1..5 : Documented(schedule[f])) /\ ~TwoDayFields(schedule) =>
             (cronVerdict = "match") = Admits(schedule, now)
=============================================================================
