--------------------------- MODULE MCOrchestration ---------------------------
(* What starts tasks, for TLC: a behaviour is one of TriggerScheduler, of   *)
(* CronSchedule or of WorkflowOrchestrator, as part says.                   *)
EXTENDS TriggerScheduler, CronSchedule, WorkflowOrchestrator

VARIABLE part

(* A cron adapter due in minutes 0 and 2, polled before a webhook adapter.  *)
(* In minute 1 the loop is idle and its backoff reaches the maximum.        *)
CronAndWebhook == <<"cron", "webhook">>
DueSlots == << {0, 2}, {} >>

Tok(k, n) == [kind |-> k, n |-> n]

(* *, */2, "1,0", "7", "*/2,1" and "1,x": every branch of _field_matches.   *)
(* In some fields 0 and 7 are out of range.                                 *)
MCFieldSpecs ==
    {<<Tok("star", 0)>>, <<Tok("step", 2)>>, <<Tok("literal", 1), Tok("literal", 0)>>,
     <<Tok("literal", 7)>>, <<Tok("step", 2), Tok("literal", 1)>>,
     <<Tok("literal", 1), Tok("bad", 0)>>}

MCTimes == {1, 2} \X {1} \X {1, 7} \X {7} \X {3, 6}

MCInit ==
    /\ part \in {"trigger", "cron", "flow"}
    /\ Init
    /\ part # "trigger" => max_cycles = 0
    /\ CronInit
    /\ part # "cron" => schedule = [f \in 1..5 |-> <<Tok("star", 0)>>]
    /\ FlowInit
    /\ part # "flow" => plan = << >>

MCNext ==
    \/ part = "trigger" /\ Next /\ UNCHANGED <<part, cronVars, flowVars>>
    \/ part = "cron" /\ CronNext /\ UNCHANGED <<part, vars, flowVars>>
    \/ part = "flow" /\ FlowNext /\ UNCHANGED <<part, vars, cronVars>>

(* TriggerScheduler!FairSpec and WorkflowOrchestrator!FairSpec. *)
MCSpec ==
    /\ MCInit /\ [][MCNext]_<<part, vars, cronVars, flowVars>>
    /\ WF_vars(part = "trigger" /\ Loop)
    /\ WF_vars(part = "trigger" /\ Tick)
    /\ WF_flowVars(part = "flow" /\ Main)
    /\ \A i \in 1..MaxSteps :
           WF_flowVars(part = "flow" /\ StepThread(i))

-----------------------------------------------------------------------------
(* A workflow run ends: see WorkflowOrchestrator. *)
WorkflowsEnd == part = "flow" => WorkflowEnds
=============================================================================
