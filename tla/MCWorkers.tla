------------------------------ MODULE MCWorkers ------------------------------
(***************************************************************************)
(* The gateway's background workers in one run: its local triggers, or its *)
(* scheduled jobs.  They share no state.                                   *)
(***************************************************************************)
EXTENDS MCLocalTriggers, MCCronStore

VARIABLE worked    \* whose behaviour this is

Works(who, Step, others) == worked = who /\ Step /\ UNCHANGED <<worked, others>>

WorkersInit ==
    /\ Init /\ CronInit
    /\ \/ worked = "triggers"
       \/ worked = "jobs" /\ trigger = [t \in Triggers |-> "none"]
WorkersNext ==
    \/ Works("triggers", Next, cronVars)
    \/ Works("jobs", CronNext, vars)

\* The fairness of each module, in its own behaviours.
TriggerFairness ==
    /\ WF_vars(worked = "triggers" /\ Start)
    /\ WF_vars(worked = "triggers" /\ Claim)
    /\ WF_vars(worked = "triggers" /\ Handle)
JobFairness ==
    /\ WF_cronVars(worked = "jobs" /\ OnTimer)
    /\ WF_cronVars(worked = "jobs" /\ JobEnds)
    /\ \A j \in Jobs : WF_cronVars(worked = "jobs" /\ ManualEnds(j))
    /\ WF_cronVars(worked = "jobs" /\ CronTick)

WorkersSpec ==
    /\ WorkersInit /\ [][WorkersNext]_<<vars, cronVars, worked>>
    /\ TriggerFairness /\ JobFairness

\* The two modules' type invariants.
WorkersTypeOK == TypeOK /\ CronTypeOK
=============================================================================
