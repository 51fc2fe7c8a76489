------------------------------ MODULE CronStore ------------------------------
(***************************************************************************)
(* The scheduled jobs of nanobot/cron/service.py.  One gateway owns the    *)
(* job file while it runs: it keeps the jobs in memory, saves them after   *)
(* every change and runs due jobs from a timer task.  Other processes      *)
(* append what they add or remove to an action log, which the owner merges *)
(* when it loads the file.  A job that is executed waits for its turn, so  *)
(* the API, manual runs and a kill may come in between.                    *)
(***************************************************************************)
EXTENDS Integers, Sequences, FiniteSets

CONSTANTS
    OneShots,      \* jobs at a fixed time, deleted after they ran
    Periodic,      \* jobs that recur
    NoJob,         \* the timer executes none
    At,            \* the time of each one-shot
    Every,         \* the period of the others
    MaxSleep,      \* the longest sleep of the timer
    LastCall,      \* nobody uses the API after this time (bound)
    MaxCalls,      \* API calls, own and other processes' (bound)
    MaxFailures,   \* saves that raise (bound)
    MaxCronKills   \* kills of the gateway (bound)

Jobs == OneShots \cup Periodic

ASSUME CronJobsAssumption ==
    NoJob \notin Jobs /\ OneShots \cap Periodic = {} /\ IsFiniteSet(Jobs)
ASSUME CronTimesAssumption ==
    /\ At \in [OneShots -> Nat \ {0}]
    /\ Every \in Nat \ {0} /\ MaxSleep \in Nat \ {0} /\ LastCall \in Nat

VARIABLES
    now,           \* the clock
    cronFile,      \* jobs.json
    actionLog,     \* action.jsonl
    cronUp,        \* the gateway runs (_running)
    cronStore,     \* its jobs in memory (_store)
    dirty,         \* a save failed: memory is ahead of the file
    wakeAt,        \* when the sleeping timer task wakes up, or 0
    due,           \* jobs that the executing tick has still to run
    current,       \* the job it is running, or NoJob
    manual,        \* jobs being run by hand
    known,         \* every job ever added (its id is never used again)
    calls, saveFailures, cronKills,
    begun,         \* ghost: occurrences the timer has started
    ended,         \* ghost: occurrences whose execution ended
    withdrawn,     \* ghost: jobs the gateway has removed, disabled or run off
    promised,      \* ghost: jobs accepted and neither removed nor run off
    gone,          \* ghost: jobs whose removal was acknowledged
    unsaved,       \* ghost: jobs of merged entries that only memory holds
    erased         \* ghost: those of which a kill or failed start did away

cronGhosts == <<begun, ended, withdrawn, promised, gone, unsaved, erased>>
cronTimer == <<wakeAt, due, current>>
cronDisk == <<cronFile, actionLog>>
cronMemory == <<cronUp, cronStore, dirty>>
cronVars == <<now, cronDisk, cronMemory, cronTimer, manual, known,
              calls, saveFailures, cronKills, cronGhosts>>

NoEntry == [status |-> "absent", next |-> 0]
Job(on, n) == [status |-> IF on THEN "on" ELSE "off", next |-> n]
There(store, j) == store[j].status # "absent"

\* A one-shot whose time is over has no next run.
ComputeNextRun(j, t) ==
    IF j \in Periodic THEN t + Every
    ELSE IF At[j] > t THEN At[j] ELSE 0

IsDue(store, j) ==
    store[j].status = "on" /\ store[j].next # 0 /\ store[j].next <= now

\* The actions of the log are applied to the jobs of the file in their order:
\* the last one on a job decides.
Touched(log) == {log[i].job : i \in DOMAIN log}
EntriesOn(j, log) == {i \in DOMAIN log : log[i].job = j}
Latest(I) == CHOOSE i \in I : \A k \in I : k <= i
LastOn(j, log) == log[Latest(EntriesOn(j, log))].to
Merged(store, log) ==
    [j \in Jobs |-> IF j \in Touched(log) THEN LastOn(j, log) ELSE store[j]]

CronInit ==
    /\ now = 1
    /\ cronFile = [j \in Jobs |-> NoEntry]
    /\ actionLog = <<>>
    /\ cronUp = FALSE
    /\ cronStore = [j \in Jobs |-> NoEntry]
    /\ dirty = FALSE
    /\ wakeAt = 0 /\ due = {} /\ current = NoJob
    /\ manual = {} /\ known = {}
    /\ calls = 0 /\ saveFailures = 0 /\ cronKills = 0
    /\ begun = {} /\ ended = {} /\ withdrawn = {}
    /\ promised = {} /\ gone = {} /\ unsaved = {} /\ erased = {}

-----------------------------------------------------------------------------
(* Loading and saving *)

ActiveExecutions ==
    Cardinality(manual) + (IF current = NoJob THEN 0 ELSE 1)

\* The store is read again unless memory is ahead of the file or some job is
\* being executed.
ReloadsMidRun == ~dirty
Reloads == ~dirty /\ ActiveExecutions = 0

View == IF Reloads THEN Merged(cronFile, actionLog) ELSE cronStore
ViewFile == IF Reloads THEN View ELSE cronFile
LogLeftNever == <<>>
LogLeft == IF Reloads THEN <<>> ELSE actionLog

Saves(store) == cronStore' = store /\ cronFile' = store /\ dirty' = FALSE
                /\ unsaved' = {} /\ UNCHANGED saveFailures

\* The write raises, before the new file replaced the old one or after.
WriteRaises(store, file) ==
    /\ saveFailures < MaxFailures /\ saveFailures' = saveFailures + 1
    /\ cronStore' = store /\ cronFile' \in {file, store}
    /\ dirty' = TRUE

SaveRaises(store, file) == WriteRaises(store, file) /\ UNCHANGED unsaved

\* The log was truncated before the save of the merged store raised: what it
\* said is in memory alone.
MergedSaveRaises(store, file) ==
    /\ WriteRaises(store, file)
    /\ actionLog' = <<>> /\ unsaved' = Touched(actionLog)

MergeRaises ==
    /\ Reloads /\ actionLog # <<>>
    /\ MergedSaveRaises(View, cronFile)

-----------------------------------------------------------------------------
(* The timer *)

Later(t) == IF t > now THEN t ELSE now
WakeTimes(store) ==
    {now + MaxSleep} \cup
    {Later(store[j].next) : j \in {k \in Jobs : store[k].status = "on" /\ store[k].next # 0}}

\* The timer sleeps until the next run of a job, MaxSleep at most.
SleepFor(store) ==
    \E t \in WakeTimes(store) :
        wakeAt' = t /\ \A u \in WakeTimes(store) : t <= u

\* _arm_timer cancels the timer task, asleep or in the middle of a job.  A
\* tick cancelled while it waits for a job's turn ends in its next step,
\* without advancing the job or saving, and arms the same timer again.
Arm(store) == SleepFor(store) /\ current' = NoJob /\ due' = {}

Occurrences(S, store) == {<<j, store[j].next>> : j \in S}

\* The tick executes one of the jobs it has listed.
StartNext(S, store) ==
    \E j \in S :
        /\ current' = j /\ due' = S \ {j} /\ wakeAt' = 0
        /\ begun' = begun \cup Occurrences({j}, store)

EndTick(store) ==
    /\ \/ Saves(store) \/ SaveRaises(store, ViewFile)
    /\ Arm(store) /\ UNCHANGED begun

CatchUpReturning ==
    /\ dirty /\ Saves(cronStore) /\ UNCHANGED <<actionLog, begun>>
    /\ wakeAt' = 0 /\ UNCHANGED <<current, due>>

\* A tick that finds unsaved state saves it and does nothing else.
CatchUp ==
    /\ dirty /\ EndTick(cronStore) /\ UNCHANGED actionLog

DueJobs(store) == {j \in Jobs : IsDue(store, j)}

RunDueJobs ==
    /\ ~dirty /\ actionLog' = LogLeft
    /\ IF DueJobs(View) = {} THEN EndTick(View)
       ELSE /\ StartNext(DueJobs(View), View)
            /\ cronStore' = View /\ cronFile' = ViewFile
            /\ UNCHANGED <<dirty, saveFailures, unsaved>>

\* The timer task wakes up: _on_timer up to its first job.
OnTimer ==
    /\ cronUp /\ wakeAt # 0 /\ wakeAt <= now
    /\ \/ CatchUp \/ RunDueJobs
       \/ ~dirty /\ MergeRaises /\ Arm(View) /\ UNCHANGED begun
    /\ UNCHANGED <<now, cronUp, manual, known, calls, cronKills,
                   ended, withdrawn, promised, gone, erased>>

\* A one-shot that was executed is deleted, another job advances; a job that
\* was removed meanwhile stays removed.
Executed(j, store) ==
    [store EXCEPT ![j] =
        IF j \in OneShots \/ @ = NoEntry THEN NoEntry
        ELSE [@ EXCEPT !.next = ComputeNextRun(j, now)]]

\* An execution that ends settles the occurrence that was due.
Settle(j) ==
    /\ ended' = ended \cup Occurrences({j} \cap DueJobs(cronStore), cronStore)
    /\ promised' = promised \ ({j} \cap OneShots)

\* _execute_job returns in the tick: the next job, or the end of the tick.
JobEnds ==
    LET after == Executed(current, cronStore) IN
    /\ current # NoJob
    /\ Settle(current)
    /\ IF due = {} THEN EndTick(after)
       ELSE /\ StartNext(due, after)
            /\ cronStore' = after
            /\ UNCHANGED <<cronFile, dirty, saveFailures, unsaved>>
    /\ UNCHANGED <<now, actionLog, cronUp, manual, known, calls, cronKills,
                   withdrawn, gone, erased>>

-----------------------------------------------------------------------------
(* The owner's API *)

Called ==
    /\ cronUp /\ calls < MaxCalls /\ now <= LastCall /\ calls' = calls + 1
    /\ UNCHANGED <<now, cronUp, cronKills, begun, ended, erased>>

\* A call that fails to load changes nothing else.
CallRaises == MergeRaises /\ UNCHANGED <<cronTimer, withdrawn, promised, gone>>

\* The changed store is saved and the timer armed anew, unless the save raises.
SaveAndArm(store) ==
    /\ actionLog' = LogLeft
    /\ \/ Saves(store) /\ Arm(store)
       \/ SaveRaises(store, ViewFile) /\ UNCHANGED cronTimer

AddJob(j) ==
    /\ Called /\ j \notin known
    /\ known' = known \cup {j} /\ UNCHANGED manual
    /\ \/ CallRaises
       \/ /\ SaveAndArm([View EXCEPT ![j] = Job(TRUE, ComputeNextRun(j, now))])
          /\ promised' = IF dirty' THEN promised ELSE promised \cup {j}
          /\ UNCHANGED <<withdrawn, gone>>

RemoveJob(j) ==
    /\ Called /\ There(View, j)
    /\ UNCHANGED <<known, manual>>
    /\ \/ CallRaises
       \/ /\ SaveAndArm([View EXCEPT ![j] = NoEntry])
          /\ promised' = promised \ {j}
          /\ IF dirty' THEN UNCHANGED <<withdrawn, gone>>
             ELSE withdrawn' = withdrawn \cup {j} /\ gone' = gone \cup {j}

Edit(j, on) ==
    /\ Called /\ There(View, j)
    /\ UNCHANGED <<known, manual>>
    /\ \/ CallRaises
       \/ /\ SaveAndArm([View EXCEPT ![j] =
                            Job(on, IF on THEN ComputeNextRun(j, now) ELSE 0)])
          /\ withdrawn' = IF on THEN withdrawn \ {j}
                          ELSE IF dirty' THEN withdrawn ELSE withdrawn \cup {j}
          /\ UNCHANGED <<promised, gone>>

EnableJob(j) == \E on \in BOOLEAN : Edit(j, on)

\* A new name, message or schedule: the next run is computed again.
UpdateJob(j) == Edit(j, View[j].status = "on")

\* list_jobs, get_job and status load, and so merge.
ListJobs ==
    /\ cronUp /\ Reloads
    /\ \/ CallRaises
       \/ /\ Saves(View) /\ actionLog' = <<>>
          /\ UNCHANGED <<cronTimer, withdrawn, promised, gone>>
    /\ UNCHANGED <<now, cronUp, manual, known, calls, cronKills, begun, ended, erased>>

\* run_job first saves what an earlier tick could not, then loads.
ManualFile == IF dirty THEN cronStore ELSE cronFile
ManualView ==
    IF ActiveExecutions = 0 THEN Merged(ManualFile, actionLog) ELSE cronStore

ManualRaises ==
    \/ dirty /\ SaveRaises(cronStore, cronFile) /\ UNCHANGED actionLog
    \/ /\ ActiveExecutions = 0 /\ actionLog # <<>>
       /\ MergedSaveRaises(ManualView, ManualFile)

ManualLoads ==
    /\ cronStore' = ManualView /\ dirty' = FALSE /\ unsaved' = {}
    /\ IF ActiveExecutions = 0 THEN cronFile' = ManualView /\ actionLog' = <<>>
       ELSE cronFile' = ManualFile /\ UNCHANGED actionLog
    /\ UNCHANGED saveFailures

\* A job is run by hand if it is enabled, or although it is not.
Runs(j, force) == There(ManualView, j) /\ (force \/ ManualView[j].status = "on")

RunJob(j) ==
    /\ Called /\ j \notin manual
    /\ \E force \in BOOLEAN :
          \/ /\ Runs(j, force) /\ ManualLoads
             /\ manual' = manual \cup {j} /\ UNCHANGED cronTimer
          \/ /\ ManualRaises \/ (~Runs(j, force) /\ ManualLoads)
             /\ UNCHANGED manual
             /\ IF ActiveExecutions = 0 THEN Arm(cronStore') ELSE UNCHANGED cronTimer
    /\ UNCHANGED <<known, withdrawn, promised, gone>>

ManualEnds(j) ==
    LET after == Executed(j, cronStore) IN
    /\ j \in manual /\ manual' = manual \ {j}
    /\ Settle(j)
    /\ Saves(after) \/ SaveRaises(after, cronFile)
    /\ IF ActiveExecutions = 1 THEN Arm(after) ELSE UNCHANGED cronTimer
    /\ UNCHANGED <<now, actionLog, cronUp, known, calls, cronKills,
                   begun, withdrawn, gone, erased>>

-----------------------------------------------------------------------------
(* Other processes, crashes and restarts *)

Logged(action) ==
    /\ calls < MaxCalls /\ now <= LastCall /\ calls' = calls + 1
    /\ actionLog' = Append(actionLog, action)
    /\ UNCHANGED <<now, cronFile, cronMemory, cronTimer, manual,
                   saveFailures, cronKills, begun, ended, withdrawn, unsaved, erased>>

AddElsewhere(j) ==
    /\ j \notin known /\ known' = known \cup {j}
    /\ Logged([job |-> j, to |-> Job(TRUE, ComputeNextRun(j, now))])
    /\ promised' = promised \cup {j} /\ UNCHANGED gone

RemoveElsewhere(j) ==
    /\ There(Merged(cronFile, actionLog), j)
    /\ Logged([job |-> j, to |-> NoEntry])
    /\ promised' = promised \ {j} /\ gone' = gone \cup {j} /\ UNCHANGED known

\* What only memory held is erased with it, and so is a log that had been
\* truncated for a merge.
LoseMemory == erased' = erased \cup unsaved /\ UNCHANGED actionLog
LoseMerge == erased' = erased \cup unsaved \cup Touched(actionLog) /\ actionLog' = <<>>

Stopped ==
    /\ cronUp' = FALSE /\ dirty' = FALSE
    /\ cronStore' = [j \in Jobs |-> NoEntry]
    /\ wakeAt' = 0 /\ due' = {} /\ current' = NoJob
    /\ manual' = {} /\ unsaved' = {}

\* Killed at any point, also while it merges: the log is empty, the merged
\* store not yet saved.
KillGateway ==
    /\ cronUp /\ cronKills < MaxCronKills /\ cronKills' = cronKills + 1
    /\ Stopped
    /\ LoseMemory \/ (Reloads /\ actionLog # <<>> /\ LoseMerge)
    /\ UNCHANGED <<now, cronFile, known, calls, saveFailures,
                   begun, ended, withdrawn, promised, gone>>

Recomputed(store) ==
    [j \in Jobs |-> IF store[j].status = "on"
                    THEN [store[j] EXCEPT !.next = ComputeNextRun(j, now)]
                    ELSE store[j]]

StartService ==
    /\ ~cronUp /\ cronUp' = TRUE
    /\ Saves(Recomputed(View)) /\ actionLog' = <<>>
    /\ SleepFor(cronStore')
    /\ UNCHANGED <<now, due, current, manual, known, calls, cronKills,
                   begun, ended, withdrawn, promised, gone, erased>>

\* A save that raises ends the gateway's start.
StartFails ==
    /\ ~cronUp /\ saveFailures < MaxFailures /\ saveFailures' = saveFailures + 1
    /\ cronFile' \in {cronFile, View, Recomputed(View)}
    /\ LoseMerge
    /\ UNCHANGED <<now, cronMemory, cronTimer, manual, known, calls, cronKills,
                   begun, ended, withdrawn, promised, gone, unsaved>>

Awaited(j) == cronUp /\ IsDue(cronStore, j) /\ cronStore[j].next <= LastCall

\* The clock runs a sleep past the last call, and on while a job that was due
\* by then still waits for the timer (bound).
CronTick ==
    /\ now < LastCall + MaxSleep \/ \E j \in Jobs : Awaited(j) /\ wakeAt > now
    /\ now' = now + 1
    /\ UNCHANGED <<cronDisk, cronMemory, cronTimer, manual, known,
                   calls, saveFailures, cronKills, cronGhosts>>

CronApi ==
    \/ \E j \in Jobs :
          \/ AddJob(j) \/ RemoveJob(j) \/ EnableJob(j) \/ UpdateJob(j)
          \/ RunJob(j) \/ AddElsewhere(j) \/ RemoveElsewhere(j)
    \/ ListJobs

CronNext ==
    \/ OnTimer \/ JobEnds \/ CronApi
    \/ \E j \in Jobs : ManualEnds(j)
    \/ KillGateway \/ StartService \/ StartFails \/ CronTick

\* The event loop runs what is ready, executions end (turns carry timeouts)
\* and time passes.  Nobody has to call anything or to restart the gateway.
CronFairness ==
    /\ WF_cronVars(OnTimer) /\ WF_cronVars(JobEnds)
    /\ \A j \in Jobs : WF_cronVars(ManualEnds(j))
    /\ WF_cronVars(CronTick)

CronSpec == CronInit /\ [][CronNext]_cronVars
CronFairSpec == CronSpec /\ CronFairness

-----------------------------------------------------------------------------
(* Properties *)

Entries == [status : {"absent", "on", "off"}, next : Nat]
Stores == [Jobs -> Entries]
Actions == [job : Jobs, to : Entries]

CronTypeOK ==
    /\ now \in Nat /\ wakeAt \in Nat
    /\ cronFile \in Stores /\ cronStore \in Stores
    /\ actionLog \in Seq(Actions)
    /\ cronUp \in BOOLEAN /\ dirty \in BOOLEAN
    /\ due \subseteq Jobs /\ current \in Jobs \cup {NoJob}
    /\ manual \subseteq known /\ known \subseteq Jobs
    /\ {withdrawn, promised, gone, unsaved, erased} \subseteq SUBSET known
    /\ begun \cup ended \subseteq Jobs \X Nat

\* _load_store: "could make an already executed job due again and repeat its
\* side effect".  No tick lists a job for an occurrence whose execution, by
\* the timer or by hand, has ended: through reloads, failed saves and kills.
NoReplay ==
    [][(current = NoJob /\ current' # NoJob) =>
          Occurrences(due' \cup {current'}, cronStore') \cap ended = {}]_cronVars

\* The timer starts no job that the gateway has removed or disabled, although
\* the tick that executes may have listed it before.
WithdrawnJobsRest ==
    [][current' \notin {current, NoJob} => current' \notin withdrawn]_cronVars

\* A store keeps the gateway's word if, once the log is merged into it, it has
\* the acknowledged jobs and none whose removal was acknowledged.
KeepsWord(store, lost) ==
    LET kept == Merged(store, actionLog) IN
    /\ \A j \in promised \ lost : There(kept, j)
    /\ \A j \in gone \ lost : ~There(kept, j)

\* Jobs that add_job() accepted, here or elsewhere, are not lost before they are
\* removed or run off, and jobs that remove_job() removed do not return: so says
\* the file, and the memory that will be saved over it.  Where the save that
\* followed the truncation of the log has raised, memory alone has to say so;
\* only a gateway killed before it could save, or a start that failed there,
\* takes the entries of that log with it.
AcknowledgedIsDurable ==
    /\ KeepsWord(cronFile, erased \cup unsaved)
    /\ cronUp => KeepsWord(cronStore, erased)

\* _on_timer: "a single bad tick cannot silently stop all future jobs".
TimerIsArmed == cronUp => (wakeAt # 0 \/ current # NoJob)

\* A job that is due is run, or removed, disabled or postponed, while the
\* gateway stays up.
DueJobsRun ==
    \A j \in Jobs : Awaited(j) ~> (~cronUp \/ ~IsDue(cronStore, j))

\* docs/automations.md: "one-time future tasks".  The timer starts a
\* one-shot at most once.
OneTimeIsOnce ==
    [][current' \in OneShots \ {current} =>
          Occurrences({current'}, cronStore') \cap begun = {}]_cronVars
=============================================================================
