--------------------------- MODULE CronStoreProofs ---------------------------
(***************************************************************************)
(* What CronStore promises, for every set of jobs and every value of its   *)
(* bounds; at the end, the types of both background workers (MCWorkers).   *)
(***************************************************************************)
EXTENDS MCWorkers, LocalTriggersProofs, FiniteSetTheorems, TLAPS

USE CronJobsAssumption, CronTimesAssumption
    DEF CronJobsAssumption, CronTimesAssumption

\* The log has a last entry for each job it touches.
Ordered(log) ==
    \A j \in Touched(log) :
        \E i \in EntriesOn(j, log) : \A k \in EntriesOn(j, log) : k <= i

\* A store and a log of jobs of S.
StoreOf(s, S) == s \in Stores /\ \A j \in Jobs : There(s, j) => j \in S
LogOf(log, S) == log \in Seq(Actions) /\ Ordered(log) /\ Touched(log) \subseteq S

\* A gateway that is down executes nothing and has nothing to save.
Down == ~cronUp => ~dirty /\ manual = {} /\ current = NoJob

\* CronTypeOK, and nothing is anywhere that was not added once.
Sound ==
    /\ now \in Nat /\ now >= 1 /\ wakeAt \in Nat
    /\ StoreOf(cronFile, known) /\ StoreOf(cronStore, known)
    /\ LogOf(actionLog, known)
    /\ cronUp \in BOOLEAN /\ dirty \in BOOLEAN
    /\ due \subseteq Jobs /\ current \in Jobs \cup {NoJob}
    /\ manual \subseteq known /\ known \subseteq Jobs
    /\ withdrawn \subseteq known /\ promised \subseteq known /\ gone \subseteq known
    /\ unsaved \subseteq known /\ erased \subseteq known
    /\ begun \subseteq Jobs \X Nat /\ ended \subseteq Jobs \X Nat
    /\ Down

\* A store keeps the gateway's word, on jobs P that have to be there and jobs G
\* that must not be, if it does once the log is applied to it.
Word(store, log, P, G) ==
    /\ \A j \in P : There(Merged(store, log), j)
    /\ \A j \in G : ~There(Merged(store, log), j)

Owed == promised \ erased
Barred == gone \ erased

\* The gateway's memory keeps its word, and the file does but for the entries
\* whose save after the merge has raised, of which there are none unless memory
\* is ahead of the file.
WordKept ==
    /\ ~dirty => unsaved = {}
    /\ Word(cronFile, actionLog, Owed \ unsaved, Barred \ unsaved)
    /\ cronUp => Word(cronStore, actionLog, Owed, Barred)

-----------------------------------------------------------------------------
(* Merging *)

LEMMA LatestIsGreatest ==
    ASSUME NEW I, NEW i \in I, \A k \in I : k <= i
    PROVE  Latest(I) \in I /\ \A k \in I : k <= Latest(I)
BY DEF Latest

\* Applying the log to a store yields a store.
LEMMA MergedType ==
    ASSUME NEW s \in Stores, NEW log \in Seq(Actions), Ordered(log)
    PROVE  Merged(s, log) \in Stores
<1>1. ASSUME NEW j \in Touched(log)
      PROVE  LastOn(j, log) \in Entries
  <2>1. Latest(EntriesOn(j, log)) \in EntriesOn(j, log)
    BY LatestIsGreatest DEF Ordered
  <2>2. Latest(EntriesOn(j, log)) \in DOMAIN log  BY <2>1 DEF EntriesOn
  <2>3. log[Latest(EntriesOn(j, log))] \in Actions  BY <2>2
  <2> QED  BY <2>3 DEF LastOn, Actions
<1> QED  BY <1>1 DEF Merged, Stores

LEMMA UntouchedMerged ==
    ASSUME NEW s, NEW log, NEW j \in Jobs, j \notin Touched(log)
    PROVE  Merged(s, log)[j] = s[j]
BY DEF Merged

LEMMA TouchedMerged ==
    ASSUME NEW s, NEW log, NEW j \in Jobs, j \in Touched(log)
    PROVE  Merged(s, log)[j] = LastOn(j, log)
BY DEF Merged

LEMMA NothingTouched == Touched(<<>>) = {} /\ Ordered(<<>>)
BY DEF Touched, Ordered

LEMMA MergedKnown ==
    ASSUME NEW s, NEW log, NEW S \in SUBSET Jobs, Touched(log) \subseteq S,
           \A j \in Jobs : There(s, j) => j \in S
    PROVE  \A j \in Jobs : There(Merged(s, log), j) => j \in S
<1> TAKE j \in Jobs
<1>1. CASE j \in Touched(log)  BY <1>1
<1>2. CASE j \notin Touched(log)  BY <1>2, UntouchedMerged DEF There
<1> QED  BY <1>1, <1>2

\* A store that has no fewer of the jobs P, and no more of the others.
LEMMA WordMore ==
    ASSUME NEW s, NEW t, NEW log, NEW P \in SUBSET Jobs, NEW G \in SUBSET Jobs,
           Word(s, log, P, G),
           \A j \in P : There(s, j) => There(t, j),
           \A j \in G : There(t, j) => There(s, j)
    PROVE  Word(t, log, P, G)
<1>1. ASSUME NEW j \in Jobs, j \in Touched(log)
      PROVE  There(Merged(t, log), j) <=> There(Merged(s, log), j)
  BY <1>1, TouchedMerged DEF There
<1>2. ASSUME NEW j \in Jobs, j \notin Touched(log)
      PROVE  /\ There(Merged(t, log), j) <=> There(t, j)
             /\ There(Merged(s, log), j) <=> There(s, j)
  BY <1>2, UntouchedMerged DEF There
<1> QED  BY <1>1, <1>2 DEF Word

LEMMA WordFewer ==
    ASSUME NEW s, NEW log, NEW P, NEW G, NEW Q, NEW H,
           Word(s, log, P, G), Q \subseteq P, H \subseteq G
    PROVE  Word(s, log, Q, H)
BY DEF Word

\* Once it is applied, the log may be emptied or applied again; a store to
\* which it was not applied keeps its word on the jobs that it does not touch.
LEMMA WordOfMerged ==
    ASSUME NEW s, NEW log, NEW P \in SUBSET Jobs, NEW G \in SUBSET Jobs,
           Word(s, log, P, G)
    PROVE  /\ Word(Merged(s, log), <<>>, P, G)
           /\ Word(s, <<>>, P \ Touched(log), G \ Touched(log))
<1>1. \A t, j : j \in Jobs => Merged(t, <<>>)[j] = t[j]
  BY NothingTouched, UntouchedMerged
<1>2. \A j \in Jobs : There(Merged(Merged(s, log), <<>>), j) <=> There(Merged(s, log), j)
  BY <1>1 DEF There
<1>3. \A j \in Jobs \ Touched(log) : There(Merged(s, <<>>), j) <=> There(Merged(s, log), j)
  BY <1>1, UntouchedMerged DEF There
<1> QED  BY <1>2, <1>3 DEF Word

-----------------------------------------------------------------------------
(* A longer log *)

LEMMA AppendedEntry ==
    ASSUME NEW log \in Seq(Actions), NEW a \in Actions
    PROVE  /\ Append(log, a) \in Seq(Actions)
           /\ Touched(Append(log, a)) = Touched(log) \cup {a.job}
           /\ EntriesOn(a.job, Append(log, a)) =
                 EntriesOn(a.job, log) \cup {Len(log) + 1}
           /\ \A j \in Jobs \ {a.job} :
                 EntriesOn(j, Append(log, a)) = EntriesOn(j, log)
           /\ \A i \in DOMAIN log : Append(log, a)[i] = log[i] /\ i < Len(log) + 1
           /\ Append(log, a)[Len(log) + 1] = a
<1> DEFINE n == Len(log) + 1  new == Append(log, a)
<1>1. new \in Seq(Actions) /\ DOMAIN new = 1..n /\ DOMAIN log = 1..(n - 1) /\ n \in Nat
  OBVIOUS
<1>2. \A i \in DOMAIN log : new[i] = log[i] /\ i < n  OBVIOUS
<1>3. new[n] = a  OBVIOUS
<1>4. DOMAIN new = DOMAIN log \cup {n}  BY <1>1
<1> HIDE DEF n, new
<1>5. Touched(new) = Touched(log) \cup {a.job}
  BY <1>2, <1>3, <1>4 DEF Touched
<1>6. EntriesOn(a.job, new) = EntriesOn(a.job, log) \cup {n}
  BY <1>2, <1>3, <1>4 DEF EntriesOn
<1>7. ASSUME NEW j \in Jobs \ {a.job}
      PROVE  EntriesOn(j, new) = EntriesOn(j, log)
  BY <1>2, <1>3, <1>4 DEF EntriesOn
<1> QED  BY <1>1, <1>2, <1>3, <1>5, <1>6, <1>7 DEF n, new

LEMMA AppendedOrdered ==
    ASSUME NEW log \in Seq(Actions), NEW a \in Actions, Ordered(log)
    PROVE  Ordered(Append(log, a))
<1> SUFFICES ASSUME NEW j \in Touched(Append(log, a))
             PROVE  \E i \in EntriesOn(j, Append(log, a)) :
                       \A k \in EntriesOn(j, Append(log, a)) : k <= i
  BY DEF Ordered
<1>1. CASE j = a.job
  <2> DEFINE n == Len(log) + 1
  <2>1. n \in Nat /\ \A k \in DOMAIN log : k \in Nat /\ k <= n
    OBVIOUS
  <2> HIDE DEF n
  <2>2. EntriesOn(j, Append(log, a)) = EntriesOn(j, log) \cup {n}
    BY <1>1, AppendedEntry DEF n
  <2>3. \A k \in EntriesOn(j, Append(log, a)) : k <= n
    BY <2>1, <2>2 DEF EntriesOn
  <2> QED  BY <2>2, <2>3
<1>2. CASE j # a.job
  <2>1. j \in Touched(log)  BY <1>2, AppendedEntry
  <2>2. j \in Jobs
    <3>1. \A i \in DOMAIN log : log[i] \in Actions  OBVIOUS
    <3> QED  BY <2>1, <3>1 DEF Touched, Actions
  <2>3. EntriesOn(j, Append(log, a)) = EntriesOn(j, log)
    BY <1>2, <2>2, AppendedEntry
  <2> QED  BY <2>1, <2>3 DEF Ordered
<1> QED  BY <1>1, <1>2

\* An appended action changes nothing for the other jobs ...
LEMMA AppendedOthers ==
    ASSUME NEW s, NEW log \in Seq(Actions), NEW a \in Actions, Ordered(log),
           NEW j \in Jobs \ {a.job}
    PROVE  Merged(s, Append(log, a))[j] = Merged(s, log)[j]
<1> DEFINE new == Append(log, a)
<1>1. CASE j \in Touched(log)
  <2>1. Latest(EntriesOn(j, log)) \in EntriesOn(j, log)
    BY <1>1, LatestIsGreatest DEF Ordered
  <2>2. Latest(EntriesOn(j, log)) \in DOMAIN log  BY <2>1 DEF EntriesOn
  <2>3. LastOn(j, new) = LastOn(j, log)
    BY <2>2, AppendedEntry DEF LastOn
  <2> QED  BY <1>1, <2>3, AppendedEntry, TouchedMerged
<1>2. CASE j \notin Touched(log)
  BY <1>2, AppendedEntry, UntouchedMerged
<1> QED  BY <1>1, <1>2

\* ... and decides about its own.
LEMMA AppendedLast ==
    ASSUME NEW s, NEW log \in Seq(Actions), NEW a \in Actions
    PROVE  Merged(s, Append(log, a))[a.job] = a.to
<1> DEFINE new == Append(log, a)  n == Len(log) + 1  I == EntriesOn(a.job, log) \cup {n}
<1>1. n \in Nat /\ \A k \in DOMAIN log : k \in Nat /\ k <= n  OBVIOUS
<1>2. /\ EntriesOn(a.job, new) = I /\ new[n] = a
      /\ a.job \in Touched(new) /\ a.job \in Jobs
  BY AppendedEntry DEF Actions
<1> HIDE DEF new, n
<1>3. n \in I /\ \A k \in I : k \in Nat /\ k <= n  BY <1>1 DEF EntriesOn
<1> HIDE DEF I
<1>4. Latest(I) \in I /\ n <= Latest(I)  BY <1>3, LatestIsGreatest
<1>5. Latest(I) = n
  <2>1. Latest(I) \in Nat /\ Latest(I) <= n  BY <1>3, <1>4
  <2> QED  BY <1>1, <1>4, <2>1
<1>6. LastOn(a.job, new) = a.to  BY <1>2, <1>5 DEF LastOn
<1>7. Merged(s, new)[a.job] = a.to  BY <1>2, <1>6, TouchedMerged
<1> QED  BY <1>7 DEF new

-----------------------------------------------------------------------------
(* Types *)

LEMMA TypesOfSound == Sound => CronTypeOK
BY DEF Sound, CronTypeOK, StoreOf, LogOf

LEMMA MergedOf ==
    ASSUME NEW S \in SUBSET Jobs, NEW s, NEW log, StoreOf(s, S), LogOf(log, S)
    PROVE  StoreOf(Merged(s, log), S)
BY MergedType, MergedKnown DEF StoreOf, LogOf

LEMMA ViewsOf ==
    ASSUME Sound
    PROVE  /\ StoreOf(View, known) /\ StoreOf(ViewFile, known)
           /\ StoreOf(ManualFile, known) /\ StoreOf(ManualView, known)
<1>1. StoreOf(ManualFile, known)  BY DEF Sound, ManualFile
<1>2. StoreOf(Merged(cronFile, actionLog), known)  BY MergedOf DEF Sound
<1>3. StoreOf(Merged(ManualFile, actionLog), known)
  BY <1>1, MergedOf DEF Sound
<1> QED  BY <1>1, <1>2, <1>3 DEF Sound, View, ViewFile, ManualView

LEMMA NextRuns ==
    ASSUME NEW j \in Jobs, NEW t \in Nat
    PROVE  ComputeNextRun(j, t) \in Nat
<1>1. CASE j \in Periodic  BY <1>1 DEF ComputeNextRun
<1>2. CASE j \notin Periodic
  <2>1. At[j] \in Nat  BY <1>2 DEF Jobs
  <2> QED  BY <1>2, <2>1 DEF ComputeNextRun
<1> QED  BY <1>1, <1>2

\* One entry of a store is replaced.
LEMMA ReplacedOf ==
    ASSUME NEW S, NEW s, StoreOf(s, S), NEW j \in S, NEW e \in Entries, S \subseteq Jobs
    PROVE  StoreOf([s EXCEPT ![j] = e], S)
BY DEF StoreOf, Stores, There

LEMMA ExecutedOf ==
    ASSUME Sound, NEW s, StoreOf(s, known), NEW j \in Jobs
    PROVE  StoreOf(Executed(j, s), known)
<1>1. s \in Stores /\ s[j] \in Entries  BY DEF StoreOf, Stores
<1>2. NoEntry \in Entries  BY DEF NoEntry, Entries
<1>3. ComputeNextRun(j, now) \in Nat  BY NextRuns DEF Sound
<1>4. [s[j] EXCEPT !.next = ComputeNextRun(j, now)] \in Entries
  BY <1>1, <1>3 DEF Entries
<1>5. Executed(j, s) \in Stores
  BY <1>1, <1>2, <1>4 DEF Executed, Stores
<1>6. \A k \in Jobs : There(Executed(j, s), k) => There(s, k)
  BY <1>1 DEF Executed, There, Stores, NoEntry, Entries
<1> QED  BY <1>5, <1>6 DEF StoreOf

LEMMA RecomputedOf ==
    ASSUME Sound, NEW s, StoreOf(s, known)
    PROVE  /\ StoreOf(Recomputed(s), known)
           /\ \A j \in Jobs : There(s, j) <=> There(Recomputed(s), j)
<1>1. ASSUME NEW j \in Jobs
      PROVE  [s[j] EXCEPT !.next = ComputeNextRun(j, now)] \in Entries
  <2>1. s[j] \in Entries  BY DEF StoreOf, Stores
  <2>2. ComputeNextRun(j, now) \in Nat  BY NextRuns DEF Sound
  <2> QED  BY <2>1, <2>2 DEF Entries
<1>2. Recomputed(s) \in Stores  BY <1>1 DEF Recomputed, StoreOf, Stores
<1>3. \A j \in Jobs : There(s, j) <=> There(Recomputed(s), j)
  BY DEF Recomputed, There, StoreOf, Stores, Entries
<1> QED  BY <1>2, <1>3 DEF StoreOf

\* Whenever the timer sleeps, it has a time to wake up.
LEMMA Sleeps ==
    ASSUME Sound, NEW s \in Stores, SleepFor(s)
    PROVE  wakeAt' \in Nat /\ wakeAt' # 0
<1>1. PICK t \in WakeTimes(s) : wakeAt' = t  BY DEF SleepFor
<1>2. now + MaxSleep \in Nat /\ now + MaxSleep # 0  BY DEF Sound
<1>3. ASSUME NEW j \in Jobs
      PROVE  Later(s[j].next) \in Nat /\ Later(s[j].next) # 0
  <2>1. s[j].next \in Nat  BY DEF Stores, Entries
  <2> QED  BY <2>1 DEF Later, Sound
<1> QED  BY <1>1, <1>2, <1>3 DEF WakeTimes

LEMMA Arms ==
    ASSUME Sound, NEW s, StoreOf(s, known), Arm(s)
    PROVE  wakeAt' \in Nat /\ wakeAt' # 0 /\ current' = NoJob /\ due' = {}
BY Sleeps DEF Arm, StoreOf

LEMMA Stored ==
    ASSUME NEW S, NEW s, NEW f, StoreOf(s, S), StoreOf(f, S), Saves(s) \/ SaveRaises(s, f)
    PROVE  /\ StoreOf(cronStore', S) /\ StoreOf(cronFile', S) /\ dirty' \in BOOLEAN
           /\ unsaved' \subseteq unsaved
BY DEF Saves, SaveRaises, WriteRaises

LEMMA Occur ==
    ASSUME NEW S \in SUBSET Jobs, NEW s \in Stores
    PROVE  Occurrences(S, s) \subseteq Jobs \X Nat
BY DEF Occurrences, Stores, Entries

LEMMA Starts ==
    ASSUME Sound, NEW S \in SUBSET Jobs, NEW s, StoreOf(s, known), StartNext(S, s)
    PROVE  /\ current' \in Jobs /\ due' \subseteq Jobs /\ wakeAt' = 0
           /\ begun' \subseteq Jobs \X Nat
<1>1. PICK j \in S : /\ current' = j /\ due' = S \ {j} /\ wakeAt' = 0
                     /\ begun' = begun \cup Occurrences({j}, s)
  BY DEF StartNext
<1>2. Occurrences({j}, s) \subseteq Jobs \X Nat  BY Occur DEF StoreOf
<1> QED  BY <1>1, <1>2 DEF Sound

LEMMA TickEnds ==
    ASSUME Sound, NEW s, StoreOf(s, known), EndTick(s)
    PROVE  /\ StoreOf(cronStore', known) /\ StoreOf(cronFile', known)
           /\ dirty' \in BOOLEAN /\ begun' = begun /\ unsaved' \subseteq unsaved
           /\ wakeAt' \in Nat /\ wakeAt' # 0 /\ current' = NoJob /\ due' = {}
BY ViewsOf, Stored, Arms DEF EndTick

LEMMA MergeFails ==
    ASSUME Sound, MergeRaises
    PROVE  /\ StoreOf(cronStore', known) /\ StoreOf(cronFile', known)
           /\ dirty' = TRUE /\ actionLog' = <<>> /\ LogOf(<<>>, known)
           /\ unsaved' \subseteq known
BY ViewsOf, NothingTouched DEF MergeRaises, MergedSaveRaises, WriteRaises, Sound, LogOf
-----------------------------------------------------------------------------
(* Every step keeps Sound *)

LEMMA ViewStores ==
    ASSUME Sound
    PROVE  /\ View \in Stores /\ cronStore \in Stores
           /\ DueJobs(View) \subseteq Jobs
           /\ LogLeft = <<>> \/ LogLeft = actionLog
           /\ LogOf(<<>>, known) /\ LogOf(LogLeft, known)
BY ViewsOf, NothingTouched DEF Sound, StoreOf, LogOf, LogLeft, DueJobs

LEMMA OnTimerSound == Sound /\ OnTimer => Sound'
<1> SUFFICES ASSUME Sound, OnTimer PROVE Sound'  OBVIOUS
<1> USE DEF Sound
<1>1. /\ cronUp /\ wakeAt # 0
      /\ UNCHANGED <<now, cronUp, manual, known, calls, cronKills,
                     ended, withdrawn, promised, gone, erased>>
  BY DEF OnTimer
<1>2. CASE CatchUp
  <2>1. EndTick(cronStore) /\ actionLog' = actionLog  BY <1>2 DEF CatchUp
  <2> QED  BY <1>1, <1>2, <2>1, TickEnds DEF Down
<1>3. CASE RunDueJobs
  <2>1. LogOf(actionLog', known)  BY <1>3, ViewStores DEF RunDueJobs
  <2>2. CASE EndTick(View)
    BY <1>1, <1>3, <2>1, <2>2, ViewsOf, TickEnds DEF Down
  <2>3. CASE /\ StartNext(DueJobs(View), View)
             /\ cronStore' = View /\ cronFile' = ViewFile
             /\ dirty' = dirty /\ unsaved' = unsaved
    <3>1. StoreOf(View, known) /\ StoreOf(ViewFile, known) /\ DueJobs(View) \subseteq Jobs
      BY ViewsOf, ViewStores
    <3>2. /\ current' \in Jobs /\ due' \subseteq Jobs /\ wakeAt' = 0
          /\ begun' \subseteq Jobs \X Nat
      BY <2>3, <3>1, Starts
    <3> QED  BY <1>1, <1>3, <2>1, <2>3, <3>1, <3>2 DEF Down
  <2> QED  BY <1>3, <2>2, <2>3 DEF RunDueJobs
<1>4. CASE MergeRaises /\ Arm(View) /\ UNCHANGED begun
  BY <1>1, <1>4, ViewsOf, MergeFails, Arms DEF Down
<1> QED  BY <1>2, <1>3, <1>4 DEF OnTimer

\* What an execution settles.
LEMMA Settled ==
    ASSUME Sound, NEW j \in Jobs, Settle(j)
    PROVE  ended' \subseteq Jobs \X Nat /\ promised' \subseteq known
<1>1. Occurrences({j} \cap DueJobs(cronStore), cronStore) \subseteq Jobs \X Nat
  BY Occur DEF Sound, StoreOf
<1> QED  BY <1>1 DEF Settle, Sound

LEMMA JobEndsSound == Sound /\ JobEnds => Sound'
<1> SUFFICES ASSUME Sound, JobEnds PROVE Sound'  OBVIOUS
<1> USE DEF Sound
<1> DEFINE after == Executed(current, cronStore)
<1>1. /\ current \in Jobs /\ current # NoJob /\ Settle(current)
      /\ UNCHANGED <<now, actionLog, cronUp, manual, known, withdrawn, gone, erased>>
  BY DEF JobEnds
<1>2. cronUp  BY <1>1 DEF Down
<1>3. StoreOf(after, known)  BY <1>1, ExecutedOf
<1>4. ended' \subseteq Jobs \X Nat /\ promised' \subseteq known
  BY <1>1, Settled
<1>5. \/ EndTick(after)
      \/ StartNext(due, after) /\ cronStore' = after /\ UNCHANGED <<cronFile, dirty, unsaved>>
  BY DEF JobEnds
<1> HIDE DEF after
<1>6. CASE EndTick(after)
  BY <1>1, <1>2, <1>3, <1>4, <1>6, TickEnds DEF Down
<1>7. CASE StartNext(due, after) /\ cronStore' = after /\ UNCHANGED <<cronFile, dirty, unsaved>>
  <2>1. /\ current' \in Jobs /\ due' \subseteq Jobs /\ wakeAt' = 0
        /\ begun' \subseteq Jobs \X Nat
    BY <1>3, <1>7, Starts
  <2> QED  BY <1>1, <1>2, <1>3, <1>4, <1>7, <2>1 DEF Down
<1> QED  BY <1>5, <1>6, <1>7

\* A call that changes the view and saves it; known may have grown.
LEMMA CallSaves ==
    ASSUME Sound, NEW s, NEW S \in SUBSET Jobs, known \subseteq S, StoreOf(s, S),
           SaveAndArm(s)
    PROVE  /\ StoreOf(cronStore', S) /\ StoreOf(cronFile', S) /\ LogOf(actionLog', S)
           /\ dirty' \in BOOLEAN /\ wakeAt' \in Nat
           /\ due' \subseteq Jobs /\ current' \in Jobs \cup {NoJob}
           /\ unsaved' \subseteq unsaved
<1>1. StoreOf(ViewFile, S) /\ StoreOf(cronFile, S)
  BY ViewsOf DEF Sound, StoreOf
<1>2. LogOf(actionLog', S)  BY ViewStores DEF SaveAndArm, LogOf
<1>3. /\ StoreOf(cronStore', S) /\ StoreOf(cronFile', S) /\ dirty' \in BOOLEAN
      /\ unsaved' \subseteq unsaved
  BY <1>1, Stored DEF SaveAndArm
<1>4. CASE Arm(s)
  BY <1>2, <1>3, <1>4, Sleeps DEF SaveAndArm, Arm, StoreOf
<1>5. CASE UNCHANGED cronTimer
  BY <1>2, <1>3, <1>5 DEF SaveAndArm, Sound, cronTimer
<1> QED  BY <1>4, <1>5 DEF SaveAndArm

\* A call whose merge fails; known may have grown.
LEMMA CallFails ==
    ASSUME Sound, CallRaises, cronUp, known \subseteq known', known' \subseteq Jobs,
           UNCHANGED <<now, cronUp, manual, begun, ended, erased>>
    PROVE  Sound'
<1>1. /\ StoreOf(cronStore', known) /\ StoreOf(cronFile', known)
      /\ dirty' = TRUE /\ actionLog' = <<>> /\ LogOf(<<>>, known)
      /\ unsaved' \subseteq known
  BY MergeFails DEF CallRaises
<1>2. StoreOf(cronStore', known') /\ StoreOf(cronFile', known') /\ LogOf(actionLog', known')
  BY <1>1 DEF StoreOf, LogOf
<1>3. UNCHANGED <<wakeAt, due, current, withdrawn, promised, gone>>
  BY DEF CallRaises, cronTimer
<1> QED  BY <1>1, <1>2, <1>3 DEF Sound, Down

\* The types that a call which saves leaves to check.
LEMMA CallSound ==
    ASSUME Sound, NEW s, StoreOf(s, known'), SaveAndArm(s), cronUp,
           known \subseteq known', known' \subseteq Jobs,
           promised' \subseteq known', withdrawn' \subseteq known', gone' \subseteq known',
           UNCHANGED <<now, cronUp, manual, begun, ended, erased>>
    PROVE  Sound'
<1>1. /\ StoreOf(cronStore', known') /\ StoreOf(cronFile', known') /\ LogOf(actionLog', known')
      /\ dirty' \in BOOLEAN /\ wakeAt' \in Nat
      /\ due' \subseteq Jobs /\ current' \in Jobs \cup {NoJob}
      /\ unsaved' \subseteq unsaved
  BY CallSaves
<1> QED  BY <1>1 DEF Sound, Down

LEMMA JobEntries ==
    ASSUME NEW on \in BOOLEAN, NEW n \in Nat
    PROVE  Job(on, n) \in Entries /\ NoEntry \in Entries
BY DEF Job, Entries, NoEntry

LEMMA ApiSound ==
    ASSUME Sound, NEW j \in Jobs,
           AddJob(j) \/ RemoveJob(j) \/ EnableJob(j) \/ UpdateJob(j)
    PROVE  Sound'
<1>1. cronUp /\ UNCHANGED <<now, cronUp, begun, ended, erased>>
  BY DEF AddJob, RemoveJob, EnableJob, UpdateJob, Edit, Called
<1>2. ComputeNextRun(j, now) \in Nat  BY NextRuns DEF Sound
<1>3. CASE AddJob(j)
  <2> DEFINE added == [View EXCEPT ![j] = Job(TRUE, ComputeNextRun(j, now))]
  <2>1. known' = known \cup {j} /\ manual' = manual  BY <1>3 DEF AddJob
  <2>2. StoreOf(View, known')  BY <2>1, ViewsOf DEF StoreOf
  <2>3. known' \subseteq Jobs  BY <2>1 DEF Sound
  <2>4. StoreOf(added, known')
    BY <1>2, <2>1, <2>2, <2>3, JobEntries, ReplacedOf
  <2> HIDE DEF added
  <2>5. CASE /\ SaveAndArm(added) /\ promised' \subseteq promised \cup {j}
             /\ UNCHANGED <<withdrawn, gone>>
    BY <1>1, <2>1, <2>3, <2>4, <2>5, CallSound DEF Sound
  <2>6. CASE CallRaises
    BY <1>1, <2>1, <2>3, <2>6, CallFails
  <2> QED  BY <1>3, <2>5, <2>6 DEF AddJob, added
<1>4. CASE RemoveJob(j)
  <2> DEFINE left == [View EXCEPT ![j] = NoEntry]
  <2>1. known' = known /\ manual' = manual /\ j \in known
    BY <1>4, ViewsOf DEF RemoveJob, StoreOf
  <2>2. StoreOf(left, known')
    BY <2>1, JobEntries, ViewsOf, ReplacedOf DEF Sound
  <2> HIDE DEF left
  <2>3. CASE /\ SaveAndArm(left) /\ promised' \subseteq promised
             /\ withdrawn' \subseteq withdrawn \cup {j} /\ gone' \subseteq gone \cup {j}
    BY <1>1, <2>1, <2>2, <2>3, CallSound DEF Sound
  <2>4. CASE CallRaises
    BY <1>1, <2>1, <2>4, CallFails DEF Sound
  <2> QED  BY <1>4, <2>3, <2>4 DEF RemoveJob, left
<1>5. ASSUME NEW on \in BOOLEAN, Edit(j, on)
      PROVE  Sound'
  <2> DEFINE n == IF on THEN ComputeNextRun(j, now) ELSE 0
             edited == [View EXCEPT ![j] = Job(on, n)]
  <2>1. known' = known /\ manual' = manual /\ j \in known
    BY <1>5, ViewsOf DEF Edit, StoreOf
  <2>2. n \in Nat  BY <1>2
  <2> HIDE DEF n
  <2>3. StoreOf(edited, known')
    BY <2>1, <2>2, JobEntries, ViewsOf, ReplacedOf DEF Sound
  <2> HIDE DEF edited
  <2>4. CASE /\ SaveAndArm(edited) /\ UNCHANGED <<promised, gone>>
             /\ withdrawn' \subseteq withdrawn \cup {j}
    BY <1>1, <2>1, <2>3, <2>4, CallSound DEF Sound
  <2>5. CASE CallRaises
    BY <1>1, <2>1, <2>5, CallFails DEF Sound
  <2> QED  BY <1>5, <2>4, <2>5 DEF Edit, edited, n
<1>6. (View[j].status = "on") \in BOOLEAN  OBVIOUS
<1> QED  BY <1>3, <1>4, <1>5, <1>6 DEF EnableJob, UpdateJob
LEMMA ListJobsSound == Sound /\ ListJobs => Sound'
<1> SUFFICES ASSUME Sound, ListJobs PROVE Sound'  OBVIOUS
<1>1. cronUp /\ UNCHANGED <<now, cronUp, manual, known, begun, ended, erased>>
  BY DEF ListJobs
<1>2. CASE CallRaises  BY <1>1, <1>2, CallFails DEF Sound
<1>3. CASE /\ Saves(View) /\ actionLog' = <<>>
           /\ UNCHANGED <<cronTimer, withdrawn, promised, gone>>
  <2>1. StoreOf(View, known) /\ LogOf(<<>>, known)  BY ViewsOf, ViewStores
  <2> QED  BY <1>1, <1>3, <2>1 DEF Saves, cronTimer, Sound, Down
<1> QED  BY <1>2, <1>3 DEF ListJobs

\* What run_job loads or fails to load.
LEMMA ManualStores ==
    ASSUME Sound, ManualRaises \/ ManualLoads
    PROVE  /\ StoreOf(cronStore', known) /\ StoreOf(cronFile', known)
           /\ LogOf(actionLog', known) /\ dirty' \in BOOLEAN /\ unsaved' \subseteq known
<1> USE DEF Sound
<1>1. LogOf(<<>>, known) /\ Touched(actionLog) \subseteq known
  BY ViewStores DEF LogOf
<1>2. CASE SaveRaises(cronStore, cronFile) /\ UNCHANGED actionLog
  BY <1>2 DEF SaveRaises, WriteRaises
<1>3. CASE MergedSaveRaises(ManualView, ManualFile)
  BY <1>1, <1>3, ViewsOf DEF MergedSaveRaises, WriteRaises
<1>4. CASE ManualLoads
  <2>1. dirty' \in BOOLEAN /\ unsaved' = {} /\ cronStore' = ManualView
    BY <1>4 DEF ManualLoads
  <2>2. \/ cronFile' = ManualView /\ actionLog' = <<>>
        \/ cronFile' = ManualFile /\ actionLog' = actionLog
    BY <1>4 DEF ManualLoads
  <2> QED  BY <1>1, <2>1, <2>2, ViewsOf
<1> QED  BY <1>2, <1>3, <1>4 DEF ManualRaises

LEMMA RunJobSound ==
    ASSUME Sound, NEW j \in Jobs, RunJob(j)
    PROVE  Sound'
<1>1. /\ cronUp
      /\ UNCHANGED <<now, cronUp, known, begun, ended, withdrawn, promised, gone, erased>>
  BY DEF RunJob, Called
<1>2. /\ StoreOf(cronStore', known) /\ StoreOf(cronFile', known)
      /\ LogOf(actionLog', known) /\ dirty' \in BOOLEAN /\ unsaved' \subseteq known
  <2>1. ManualRaises \/ ManualLoads  BY DEF RunJob
  <2> QED  BY <2>1, ManualStores
<1>3. manual' \subseteq known
  <2>1. CASE There(ManualView, j) /\ manual' = manual \cup {j}
    <3>1. j \in known  BY <2>1, ViewsOf DEF StoreOf
    <3> QED  BY <2>1, <3>1 DEF Sound
  <2>2. CASE UNCHANGED manual  BY <2>2 DEF Sound
  <2> QED  BY <2>1, <2>2 DEF RunJob, Runs
<1>4. wakeAt' \in Nat /\ due' \subseteq Jobs /\ current' \in Jobs \cup {NoJob}
  <2>1. CASE UNCHANGED cronTimer  BY <2>1 DEF cronTimer, Sound
  <2>2. CASE Arm(cronStore')
    <3>1. cronStore' \in Stores  BY <1>2 DEF StoreOf
    <3> QED  BY <2>2, <3>1, Sleeps DEF Arm
  <2> QED  BY <2>1, <2>2 DEF RunJob
<1> QED  BY <1>1, <1>2, <1>3, <1>4 DEF Sound, Down

LEMMA ManualEndsSound ==
    ASSUME Sound, NEW j \in Jobs, ManualEnds(j)
    PROVE  Sound'
<1> DEFINE after == Executed(j, cronStore)
<1>1. /\ j \in manual /\ manual' = manual \ {j} /\ Settle(j)
      /\ UNCHANGED <<now, actionLog, cronUp, known, begun, withdrawn, gone, erased>>
  BY DEF ManualEnds
<1>2. cronUp  BY <1>1 DEF Sound, Down
<1>3. StoreOf(after, known)  BY ExecutedOf DEF Sound
<1>4. ended' \subseteq Jobs \X Nat /\ promised' \subseteq known
  BY <1>1, Settled
<1>5. Saves(after) \/ SaveRaises(after, cronFile)  BY DEF ManualEnds
<1>6. Arm(after) \/ UNCHANGED cronTimer  BY DEF ManualEnds
<1> HIDE DEF after
<1>7. /\ StoreOf(cronStore', known) /\ StoreOf(cronFile', known) /\ dirty' \in BOOLEAN
      /\ unsaved' \subseteq unsaved
  BY <1>3, <1>5, Stored DEF Sound
<1>8. wakeAt' \in Nat /\ due' \subseteq Jobs /\ current' \in Jobs \cup {NoJob}
  <2>1. CASE Arm(after)  BY <1>3, <2>1, Arms
  <2>2. CASE UNCHANGED cronTimer  BY <2>2 DEF cronTimer, Sound
  <2> QED  BY <1>6, <2>1, <2>2
<1> QED  BY <1>1, <1>2, <1>4, <1>7, <1>8 DEF Sound, Down

LEMMA LoggedSound ==
    ASSUME Sound, NEW a \in Actions, Logged(a), known \subseteq known', known' \subseteq Jobs,
           a.job \in known', promised' \subseteq known', gone' \subseteq known'
    PROVE  Sound'
<1>1. /\ actionLog' = Append(actionLog, a)
      /\ UNCHANGED <<now, cronFile, cronUp, cronStore, dirty, wakeAt, due, current,
                     manual, begun, ended, withdrawn, unsaved, erased>>
  BY DEF Logged, cronMemory, cronTimer
<1>2. LogOf(actionLog', known')
  BY <1>1, AppendedEntry, AppendedOrdered DEF Sound, LogOf
<1>3. StoreOf(cronFile', known') /\ StoreOf(cronStore', known')
  BY <1>1 DEF Sound, StoreOf
<1> QED  BY <1>1, <1>2, <1>3 DEF Sound, Down

LEMMA ElsewhereSound ==
    ASSUME Sound, NEW j \in Jobs, AddElsewhere(j) \/ RemoveElsewhere(j)
    PROVE  Sound'
<1>1. CASE AddElsewhere(j)
  <2> DEFINE a == [job |-> j, to |-> Job(TRUE, ComputeNextRun(j, now))]
  <2>1. ComputeNextRun(j, now) \in Nat  BY NextRuns DEF Sound
  <2>2. a \in Actions  BY <2>1, JobEntries DEF Actions
  <2>3. a.job = j  OBVIOUS
  <2>4. /\ Logged(a) /\ known' = known \cup {j} /\ promised' = promised \cup {j}
        /\ gone' = gone
    BY <1>1 DEF AddElsewhere
  <2> HIDE DEF a
  <2>5. promised' \subseteq known' /\ gone' \subseteq known' /\ known' \subseteq Jobs  BY <2>4 DEF Sound
  <2> QED  BY <2>2, <2>3, <2>4, <2>5, LoggedSound
<1>2. CASE RemoveElsewhere(j)
  <2> DEFINE a == [job |-> j, to |-> NoEntry]
  <2>1. NoEntry \in Entries  BY DEF NoEntry, Entries
  <2>2. a \in Actions  BY <2>1 DEF Actions
  <2>3. a.job = j  OBVIOUS
  <2>4. /\ Logged(a) /\ known' = known /\ promised' = promised \ {j}
        /\ gone' = gone \cup {j} /\ There(Merged(cronFile, actionLog), j)
    BY <1>2 DEF RemoveElsewhere
  <2> HIDE DEF a
  <2>5. StoreOf(Merged(cronFile, actionLog), known)  BY MergedOf DEF Sound
  <2>6. j \in known  BY <2>4, <2>5 DEF StoreOf
  <2>7. promised' \subseteq known' /\ gone' \subseteq known' /\ known' \subseteq Jobs
    BY <2>4, <2>6 DEF Sound
  <2> QED  BY <2>2, <2>3, <2>4, <2>6, <2>7, LoggedSound
<1> QED  BY <1>1, <1>2

LEMMA Nothing ==
    ASSUME NEW S
    PROVE  StoreOf([j \in Jobs |-> NoEntry], S)
BY DEF StoreOf, Stores, Entries, NoEntry, There

LEMMA ProcessSound ==
    ASSUME Sound, KillGateway \/ StartService \/ StartFails \/ CronTick
    PROVE  Sound'
<1>1. CASE KillGateway
  <2>1. LogOf(actionLog', known) /\ erased' \subseteq known
    BY <1>1, ViewStores DEF KillGateway, LoseMemory, LoseMerge, Sound, LogOf
  <2> QED  BY <1>1, <2>1, Nothing DEF KillGateway, Stopped, Sound, Down
<1>2. CASE StartService
  <2>1. StoreOf(Recomputed(View), known)  BY ViewsOf, RecomputedOf
  <2>2. /\ cronStore' = Recomputed(View) /\ cronFile' = Recomputed(View)
        /\ dirty' = FALSE /\ unsaved' = {}
    BY <1>2 DEF StartService, Saves
  <2>3. SleepFor(Recomputed(View))  BY <1>2, <2>2 DEF StartService
  <2>4. wakeAt' \in Nat  BY <2>1, <2>3, Sleeps DEF StoreOf
  <2>5. LogOf(actionLog', known)  BY <1>2, ViewStores DEF StartService
  <2> QED  BY <1>2, <2>1, <2>2, <2>4, <2>5 DEF StartService, Sound, Down
<1>3. CASE StartFails
  <2>1. StoreOf(cronFile', known)
    BY <1>3, ViewsOf, RecomputedOf DEF StartFails, Sound
  <2>2. LogOf(actionLog', known) /\ erased' \subseteq known
    BY <1>3, ViewStores DEF StartFails, LoseMerge, Sound, LogOf
  <2> QED  BY <1>3, <2>1, <2>2 DEF StartFails, cronMemory, cronTimer, Sound, Down
<1>4. CASE CronTick
  BY <1>4 DEF CronTick, cronDisk, cronMemory, cronTimer, cronGhosts, Sound, Down
<1> QED  BY <1>1, <1>2, <1>3, <1>4

\* Every step keeps Sound.
LEMMA SoundStep == Sound /\ [CronNext]_cronVars => Sound'
<1> SUFFICES ASSUME Sound, [CronNext]_cronVars PROVE Sound'  OBVIOUS
<1>1. CASE UNCHANGED cronVars
  BY <1>1 DEF cronVars, cronDisk, cronMemory, cronTimer, cronGhosts, Sound, Down
<1>2. CASE CronApi
  BY <1>2, ApiSound, RunJobSound, ElsewhereSound, ListJobsSound DEF CronApi
<1>3. CASE \E j \in Jobs : ManualEnds(j)  BY <1>3, ManualEndsSound
<1> QED
  BY <1>1, <1>2, <1>3, OnTimerSound, JobEndsSound, ProcessSound DEF CronNext

LEMMA SoundInit == CronInit => Sound
<1> SUFFICES ASSUME CronInit PROVE Sound  OBVIOUS
<1>1. StoreOf(cronFile, known) /\ StoreOf(cronStore, known)  BY Nothing DEF CronInit
<1>2. LogOf(actionLog, known)  BY NothingTouched DEF CronInit, LogOf
<1>3. /\ now = 1 /\ wakeAt = 0 /\ cronUp = FALSE /\ dirty = FALSE
      /\ due = {} /\ current = NoJob /\ manual = {} /\ known = {}
      /\ begun = {} /\ ended = {} /\ withdrawn = {}
      /\ promised = {} /\ gone = {} /\ unsaved = {} /\ erased = {}
  BY DEF CronInit
<1>4. Down  BY <1>3 DEF Down
<1>5. now \in Nat /\ now >= 1 /\ wakeAt \in Nat  BY <1>3
<1>6. cronUp \in BOOLEAN /\ dirty \in BOOLEAN  BY <1>3
<1>7. begun \subseteq Jobs \X Nat /\ ended \subseteq Jobs \X Nat  BY <1>3
<1>8. /\ due \subseteq Jobs /\ current \in Jobs \cup {NoJob}
      /\ manual \subseteq known /\ known \subseteq Jobs
      /\ withdrawn \subseteq known /\ promised \subseteq known /\ gone \subseteq known
      /\ unsaved \subseteq known /\ erased \subseteq known
  BY <1>3
<1> QED  BY <1>1, <1>2, <1>4, <1>5, <1>6, <1>7, <1>8 DEF Sound

\* Every store, log and set of jobs keeps its type, and nothing is anywhere
\* that was not added once.
THEOREM CronTypeCorrect == CronSpec => []CronTypeOK
<1>1. CronSpec => []Sound  BY SoundInit, SoundStep, PTL DEF CronSpec
<1> QED  BY <1>1, TypesOfSound, PTL
-----------------------------------------------------------------------------
(* The timer *)

LEMMA ArmedStep ==
    Sound /\ TimerIsArmed /\ [CronNext]_cronVars => TimerIsArmed'
<1> SUFFICES ASSUME Sound, TimerIsArmed, [CronNext]_cronVars, cronUp'
             PROVE  wakeAt' # 0 \/ current' # NoJob
  BY DEF TimerIsArmed
<1>1. cronUp /\ UNCHANGED cronTimer => wakeAt' # 0 \/ current' # NoJob
  BY DEF TimerIsArmed, cronTimer
<1>2. ASSUME NEW s, StoreOf(s, known), EndTick(s)
      PROVE  wakeAt' # 0
  BY <1>2, TickEnds
<1>3. ASSUME NEW S \in SUBSET Jobs, NEW s, StartNext(S, s)
      PROVE  current' # NoJob
  BY <1>3 DEF StartNext
<1>4. ASSUME NEW s \in Stores, Arm(s)
      PROVE  wakeAt' # 0
  BY <1>4, Sleeps DEF Arm
<1>5. ASSUME OnTimer PROVE wakeAt' # 0 \/ current' # NoJob
  <2>1. StoreOf(cronStore, known) /\ StoreOf(View, known) /\ View \in Stores
    BY ViewsOf, ViewStores DEF Sound
  <2>2. CASE CatchUp  BY <1>2, <2>1, <2>2 DEF CatchUp
  <2>3. CASE RunDueJobs
    BY <1>2, <1>3, <2>1, <2>3, ViewStores DEF RunDueJobs
  <2>4. CASE Arm(View)  BY <1>4, <2>1, <2>4
  <2> QED  BY <1>5, <2>2, <2>3, <2>4 DEF OnTimer
<1>6. ASSUME JobEnds PROVE wakeAt' # 0 \/ current' # NoJob
  <2>1. current \in Jobs  BY <1>6 DEF JobEnds, Sound
  <2>2. StoreOf(Executed(current, cronStore), known) /\ due \subseteq Jobs
    BY <2>1, ExecutedOf DEF Sound
  <2> QED  BY <1>2, <1>3, <1>6, <2>2 DEF JobEnds
<1>7. cronStore' \in Stores  BY SoundStep DEF Sound, StoreOf
<1>8. ASSUME NEW s, SaveAndArm(s), cronUp
      PROVE  wakeAt' # 0 \/ current' # NoJob
  BY <1>1, <1>4, <1>7, <1>8 DEF SaveAndArm, Saves
<1>9. ASSUME NEW j \in Jobs, AddJob(j) \/ RemoveJob(j) \/ EnableJob(j) \/ UpdateJob(j)
      PROVE  wakeAt' # 0 \/ current' # NoJob
  BY <1>1, <1>8, <1>9
     DEF AddJob, RemoveJob, EnableJob, UpdateJob, Edit, Called, CallRaises
<1>10. ASSUME NEW j \in Jobs, RunJob(j)
       PROVE  wakeAt' # 0 \/ current' # NoJob
  BY <1>1, <1>4, <1>7, <1>10 DEF RunJob, Called
<1>11. ASSUME NEW j \in Jobs, AddElsewhere(j) \/ RemoveElsewhere(j)
       PROVE  wakeAt' # 0 \/ current' # NoJob
  <2>1. UNCHANGED cronTimer /\ UNCHANGED cronMemory
    BY <1>11 DEF AddElsewhere, RemoveElsewhere, Logged
  <2> QED  BY <1>1, <2>1 DEF cronMemory
<1>12. ASSUME ListJobs PROVE wakeAt' # 0 \/ current' # NoJob
  BY <1>1, <1>12 DEF ListJobs, CallRaises
<1>13. ASSUME NEW j \in Jobs, ManualEnds(j)
       PROVE  wakeAt' # 0 \/ current' # NoJob
  <2>1. cronUp  BY <1>13 DEF ManualEnds, Sound, Down
  <2>2. Executed(j, cronStore) \in Stores  BY ExecutedOf DEF Sound, StoreOf
  <2> QED  BY <1>1, <1>4, <1>13, <2>1, <2>2 DEF ManualEnds
<1>14. CASE KillGateway  BY <1>14 DEF KillGateway, Stopped
<1>15. CASE StartService
  BY <1>7, <1>15, Sleeps DEF StartService
<1>16. CASE StartFails  BY <1>16 DEF StartFails, cronMemory
<1>17. CASE CronTick
  BY <1>1, <1>17 DEF CronTick, cronMemory, cronTimer
<1>18. CASE UNCHANGED cronVars
  BY <1>1, <1>18 DEF cronVars, cronMemory, cronTimer
<1> QED
  BY <1>5, <1>6, <1>9, <1>10, <1>11, <1>12, <1>13, <1>14, <1>15, <1>16, <1>17, <1>18
     DEF CronNext, CronApi

\* The timer of a running gateway sleeps until a time or executes a job,
\* whatever was cancelled and whichever save failed.
THEOREM TimerStaysArmed == CronSpec => []TimerIsArmed
<1>1. CronInit => Sound /\ TimerIsArmed  BY SoundInit DEF CronInit, TimerIsArmed
<1>2. Sound /\ TimerIsArmed /\ [CronNext]_cronVars => (Sound /\ TimerIsArmed)'
  BY SoundStep, ArmedStep
<1> QED  BY <1>1, <1>2, PTL DEF CronSpec
-----------------------------------------------------------------------------
(* What the gateway withdrew rests *)

Offered(log) == {log[i].job : i \in {k \in DOMAIN log : log[k].to.status # "absent"}}

\* Jobs that another process added are in no store until the log is merged.
Unmerged ==
    \A j \in Offered(actionLog) : ~There(cronFile, j) /\ ~There(cronStore, j)

\* What was withdrawn is neither on in a store or in the log, nor listed by a
\* tick.
Resting ==
    \A j \in withdrawn :
        /\ cronFile[j].status # "on" /\ cronStore[j].status # "on"
        /\ j \notin Offered(actionLog) /\ j \notin due

LEMMA OfferedNothing == Offered(<<>>) = {}
BY DEF Offered

LEMMA OfferedTouched == ASSUME NEW log PROVE Offered(log) \subseteq Touched(log)
BY DEF Offered, Touched

LEMMA OfferedAppend ==
    ASSUME NEW log \in Seq(Actions), NEW a \in Actions
    PROVE  /\ Offered(Append(log, a)) \subseteq Offered(log) \cup {a.job}
           /\ a.to.status = "absent" => Offered(Append(log, a)) \subseteq Offered(log)
<1> DEFINE new == Append(log, a)  n == Len(log) + 1
<1>1. DOMAIN new = DOMAIN log \cup {n} /\ new[n] = a
  OBVIOUS
<1>2. \A i \in DOMAIN log : new[i] = log[i]  OBVIOUS
<1> HIDE DEF new, n
<1>3. Offered(new) \subseteq Offered(log) \cup {a.job}
  BY <1>1, <1>2 DEF Offered
<1>4. a.to.status = "absent" => Offered(new) \subseteq Offered(log)
  BY <1>1, <1>2 DEF Offered
<1> QED  BY <1>3, <1>4 DEF new

\* Merging turns no job on but those that the log offers.
LEMMA MergedOn ==
    ASSUME NEW s, NEW log \in Seq(Actions), Ordered(log), NEW j \in Jobs,
           j \notin Offered(log), s[j].status # "on"
    PROVE  Merged(s, log)[j].status # "on"
<1>1. CASE j \in Touched(log)
  <2>1. Latest(EntriesOn(j, log)) \in EntriesOn(j, log)
    BY <1>1, LatestIsGreatest DEF Ordered
  <2>2. LastOn(j, log).status # "on"
    BY <2>1 DEF LastOn, EntriesOn, Offered
  <2> QED  BY <1>1, <2>2, TouchedMerged
<1>2. CASE j \notin Touched(log)  BY <1>2, UntouchedMerged
<1> QED  BY <1>1, <1>2

\* Nothing is loaded while a job is executed.
LEMMA BusyKeepsStore ==
    ASSUME Sound, current # NoJob
    PROVE  ~Reloads /\ View = cronStore /\ ViewFile = cronFile
<1>1. IsFiniteSet(manual)  BY FS_Subset DEF Sound
<1>2. Cardinality(manual) \in Nat  BY <1>1, FS_CardinalityType
<1>3. ActiveExecutions # 0  BY <1>2 DEF ActiveExecutions
<1> QED  BY <1>3 DEF Reloads, View, ViewFile

\* What a tick or a call finds.
LEMMA ViewRests ==
    ASSUME Sound, Unmerged, Resting
    PROVE  /\ \A j \in withdrawn : View[j].status # "on" /\ ViewFile[j].status # "on"
           /\ \A j \in withdrawn : j \notin Offered(LogLeft)
           /\ \A j \in Offered(LogLeft) : ~There(View, j) /\ ~There(ViewFile, j)
<1>1. withdrawn \subseteq Jobs  BY DEF Sound
<1>2. CASE Reloads
  <2>1. View = Merged(cronFile, actionLog) /\ ViewFile = View /\ LogLeft = <<>>
    BY <1>2 DEF View, ViewFile, LogLeft
  <2>2. actionLog \in Seq(Actions) /\ Ordered(actionLog)  BY DEF Sound, LogOf
  <2>3. \A j \in withdrawn : View[j].status # "on"
    BY <1>1, <2>1, <2>2, MergedOn DEF Resting
  <2> QED  BY <2>1, <2>3, OfferedNothing
<1>3. CASE ~Reloads
  <2>1. View = cronStore /\ ViewFile = cronFile /\ LogLeft = actionLog
    BY <1>3 DEF View, ViewFile, LogLeft
  <2> QED  BY <2>1 DEF Unmerged, Resting
<1> QED  BY <1>2, <1>3

Calm == Sound /\ Unmerged /\ Resting

\* A step that saves s or fails to, over a file f, and lists no new jobs.
LEMMA StoredRests ==
    ASSUME NEW s, NEW f, cronStore' = s, cronFile' \in {s, f},
           \A j \in withdrawn' :
              /\ s[j].status # "on" /\ f[j].status # "on"
              /\ j \notin Offered(actionLog') /\ j \notin due',
           \A j \in Offered(actionLog') : ~There(s, j) /\ ~There(f, j)
    PROVE  Unmerged' /\ Resting'
<1>1. CASE cronFile' = s  BY <1>1 DEF Unmerged, Resting
<1>2. CASE cronFile' = f  BY <1>2 DEF Unmerged, Resting
<1> QED  BY <1>1, <1>2

LEMMA Written ==
    ASSUME NEW s, NEW f, Saves(s) \/ SaveRaises(s, f)
    PROVE  cronStore' = s /\ cronFile' \in {s, f}
BY DEF Saves, SaveRaises, WriteRaises

\* A merge whose save fails.
LEMMA MergeFailsRests ==
    ASSUME Calm, MergeRaises, withdrawn' = withdrawn, due' \subseteq due
    PROVE  Unmerged' /\ Resting'
<1>1. /\ cronStore' = View /\ cronFile' \in {View, cronFile}
      /\ actionLog' = <<>>
  BY DEF MergeRaises, MergedSaveRaises, WriteRaises
<1>2. \A j \in withdrawn' :
         /\ View[j].status # "on" /\ cronFile[j].status # "on"
         /\ j \notin Offered(actionLog') /\ j \notin due'
  BY <1>1, ViewRests, OfferedNothing DEF Calm, Resting
<1> QED  BY <1>1, <1>2, OfferedNothing, StoredRests

LEMMA OnTimerRests == ASSUME Calm, OnTimer PROVE Unmerged' /\ Resting'
<1>1. withdrawn' = withdrawn  BY DEF OnTimer
<1>2. CASE CatchUp
  <2>1. /\ Saves(cronStore) \/ SaveRaises(cronStore, ViewFile)
        /\ due' = {} /\ actionLog' = actionLog
    BY <1>2 DEF CatchUp, EndTick, Arm
  <2>2. ViewFile = cronFile
    BY <1>2 DEF CatchUp, ViewFile, Reloads
  <2>3. cronStore' = cronStore /\ cronFile' \in {cronStore, cronFile}
    BY <2>1, <2>2, Written
  <2> QED  BY <1>1, <2>1, <2>3 DEF Calm, Unmerged, Resting
<1>3. CASE RunDueJobs
  <2>1. actionLog' = LogLeft  BY <1>3 DEF RunDueJobs
  <2>2. due' \subseteq DueJobs(View)
    BY <1>3 DEF RunDueJobs, EndTick, Arm, StartNext
  <2>3. cronStore' = View /\ cronFile' \in {View, ViewFile}
    BY <1>3, Written DEF RunDueJobs, EndTick
  <2>4. \A j \in DueJobs(View) : View[j].status = "on"  BY DEF DueJobs, IsDue
  <2>5. \A j \in withdrawn' :
           /\ View[j].status # "on" /\ ViewFile[j].status # "on"
           /\ j \notin Offered(actionLog') /\ j \notin due'
    BY <1>1, <2>1, <2>2, <2>4, ViewRests DEF Calm
  <2>6. \A j \in Offered(actionLog') : ~There(View, j) /\ ~There(ViewFile, j)
    BY <2>1, ViewRests DEF Calm
  <2> QED  BY <2>3, <2>5, <2>6, StoredRests
<1>4. CASE MergeRaises /\ Arm(View)
  BY <1>1, <1>4, MergeFailsRests DEF Arm
<1> QED  BY <1>2, <1>3, <1>4 DEF OnTimer

\* An execution turns nothing on.
LEMMA ExecutedRests ==
    ASSUME Sound, NEW j \in Jobs, NEW k \in Jobs
    PROVE  /\ There(Executed(j, cronStore), k) => There(cronStore, k)
           /\ cronStore[k].status # "on" => Executed(j, cronStore)[k].status # "on"
<1>1. cronStore \in Stores /\ cronStore[k] \in Entries /\ cronStore[j] \in Entries
  BY DEF Sound, StoreOf, Stores
<1>2. CASE k # j  BY <1>1, <1>2 DEF Executed, There, Stores
<1>3. CASE k = j
  <2>1. CASE j \in OneShots \/ cronStore[j] = NoEntry
    <3>1. Executed(j, cronStore)[k] = NoEntry
      BY <1>1, <1>3, <2>1 DEF Executed, Stores
    <3> QED  BY <3>1 DEF NoEntry, There
  <2>2. CASE ~(j \in OneShots \/ cronStore[j] = NoEntry)
    <3>1. Executed(j, cronStore)[k] =
             [cronStore[j] EXCEPT !.next = ComputeNextRun(j, now)]
      BY <1>1, <1>3, <2>2 DEF Executed, Stores
    <3> QED  BY <1>1, <1>3, <3>1 DEF There, Entries
  <2> QED  BY <2>1, <2>2
<1> QED  BY <1>2, <1>3

LEMMA EndsRest ==
    ASSUME Calm, NEW j \in Jobs, withdrawn' = withdrawn, due' \subseteq due,
           actionLog' = actionLog, cronStore' = Executed(j, cronStore),
           cronFile' \in {Executed(j, cronStore), cronFile}
    PROVE  Unmerged' /\ Resting'
<1>1. withdrawn \subseteq Jobs /\ Offered(actionLog) \subseteq Jobs
  BY OfferedTouched DEF Calm, Sound, LogOf
<1>2. \A k \in withdrawn' :
         /\ Executed(j, cronStore)[k].status # "on" /\ cronFile[k].status # "on"
         /\ k \notin Offered(actionLog') /\ k \notin due'
  BY <1>1, ExecutedRests DEF Calm, Resting
<1>3. \A k \in Offered(actionLog') :
         ~There(Executed(j, cronStore), k) /\ ~There(cronFile, k)
  BY <1>1, ExecutedRests DEF Calm, Unmerged
<1> QED  BY <1>2, <1>3, StoredRests
\* A call that turns on nothing withdrawn, and withdraws only what it saves.
LEMMA CallRests ==
    ASSUME Calm, NEW s, SaveAndArm(s),
           \A k \in withdrawn' :
              /\ s[k].status # "on"
              /\ k \in withdrawn \/ (~dirty' /\ There(View, k)),
           \A k \in Offered(LogLeft) : ~There(s, k)
    PROVE  Unmerged' /\ Resting'
<1>1. actionLog' = LogLeft  BY DEF SaveAndArm
<1>2. \A k \in withdrawn' : k \notin Offered(actionLog')
  BY <1>1, ViewRests DEF Calm
<1>3. CASE Saves(s) /\ Arm(s)
  <2>1. cronStore' = s /\ cronFile' \in {s, s} /\ due' = {}
    BY <1>3 DEF Saves, Arm
  <2> QED  BY <1>1, <1>2, <2>1, StoredRests
<1>4. CASE SaveRaises(s, ViewFile) /\ UNCHANGED cronTimer
  <2>1. cronStore' = s /\ cronFile' \in {s, ViewFile} /\ due' = due /\ dirty' = TRUE
    BY <1>4 DEF SaveRaises, WriteRaises, cronTimer
  <2>2. withdrawn' \subseteq withdrawn  BY <2>1
  <2>3. \A k \in withdrawn' :
           /\ s[k].status # "on" /\ ViewFile[k].status # "on"
           /\ k \notin Offered(actionLog') /\ k \notin due'
    BY <1>2, <2>1, <2>2, ViewRests DEF Calm, Resting
  <2>4. \A k \in Offered(actionLog') : ~There(s, k) /\ ~There(ViewFile, k)
    BY <1>1, ViewRests DEF Calm
  <2> QED  BY <2>1, <2>3, <2>4, StoredRests
<1> QED  BY <1>3, <1>4 DEF SaveAndArm

LEMMA ApiRests ==
    ASSUME Calm, NEW j \in Jobs,
           AddJob(j) \/ RemoveJob(j) \/ EnableJob(j) \/ UpdateJob(j)
    PROVE  Unmerged' /\ Resting'
<1>1. View \in Stores /\ LogOf(LogLeft, known)  BY ViewStores DEF Calm
<1>2. withdrawn \subseteq known /\ known \subseteq Jobs  BY DEF Calm, Sound
<1>3. Offered(LogLeft) \subseteq known  BY <1>1, OfferedTouched DEF LogOf
<1>4. /\ \A k \in withdrawn : View[k].status # "on"
      /\ \A k \in Offered(LogLeft) : ~There(View, k)
  BY ViewRests DEF Calm
<1>5. CASE CallRaises
  BY <1>5, MergeFailsRests DEF CallRaises, cronTimer
<1>6. CASE AddJob(j) /\ ~CallRaises
  <2> DEFINE s == [View EXCEPT ![j] = Job(TRUE, ComputeNextRun(j, now))]
  <2>1. SaveAndArm(s) /\ withdrawn' = withdrawn /\ j \notin known
    BY <1>6 DEF AddJob
  <2>2. \A k \in Jobs \ {j} : s[k] = View[k]  BY <1>1 DEF Stores
  <2> HIDE DEF s
  <2>3. \A k \in withdrawn' : s[k].status # "on" /\ k \in withdrawn
    BY <1>2, <1>4, <2>1, <2>2
  <2>4. \A k \in Offered(LogLeft) : ~There(s, k)
    BY <1>2, <1>3, <1>4, <2>1, <2>2 DEF There
  <2> QED  BY <2>1, <2>3, <2>4, CallRests
<1>7. CASE RemoveJob(j) /\ ~CallRaises
  <2> DEFINE s == [View EXCEPT ![j] = NoEntry]
  <2>1. /\ SaveAndArm(s) /\ There(View, j)
        /\ withdrawn' = IF dirty' THEN withdrawn ELSE withdrawn \cup {j}
    BY <1>7 DEF RemoveJob
  <2>2. s[j].status = "absent" /\ \A k \in Jobs \ {j} : s[k] = View[k]
    BY <1>1 DEF Stores, NoEntry
  <2> HIDE DEF s
  <2>3. \A k \in withdrawn' :
           /\ s[k].status # "on"
           /\ k \in withdrawn \/ (~dirty' /\ There(View, k))
    BY <1>2, <1>4, <2>1, <2>2
  <2>4. \A k \in Offered(LogLeft) : ~There(s, k)
    BY <1>2, <1>3, <1>4, <2>2 DEF There
  <2> QED  BY <2>1, <2>3, <2>4, CallRests
<1>8. ASSUME NEW on \in BOOLEAN, Edit(j, on), ~CallRaises
      PROVE  Unmerged' /\ Resting'
  <2> DEFINE e == Job(on, IF on THEN ComputeNextRun(j, now) ELSE 0)
             s == [View EXCEPT ![j] = e]
  <2>1. /\ SaveAndArm(s) /\ There(View, j)
        /\ withdrawn' = IF on THEN withdrawn \ {j}
                        ELSE IF dirty' THEN withdrawn ELSE withdrawn \cup {j}
    BY <1>8 DEF Edit
  <2>2. e.status = "on" => on  BY DEF Job
  <2>3. s[j] = e /\ \A k \in Jobs \ {j} : s[k] = View[k]  BY <1>1 DEF Stores
  <2> HIDE DEF s, e
  <2>4. \A k \in withdrawn' :
           /\ s[k].status # "on"
           /\ k \in withdrawn \/ (~dirty' /\ There(View, k))
    <3>1. CASE on  BY <1>2, <1>4, <2>1, <2>3, <3>1
    <3>2. CASE ~on  BY <1>2, <1>4, <2>1, <2>2, <2>3, <3>2
    <3> QED  BY <3>1, <3>2
  <2>5. \A k \in Offered(LogLeft) : ~There(s, k)
    BY <1>2, <1>3, <1>4, <2>1, <2>3 DEF There
  <2> QED  BY <2>1, <2>4, <2>5, CallRests
<1>9. (View[j].status = "on") \in BOOLEAN  OBVIOUS
<1> QED  BY <1>5, <1>6, <1>7, <1>8, <1>9 DEF EnableJob, UpdateJob

LEMMA ListRests == ASSUME Calm, ListJobs PROVE Unmerged' /\ Resting'
<1>1. CASE CallRaises
  BY <1>1, MergeFailsRests DEF CallRaises, cronTimer
<1>2. CASE Saves(View) /\ actionLog' = <<>> /\ UNCHANGED <<cronTimer, withdrawn>>
  <2>1. /\ cronStore' = View /\ cronFile' \in {View, View}
        /\ withdrawn' = withdrawn /\ due' = due
    BY <1>2 DEF Saves, cronTimer
  <2>2. \A j \in withdrawn' :
           View[j].status # "on" /\ j \notin Offered(actionLog') /\ j \notin due'
    BY <1>2, <2>1, ViewRests, OfferedNothing DEF Calm, Resting
  <2> QED  BY <1>2, <2>1, <2>2, OfferedNothing, StoredRests
<1> QED  BY <1>1, <1>2 DEF ListJobs

LEMMA RunJobRests == ASSUME Calm, NEW j \in Jobs, RunJob(j) PROVE Unmerged' /\ Resting'
<1>1. withdrawn' = withdrawn /\ (ManualRaises \/ ManualLoads)  BY DEF RunJob
<1>2. due' \subseteq due  BY DEF RunJob, Arm, cronTimer
<1>3. ManualFile \in {cronStore, cronFile}  BY DEF ManualFile
<1>4. /\ \A k \in withdrawn : ManualFile[k].status # "on"
      /\ \A k \in withdrawn : ManualView[k].status # "on"
  <2>1. \A k \in withdrawn : ManualFile[k].status # "on"
    BY <1>3 DEF Calm, Resting
  <2>2. actionLog \in Seq(Actions) /\ Ordered(actionLog) /\ withdrawn \subseteq Jobs
    BY DEF Calm, Sound, LogOf
  <2>3. CASE ActiveExecutions = 0
    <3>1. ManualView = Merged(ManualFile, actionLog)  BY <2>3 DEF ManualView
    <3>2. \A k \in withdrawn : k \in Jobs /\ k \notin Offered(actionLog)
      BY <2>2 DEF Calm, Resting
    <3>3. \A k \in withdrawn : Merged(ManualFile, actionLog)[k].status # "on"
      <4> SUFFICES ASSUME NEW k \in withdrawn
                   PROVE  Merged(ManualFile, actionLog)[k].status # "on"
        OBVIOUS
      <4>1. k \in Jobs /\ k \notin Offered(actionLog) /\ ManualFile[k].status # "on"
        BY <2>1, <3>2
      <4> QED  BY <2>2, <4>1, MergedOn
    <3> QED  BY <2>1, <3>1, <3>3
  <2>4. CASE ActiveExecutions # 0  BY <2>1, <2>4 DEF ManualView, Calm, Resting
  <2> QED  BY <2>1, <2>3, <2>4
<1>5. CASE /\ cronStore' = cronStore /\ cronFile' \in {cronFile, cronStore}
           /\ actionLog' = actionLog
  BY <1>1, <1>2, <1>5 DEF Calm, Unmerged, Resting
<1>6. CASE /\ cronStore' = ManualView /\ cronFile' \in {ManualView, ManualFile}
           /\ actionLog' = <<>>
  <2>1. \A k \in withdrawn' :
           /\ ManualView[k].status # "on" /\ ManualFile[k].status # "on"
           /\ k \notin Offered(actionLog') /\ k \notin due'
    BY <1>1, <1>2, <1>4, <1>6, OfferedNothing DEF Calm, Resting
  <2> QED  BY <1>6, <2>1, OfferedNothing, StoredRests
<1>7. CASE ManualRaises
  <2>1. CASE SaveRaises(cronStore, cronFile) /\ UNCHANGED actionLog
    BY <1>5, <2>1 DEF SaveRaises, WriteRaises
  <2>2. CASE MergedSaveRaises(ManualView, ManualFile)
    BY <1>6, <2>2 DEF MergedSaveRaises, WriteRaises
  <2> QED  BY <1>7, <2>1, <2>2 DEF ManualRaises
<1>8. CASE ManualLoads
  <2>1. CASE ActiveExecutions = 0  BY <1>6, <1>8, <2>1 DEF ManualLoads
  <2>2. CASE ActiveExecutions # 0
    <3>1. /\ cronStore' = cronStore /\ cronFile' = ManualFile
          /\ actionLog' = actionLog
      BY <1>8, <2>2 DEF ManualLoads, ManualView
    <3> QED  BY <1>3, <1>5, <3>1
  <2> QED  BY <2>1, <2>2
<1> QED  BY <1>1, <1>7, <1>8

\* A job that is added elsewhere is new; what is removed there is offered by
\* no new entry.
LEMMA ElsewhereRests ==
    ASSUME Calm, NEW j \in Jobs, AddElsewhere(j) \/ RemoveElsewhere(j)
    PROVE  Unmerged' /\ Resting'
<1>1. UNCHANGED <<cronFile, cronStore, due, withdrawn>>
  BY DEF AddElsewhere, RemoveElsewhere, Logged, cronMemory, cronTimer
<1>2. /\ actionLog \in Seq(Actions) /\ withdrawn \subseteq known
      /\ \A k \in Jobs : There(cronFile, k) \/ There(cronStore, k) => k \in known
  BY DEF Calm, Sound, LogOf, StoreOf
<1>3. CASE AddElsewhere(j)
  <2> DEFINE a == [job |-> j, to |-> Job(TRUE, ComputeNextRun(j, now))]
  <2>1. ComputeNextRun(j, now) \in Nat  BY NextRuns DEF Calm, Sound
  <2>2. a \in Actions /\ a.job = j  BY <2>1, JobEntries DEF Actions
  <2>3. actionLog' = Append(actionLog, a) /\ j \notin known
    BY <1>3 DEF AddElsewhere, Logged
  <2> HIDE DEF a
  <2>4. Offered(actionLog') \subseteq Offered(actionLog) \cup {j}
    BY <1>2, <2>2, <2>3, OfferedAppend
  <2> QED  BY <1>1, <1>2, <2>3, <2>4 DEF Calm, Unmerged, Resting
<1>4. CASE RemoveElsewhere(j)
  <2> DEFINE a == [job |-> j, to |-> NoEntry]
  <2>1. NoEntry \in Entries /\ NoEntry.status = "absent"  BY DEF NoEntry, Entries
  <2>2. a \in Actions /\ a.to.status = "absent"  BY <2>1 DEF Actions
  <2>3. actionLog' = Append(actionLog, a)  BY <1>4 DEF RemoveElsewhere, Logged
  <2> HIDE DEF a
  <2>4. Offered(actionLog') \subseteq Offered(actionLog)
    BY <1>2, <2>2, <2>3, OfferedAppend
  <2> QED  BY <1>1, <2>4 DEF Calm, Unmerged, Resting
<1> QED  BY <1>3, <1>4

LEMMA RecomputedRests ==
    ASSUME Sound, NEW s \in Stores, NEW j \in Jobs, s[j].status # "on"
    PROVE  Recomputed(s)[j].status # "on"
BY DEF Recomputed

LEMMA ProcessRests ==
    ASSUME Calm, KillGateway \/ StartService \/ StartFails \/ CronTick
    PROVE  Unmerged' /\ Resting'
<1>1. withdrawn \subseteq Jobs  BY DEF Calm, Sound
<1>2. CASE KillGateway
  <2>1. /\ cronStore' = [j \in Jobs |-> NoEntry] /\ cronFile' = cronFile
        /\ withdrawn' = withdrawn /\ due' = {}
    BY <1>2 DEF KillGateway, Stopped
  <2>2. \A j \in Jobs : cronStore'[j].status = "absent"  BY <2>1 DEF NoEntry
  <2>3. Offered(actionLog') \subseteq Offered(actionLog)
    BY <1>2, OfferedNothing DEF KillGateway, LoseMemory, LoseMerge
  <2>4. Offered(actionLog) \subseteq Jobs
    BY OfferedTouched DEF Calm, Sound, LogOf
  <2> QED  BY <1>1, <2>1, <2>2, <2>3, <2>4 DEF Calm, Unmerged, Resting, There
<1>3. \A j \in withdrawn : View[j].status # "on"  BY ViewRests DEF Calm
<1>4. \A j \in withdrawn : Recomputed(View)[j].status # "on"
  BY <1>1, <1>3, ViewStores, RecomputedRests DEF Calm
<1>5. CASE StartService
  <2>1. /\ cronStore' = Recomputed(View)
        /\ cronFile' \in {Recomputed(View), Recomputed(View)}
        /\ actionLog' = <<>> /\ withdrawn' = withdrawn /\ due' = due
    BY <1>5 DEF StartService, Saves
  <2>2. \A j \in withdrawn' :
           /\ Recomputed(View)[j].status # "on"
           /\ j \notin Offered(actionLog') /\ j \notin due'
    BY <1>4, <2>1, OfferedNothing DEF Calm, Resting
  <2> QED  BY <2>1, <2>2, OfferedNothing, StoredRests
<1>6. CASE StartFails
  <2>1. /\ cronStore' = cronStore /\ cronFile' \in {cronFile, View, Recomputed(View)}
        /\ actionLog' = <<>> /\ withdrawn' = withdrawn /\ due' = due
    BY <1>6 DEF StartFails, LoseMerge, cronMemory, cronTimer
  <2>2. \A j \in withdrawn' : cronFile'[j].status # "on"
    BY <1>3, <1>4, <2>1 DEF Calm, Resting
  <2> QED  BY <2>1, <2>2, OfferedNothing DEF Calm, Unmerged, Resting
<1>7. CASE CronTick
  <2>1. UNCHANGED <<cronFile, actionLog, cronStore, due, withdrawn>>
    BY <1>7 DEF CronTick, cronDisk, cronMemory, cronTimer, cronGhosts
  <2> QED  BY <2>1 DEF Calm, Unmerged, Resting
<1> QED  BY <1>2, <1>5, <1>6, <1>7

LEMMA CalmStep == Calm /\ [CronNext]_cronVars => Calm'
<1> SUFFICES ASSUME Calm, [CronNext]_cronVars PROVE Unmerged' /\ Resting'
  BY SoundStep DEF Calm
<1>1. CASE UNCHANGED cronVars
  <2>1. UNCHANGED <<cronFile, actionLog, cronStore, due, withdrawn>>
    BY <1>1 DEF cronVars, cronDisk, cronMemory, cronTimer, cronGhosts
  <2> QED  BY <2>1 DEF Calm, Unmerged, Resting
<1>2. CASE CronApi
  BY <1>2, ApiRests, RunJobRests, ElsewhereRests, ListRests DEF CronApi
<1>3. CASE JobEnds
  <2>1. /\ current \in Jobs /\ current # NoJob /\ withdrawn' = withdrawn
        /\ actionLog' = actionLog
    BY <1>3 DEF JobEnds, Calm, Sound
  <2>2. due' \subseteq due /\ cronStore' = Executed(current, cronStore)
        /\ cronFile' \in {Executed(current, cronStore), cronFile}
    <3>1. ViewFile = cronFile  BY <2>1, BusyKeepsStore DEF Calm
    <3> QED  BY <1>3, <3>1, Written DEF JobEnds, EndTick, Arm, StartNext
  <2> QED  BY <2>1, <2>2, EndsRest
<1>4. ASSUME NEW j \in Jobs, ManualEnds(j) PROVE Unmerged' /\ Resting'
  <2>1. /\ withdrawn' = withdrawn /\ actionLog' = actionLog /\ due' \subseteq due
        /\ cronStore' = Executed(j, cronStore)
        /\ cronFile' \in {Executed(j, cronStore), cronFile}
    BY <1>4, Written DEF ManualEnds, Arm, cronTimer
  <2> QED  BY <2>1, EndsRest
<1> QED
  BY <1>1, <1>2, <1>3, <1>4, OnTimerRests, ProcessRests DEF CronNext

\* The timer starts no job that the gateway has removed or disabled, although
\* the tick that executes may have listed it before, a save may have failed and
\* other processes' actions may still wait to be merged.
THEOREM WithdrawnRest == CronSpec => WithdrawnJobsRest
<1>1. CronInit => Calm
  <2>1. CronInit => withdrawn = {} /\ Offered(actionLog) = {}
    BY OfferedNothing DEF CronInit
  <2> QED  BY <2>1, SoundInit DEF Calm, Unmerged, Resting
<1>2. Calm /\ [CronNext]_cronVars =>
         [current' \notin {current, NoJob} => current' \notin withdrawn]_cronVars
  <2> SUFFICES ASSUME Calm, CronNext, current' # current, current' # NoJob
               PROVE  current' \notin withdrawn
    OBVIOUS
  <2>1. \A j \in DueJobs(View) : j \notin withdrawn
    BY ViewRests DEF Calm, DueJobs, IsDue
  <2>2. CASE OnTimer
    BY <2>1, <2>2 DEF OnTimer, CatchUp, RunDueJobs, EndTick, Arm, StartNext
  <2>3. CASE JobEnds
    BY <2>3 DEF JobEnds, EndTick, Arm, StartNext, Calm, Resting
  <2>4. CASE CronApi
    BY <2>4 DEF CronApi, AddJob, RemoveJob, EnableJob, UpdateJob, Edit, CallRaises,
                SaveAndArm, Arm, RunJob, AddElsewhere, RemoveElsewhere, Logged, ListJobs,
                cronTimer
  <2>5. CASE \E j \in Jobs : ManualEnds(j)
    BY <2>5 DEF ManualEnds, Arm, cronTimer
  <2>6. CASE KillGateway \/ StartService \/ StartFails \/ CronTick
    BY <2>6 DEF KillGateway, Stopped, StartService, StartFails, CronTick, cronTimer
  <2> QED  BY <2>2, <2>3, <2>4, <2>5, <2>6 DEF CronNext
<1> QED  BY <1>1, <1>2, CalmStep, PTL DEF CronSpec, WithdrawnJobsRest
-----------------------------------------------------------------------------
(* The gateway's word is kept *)

LEMMA WordJobs ==
    ASSUME Sound
    PROVE  /\ Owed \in SUBSET Jobs /\ Barred \in SUBSET Jobs
           /\ Owed \ unsaved \in SUBSET Jobs /\ Barred \ unsaved \in SUBSET Jobs
BY DEF Owed, Barred, Sound

\* A step that saves s, or fails to, over a file f.
LEMMA SavedWord ==
    ASSUME NEW s, Saves(s), Word(s, actionLog', Owed', Barred')
    PROVE  WordKept'
<1>1. cronStore' = s /\ cronFile' = s /\ unsaved' = {}  BY DEF Saves
<1>2. Word(cronFile', actionLog', Owed' \ unsaved', Barred' \ unsaved')
  BY <1>1, WordFewer
<1>3. Word(cronStore', actionLog', Owed', Barred')  BY <1>1
<1> QED  BY <1>1, <1>2, <1>3 DEF WordKept

LEMMA RaisedWord ==
    ASSUME NEW s, NEW f, SaveRaises(s, f), Word(s, actionLog', Owed', Barred'),
           Word(f, actionLog', Owed' \ unsaved, Barred' \ unsaved)
    PROVE  WordKept'
<1>1. /\ cronStore' = s /\ cronFile' \in {s, f} /\ dirty' = TRUE
      /\ unsaved' = unsaved
  BY DEF SaveRaises, WriteRaises
<1>2. Word(s, actionLog', Owed' \ unsaved', Barred' \ unsaved')  BY WordFewer
<1>3. Word(cronFile', actionLog', Owed' \ unsaved', Barred' \ unsaved')
  BY <1>1, <1>2
<1>4. Word(cronStore', actionLog', Owed', Barred')  BY <1>1
<1> QED  BY <1>1, <1>3, <1>4 DEF WordKept

\* A merge whose save fails: memory alone keeps the word on what the log said.
LEMMA MergedRaisesWord ==
    ASSUME Sound, NEW f, Word(f, actionLog, Owed, Barred),
           MergedSaveRaises(Merged(f, actionLog), f),
           UNCHANGED <<promised, gone, erased>>
    PROVE  WordKept'
<1> DEFINE s == Merged(f, actionLog)  T == Touched(actionLog)
<1>1. /\ cronStore' = s /\ cronFile' \in {s, f} /\ dirty' = TRUE
      /\ unsaved' = T /\ actionLog' = <<>>
  BY DEF MergedSaveRaises, WriteRaises
<1>2. Owed' = Owed /\ Barred' = Barred  BY DEF Owed, Barred
<1>3. Word(s, <<>>, Owed, Barred) /\ Word(f, <<>>, Owed \ T, Barred \ T)
  BY WordJobs, WordOfMerged
<1> HIDE DEF s, T
<1>4. Word(s, <<>>, Owed \ T, Barred \ T)  BY <1>3, WordFewer
<1>5. Word(cronFile', actionLog', Owed' \ unsaved', Barred' \ unsaved')
  BY <1>1, <1>2, <1>3, <1>4
<1>6. Word(cronStore', actionLog', Owed', Barred')  BY <1>1, <1>2, <1>3
<1> QED  BY <1>1, <1>5, <1>6 DEF WordKept

\* A file of which memory is not ahead keeps the whole word.
LEMMA CleanFileWord ==
    ASSUME WordKept, ~dirty
    PROVE  unsaved = {} /\ Word(cronFile, actionLog, Owed, Barred)
<1>1. unsaved = {} /\ Word(cronFile, actionLog, Owed \ unsaved, Barred \ unsaved)
  BY DEF WordKept
<1>2. Owed \ unsaved = Owed /\ Barred \ unsaved = Barred  BY <1>1
<1> QED  BY <1>1, <1>2

LEMMA MergeFailsWord ==
    ASSUME Sound, WordKept, MergeRaises, UNCHANGED <<promised, gone, erased>>
    PROVE  WordKept'
<1>1. ~dirty /\ View = Merged(cronFile, actionLog) /\ MergedSaveRaises(View, cronFile)
  BY DEF MergeRaises, Reloads, View
<1> QED  BY <1>1, CleanFileWord, MergedRaisesWord

\* What a call or a tick that loads finds.
LEMMA ViewWord ==
    ASSUME Sound, WordKept, cronUp
    PROVE  /\ Word(View, LogLeft, Owed, Barred)
           /\ Word(ViewFile, LogLeft, Owed \ unsaved, Barred \ unsaved)
<1>1. CASE Reloads
  <2>1. View = Merged(cronFile, actionLog) /\ ViewFile = View /\ LogLeft = <<>>
    BY <1>1 DEF View, ViewFile, LogLeft
  <2>2. Word(cronFile, actionLog, Owed, Barred)
    BY <1>1, CleanFileWord DEF Reloads
  <2>3. Word(View, <<>>, Owed, Barred)
    BY <2>1, <2>2, WordJobs, WordOfMerged
  <2>4. Word(View, <<>>, Owed \ unsaved, Barred \ unsaved)  BY <2>3, WordFewer
  <2> QED  BY <2>1, <2>3, <2>4
<1>2. CASE ~Reloads
  <2>1. View = cronStore /\ ViewFile = cronFile /\ LogLeft = actionLog
    BY <1>2 DEF View, ViewFile, LogLeft
  <2> QED  BY <2>1 DEF WordKept
<1> QED  BY <1>1, <1>2

LEMMA OnTimerWord == ASSUME Sound, WordKept, OnTimer PROVE WordKept'
<1>1. cronUp /\ UNCHANGED <<promised, gone, erased>>  BY DEF OnTimer
<1>2. Owed' = Owed /\ Barred' = Barred  BY <1>1 DEF Owed, Barred
<1>3. /\ Word(View, LogLeft, Owed', Barred')
      /\ Word(ViewFile, LogLeft, Owed' \ unsaved, Barred' \ unsaved)
  BY <1>1, <1>2, ViewWord
<1>4. CASE CatchUp
  <2>1. View = cronStore /\ LogLeft = actionLog /\ actionLog' = actionLog
    BY <1>4 DEF CatchUp, View, LogLeft, Reloads
  <2>2. Saves(cronStore) \/ SaveRaises(cronStore, ViewFile)
    BY <1>4 DEF CatchUp, EndTick
  <2>3. /\ Word(cronStore, actionLog', Owed', Barred')
        /\ Word(ViewFile, actionLog', Owed' \ unsaved, Barred' \ unsaved)
    BY <1>3, <2>1
  <2> QED  BY <2>2, <2>3, SavedWord, RaisedWord
<1>5. CASE RunDueJobs
  <2>1. ~dirty /\ actionLog' = LogLeft  BY <1>5 DEF RunDueJobs
  <2>2. CASE EndTick(View)
    <3>1. Saves(View) \/ SaveRaises(View, ViewFile)  BY <2>2 DEF EndTick
    <3> QED  BY <1>3, <2>1, <3>1, SavedWord, RaisedWord
  <2>3. CASE cronStore' = View /\ cronFile' = ViewFile /\ UNCHANGED <<dirty, unsaved>>
    <3>1. ~dirty' => unsaved' = {}  BY <2>1, <2>3 DEF WordKept
    <3>2. /\ Word(cronStore', actionLog', Owed', Barred')
          /\ Word(cronFile', actionLog', Owed' \ unsaved', Barred' \ unsaved')
      BY <1>3, <2>1, <2>3
    <3> QED  BY <3>1, <3>2 DEF WordKept
  <2> QED  BY <1>5, <2>2, <2>3 DEF RunDueJobs
<1>6. CASE MergeRaises  BY <1>1, <1>6, MergeFailsWord
<1> QED  BY <1>4, <1>5, <1>6 DEF OnTimer

\* An execution takes nothing away but its one-shot, which it settles.
LEMMA ExecutedWord ==
    ASSUME Sound, WordKept, cronUp, NEW j \in Jobs, Settle(j),
           UNCHANGED <<actionLog, gone, erased>>
    PROVE  /\ Word(Executed(j, cronStore), actionLog', Owed', Barred')
           /\ Word(cronFile, actionLog', Owed' \ unsaved, Barred' \ unsaved)
<1>1. /\ Owed' \subseteq Owed /\ Owed' \in SUBSET Jobs
      /\ Barred' = Barred /\ Barred \in SUBSET Jobs
  BY WordJobs DEF Settle, Owed, Barred
<1>2. /\ Word(cronStore, actionLog, Owed', Barred)
      /\ Word(cronFile, actionLog, Owed' \ unsaved, Barred \ unsaved)
  BY <1>1, WordFewer DEF WordKept
<1>3. ASSUME NEW k \in Owed', There(cronStore, k)
      PROVE  There(Executed(j, cronStore), k)
  <2>1. cronStore \in Stores /\ k \in Jobs  BY <1>1 DEF Sound, StoreOf
  <2>2. CASE k # j  BY <1>3, <2>1, <2>2 DEF Executed, There, Stores
  <2>3. CASE k = j
    <3>1. j \notin OneShots  BY <1>3, <2>3 DEF Owed, Settle
    <3>2. cronStore[j] # NoEntry  BY <1>3, <2>3 DEF There, NoEntry
    <3>3. Executed(j, cronStore)[j] =
             [cronStore[j] EXCEPT !.next = ComputeNextRun(j, now)]
      BY <2>1, <3>1, <3>2 DEF Executed, Stores
    <3>4. cronStore[j] \in Entries  BY <2>1 DEF Stores
    <3> QED  BY <1>3, <2>3, <3>3, <3>4 DEF There, Entries
  <2> QED  BY <2>2, <2>3
<1>4. \A k \in Barred : There(Executed(j, cronStore), k) => There(cronStore, k)
  BY <1>1, ExecutedRests
<1>5. Word(Executed(j, cronStore), actionLog, Owed', Barred)
  BY <1>1, <1>2, <1>3, <1>4, WordMore
<1> QED  BY <1>1, <1>2, <1>5

LEMMA EndsWord ==
    ASSUME Sound, WordKept, JobEnds \/ \E j \in Jobs : ManualEnds(j)
    PROVE  WordKept'
<1>1. CASE JobEnds
  <2> DEFINE after == Executed(current, cronStore)
  <2>1. /\ current \in Jobs /\ current # NoJob /\ Settle(current)
        /\ UNCHANGED <<actionLog, gone, erased>>
    BY <1>1 DEF JobEnds, Sound
  <2>2. cronUp  BY <1>1 DEF JobEnds, Sound, Down
  <2>3. /\ Word(after, actionLog', Owed', Barred')
        /\ Word(cronFile, actionLog', Owed' \ unsaved, Barred' \ unsaved)
    BY <2>1, <2>2, ExecutedWord
  <2>4. ViewFile = cronFile  BY <2>1, BusyKeepsStore
  <2>5. \/ EndTick(after)
        \/ cronStore' = after /\ UNCHANGED <<cronFile, dirty, unsaved>>
    BY <1>1 DEF JobEnds
  <2> HIDE DEF after
  <2>6. CASE EndTick(after)
    <3>1. Saves(after) \/ SaveRaises(after, cronFile)  BY <2>4, <2>6 DEF EndTick
    <3> QED  BY <2>3, <3>1, SavedWord, RaisedWord
  <2>7. CASE cronStore' = after /\ UNCHANGED <<cronFile, dirty, unsaved>>
    <3>1. /\ Word(cronStore', actionLog', Owed', Barred')
          /\ Word(cronFile', actionLog', Owed' \ unsaved', Barred' \ unsaved')
      BY <2>3, <2>7
    <3> QED  BY <2>7, <3>1 DEF WordKept
  <2> QED  BY <2>5, <2>6, <2>7
<1>2. ASSUME NEW j \in Jobs, ManualEnds(j) PROVE WordKept'
  <2>1. Settle(j) /\ UNCHANGED <<actionLog, gone, erased>>
    BY <1>2 DEF ManualEnds
  <2>2. cronUp  BY <1>2 DEF ManualEnds, Sound, Down
  <2>3. /\ Word(Executed(j, cronStore), actionLog', Owed', Barred')
        /\ Word(cronFile, actionLog', Owed' \ unsaved, Barred' \ unsaved)
    BY <2>1, <2>2, ExecutedWord
  <2>4. Saves(Executed(j, cronStore)) \/ SaveRaises(Executed(j, cronStore), cronFile)
    BY <1>2 DEF ManualEnds
  <2> QED  BY <2>3, <2>4, SavedWord, RaisedWord
<1> QED  BY <1>1, <1>2

\* A call whose changed store keeps the word, and which gives none unless it is
\* saved.
LEMMA CallWord ==
    ASSUME Sound, WordKept, cronUp, NEW s, SaveAndArm(s), Word(s, LogLeft, Owed', Barred'),
           dirty' => Owed' \subseteq Owed /\ Barred' \subseteq Barred
    PROVE  WordKept'
<1>1. actionLog' = LogLeft  BY DEF SaveAndArm
<1>2. CASE Saves(s)  BY <1>1, <1>2, SavedWord
<1>3. CASE SaveRaises(s, ViewFile)
  <2>1. Owed' \subseteq Owed /\ Barred' \subseteq Barred
    BY <1>3 DEF SaveRaises, WriteRaises
  <2>2. Word(ViewFile, LogLeft, Owed' \ unsaved, Barred' \ unsaved)
    BY <2>1, ViewWord, WordFewer
  <2> QED  BY <1>1, <1>3, <2>2, RaisedWord
<1> QED  BY <1>2, <1>3 DEF SaveAndArm

\* A job that is added is in the store, and in no log, when its id is returned.
LEMMA AddWord ==
    ASSUME Sound, WordKept, NEW j \in Jobs, AddJob(j), ~CallRaises
    PROVE  WordKept'
<1> DEFINE e == Job(TRUE, ComputeNextRun(j, now))
           s == [View EXCEPT ![j] = e]
<1>1. /\ cronUp /\ j \notin known /\ SaveAndArm(s)
      /\ promised' = IF dirty' THEN promised ELSE promised \cup {j}
      /\ gone' = gone /\ erased' = erased
  BY DEF AddJob, Called
<1>2. View \in Stores /\ LogOf(LogLeft, known)  BY ViewStores
<1>3. s[j] = e /\ \A k \in Jobs \ {j} : s[k] = View[k]  BY <1>2 DEF Stores
<1>4. There(s, j)  BY <1>3 DEF There, Job
<1> HIDE DEF s, e
<1>5. \A k \in Owed : There(View, k) => There(s, k)
  BY <1>3, <1>4, WordJobs DEF There
<1>6. \A k \in Barred : There(s, k) => There(View, k)
  BY <1>1, <1>3, WordJobs DEF There, Barred, Sound
<1>7. Word(s, LogLeft, Owed, Barred)
  BY <1>1, <1>5, <1>6, ViewWord, WordJobs, WordMore
<1>8. j \notin Touched(LogLeft)  BY <1>1, <1>2 DEF LogOf
<1>9. There(Merged(s, LogLeft), j)  BY <1>4, <1>8, UntouchedMerged DEF There
<1>10. /\ Barred' = Barred /\ Owed' \subseteq Owed \cup {j}
       /\ dirty' => Owed' = Owed
  BY <1>1 DEF Owed, Barred
<1>11. Word(s, LogLeft, Owed', Barred')  BY <1>7, <1>9, <1>10 DEF Word
<1> QED  BY <1>1, <1>10, <1>11, CallWord

\* Merging brings no job back that the log does not offer.
LEMMA MergedAbsent ==
    ASSUME NEW s, NEW log \in Seq(Actions), Ordered(log), NEW j \in Jobs,
           j \notin Offered(log), ~There(s, j)
    PROVE  ~There(Merged(s, log), j)
<1>1. CASE j \in Touched(log)
  <2>1. Latest(EntriesOn(j, log)) \in EntriesOn(j, log)
    BY <1>1, LatestIsGreatest DEF Ordered
  <2>2. LastOn(j, log).status = "absent"
    BY <2>1 DEF LastOn, EntriesOn, Offered
  <2> QED  BY <1>1, <2>2, TouchedMerged DEF There
<1>2. CASE j \notin Touched(log)  BY <1>2, UntouchedMerged DEF There
<1> QED  BY <1>1, <1>2

\* A job that is removed was in the store, so no entry of the log that is left
\* offers it again.
LEMMA RemoveWord ==
    ASSUME Calm, WordKept, NEW j \in Jobs, RemoveJob(j), ~CallRaises
    PROVE  WordKept'
<1> DEFINE s == [View EXCEPT ![j] = NoEntry]
<1>1. /\ cronUp /\ There(View, j) /\ SaveAndArm(s) /\ erased' = erased
      /\ promised' = promised \ {j}
      /\ gone' = IF dirty' THEN gone ELSE gone \cup {j}
  BY DEF RemoveJob, Called
<1>2. View \in Stores /\ LogOf(LogLeft, known) /\ Sound  BY ViewStores DEF Calm
<1>3. ~There(s, j) /\ \A k \in Jobs \ {j} : s[k] = View[k]
  BY <1>2 DEF Stores, NoEntry, There
<1> HIDE DEF s
<1>4. /\ Owed' \subseteq Owed \ {j} /\ Barred' \subseteq Barred \cup {j}
      /\ dirty' => Barred' = Barred
  BY <1>1 DEF Owed, Barred
<1>5. Word(View, LogLeft, Owed', Barred)
  BY <1>1, <1>2, <1>4, ViewWord, WordFewer
<1>6. Owed' \in SUBSET Jobs /\ Barred \in SUBSET Jobs  BY <1>2, <1>4, WordJobs
<1>7. \A k \in Owed' : There(View, k) => There(s, k)
  BY <1>3, <1>4, <1>6 DEF There
<1>8. \A k \in Barred : There(s, k) => There(View, k)
  BY <1>3, <1>6 DEF There
<1>9. Word(s, LogLeft, Owed', Barred)
  BY <1>5, <1>6, <1>7, <1>8, WordMore
<1>10. j \notin Offered(LogLeft)  BY <1>1, ViewRests DEF Calm
<1>11. ~There(Merged(s, LogLeft), j)
  BY <1>2, <1>3, <1>10, MergedAbsent DEF LogOf
<1>12. Word(s, LogLeft, Owed', Barred')  BY <1>4, <1>9, <1>11 DEF Word
<1> QED  BY <1>1, <1>2, <1>4, <1>12, CallWord

LEMMA EditWord ==
    ASSUME Sound, WordKept, NEW j \in Jobs, NEW on \in BOOLEAN, Edit(j, on), ~CallRaises
    PROVE  WordKept'
<1> DEFINE e == Job(on, IF on THEN ComputeNextRun(j, now) ELSE 0)
           s == [View EXCEPT ![j] = e]
<1>1. cronUp /\ There(View, j) /\ SaveAndArm(s) /\ UNCHANGED <<promised, gone, erased>>
  BY DEF Edit, Called
<1>2. View \in Stores  BY ViewStores
<1>3. s[j] = e /\ \A k \in Jobs \ {j} : s[k] = View[k]  BY <1>2 DEF Stores
<1>4. There(s, j)  BY <1>3 DEF There, Job
<1> HIDE DEF s, e
<1>5. Owed' = Owed /\ Barred' = Barred  BY <1>1 DEF Owed, Barred
<1>6. \A k \in Jobs : There(View, k) <=> There(s, k)
  BY <1>1, <1>3, <1>4 DEF There
<1>7. Word(s, LogLeft, Owed, Barred)
  BY <1>1, <1>6, ViewWord, WordJobs, WordMore
<1> QED  BY <1>1, <1>5, <1>7, CallWord

LEMMA ApiWord ==
    ASSUME Calm, WordKept, NEW j \in Jobs,
           AddJob(j) \/ RemoveJob(j) \/ EnableJob(j) \/ UpdateJob(j)
    PROVE  WordKept'
<1>1. Sound  BY DEF Calm
<1>2. CASE CallRaises
  <2>1. MergeRaises /\ UNCHANGED <<promised, gone, erased>>
    BY <1>2 DEF CallRaises, AddJob, RemoveJob, EnableJob, UpdateJob, Edit, Called
  <2> QED  BY <1>1, <2>1, MergeFailsWord
<1>3. (View[j].status = "on") \in BOOLEAN  OBVIOUS
<1> QED
  BY <1>1, <1>2, <1>3, AddWord, RemoveWord, EditWord DEF EnableJob, UpdateJob

LEMMA ListWord == ASSUME Sound, WordKept, ListJobs PROVE WordKept'
<1>1. cronUp /\ Reloads /\ erased' = erased  BY DEF ListJobs
<1>2. CASE CallRaises
  <2>1. MergeRaises /\ UNCHANGED <<promised, gone>>  BY <1>2 DEF CallRaises
  <2> QED  BY <1>1, <2>1, MergeFailsWord
<1>3. CASE Saves(View) /\ actionLog' = <<>> /\ UNCHANGED <<promised, gone>>
  <2>1. Owed' = Owed /\ Barred' = Barred /\ LogLeft = <<>>
    BY <1>1, <1>3 DEF Owed, Barred, LogLeft
  <2>2. Word(View, actionLog', Owed', Barred')  BY <1>1, <1>3, <2>1, ViewWord
  <2> QED  BY <1>3, <2>2, SavedWord
<1> QED  BY <1>2, <1>3 DEF ListJobs

LEMMA RunJobWord == ASSUME Sound, WordKept, NEW j \in Jobs, RunJob(j) PROVE WordKept'
<1>1. /\ cronUp /\ UNCHANGED <<promised, gone, erased>>
      /\ ManualRaises \/ ManualLoads
  BY DEF RunJob, Called
<1>2. Owed' = Owed /\ Barred' = Barred  BY <1>1 DEF Owed, Barred
<1>3. Word(ManualFile, actionLog, Owed, Barred)
  BY <1>1, CleanFileWord DEF WordKept, ManualFile
<1>4. /\ Word(cronStore, actionLog, Owed, Barred)
      /\ Word(cronFile, actionLog, Owed \ unsaved, Barred \ unsaved)
  BY <1>1 DEF WordKept
<1>5. CASE SaveRaises(cronStore, cronFile) /\ UNCHANGED actionLog
  BY <1>2, <1>4, <1>5, RaisedWord
<1>6. CASE ActiveExecutions = 0 /\ MergedSaveRaises(ManualView, ManualFile)
  <2>1. ManualView = Merged(ManualFile, actionLog)  BY <1>6 DEF ManualView
  <2> QED  BY <1>1, <1>3, <1>6, <2>1, MergedRaisesWord
<1>7. CASE ManualLoads
  <2>1. cronStore' = ManualView /\ unsaved' = {}  BY <1>7 DEF ManualLoads
  <2>2. CASE ActiveExecutions = 0
    <3>1. /\ ManualView = Merged(ManualFile, actionLog)
          /\ cronFile' = ManualView /\ actionLog' = <<>>
      BY <1>7, <2>2 DEF ManualView, ManualLoads
    <3>2. Word(ManualView, <<>>, Owed, Barred)
      BY <1>3, <3>1, WordJobs, WordOfMerged
    <3>3. /\ Word(cronStore', actionLog', Owed', Barred')
          /\ Word(cronFile', actionLog', Owed', Barred')
      BY <1>2, <2>1, <3>1, <3>2
    <3>4. Word(cronFile', actionLog', Owed' \ unsaved', Barred' \ unsaved')
      BY <3>3, WordFewer
    <3> QED  BY <2>1, <3>3, <3>4 DEF WordKept
  <2>3. CASE ActiveExecutions # 0
    <3>1. /\ ManualView = cronStore
          /\ cronFile' = ManualFile /\ actionLog' = actionLog
      BY <1>7, <2>3 DEF ManualView, ManualLoads
    <3>2. /\ Word(cronStore', actionLog', Owed', Barred')
          /\ Word(cronFile', actionLog', Owed', Barred')
      BY <1>2, <1>3, <1>4, <2>1, <3>1
    <3>3. Word(cronFile', actionLog', Owed' \ unsaved', Barred' \ unsaved')
      BY <3>2, WordFewer
    <3> QED  BY <2>1, <3>2, <3>3 DEF WordKept
  <2> QED  BY <2>2, <2>3
<1> QED  BY <1>1, <1>5, <1>6, <1>7 DEF ManualRaises

\* An entry that another process logs decides about its job, in the file and in
\* memory, once it is merged.
LEMMA LoggedWord ==
    ASSUME Sound, WordKept, NEW a \in Actions, Logged(a),
           Owed' \subseteq Owed \cup {a.job}, Barred' \subseteq Barred \cup {a.job},
           a.job \in Owed' => a.to.status # "absent",
           a.job \in Barred' => a.to.status = "absent"
    PROVE  WordKept'
<1>1. /\ actionLog' = Append(actionLog, a)
      /\ UNCHANGED <<cronFile, cronUp, cronStore, dirty, unsaved>>
  BY DEF Logged, cronMemory
<1>2. actionLog \in Seq(Actions) /\ Ordered(actionLog) /\ a.job \in Jobs
  BY DEF Sound, LogOf, Actions
<1>3. ASSUME NEW s, NEW P \in SUBSET Jobs, NEW G \in SUBSET Jobs,
             Word(s, actionLog, P, G), NEW Q \in SUBSET Owed', NEW H \in SUBSET Barred',
             Q \subseteq P \cup {a.job}, H \subseteq G \cup {a.job}
      PROVE  Word(s, actionLog', Q, H)
  <2>1. Merged(s, actionLog')[a.job] = a.to  BY <1>1, <1>2, AppendedLast
  <2>2. \A k \in Jobs \ {a.job} : Merged(s, actionLog')[k] = Merged(s, actionLog)[k]
    BY <1>1, <1>2, AppendedOthers
  <2>3. \A k \in Q : There(Merged(s, actionLog'), k)
    BY <1>3, <2>1, <2>2 DEF Word, There
  <2>4. \A k \in H : ~There(Merged(s, actionLog'), k)
    BY <1>3, <2>1, <2>2 DEF Word, There
  <2> QED  BY <2>3, <2>4 DEF Word
<1>4. Word(cronFile, actionLog', Owed' \ unsaved, Barred' \ unsaved)
  <2>1. Word(cronFile, actionLog, Owed \ unsaved, Barred \ unsaved)  BY DEF WordKept
  <2>2. /\ Owed' \ unsaved \subseteq (Owed \ unsaved) \cup {a.job}
        /\ Barred' \ unsaved \subseteq (Barred \ unsaved) \cup {a.job}
    OBVIOUS
  <2> QED  BY <1>3, <2>1, <2>2, WordJobs
<1>5. cronUp => Word(cronStore, actionLog', Owed', Barred')
  BY <1>3, WordJobs DEF WordKept
<1>6. Word(cronFile', actionLog', Owed' \ unsaved', Barred' \ unsaved')
  BY <1>1, <1>4
<1>7. cronUp' => Word(cronStore', actionLog', Owed', Barred')
  BY <1>1, <1>5
<1> QED  BY <1>1, <1>6, <1>7 DEF WordKept

LEMMA ElsewhereWord ==
    ASSUME Sound, WordKept, NEW j \in Jobs, AddElsewhere(j) \/ RemoveElsewhere(j)
    PROVE  WordKept'
<1>1. CASE AddElsewhere(j)
  <2> DEFINE e == Job(TRUE, ComputeNextRun(j, now))  a == [job |-> j, to |-> e]
  <2>1. ComputeNextRun(j, now) \in Nat  BY NextRuns DEF Sound
  <2>2. e \in Entries /\ e.status # "absent"  BY <2>1, JobEntries DEF Job
  <2>3. Logged(a) /\ promised' = promised \cup {j} /\ gone' = gone /\ j \notin known
    BY <1>1 DEF AddElsewhere
  <2> HIDE DEF e
  <2>4. a \in Actions /\ a.job = j /\ a.to = e  BY <2>2 DEF Actions
  <2> HIDE DEF a
  <2>5. a.to.status # "absent"  BY <2>2, <2>4
  <2>6. erased' = erased  BY <2>3 DEF Logged
  <2>7. Owed' \subseteq Owed \cup {j} /\ Barred' = Barred /\ j \notin Barred
    BY <2>3, <2>6 DEF Owed, Barred, Sound
  <2> QED  BY <2>3, <2>4, <2>5, <2>7, LoggedWord
<1>2. CASE RemoveElsewhere(j)
  <2> DEFINE a == [job |-> j, to |-> NoEntry]
  <2>1. Logged(a) /\ promised' = promised \ {j} /\ gone' = gone \cup {j}
    BY <1>2 DEF RemoveElsewhere
  <2>2. NoEntry \in Entries /\ NoEntry.status = "absent"  BY DEF NoEntry, Entries
  <2>3. a \in Actions /\ a.job = j /\ a.to.status = "absent"  BY <2>2 DEF Actions
  <2> HIDE DEF a
  <2>4. erased' = erased  BY <2>1 DEF Logged
  <2>5. Owed' \subseteq Owed /\ j \notin Owed' /\ Barred' \subseteq Barred \cup {j}
    BY <2>1, <2>4 DEF Owed, Barred
  <2> QED  BY <2>1, <2>3, <2>5, LoggedWord
<1> QED  BY <1>1, <1>2

\* A service that starts executes nothing yet, so it loads.
LEMMA StartLoads == ASSUME Sound, ~cronUp PROVE Reloads
<1>1. ~dirty /\ manual = {} /\ current = NoJob  BY DEF Sound, Down
<1>2. Cardinality({}) = 0  BY FS_EmptySet
<1>3. ActiveExecutions = 0  BY <1>1, <1>2 DEF ActiveExecutions
<1> QED  BY <1>1, <1>3 DEF Reloads

LEMMA RecomputedWord ==
    ASSUME Sound, NEW s, StoreOf(s, known), NEW log,
           NEW P \in SUBSET Jobs, NEW G \in SUBSET Jobs, Word(s, log, P, G)
    PROVE  Word(Recomputed(s), log, P, G)
BY RecomputedOf, WordMore

\* What only memory held is lost with it, and so is the log while it is merged.
LEMMA KillWord == ASSUME Sound, WordKept, KillGateway PROVE WordKept'
<1> DEFINE P == Owed \ unsaved  G == Barred \ unsaved  T == Touched(actionLog)
<1>1. /\ cronUp' = FALSE /\ unsaved' = {} /\ cronFile' = cronFile
      /\ UNCHANGED <<promised, gone>>
  BY DEF KillGateway, Stopped
<1>2. Word(cronFile, actionLog, P, G) /\ P \in SUBSET Jobs /\ G \in SUBSET Jobs
  BY WordJobs DEF WordKept
<1>3. CASE LoseMemory
  <2>1. Owed' \ unsaved' = P /\ Barred' \ unsaved' = G /\ actionLog' = actionLog
    BY <1>1, <1>3 DEF LoseMemory, Owed, Barred
  <2> HIDE DEF P, G
  <2>2. Word(cronFile', actionLog', Owed' \ unsaved', Barred' \ unsaved')
    BY <1>1, <1>2, <2>1
  <2> QED  BY <1>1, <2>2 DEF WordKept
<1>4. CASE LoseMerge
  <2>1. /\ Owed' \ unsaved' = P \ T /\ Barred' \ unsaved' = G \ T
        /\ actionLog' = <<>>
    BY <1>1, <1>4 DEF LoseMerge, Owed, Barred
  <2> HIDE DEF P, G
  <2>2. Word(cronFile, <<>>, P \ T, G \ T)  BY <1>2, WordOfMerged
  <2> HIDE DEF T
  <2>3. Word(cronFile', actionLog', Owed' \ unsaved', Barred' \ unsaved')
    BY <1>1, <2>1, <2>2
  <2> QED  BY <1>1, <2>3 DEF WordKept
<1> QED  BY <1>3, <1>4 DEF KillGateway

\* A service that starts has nothing unsaved: it loads what the file and the log
\* say, or loses the log.
LEMMA StartWord == ASSUME Sound, WordKept, StartService \/ StartFails PROVE WordKept'
<1>1. ~cronUp /\ ~dirty  BY DEF StartService, StartFails, Sound, Down
<1>2. unsaved = {} /\ Word(cronFile, actionLog, Owed, Barred)
  BY <1>1, CleanFileWord
<1>3. View = Merged(cronFile, actionLog)  BY <1>1, StartLoads DEF View
<1>4. Word(View, <<>>, Owed, Barred)
  BY <1>2, <1>3, WordJobs, WordOfMerged
<1>5. Word(Recomputed(View), <<>>, Owed, Barred)
  BY <1>4, ViewsOf, WordJobs, RecomputedWord
<1>6. CASE StartService
  <2>1. /\ Saves(Recomputed(View)) /\ actionLog' = <<>>
        /\ Owed' = Owed /\ Barred' = Barred
    BY <1>6 DEF StartService, Owed, Barred
  <2> QED  BY <1>5, <2>1, SavedWord
<1>7. CASE StartFails
  <2> DEFINE T == Touched(actionLog)
  <2>1. /\ cronFile' \in {cronFile, View, Recomputed(View)} /\ actionLog' = <<>>
        /\ cronUp' = cronUp /\ unsaved' = unsaved
        /\ Owed' = Owed \ T /\ Barred' = Barred \ T
    BY <1>2, <1>7 DEF StartFails, LoseMerge, cronMemory, Owed, Barred
  <2>2. Word(cronFile, <<>>, Owed \ T, Barred \ T)
    BY <1>2, WordJobs, WordOfMerged
  <2> HIDE DEF T
  <2>3. /\ Word(View, <<>>, Owed \ T, Barred \ T)
        /\ Word(Recomputed(View), <<>>, Owed \ T, Barred \ T)
    BY <1>4, <1>5, WordFewer
  <2>4. Word(cronFile', actionLog', Owed', Barred')  BY <2>1, <2>2, <2>3
  <2>5. Word(cronFile', actionLog', Owed' \ unsaved', Barred' \ unsaved')
    BY <2>4, WordFewer
  <2> QED  BY <1>1, <1>2, <2>1, <2>5 DEF WordKept
<1> QED  BY <1>6, <1>7

LEMMA WordStep == Calm /\ WordKept /\ [CronNext]_cronVars => WordKept'
<1> SUFFICES ASSUME Calm, WordKept, [CronNext]_cronVars PROVE WordKept'  OBVIOUS
<1>1. Sound  BY DEF Calm
<1>2. CASE UNCHANGED cronVars \/ CronTick
  <2>1. UNCHANGED <<cronFile, actionLog, cronUp, cronStore, dirty,
                    promised, gone, unsaved, erased>>
    BY <1>2 DEF CronTick, cronVars, cronDisk, cronMemory, cronGhosts
  <2> QED  BY <2>1 DEF WordKept, Owed, Barred
<1>3. CASE CronApi
  BY <1>1, <1>3, ApiWord, RunJobWord, ElsewhereWord, ListWord DEF CronApi
<1> QED
  BY <1>1, <1>2, <1>3, OnTimerWord, EndsWord, KillWord, StartWord DEF CronNext

\* Whatever is killed, cancelled or fails to be saved, an accepted job is in the
\* file or in the log until it is removed or run off, and a job whose removal
\* was acknowledged does not return; both hold of the memory that will be saved
\* over the file.  Between a save that raised after a merge and the next one
\* that succeeds, memory alone answers for the merged entries: what a kill or a
\* failed start takes away then is all that is excepted.
THEOREM JobsAreDurable == CronSpec => []AcknowledgedIsDurable
<1>1. CronInit => Calm /\ WordKept
  <2>1. CronInit => /\ withdrawn = {} /\ Offered(actionLog) = {}
                    /\ promised = {} /\ gone = {} /\ unsaved = {}
    BY OfferedNothing DEF CronInit
  <2> QED
    BY <2>1, SoundInit DEF Calm, Unmerged, Resting, WordKept, Word, Owed, Barred
<1>2. Calm /\ WordKept /\ [CronNext]_cronVars => (Calm /\ WordKept)'
  BY CalmStep, WordStep
<1>3. WordKept => AcknowledgedIsDurable
  BY DEF WordKept, Word, Owed, Barred, AcknowledgedIsDurable, KeepsWord
<1> QED  BY <1>1, <1>2, <1>3, PTL DEF CronSpec
-----------------------------------------------------------------------------
(* No occurrence is run again *)

\* The store has no job on for an occurrence whose execution ended.
Clean(store) ==
    \A j \in Jobs : store[j].status = "on" => <<j, store[j].next>> \notin ended

\* What ended is over, of a job that no other process can add again; memory
\* knows it, and the file does unless memory is ahead of it.
Spent ==
    /\ \A j \in Jobs, n \in Nat :
          <<j, n>> \in ended =>
             n >= 1 /\ n <= now /\ j \in known /\ j \notin Offered(actionLog)
    /\ cronUp => Clean(cronStore)
    /\ cronUp /\ ~dirty /\ current = NoJob => Clean(cronFile)

Replayed == Calm /\ Spent

\* A next run that is computed is still to come.
LEMMA NextIsNew ==
    ASSUME Replayed, NEW j \in Jobs, NEW n \in {0, ComputeNextRun(j, now)}
    PROVE  <<j, n>> \notin ended
<1>1. now \in Nat /\ ComputeNextRun(j, now) \in Nat
  BY NextRuns DEF Replayed, Calm, Sound
<1>2. CASE n = 0  BY <1>2 DEF Replayed, Spent
<1>3. CASE n = ComputeNextRun(j, now) /\ n # 0
  <2>1. n > now
    <3>1. CASE j \in Periodic  BY <1>1, <1>3, <3>1 DEF ComputeNextRun
    <3>2. CASE j \notin Periodic  BY <1>1, <1>3, <3>2 DEF ComputeNextRun, Jobs
    <3> QED  BY <3>1, <3>2
  <2> QED  BY <1>1, <1>3, <2>1 DEF Replayed, Spent
<1> QED  BY <1>2, <1>3

LEMMA CleanMerged ==
    ASSUME Replayed, NEW s \in Stores, Clean(s)
    PROVE  Clean(Merged(s, actionLog))
<1> SUFFICES ASSUME NEW j \in Jobs, Merged(s, actionLog)[j].status = "on"
             PROVE  <<j, Merged(s, actionLog)[j].next>> \notin ended
  BY DEF Clean
<1>1. actionLog \in Seq(Actions) /\ Ordered(actionLog)
  BY DEF Replayed, Calm, Sound, LogOf
<1>2. Merged(s, actionLog)[j].next \in Nat
  BY <1>1, MergedType DEF Stores, Entries
<1>3. CASE j \in Touched(actionLog)
  <2>1. Latest(EntriesOn(j, actionLog)) \in EntriesOn(j, actionLog)
    BY <1>1, <1>3, LatestIsGreatest DEF Ordered
  <2>2. LastOn(j, actionLog).status = "on"  BY <1>3, TouchedMerged
  <2>3. j \in Offered(actionLog)
    BY <2>1, <2>2 DEF LastOn, EntriesOn, Offered
  <2> QED  BY <1>2, <2>3 DEF Replayed, Spent
<1>4. CASE j \notin Touched(actionLog)
  BY <1>4, UntouchedMerged DEF Clean
<1> QED  BY <1>3, <1>4

LEMMA CleanView == ASSUME Replayed, cronUp PROVE Clean(View)
<1>1. CASE Reloads
  <2>1. ~dirty /\ current = NoJob
    BY <1>1, BusyKeepsStore DEF Reloads, Replayed, Calm
  <2>2. Clean(cronFile) /\ cronFile \in Stores
    BY <2>1 DEF Replayed, Spent, Calm, Sound, StoreOf
  <2> QED  BY <1>1, <2>2, CleanMerged DEF View
<1>2. CASE ~Reloads  BY <1>2 DEF View, Replayed, Spent
<1> QED  BY <1>1, <1>2

\* A step that stores s in memory, and in the file too unless it fails or its
\* tick goes on; nothing ends.
LEMMA StoredSpent ==
    ASSUME Replayed, NEW s, Clean(s), cronStore' = s,
           cronFile' = s \/ dirty' \/ current' # NoJob,
           ended' = ended, now' = now, known \subseteq known',
           Offered(actionLog') \subseteq Offered(actionLog)
    PROVE  Spent'
<1>1. \A t : Clean(t)' <=> \A j \in Jobs : t'[j].status = "on" => <<j, t'[j].next>> \notin ended
  BY DEF Clean
<1>2. Clean(cronStore)'  BY DEF Clean
<1>3. cronUp' /\ ~dirty' /\ current' = NoJob => Clean(cronFile)'  BY DEF Clean
<1>4. (\A j \in Jobs, n \in Nat :
          <<j, n>> \in ended =>
             n >= 1 /\ n <= now /\ j \in known /\ j \notin Offered(actionLog))'
  BY DEF Replayed, Spent
<1> QED  BY <1>2, <1>3, <1>4 DEF Spent

LEMMA MergeFailsSpent ==
    ASSUME Replayed, cronUp, MergeRaises, ended' = ended, now' = now,
           known \subseteq known'
    PROVE  Spent'
<1>1. cronStore' = View /\ dirty' = TRUE /\ actionLog' = <<>>
  BY DEF MergeRaises, MergedSaveRaises, WriteRaises
<1> QED  BY <1>1, CleanView, OfferedNothing, StoredSpent

LEMMA OnTimerSpent == ASSUME Replayed, OnTimer PROVE Spent'
<1>1. cronUp /\ ended' = ended /\ now' = now /\ known' = known  BY DEF OnTimer
<1>2. CASE CatchUp
  <2>1. /\ cronStore' = cronStore /\ (cronFile' = cronStore \/ dirty')
        /\ actionLog' = actionLog
    BY <1>2 DEF CatchUp, EndTick, Saves, SaveRaises, WriteRaises
  <2>2. Clean(cronStore)  BY <1>1 DEF Replayed, Spent
  <2> QED  BY <1>1, <2>1, <2>2, StoredSpent
<1>3. CASE RunDueJobs
  <2>1. Offered(actionLog') \subseteq Offered(actionLog)
    BY <1>3, OfferedNothing DEF RunDueJobs, LogLeft
  <2>2. cronStore' = View
    BY <1>3 DEF RunDueJobs, EndTick, Saves, SaveRaises, WriteRaises
  <2>3. cronFile' = View \/ dirty' \/ current' # NoJob
    BY <1>3 DEF RunDueJobs, EndTick, Saves, SaveRaises, WriteRaises,
                   StartNext, DueJobs
  <2> QED  BY <1>1, <2>1, <2>2, <2>3, CleanView, StoredSpent
<1>4. CASE MergeRaises  BY <1>1, <1>4, MergeFailsSpent
<1> QED  BY <1>2, <1>3, <1>4 DEF OnTimer

\* An execution that ends leaves its occurrence behind.
LEMMA EndsSpent ==
    ASSUME Replayed, cronUp, NEW j \in Jobs, Settle(j), actionLog' = actionLog,
           now' = now, known' = known, cronStore' = Executed(j, cronStore),
           cronFile' = cronStore' \/ dirty' \/ current' # NoJob
    PROVE  Spent'
<1>1. cronStore \in Stores /\ cronStore[j] \in Entries /\ now \in Nat
  BY DEF Replayed, Calm, Sound, StoreOf, Stores
<1>2. ended' \subseteq ended \cup {<<j, cronStore[j].next>>}
  BY DEF Settle, Occurrences
<1>3. ended' = ended \/ (IsDue(cronStore, j) /\ There(cronStore, j))
  BY DEF Settle, Occurrences, DueJobs, IsDue, There
<1>4. ASSUME NEW i \in Jobs, NEW n \in Nat, <<i, n>> \in ended'
      PROVE  n >= 1 /\ n <= now /\ i \in known /\ i \notin Offered(actionLog)
  <2>1. CASE <<i, n>> \in ended  BY <2>1 DEF Replayed, Spent
  <2>2. CASE <<i, n>> \notin ended
    <3>1. i = j /\ n = cronStore[j].next  BY <1>2, <1>4, <2>2
    <3>2. IsDue(cronStore, j) /\ There(cronStore, j)  BY <1>3, <1>4, <2>2
    <3>3. n >= 1 /\ n <= now  BY <3>1, <3>2 DEF IsDue
    <3>4. j \in known  BY <3>2 DEF Replayed, Calm, Sound, StoreOf
    <3>5. j \notin Offered(actionLog)  BY <3>2 DEF Replayed, Calm, Unmerged
    <3> QED  BY <3>1, <3>3, <3>4, <3>5
  <2> QED  BY <2>1, <2>2
<1>5. ASSUME NEW k \in Jobs, cronStore'[k].status = "on"
      PROVE  <<k, cronStore'[k].next>> \notin ended'
  <2>1. CASE k # j
    <3>1. cronStore'[k] = cronStore[k]  BY <1>1, <2>1 DEF Executed, Stores
    <3>2. <<k, cronStore[k].next>> \notin ended
      BY <1>5, <3>1 DEF Replayed, Spent, Clean
    <3> QED  BY <1>2, <2>1, <3>1, <3>2
  <2>2. CASE k = j
    <3>1. j \notin OneShots /\ cronStore[j] # NoEntry
      BY <1>1, <1>5, <2>2 DEF Executed, Stores, NoEntry
    <3>2. cronStore'[j] = [cronStore[j] EXCEPT !.next = ComputeNextRun(j, now)]
      BY <1>1, <3>1 DEF Executed, Stores
    <3>3. cronStore'[j].next = now + Every
      BY <1>1, <3>1, <3>2 DEF Entries, ComputeNextRun, Jobs
    <3>4. now + Every \in Nat /\ now + Every > now  BY <1>1
    <3>5. <<j, now + Every>> \notin ended'
      <4> SUFFICES ASSUME <<j, now + Every>> \in ended' PROVE FALSE  OBVIOUS
      <4>1. now + Every <= now  BY <1>4, <3>4
      <4> QED  BY <1>1, <3>4, <4>1
    <3> QED  BY <2>2, <3>3, <3>5
  <2> QED  BY <2>1, <2>2
<1>6. Clean(cronStore)'  BY <1>5 DEF Clean
<1>7. cronUp' /\ ~dirty' /\ current' = NoJob => Clean(cronFile)'
  BY <1>6 DEF Clean
<1>8. (\A i \in Jobs, n \in Nat :
          <<i, n>> \in ended =>
             n >= 1 /\ n <= now /\ i \in known /\ i \notin Offered(actionLog))'
  BY <1>4
<1> QED  BY <1>6, <1>7, <1>8 DEF Spent
LEMMA ApiSpent ==
    ASSUME Replayed, NEW j \in Jobs,
           AddJob(j) \/ RemoveJob(j) \/ EnableJob(j) \/ UpdateJob(j)
    PROVE  Spent'
<1>1. cronUp /\ now' = now /\ ended' = ended /\ known \subseteq known'
  BY DEF AddJob, RemoveJob, EnableJob, UpdateJob, Edit, Called
<1>2. View \in Stores /\ Clean(View)
  BY <1>1, CleanView, ViewStores DEF Replayed, Calm
<1>3. CASE CallRaises
  BY <1>1, <1>3, MergeFailsSpent DEF CallRaises
<1>4. ASSUME NEW e, SaveAndArm([View EXCEPT ![j] = e]),
             e.status = "on" => e.next \in {0, ComputeNextRun(j, now)}
      PROVE  Spent'
  <2> DEFINE s == [View EXCEPT ![j] = e]
  <2>1. s[j] = e /\ \A k \in Jobs \ {j} : s[k] = View[k]  BY <1>2 DEF Stores
  <2>2. /\ cronStore' = s /\ (cronFile' = s \/ dirty') /\ ended' = ended
        /\ actionLog' = LogLeft
    BY <1>1, <1>4 DEF SaveAndArm, Saves, SaveRaises, WriteRaises
  <2> HIDE DEF s
  <2>3. Clean(s)
    <3> SUFFICES ASSUME NEW k \in Jobs, s[k].status = "on"
                 PROVE  <<k, s[k].next>> \notin ended
      BY DEF Clean
    <3>1. CASE k = j
      <4>1. s[k].next \in {0, ComputeNextRun(j, now)}  BY <1>4, <2>1, <3>1
      <4> QED  BY <3>1, <4>1, NextIsNew
    <3>2. CASE k # j  BY <1>2, <2>1, <3>2 DEF Clean
    <3> QED  BY <3>1, <3>2
  <2>4. Offered(actionLog') \subseteq Offered(actionLog)
    BY <2>2, OfferedNothing DEF LogLeft
  <2> QED  BY <1>1, <2>2, <2>3, <2>4, StoredSpent
<1>5. ASSUME AddJob(j), ~CallRaises PROVE Spent'
  <2> DEFINE e == Job(TRUE, ComputeNextRun(j, now))
  <2>1. SaveAndArm([View EXCEPT ![j] = e]) /\ e.next = ComputeNextRun(j, now)
    BY <1>5 DEF AddJob, Job
  <2> HIDE DEF e
  <2> QED  BY <1>4, <2>1
<1>6. ASSUME RemoveJob(j), ~CallRaises PROVE Spent'
  <2>1. SaveAndArm([View EXCEPT ![j] = NoEntry]) /\ NoEntry.next = 0
    BY <1>6 DEF RemoveJob, NoEntry
  <2> QED  BY <1>4, <2>1
<1>7. ASSUME NEW on \in BOOLEAN, Edit(j, on), ~CallRaises PROVE Spent'
  <2> DEFINE e == Job(on, IF on THEN ComputeNextRun(j, now) ELSE 0)
  <2>1. /\ SaveAndArm([View EXCEPT ![j] = e])
        /\ e.next \in {0, ComputeNextRun(j, now)}
    BY <1>7 DEF Edit, Job
  <2> HIDE DEF e
  <2> QED  BY <1>4, <2>1
<1>8. (View[j].status = "on") \in BOOLEAN  OBVIOUS
<1> QED  BY <1>3, <1>5, <1>6, <1>7, <1>8 DEF EnableJob, UpdateJob

LEMMA ListSpent == ASSUME Replayed, ListJobs PROVE Spent'
<1>1. cronUp /\ now' = now /\ known' = known /\ ended' = ended  BY DEF ListJobs
<1>2. CASE CallRaises  BY <1>1, <1>2, MergeFailsSpent DEF CallRaises
<1>3. CASE Saves(View) /\ actionLog' = <<>>
  <2>1. cronStore' = View /\ cronFile' = View  BY <1>3 DEF Saves
  <2> QED  BY <1>1, <1>3, <2>1, CleanView, OfferedNothing, StoredSpent
<1> QED  BY <1>2, <1>3 DEF ListJobs

LEMMA RunJobSpent == ASSUME Replayed, NEW j \in Jobs, RunJob(j) PROVE Spent'
<1>1. /\ cronUp /\ cronUp' = cronUp /\ now' = now /\ known' = known /\ ended' = ended
      /\ ManualRaises \/ ManualLoads
  BY DEF RunJob, Called
<1>2. Clean(cronStore) /\ cronStore \in Stores /\ cronFile \in Stores
  BY <1>1 DEF Replayed, Spent, Calm, Sound, StoreOf
<1>3. ActiveExecutions = 0 => current = NoJob
  <2>1. IsFiniteSet(manual)  BY FS_Subset DEF Replayed, Calm, Sound
  <2>2. Cardinality(manual) \in Nat  BY <2>1, FS_CardinalityType
  <2> QED  BY <2>2 DEF ActiveExecutions
<1>4. ActiveExecutions = 0 => Clean(ManualView)
  <2> SUFFICES ASSUME ActiveExecutions = 0 PROVE Clean(ManualView)  OBVIOUS
  <2>1. Clean(ManualFile) /\ ManualFile \in Stores
    BY <1>1, <1>2, <1>3 DEF ManualFile, Replayed, Spent
  <2> QED  BY <2>1, CleanMerged DEF ManualView
<1>5. CASE dirty /\ SaveRaises(cronStore, cronFile) /\ UNCHANGED actionLog
  <2>1. cronStore' = cronStore /\ dirty' = TRUE  BY <1>5 DEF SaveRaises, WriteRaises
  <2> QED  BY <1>1, <1>2, <1>5, <2>1, StoredSpent
<1>6. CASE ActiveExecutions = 0 /\ MergedSaveRaises(ManualView, ManualFile)
  <2>1. cronStore' = ManualView /\ dirty' = TRUE /\ actionLog' = <<>>
    BY <1>6 DEF MergedSaveRaises, WriteRaises
  <2> QED  BY <1>1, <1>4, <1>6, <2>1, OfferedNothing, StoredSpent
<1>7. CASE ManualLoads /\ ActiveExecutions = 0
  <2>1. cronStore' = ManualView /\ cronFile' = ManualView /\ actionLog' = <<>>
    BY <1>7 DEF ManualLoads
  <2> QED  BY <1>1, <1>4, <1>7, <2>1, OfferedNothing, StoredSpent
<1>8. CASE ManualLoads /\ ActiveExecutions # 0
  <2>1. /\ cronStore' = cronStore /\ cronFile' = ManualFile
        /\ actionLog' = actionLog
    BY <1>8 DEF ManualLoads, ManualView
  <2>2. CASE dirty
    <3>1. cronFile' = cronStore  BY <2>1, <2>2 DEF ManualFile
    <3> QED  BY <1>1, <1>2, <2>1, <3>1, StoredSpent
  <2>3. CASE ~dirty
    <3>1. cronFile' = cronFile  BY <2>1, <2>3 DEF ManualFile
    <3>2. current' = current
      BY <1>8 DEF RunJob, cronTimer
    <3> QED  BY <1>1, <2>1, <2>3, <3>1, <3>2 DEF Replayed, Spent, Clean
  <2> QED  BY <2>2, <2>3
<1> QED  BY <1>1, <1>5, <1>6, <1>7, <1>8 DEF ManualRaises

LEMMA ElsewhereSpent ==
    ASSUME Replayed, NEW j \in Jobs, AddElsewhere(j) \/ RemoveElsewhere(j)
    PROVE  Spent'
<1>1. /\ UNCHANGED <<now, cronFile, cronUp, cronStore, dirty, current, ended>>
      /\ known \subseteq known'
  BY DEF AddElsewhere, RemoveElsewhere, Logged, cronMemory, cronTimer
<1>2. actionLog \in Seq(Actions)  BY DEF Replayed, Calm, Sound, LogOf
<1>3. Offered(actionLog') \subseteq Offered(actionLog) \cup ({j} \ known)
  <2>1. CASE AddElsewhere(j)
    <3> DEFINE a == [job |-> j, to |-> Job(TRUE, ComputeNextRun(j, now))]
    <3>1. ComputeNextRun(j, now) \in Nat  BY NextRuns DEF Replayed, Calm, Sound
    <3>2. a \in Actions /\ a.job = j  BY <3>1, JobEntries DEF Actions
    <3>3. actionLog' = Append(actionLog, a) /\ j \notin known
      BY <2>1 DEF AddElsewhere, Logged
    <3> HIDE DEF a
    <3> QED  BY <1>2, <3>2, <3>3, OfferedAppend
  <2>2. CASE RemoveElsewhere(j)
    <3> DEFINE a == [job |-> j, to |-> NoEntry]
    <3>1. NoEntry \in Entries /\ NoEntry.status = "absent"  BY DEF NoEntry, Entries
    <3>2. a \in Actions /\ a.to.status = "absent"  BY <3>1 DEF Actions
    <3>3. actionLog' = Append(actionLog, a)  BY <2>2 DEF RemoveElsewhere, Logged
    <3> HIDE DEF a
    <3> QED  BY <1>2, <3>2, <3>3, OfferedAppend
  <2> QED  BY <2>1, <2>2
<1> QED  BY <1>1, <1>3 DEF Replayed, Spent, Clean

LEMMA ProcessSpent ==
    ASSUME Replayed, KillGateway \/ StartService \/ StartFails \/ CronTick
    PROVE  Spent'
<1>1. CASE KillGateway \/ StartFails
  <2>1. ended' = ended /\ now' = now /\ known' = known
    BY <1>1 DEF KillGateway, StartFails
  <2>2. ~cronUp'  BY <1>1 DEF KillGateway, Stopped, StartFails, cronMemory
  <2>3. Offered(actionLog') \subseteq Offered(actionLog)
    BY <1>1, OfferedNothing DEF KillGateway, StartFails, LoseMemory, LoseMerge
  <2> QED  BY <2>1, <2>2, <2>3 DEF Replayed, Spent
<1>2. CASE StartService
  <2>1. Clean(Recomputed(View))
    <3> SUFFICES ASSUME NEW j \in Jobs, Recomputed(View)[j].status = "on"
                 PROVE  <<j, Recomputed(View)[j].next>> \notin ended
      BY DEF Clean
    <3>1. View[j] \in Entries  BY ViewStores DEF Replayed, Calm, Stores
    <3>2. Recomputed(View)[j].next = ComputeNextRun(j, now)
      BY <3>1 DEF Recomputed, Entries
    <3> QED  BY <3>2, NextIsNew
  <2>2. /\ cronStore' = Recomputed(View) /\ cronFile' = Recomputed(View)
        /\ actionLog' = <<>> /\ ended' = ended /\ now' = now /\ known' = known
    BY <1>2 DEF StartService, Saves
  <2> QED  BY <2>1, <2>2, OfferedNothing, StoredSpent
<1>3. CASE CronTick
  <2>1. /\ UNCHANGED <<actionLog, cronFile, cronUp, cronStore, dirty, current, known, ended>>
        /\ now' = now + 1
    BY <1>3 DEF CronTick, cronDisk, cronMemory, cronTimer, cronGhosts
  <2>2. now \in Nat  BY DEF Replayed, Calm, Sound
  <2>3. \A n \in Nat : n <= now => n <= now'  BY <2>1, <2>2
  <2> QED  BY <2>1, <2>3 DEF Replayed, Spent, Clean
<1> QED  BY <1>1, <1>2, <1>3

LEMMA SpentStep == Replayed /\ [CronNext]_cronVars => Spent'
<1> SUFFICES ASSUME Replayed, [CronNext]_cronVars PROVE Spent'  OBVIOUS
<1>1. CASE UNCHANGED cronVars
  <2>1. UNCHANGED <<now, actionLog, cronFile, cronUp, cronStore, dirty, current, known, ended>>
    BY <1>1 DEF cronVars, cronDisk, cronMemory, cronTimer, cronGhosts
  <2> QED  BY <2>1 DEF Replayed, Spent, Clean
<1>2. CASE CronApi
  BY <1>2, ApiSpent, RunJobSpent, ElsewhereSpent, ListSpent DEF CronApi
<1>3. CASE JobEnds
  <2>1. /\ current \in Jobs /\ Settle(current)
        /\ now' = now /\ actionLog' = actionLog /\ known' = known
    BY <1>3 DEF JobEnds, Replayed, Calm, Sound
  <2>2. cronUp  BY <1>3 DEF JobEnds, Replayed, Calm, Sound, Down
  <2>3. CASE EndTick(Executed(current, cronStore))
    <3>1. /\ cronStore' = Executed(current, cronStore)
          /\ cronFile' = cronStore' \/ dirty'
      BY <2>3 DEF EndTick, Saves, SaveRaises, WriteRaises
    <3> QED  BY <2>1, <2>2, <3>1, EndsSpent
  <2>4. CASE /\ StartNext(due, Executed(current, cronStore))
             /\ cronStore' = Executed(current, cronStore)
    <3>1. current' # NoJob
      BY <2>4 DEF StartNext, Replayed, Calm, Sound
    <3> QED  BY <2>1, <2>2, <2>4, <3>1, EndsSpent
  <2> QED  BY <1>3, <2>3, <2>4 DEF JobEnds
<1>4. ASSUME NEW j \in Jobs, ManualEnds(j) PROVE Spent'
  <2>1. /\ Settle(j) /\ now' = now /\ actionLog' = actionLog /\ known' = known
        /\ cronStore' = Executed(j, cronStore)
        /\ cronFile' = cronStore' \/ dirty'
    BY <1>4 DEF ManualEnds, Saves, SaveRaises, WriteRaises
  <2>2. cronUp  BY <1>4 DEF ManualEnds, Replayed, Calm, Sound, Down
  <2> QED  BY <2>1, <2>2, EndsSpent
<1> QED
  BY <1>1, <1>2, <1>3, <1>4, OnTimerSpent, ProcessSpent DEF CronNext

\* No tick lists a job for an occurrence whose execution, by the timer or by
\* hand, has ended: through reloads, merges, failed saves and kills.
THEOREM NothingReplayed == CronSpec => NoReplay
<1>1. CronInit => Replayed
  <2>1. CronInit => withdrawn = {} /\ Offered(actionLog) = {} /\ ended = {} /\ ~cronUp
    BY OfferedNothing DEF CronInit
  <2> QED  BY <2>1, SoundInit DEF Replayed, Calm, Unmerged, Resting, Spent
<1>2. Replayed /\ [CronNext]_cronVars => Replayed'
  BY CalmStep, SpentStep DEF Replayed
<1>3. Replayed /\ CronNext =>
         (current = NoJob /\ current' # NoJob =>
             Occurrences(due' \cup {current'}, cronStore') \cap ended = {})
  <2> SUFFICES ASSUME Replayed, CronNext, current = NoJob, current' # NoJob
               PROVE  Occurrences(due' \cup {current'}, cronStore') \cap ended = {}
    OBVIOUS
  <2>1. CASE OnTimer
    <3>1. RunDueJobs /\ StartNext(DueJobs(View), View) /\ cronStore' = View
      BY <2>1 DEF OnTimer, CatchUp, RunDueJobs, EndTick, Arm
    <3>2. due' \cup {current'} \subseteq DueJobs(View)  BY <3>1 DEF StartNext
    <3>3. Clean(View)  BY <2>1, CleanView DEF OnTimer
    <3>4. \A j \in DueJobs(View) : <<j, View[j].next>> \notin ended
      BY <3>3 DEF DueJobs, IsDue, Clean
    <3> QED  BY <3>1, <3>2, <3>4 DEF Occurrences
  <2>2. CASE JobEnds  BY <2>2 DEF JobEnds
  <2>3. CASE CronApi
    BY <2>3 DEF CronApi, AddJob, RemoveJob, EnableJob, UpdateJob, Edit, CallRaises,
                SaveAndArm, Arm, RunJob, AddElsewhere, RemoveElsewhere, Logged, ListJobs,
                cronTimer
  <2>4. CASE \E j \in Jobs : ManualEnds(j)
    BY <2>4 DEF ManualEnds, Arm, cronTimer
  <2>5. CASE KillGateway \/ StartService \/ StartFails \/ CronTick
    BY <2>5 DEF KillGateway, Stopped, StartService, StartFails, CronTick, cronTimer
  <2> QED  BY <2>1, <2>2, <2>3, <2>4, <2>5 DEF CronNext
<1>4. Replayed /\ [CronNext]_cronVars =>
         [current = NoJob /\ current' # NoJob =>
             Occurrences(due' \cup {current'}, cronStore') \cap ended = {}]_cronVars
  BY <1>3
<1> QED  BY <1>1, <1>2, <1>4, PTL DEF CronSpec, NoReplay
-----------------------------------------------------------------------------
(* The workers together *)

\* The local triggers and the scheduled jobs side by side, as the run has them,
\* keep both type invariants, under the fairness the run assumes.
THEOREM WorkersTypesCorrect == WorkersSpec => []WorkersTypeOK
<1>1. WorkersInit => DeliveryInv /\ Sound
  BY InvInit, SoundInit DEF WorkersInit
<1>2. DeliveryInv /\ Sound /\ [WorkersNext]_<<vars, cronVars, worked>> => DeliveryInv' /\ Sound'
  <2> SUFFICES ASSUME DeliveryInv, Sound, [WorkersNext]_<<vars, cronVars, worked>>
               PROVE  DeliveryInv' /\ Sound'
    OBVIOUS
  <2>1. [Next]_vars /\ [CronNext]_cronVars
    BY DEF WorkersNext, Works
  <2> QED  BY <2>1, InvStep, SoundStep
<1>3. DeliveryInv => TypeOK  BY DEF DeliveryInv
<1> QED
  BY <1>1, <1>2, <1>3, TypesOfSound, PTL DEF WorkersSpec, WorkersTypeOK
=============================================================================
