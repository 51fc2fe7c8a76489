----------------------------- MODULE ToolsProofs -----------------------------
(***************************************************************************)
(* What tools leave running: no process of ExecSessions and no connection  *)
(* of McpConnections is ever unknown to everybody who could end it,        *)
(* whatever is cancelled and whatever raises.  At the end, the types of    *)
(* all that a turn sets going (MCTurns).                                   *)
(***************************************************************************)
EXTENDS MCTurns, GoalTurnsProofs, DeliveryProofs, FiniteSetTheorems, SequenceTheorems, TLAPS

-----------------------------------------------------------------------------
(* Processes: the inductive invariant *)

CallRecords ==
    [phase : Phases, op : Ops, owner : Owners \cup {NoOwner}, exec : Execs \cup {0},
     victim : Execs \cup {0}, stale : SUBSET Execs, failed : BOOLEAN]
SweepRecords ==
    [phase : {"no", "killing", "restoring"}, victims : SUBSET Execs, failed : SUBSET Execs]

\* The types of ExecTypeOK, without its limit.
ExecTyped ==
    /\ process \in [Execs -> {"none", "running", "killed", "dead"}]
    /\ unkillable \subseteq Execs /\ registered \subseteq Execs
    /\ readers \in [Execs -> {"none", "reading", "ended", "cancelled"}]
    /\ execOwner \in [Execs -> Owners \cup {NoOwner}]
    /\ managerLock \in Callers \cup {NoCaller} /\ managerClosed \in BOOLEAN
    /\ call \in [Callers -> CallRecords]
    /\ sweep \in [Sweepers -> SweepRecords]

\* Nothing can make the process run (again).
Gone(e) == process[e] \in {"killed", "dead"}

\* A call holds the lock exactly while it kills stale sessions or spawns.
LockHeld ==
    \A c \in Callers : managerLock = c <=> call[c].phase \in {"cleaning", "spawning"}

\* What calls work on: a call that reads the rest, or pops, found its process dead;
\* the session that a clean-up forgets was killed, unless the kill raised.
CallsKnow ==
    \A c \in Callers :
       /\ call[c].phase \notin {"none", "entering", "cleaning", "spawning"} =>
             call[c].exec \in Execs
       /\ call[c].phase \in {"reading", "done", "leaked"} => process[call[c].exec] = "dead"
       /\ call[c].phase = "cleaning" =>
             /\ call[c].victim \in Execs /\ (~call[c].failed => Gone(call[c].victim))
             /\ call[c].stale \subseteq registered \ {call[c].victim}
       /\ call[c].phase = "spawning" => call[c].op = "start"

\* What sweeps hold: whatever they could not kill they know, and nobody may kill it.
SweepsKnow ==
    \A w \in Sweepers :
       /\ sweep[w].phase = "no" => sweep[w].victims = {}
       /\ sweep[w].failed \subseteq sweep[w].victims \cap unkillable
       /\ \A e \in sweep[w].victims :
             process[e] # "none" /\ (e \notin sweep[w].failed => Gone(e))

\* Every registered session has a process.
TableKnows == \A e \in registered : process[e] # "none"

\* A closed manager has no call that could still spawn.
NoneSpawns ==
    managerClosed =>
       \A c \in Callers : call[c].phase \in {"cleaning", "spawning"} => call[c].op # "start"

\* The limit is kept by whoever is about to spawn, under the lock.
ExecLimit ==
    /\ IsFiniteSet(registered) /\ \A w \in Sweepers : IsFiniteSet(sweep[w].victims)
    /\ Cardinality(registered \ unkillable) <= MaxExecs
    /\ \A c \in Callers : call[c].phase = "spawning" => Cardinality(registered) < MaxExecs

\* The inductive invariant.
ExecInv ==
    /\ ExecTyped /\ LockHeld /\ CallsKnow /\ SweepsKnow /\ TableKnows
    /\ ProcessesAreKept /\ ClosedForGood /\ NoneSpawns

LEMMA NoRecords == NoCall \in CallRecords /\ NoSweep \in SweepRecords
BY DEF NoCall, NoSweep, CallRecords, SweepRecords, Phases, Ops

LEMMA ExecStart == ExecInit => ExecInv
<1> SUFFICES ASSUME ExecInit PROVE ExecInv
  OBVIOUS
<1>1. ExecTyped
  BY NoRecords DEF ExecInit, ExecTyped
<1>2. \A c \in Callers : call[c] = NoCall
  BY DEF ExecInit
<1>3. \A w \in Sweepers : sweep[w] = NoSweep
  BY DEF ExecInit
<1>4. LockHeld /\ CallsKnow /\ NoneSpawns
  BY <1>2, ExecAssumption DEF ExecInit, LockHeld, CallsKnow, NoneSpawns, NoCall
<1>5. SweepsKnow
  BY <1>3 DEF SweepsKnow, NoSweep
<1>6. TableKnows /\ ProcessesAreKept /\ ClosedForGood
  BY DEF ExecInit, TableKnows, ProcessesAreKept, ClosedForGood
<1> QED BY <1>1, <1>4, <1>5, <1>6 DEF ExecInv

-----------------------------------------------------------------------------
(* Processes: types *)

LEMMA SignalledType ==
    ASSUME ExecTyped, NEW S
    PROVE  Signalled(S) \in [Execs -> {"none", "running", "killed", "dead"}]
BY DEF ExecTyped, Signalled

LEMMA UnreadType ==
    ASSUME ExecTyped, NEW S
    PROVE  Unread(S) \in [Execs -> {"none", "reading", "ended", "cancelled"}]
BY DEF ExecTyped, Unread

\* The call of c ends, goes on to another phase, or is given a record.
LEMMA CallMoves ==
    ASSUME ExecTyped, NEW c \in Callers, NEW r \in CallRecords,
           call' = [call EXCEPT ![c] = r]
    PROVE  /\ call' \in [Callers -> CallRecords]
           /\ call'[c] = r /\ \A d \in Callers \ {c} : call'[d] = call[d]
BY DEF ExecTyped

LEMMA EndsMoves ==
    ASSUME ExecTyped, NEW c \in Callers, Ends(c)
    PROVE  /\ call' \in [Callers -> CallRecords]
           /\ call'[c] = NoCall /\ \A d \in Callers \ {c} : call'[d] = call[d]
BY NoRecords DEF ExecTyped, Ends

LEMMA GoesMoves ==
    ASSUME ExecTyped, NEW c \in Callers, NEW p \in Phases, Goes(c, p)
    PROVE  /\ call' \in [Callers -> CallRecords]
           /\ call'[c] = [call[c] EXCEPT !.phase = p]
           /\ \A d \in Callers \ {c} : call'[d] = call[d]
BY DEF ExecTyped, Goes, CallRecords

-----------------------------------------------------------------------------
(* Processes: what a step of a call may do *)

\* No process starts but one that the call of c registers, and none comes back.
Onward ==
    \A e \in Execs :
       \/ process'[e] = process[e]
       \/ process[e] = "none" /\ process'[e] = "running" /\ e \in registered'
       \/ process[e] = "running" /\ process'[e] \in {"killed", "dead"}
       \/ process[e] = "killed" /\ process'[e] = "dead"

\* The call of c keeps its part of the invariant.
KeepsItsPart(c) ==
    LET r == call'[c] IN
    /\ managerLock' = c <=> r.phase \in {"cleaning", "spawning"}
    /\ r.phase \notin {"none", "entering", "cleaning", "spawning"} => r.exec \in Execs
    /\ r.phase \in {"reading", "done", "leaked"} => process'[r.exec] = "dead"
    /\ r.phase = "cleaning" =>
          /\ r.victim \in Execs /\ (~r.failed => process'[r.victim] \in {"killed", "dead"})
          /\ r.stale \subseteq registered' \ {r.victim}
    /\ r.phase = "spawning" => r.op = "start"
    /\ managerClosed /\ r.phase \in {"cleaning", "spawning"} => r.op # "start"

\* The call of c changes the table only while nobody else holds the lock, and drops
\* no process from it that runs.
KeepsTable(c) ==
    /\ \/ managerLock' = managerLock /\ registered' = registered
       \/ managerLock \in {c, NoCaller} /\ managerLock' \in {c, NoCaller}
    /\ \A e \in registered \ registered' : process'[e] # "running"
    /\ \A e \in registered' : process'[e] # "none"

LEMMA CallKeeps ==
    ASSUME ExecInv, NEW c \in Callers, ExecTyped', Onward, KeepsItsPart(c), KeepsTable(c),
           UNCHANGED <<sweep, managerClosed>>, unkillable \subseteq unkillable',
           \A d \in Callers \ {c} : call'[d] = call[d],
           managerClosed => \A e \in Execs : process'[e] = "running" => process[e] = "running"
    PROVE  ExecInv'
<1> USE DEF ExecInv
<1>1. LockHeld'
  BY ExecAssumption DEF LockHeld, KeepsItsPart, KeepsTable
<1>2. CallsKnow'
  <2> SUFFICES ASSUME NEW d \in Callers, d # c
               PROVE  /\ call'[d].phase \notin {"none", "entering", "cleaning", "spawning"} =>
                            call'[d].exec \in Execs
                      /\ call'[d].phase \in {"reading", "done", "leaked"} =>
                            process'[call'[d].exec] = "dead"
                      /\ call'[d].phase = "cleaning" =>
                            /\ call'[d].victim \in Execs
                            /\ ~call'[d].failed => process'[call'[d].victim] \in {"killed", "dead"}
                            /\ call'[d].stale \subseteq registered' \ {call'[d].victim}
                      /\ call'[d].phase = "spawning" => call'[d].op = "start"
    BY DEF CallsKnow, KeepsItsPart, Gone
  <2>1. call'[d] = call[d]
    OBVIOUS
  <2>2. CASE call[d].phase = "cleaning"
    <3>1. managerLock = d
      BY <2>2 DEF LockHeld
    <3>2. registered' = registered
      BY <3>1, ExecAssumption DEF KeepsTable
    <3> QED BY <2>1, <2>2, <3>2 DEF CallsKnow, Onward, Gone
  <2>3. CASE call[d].phase # "cleaning"
    BY <2>1, <2>3 DEF CallsKnow, Onward
  <2> QED BY <2>2, <2>3
<1>3. SweepsKnow'
  BY DEF SweepsKnow, Onward, Gone, ExecTyped, SweepRecords
<1>4. TableKnows'
  BY DEF TableKnows, KeepsTable
<1>5. ProcessesAreKept'
  BY DEF ProcessesAreKept, Onward, KeepsTable, ExecTyped
<1>6. ClosedForGood'
  BY DEF ClosedForGood
<1>7. NoneSpawns'
  BY DEF NoneSpawns, KeepsItsPart
<1> QED BY <1>1, <1>2, <1>3, <1>4, <1>5, <1>6, <1>7

-----------------------------------------------------------------------------
(* Processes: every step of a call *)

LEMMA SignalledSteps ==
    ASSUME ExecTyped, NEW S, NEW e \in Execs
    PROVE  /\ Signalled(S)[e] = process[e] \/ (process[e] = "running" /\ Signalled(S)[e] = "killed")
           /\ e \in S /\ ~Refuses(e) => Signalled(S)[e] # "running"
BY DEF Signalled, ExecTyped, Refuses

\* What the end of the work under the lock leaves, with S registered.
LeavesLock(c, S) ==
    /\ call' \in [Callers -> CallRecords] /\ \A d \in Callers \ {c} : call'[d] = call[d]
    /\ registered' = S /\ managerLock' \in {c, NoCaller}
    /\ process' \in [Execs -> {"none", "running", "killed", "dead"}]
    /\ \A e \in Execs : process'[e] = process[e]
                          \/ (process[e] = "running" /\ process'[e] = "killed")
    /\ KeepsItsPart(c)

LEMMA ProceedLeaves ==
    ASSUME ExecInv, NEW c \in Callers, NEW S \in SUBSET registered, Proceed(c, S),
           managerClosed => call[c].op # "start"
    PROVE  LeavesLock(c, S)
<1> USE DEF ExecInv
<1>0. ExecTyped /\ registered' = S /\ S \subseteq Execs /\ c # NoCaller /\ call[c] \in CallRecords
  BY ExecAssumption DEF Proceed, ExecTyped
<1>1. CASE call[c].op = "start" /\ managerLock' = c /\ Goes(c, "spawning") /\ UNCHANGED process
  <2>1. /\ call' \in [Callers -> CallRecords]
        /\ call'[c] = [call[c] EXCEPT !.phase = "spawning"]
        /\ \A d \in Callers \ {c} : call'[d] = call[d]
    BY <1>0, <1>1, GoesMoves DEF Phases
  <2>2. call'[c].phase = "spawning" /\ call'[c].op = "start"
    BY <1>0, <1>1, <2>1 DEF CallRecords
  <2> QED BY <1>0, <1>1, <2>1, <2>2 DEF LeavesLock, KeepsItsPart, ExecTyped
<1>2. CASE managerLock' = NoCaller /\ Ends(c) /\ UNCHANGED process
  <2>1. call' \in [Callers -> CallRecords] /\ call'[c] = NoCall
        /\ \A d \in Callers \ {c} : call'[d] = call[d]
    BY <1>0, <1>2, EndsMoves
  <2> QED BY <1>0, <1>2, <2>1 DEF LeavesLock, KeepsItsPart, NoCall, ExecTyped
<1>3. CASE /\ managerLock' = NoCaller /\ UNCHANGED process /\ Found(c, S)
           /\ Goes(c, IF call[c].op = "write" THEN "writing" ELSE "polling")
  <2> DEFINE p == IF call[c].op = "write" THEN "writing" ELSE "polling"
  <2>1. p \in {"writing", "polling"} /\ p \in Phases
    BY DEF Phases
  <2> HIDE DEF p
  <2>2. /\ call' \in [Callers -> CallRecords]
        /\ call'[c] = [call[c] EXCEPT !.phase = p]
        /\ \A d \in Callers \ {c} : call'[d] = call[d]
    BY <1>0, <1>3, <2>1, GoesMoves DEF p
  <2>3. call'[c].phase = p /\ call'[c].exec \in Execs
    BY <1>0, <1>3, <2>2 DEF CallRecords, Found
  <2> QED BY <1>0, <1>3, <2>1, <2>2, <2>3 DEF LeavesLock, KeepsItsPart, ExecTyped
<1>4. CASE /\ Found(c, S) /\ managerLock' = NoCaller /\ process' = Signalled({call[c].exec})
           /\ call' = [call EXCEPT ![c].phase = "killing", ![c].failed = Refuses(call[c].exec)]
  <2> DEFINE r == [call[c] EXCEPT !.phase = "killing", !.failed = Refuses(call[c].exec)]
  <2>1. r \in CallRecords
    BY <1>0 DEF CallRecords, Phases, Refuses
  <2>2. call' = [call EXCEPT ![c] = r]
    BY <1>4
  <2>3. r.phase = "killing" /\ r.exec \in Execs
    BY <1>0, <1>4 DEF CallRecords, Found
  <2> HIDE DEF r
  <2>4. /\ call' \in [Callers -> CallRecords]
        /\ call'[c] = r /\ \A d \in Callers \ {c} : call'[d] = call[d]
    BY <1>0, <2>1, <2>2, CallMoves
  <2>5. process' \in [Execs -> {"none", "running", "killed", "dead"}]
        /\ \A e \in Execs : process'[e] = process[e]
                          \/ (process[e] = "running" /\ process'[e] = "killed")
    BY <1>0, <1>4, SignalledType, SignalledSteps
  <2> QED BY <1>0, <1>4, <2>3, <2>4, <2>5 DEF LeavesLock, KeepsItsPart
<1> QED BY <1>1, <1>2, <1>3, <1>4 DEF Proceed

LEMMA CleanLeaves ==
    ASSUME ExecInv, NEW c \in Callers, NEW S \in SUBSET registered, NEW stale \in SUBSET S,
           CleanOrProceed(c, stale, S), managerClosed => call[c].op # "start"
    PROVE  LeavesLock(c, S)
<1> USE DEF ExecInv
<1>0. ExecTyped /\ S \subseteq Execs /\ c # NoCaller /\ call[c] \in CallRecords
  BY ExecAssumption DEF ExecTyped
<1>1. CASE Proceed(c, S)
  BY <1>1, ProceedLeaves
<1>2. ASSUME NEW e \in stale, KillStale(c, e, stale \ {e}), registered' = S
      PROVE  LeavesLock(c, S)
  <2> DEFINE r == [call[c] EXCEPT !.phase = "cleaning", !.failed = Refuses(e),
                                  !.victim = e, !.stale = stale \ {e}]
  <2>0. e \in Execs /\ process[e] # "none" /\ stale \ {e} \subseteq S
    BY <1>0 DEF TableKnows
  <2>1. r \in CallRecords
    BY <1>0, <2>0 DEF CallRecords, Phases, Refuses
  <2>2. call' = [call EXCEPT ![c] = r]
    BY <1>2 DEF KillStale
  <2>3. /\ r.phase = "cleaning" /\ r.victim = e /\ r.op = call[c].op
        /\ r.stale = stale \ {e} /\ r.failed = Refuses(e)
    BY <1>0 DEF CallRecords
  <2> HIDE DEF r
  <2>4. /\ call' \in [Callers -> CallRecords]
        /\ call'[c] = r /\ \A d \in Callers \ {c} : call'[d] = call[d]
    BY <1>0, <2>1, <2>2, CallMoves
  <2>5. process' = Signalled({e}) /\ managerLock' = c
    BY <1>2 DEF KillStale
  <2>6. process' \in [Execs -> {"none", "running", "killed", "dead"}]
        /\ \A d \in Execs : process'[d] = process[d]
                          \/ (process[d] = "running" /\ process'[d] = "killed")
    BY <1>0, <2>5, SignalledType, SignalledSteps
  <2>7. ~Refuses(e) => process'[e] \in {"killed", "dead"}
    BY <1>0, <2>0, <2>5, <2>6, SignalledSteps DEF ExecTyped
  <2> QED BY <1>0, <1>2, <2>0, <2>3, <2>4, <2>5, <2>6, <2>7 DEF LeavesLock, KeepsItsPart
<1> QED BY <1>1, <1>2 DEF CleanOrProceed

LEMMA LeavingKeeps ==
    ASSUME ExecInv, NEW c \in Callers, NEW S \in SUBSET registered, LeavesLock(c, S),
           managerLock \in {c, NoCaller}, UNCHANGED <<unkillable, execOwner, managerClosed, sweep>>,
           readers' \in [Execs -> {"none", "reading", "ended", "cancelled"}],
           \A e \in registered \ S : process[e] # "running"
    PROVE  ExecInv'
<1> USE DEF ExecInv, LeavesLock
<1>1. ExecTyped'
  BY DEF ExecTyped
<1>2. Onward
  BY DEF Onward
<1>3. KeepsTable(c)
  BY DEF KeepsTable, TableKnows, ExecTyped
<1>4. managerClosed => \A e \in Execs : process'[e] = "running" => process[e] = "running"
  OBVIOUS
<1> QED BY <1>1, <1>2, <1>3, <1>4, CallKeeps

LEMMA EnterKeeps ==
    ASSUME ExecInv, NEW c \in Callers, Enter(c)
    PROVE  ExecInv'
<1> USE DEF ExecInv
<1>1. CASE RefusedClosed(c)
  <2>1. Ends(c) /\ UNCHANGED <<processes, registered, managerLock, managerClosed, sweep>>
    BY <1>1 DEF Enter, processes
  <2>2. call' \in [Callers -> CallRecords] /\ call'[c] = NoCall
        /\ \A d \in Callers \ {c} : call'[d] = call[d]
    BY <2>1, EndsMoves
  <2>3. managerLock = NoCaller
    BY DEF Enter
  <2>4. ExecTyped' /\ Onward /\ KeepsTable(c)
    BY <2>1, <2>2 DEF ExecTyped, processes, Onward, KeepsTable, TableKnows
  <2>5. KeepsItsPart(c)
    BY <2>1, <2>2, <2>3, ExecAssumption DEF KeepsItsPart, NoCall
  <2> QED BY <2>1, <2>2, <2>4, <2>5, CallKeeps DEF processes
<1>2. CASE ~RefusedClosed(c)
  <2>1. PICK stale \in SUBSET registered : CleanOrProceed(c, stale, registered)
    BY <1>2 DEF Enter
  <2>2. LeavesLock(c, registered)
    BY <1>2, <2>1, CleanLeaves DEF RefusedClosed
  <2> QED BY <2>2, LeavingKeeps DEF Enter, ExecTyped
<1> QED BY <1>1, <1>2

LEMMA CleanupKeeps ==
    ASSUME ExecInv, NEW c \in Callers, CleanupStep(c)
    PROVE  ExecInv'
<1> USE DEF ExecInv
<1> DEFINE e == call[c].victim
<1>0. /\ call[c].phase = "cleaning" /\ readers' = Unread({e}) /\ e \in Execs
      /\ UNCHANGED <<unkillable, execOwner, managerClosed, sweep>>
      /\ managerLock = c /\ call[c].stale \subseteq registered \ {e}
  BY DEF CleanupStep, LockHeld, CallsKnow
<1>1. readers' \in [Execs -> {"none", "reading", "ended", "cancelled"}]
  BY <1>0, UnreadType
<1>2. CASE managerLock' = NoCaller /\ Ends(c) /\ UNCHANGED <<process, registered>>
  <2>2. call' \in [Callers -> CallRecords] /\ call'[c] = NoCall
        /\ \A d \in Callers \ {c} : call'[d] = call[d]
    BY <1>2, EndsMoves
  <2>3. LeavesLock(c, registered)
    BY <1>2, <2>2, ExecAssumption DEF LeavesLock, KeepsItsPart, NoCall, ExecTyped
  <2> QED BY <1>0, <1>1, <2>3, LeavingKeeps
<1>3. CASE ~call[c].failed /\ CleanOrProceed(c, call[c].stale, registered \ {e})
  <2>1. process[e] # "running"
    BY <1>0, <1>3 DEF CallsKnow, Gone
  <2>2. managerClosed => call[c].op # "start"
    BY <1>0 DEF NoneSpawns
  <2>3. LeavesLock(c, registered \ {e})
    BY <1>0, <1>3, <2>2, CleanLeaves
  <2> QED BY <1>0, <1>1, <2>1, <2>3, LeavingKeeps
<1> QED BY <1>2, <1>3 DEF CleanupStep

\* A call goes on, or ends, without the table and the lock.
LEMMA GoingKeeps ==
    ASSUME ExecInv, NEW c \in Callers, call' \in [Callers -> CallRecords],
           \A d \in Callers \ {c} : call'[d] = call[d],
           call[c].phase \notin {"cleaning", "spawning"},
           call'[c].phase \notin {"cleaning", "spawning"},
           call'[c].phase \notin {"none", "entering"} => call'[c].exec \in Execs,
           call'[c].phase \in {"reading", "done", "leaked"} => process'[call'[c].exec] = "dead",
           process' \in [Execs -> {"none", "running", "killed", "dead"}],
           \A e \in Execs : process'[e] = process[e]
                            \/ (process[e] = "running" /\ process'[e] = "killed"),
           readers' \in [Execs -> {"none", "reading", "ended", "cancelled"}],
           UNCHANGED <<unkillable, execOwner, manager, sweep>>
    PROVE  ExecInv'
<1> USE DEF ExecInv, manager
<1>1. ExecTyped' /\ Onward
  BY DEF ExecTyped, Onward
<1>2. managerLock # c
  BY DEF LockHeld
<1>3. KeepsItsPart(c)
  BY <1>2 DEF KeepsItsPart
<1>4. KeepsTable(c)
  BY DEF KeepsTable, TableKnows, ExecTyped
<1>5. managerClosed => \A e \in Execs : process'[e] = "running" => process[e] = "running"
  OBVIOUS
<1> QED BY <1>1, <1>3, <1>4, <1>5, CallKeeps

LEMMA SpawnedKeeps ==
    ASSUME ExecInv, NEW c \in Callers, Spawned(c)
    PROVE  ExecInv'
<1> USE DEF ExecInv
<1>1. PICK e \in Execs :
          /\ process[e] = "none" /\ process' = [process EXCEPT ![e] = "running"]
          /\ readers' = [readers EXCEPT ![e] = "reading"]
          /\ execOwner' = [execOwner EXCEPT ![e] = call[c].owner]
          /\ unkillable' \in {unkillable, unkillable \cup {e}}
          /\ registered' = registered \cup {e}
          /\ call' = [call EXCEPT ![c].phase = "polling", ![c].exec = e]
  BY DEF Spawned
<1>2. call[c].phase = "spawning" /\ managerLock' = NoCaller /\ UNCHANGED <<managerClosed, sweep>>
  BY DEF Spawned
<1>3. managerLock = c /\ ~managerClosed
  BY <1>2 DEF LockHeld, NoneSpawns, CallsKnow
<1> DEFINE r == [call[c] EXCEPT !.phase = "polling", !.exec = e]
<1>4. r \in CallRecords /\ r.phase = "polling" /\ r.exec = e /\ call' = [call EXCEPT ![c] = r]
  BY <1>1, ZenonT(60) DEF ExecTyped, CallRecords, Phases
<1> HIDE DEF r
<1>5. /\ call' \in [Callers -> CallRecords]
      /\ call'[c] = r /\ \A d \in Callers \ {c} : call'[d] = call[d]
  BY <1>4, CallMoves
<1>6. call[c].owner \in Owners \cup {NoOwner}
  BY DEF ExecTyped, CallRecords
<1>7. ExecTyped'
  BY <1>1, <1>2, <1>5, <1>6 DEF ExecTyped
<1>8. Onward
  BY <1>1 DEF Onward, ExecTyped
<1>9. KeepsItsPart(c)
  BY <1>2, <1>4, <1>5, ExecAssumption DEF KeepsItsPart
<1>10. KeepsTable(c)
  BY <1>1, <1>2, <1>3 DEF KeepsTable, TableKnows, ExecTyped
<1> QED BY <1>1, <1>2, <1>3, <1>5, <1>7, <1>8, <1>9, <1>10, CallKeeps

\* A call that held the lock ends, with the table as it is.
LEMMA ReleaseKeeps ==
    ASSUME ExecInv, NEW c \in Callers, Ends(c), registered' = registered,
           managerLock' = IF managerLock = c THEN NoCaller ELSE managerLock,
           readers' \in [Execs -> {"none", "reading", "ended", "cancelled"}],
           UNCHANGED <<process, unkillable, execOwner, managerClosed, sweep>>
    PROVE  ExecInv'
<1> USE DEF ExecInv
<1>1. call' \in [Callers -> CallRecords] /\ call'[c] = NoCall
      /\ \A d \in Callers \ {c} : call'[d] = call[d]
  BY EndsMoves
<1>2. ExecTyped' /\ Onward
  BY <1>1 DEF ExecTyped, Onward
<1>3. KeepsItsPart(c)
  BY <1>1, ExecAssumption DEF KeepsItsPart, NoCall
<1>4. KeepsTable(c)
  BY DEF KeepsTable, TableKnows
<1> QED BY <1>1, <1>2, <1>3, <1>4, CallKeeps

LEMMA WaitsKeep ==
    ASSUME ExecInv, NEW c \in Callers,
           \/ SpawnFails(c) \/ WriteEnds(c) \/ KillEnds(c) \/ PollWaits(c) \/ ExpireEnds(c)
           \/ ReadRest(c) \/ Pop(c) \/ CancelCall(c) \/ \E k \in Owners : CallTool(c, k)
    PROVE  ExecInv'
<1> USE DEF ExecInv
<1> DEFINE e == call[c].exec
<1>0. ExecTyped /\ call[c] \in CallRecords
  BY DEF ExecTyped
<1>1. CASE SpawnFails(c)
  <2>1. managerLock = c
    BY <1>1 DEF SpawnFails, LockHeld
  <2> QED BY <1>1, <2>1, ReleaseKeeps DEF SpawnFails, processes, ExecTyped
<1>2. ASSUME call[c].phase \notin {"none", "cleaning", "spawning"}, Ends(c),
             UNCHANGED <<unkillable, execOwner, manager, sweep>>,
             process' \in [Execs -> {"none", "running", "killed", "dead"}],
             \A d \in Execs : process'[d] = process[d]
                              \/ (process[d] = "running" /\ process'[d] = "killed"),
             readers' \in [Execs -> {"none", "reading", "ended", "cancelled"}]
      PROVE  ExecInv'
  <2>1. call' \in [Callers -> CallRecords] /\ call'[c] = NoCall
        /\ \A d \in Callers \ {c} : call'[d] = call[d]
    BY <1>2, EndsMoves
  <2> QED BY <1>2, <2>1, GoingKeeps DEF NoCall
<1>3. ASSUME NEW p \in Phases \ {"none", "entering", "cleaning", "spawning"},
             call[c].phase \notin {"none", "entering", "cleaning", "spawning"}, Goes(c, p),
             p \in {"reading", "done", "leaked"} => process[e] = "dead",
             UNCHANGED <<process, unkillable, execOwner, manager, sweep>>,
             readers' \in [Execs -> {"none", "reading", "ended", "cancelled"}]
      PROVE  ExecInv'
  <2>1. /\ call' \in [Callers -> CallRecords]
        /\ call'[c] = [call[c] EXCEPT !.phase = p]
        /\ \A d \in Callers \ {c} : call'[d] = call[d]
    BY <1>3, GoesMoves
  <2>2. call'[c].phase = p /\ call'[c].exec = e
    BY <1>0, <2>1 DEF CallRecords
  <2>3. e \in Execs
    BY <1>3 DEF CallsKnow
  <2> QED BY <1>3, <2>1, <2>2, <2>3, GoingKeeps DEF ExecTyped
<1>4. CASE WriteEnds(c)
  BY <1>2, <1>3, <1>4 DEF WriteEnds, Phases, processes, manager, ExecTyped
<1>5. readers' = Unread({e}) => readers' \in [Execs -> {"none", "reading", "ended", "cancelled"}]
  BY UnreadType
<1>6. CASE KillEnds(c)
  BY <1>2, <1>3, <1>5, <1>6 DEF KillEnds, Phases, manager, ExecTyped
<1>7. CASE PollWaits(c)
  <2>1. CASE /\ process' = Signalled({e})
             /\ call' = [call EXCEPT ![c].phase = "expiring", ![c].failed = Refuses(e)]
    <3> DEFINE r == [call[c] EXCEPT !.phase = "expiring", !.failed = Refuses(e)]
    <3>1. r \in CallRecords /\ r.phase = "expiring" /\ r.exec = e /\ call' = [call EXCEPT ![c] = r]
      BY <1>0, <2>1 DEF CallRecords, Phases, Refuses
    <3> HIDE DEF r
    <3>2. /\ call' \in [Callers -> CallRecords]
          /\ call'[c] = r /\ \A d \in Callers \ {c} : call'[d] = call[d]
      BY <3>1, CallMoves
    <3>3. process' \in [Execs -> {"none", "running", "killed", "dead"}]
          /\ \A d \in Execs : process'[d] = process[d]
                            \/ (process[d] = "running" /\ process'[d] = "killed")
      BY <2>1, SignalledType, SignalledSteps
    <3>4. e \in Execs /\ call[c].phase = "polling"
      BY <1>7 DEF PollWaits, CallsKnow
    <3> QED BY <1>7, <3>1, <3>2, <3>3, <3>4, GoingKeeps DEF PollWaits, ExecTyped
  <2>2. CASE Ends(c) /\ UNCHANGED process
    BY <1>2, <1>7, <2>2 DEF PollWaits, ExecTyped
  <2>3. CASE process[e] = "dead" /\ Goes(c, "reading") /\ UNCHANGED process
    BY <1>3, <1>7, <2>3 DEF PollWaits, Phases, ExecTyped
  <2> QED BY <1>7, <2>1, <2>2, <2>3 DEF PollWaits
<1>8. CASE ExpireEnds(c)
  BY <1>2, <1>3, <1>5, <1>8 DEF ExpireEnds, Phases, manager, ExecTyped
<1>9. CASE ReadRest(c)
  <2>1. process[e] = "dead"
    BY <1>9 DEF ReadRest, CallsKnow
  <2> QED BY <1>3, <1>5, <1>9, <2>1 DEF ReadRest, Phases, ExecTyped
<1>10. CASE Pop(c)
  <2>1. call' \in [Callers -> CallRecords] /\ call'[c] = NoCall
        /\ \A d \in Callers \ {c} : call'[d] = call[d]
    BY <1>10, EndsMoves DEF Pop
  <2>2. process[e] = "dead" /\ e \in Execs
    BY <1>10 DEF Pop, CallsKnow
  <2>3. LeavesLock(c, registered \ {e})
    BY <1>10, <2>1, ExecAssumption DEF Pop, LeavesLock, KeepsItsPart, NoCall, ExecTyped, processes
  <2> QED BY <1>10, <2>2, <2>3, LeavingKeeps DEF Pop, processes, ExecTyped
<1>11. CASE CancelCall(c)
  <2>1. readers' \in [Execs -> {"none", "reading", "ended", "cancelled"}]
    BY <1>0, <1>5, <1>11, UnreadType DEF CancelCall, ExecTyped
  <2> QED BY <1>11, <2>1, ReleaseKeeps DEF CancelCall
<1>12. ASSUME NEW k \in Owners, CallTool(c, k) PROVE ExecInv'
  <2>1. PICK o \in Ops, d \in Execs \cup {0} :
           call' = [call EXCEPT ![c] = [NoCall EXCEPT !.phase = "entering", !.op = o,
                                                        !.owner = k, !.exec = d]]
    BY <1>12 DEF CallTool
  <2> DEFINE r == [NoCall EXCEPT !.phase = "entering", !.op = o, !.owner = k, !.exec = d]
  <2>2. r \in CallRecords /\ r.phase = "entering" /\ call' = [call EXCEPT ![c] = r]
    BY <2>1 DEF CallRecords, Phases, NoCall
  <2> HIDE DEF r
  <2>3. /\ call' \in [Callers -> CallRecords]
        /\ call'[c] = r /\ \A b \in Callers \ {c} : call'[b] = call[b]
    BY <2>2, CallMoves
  <2>4. call[c].phase = "none" /\ UNCHANGED <<processes, manager, sweep>>
    BY <1>12 DEF CallTool
  <2> QED BY <2>2, <2>3, <2>4, GoingKeeps DEF processes, ExecTyped
<1> QED BY <1>1, <1>4, <1>6, <1>7, <1>8, <1>9, <1>10, <1>11, <1>12

-----------------------------------------------------------------------------
(* Processes: the operating system, and sweeps *)

LEMMA EnvironmentKeeps ==
    ASSUME ExecInv, NEW e \in Execs, Dies(e) \/ PipesClose(e)
    PROVE  ExecInv'
<1> USE DEF ExecInv
<1>1. UNCHANGED <<unkillable, execOwner, registered, managerLock, managerClosed, call, sweep>>
  BY DEF Dies, PipesClose, manager
<1>2. /\ process' \in [Execs -> {"none", "running", "killed", "dead"}]
      /\ readers' \in [Execs -> {"none", "reading", "ended", "cancelled"}]
      /\ \A d \in Execs : \/ process'[d] = process[d]
                          \/ process[d] \in {"running", "killed"} /\ process'[d] = "dead"
  BY DEF Dies, PipesClose, ExecTyped
<1>3. ExecTyped'
  BY <1>1, <1>2 DEF ExecTyped
<1>4. LockHeld' /\ NoneSpawns'
  BY <1>1 DEF LockHeld, NoneSpawns
<1>5. CallsKnow'
  BY <1>1, <1>2 DEF CallsKnow, Gone
<1>6. SweepsKnow'
  BY <1>1, <1>2 DEF SweepsKnow, Gone, ExecTyped, SweepRecords
<1>7. TableKnows' /\ ProcessesAreKept' /\ ClosedForGood'
  BY <1>1, <1>2 DEF TableKnows, ProcessesAreKept, ClosedForGood, ExecTyped
<1> QED BY <1>3, <1>4, <1>5, <1>6, <1>7

LEMMA TakingKeeps ==
    ASSUME ExecInv, NEW w \in Sweepers, TakeVictims(w)
    PROVE  ExecInv'
<1> USE DEF ExecInv
<1> DEFINE S == {e \in registered : w = "all" \/ execOwner[e] = w}
           r == [phase |-> "killing", victims |-> S, failed |-> {e \in S : Refuses(e)}]
<1>1. /\ sweep[w].phase = "no" /\ managerLock = NoCaller
      /\ sweep' = [sweep EXCEPT ![w] = r]
      /\ registered' = registered \ S /\ process' = Signalled(S)
      /\ managerClosed' = (managerClosed \/ w = "all")
      /\ UNCHANGED <<unkillable, readers, execOwner, managerLock, call>>
  BY DEF TakeVictims
<1>2. S \subseteq registered /\ S \subseteq Execs /\ (w = "all" => S = registered)
  BY DEF ExecTyped
<1>3. r \in SweepRecords /\ r.victims = S /\ r.failed = {e \in S : Refuses(e)} /\ r.phase = "killing"
  BY <1>2 DEF SweepRecords
<1>4. process' \in [Execs -> {"none", "running", "killed", "dead"}]
  BY <1>1, SignalledType
<1>5. \A e \in Execs :
         /\ process'[e] = process[e] \/ (process[e] = "running" /\ process'[e] = "killed")
         /\ e \in S /\ ~Refuses(e) => process'[e] # "running"
  BY <1>1, SignalledSteps
<1> HIDE DEF S, r
<1>6. sweep'[w] = r /\ (\A v \in Sweepers \ {w} : sweep'[v] = sweep[v])
      /\ sweep' \in [Sweepers -> SweepRecords]
  BY <1>1, <1>3 DEF ExecTyped
<1>7. ExecTyped'
  BY <1>1, <1>2, <1>4, <1>6 DEF ExecTyped
<1>8. \A c \in Callers : call[c].phase \notin {"cleaning", "spawning"}
  BY <1>1, ExecAssumption DEF LockHeld
<1>9. LockHeld' /\ NoneSpawns'
  BY <1>1, <1>8, ExecAssumption DEF LockHeld, NoneSpawns
<1>10. CallsKnow'
  BY <1>1, <1>5, <1>8 DEF CallsKnow, Gone
<1>11. SweepsKnow'
  <2>1. \A e \in S : process'[e] # "none" /\ (e \notin r.failed => process'[e] \in {"killed", "dead"})
    BY <1>2, <1>3, <1>4, <1>5 DEF TableKnows, ExecTyped
  <2>2. r.failed \subseteq r.victims \cap unkillable
    BY <1>3 DEF Refuses
  <2>3. \A v \in Sweepers \ {w} : \A e \in sweep[v].victims : e \in Execs
    BY DEF ExecTyped, SweepRecords
  <2> QED BY <1>1, <1>3, <1>5, <1>6, <2>1, <2>2, <2>3 DEF SweepsKnow, Gone
<1>12. TableKnows'
  BY <1>1, <1>5 DEF TableKnows, ExecTyped
<1>13. ProcessesAreKept'
  <2> SUFFICES ASSUME NEW e \in Execs, process'[e] = "running"
               PROVE  e \in registered' \/ \E v \in Sweepers : e \in sweep'[v].victims
    BY DEF ProcessesAreKept
  <2>1. process[e] = "running"
    BY <1>5
  <2>2. CASE e \in registered
    BY <1>1, <1>3, <1>6, <2>2
  <2>3. ASSUME NEW v \in Sweepers, e \in sweep[v].victims
        PROVE  e \in registered' \/ \E u \in Sweepers : e \in sweep'[u].victims
    BY <1>1, <1>6, <2>3 DEF SweepsKnow
  <2> QED BY <2>1, <2>2, <2>3 DEF ProcessesAreKept
<1>14. ClosedForGood'
  <2> SUFFICES ASSUME managerClosed', NEW e \in Execs, process'[e] = "running"
               PROVE  e \in unkillable
    BY <1>1 DEF ClosedForGood
  <2>1. process[e] = "running" /\ (e \in S => Refuses(e))
    BY <1>5
  <2>2. CASE managerClosed
    BY <2>1, <2>2 DEF ClosedForGood
  <2>3. CASE w = "all"
    <3>1. CASE e \in registered
      BY <1>2, <2>1, <2>3, <3>1 DEF Refuses
    <3>2. CASE e \notin registered
      BY <2>1, <3>2 DEF ProcessesAreKept, SweepsKnow, Gone
    <3> QED BY <3>1, <3>2
  <2> QED BY <1>1, <2>2, <2>3
<1> QED BY <1>7, <1>9, <1>10, <1>11, <1>12, <1>13, <1>14

LEMMA SweepingKeeps ==
    ASSUME ExecInv, NEW w \in Sweepers, SweepEnds(w) \/ RestoreFailed(w)
    PROVE  ExecInv'
<1> USE DEF ExecInv
<1> DEFINE F == sweep[w].failed
<1>0. /\ F \subseteq Execs /\ F \subseteq sweep[w].victims /\ F \subseteq unkillable
      /\ NoSweep \in SweepRecords /\ NoSweep.phase = "no" /\ NoSweep.victims = {}
      /\ NoSweep.failed = {} /\ sweep[w] \in SweepRecords
      /\ \A e \in sweep[w].victims \ F : process[e] # "running"
      /\ \A e \in F : process[e] # "none"
  BY NoRecords DEF NoSweep, SweepsKnow, ExecTyped, SweepRecords, Gone
<1>1. /\ readers' \in [Execs -> {"none", "reading", "ended", "cancelled"}]
      /\ UNCHANGED <<process, unkillable, execOwner, managerLock, managerClosed, call>>
  BY UnreadType DEF SweepEnds, RestoreFailed, manager, processes, ExecTyped
<1>2. PICK r \in SweepRecords :
         /\ sweep' = [sweep EXCEPT ![w] = r] /\ r.failed \subseteq r.victims \cap unkillable
         /\ r.phase = "no" => r.victims = {}
         /\ \/ r.victims = sweep[w].victims /\ r.failed = F /\ registered' = registered
            \/ r = NoSweep /\ registered' = registered \cup F
            \/ r = NoSweep /\ registered' = registered /\ F = {}
  <2>1. CASE SweepEnds(w) /\ F # {}
    <3> DEFINE r == [sweep[w] EXCEPT !.phase = "restoring"]
    <3>1. r \in SweepRecords /\ r.phase = "restoring" /\ r.victims = sweep[w].victims /\ r.failed = F
      BY <1>0 DEF SweepRecords
    <3>2. sweep' = [sweep EXCEPT ![w] = r] /\ registered' = registered
      BY <2>1 DEF SweepEnds, Failures, manager
    <3> HIDE DEF r
    <3> QED BY <1>0, <3>1, <3>2
  <2>2. CASE SweepEnds(w) /\ F = {}
    BY <1>0, <2>2 DEF SweepEnds, Failures, manager
  <2>3. CASE RestoreFailed(w)
    BY <1>0, <2>3 DEF RestoreFailed, Failures
  <2> QED BY <2>1, <2>2, <2>3
<1>3. sweep'[w] = r /\ (\A v \in Sweepers \ {w} : sweep'[v] = sweep[v])
      /\ sweep' \in [Sweepers -> SweepRecords] /\ registered \subseteq registered'
      /\ \A e \in registered' : e \in registered \/ e \in F
  BY <1>2 DEF ExecTyped
<1>4. ExecTyped'
  BY <1>0, <1>1, <1>2, <1>3 DEF ExecTyped
<1>5. LockHeld' /\ NoneSpawns' /\ CallsKnow'
  BY <1>1, <1>3 DEF LockHeld, NoneSpawns, CallsKnow, Gone
<1>6. SweepsKnow'
  BY <1>0, <1>1, <1>2, <1>3 DEF SweepsKnow, Gone
<1>7. TableKnows'
  BY <1>0, <1>1, <1>3 DEF TableKnows
<1>8. ProcessesAreKept'
  <2> SUFFICES ASSUME NEW e \in Execs, process[e] = "running"
               PROVE  e \in registered' \/ \E v \in Sweepers : e \in sweep'[v].victims
    BY <1>1 DEF ProcessesAreKept
  <2>1. CASE e \in registered
    BY <1>3, <2>1
  <2>2. CASE e \in sweep[w].victims
    BY <1>0, <1>2, <1>3, <2>2
  <2> QED BY <1>3, <2>1, <2>2 DEF ProcessesAreKept
<1>9. ClosedForGood'
  BY <1>1 DEF ClosedForGood
<1> QED BY <1>4, <1>5, <1>6, <1>7, <1>8, <1>9

LEMMA ExecStep == ExecInv /\ [ExecNext]_execVars => ExecInv'
<1> SUFFICES ASSUME ExecInv, [ExecNext]_execVars PROVE ExecInv'
  OBVIOUS
<1>1. CASE UNCHANGED execVars
  BY <1>1 DEF execVars, processes, manager, ExecInv, ExecTyped, LockHeld, CallsKnow, SweepsKnow,
              TableKnows, ProcessesAreKept, ClosedForGood, NoneSpawns, Gone
<1>2. CASE ExecNext
  BY <1>2, EnvironmentKeeps, EnterKeeps, CleanupKeeps, SpawnedKeeps, WaitsKeep, TakingKeeps,
     SweepingKeeps DEF ExecNext
<1> QED BY <1>1, <1>2

LEMMA ExecInvariant == ExecSpec => []ExecInv
BY ExecStart, ExecStep, PTL DEF ExecSpec

-----------------------------------------------------------------------------
(* Processes: the limit *)

\* A step that puts nothing into the table.
LEMMA ShrinkingKeepsLimit ==
    ASSUME ExecInv, ExecLimit, registered' \subseteq registered, unkillable' = unkillable,
           \A w \in Sweepers : IsFiniteSet(sweep'[w].victims),
           \A c \in Callers : call'[c].phase = "spawning" =>
              \/ Cardinality(registered') < MaxExecs
              \/ call[c].phase = "spawning" /\ registered' = registered
    PROVE  ExecLimit'
<1>1. IsFiniteSet(registered') /\ IsFiniteSet(registered \ unkillable)
  BY FS_Subset DEF ExecLimit
<1>2. Cardinality(registered' \ unkillable') <= Cardinality(registered \ unkillable)
      /\ IsFiniteSet(registered' \ unkillable')
  BY <1>1, FS_Subset
<1>3. Cardinality(registered' \ unkillable') \in Nat /\ Cardinality(registered \ unkillable) \in Nat
      /\ MaxExecs \in Nat
  BY <1>1, <1>2, FS_CardinalityType, ExecAssumption
<1>4. Cardinality(registered' \ unkillable') <= MaxExecs
  BY <1>2, <1>3 DEF ExecLimit
<1> QED BY <1>1, <1>4 DEF ExecLimit

LEMMA CleanKeepsLimit ==
    ASSUME ExecInv, ExecLimit, NEW c \in Callers, Enter(c) \/ CleanupStep(c)
    PROVE  ExecLimit'
<1> USE DEF ExecInv
<1>1. UNCHANGED <<unkillable, sweep>>
  BY DEF Enter, CleanupStep
<1>2. c # NoCaller /\ call[c] \in CallRecords /\ ExecTyped
  BY ExecAssumption DEF ExecTyped
<1> DEFINE Goal(S) == /\ registered' = S /\ \A d \in Callers \ {c} : call'[d] = call[d]
                      /\ call'[c].phase = "spawning" => Cardinality(S) < MaxExecs
<1>3. ASSUME NEW S, Proceed(c, S) PROVE Goal(S)
  <2>1. registered' = S /\ \A d \in Callers \ {c} : call'[d] = call[d]
    BY <1>2, <1>3 DEF Proceed, Ends, Goes, ExecTyped
  <2>2. CASE Cardinality(S) < MaxExecs
    BY <2>1, <2>2
  <2>3. CASE ~(Cardinality(S) < MaxExecs)
    <3>1. \/ Ends(c) \/ Goes(c, "writing") \/ Goes(c, "polling")
          \/ \E b : call' = [call EXCEPT ![c].phase = "killing", ![c].failed = b]
      BY <1>3, <2>3 DEF Proceed
    <3>2. call'[c].phase # "spawning"
      BY <1>2, <3>1 DEF Ends, Goes, NoCall, ExecTyped, CallRecords
    <3> QED BY <2>1, <3>2
  <2> QED BY <2>2, <2>3
<1>4. ASSUME NEW S, NEW stale, CleanOrProceed(c, stale, S) PROVE Goal(S)
  <2>1. ASSUME NEW e \in stale, KillStale(c, e, stale \ {e}), registered' = S
        PROVE  Goal(S)
    <3>1. call'[c].phase = "cleaning" /\ \A d \in Callers \ {c} : call'[d] = call[d]
      BY <1>2, <2>1 DEF KillStale, ExecTyped, CallRecords
    <3> QED BY <2>1, <3>1
  <2> QED BY <1>3, <1>4, <2>1 DEF CleanOrProceed
<1>5. ASSUME Ends(c), registered' = registered PROVE Goal(registered)
  BY <1>2, <1>5 DEF Ends, NoCall, ExecTyped
<1> HIDE DEF Goal
<1>6. \E S \in SUBSET registered : Goal(S)
  <2>1. CASE Enter(c)
    BY <1>4, <1>5, <2>1 DEF Enter
  <2>2. CASE CleanupStep(c)
    BY <1>4, <1>5, <2>2 DEF CleanupStep
  <2> QED BY <2>1, <2>2
<1>7. managerLock \in {c, NoCaller}
  BY DEF Enter, CleanupStep, LockHeld
<1>8. \A d \in Callers \ {c} : call[d].phase # "spawning"
  BY <1>2, <1>7, ExecAssumption DEF LockHeld
<1> QED BY <1>1, <1>6, <1>8, ShrinkingKeepsLimit DEF Goal, ExecLimit

LEMMA SpawnKeepsLimit ==
    ASSUME ExecInv, ExecLimit, NEW c \in Callers, Spawned(c)
    PROVE  ExecLimit'
<1> USE DEF ExecInv
<1>1. PICK e \in Execs :
          /\ registered' = registered \cup {e}
          /\ call' = [call EXCEPT ![c].phase = "polling", ![c].exec = e]
  BY DEF Spawned
<1>2. /\ IsFiniteSet(registered) /\ IsFiniteSet(registered')
      /\ Cardinality(registered') <= Cardinality(registered) + 1
  <2>1. IsFiniteSet(registered) /\ Cardinality(registered) \in Nat
    BY FS_CardinalityType DEF ExecLimit
  <2>2. IsFiniteSet(registered \cup {e})
    BY <2>1, FS_AddElement
  <2>3. Cardinality(registered \cup {e})
           = IF e \in registered THEN Cardinality(registered) ELSE Cardinality(registered) + 1
    BY <2>1, FS_AddElement
  <2>4. Cardinality(registered \cup {e}) <= Cardinality(registered) + 1
    BY <2>1, <2>3
  <2> QED BY <1>1, <2>1, <2>2, <2>4
<1>3. Cardinality(registered) < MaxExecs
  BY DEF Spawned, ExecLimit
<1>4. IsFiniteSet(registered' \ unkillable')
      /\ Cardinality(registered' \ unkillable') <= Cardinality(registered')
  BY <1>2, FS_Subset
<1>5. Cardinality(registered' \ unkillable') <= MaxExecs
  BY <1>2, <1>3, <1>4, FS_CardinalityType, ExecAssumption
<1>6. \A d \in Callers : call'[d].phase # "spawning"
  <2>1. managerLock = c
    BY DEF Spawned, LockHeld
  <2>2. \A d \in Callers \ {c} : call'[d] = call[d]
    BY <1>1 DEF ExecTyped
  <2>3. call'[c].phase = "polling"
    BY <1>1 DEF ExecTyped, CallRecords
  <2> QED BY <2>1, <2>2, <2>3 DEF LockHeld
<1>7. UNCHANGED sweep
  BY DEF Spawned
<1> QED BY <1>2, <1>5, <1>6, <1>7 DEF ExecLimit

LEMMA RestoringKeepsLimit ==
    ASSUME ExecInv, ExecLimit, NEW w \in Sweepers, RestoreFailed(w)
    PROVE  ExecLimit'
<1> USE DEF ExecInv
<1> DEFINE F == sweep[w].failed
<1>1. /\ registered' = registered \cup F /\ sweep' = [sweep EXCEPT ![w] = NoSweep]
      /\ UNCHANGED <<unkillable, call>> /\ managerLock = NoCaller
  BY DEF RestoreFailed, Failures, processes
<1>2. F \subseteq sweep[w].victims /\ F \subseteq unkillable
  BY DEF SweepsKnow
<1>3. IsFiniteSet(registered')
  BY <1>1, <1>2, FS_Subset, FS_Union DEF ExecLimit
<1>4. registered' \ unkillable' = registered \ unkillable
  BY <1>1, <1>2
<1>5. \A v \in Sweepers : sweep'[v].victims \in {{}, sweep[v].victims}
  BY <1>1 DEF ExecTyped, NoSweep
<1>6. \A v \in Sweepers : IsFiniteSet(sweep'[v].victims)
  BY <1>5, FS_EmptySet DEF ExecLimit
<1>7. \A c \in Callers : call'[c].phase # "spawning"
  BY <1>1, ExecAssumption DEF LockHeld
<1> QED BY <1>3, <1>4, <1>6, <1>7 DEF ExecLimit

LEMMA RestKeepsLimit ==
    ASSUME ExecInv, ExecLimit,
           \/ \E e \in Execs : Dies(e) \/ PipesClose(e)
           \/ \E c \in Callers :
                \/ SpawnFails(c) \/ WriteEnds(c) \/ KillEnds(c) \/ PollWaits(c) \/ ExpireEnds(c)
                \/ ReadRest(c) \/ Pop(c) \/ CancelCall(c) \/ \E k \in Owners : CallTool(c, k)
           \/ \E w \in Sweepers : TakeVictims(w) \/ SweepEnds(w)
    PROVE  ExecLimit'
<1> USE DEF ExecInv
<1>1. unkillable' = unkillable
  BY ZenonT(60) DEF Dies, PipesClose, SpawnFails, WriteEnds, KillEnds, PollWaits, ExpireEnds, ReadRest, Pop,
         CancelCall, CallTool, TakeVictims, SweepEnds, processes
<1>2. registered' \subseteq registered
  BY ZenonT(60) DEF Dies, PipesClose, SpawnFails, WriteEnds, KillEnds, PollWaits, ExpireEnds, ReadRest, Pop,
         CancelCall, CallTool, TakeVictims, SweepEnds, manager
<1>3. \A w \in Sweepers : IsFiniteSet(sweep'[w].victims)
  <2>1. CASE UNCHANGED sweep
    BY <2>1 DEF ExecLimit
  <2>2. ASSUME NEW w \in Sweepers, TakeVictims(w)
        PROVE  \A v \in Sweepers : IsFiniteSet(sweep'[v].victims)
    <3>1. \A v \in Sweepers : \/ sweep'[v].victims = sweep[v].victims
                             \/ sweep'[v].victims \subseteq registered
      BY <2>2 DEF TakeVictims, ExecTyped
    <3> QED BY <3>1, FS_Subset DEF ExecLimit
  <2>3. ASSUME NEW w \in Sweepers, SweepEnds(w)
        PROVE  \A v \in Sweepers : IsFiniteSet(sweep'[v].victims)
    <3>1. \A v \in Sweepers : sweep'[v].victims \in {{}, sweep[v].victims}
      BY <2>3 DEF SweepEnds, ExecTyped, SweepRecords, NoSweep
    <3> QED BY <3>1, FS_EmptySet DEF ExecLimit
  <2> QED BY <2>1, <2>2, <2>3 DEF Dies, PipesClose, SpawnFails, WriteEnds, KillEnds, PollWaits,
             ExpireEnds, ReadRest, Pop, CancelCall, CallTool
<1>4. \A c \in Callers : call'[c].phase = "spawning" =>
         call[c].phase = "spawning" /\ registered' = registered
  <2>1. \A c \in Callers : call'[c].phase = "spawning" => call[c] = call'[c]
    <3>1. CASE UNCHANGED call
      BY <3>1
    <3>2. ASSUME NEW c \in Callers, NEW p \in Phases \ {"spawning"}, Goes(c, p)
          PROVE  \A d \in Callers : call'[d].phase = "spawning" => call[d] = call'[d]
      BY <3>2 DEF Goes, ExecTyped, CallRecords
    <3>3. ASSUME NEW c \in Callers, Ends(c)
          PROVE  \A d \in Callers : call'[d].phase = "spawning" => call[d] = call'[d]
      BY <3>3 DEF Ends, NoCall, ExecTyped
    <3>4. ASSUME NEW c \in Callers, NEW b,
                 call' = [call EXCEPT ![c].phase = "expiring", ![c].failed = b]
          PROVE  \A d \in Callers : call'[d].phase = "spawning" => call[d] = call'[d]
      BY <3>4 DEF ExecTyped, CallRecords
    <3>5. ASSUME NEW c \in Callers, NEW k \in Owners, CallTool(c, k)
          PROVE  \A d \in Callers : call'[d].phase = "spawning" => call[d] = call'[d]
      BY <3>5 DEF CallTool, NoCall, ExecTyped
    <3>6. {"polling", "reading", "done", "leaked"} \subseteq Phases \ {"spawning"}
      BY DEF Phases
    <3>7. ASSUME NEW c \in Callers,
                 \/ SpawnFails(c) \/ WriteEnds(c) \/ KillEnds(c) \/ PollWaits(c) \/ ExpireEnds(c)
                 \/ ReadRest(c) \/ Pop(c) \/ CancelCall(c)
          PROVE  \/ Ends(c) \/ \E p \in Phases \ {"spawning"} : Goes(c, p)
                 \/ \E b : call' = [call EXCEPT ![c].phase = "expiring", ![c].failed = b]
      BY <3>6, <3>7 DEF SpawnFails, WriteEnds, KillEnds, PollWaits, ExpireEnds, ReadRest, Pop, CancelCall
    <3>8. ASSUME \/ \E e \in Execs : Dies(e) \/ PipesClose(e)
                 \/ \E w \in Sweepers : TakeVictims(w) \/ SweepEnds(w)
          PROVE  UNCHANGED call
      BY <3>8 DEF Dies, PipesClose, TakeVictims, SweepEnds
    <3> QED BY <3>1, <3>2, <3>3, <3>4, <3>5, <3>7, <3>8
  <2>2. registered' # registered => managerLock = NoCaller
    BY DEF Dies, PipesClose, SpawnFails, WriteEnds, KillEnds, PollWaits, ExpireEnds, ReadRest, Pop,
           CancelCall, CallTool, TakeVictims, SweepEnds, manager
  <2> QED BY <2>1, <2>2, ExecAssumption DEF LockHeld
<1> QED BY <1>1, <1>2, <1>3, <1>4, ShrinkingKeepsLimit

LEMMA LimitStep == ExecInv /\ ExecLimit /\ [ExecNext]_execVars => ExecLimit'
<1> SUFFICES ASSUME ExecInv, ExecLimit, [ExecNext]_execVars PROVE ExecLimit'
  OBVIOUS
<1>1. CASE UNCHANGED execVars
  BY <1>1 DEF execVars, processes, manager, ExecLimit
<1>2. CASE ExecNext
  BY <1>2, CleanKeepsLimit, SpawnKeepsLimit, RestoringKeepsLimit, RestKeepsLimit DEF ExecNext
<1> QED BY <1>1, <1>2

LEMMA LimitStart == ExecInit => ExecLimit
<1> SUFFICES ASSUME ExecInit PROVE ExecLimit
  OBVIOUS
<1>1. registered = {} /\ registered \ unkillable = {}
  BY DEF ExecInit
<1>2. \A w \in Sweepers : sweep[w].victims = {}
  BY DEF ExecInit, NoSweep
<1>3. \A c \in Callers : call[c].phase = "none"
  BY DEF ExecInit, NoCall
<1> QED BY <1>1, <1>2, <1>3, FS_EmptySet, ExecAssumption DEF ExecLimit

-----------------------------------------------------------------------------
(* Processes: the theorems *)

LEMMA ExecTypes == ExecInv /\ ExecLimit => ExecTypeOK
  BY DEF ExecInv, ExecLimit, ExecTyped, ExecTypeOK, CallRecords, SweepRecords

\* Every variable of the table of processes keeps its type, and the table its limit,
\* but for what sweeps put back.
THEOREM ExecTypeCorrect == ExecSpec => []ExecTypeOK
  BY ExecTypes, ExecStart, ExecStep, LimitStart, LimitStep, PTL DEF ExecSpec

\* A process that runs is in the table, or a sweep holds it, whatever is cancelled
\* and whichever kills raise (_cleanup_locked, terminate_by_owner, close_all).
THEOREM ProcessesStayKnown == ExecSpec => []ProcessesAreKept
<1>1. ExecInv => ProcessesAreKept
  BY DEF ExecInv
<1> QED BY <1>1, ExecInvariant, PTL

\* When close_all() has begun, no process runs that a signal could have ended.
THEOREM ShutdownIsFinal == ExecSpec => []ClosedForGood
<1>1. ExecInv => ClosedForGood
  BY DEF ExecInv
<1> QED BY <1>1, ExecInvariant, PTL

-----------------------------------------------------------------------------
(* Connections: the inductive invariant *)

Configs == [Servers -> Versions \cup {0}]
ConnRecords == [server : Servers, version : Versions,
                state : {"opening", "open", "lost", "closed", "failed", "leaked"}]
OpRecords ==
    [phase : {"none", "closing", "opening"}, next : Configs, only : SUBSET Servers,
     close : SUBSET Servers, todo : SUBSET Servers, tried : SUBSET Servers,
     batch : [Servers -> {0} \cup Ids], opening : {0} \cup Ids]

\* McpTypeOK, and the type of the operation under the lock.
McpTyped ==
    /\ servers \in Configs /\ conns \in Seq(ConnRecords)
    /\ connections \in [Servers -> {0} \cup Ids] /\ tools \in [Servers -> {0} \cup Ids]
    /\ op \in OpRecords /\ closing \in {"no", "asked", "done"}

\* Only an operation that opens has a batch; a provider that was closed has none.
OpHolds ==
    /\ op.phase = "none" => op = NoOp
    /\ op.phase # "opening" => op.batch = Nowhere /\ op.opening = 0 /\ op.tried = {}
    /\ closing = "done" => op = NoOp

\* The provider's connections are those of their servers and their configuration,
\* and the registry's tools use them.
ConnectionsServe ==
    \A s \in Servers : connections[s] # 0 =>
        /\ conns[connections[s]].server = s /\ conns[connections[s]].version = servers[s]
        /\ conns[connections[s]].state \in {"open", "lost"} /\ tools[s] = connections[s]

\* So are those of the batch, each of a server that had no connection and is tried once.
BatchServes ==
    \A s \in Servers : op.batch[s] # 0 =>
        /\ conns[op.batch[s]].server = s /\ conns[op.batch[s]].version = servers[s]
        /\ conns[op.batch[s]].state \in {"open", "lost"} /\ tools[s] = op.batch[s]
        /\ s \in op.tried
OpeningServes ==
    op.opening # 0 =>
        LET c == conns[op.opening] IN
        /\ c.state = "opening" /\ c.server \in op.tried /\ c.version = servers[c.server]
        /\ op.batch[c.server] = 0
OpensMissing ==
    op.phase = "opening" =>
        /\ op.todo \cap op.tried = {}
        /\ \A s \in op.todo \cup op.tried : connections[s] = 0 /\ servers[s] # 0

\* What a reload keeps has the same configuration as before.
ClosesOutdated ==
    op.phase = "closing" =>
        \A s \in Servers : connections[s] # 0 => s \in op.close \/ op.next[s] = servers[s]

\* Tools of no connection are those of a leaked one, or what was registered for a
\* batch that closing the provider turned away.
ToolsServe ==
    \A s \in Servers : tools[s] \notin {0, connections[s], op.batch[s]} =>
        \/ conns[tools[s]].state = "leaked"
        \/ closing = "asked" /\ op = NoOp /\ servers[s] # 0

\* The inductive invariant.
McpInv ==
    /\ McpTyped /\ OpHolds /\ ConnectionsServe /\ BatchServes /\ OpeningServes
    /\ OpensMissing /\ ClosesOutdated /\ ToolsServe /\ ConnectionsAreOwned

LEMMA McpStart == McpInit => McpInv
<1> SUFFICES ASSUME McpInit PROVE McpInv
  OBVIOUS
<1>1. Len(conns) = 0 /\ conns \in Seq(ConnRecords) /\ op = NoOp /\ closing = "no"
      /\ \A s \in Servers : connections[s] = 0 /\ tools[s] = 0 /\ Nowhere[s] = 0
  BY DEF McpInit, Nowhere
<1>2. /\ op.phase = "none" /\ op.batch = Nowhere /\ op.opening = 0 /\ op.tried = {}
      /\ op.todo = {} /\ op.close = {}
  BY <1>1 DEF NoOp
<1>3. op \in OpRecords
  BY <1>1 DEF NoOp, Nowhere, OpRecords, Configs
<1>4. McpTyped
  BY <1>1, <1>3 DEF McpInit, McpTyped, Nowhere, Configs
<1>5. Ids = {}
  BY <1>1 DEF Ids
<1> QED BY <1>1, <1>2, <1>4, <1>5 DEF McpInv, OpHolds, ConnectionsServe, BatchServes, OpeningServes,
           OpensMissing, ClosesOutdated, ToolsServe, ConnectionsAreOwned

-----------------------------------------------------------------------------
(* Connections: every step *)

\* Connections change their state only.
ConnsMove(S, st) ==
    /\ conns' \in Seq(ConnRecords) /\ Ids' = Ids
    /\ \A k \in Ids : /\ conns'[k].server = conns[k].server
                      /\ conns'[k].version = conns[k].version
                      /\ conns'[k].state = IF k \in S THEN st ELSE conns[k].state

LEMMA BecomeMoves ==
    ASSUME McpTyped, NEW S, NEW st \in {"opening", "open", "lost", "closed", "failed", "leaked"},
           conns' = Become(st, S)
    PROVE  ConnsMove(S, st)
<1>1. \A i \in Ids : conns[i] \in ConnRecords /\ Len(conns) \in Nat
  BY DEF McpTyped, Ids
<1>2. \A i \in Ids : conns'[i] = IF i \in S THEN [conns[i] EXCEPT !.state = st] ELSE conns[i]
  BY DEF Become
<1>3. \A i \in Ids : conns'[i] \in ConnRecords
  BY <1>1, <1>2 DEF ConnRecords
<1>4. conns' = [i \in 1 .. Len(conns) |-> conns'[i]] /\ DOMAIN conns' = 1 .. Len(conns)
  BY DEF Become, Ids
<1>5. conns' \in [1 .. Len(conns) -> ConnRecords]
  BY <1>3, <1>4 DEF Ids
<1>6. conns' \in Seq(ConnRecords)
  BY <1>1, <1>5, SeqDef DEF Ids, McpTyped
<1>7. Len(conns') = Len(conns)
  BY <1>4, <1>6 DEF McpTyped
<1>8. \A i \in Ids : /\ conns'[i].server = conns[i].server
                    /\ conns'[i].version = conns[i].version
                    /\ conns'[i].state = IF i \in S THEN st ELSE conns[i].state
  BY <1>1, <1>2 DEF ConnRecords
<1> QED BY <1>6, <1>7, <1>8 DEF Ids, ConnsMove

LEMMA TerminatesKeeps ==
    ASSUME McpInv, NEW i \in Ids, Terminates(i)
    PROVE  McpInv'
<1> USE DEF McpInv
<1>1. /\ conns[i].state = "open" /\ conns' = [conns EXCEPT ![i].state = "lost"]
      /\ UNCHANGED <<servers, connections, tools, op, closing>>
  BY DEF Terminates
<1>2. conns[i] \in ConnRecords /\ [conns[i] EXCEPT !.state = "lost"] \in ConnRecords
  <2>1. conns[i] \in ConnRecords
    BY DEF McpTyped, Ids
  <2> QED BY <2>1 DEF ConnRecords
<1>3. conns' \in Seq(ConnRecords) /\ Ids' = Ids
      /\ \A k \in Ids : /\ conns'[k].server = conns[k].server
                        /\ conns'[k].version = conns[k].version
                        /\ conns'[k].state = IF k = i THEN "lost" ELSE conns[k].state
  BY <1>1, <1>2 DEF McpTyped, Ids, ConnRecords
<1>4. McpTyped'
  BY <1>1, <1>3 DEF McpTyped, OpRecords
<1>5. OpHolds' /\ OpensMissing' /\ ClosesOutdated'
  BY <1>1 DEF OpHolds, OpensMissing, ClosesOutdated, NoOp, Nowhere
<1>6. /\ \A s \in Servers : connections[s] \in {0} \cup Ids /\ tools[s] \in {0} \cup Ids
                            /\ op.batch[s] \in {0} \cup Ids
      /\ op.opening \in {0} \cup Ids
  BY DEF McpTyped, OpRecords
<1>7. ConnectionsServe' /\ BatchServes'
  BY <1>1, <1>3, <1>6 DEF ConnectionsServe, BatchServes
<1>8. OpeningServes'
  BY <1>1, <1>3, <1>6 DEF OpeningServes
<1>9. ToolsServe'
  BY <1>1, <1>3, <1>6 DEF ToolsServe, NoOp, Nowhere
<1>10. ConnectionsAreOwned'
  BY <1>1, <1>3 DEF ConnectionsAreOwned, StillOpen, InBatch
<1> QED BY <1>4, <1>5, <1>7, <1>8, <1>9, <1>10

\* What each server and the operation refer to.
LEMMA McpValues ==
    ASSUME McpTyped
    PROVE  /\ \A s \in Servers : /\ connections[s] \in {0} \cup Ids /\ tools[s] \in {0} \cup Ids
                                 /\ op.batch[s] \in {0} \cup Ids /\ Nowhere[s] = 0
           /\ op.opening \in {0} \cup Ids /\ 0 \notin Ids
           /\ \A i \in Ids : conns[i] \in ConnRecords
  BY DEF McpTyped, OpRecords, Nowhere, Ids

\* Only an operation that opens has tried a server, and that server has no connection.
LEMMA TriedHasNone ==
    ASSUME McpInv, NEW s \in op.tried
    PROVE  op.phase = "opening" /\ s \in Servers /\ connections[s] = 0 /\ servers[s] # 0
<1>1. op.phase = "opening" /\ s \in op.tried \cup op.todo
  BY DEF McpInv, OpHolds
<1>2. s \in Servers
  BY DEF McpInv, McpTyped, OpRecords
<1> QED BY <1>1, <1>2 DEF McpInv, OpensMissing

\* An operation takes the lock, or passes on from closing to opening.
LEMMA OpMovesKeeps ==
    ASSUME McpInv, UNCHANGED <<conns, connections, tools, closing>>,
           op.batch = Nowhere, op.opening = 0, op # NoOp \/ closing = "no",
           servers' \in Configs, \A s \in Servers : connections[s] # 0 => servers'[s] = servers[s],
           op' \in OpRecords, op'.batch = Nowhere, op'.opening = 0, op'.tried = {},
           op'.phase = "none" => op' = NoOp, closing # "done",
           OpensMissing', ClosesOutdated'
    PROVE  McpInv'
<1> USE DEF McpInv
<1>1. McpTyped'
  BY DEF McpTyped, OpRecords, Ids
<1>2. OpHolds'
  BY DEF OpHolds
<1>3. ConnectionsServe'
  BY DEF ConnectionsServe
<1>4. BatchServes' /\ OpeningServes'
  BY DEF BatchServes, OpeningServes, Nowhere
<1>5. ToolsServe'
  BY DEF ToolsServe, Nowhere
<1>6. InBatch' = InBatch /\ Ids' = Ids /\ \A i : StillOpen(i)' <=> StillOpen(i)
  BY DEF InBatch, Ids, StillOpen
<1>7. ConnectionsAreOwned'
  BY <1>6 DEF ConnectionsAreOwned
<1> QED BY <1>1, <1>2, <1>3, <1>4, <1>5, <1>7

\* An operation as it begins.
ToOpen(todo) == [NoOp EXCEPT !.phase = "opening", !.todo = todo]
ToClose(next, only, close) ==
    [NoOp EXCEPT !.phase = "closing", !.next = next, !.only = only, !.close = close]

LEMMA ToOpenBegins ==
    ASSUME NEW todo \in SUBSET Servers
    PROVE  LET r == ToOpen(todo) IN
           /\ r \in OpRecords /\ r.phase = "opening" /\ r.todo = todo /\ r.tried = {}
           /\ r.batch = Nowhere /\ r.opening = 0
  BY DEF ToOpen, NoOp, OpRecords, Nowhere, Configs

LEMMA ToCloseBegins ==
    ASSUME NEW next \in Configs, NEW only \in SUBSET Servers, NEW close \in SUBSET Servers
    PROVE  LET r == ToClose(next, only, close) IN
           /\ r \in OpRecords /\ r.phase = "closing" /\ r.next = next /\ r.close = close
           /\ r.tried = {} /\ r.batch = Nowhere /\ r.opening = 0
  BY DEF ToClose, NoOp, OpRecords, Nowhere, Configs

LEMMA NoOpIsIdle ==
    /\ NoOp \in OpRecords /\ NoOp.phase = "none" /\ NoOp.batch = Nowhere /\ NoOp.opening = 0
    /\ NoOp.tried = {} /\ \A s \in Servers : Nowhere[s] = 0
  BY DEF NoOp, OpRecords, Nowhere, Configs

LEMMA ConnectKeeps == ASSUME McpInv, Connect PROVE McpInv'
<1>1. PICK missing \in SUBSET Servers :
         /\ missing = {s \in Servers : servers[s] # 0 /\ connections[s] = 0}
         /\ op' = ToOpen(missing)
  BY DEF Connect, ToOpen
<1>2. op = NoOp /\ closing = "no" /\ UNCHANGED <<servers, conns, connections, tools, closing>>
  BY DEF Connect
<1>3. /\ op' \in OpRecords /\ op'.phase = "opening" /\ op'.todo = missing /\ op'.tried = {}
      /\ op'.batch = Nowhere /\ op'.opening = 0
  BY <1>1, ToOpenBegins
<1>4. OpensMissing' /\ ClosesOutdated'
  BY <1>1, <1>2, <1>3 DEF OpensMissing, ClosesOutdated
<1>5. servers \in Configs
  BY DEF McpInv, McpTyped
<1> QED BY <1>2, <1>3, <1>4, <1>5, NoOpIsIdle, OpMovesKeeps

\* A reload or a refresh, with what it will close.
LEMMA ClosingStarts ==
    ASSUME McpInv, op = NoOp, closing = "no", NEW next \in Configs, NEW only \in SUBSET Servers,
           NEW close \in SUBSET Servers,
           \A s \in Servers : connections[s] # 0 => s \in close \/ next[s] = servers[s],
           op' = ToClose(next, only, close),
           UNCHANGED <<servers, conns, connections, tools, closing>>
    PROVE  McpInv'
<1>1. /\ op' \in OpRecords /\ op'.phase = "closing" /\ op'.next = next /\ op'.close = close
      /\ op'.tried = {} /\ op'.batch = Nowhere /\ op'.opening = 0
  BY ToCloseBegins
<1>2. OpensMissing' /\ ClosesOutdated'
  BY <1>1 DEF OpensMissing, ClosesOutdated
<1>3. servers \in Configs
  BY DEF McpInv, McpTyped
<1> QED BY <1>1, <1>2, <1>3, NoOpIsIdle, OpMovesKeeps

LEMMA ReloadKeeps == ASSUME McpInv, Reload PROVE McpInv'
<1>1. PICK next \in Configs : op' = ToClose(next, Servers, Outdated(next))
  BY DEF Reload, Configs, ToClose
<1>2. \A s \in Servers : connections[s] # 0 => servers[s] # 0
  BY McpValues, McpAssumption DEF McpInv, ConnectionsServe, ConnRecords
<1>3. Outdated(next) \in SUBSET Servers
      /\ \A s \in Servers : connections[s] # 0 => s \in Outdated(next) \/ next[s] = servers[s]
  BY <1>2 DEF Outdated
<1>4. op = NoOp /\ closing = "no" /\ UNCHANGED <<servers, conns, connections, tools, closing>>
  BY DEF Reload
<1> QED BY <1>1, <1>3, <1>4, ClosingStarts

LEMMA RefreshKeeps == ASSUME McpInv, NEW i \in Ids, Refresh(i) PROVE McpInv'
<1>1. conns[i].server \in Servers /\ servers \in Configs
  BY McpValues DEF McpInv, McpTyped, ConnRecords
<1>2. op' = ToClose(servers, {conns[i].server}, {conns[i].server})
  BY DEF Refresh, ToClose
<1>3. op = NoOp /\ closing = "no" /\ UNCHANGED <<servers, conns, connections, tools, closing>>
  BY DEF Refresh
<1> QED BY <1>1, <1>2, <1>3, ClosingStarts

LEMMA TakeOverKeeps == ASSUME McpInv, TakeOver PROVE McpInv'
<1>1. op.next \in Configs /\ op.only \in SUBSET Servers
  BY DEF McpInv, McpTyped, OpRecords
<1>2. PICK missing \in SUBSET Servers :
         /\ missing = {s \in op.only : op.next[s] # 0 /\ connections[s] = 0}
         /\ op' = NoOp \/ op' = ToOpen(missing)
  BY <1>1 DEF TakeOver, ToOpen
<1>3. /\ op.phase = "closing" /\ op.close = {} /\ servers' = op.next
      /\ UNCHANGED <<conns, connections, tools, closing>>
  BY DEF TakeOver
<1>4. op.batch = Nowhere /\ op.opening = 0 /\ op # NoOp /\ closing # "done"
  BY <1>3, NoOpIsIdle DEF McpInv, OpHolds
<1>5. \A s \in Servers : connections[s] # 0 => servers'[s] = servers[s]
  BY <1>3 DEF McpInv, ClosesOutdated
<1>6. /\ op' \in OpRecords /\ op'.tried = {} /\ op'.batch = Nowhere /\ op'.opening = 0
      /\ op'.phase = "none" => op' = NoOp
      /\ op'.phase \in {"none", "opening"} /\ (op'.phase = "opening" => op'.todo = missing)
  BY <1>2, NoOpIsIdle, ToOpenBegins
<1>7. OpensMissing' /\ ClosesOutdated'
  BY <1>2, <1>3, <1>6 DEF OpensMissing, ClosesOutdated
<1> QED BY <1>1, <1>3, <1>4, <1>5, <1>6, <1>7, OpMovesKeeps

\* Connections of different servers differ, and none is in the batch or being opened.
LEMMA ConnectionsDiffer ==
    ASSUME McpInv
    PROVE  /\ \A s, r \in Servers : connections[r] # 0 /\ connections[r] = connections[s] => r = s
           /\ \A s, r \in Servers : op.batch[r] # 0 /\ op.batch[r] = op.batch[s] => r = s
           /\ \A s, r \in Servers : connections[r] # 0 => connections[r] # op.batch[s]
           /\ \A r \in Servers : connections[r] # 0 => connections[r] # op.opening
           /\ \A r \in Servers : op.batch[r] # 0 => op.batch[r] # op.opening
<1>1. \A s, r \in Servers : connections[r] # 0 => connections[r] # op.batch[s]
  <2> SUFFICES ASSUME NEW s \in Servers, NEW r \in Servers, connections[r] # 0,
                      connections[r] = op.batch[s]
               PROVE  FALSE
    OBVIOUS
  <2>1. r = s /\ s \in op.tried
    BY DEF McpInv, ConnectionsServe, BatchServes
  <2> QED BY <2>1, TriedHasNone
<1> QED BY <1>1 DEF McpInv, ConnectionsServe, BatchServes, OpeningServes

LEMMA CloseServerKeeps == ASSUME McpInv, NEW s \in Servers, CloseServer(s) PROVE McpInv'
<1> DEFINE old == connections[s]
<1>1. /\ op.phase = "closing" /\ s \in op.close /\ tools' = Unregistered({s})
      /\ connections' = [connections EXCEPT ![s] = 0] /\ conns' = Become("closed", {old})
      /\ op' = [op EXCEPT !.close = op.close \ {s}] /\ UNCHANGED <<servers, closing>>
  BY DEF CloseServer
<1>2. op.batch = Nowhere /\ op.opening = 0 /\ op.tried = {} /\ op # NoOp /\ closing # "done"
  BY <1>1, NoOpIsIdle DEF McpInv, OpHolds
<1>3. /\ op' \in OpRecords /\ op'.phase = "closing" /\ op'.close = op.close \ {s}
      /\ op'.next = op.next /\ op'.batch = Nowhere /\ op'.opening = 0 /\ op'.tried = {}
  BY <1>1, <1>2 DEF McpInv, McpTyped, OpRecords
<1>4. /\ conns' \in Seq(ConnRecords) /\ Ids' = Ids
      /\ \A i \in Ids : /\ conns'[i].server = conns[i].server
                        /\ conns'[i].version = conns[i].version
                        /\ conns'[i].state = IF i = old THEN "closed" ELSE conns[i].state
  <2> DEFINE gone == {old}
  <2>1. McpTyped /\ conns' = Become("closed", gone)
    BY <1>1 DEF McpInv
  <2> HIDE DEF gone
  <2>2. /\ conns' \in Seq(ConnRecords) /\ Ids' = Ids
        /\ \A i \in Ids : /\ conns'[i].server = conns[i].server
                          /\ conns'[i].version = conns[i].version
                          /\ conns'[i].state = IF i \in gone THEN "closed" ELSE conns[i].state
    BY <2>1, BecomeMoves DEF ConnsMove
  <2> QED BY <2>2 DEF gone
<1>5. \A r \in Servers : /\ connections'[r] = IF r = s THEN 0 ELSE connections[r]
                         /\ tools'[r] = IF r = s THEN 0 ELSE tools[r]
                         /\ connections[r] \in {0} \cup Ids /\ tools[r] \in {0} \cup Ids
  BY <1>1, McpValues DEF McpInv, McpTyped, Unregistered
<1>6. McpTyped'
  BY <1>1, <1>3, <1>4, <1>5 DEF McpInv, McpTyped, Unregistered, OpRecords
<1>7. OpHolds' /\ BatchServes' /\ OpeningServes' /\ OpensMissing'
  BY <1>1, <1>2, <1>3, NoOpIsIdle DEF OpHolds, BatchServes, OpeningServes, OpensMissing
<1>8. ConnectionsServe'
  <2> SUFFICES ASSUME NEW r \in Servers, connections'[r] # 0
               PROVE  LET k == connections'[r] IN
                      /\ conns'[k].server = r /\ conns'[k].version = servers'[r]
                      /\ conns'[k].state \in {"open", "lost"} /\ tools'[r] = k
    BY DEF ConnectionsServe
  <2>1. r # s /\ connections'[r] = connections[r] /\ connections[r] \in Ids
        /\ tools'[r] = tools[r] /\ servers'[r] = servers[r]
    BY <1>1, <1>5
  <2>2. connections[r] # old
    BY <2>1, ConnectionsDiffer
  <2> QED BY <1>4, <2>1, <2>2 DEF McpInv, ConnectionsServe
<1>9. ClosesOutdated'
  BY <1>1, <1>3, <1>5 DEF McpInv, ClosesOutdated
<1>10. ToolsServe'
  <2> SUFFICES ASSUME NEW r \in Servers, tools'[r] \notin {0, connections'[r]}
               PROVE  conns'[tools'[r]].state = "leaked"
    BY DEF ToolsServe
  <2>1. r # s /\ tools'[r] = tools[r] /\ tools[r] \notin {0, connections[r]} /\ tools[r] \in Ids
    BY <1>5
  <2>2. conns[tools[r]].state = "leaked"
    BY <1>2, <2>1, NoOpIsIdle DEF McpInv, ToolsServe
  <2>3. tools[r] # old
    BY <2>1, <2>2, <1>5 DEF McpInv, ConnectionsServe
  <2> QED BY <1>4, <2>1, <2>2, <2>3
<1>11. ConnectionsAreOwned'
  <2> SUFFICES ASSUME NEW i \in Ids, StillOpen(i)'
               PROVE  i = connections'[conns'[i].server] /\ closing' # "done"
    BY <1>4 DEF ConnectionsAreOwned
  <2>1. StillOpen(i) /\ i # old /\ i # 0
    BY <1>4 DEF StillOpen, Ids
  <2>2. i \in {connections[conns[i].server], 0} /\ conns[i].server \in Servers
    BY <1>2, <2>1, McpValues DEF McpInv, ConnectionsAreOwned, InBatch, ConnRecords, Nowhere
  <2> QED BY <1>1, <1>2, <1>4, <1>5, <2>1, <2>2
<1> QED BY <1>6, <1>7, <1>8, <1>9, <1>10, <1>11 DEF McpInv

LEMMA OpenServerKeeps == ASSUME McpInv, NEW s \in Servers, OpenServer(s) PROVE McpInv'
<1> DEFINE new == Len(conns) + 1
           c == [server |-> s, version |-> servers[s], state |-> "opening"]
<1>1. /\ op.phase = "opening" /\ op.opening = 0 /\ s \in op.todo
      /\ conns' = Append(conns, c) /\ UNCHANGED <<servers, connections, tools, closing>>
  BY DEF OpenServer
<1>2. s \notin op.tried /\ connections[s] = 0 /\ servers[s] # 0 /\ op.batch[s] = 0
  BY <1>1 DEF McpInv, OpensMissing, BatchServes
<1>3. c \in ConnRecords
  BY <1>2 DEF McpInv, McpTyped, Configs, ConnRecords
<1>4. conns \in Seq(ConnRecords) /\ Len(conns) \in Nat
  BY DEF McpInv, McpTyped
<1>5. /\ conns' \in Seq(ConnRecords) /\ Len(conns') = new /\ conns'[new] = c
      /\ \A i \in Ids : conns'[i] = conns[i]
  BY <1>1, <1>3, <1>4, AppendProperties DEF Ids
<1>6. Ids' = Ids \cup {new} /\ new \notin Ids
  BY <1>4, <1>5 DEF Ids
<1> HIDE DEF new, c
<1>7. /\ op' \in OpRecords' /\ op'.phase = "opening" /\ op'.opening = new
      /\ op'.todo = op.todo \ {s} /\ op'.tried = op.tried \cup {s} /\ op'.batch = op.batch
  <2>1. op' = [op EXCEPT !.opening = new, !.todo = op.todo \ {s}, !.tried = op.tried \cup {s}]
    BY <1>5 DEF OpenServer
  <2>2. op \in OpRecords' /\ new \in Ids'
    BY <1>6 DEF McpInv, McpTyped, OpRecords
  <2> QED BY <1>1, <2>1, <2>2 DEF OpRecords
<1>8. McpTyped'
  BY <1>1, <1>5, <1>6, <1>7 DEF McpInv, McpTyped
<1>9. OpHolds' /\ ClosesOutdated'
  BY <1>1, <1>7, NoOpIsIdle DEF McpInv, OpHolds, ClosesOutdated
<1>10. ConnectionsServe'
  <2>1. \A r \in Servers : connections[r] # 0 => conns'[connections[r]] = conns[connections[r]]
    BY <1>5, McpValues DEF McpInv
  <2> QED BY <1>1, <2>1 DEF McpInv, ConnectionsServe
<1>11. BatchServes'
  <2>1. \A r \in Servers : op.batch[r] # 0 => conns'[op.batch[r]] = conns[op.batch[r]]
    BY <1>5, McpValues DEF McpInv
  <2>2. op'.batch = op.batch /\ op.tried \subseteq op'.tried
    BY <1>7
  <2>3. BatchServes /\ UNCHANGED <<servers, tools>>
    BY <1>1 DEF McpInv
  <2> QED BY <2>1, <2>2, <2>3 DEF BatchServes
<1>12. OpeningServes'
  BY <1>1, <1>2, <1>5, <1>7 DEF OpeningServes, c
<1>13. OpensMissing'
  BY <1>1, <1>2, <1>7 DEF McpInv, OpensMissing
<1>14. ToolsServe'
  BY <1>1, <1>5, <1>7, McpValues, NoOpIsIdle DEF McpInv, ToolsServe
<1>15. ConnectionsAreOwned'
  <2> SUFFICES ASSUME NEW i \in Ids', StillOpen(i)'
               PROVE  /\ i \in {connections'[conns'[i].server], op'.opening} \cup InBatch'
                      /\ closing' # "done"
    BY DEF ConnectionsAreOwned
  <2>1. closing' # "done"
    BY <1>1, NoOpIsIdle DEF McpInv, OpHolds
  <2>2. InBatch' = InBatch
    BY <1>7 DEF InBatch
  <2>3. CASE i = new
    BY <1>7, <2>1, <2>3
  <2>4. CASE i \in Ids
    <3>1. StillOpen(i) /\ i # 0
      BY <1>5, <2>4, McpValues DEF McpInv, StillOpen
    <3> QED BY <1>1, <1>5, <2>1, <2>2, <2>4, <3>1 DEF McpInv, ConnectionsAreOwned
  <2> QED BY <1>6, <2>3, <2>4
<1> QED BY <1>8, <1>9, <1>10, <1>11, <1>12, <1>13, <1>14, <1>15 DEF McpInv

\* The connection i that is being opened, to server s, is open, has failed or was leaked.
Opened(i, s, st) ==
    /\ op.phase = "opening" /\ op.opening = i /\ conns[i].server = s
    /\ UNCHANGED <<servers, connections, closing>>
    /\ op' \in OpRecords /\ op'.phase = "opening" /\ op'.opening = 0 /\ op'.todo = op.todo
    /\ op'.tried = op.tried
    /\ op'.batch = IF st = "open" THEN [op.batch EXCEPT ![s] = i] ELSE op.batch
    /\ tools' = IF st = "failed" THEN tools ELSE [tools EXCEPT ![s] = i]

LEMMA OpeningEnds ==
    ASSUME McpInv, NEW i \in Ids, NEW s \in Servers, NEW st \in {"open", "failed", "leaked"},
           ConnsMove({i}, st), Opened(i, s, st)
    PROVE  McpInv'
<1>1. /\ conns' \in Seq(ConnRecords) /\ Ids' = Ids
      /\ \A k \in Ids : /\ conns'[k].server = conns[k].server
                        /\ conns'[k].version = conns[k].version
                        /\ conns'[k].state = IF k = i THEN st ELSE conns[k].state
  BY DEF ConnsMove
<1>2. i # 0
  BY McpValues DEF McpInv
<1>3. /\ conns[i].state = "opening" /\ s \in op.tried /\ conns[i].version = servers[s]
      /\ conns[i].server = s /\ op.batch[s] = 0
  BY <1>2 DEF McpInv, OpeningServes, Opened
<1>4. connections[s] = 0
  BY <1>3, TriedHasNone
<1>5. \A r \in Servers : /\ op'.batch[r] = IF r = s /\ st = "open" THEN i ELSE op.batch[r]
                         /\ tools'[r] = IF r = s /\ st # "failed" THEN i ELSE tools[r]
                         /\ connections[r] \in {0} \cup Ids /\ tools[r] \in {0} \cup Ids
                         /\ op.batch[r] \in {0} \cup Ids
  BY <1>2, McpValues DEF McpInv, McpTyped, OpRecords, Opened
<1>6. \A r \in Servers : connections[r] # i /\ op.batch[r] # i
  BY <1>2, ConnectionsDiffer DEF Opened
<1>7. McpTyped'
  BY <1>1, <1>2 DEF McpInv, McpTyped, OpRecords, Opened
<1>8. OpHolds' /\ OpeningServes' /\ OpensMissing' /\ ClosesOutdated'
  BY NoOpIsIdle DEF McpInv, OpHolds, OpeningServes, OpensMissing, ClosesOutdated, Opened
<1>9. ConnectionsServe'
  <2> SUFFICES ASSUME NEW r \in Servers, connections[r] # 0
               PROVE  LET k == connections[r] IN
                      /\ conns'[k].server = r /\ conns'[k].version = servers[r]
                      /\ conns'[k].state \in {"open", "lost"} /\ tools'[r] = k
    BY DEF ConnectionsServe, Opened
  <2>1. r # s /\ connections[r] \in Ids /\ connections[r] # i /\ tools'[r] = tools[r]
    BY <1>4, <1>5, <1>6
  <2> QED BY <1>1, <2>1 DEF McpInv, ConnectionsServe
<1>10. BatchServes'
  <2> SUFFICES ASSUME NEW r \in Servers, op'.batch[r] # 0
               PROVE  LET k == op'.batch[r] IN
                      /\ conns'[k].server = r /\ conns'[k].version = servers[r]
                      /\ conns'[k].state \in {"open", "lost"} /\ tools'[r] = k /\ r \in op.tried
    BY DEF BatchServes, Opened
  <2>1. CASE r = s /\ st = "open"
    BY <1>1, <1>3, <1>5, <2>1
  <2>2. CASE ~(r = s /\ st = "open")
    <3>1. op'.batch[r] = op.batch[r] /\ op.batch[r] \in Ids /\ r # s
      BY <1>3, <1>5, <2>2
    <3>2. op.batch[r] # i /\ tools'[r] = tools[r]
      BY <1>5, <1>6, <3>1
    <3> QED BY <1>1, <3>1, <3>2 DEF McpInv, BatchServes
  <2> QED BY <2>1, <2>2
<1>11. ToolsServe'
  <2> SUFFICES ASSUME NEW r \in Servers, tools'[r] \notin {0, connections[r], op'.batch[r]}
               PROVE  conns'[tools'[r]].state = "leaked"
    BY DEF ToolsServe, Opened
  <2>1. CASE r = s /\ st # "failed"
    BY <1>1, <1>5, <2>1
  <2>2. CASE ~(r = s /\ st # "failed")
    <3>1. tools'[r] = tools[r] /\ tools[r] \in Ids /\ op'.batch[r] = op.batch[r]
      BY <1>5, <2>2
    <3>2. conns[tools[r]].state = "leaked"
      BY <3>1, NoOpIsIdle DEF McpInv, ToolsServe, Opened
    <3> QED BY <1>1, <1>3, <3>1, <3>2
  <2> QED BY <2>1, <2>2
<1>12. ConnectionsAreOwned'
  <2> SUFFICES ASSUME NEW k \in Ids, StillOpen(k)'
               PROVE  k \in {connections[conns[k].server]} \cup InBatch' /\ closing # "done"
    BY <1>1 DEF ConnectionsAreOwned, Opened
  <2>1. closing # "done"
    BY NoOpIsIdle DEF McpInv, OpHolds, Opened
  <2>2. CASE k = i
    <3>1. st = "open"
      BY <1>1, <2>2 DEF StillOpen
    <3> QED BY <1>2, <1>5, <2>1, <2>2, <3>1 DEF InBatch
  <2>3. CASE k # i
    <3>1. StillOpen(k) /\ k # 0
      BY <1>1, <2>3 DEF StillOpen, Ids
    <3>2. k \in {connections[conns[k].server]} \cup InBatch
      BY <2>3, <3>1 DEF McpInv, ConnectionsAreOwned, Opened
    <3>3. k \in InBatch => k \in InBatch'
      BY <1>3, <1>5, <3>1 DEF InBatch
    <3> QED BY <1>1, <2>1, <3>2, <3>3
  <2> QED BY <2>2, <2>3
<1> QED BY <1>7, <1>8, <1>9, <1>10, <1>11, <1>12 DEF McpInv

LEMMA OpenEndsKeeps == ASSUME McpInv, NEW i \in Ids, OpenDone(i) \/ OpenLeaks(i) PROVE McpInv'
<1> DEFINE s == conns[i].server
<1>1. op.phase = "opening" /\ op.opening = i /\ UNCHANGED <<servers, connections, closing>>
  BY DEF OpenDone, OpenLeaks
<1>2. op \in OpRecords /\ s \in Servers
  BY McpValues DEF McpInv, McpTyped, ConnRecords
<1>3. \A st : [conns EXCEPT ![i].state = st] = Become(st, {i})
  <2>1. conns = [k \in Ids |-> conns[k]]
    BY DEF McpInv, McpTyped, Ids
  <2> QED BY <2>1 DEF Become
<1>4. \A st \in {"open", "failed", "leaked"} : conns' = Become(st, {i}) => ConnsMove({i}, st)
  BY BecomeMoves DEF McpInv
<1>5. CASE /\ conns' = [conns EXCEPT ![i].state = "open"] /\ tools' = ToolsOf(i)
           /\ op' = [op EXCEPT !.opening = 0, !.batch[s] = i]
  <2>1. /\ op' \in OpRecords /\ op'.phase = "opening" /\ op'.opening = 0 /\ op'.todo = op.todo
        /\ op'.tried = op.tried /\ op'.batch = [op.batch EXCEPT ![s] = i]
    BY <1>1, <1>2, <1>5 DEF OpRecords
  <2>2. Opened(i, s, "open")
    BY <1>1, <1>5, <2>1 DEF Opened, ToolsOf
  <2>3. ConnsMove({i}, "open")
    BY <1>3, <1>4, <1>5
  <2> QED BY <1>2, <2>2, <2>3, OpeningEnds
<1>6. ASSUME op' = [op EXCEPT !.opening = 0], NEW st \in {"failed", "leaked"},
             conns' = Become(st, {i}), tools' = IF st = "failed" THEN tools ELSE ToolsOf(i)
      PROVE  McpInv'
  <2>1. /\ op' \in OpRecords /\ op'.phase = "opening" /\ op'.opening = 0 /\ op'.todo = op.todo
        /\ op'.tried = op.tried /\ op'.batch = op.batch
    BY <1>1, <1>2, <1>6 DEF OpRecords
  <2>2. Opened(i, s, st)
    BY <1>1, <1>6, <2>1 DEF Opened, ToolsOf
  <2>3. ConnsMove({i}, st)
    BY <1>4, <1>6
  <2> QED BY <1>2, <2>2, <2>3, OpeningEnds
<1> QED BY <1>3, <1>5, <1>6 DEF OpenDone, OpenLeaks

LEMMA HandOverKeeps == ASSUME McpInv, HandOver PROVE McpInv'
<1>1. /\ op.phase = "opening" /\ op.opening = 0 /\ op' = NoOp
      /\ UNCHANGED <<servers, tools, closing>>
  BY DEF HandOver
<1>2. closing # "done" /\ op # NoOp
  BY <1>1, NoOpIsIdle DEF McpInv, OpHolds
<1>3. \A s \in Servers : op.batch[s] # 0 => connections[s] = 0 /\ servers[s] # 0
  BY TriedHasNone DEF McpInv, BatchServes
<1>4. \A s \in Servers : /\ connections[s] \in {0} \cup Ids /\ tools[s] \in {0} \cup Ids
                         /\ op.batch[s] \in {0} \cup Ids
  BY McpValues DEF McpInv
<1>5. \A s \in Servers : tools[s] \notin {0, connections[s], op.batch[s]} =>
                            conns[tools[s]].state = "leaked"
  BY <1>2 DEF McpInv, ToolsServe
<1>6. OpHolds' /\ BatchServes' /\ OpeningServes' /\ OpensMissing' /\ ClosesOutdated'
  BY <1>1, NoOpIsIdle DEF OpHolds, BatchServes, OpeningServes, OpensMissing, ClosesOutdated
<1>7. \A i \in Ids : i # 0 /\ conns[i].server \in Servers
  BY McpValues DEF McpInv, ConnRecords
<1>8. \A i \in Ids : StillOpen(i) => i \in {connections[conns[i].server]} \cup InBatch
  BY <1>1, <1>7 DEF McpInv, ConnectionsAreOwned
<1>9. CASE closing = "no"
  <2>1. /\ connections' = [s \in Servers |-> IF op.batch[s] = 0 THEN connections[s] ELSE op.batch[s]]
        /\ conns' = conns
    BY <1>9 DEF HandOver
  <2>2. McpTyped'
    <3>1. conns' = conns /\ Ids' = Ids /\ op' \in OpRecords
      BY <1>1, <2>1, NoOpIsIdle DEF Ids
    <3>2. connections' \in [Servers -> {0} \cup Ids]
      BY <1>4, <2>1
    <3> QED BY <1>1, <3>1, <3>2 DEF McpInv, McpTyped, OpRecords
  <2>3. ConnectionsServe'
    BY <1>1, <2>1 DEF McpInv, ConnectionsServe, BatchServes
  <2>4. ToolsServe'
    <3> SUFFICES ASSUME NEW s \in Servers, tools[s] \notin {0, connections'[s]}
                 PROVE  conns[tools[s]].state = "leaked"
      BY <1>1, <2>1 DEF ToolsServe
    <3>1. tools[s] \notin {0, connections[s], op.batch[s]}
      BY <1>3, <2>1
    <3> QED BY <1>5, <3>1
  <2>5. ConnectionsAreOwned'
    <3> SUFFICES ASSUME NEW i \in Ids, StillOpen(i)
                 PROVE  i = connections'[conns[i].server]
      BY <1>1, <1>2, <2>1 DEF ConnectionsAreOwned, StillOpen, Ids
    <3>1. CASE i = connections[conns[i].server]
      BY <1>3, <1>7, <2>1, <3>1
    <3>2. ASSUME NEW s \in Servers, i = op.batch[s]
          PROVE  i = connections'[conns[i].server]
      BY <1>7, <2>1, <3>2 DEF McpInv, BatchServes
    <3> QED BY <1>8, <3>1, <3>2 DEF InBatch
  <2> QED BY <1>6, <2>2, <2>3, <2>4, <2>5 DEF McpInv
<1>10. CASE closing # "no"
  <2>1. closing = "asked" /\ conns' = Become("failed", InBatch) /\ connections' = connections
    BY <1>2, <1>10 DEF HandOver, McpInv, McpTyped
  <2>2. /\ conns' \in Seq(ConnRecords) /\ Ids' = Ids
        /\ \A k \in Ids : /\ conns'[k].server = conns[k].server
                          /\ conns'[k].version = conns[k].version
                          /\ conns'[k].state = IF k \in InBatch THEN "failed" ELSE conns[k].state
    BY <2>1, BecomeMoves DEF McpInv, ConnsMove
  <2>3. McpTyped'
    BY <1>1, <2>1, <2>2, NoOpIsIdle DEF McpInv, McpTyped, OpRecords
  <2>4. ConnectionsServe'
    <3> SUFFICES ASSUME NEW s \in Servers, connections[s] # 0
                 PROVE  LET k == connections[s] IN
                        /\ conns'[k].server = s /\ conns'[k].version = servers[s]
                        /\ conns'[k].state \in {"open", "lost"} /\ tools[s] = k
      BY <1>1, <2>1 DEF ConnectionsServe
    <3>1. connections[s] \in Ids \ InBatch
      BY <1>4, ConnectionsDiffer DEF InBatch
    <3> QED BY <2>2, <3>1 DEF McpInv, ConnectionsServe
  <2>5. ToolsServe'
    <3> SUFFICES ASSUME NEW s \in Servers, tools[s] \notin {0, connections[s]}
                 PROVE  conns'[tools[s]].state = "leaked" \/ servers[s] # 0
      BY <1>1, <2>1 DEF ToolsServe
    <3>1. CASE tools[s] = op.batch[s]
      BY <1>3, <3>1
    <3>2. CASE tools[s] # op.batch[s]
      <4>1. conns[tools[s]].state = "leaked" /\ tools[s] \in Ids
        BY <1>4, <1>5, <3>2
      <4>2. tools[s] \notin InBatch
        BY <1>7, <4>1 DEF McpInv, BatchServes, InBatch
      <4> QED BY <2>2, <4>1, <4>2
    <3> QED BY <3>1, <3>2
  <2>6. ConnectionsAreOwned'
    <3> SUFFICES ASSUME NEW i \in Ids, StillOpen(i)'
                 PROVE  i = connections[conns[i].server]
      BY <1>1, <1>2, <2>1, <2>2 DEF ConnectionsAreOwned
    <3>1. StillOpen(i) /\ i \notin InBatch
      BY <2>2 DEF StillOpen
    <3> QED BY <1>8, <3>1
  <2> QED BY <1>6, <2>3, <2>4, <2>5, <2>6 DEF McpInv
<1> QED BY <1>9, <1>10

LEMMA CancelOpKeeps == ASSUME McpInv, CancelOp PROVE McpInv'
<1>1. /\ op # NoOp /\ op' = NoOp /\ conns' = Become("failed", RolledBack)
      /\ tools' = Unregistered(op.tried) /\ UNCHANGED <<servers, connections, closing>>
  BY DEF CancelOp
<1>2. closing # "done"
  BY <1>1 DEF McpInv, OpHolds
<1>3. \A s \in Servers : /\ connections[s] \in {0} \cup Ids /\ tools[s] \in {0} \cup Ids
                         /\ tools'[s] = IF s \in op.tried THEN 0 ELSE tools[s]
                         /\ op.batch[s] # 0 => s \in op.tried
  BY <1>1, McpValues DEF McpInv, BatchServes, Unregistered
<1>4. \A i \in Ids : i # 0 /\ conns[i].server \in Servers
  BY McpValues DEF McpInv, ConnRecords
<1>5. /\ conns' \in Seq(ConnRecords) /\ Ids' = Ids
      /\ \A k \in Ids : /\ conns'[k].server = conns[k].server
                        /\ conns'[k].version = conns[k].version
                        /\ conns'[k].state = IF k \in RolledBack THEN "failed" ELSE conns[k].state
  BY <1>1, BecomeMoves DEF McpInv, ConnsMove
<1>6. McpTyped'
  <2>1. tools' \in [Servers -> {0} \cup Ids]
    BY <1>1, <1>3 DEF Unregistered
  <2> QED BY <1>1, <1>5, <2>1, NoOpIsIdle DEF McpInv, McpTyped, OpRecords
<1>7. OpHolds' /\ BatchServes' /\ OpeningServes' /\ OpensMissing' /\ ClosesOutdated'
  BY <1>1, NoOpIsIdle DEF OpHolds, BatchServes, OpeningServes, OpensMissing, ClosesOutdated
<1>8. ConnectionsServe'
  <2> SUFFICES ASSUME NEW s \in Servers, connections[s] # 0
               PROVE  LET k == connections[s] IN
                      /\ conns'[k].server = s /\ conns'[k].version = servers[s]
                      /\ conns'[k].state \in {"open", "lost"} /\ tools'[s] = k
    BY <1>1 DEF ConnectionsServe
  <2>1. connections[s] \in Ids \ RolledBack
    BY <1>3, ConnectionsDiffer DEF InBatch, RolledBack
  <2>2. tools'[s] = tools[s]
    BY <1>3, TriedHasNone
  <2> QED BY <1>5, <2>1, <2>2 DEF McpInv, ConnectionsServe
<1>9. ToolsServe'
  <2> SUFFICES ASSUME NEW s \in Servers, tools'[s] \notin {0, connections[s]}
               PROVE  conns'[tools'[s]].state = "leaked"
    BY <1>1 DEF ToolsServe
  <2>1. tools'[s] = tools[s] /\ tools[s] \notin {0, connections[s], op.batch[s]} /\ tools[s] \in Ids
    BY <1>3
  <2>2. conns[tools[s]].state = "leaked"
    BY <1>1, <2>1 DEF McpInv, ToolsServe
  <2>3. tools[s] \notin RolledBack
    BY <1>4, <2>1, <2>2 DEF McpInv, BatchServes, OpeningServes, InBatch, RolledBack
  <2> QED BY <1>5, <2>1, <2>2, <2>3
<1>10. ConnectionsAreOwned'
  <2> SUFFICES ASSUME NEW i \in Ids, StillOpen(i)'
               PROVE  i = connections[conns[i].server]
    BY <1>1, <1>2, <1>5 DEF ConnectionsAreOwned
  <2>1. StillOpen(i) /\ i \notin RolledBack
    BY <1>5 DEF StillOpen
  <2> QED BY <2>1 DEF McpInv, ConnectionsAreOwned, RolledBack
<1> QED BY <1>6, <1>7, <1>8, <1>9, <1>10 DEF McpInv

LEMMA AskCloseKeeps == ASSUME McpInv, AskClose PROVE McpInv'
<1>1. /\ closing = "no" /\ closing' = "asked"
      /\ UNCHANGED <<servers, conns, connections, tools, op>>
  BY DEF AskClose
<1>2. McpTyped' /\ OpHolds'
  BY <1>1 DEF McpInv, McpTyped, OpHolds, OpRecords, Ids
<1>3. ConnectionsServe' /\ BatchServes' /\ OpeningServes' /\ OpensMissing' /\ ClosesOutdated'
  BY <1>1 DEF McpInv, ConnectionsServe, BatchServes, OpeningServes, OpensMissing, ClosesOutdated
<1>4. ToolsServe'
  BY <1>1 DEF McpInv, ToolsServe
<1>5. ConnectionsAreOwned'
  BY <1>1 DEF McpInv, ConnectionsAreOwned, StillOpen, InBatch, Ids
<1> QED BY <1>2, <1>3, <1>4, <1>5 DEF McpInv

LEMMA CloseAllKeeps == ASSUME McpInv, CloseAll PROVE McpInv'
<1> DEFINE all == {connections[s] : s \in Servers}
           own == {s \in Servers : servers[s] # 0}
<1>1. /\ closing = "asked" /\ op = NoOp /\ closing' = "done" /\ conns' = Become("closed", all)
      /\ connections' = Nowhere /\ tools' = Unregistered(own) /\ UNCHANGED <<servers, op>>
  BY DEF CloseAll
<1>2. \A s \in Servers : /\ connections[s] \in {0} \cup Ids /\ tools[s] \in {0} \cup Ids
                         /\ connections'[s] = 0
                         /\ tools'[s] = IF servers[s] # 0 THEN 0 ELSE tools[s]
                         /\ op.batch[s] = 0 /\ op.opening = 0
  BY <1>1, McpValues, NoOpIsIdle DEF McpInv, Unregistered
<1>3. \A i \in Ids : i # 0 /\ conns[i].server \in Servers /\ conns[i].version # 0
  BY McpValues, McpAssumption DEF McpInv, ConnRecords
<1>4. /\ conns' \in Seq(ConnRecords) /\ Ids' = Ids
      /\ \A k \in Ids : /\ conns'[k].server = conns[k].server
                        /\ conns'[k].version = conns[k].version
                        /\ conns'[k].state = IF k \in all THEN "closed" ELSE conns[k].state
  BY <1>1, BecomeMoves DEF McpInv, ConnsMove
<1>5. McpTyped'
  <2>1. tools' \in [Servers -> {0} \cup Ids] /\ connections' \in [Servers -> {0} \cup Ids]
    BY <1>1, <1>2 DEF Unregistered, Nowhere
  <2> QED BY <1>1, <1>4, <2>1, NoOpIsIdle DEF McpInv, McpTyped, OpRecords
<1>6. OpHolds' /\ ConnectionsServe' /\ BatchServes' /\ OpeningServes' /\ OpensMissing' /\ ClosesOutdated'
  BY <1>1, <1>2, NoOpIsIdle DEF OpHolds, ConnectionsServe, BatchServes, OpeningServes, OpensMissing,
     ClosesOutdated
<1>7. ToolsServe'
  <2> SUFFICES ASSUME NEW s \in Servers, tools'[s] # 0
               PROVE  conns'[tools'[s]].state = "leaked"
    BY DEF ToolsServe
  <2>1. servers[s] = 0 /\ tools'[s] = tools[s] /\ tools[s] \in Ids
    BY <1>2
  <2>2. tools[s] # connections[s]
    BY <1>3, <2>1 DEF McpInv, ConnectionsServe
  <2>3. conns[tools[s]].state = "leaked"
    BY <1>2, <2>1, <2>2, <1>3 DEF McpInv, ToolsServe
  <2>4. tools[s] \notin all
    BY <1>3, <2>1, <2>3 DEF McpInv, ConnectionsServe
  <2> QED BY <1>4, <2>1, <2>3, <2>4
<1>8. ConnectionsAreOwned'
  <2> SUFFICES ASSUME NEW i \in Ids, StillOpen(i)'
               PROVE  FALSE
    BY <1>4 DEF ConnectionsAreOwned
  <2>1. StillOpen(i) /\ i \notin all
    BY <1>4 DEF StillOpen
  <2> QED BY <1>2, <1>3, <2>1 DEF McpInv, ConnectionsAreOwned, InBatch
<1> QED BY <1>5, <1>6, <1>7, <1>8 DEF McpInv

LEMMA McpStep == McpInv /\ [McpNext]_mcpVars => McpInv'
<1> SUFFICES ASSUME McpInv, [McpNext]_mcpVars PROVE McpInv'
  OBVIOUS
<1>1. CASE UNCHANGED mcpVars
  BY <1>1 DEF mcpVars, McpInv, McpTyped, OpRecords, OpHolds, ConnectionsServe, BatchServes,
     OpeningServes, OpensMissing, ClosesOutdated, ToolsServe, ConnectionsAreOwned, StillOpen,
     InBatch, Ids
<1>2. CASE McpNext
  BY <1>2, TerminatesKeeps, ConnectKeeps, ReloadKeeps, RefreshKeeps, TakeOverKeeps, CloseServerKeeps,
     OpenServerKeeps, OpenEndsKeeps, HandOverKeeps, CancelOpKeeps, AskCloseKeeps, CloseAllKeeps
     DEF McpNext
<1> QED BY <1>1, <1>2

\* The inductive invariant of the connections holds in every state.
THEOREM McpInvariant == McpSpec => []McpInv
  BY McpStart, McpStep, PTL DEF McpSpec

-----------------------------------------------------------------------------
(* Connections: the theorems *)

LEMMA McpTypes == McpInv => McpTypeOK
  BY McpValues DEF McpInv, McpTyped, McpTypeOK, Configs, ConnRecords

\* Every variable of the provider keeps its type.
THEOREM McpTypeCorrect == McpSpec => []McpTypeOK
  BY McpTypes, McpInvariant, PTL

\* Every connection that is open has somebody who will close it: the provider, or the
\* operation that is opening a batch, whichever of them is cancelled, and none is
\* left when aclose() is done (connect_mcp_servers, _refresh_terminated_server, aclose).
THEOREM ConnectionsStayOwned == McpSpec => []ConnectionsAreOwned
<1>1. McpInv => ConnectionsAreOwned
  BY DEF McpInv
<1> QED BY <1>1, McpInvariant, PTL

\* Between operations the registry holds the tools of the provider's connections, of
\* the configuration it has read, whatever was reloaded, refreshed or rolled back
\* (reload, connect_mcp_servers, _unregister_server_tools).
THEOREM ToolsStayCurrent == McpSpec => []ToolsAreCurrent
<1>1. McpInv => ToolsAreCurrent
  BY NoOpIsIdle DEF McpInv, ConnectionsServe, ToolsServe, ToolsAreCurrent
<1> QED BY <1>1, McpInvariant, PTL
-----------------------------------------------------------------------------
(* What a turn sets going, together *)

\* The five components of MCTurns side by side, as the run has them, keep their type
\* invariants.
THEOREM TurnsTypesCorrect == TurnsSpec => []TurnsTypeOK
<1> DEFINE Typed == /\ Shaped /\ Limited /\ ReplyInv /\ DeliveryInv
                    /\ ExecInv /\ ExecLimit /\ McpInv
           Step == /\ [GoalNext]_goalVars /\ [ReplyNext]_replyVars /\ [OutboundNext]_outboundVars
                   /\ [ExecNext]_execVars /\ [McpNext]_mcpVars
           all == <<goalVars, replyVars, outboundVars, execVars, mcpVars, told>>
<1>1. TurnsInit => Typed
  BY GoalStart, ReplyStart, DeliveryStart, ExecStart, LimitStart, McpStart DEF TurnsInit
<1>2. [TurnsNext]_all => Step
  BY DEF TurnsNext, Tells
<1>3. Typed /\ Step => Typed'
  BY ShapeKept, LimitKept, ReplyStep, DeliveryStep, ExecStep, LimitStep, McpStep
<1>4. Typed => TurnsTypeOK
  BY GoalTypes, ReplyTypes, DeliveryTypes, ExecTypes, McpTypes DEF TurnsTypeOK
<1> HIDE DEF Typed, Step
<1> QED BY <1>1, <1>2, <1>3, <1>4, PTL DEF TurnsSpec
=============================================================================
