----------------------------- MODULE ExecSessions -----------------------------
(***************************************************************************)
(* Shell commands that outlive the tool call which started them            *)
(* (agent/tools/exec_session.py, and the killing of agent/tools/shell.py): *)
(* a table of processes with an owner, a limit, deadlines and an idle      *)
(* time, used by the tool calls of several turns or sub-agents, which may  *)
(* be cancelled, and swept by /stop and at shutdown.                       *)
(***************************************************************************)
EXTENDS Integers, FiniteSets

CONSTANTS
    Execs,       \* processes, in the order in which they are started (bound)
    Owners,      \* owner_session_key
    Callers,     \* tool calls at a time (bound)
    MaxExecs,    \* max_sessions
    NoCaller,    \* no caller holds the lock
    NoOwner

ASSUME ExecAssumption ==
    /\ Execs \subseteq Nat \ {0} /\ MaxExecs \in Nat \ {0}
    /\ NoOwner \notin Owners /\ NoCaller \notin Callers /\ "all" \notin Owners

VARIABLES
    process,     \* none, running, killed (but not reaped yet) or dead
    unkillable,  \* processes that may not be signalled, those of another user
    readers,     \* the two tasks that read a process's pipes
    execOwner,   \* owner of each process
    registered,  \* _sessions
    managerLock, \* who holds the manager's lock while it suspends
    call,        \* the tool calls in progress
    sweep,       \* terminate_by_owner() of each owner, and close_all()
    managerClosed

processes == <<process, unkillable, readers, execOwner>>
manager   == <<registered, managerLock, managerClosed>>
execVars  == <<processes, manager, call, sweep>>

Sweepers == Owners \cup {"all"}
Ops == {"start", "poll", "write", "terminate", "list"}
Phases == {"none", "entering", "cleaning", "spawning", "writing", "killing", "polling",
           "expiring", "reading", "done", "leaked"}

\* exec: the session asked for; victim, stale: the session being killed and those
\* that are to be killed after it; failed: that kill will raise.
NoCall == [phase |-> "none", op |-> "list", owner |-> NoOwner, exec |-> 0,
           victim |-> 0, stale |-> {}, failed |-> FALSE]
NoSweep == [phase |-> "no", victims |-> {}, failed |-> {}]

ExecInit ==
    /\ process = [e \in Execs |-> "none"] /\ unkillable = {}
    /\ readers = [e \in Execs |-> "none"] /\ execOwner = [e \in Execs |-> NoOwner]
    /\ registered = {} /\ managerLock = NoCaller
    /\ call = [c \in Callers |-> NoCall] /\ sweep = [w \in Sweepers |-> NoSweep]
    /\ managerClosed = FALSE

-----------------------------------------------------------------------------
(* Processes *)

\* The process exits by itself or of its signal.
Dies(e) ==
    /\ process[e] \in {"running", "killed"}
    /\ process' = [process EXCEPT ![e] = "dead"]
    /\ UNCHANGED <<unkillable, readers, execOwner, manager, call, sweep>>

\* Everybody who inherited its pipes has closed them: a descendant that left
\* the process group may keep them open for long after the process is dead.
PipesClose(e) ==
    /\ readers[e] = "reading"
    /\ readers' = [readers EXCEPT ![e] = "ended"]
    /\ UNCHANGED <<process, unkillable, execOwner, manager, call, sweep>>

\* The signal is sent before anything suspends; process.kill() raises if the
\* process may not be signalled.
Signalled(S) ==
    [e \in Execs |-> IF e \in S \ unkillable /\ process[e] = "running"
                     THEN "killed" ELSE process[e]]
Refuses(e) == e \in unkillable /\ process[e] = "running"

\* kill() waits two seconds for the readers, whatever became of the process, and
\* the time limit of wait_for() cancels them.
Unread(S) ==
    [e \in Execs |-> IF e \in S /\ readers[e] = "reading" THEN "cancelled" ELSE readers[e]]

-----------------------------------------------------------------------------
(* A tool call enters the manager *)

Ends(c) == call' = [call EXCEPT ![c] = NoCall]
Goes(c, phase) == call' = [call EXCEPT ![c].phase = phase]

\* exec, write_stdin or list_exec_sessions of a turn or sub-agent of session k; a
\* write_stdin for an unknown session comes to no more than a list.
CallTool(c, k) ==
    /\ call[c].phase = "none"
    /\ \E op \in Ops, e \in Execs \cup {0} :
          /\ (e = 0) <=> op \in {"start", "list"}
          /\ e # 0 => e \in registered
          /\ call' = [call EXCEPT ![c] = [NoCall EXCEPT !.phase = "entering", !.op = op,
                                                        !.owner = k, !.exec = e]]
    /\ UNCHANGED <<processes, manager, sweep>>

\* Mutant: close_all() refuses nothing that comes later.
RefusedClosedNever(c) == FALSE
\* The first thing start() looks at.
RefusedClosed(c) == call[c].op = "start" /\ managerClosed

\* Of the sessions S, the one the call asks for, unless another session owns it.
Found(c, S) == call[c].exec \in S /\ execOwner[call[c].exec] = call[c].owner

\* The rest of the work under the lock, with the sessions S registered; the lock
\* is kept only while a process is spawned.
Proceed(c, S) ==
    LET op == call[c].op  e == call[c].exec IN
    /\ registered' = S
    /\ \/ /\ op = "start" /\ Cardinality(S) < MaxExecs
          /\ managerLock' = c /\ Goes(c, "spawning")
          /\ UNCHANGED process
       \/ /\ \/ op = "start" /\ Cardinality(S) >= MaxExecs
             \/ op = "list"
             \/ op \in {"poll", "write", "terminate"} /\ ~Found(c, S)
          /\ managerLock' = NoCaller /\ Ends(c)
          /\ UNCHANGED process
       \/ /\ op \in {"write", "poll"} /\ Found(c, S)
          /\ managerLock' = NoCaller /\ UNCHANGED process
          /\ Goes(c, IF op = "write" THEN "writing" ELSE "polling")
       \/ /\ op = "terminate" /\ Found(c, S)
          /\ managerLock' = NoCaller /\ process' = Signalled({e})
          /\ call' = [call EXCEPT ![c].phase = "killing", ![c].failed = Refuses(e)]

\* _cleanup_locked() kills the next of the stale sessions.
KillStale(c, e, rest) ==
    /\ call' = [call EXCEPT ![c].phase = "cleaning", ![c].failed = Refuses(e),
                            ![c].victim = e, ![c].stale = rest]
    /\ process' = Signalled({e})
    /\ managerLock' = c

CleanOrProceed(c, stale, S) ==
    \/ stale = {} /\ Proceed(c, S)
    \/ \E e \in stale : KillStale(c, e, stale \ {e}) /\ registered' = S

\* A call takes seconds and idle_timeout is half an hour: sessions in use are fresh.
InUse(e) == \E c \in Callers : call[c].exec = e /\ call[c].phase # "entering"

Enter(c) ==
    /\ call[c].phase = "entering" /\ managerLock = NoCaller
    /\ \/ /\ RefusedClosed(c)
          /\ Ends(c) /\ UNCHANGED <<process, registered, managerLock>>
       \/ /\ ~RefusedClosed(c)
          /\ \E stale \in SUBSET {e \in registered : ~InUse(e)} :
                CleanOrProceed(c, stale, registered)
    /\ UNCHANGED <<unkillable, readers, execOwner, managerClosed, sweep>>

\* A kill takes until the process is reaped, at most seven seconds.  One that
\* raised makes the call fail and leaves its session, and the rest, registered.
CleanupStep(c) ==
    LET e == call[c].victim IN
    /\ call[c].phase = "cleaning" /\ readers' = Unread({e})
    /\ \/ /\ call[c].failed /\ managerLock' = NoCaller /\ Ends(c)
          /\ UNCHANGED <<process, registered>>
       \/ ~call[c].failed /\ CleanOrProceed(c, call[c].stale, registered \ {e})
    /\ UNCHANGED <<unkillable, execOwner, managerClosed, sweep>>

-----------------------------------------------------------------------------
(* A tool call waits for its process *)

\* The process is spawned, perhaps as another user (sudo), and registered.
Spawned(c) ==
    /\ call[c].phase = "spawning"
    /\ \E e \in Execs :
          /\ process[e] = "none" /\ \A d \in Execs : process[d] = "none" => e <= d
          /\ process' = [process EXCEPT ![e] = "running"]
          /\ readers' = [readers EXCEPT ![e] = "reading"]
          /\ execOwner' = [execOwner EXCEPT ![e] = call[c].owner]
          /\ unkillable' \in {unkillable, unkillable \cup {e}}
          /\ registered' = registered \cup {e}
          /\ call' = [call EXCEPT ![c].phase = "polling", ![c].exec = e]
    /\ managerLock' = NoCaller
    /\ UNCHANGED <<managerClosed, sweep>>

SpawnFails(c) ==
    /\ call[c].phase = "spawning" /\ Ends(c) /\ managerLock' = NoCaller
    /\ UNCHANGED <<processes, registered, managerClosed, sweep>>

\* A dead process and a broken pipe are errors.
WriteEnds(c) ==
    LET e == call[c].exec IN
    /\ call[c].phase = "writing"
    /\ \/ Ends(c)
       \/ process[e] # "dead" /\ Goes(c, "polling")
    /\ UNCHANGED <<processes, registered, managerLock, managerClosed, sweep>>

\* write_stdin's terminate goes on to poll.
KillEnds(c) ==
    LET e == call[c].exec IN
    /\ call[c].phase = "killing" /\ readers' = Unread({e})
    /\ \/ call[c].failed /\ Ends(c)
       \/ ~call[c].failed /\ Goes(c, "polling")
    /\ UNCHANGED <<process, unkillable, execOwner, registered, managerLock,
                   managerClosed, sweep>>

\* The wait of poll() ends; a live process may be past its deadline, and is killed.
PollWaits(c) ==
    LET e == call[c].exec IN
    /\ call[c].phase = "polling"
    /\ \/ /\ process[e] # "dead" /\ process' = Signalled({e})
          /\ call' = [call EXCEPT ![c].phase = "expiring", ![c].failed = Refuses(e)]
       \/ process[e] # "dead" /\ Ends(c) /\ UNCHANGED process
       \/ process[e] = "dead" /\ Goes(c, "reading") /\ UNCHANGED process
    /\ UNCHANGED <<unkillable, readers, execOwner, manager, sweep>>

ExpireEnds(c) ==
    LET e == call[c].exec IN
    /\ call[c].phase = "expiring" /\ readers' = Unread({e})
    /\ IF ~call[c].failed /\ process[e] = "dead" THEN Goes(c, "reading") ELSE Ends(c)
    /\ UNCHANGED <<process, unkillable, execOwner, manager, sweep>>

\* poll() gathers the readers for two seconds.  The time limit cancels them; had
\* they been cancelled before, or by another call, gather() raises CancelledError.
ReadRest(c) ==
    LET e == call[c].exec IN
    /\ call[c].phase = "reading"
    /\ \/ readers[e] = "ended" /\ Goes(c, "done") /\ UNCHANGED readers
       \/ readers[e] = "reading" /\ Goes(c, "done") /\ readers' = Unread({e})
       \/ readers[e] = "cancelled" /\ Goes(c, "leaked") /\ UNCHANGED readers
    /\ UNCHANGED <<process, unkillable, execOwner, manager, sweep>>

\* The session of a dead process is forgotten.
Pop(c) ==
    /\ call[c].phase = "done" /\ managerLock = NoCaller /\ Ends(c)
    /\ registered' = registered \ {call[c].exec}
    /\ UNCHANGED <<processes, managerLock, managerClosed, sweep>>

\* The call is cancelled: with it the readers it gathers, and the process that it
\* spawns.  A leaked CancelledError ends the turn like this too.
CancelCall(c) ==
    /\ call[c].phase # "none" /\ Ends(c)
    /\ managerLock' = IF managerLock = c THEN NoCaller ELSE managerLock
    /\ readers' \in
          CASE call[c].phase = "cleaning" -> {readers, Unread({call[c].victim})}
            [] call[c].phase \in {"killing", "expiring"} -> {readers, Unread({call[c].exec})}
            [] call[c].phase = "reading" -> {Unread({call[c].exec})}
            [] OTHER -> {readers}
    /\ UNCHANGED <<process, unkillable, execOwner, registered,
                   managerClosed, sweep>>

-----------------------------------------------------------------------------
(* Sweeps *)

\* The sessions of one owner, or all of them, leave the table and are signalled.
TakeVictims(w) ==
    /\ sweep[w].phase = "no" /\ managerLock = NoCaller
    /\ LET S == {e \in registered : w = "all" \/ execOwner[e] = w} IN
       /\ sweep' = [sweep EXCEPT ![w] = [phase |-> "killing", victims |-> S,
                                         failed |-> {e \in S : Refuses(e)}]]
       /\ registered' = registered \ S /\ process' = Signalled(S)
    /\ managerClosed' = (managerClosed \/ w = "all")
    /\ UNCHANGED <<unkillable, readers, execOwner, managerLock, call>>

\* Mutant: a kill that raised is logged only.
FailuresIgnored(w) == {}
Failures(w) == sweep[w].failed

\* gather() ends when every kill has.
SweepEnds(w) ==
    /\ sweep[w].phase = "killing" /\ readers' = Unread(sweep[w].victims)
    /\ sweep' = [sweep EXCEPT ![w] = IF Failures(w) = {} THEN NoSweep
                                     ELSE [@ EXCEPT !.phase = "restoring"]]
    /\ UNCHANGED <<process, unkillable, execOwner, manager, call>>

\* The sessions whose kill raised are put back, whatever the limit.
RestoreFailed(w) ==
    /\ sweep[w].phase = "restoring" /\ managerLock = NoCaller
    /\ registered' = registered \cup Failures(w)
    /\ sweep' = [sweep EXCEPT ![w] = NoSweep]
    /\ UNCHANGED <<processes, managerLock, managerClosed, call>>

ExecNext ==
    \/ \E e \in Execs : Dies(e) \/ PipesClose(e)
    \/ \E c \in Callers :
          \/ \E k \in Owners : CallTool(c, k)
          \/ Enter(c) \/ CleanupStep(c) \/ Spawned(c) \/ SpawnFails(c) \/ WriteEnds(c)
          \/ KillEnds(c) \/ PollWaits(c) \/ ExpireEnds(c) \/ ReadRest(c) \/ Pop(c)
          \/ CancelCall(c)
    \/ \E w \in Sweepers : TakeVictims(w) \/ SweepEnds(w) \/ RestoreFailed(w)

ExecSpec == ExecInit /\ [][ExecNext]_execVars

-----------------------------------------------------------------------------
(* Properties *)

\* Every variable keeps its type, and only sessions that sweeps put back, those of
\* processes that may not be signalled, exceed the limit.
ExecTypeOK ==
    /\ process \in [Execs -> {"none", "running", "killed", "dead"}]
    /\ unkillable \subseteq Execs /\ registered \subseteq Execs
    /\ readers \in [Execs -> {"none", "reading", "ended", "cancelled"}]
    /\ execOwner \in [Execs -> Owners \cup {NoOwner}]
    /\ managerLock \in Callers \cup {NoCaller} /\ managerClosed \in BOOLEAN
    /\ call \in [Callers -> [phase : Phases, op : Ops, owner : Owners \cup {NoOwner},
                             exec : Execs \cup {0}, victim : Execs \cup {0},
                             stale : SUBSET Execs, failed : BOOLEAN]]
    /\ sweep \in [Sweepers -> [phase : {"no", "killing", "restoring"},
                                victims : SUBSET Execs, failed : SUBSET Execs]]
    /\ Cardinality(registered \ unkillable) <= MaxExecs

\* However calls are cancelled and kills raise, a running process stays known: it
\* is in the table or in the hands of a sweep, so that a later write_stdin, /stop or
\* shutdown can reach it (start, _cleanup_locked, terminate_by_owner, close_all).
ProcessesAreKept ==
    \A e \in Execs :
       process[e] = "running" =>
          e \in registered \/ \E w \in Sweepers : e \in sweep[w].victims

\* Once close_all() has begun, no process runs that a signal could have ended:
\* spawns under way are waited for and later ones are refused.
ClosedForGood ==
    managerClosed => \A e \in Execs : process[e] = "running" => e \in unkillable

\* VIOLATED.  A tool call ends by itself, in a result or an error, or because its
\* turn is cancelled; src/tests/tools/test_exec_session_tools.py:389 expects
\* "Session terminated." of write_stdin's terminate.
CallsReturn == \A c \in Callers : call[c].phase # "leaked"
=============================================================================
