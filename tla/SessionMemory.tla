---------------------------- MODULE SessionMemory ----------------------------
(***************************************************************************)
(* How a session's messages are archived: consolidation before and after   *)
(* turns and of idle sessions (agent/memory.py, agent/autocompact.py),     *)
(* against the turns, /new and the file cap that change the same session   *)
(* (agent/loop.py, command/builtin.py, session/manager.py).  A Session is  *)
(* an object: the cache, a turn and a consolidation may hold different     *)
(* ones, and whoever saves last decides what is on file.                   *)
(***************************************************************************)
EXTENDS Integers, SequencesExt, FiniteSets

CONSTANTS
    Objects,      \* identities of Session objects, enough of them
    NoObject,
    NoTask,
    TalkKinds,    \* how turns reach the session: from the "bus" or "direct"
    FileCap,      \* FILE_MAX_MESSAGES
    MaxTalks,     \* turns (bound)
    MaxNews,      \* /new commands (bound)
    MaxDeaths     \* crashes (bound)

ASSUME MemoryAssumption ==
    /\ NoObject \notin Objects /\ \A o, p \in Objects : Objects \ {o, p} # {}
    /\ Objects # {} /\ FileCap \in Nat \ {0, 1} /\ MaxTalks \in Nat

VARIABLES
    sessionFile,    \* the session as saved
    cachedSession,  \* the object in the manager's cache
    objects,        \* what each object holds
    talk,           \* the running turn and the object it holds
    consolidating,  \* the archive() call that holds the consolidation lock
    lockWaiters,    \* who waits for that lock
    archivingIdle,  \* the session is in AutoCompact._archiving
    snapshots,      \* what /new has handed to background archive() calls
    talks, news, deaths,
    archived,       \* ghost: messages in history.jsonl, as summary or raw
    archivedAgain,  \* ghost: those that were archived twice
    saved,          \* ghost: messages that were ever on file
    abandoned,      \* ghost: messages of snapshots a crash cut off
    overtaken       \* ghost: while a batch was being archived /new came or
                    \* the file was capped, or an idle session was replaced
                    \* under a turn

memoryGhosts == <<archived, archivedAgain, saved, abandoned, overtaken>>
memoryTasks == <<talk, consolidating, lockWaiters, archivingIdle, snapshots>>
memoryBounds == <<talks, news, deaths>>
memoryVars == <<sessionFile, cachedSession, objects, memoryTasks, memoryBounds,
                memoryGhosts>>

\* Turn n has the messages 2n-1, the user's, and 2n, the agent's.
IsUsers(msg) == msg % 2 = 1
EmptySession == [msgs |-> <<>>, lc |-> 0]
NoTalk == [phase |-> "none", kind |-> "bus", obj |-> NoObject, n |-> 0]
Elements(s) == {s[i] : i \in DOMAIN s}
Unarchived(s) == {s.msgs[i] : i \in {k \in DOMAIN s.msgs : k > s.lc}}

MemoryInit ==
    /\ sessionFile = EmptySession
    /\ cachedSession = NoObject
    /\ objects = [o \in Objects |-> EmptySession]
    /\ talk = NoTalk /\ consolidating = NoTask
    /\ lockWaiters = <<>> /\ archivingIdle = FALSE /\ snapshots = {}
    /\ talks = 0 /\ news = 0 /\ deaths = 0
    /\ archived = {} /\ archivedAgain = {} /\ saved = {} /\ abandoned = {}
    /\ overtaken = FALSE

-----------------------------------------------------------------------------
(* Sessions and the file *)

\* A cursor beyond the messages is reset when a session is read.
Loaded == IF sessionFile.lc > Len(sessionFile.msgs)
          THEN [sessionFile EXCEPT !.lc = 0] ELSE sessionFile

Held == {cachedSession, talk.obj} \cup
        (IF consolidating = NoTask THEN {} ELSE {consolidating.obj})
NewObject == CHOOSE o \in Objects : o \notin Held

OpenedUncached == NewObject
\* get_or_create(): the object it returns, and what that object holds.
Opened == IF cachedSession = NoObject THEN NewObject ELSE cachedSession
OpenedSession == IF cachedSession = NoObject THEN Loaded ELSE objects[cachedSession]

\* enforce_file_cap() drops the oldest messages, up to a user's message.  There is
\* one among the last FileCap: a turn here is two messages, and FileCap is at least
\* two; the code's way out of a tail without any (manager.py:413-422) is not modelled.
KeptFrom(s) ==
    IF Len(s.msgs) <= FileCap THEN 1
    ELSE CHOOSE i \in Len(s.msgs) - FileCap + 1 .. Len(s.msgs) :
            /\ IsUsers(s.msgs[i])
            /\ \A k \in Len(s.msgs) - FileCap + 1 .. i - 1 : ~IsUsers(s.msgs[k])

\* Mutant: the cursor is not shifted.
CursorAfterTrimKept(s) == s.lc
CursorAfterTrim(s) ==
    IF s.lc >= KeptFrom(s) THEN s.lc - KeptFrom(s) + 1 ELSE 0

Trimmed(s) ==
    IF KeptFrom(s) = 1 THEN s
    ELSE [msgs |-> SubSeq(s.msgs, KeptFrom(s), Len(s.msgs)), lc |-> CursorAfterTrim(s)]

\* What the cap drops without its having been archived is archived raw.
DroppedRaw(s) == Unarchived(s) \ Elements(Trimmed(s).msgs)

Archives(msgs) ==
    /\ archived' = archived \cup msgs
    /\ archivedAgain' = archivedAgain \cup (msgs \cap archived)

CutUnder(o, s) ==
    consolidating # NoTask /\ consolidating.obj = o /\ KeptFrom(s) > 1

\* save(): the file and the cache now hold object o, which holds s trimmed.
Save(o, s, archiving) ==
    /\ objects' = [objects EXCEPT ![o] = Trimmed(s)]
    /\ sessionFile' = Trimmed(s)
    /\ cachedSession' = o
    /\ saved' = saved \cup Elements(Trimmed(s).msgs)
    /\ Archives(archiving \cup DroppedRaw(s))
    /\ overtaken' = (overtaken \/ CutUnder(o, s))

-----------------------------------------------------------------------------
(* Turns *)

\* A user's message without an answer is closed by the next turn.
ClosedSession(s) ==
    IF s.msgs # <<>> /\ IsUsers(s.msgs[Len(s.msgs)])
    THEN [s EXCEPT !.msgs = Append(@, s.msgs[Len(s.msgs)] + 1)] ELSE s

\* A turn opens the session, closes what an earlier turn left open and asks
\* for consolidation.  A direct turn publishes no pending queue.
StartTalk(kind) ==
    /\ talk.phase = "none" /\ talks < MaxTalks
    /\ talks' = talks + 1
    /\ talk' = [phase |-> "queued", kind |-> kind, obj |-> Opened, n |-> talks + 1]
    /\ lockWaiters' = Append(lockWaiters, "turn")
    /\ IF ClosedSession(OpenedSession) # OpenedSession
       THEN Save(Opened, ClosedSession(OpenedSession), {})
       ELSE /\ objects' = [objects EXCEPT ![Opened] = OpenedSession]
            /\ cachedSession' = Opened
            /\ UNCHANGED <<sessionFile, archived, archivedAgain, saved, overtaken>>
    /\ UNCHANGED <<consolidating, archivingIdle, snapshots, news, deaths, abandoned>>

\* The turn appends a message to the object it holds and saves that.
AddMessage(msg) ==
    Save(talk.obj, [objects[talk.obj] EXCEPT !.msgs = Append(@, msg)], {})

PersistUser ==
    /\ talk.phase = "ready"
    /\ AddMessage(2 * talk.n - 1)
    /\ talk' = [talk EXCEPT !.phase = "running"]
    /\ UNCHANGED <<consolidating, lockWaiters, archivingIdle, snapshots,
                   memoryBounds, abandoned>>

\* The end of the turn leaves a consolidation behind.
EndTalk ==
    /\ talk.phase = "running"
    /\ AddMessage(2 * talk.n)
    /\ talk' = NoTalk
    /\ lockWaiters' = Append(lockWaiters, "after")
    /\ UNCHANGED <<consolidating, archivingIdle, snapshots, memoryBounds, abandoned>>

\* The turn is cancelled or fails, also while it waits for or holds the lock.
\* A cancelled turn's checkpoint is restored into the cached session.
Interrupt ==
    /\ talk.phase # "none"
    /\ talk' = NoTalk
    /\ lockWaiters' = RemoveFirst(lockWaiters, "turn")
    /\ consolidating' = IF consolidating # NoTask /\ consolidating.who = "turn"
                        THEN NoTask ELSE consolidating
    /\ \/ UNCHANGED <<sessionFile, cachedSession, objects,
                      archived, archivedAgain, saved, overtaken>>
       \/ /\ talk.phase = "running"
          /\ OpenedSession.msgs # <<>> /\ IsUsers(OpenedSession.msgs[Len(OpenedSession.msgs)])
          /\ Save(Opened, ClosedSession(OpenedSession), {})
    /\ UNCHANGED <<archivingIdle, snapshots, memoryBounds, abandoned>>

\* cmd_new() takes no consolidation lock: it empties the session, saves it,
\* drops it from the cache and archives what was unarchived in the background.
NewSession ==
    /\ talk.phase = "none" /\ news < MaxNews /\ news' = news + 1
    /\ objects' = [objects EXCEPT ![Opened] = EmptySession]
    /\ sessionFile' = EmptySession
    /\ cachedSession' = NoObject
    /\ snapshots' = snapshots \cup ({Unarchived(OpenedSession)} \ {{}})
    /\ overtaken' = (overtaken \/ consolidating # NoTask)
    /\ UNCHANGED <<talk, consolidating, lockWaiters, archivingIdle, talks, deaths,
                   archived, archivedAgain, saved, abandoned>>

SnapshotArchived(chunk) ==
    /\ chunk \in snapshots /\ snapshots' = snapshots \ {chunk}
    /\ Archives(chunk)
    /\ UNCHANGED <<sessionFile, cachedSession, objects, talk, consolidating,
                   lockWaiters, archivingIdle, memoryBounds, saved, abandoned, overtaken>>

-----------------------------------------------------------------------------
(* Consolidation *)

\* check_expired(): any session without a turn on the bus may have been idle
\* for long enough.
CheckExpired ==
    /\ ~archivingIdle /\ (talk.phase = "none" \/ talk.kind = "direct")
    /\ sessionFile.msgs # <<>>
    /\ objects' = [objects EXCEPT ![Opened] = OpenedSession]
    /\ cachedSession' = Opened
    /\ IF OpenedSession.lc < Len(OpenedSession.msgs)
       THEN archivingIdle' = TRUE /\ lockWaiters' = Append(lockWaiters, "idle")
       ELSE UNCHANGED <<archivingIdle, lockWaiters>>
    /\ UNCHANGED <<sessionFile, talk, consolidating, snapshots, memoryBounds, memoryGhosts>>

\* The next chunk ends before a user's message.
Boundaries(s) == {i \in DOMAIN s.msgs : i > s.lc + 1 /\ IsUsers(s.msgs[i])}
Consolidation(who, o, s, end) ==
    [who |-> who, obj |-> o, end |-> end,
     chunk |-> {s.msgs[i] : i \in s.lc + 1 .. end}]

\* Whoever is done, or has nothing to consolidate, releases the lock.
Released(who) ==
    /\ consolidating' = NoTask
    /\ talk' = IF who = "turn" THEN [talk EXCEPT !.phase = "ready"] ELSE talk
    /\ archivingIdle' = (archivingIdle /\ who # "idle")

\* maybe_consolidate_by_tokens() looks the session up anew, under the lock.
ConsolidateTokens ==
    LET who == Head(lockWaiters) IN
    /\ consolidating = NoTask /\ lockWaiters # <<>> /\ who # "idle"
    /\ lockWaiters' = Tail(lockWaiters)
    /\ objects' = [objects EXCEPT ![Opened] = OpenedSession]
    /\ cachedSession' = Opened
    /\ \/ Released(who)
       \/ \E i \in Boundaries(OpenedSession) :
             /\ consolidating' = Consolidation(who, Opened, OpenedSession, i - 1)
             /\ UNCHANGED <<talk, archivingIdle>>
    /\ UNCHANGED <<sessionFile, snapshots, memoryBounds, memoryGhosts>>

\* compact_idle_session() drops the cached object and archives all there is.
CompactIdle ==
    LET o == NewObject IN
    /\ consolidating = NoTask /\ lockWaiters # <<>> /\ Head(lockWaiters) = "idle"
    /\ lockWaiters' = Tail(lockWaiters)
    /\ objects' = [objects EXCEPT ![o] = Loaded]
    /\ cachedSession' = o
    /\ overtaken' = (overtaken \/ talk.phase # "none")
    /\ IF Unarchived(Loaded) = {} THEN Released("idle")
       ELSE /\ consolidating' = Consolidation("idle", o, Loaded, Len(Loaded.msgs))
            /\ UNCHANGED <<talk, archivingIdle>>
    /\ UNCHANGED <<sessionFile, snapshots, memoryBounds,
                   archived, archivedAgain, saved, abandoned>>

AdvancedToEnd(summarized) ==
    [objects[consolidating.obj] EXCEPT !.lc = Len(objects[consolidating.obj].msgs)]
AdvancedBySummary(summarized) ==
    IF summarized THEN [objects[consolidating.obj] EXCEPT !.lc = consolidating.end]
    ELSE objects[consolidating.obj]
\* The cursor advances through the captured batch, whether it was summarized
\* or dumped raw.
Advanced(summarized) == [objects[consolidating.obj] EXCEPT !.lc = consolidating.end]

\* archive() returns; after a summary there may be another round.
ArchiveEnds(summarized) ==
    LET who == consolidating.who
        after == Advanced(summarized)
    IN
    /\ consolidating # NoTask
    /\ Save(consolidating.obj, after, consolidating.chunk)
    /\ \/ Released(who)
       \/ /\ summarized /\ who # "idle"
          /\ \E i \in Boundaries(Trimmed(after)) :
                consolidating' = Consolidation(who, consolidating.obj, Trimmed(after), i - 1)
          /\ UNCHANGED <<talk, archivingIdle>>
    /\ UNCHANGED <<lockWaiters, snapshots, memoryBounds, abandoned>>

\* The process dies, also between archiving a batch and saving the cursor.
Die ==
    /\ deaths < MaxDeaths /\ deaths' = deaths + 1
    /\ cachedSession' = NoObject /\ objects' = [o \in Objects |-> EmptySession]
    /\ talk' = NoTalk /\ consolidating' = NoTask
    /\ lockWaiters' = <<>> /\ archivingIdle' = FALSE /\ snapshots' = {}
    /\ abandoned' = abandoned \cup UNION snapshots
    /\ \/ UNCHANGED <<archived, archivedAgain>>
       \/ consolidating # NoTask /\ Archives(consolidating.chunk)
    /\ UNCHANGED <<sessionFile, talks, news, saved, overtaken>>

Consolidate ==
    \/ CheckExpired \/ ConsolidateTokens \/ CompactIdle
    \/ \E summarized \in BOOLEAN : ArchiveEnds(summarized)

MemoryNext ==
    \/ \E kind \in TalkKinds : StartTalk(kind)
    \/ PersistUser \/ EndTalk \/ Interrupt
    \/ NewSession \/ \E chunk \in snapshots : SnapshotArchived(chunk)
    \/ Consolidate \/ Die

MemorySpec == MemoryInit /\ [][MemoryNext]_memoryVars

-----------------------------------------------------------------------------
(* Properties *)

MemoryTypeOK ==
    LET Messages == 1 .. 2 * MaxTalks
        IsSession(s) ==
            /\ DOMAIN s.msgs = 1 .. Len(s.msgs) /\ Elements(s.msgs) \subseteq Messages
            /\ s.lc \in Nat /\ (overtaken \/ s.lc <= Len(s.msgs))
            /\ Len(s.msgs) <= FileCap
    IN
    /\ IsSession(sessionFile) /\ \A o \in Objects : IsSession(objects[o])
    /\ cachedSession \in Objects \cup {NoObject}
    /\ talk.phase \in {"none", "queued", "ready", "running"}
    /\ talk.obj \in IF talk.phase = "none" THEN {NoObject} ELSE Objects
    /\ \A i \in DOMAIN lockWaiters : lockWaiters[i] \in {"turn", "after", "idle"}
    /\ archivingIdle \in BOOLEAN /\ overtaken \in BOOLEAN
    /\ \A chunk \in snapshots : chunk \subseteq Messages

CurrentSession == IF cachedSession = NoObject THEN Loaded ELSE objects[cachedSession]

Remembered == archived \cup abandoned \cup (UNION snapshots) \cup Unarchived(CurrentSession)

\* compact_idle_session: "Advance only through the captured batch so new
\* messages remain eligible next time."  A message that was saved is in
\* history.jsonl, in a snapshot on its way there, or beyond the cursor,
\* unless a consolidation was overtaken or a crash cut off /new's archiving.
NothingForgotten == overtaken \/ saved \subseteq Remembered

\* The same without the first exception.
NothingForgottenAnyhow == saved \subseteq Remembered

\* maybe_consolidate_by_tokens: "Re-archiving the same chunk on the next call
\* would just emit duplicate [RAW] entries."  Turns, background tasks, the
\* idle scan, /new and the file cap archive no message twice, except where a
\* consolidation was overtaken or the process died before saving its cursor.
ArchivedOnce == overtaken \/ deaths > 0 \/ archivedAgain = {}

\* "Refresh session reference: AutoCompact may have replaced it."  The turn,
\* the consolidation and the cache hold one object, which is what is on file.
OneSession ==
    ~overtaken =>
        /\ talk.obj \in {NoObject, cachedSession}
        /\ consolidating # NoTask => consolidating.obj = cachedSession
        /\ cachedSession # NoObject => objects[cachedSession] = Loaded
=============================================================================
