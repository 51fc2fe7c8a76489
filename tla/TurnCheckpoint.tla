---------------------------- MODULE TurnCheckpoint ----------------------------
(***************************************************************************)
(* How one session's turns reach its history (nanobot/agent/loop.py): the  *)
(* user's message is saved early, each model response leaves a checkpoint  *)
(* in the session's metadata, the turn's messages are appended and saved   *)
(* at its end, and whatever was cut short is restored from the checkpoint. *)
(* Turns of a session are serial (SessionDispatch); they fail, are         *)
(* cancelled, or die with the process between any two saves.               *)
(***************************************************************************)
EXTENDS Integers, SequencesExt, FiniteSets

CONSTANTS
    MaxTurns,     \* bound: turns in a behaviour
    MaxSteps,     \* max_iterations of the runner, at least one (self.py:118)
    MaxRows,      \* bound: messages behind which the model is asked once more
    MaxCycles,    \* _MAX_INJECTION_CYCLES
    Calls,        \* tool calls of one response
    None

ASSUME BoundsAssumption ==
    /\ MaxTurns \in Nat /\ MaxSteps \in Nat \ {0} /\ MaxCycles \in Nat
    /\ MaxRows \in Nat /\ Calls \in Nat \ {0}

VARIABLES
    history,   \* messages of the cached session
    pending,   \* its pending_user_turn flag
    check,     \* its runtime_checkpoint
    disk,      \* the three as last saved
    phase,     \* where the running turn is
    turn,      \* its number
    step,      \* model responses it has had
    cycles,    \* times follow-ups were injected into it
    work,      \* messages it produced, not in the history yet
    cleared,   \* the last turn that /new has cleared away
    continued, \* turns that a goal carried on in a new turn
    unarchived \* whether enforce_file_cap() ever failed to archive

session == <<history, pending, check>>
run     == <<turn, step, cycles>>
past    == <<cleared, continued, unarchived>>
vars == <<session, disk, phase, run, work, past>>

\* A message: which turn and response it belongs to, and what it is.
Row(kind, n, call) == [turn |-> turn, step |-> n, kind |-> kind, call |-> call]
UserKinds == {"user", "followup", "prompt"}          \* messages of role "user"
ToolKinds == {"result", "interrupted"}               \* messages of role "tool"
Kinds     == UserKinds \cup ToolKinds \cup
             {"calls", "partial", "final", "closing", "event", "reply", "notice"}

Phases == {"idle", "started", "restored", "model", "tools", "ended"}

Saved == [rows |-> history, pending |-> pending, check |-> check]

Init ==
    /\ history = <<>> /\ work = <<>> /\ check = None /\ pending = FALSE
    /\ disk = Saved
    /\ phase = "idle" /\ turn = 0 /\ step = 0 /\ cycles = 0
    /\ cleared = 0 /\ continued = {} /\ unarchived = FALSE

-----------------------------------------------------------------------------
(* Saving.                                                                  *)

Idle == phase' = "idle" /\ work' = <<>>

\* The session is saved as it now is and the turn goes on to `next`; or the
\* save raises and the turn fails with the session changed in memory only.
SaveThen(next, produced) ==
    \/ disk' = Saved' /\ phase' = next /\ work' = produced
    \/ UNCHANGED disk /\ Idle

CallsRow(c)   == [turn |-> c.turn, step |-> c.step, kind |-> "calls", call |-> 0]
ToolRows(c, kind) ==
    [i \in 1 .. Calls |-> [turn |-> c.turn, step |-> c.step, kind |-> kind, call |-> i]]
\* Mutant: calls that were still running get no result.
RowsOfUnanswered(c) ==
    CASE c.phase = "awaiting_tools"  -> <<CallsRow(c)>>
      [] c.phase = "tools_completed" -> <<CallsRow(c)>> \o ToolRows(c, "result")
      [] c.phase = "final_response"  ->
            <<[turn |-> c.turn, step |-> c.step, kind |-> "final", call |-> 0]>>
\* The messages a checkpoint stands for.
RowsOf(c) ==
    CASE c.phase = "awaiting_tools"  -> <<CallsRow(c)>> \o ToolRows(c, "interrupted")
      [] c.phase = "tools_completed" -> <<CallsRow(c)>> \o ToolRows(c, "result")
      [] c.phase = "final_response"  ->
            <<[turn |-> c.turn, step |-> c.step, kind |-> "final", call |-> 0]>>

\* How many of the restored messages the history already ends with.
Overlap(rows, restored) ==
    LET common(n) == SubSeq(rows, Len(rows) - n + 1, Len(rows)) = SubSeq(restored, 1, n)
        sizes == {n \in 0 .. Len(restored) : n <= Len(rows) /\ common(n)}
    IN  CHOOSE n \in sizes : \A k \in sizes : k <= n

\* Mutant: one message too many is taken for already there.
RestoredShort(rows, c) ==
    IF c = None THEN rows
    ELSE rows \o SubSeq(RowsOf(c), Overlap(rows, RowsOf(c)) + 2, Len(RowsOf(c)))
\* _restore_runtime_checkpoint()
Restored(rows, c) ==
    IF c = None THEN rows
    ELSE rows \o SubSeq(RowsOf(c), Overlap(rows, RowsOf(c)) + 1, Len(RowsOf(c)))

EndsWithUser(rows) == rows # <<>> /\ Last(rows).kind \in UserKinds

\* Mutant: the flag is cleared, the unanswered message stays open.
ClosedNever(rows, flag) == rows
\* Mutant: the notice takes the place of the unanswered message.
ClosedReplacing(rows, flag) ==
    IF flag /\ EndsWithUser(rows) THEN Append(Front(rows), Row("notice", 0, 0)) ELSE rows
\* _restore_pending_user_turn()
Closed(rows, flag) ==
    IF flag /\ EndsWithUser(rows) THEN Append(rows, Row("notice", 0, 0)) ELSE rows

-----------------------------------------------------------------------------
(* The stages of a turn before the model runs.                             *)

Begin ==
    /\ phase = "idle" /\ turn < MaxTurns
    /\ turn' = turn + 1 /\ step' = 0 /\ cycles' = 0
    /\ phase' = "started"
    /\ UNCHANGED <<session, disk, work, past>>

\* _restore_turn(): a checkpoint, or else a turn that only saved its input.
RestoreTurn ==
    /\ phase = "started"
    /\ history' = IF check # None THEN Restored(history, check) ELSE Closed(history, pending)
    /\ pending' = FALSE /\ check' = None
    /\ IF check # None \/ pending THEN SaveThen("restored", <<>>)
       ELSE phase' = "restored" /\ UNCHANGED <<disk, work>>
    /\ UNCHANGED <<run, past>>

\* _build_turn(): the user's message is persisted early and marked pending.
PersistUserEarly ==
    /\ phase = "restored"
    /\ history' = Append(history, Row("user", 0, 0))
    /\ pending' = TRUE
    /\ UNCHANGED <<check, run, past>>
    /\ SaveThen("model", <<>>)

\* The result of a sub-agent is persisted without the mark.
PersistEventEarly ==
    /\ phase = "restored"
    /\ history' = Append(history, Row("event", 0, 0))
    /\ UNCHANGED <<pending, check, run, past>>
    /\ SaveThen("model", <<>>)

\* A continuation or a message already in the history adds nothing.
PersistNothing ==
    /\ phase = "restored" /\ phase' = "model"
    /\ UNCHANGED <<session, disk, run, work, past>>

\* _dispatch_command(): the command and its reply are saved one after the
\* other; the process may die, or the second save fail, in between.
Command ==
    LET asked    == Append(history, Row("user", 0, 0))
        answered == Append(asked, Row("reply", 0, 0))
        half     == [rows |-> asked, pending |-> TRUE, check |-> check]
    IN
    /\ phase = "restored" /\ Idle
    /\ UNCHANGED <<check, run, past>>
    /\ \/ history' = answered /\ pending' = FALSE /\ disk' \in {Saved', half}
       \/ history' = asked /\ pending' = TRUE /\ disk' \in {disk, half}

-----------------------------------------------------------------------------
(* The runner (AgentRunner._run_core).                                      *)

NextStep == step < MaxSteps /\ step' = step + 1 /\ Len(history) + Len(work) <= MaxRows

\* Follow-ups found in the pending queue are appended, at most MaxCycles times.
Inject(rows, injected) ==
    IF injected THEN Append(rows, Row("followup", step', cycles)) ELSE rows
\* Behind a message of role "user" they are mostly merged into it; with no
\* rows yet that is the turn's input, which the turn does not save again.
InjectOpen(rows) ==
    {Inject(rows, TRUE)} \cup (IF rows = <<>> \/ EndsWithUser(rows) THEN {rows} ELSE {})
MayInject(injected) ==
    /\ injected => cycles < MaxCycles
    /\ cycles' = IF injected THEN cycles + 1 ELSE cycles

Checkpoint(at) == check' = [turn |-> turn, step |-> step', phase |-> at]

\* The model asks for tools.
CallTools ==
    /\ phase = "model" /\ NextStep
    /\ Checkpoint("awaiting_tools")
    /\ UNCHANGED <<history, pending, turn, cycles, past>>
    /\ SaveThen("tools", Append(work, Row("calls", step', 0)))

Results == ToolRows([turn |-> turn, step |-> step], "result")

\* All of its tools are done.
ToolsDone == \E injected \in BOOLEAN :
    /\ phase = "tools" /\ step' = step /\ MayInject(injected)
    /\ Checkpoint("tools_completed")
    /\ UNCHANGED <<history, pending, turn, past>>
    /\ SaveThen("model", Inject(work \o Results, injected))

\* The turn stops here, unless follow-ups keep it going; no checkpoint.
StopWith(rows) == \E injected \in BOOLEAN :
    /\ MayInject(injected)
    /\ work' = Inject(rows, injected)
    /\ phase' = IF injected THEN "model" ELSE "ended"
    /\ UNCHANGED <<session, disk, turn, past>>

\* A tool failed for good.
ToolsFatal ==
    /\ phase = "tools" /\ step' = step
    /\ StopWith(work \o Append(Results, Row("closing", step, 0)))

\* The model answers.  Without follow-ups an active goal may ask it to go on.
Answer == \E injected, goal \in BOOLEAN :
    /\ phase = "model" /\ NextStep /\ MayInject(injected)
    /\ Checkpoint("final_response")
    /\ UNCHANGED <<history, pending, turn, past>>
    /\ LET rows == Append(work, Row("final", step', 0)) IN
       SaveThen(IF injected \/ goal THEN "model" ELSE "ended",
                IF injected \/ ~goal THEN Inject(rows, injected)
                ELSE Append(rows, Row("prompt", step', 0)))

\* The answer is cut off by the length limit and asked to go on; what there is
\* of it is saved unless it is empty.
Truncated ==
    /\ phase = "model" /\ NextStep
    /\ \E part \in {<<>>, <<Row("partial", step', 0)>>} :
          work' = work \o Append(part, Row("prompt", step', 0))
    /\ UNCHANGED <<session, disk, phase, turn, cycles, past>>

\* A blank answer is asked for once more.
Retry ==
    /\ phase = "model" /\ NextStep
    /\ UNCHANGED <<session, disk, phase, turn, cycles, work, past>>

\* The request fails, or the answer stays blank: follow-ups that wait keep the
\* turn going before anything is said of it, and later ones after that.
GiveUp ==
    /\ phase = "model" /\ NextStep
    /\ \/ /\ MayInject(TRUE) /\ work' \in InjectOpen(work)
          /\ UNCHANGED <<session, disk, phase, turn, past>>
       \/ StopWith(Append(work, Row("closing", step', 0)))

\* max_iterations: the last follow-ups are drained and a closing message is
\* added, which a goal that continues in a new turn strips again.
Exhausted == \E injected, continues \in BOOLEAN :
    /\ phase = "model" /\ step = MaxSteps /\ step' = step
    /\ MayInject(injected)
    /\ \E rows \in (IF injected THEN InjectOpen(work) ELSE {work}) :
          work' = IF continues THEN rows ELSE Append(rows, Row("closing", step + 1, 0))
    /\ phase' = "ended"
    /\ continued' = IF continues THEN continued \cup {turn} ELSE continued
    /\ UNCHANGED <<session, disk, turn, cleared, unarchived>>

-----------------------------------------------------------------------------
(* The end of a turn.                                                       *)

\* _save_turn(): results of calls that are already answered are dropped.
Answered(r) ==
    \E h \in ToSet(history) :
        /\ r.kind \in ToolKinds /\ h.kind \in ToolKinds
        /\ <<h.turn, h.step, h.call>> = <<r.turn, r.step, r.call>>
Unanswered(rows) ==
    LET kept == {i \in DOMAIN rows : ~Answered(rows[i])}
        nth(n) == CHOOSE i \in kept : Cardinality(kept \cap 1 .. i) = n
    IN  [n \in 1 .. Cardinality(kept) |-> rows[nth(n)]]

\* Mutant: the saved turn leaves its checkpoint behind.
CheckAfterKept == check
CheckAfter == None

\* _persist_turn()
PersistTurn ==
    /\ phase = "ended"
    /\ history' = history \o Unanswered(work)
    /\ pending' = FALSE /\ check' = CheckAfter
    /\ UNCHANGED <<run, past>>
    /\ SaveThen("idle", <<>>)

\* Archiving the oldest messages raises before the checkpoint is cleared.
ArchivingFails ==
    /\ phase = "ended"
    /\ history' = history \o Unanswered(work)
    /\ Idle
    /\ unarchived' = TRUE
    /\ UNCHANGED <<pending, check, disk, run, cleared, continued>>

\* Any other error, or the cancellation of a direct call.
Fail ==
    /\ phase # "idle" /\ Idle
    /\ UNCHANGED <<session, disk, run, past>>

\* _dispatch() is cancelled: the checkpoint goes to the history at once.  A
\* save that raises is swallowed.
Cancel ==
    /\ phase # "idle" /\ Idle
    /\ history' = Restored(history, check)
    /\ check' = None
    /\ pending' = (pending /\ check = None)
    /\ disk' \in (IF check = None THEN {disk} ELSE {disk, Saved'})
    /\ UNCHANGED <<run, past>>

\* /new as a turn of its own, or inline after it has cancelled the running
\* one: Session.clear() empties the history and leaves the metadata.
New ==
    /\ phase # "idle" /\ Idle
    /\ history' = <<>> /\ check' = None
    /\ \/ phase = "restored" /\ UNCHANGED pending
       \/ pending' = (pending /\ check = None)
    /\ disk' \in {disk, Saved',
                  [rows |-> Restored(history, check), pending |-> pending', check |-> None]}
    /\ cleared' = turn
    /\ UNCHANGED <<run, continued, unarchived>>

\* The process dies; the next one loads what was saved.
Crash ==
    /\ history' = disk.rows /\ pending' = disk.pending /\ check' = disk.check
    /\ Idle
    /\ UNCHANGED <<disk, run, past>>

\* flush_all() at shutdown, or another save of the cached session.
Flush ==
    /\ disk' = Saved
    /\ UNCHANGED <<session, phase, run, work, past>>

-----------------------------------------------------------------------------
Prepare == Begin \/ RestoreTurn \/ PersistUserEarly \/ PersistEventEarly
           \/ PersistNothing \/ Command
Model   == CallTools \/ ToolsDone \/ ToolsFatal \/ Answer \/ Truncated \/ Retry
           \/ GiveUp \/ Exhausted
Finish  == PersistTurn \/ ArchivingFails \/ Fail \/ Cancel \/ New \/ Crash \/ Flush

Next == Prepare \/ Model \/ Finish
Spec == Init /\ [][Next]_vars

-----------------------------------------------------------------------------
(* Properties *)

Messages == [turn : 0 .. MaxTurns, step : 0 .. MaxSteps + 1, kind : Kinds,
             call : 0 .. (IF Calls < MaxCycles THEN MaxCycles ELSE Calls)]
Checkpoints == [turn : 1 .. MaxTurns, step : 1 .. MaxSteps,
                phase : {"awaiting_tools", "tools_completed", "final_response"}]

ASSUME NoneAssumption == None \notin Checkpoints

TypeOK ==
    /\ history \in Seq(Messages) /\ work \in Seq(Messages)
    /\ pending \in BOOLEAN /\ check \in Checkpoints \cup {None}
    /\ disk \in [rows : Seq(Messages), pending : BOOLEAN, check : Checkpoints \cup {None}]
    /\ phase \in Phases
    /\ turn \in 0 .. MaxTurns /\ step \in 0 .. MaxSteps /\ cycles \in 0 .. MaxCycles
    /\ cleared \in 0 .. turn /\ continued \subseteq 1 .. turn /\ unarchived \in BOOLEAN

\* What providers accept (loop.py: "Undeclared tool results corrupt future
\* provider requests"): every tool call is followed by its results, in order,
\* and there is no result without its call.
Legal(rows) ==
    /\ \A i \in 1 .. Len(rows) : rows[i].kind = "calls" =>
          \A c \in 1 .. Calls : i + c <= Len(rows) /\ rows[i + c].call = c
                                /\ rows[i + c].kind \in ToolKinds
    /\ \A i \in 1 .. Len(rows) : rows[i].kind \in ToolKinds =>
          LET j == i - rows[i].call
          IN  j >= 1 /\ rows[j].kind = "calls"
              /\ <<rows[j].turn, rows[j].step>> = <<rows[i].turn, rows[i].step>>

\* No message twice, and no call answered by two results.
OnceEach(rows) ==
    \A i, j \in 1 .. Len(rows) :
        (/\ <<rows[i].turn, rows[i].step, rows[i].call>> = <<rows[j].turn, rows[j].step, rows[j].call>>
         /\ rows[i].kind = rows[j].kind \/ {rows[i].kind, rows[j].kind} \subseteq ToolKinds)
        => i = j

\* Whatever interrupts the turns, what the next one restores is a history a
\* provider accepts, from memory or, after a crash, from the disk.
RestoredIsLegal ==
    /\ Legal(Restored(history, check))
    /\ Legal(Restored(disk.rows, disk.check))

\* test_loop_save_turn.py: "restore_runtime_checkpoint_dedupes_overlapping_tail".
\* Restoring never repeats a message that the history already has, unless
\* enforce_file_cap() has raised: then the checkpoint of a turn without a final
\* response outlives its messages and may be restored behind them.
RestoredOnce ==
    ~unarchived =>
        /\ OnceEach(Restored(history, check))
        /\ OnceEach(Restored(disk.rows, disk.check))

\* A user's message whose turn was cut short is closed, by a notice or by what
\* its checkpoint restores, before the input of another turn is added behind it.
\* A turn that saved nothing because a goal continues it stays open.
UserTurnsClosed ==
    \A i \in 1 .. Len(history) - 1 :
        history[i].kind = "user" /\ history[i + 1].kind \in {"user", "event"}
        => history[i].turn \in continued

\* What is on disk stays there until /new clears the session: no stale copy
\* of the session overwrites a newer one.
DiskKeeps ==
    [][\A r \in ToSet(disk.rows) : r.turn > cleared' => r \in ToSet(disk'.rows)]_vars

\* A checkpoint is given up only for a newer one of its turn, or when the
\* history holds its response and the results it had, or in a crash that takes
\* the session back to what is on disk.
Durable(c) == {r \in ToSet(RowsOf(c)) : r.kind # "interrupted"}
CheckpointLands ==
    [][ (check # None /\ check' # check /\ check.turn > cleared') =>
           \/ check' # None /\ check'.turn = check.turn
           \/ Durable(check) \subseteq ToSet(history')
           \/ <<history', check'>> = <<disk.rows, disk.check>> ]_vars

\* loop.py, _dispatch: "Preserve partial context from the interrupted turn so
\* the user does not lose tool results and assistant messages accumulated
\* before /stop".  Stated for the responses before the latest one.
StopKeepsContext ==
    [][Cancel => \A r \in ToSet(work) :
          r.kind \in {"calls", "result"} /\ r.step < step => r \in ToSet(history')]_vars
=============================================================================
