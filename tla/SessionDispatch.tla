--------------------------- MODULE SessionDispatch ---------------------------
(***************************************************************************)
(* The dispatcher of nanobot/agent/loop.py: one run loop consumes the      *)
(* inbound bus and turns every message into a task, a mid-turn follow-up,  *)
(* a deferred automation turn or a command handled inline.  A task runs a  *)
(* turn under its session's FIFO lock and then the global gate.            *)
(*                                                                         *)
(* A message is in one place at a time, so it also names its task and the  *)
(* pending queue that task publishes while its turn runs.                  *)
(***************************************************************************)
EXTENDS Integers, Sequences, SequencesExt, FiniteSets, DistinctLists

CONSTANTS
    Sessions,      \* effective session keys
    Temporary,     \* sessions whose messages set require_existing_session
    Messages,      \* the messages of a behaviour
    SessionOf,     \* the session each message is for
    KindOf,        \* what each message is
    None,          \* no message
    GateSlots,     \* NANOBOT_MAX_CONCURRENT_REQUESTS
    QueueCap,      \* maxsize of a pending queue
    InjectLimit,   \* messages one drain may take
    LoopYields     \* whether the run loop lets new tasks start between two
                   \* messages: wait_for() wraps the coroutine in a task up to
                   \* Python 3.11 and awaits it in place from 3.12 on

Commands == {"stop", "new", "discard"}
Kinds == {"user", "automation", "direct"} \cup Commands

ASSUME SessionsAssumption == Temporary \subseteq Sessions
ASSUME MessagesAssumption ==
    /\ IsFiniteSet(Messages)
    /\ None \notin Messages
    /\ SessionOf \in [Messages -> Sessions]
    /\ KindOf \in [Messages -> Kinds]
    /\ \A m \in Messages :
          SessionOf[m] \in Temporary => KindOf[m] \in {"user"} \cup Commands
ASSUME BoundsAssumption ==
    /\ GateSlots \in Nat \ {0}
    /\ QueueCap \in Nat \ {0}
    /\ InjectLimit \in Nat \ {0}
    /\ LoopYields \in BOOLEAN

VARIABLES
    inbound,        \* MessageBus.inbound
    at,             \* where each message is
    fate,           \* how the message was settled
    cancel,         \* tasks with a cancellation not yet delivered
    activeTasks,    \* AgentLoop._active_tasks
    lock,           \* the message whose task holds each session's lock
    lockQueue,      \* tasks waiting for each session's lock
    gate,           \* tasks holding a slot of the concurrency gate
    gateQueue,      \* tasks waiting for a slot
    pendingQueues,  \* AgentLoop._pending_queues, by the owner of the queue
    pending,        \* contents of the queue each task created
    deferred,       \* AgentLoop._deferred_automation_turns
    waiters,        \* automation turns whose submit() awaits its future
    inline,         \* the command the run loop is executing, or None
    joining,        \* tasks a command cancelled and still awaits
    cached,         \* SessionManager's cache
    discarding      \* AgentLoop._discarding_sessions

bus   == <<inbound, deferred, waiters>>
locks == <<lock, lockQueue, gate, gateQueue>>
turns == <<pendingQueues, pending>>
tasks == <<cancel, activeTasks, inline, joining>>
store == <<cached, discarding>>
vars  == <<at, fate, bus, locks, turns, tasks, store>>

Places == {"unsent", "inbound", "inline", "queued", "deferred", "created",
           "lockWait", "gateWait", "turn", "clearing", "rejected", "done"}
Fates  == {"none", "answered", "failed", "cancelled", "absorbed", "dropped"}

InTurn   == {"turn", "clearing", "rejected"}     \* inside _process_message
HoldLock == {"gateWait"} \cup InTurn             \* inside `async with lock`
TaskLive == {"created", "lockWait"} \cup HoldLock

Requires(m) == SessionOf[m] \in Temporary /\ KindOf[m] # "discard"
IsDirect(m) == KindOf[m] = "direct"

Init ==
    /\ inbound = <<>> /\ gateQueue = <<>>
    /\ at = [m \in Messages |-> "unsent"]
    /\ fate = [m \in Messages |-> "none"]
    /\ cancel = {} /\ gate = {} /\ waiters = {} /\ discarding = {}
    /\ activeTasks = [s \in Sessions |-> {}]
    /\ lock = [s \in Sessions |-> None]
    /\ lockQueue = [s \in Sessions |-> <<>>]
    /\ pendingQueues = [s \in Sessions |-> None]
    /\ pending = [m \in Messages |-> <<>>]
    /\ deferred = [s \in Sessions |-> <<>>]
    /\ inline = None
    /\ joining = [m \in Messages |-> {}]
    /\ cached \in {c \in SUBSET Sessions : Temporary \subseteq c}

Move(m, place) == at' = [at EXCEPT ![m] = place]
Settle(m, f)   == Move(m, "done") /\ fate' = [fate EXCEPT ![m] = f]

-----------------------------------------------------------------------------
(* The environment: channels, automation submitters and direct callers.     *)

\* publish_inbound(); for an automation turn, submit() registers its future
\* before it publishes.
Publish(m) ==
    /\ at[m] = "unsent" /\ ~IsDirect(m)
    /\ Move(m, "inbound")
    /\ inbound' = Append(inbound, m)
    /\ waiters' = IF KindOf[m] = "automation" THEN waiters \cup {m} ELSE waiters
    /\ UNCHANGED <<fate, deferred, locks, turns, tasks, store>>

\* process_direct(): the caller's own task goes straight for the lock.
CallDirect(m) ==
    /\ at[m] = "unsent" /\ IsDirect(m)
    /\ Move(m, "created")
    /\ UNCHANGED <<fate, bus, locks, turns, tasks, store>>

\* The caller of process_direct() is itself cancelled.
AbandonDirect(m) ==
    /\ IsDirect(m) /\ at[m] \in TaskLive /\ m \notin cancel
    /\ cancel' = cancel \cup {m}
    /\ UNCHANGED <<at, fate, bus, locks, turns, activeTasks, inline, joining, store>>

-----------------------------------------------------------------------------
(* The run loop.  It is blocked while a command awaits cancelled tasks.     *)

Consume(m) ==
    /\ inline = None /\ inbound # <<>> /\ m = Head(inbound)
    /\ LoopYields => \A t \in Messages : at[t] # "created"
    /\ inbound' = Tail(inbound)

SessionActive(s) == pendingQueues[s] # None
Passes(m) == Requires(m) => SessionOf[m] \in cached
QueueFull(s) == Len(pending[pendingQueues[s]]) >= QueueCap

\* Only what is neither a command nor an automation turn may be injected.
Injectable(m) == KindOf[m] = "user"

\* Mutant: the command does not wait for the tasks it cancelled.
AllEndedUnawaited(m) == TRUE
\* The awaits of _cancel_active_tasks() are over.
AllEnded(m) == \A t \in joining[m] : at[t] = "done"

\* _cancel_active_tasks() up to its first await, run by the task or inline
\* command m: the session's task set is taken and every task in it cancelled.
CancelActive(m) ==
    LET s == SessionOf[m]
        stopped == activeTasks[s] \ {m}
    IN  /\ activeTasks' = [activeTasks EXCEPT ![s] = {}]
        /\ cancel' = cancel \cup stopped
        /\ joining' = [joining EXCEPT ![m] = stopped]

\* Messages of a temporary chat that is gone.
DropUnbound(m) ==
    /\ Consume(m) /\ ~Passes(m)
    /\ Settle(m, "dropped")
    /\ UNCHANGED <<deferred, waiters, locks, turns, tasks, store>>

\* /stop always, /new while the session is active, and the discard control.
RunInline(m) ==
    /\ Consume(m) /\ Passes(m)
    /\ \/ KindOf[m] \in {"stop", "discard"}
       \/ KindOf[m] = "new" /\ SessionActive(SessionOf[m])
    /\ Move(m, "inline")
    /\ inline' = m
    /\ CancelActive(m)
    /\ IF KindOf[m] = "discard"
       THEN /\ discarding' = discarding \cup {SessionOf[m]}
            /\ cached' = cached \ {SessionOf[m]}
       ELSE UNCHANGED store
    /\ UNCHANGED <<fate, deferred, waiters, locks, turns>>

\* The rest of the command once every task it cancelled has ended.  /stop
\* then throws away the queue still published for the session, /new leaves a
\* saved, uncached session behind.
FinishInline(m) ==
    LET s == SessionOf[m]
        drained == IF KindOf[m] = "stop" /\ SessionActive(s)
                   THEN ToSet(pending[pendingQueues[s]]) ELSE {}
    IN  /\ inline = m
        /\ AllEnded(m)
        /\ inline' = None
        /\ joining' = [joining EXCEPT ![m] = {}]
        /\ at' = [t \in Messages |-> IF t \in drained \cup {m} THEN "done" ELSE at[t]]
        /\ fate' = [t \in Messages |-> CASE t = m -> "answered"
                                         [] t \in drained -> "dropped"
                                         [] OTHER -> fate[t]]
        /\ IF KindOf[m] = "stop" /\ SessionActive(s)
           THEN /\ pending' = [pending EXCEPT ![pendingQueues[s]] = <<>>]
                /\ pendingQueues' = [pendingQueues EXCEPT ![s] = None]
           ELSE UNCHANGED turns
        /\ cached' = IF KindOf[m] = "new" THEN cached \ {s} ELSE cached
        /\ discarding' = IF KindOf[m] = "discard" THEN discarding \ {s} ELSE discarding
        /\ UNCHANGED <<bus, locks, cancel, activeTasks>>

\* AutomationTurnCoordinator.defer_if_active()
Defer(m) ==
    /\ Consume(m) /\ KindOf[m] = "automation" /\ SessionActive(SessionOf[m])
    /\ Move(m, "deferred")
    /\ deferred' = [deferred EXCEPT ![SessionOf[m]] = Append(@, m)]
    /\ UNCHANGED <<fate, waiters, locks, turns, tasks, store>>

\* A follow-up of an active session goes into the running turn's queue.
RouteFollowUp(m) ==
    LET s == SessionOf[m] IN
    /\ Consume(m) /\ Passes(m) /\ Injectable(m)
    /\ SessionActive(s) /\ ~QueueFull(s)
    /\ Move(m, "queued")
    /\ pending' = [pending EXCEPT ![pendingQueues[s]] = Append(@, m)]
    /\ UNCHANGED <<fate, deferred, waiters, locks, pendingQueues, tasks, store>>

\* Everything else becomes a task of its own, a follow-up that found the
\* queue full included.
CreateTask(m) ==
    LET s == SessionOf[m] IN
    /\ Consume(m) /\ Passes(m) /\ KindOf[m] \in {"user", "automation", "new"}
    /\ SessionActive(s) => KindOf[m] = "user" /\ QueueFull(s)
    /\ Move(m, "created")
    /\ activeTasks' = [activeTasks EXCEPT ![s] = @ \cup {m}]
    /\ UNCHANGED <<fate, deferred, waiters, locks, turns, cancel, inline, joining, store>>

-----------------------------------------------------------------------------
(* A task: lock, gate, turn.  Uncontended acquisitions do not suspend.      *)

\* Mutant: one turn too many.
GateFreeOffByOne == gateQueue = <<>> /\ Cardinality(gate) <= GateSlots
\* Semaphore.locked() negated: a slot is free and nobody waits for one.
GateFree == gateQueue = <<>> /\ Cardinality(gate) < GateSlots

\* Mutant: a lock of its own for every task.
LockFreeAlways(s) == TRUE
\* Lock.acquire() does not suspend: the lock is free and nobody waits for it.
LockFree(s) == lock[s] = None /\ lockQueue[s] = <<>>

\* asyncio.Lock wakes its first waiter.
NextForLock(s) == Head(lockQueue[s])

\* The first stages of a turn: the session is opened, unless it has to exist
\* and does not; /new runs its cancellation before the turn first suspends.
OpenSession(m) ==
    LET s == SessionOf[m]
        missing == Requires(m) /\ s \notin cached
    IN  /\ Move(m, CASE missing -> "rejected"
                     [] ~missing /\ KindOf[m] = "new" -> "clearing"
                     [] OTHER -> "turn")
        /\ cached' = IF missing THEN cached ELSE cached \cup {s}
        /\ IF KindOf[m] = "new" /\ ~missing THEN CancelActive(m)
           ELSE UNCHANGED <<cancel, activeTasks, joining>>

\* The turn starts: a bus turn publishes its queue, then the stages run.
BeginTurn(m) ==
    /\ pendingQueues' = IF IsDirect(m) THEN pendingQueues
                        ELSE [pendingQueues EXCEPT ![SessionOf[m]] = m]
    /\ OpenSession(m)

WithLock(m) ==
    /\ lock' = [lock EXCEPT ![SessionOf[m]] = m]
    /\ IF IsDirect(m) \/ GateFree
       THEN /\ BeginTurn(m)
            /\ gate' = IF IsDirect(m) THEN gate ELSE gate \cup {m}
            /\ UNCHANGED gateQueue
       ELSE /\ Move(m, "gateWait")
            /\ gateQueue' = Append(gateQueue, m)
            /\ UNCHANGED <<gate, cached, pendingQueues, cancel, activeTasks, joining>>

Start(m) ==
    LET s == SessionOf[m] IN
    /\ at[m] = "created" /\ m \notin cancel
    /\ IF LockFree(s)
       THEN WithLock(m) /\ UNCHANGED lockQueue
       ELSE /\ Move(m, "lockWait")
            /\ lockQueue' = [lockQueue EXCEPT ![s] = Append(@, m)]
            /\ UNCHANGED <<lock, gate, gateQueue, cached, pendingQueues,
                           cancel, activeTasks, joining>>
    /\ UNCHANGED <<fate, bus, pending, inline, discarding>>

AcquireLock(m) ==
    LET s == SessionOf[m] IN
    /\ at[m] = "lockWait" /\ m \notin cancel
    /\ lock[s] = None /\ lockQueue[s] # <<>> /\ m = NextForLock(s)
    /\ lockQueue' = [lockQueue EXCEPT ![s] = Tail(@)]
    /\ WithLock(m)
    /\ UNCHANGED <<fate, bus, pending, inline, discarding>>

TakeGate(m) ==
    /\ at[m] = "gateWait" /\ m \notin cancel
    /\ gateQueue # <<>> /\ m = Head(gateQueue) /\ Cardinality(gate) < GateSlots
    /\ gateQueue' = Tail(gateQueue)
    /\ gate' = gate \cup {m}
    /\ BeginTurn(m)
    /\ UNCHANGED <<fate, bus, lock, lockQueue, pending, inline, discarding>>

\* _drain_pending(): the runner takes follow-ups into the running turn.
Drain(m) ==
    LET n == IF Len(pending[m]) < InjectLimit THEN Len(pending[m]) ELSE InjectLimit
        taken == {pending[m][i] : i \in 1..n}
    IN  /\ at[m] = "turn" /\ m \notin cancel /\ n > 0
        /\ pending' = [pending EXCEPT ![m] = SubSeq(@, n + 1, Len(@))]
        /\ at' = [t \in Messages |-> IF t \in taken THEN "done" ELSE at[t]]
        /\ fate' = [t \in Messages |-> IF t \in taken THEN "absorbed" ELSE fate[t]]
        /\ UNCHANGED <<bus, locks, pendingQueues, tasks, store>>

\* Mutant: a finished turn leaves the deferred ones where they are.
NextDeferredNone(s) == <<>>
\* publish_next_deferred_turn() publishes the first deferred turn, if any.
NextDeferred(s) == IF deferred[s] = <<>> THEN <<>> ELSE <<Head(deferred[s])>>

RestDeferred(s) == IF deferred[s] = <<>> THEN <<>> ELSE Tail(deferred[s])

\* Back onto the bus: the messages of seq, then the next deferred turn of s.
Republish(seq, s, m, f) ==
    LET back == seq \o NextDeferred(s) IN
    /\ inbound' = inbound \o back
    /\ deferred' = [deferred EXCEPT ![s] = RestDeferred(s)]
    /\ at' = [t \in Messages |-> CASE t = m -> "done"
                                   [] t \in ToSet(back) -> "inbound"
                                   [] OTHER -> at[t]]
    /\ fate' = [fate EXCEPT ![m] = f]

\* Mutant: what is left in the queue is forgotten with it.
LeftoversLost(m) == <<>>
Leftovers(m) == pending[m]

\* Mutant: the queue stays published after its turn.
WithdrawQueueNever(m) == pendingQueues
\* A task withdraws only the queue it published itself.
WithdrawQueue(m) ==
    [s \in Sessions |-> IF pendingQueues[s] = m THEN None ELSE pendingQueues[s]]

\* Mutant: the error path does not complete the coordinator.
StillWaitingOnError(m, f) == IF f = "failed" THEN waiters ELSE waiters \ {m}
\* Mutant: the cancelled path does not complete it.
StillWaitingOnCancel(m, f) == IF f = "cancelled" THEN waiters ELSE waiters \ {m}
\* coordinator.complete() resolves the future; submit() then forgets it.
StillWaiting(m, f) == waiters \ {m}

\* Mutant: a cancelled turn always reopens its session.
CacheAfterReopening(m, f) ==
    IF f = "cancelled" THEN cached \cup {SessionOf[m]} ELSE cached
\* A cancelled turn reopens its session to restore the checkpoint, unless the
\* session is being discarded; saving caches it; /new uncaches it.
CacheAfter(m, f) ==
    LET s == SessionOf[m] IN
    CASE f = "cancelled" /\ s \notin discarding -> cached \cup {s}
      [] f = "answered" /\ at[m] = "clearing" -> cached \ {s}
      [] f = "answered" /\ at[m] = "turn" /\ s \notin Temporary -> cached \cup {s}
      [] OTHER -> cached

TaskDone(m) ==
    /\ cancel' = cancel \ {m}
    /\ activeTasks' = [activeTasks EXCEPT ![SessionOf[m]] = @ \ {m}]
    /\ UNCHANGED inline

\* The turn ends and its task runs through every finally to the end: the
\* waiter is answered, the queue withdrawn and its leftovers republished, the
\* gate and the lock released.
EndTurn(m, f) ==
    LET s == SessionOf[m] IN
    /\ at[m] \in InTurn /\ ~IsDirect(m)
    /\ \/ f = "answered" /\ at[m] \in {"turn", "clearing"} /\ m \notin cancel
       \/ f = "failed" /\ m \notin cancel
       \/ f = "cancelled" /\ m \in cancel
    /\ AllEnded(m)
    /\ waiters' = StillWaiting(m, f)
    /\ cached' = CacheAfter(m, f)
    /\ pendingQueues' = WithdrawQueue(m)
    /\ pending' = [pending EXCEPT ![m] = <<>>]
    /\ Republish(Leftovers(m), s, m, f)
    /\ joining' = [joining EXCEPT ![m] = {}]
    /\ lock' = [lock EXCEPT ![s] = None]
    /\ gate' = gate \ {m}
    /\ TaskDone(m)
    /\ UNCHANGED <<lockQueue, gateQueue, discarding>>

\* process_direct() ends: it owns neither a queue nor a slot of the gate.
EndDirect(m, f) ==
    /\ IsDirect(m) /\ at[m] = "turn"
    /\ f \in (IF m \in cancel THEN {"cancelled"} ELSE {"answered", "failed"})
    /\ Settle(m, f)
    /\ lock' = [lock EXCEPT ![SessionOf[m]] = None]
    /\ TaskDone(m)
    /\ UNCHANGED <<bus, lockQueue, gate, gateQueue, turns, joining, store>>

\* A cancelled task that never ran its first step does nothing at all.
CancelUnstarted(m) ==
    /\ at[m] = "created" /\ m \in cancel
    /\ Settle(m, "cancelled")
    /\ TaskDone(m)
    /\ UNCHANGED <<bus, locks, turns, joining, store>>

\* Cancelled while waiting for the lock or the gate (pending is None): the
\* next deferred turn is published, the turn's own waiter is not answered.
CancelWaiting(m) ==
    LET s == SessionOf[m] IN
    /\ at[m] \in {"lockWait", "gateWait"} /\ m \in cancel
    /\ IF IsDirect(m) THEN Settle(m, "cancelled") /\ UNCHANGED <<inbound, deferred>>
       ELSE Republish(<<>>, s, m, "cancelled")
    /\ lockQueue' = [lockQueue EXCEPT ![s] = Without(@, m)]
    /\ gateQueue' = Without(gateQueue, m)
    /\ lock' = IF lock[s] = m THEN [lock EXCEPT ![s] = None] ELSE lock
    /\ TaskDone(m)
    /\ UNCHANGED <<waiters, gate, turns, joining, store>>

-----------------------------------------------------------------------------
RunLoop == \E m \in Messages :
    \/ DropUnbound(m) \/ RunInline(m) \/ FinishInline(m)
    \/ Defer(m) \/ RouteFollowUp(m) \/ CreateTask(m)

Advance(m) == Start(m) \/ AcquireLock(m) \/ TakeGate(m)

End(m) ==
    \/ \E f \in Fates : EndTurn(m, f) \/ EndDirect(m, f)
    \/ CancelUnstarted(m) \/ CancelWaiting(m)

Next ==
    \/ \E m \in Messages :
          \/ Publish(m) \/ CallDirect(m) \/ AbandonDirect(m)
          \/ Advance(m) \/ Drain(m) \/ End(m)
    \/ RunLoop

\* The event loop runs every ready task, the run loop included; turns end
\* (model calls and tools carry timeouts).  Nobody has to send anything.
Fairness ==
    /\ WF_vars(RunLoop)
    /\ \A m \in Messages : WF_vars(Advance(m)) /\ WF_vars(End(m))

Spec == Init /\ [][Next]_vars
FairSpec == Spec /\ Fairness

-----------------------------------------------------------------------------
(* Properties *)

TypeOK ==
    /\ inbound \in Seq(Messages) /\ gateQueue \in Seq(Messages)
    /\ at \in [Messages -> Places] /\ fate \in [Messages -> Fates]
    /\ cancel \subseteq Messages /\ gate \subseteq Messages /\ waiters \subseteq Messages
    /\ activeTasks \in [Sessions -> SUBSET Messages]
    /\ joining \in [Messages -> SUBSET Messages]
    /\ lock \in [Sessions -> Messages \cup {None}]
    /\ pendingQueues \in [Sessions -> Messages \cup {None}]
    /\ lockQueue \in [Sessions -> Seq(Messages)]
    /\ deferred \in [Sessions -> Seq(Messages)]
    /\ pending \in [Messages -> Seq(Messages)]
    /\ inline \in Messages \cup {None}
    /\ cached \subseteq Sessions /\ discarding \subseteq Sessions

\* _dispatch: "per-session serial".  Two turns of one session, direct calls
\* included, never run at the same time.
TurnsAreSerial ==
    \A m, n \in Messages :
        (at[m] \in InTurn /\ at[n] \in InTurn /\ SessionOf[m] = SessionOf[n]) => m = n

\* The gate bounds how many bus turns run at once, whatever gets cancelled.
GateBoundsTurns ==
    Cardinality({m \in Messages : at[m] \in InTurn /\ ~IsDirect(m)}) <= GateSlots

\* Only the turn that holds the session's lock has its queue published, so a
\* waiting task never steals the active turn's queue or its clean-up.
QueueBelongsToTurn ==
    \A s \in Sessions : pendingQueues[s] # None =>
        /\ lock[s] = pendingQueues[s]
        /\ at[pendingQueues[s]] \in InTurn
        /\ ~IsDirect(pendingQueues[s])

Placed(place, s) == {m \in Messages : at[m] = place /\ SessionOf[m] = s}

\* The bus and the deferred queues hold every message that is there, once:
\* nothing is lost or run twice however often queues are republished.
BusHoldsOnce ==
    /\ Lists(inbound, {m \in Messages : at[m] = "inbound"})
    /\ \A s \in Sessions : Lists(deferred[s], Placed("deferred", s))

\* A follow-up sits only in the queue that its session still publishes, whose
\* turn will take it or republish it; no other queue holds anything.
FollowUpsHeldOnce ==
    /\ \A s \in Sessions :
          IF pendingQueues[s] = None THEN Placed("queued", s) = {}
          ELSE Lists(pending[pendingQueues[s]], Placed("queued", s))
    /\ \A m \in Messages : pending[m] # <<>> => pendingQueues[SessionOf[m]] = m

\* Everybody who waits for a lock or for the gate stands in its queue, once.
WaitersQueued ==
    /\ Lists(gateQueue, {m \in Messages : at[m] = "gateWait"})
    /\ \A s \in Sessions : Lists(lockQueue[s], Placed("lockWait", s))

\* Something that will end or be consumed in session s, after which the next
\* deferred automation turn is published.
Carrier(s) ==
    \E m \in Messages :
        /\ SessionOf[m] = s /\ ~IsDirect(m)
        /\ at[m] \in TaskLive \/ (at[m] = "inbound" /\ KindOf[m] = "automation")

\* docs/concepts.md: a busy session makes an automation turn wait "until that
\* session is idle".  No deferred turn is left behind in an idle session.
DeferredHasCarrier == \A s \in Sessions : deferred[s] # <<>> => Carrier(s)

\* A submitted automation turn whose submitter still waits is still on its
\* way: it is not over without having answered its waiter.
WaiterHasTurn == \A m \in waiters : at[m] # "done"

\* AutomationTurnCoordinator.complete(): a turn that got to run tells its
\* submitter when it ends, answered, failed or cancelled; and none is absorbed
\* by another turn or thrown away while its submitter waits.
RanTurnsReport ==
    /\ [](\A m \in waiters : fate[m] \in {"none", "cancelled"})
    /\ [][\A m \in Messages :
            (at[m] \in InTurn /\ at'[m] \notin InTurn) => m \notin waiters']_vars

\* When /stop or the discard control reports back, no turn it could cancel is
\* still running in its session: only direct calls, a /new that is itself
\* clearing the session, and tasks which that /new has cancelled and awaits.
StopLeavesNoTurn ==
    [][(inline # None /\ inline' = None) =>
          \A m \in Messages :
             (SessionOf[m] = SessionOf[inline] /\ at[m] \in TaskLive) =>
                \/ IsDirect(m) \/ at[m] = "clearing"
                \/ \E n \in Messages : at[n] = "clearing" /\ m \in joining[n]]_vars

\* tests/command/test_stop_pending_queue.py: "cmd_stop should drain pending
\* queue in addition to cancelling active tasks".  A follow-up queued behind
\* the turn that /stop is stopping is thrown away, not sent round again.
StopDropsFollowUps ==
    [][\A m \in Messages :
          (/\ inline # None /\ KindOf[inline] = "stop" /\ SessionOf[inline] = SessionOf[m]
           /\ at[m] = "queued" /\ at'[m] # "queued") => at'[m] = "done"]_vars

\* A temporary chat that was discarded is not reopened by the turns, cleanups
\* or follow-ups it leaves behind.
TemporaryStaysGone ==
    [][\A s \in Temporary : s \notin cached => s \notin cached']_vars

\* Every message that reaches the bus is settled in the end.
EveryMessageSettles ==
    \A m \in {n \in Messages : ~IsDirect(n)} :
        at[m] = "inbound" ~> at[m] = "done"

\* Every submitted automation turn is answered in the end.
SubmittersAreAnswered ==
    \A m \in {n \in Messages : KindOf[n] = "automation"} :
        m \in waiters ~> m \notin waiters

\* What a message's place means to somebody outside the dispatcher.
StatusOf(m) ==
    CASE at[m] = "unsent" -> "unseen"
      [] at[m] \in InTurn -> "running"
      [] at[m] = "done"   -> "over"
      [] OTHER            -> "waiting"

Serial == INSTANCE SerialTurns WITH
    status     <- [m \in Messages |-> StatusOf(m)],
    Ungated    <- {m \in Messages : IsDirect(m)},
    Commanding <- {m \in Messages : KindOf[m] \in Commands},
    Slots      <- GateSlots

\* The dispatcher implements SerialTurns: serial sessions, bounded
\* concurrency, and no message given up without a command.
ImplementsSerialTurns == Serial!Spec
=============================================================================
