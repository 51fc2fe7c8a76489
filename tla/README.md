# Verification of the nanobot agent runtime

TLA+ models of the concurrent and crash-exposed parts of nanobot, the TLC runs
that check them, and TLAPS proofs about them.  Line numbers refer to
`src/nanobot/`.

## 1. Inventory

One asyncio process, the *gateway*, holds the agent loop, the channels, the cron
timer and the local-trigger worker.  Other processes (CLI commands, scripts)
share its workspace through files and file locks.

| component | state it keeps | operations | what is hard | what makes it correct |
|---|---|---|---|---|
| **dispatcher** (`agent/loop.py`, `agent/automation_turns.py`, `bus/queue.py`) | inbound bus queue, `_active_tasks`, `_session_locks`, `_concurrency_gate`, `_pending_queues`, deferred automation turns, waiting submitters, `_discarding_sessions` | `run`, `_dispatch`, `process_direct`, `submit`, `defer_if_active`, `complete`, `/stop`, `/new`, `discard_session` | cancellation at each `await`; clean-up in `finally` while another task holds the queue; follow-ups and automation turns taking different ways round | one turn per session; gate respected; no message lost or run twice; every automation submitter answered; deferred turns get published |
| **turn persistence** (`agent/loop.py`, `session/manager.py`) | session history, `pending_user_turn`, `runtime_checkpoint`, JSONL file | persist input early, checkpoint, restore, save | crash between any two saves; `/stop`; restore twice | history stays well formed; nothing appears twice; what was on disk is not lost |
| **agent runner** (`agent/runner.py`) | message list of one turn, injection and retry counters | iterate model/tools, drain follow-ups (at most 3, 5 cycles), checkpoint | injections at five points, waits up to 300 s for sub-agents | tool calls always answered; bounded cycles |
| **sub-agents** (`agent/subagent.py`) | running tasks by session, status | spawn, announce, cancel by session | result announced after the parent ended or while `/stop` cancels | each result delivered once; cancelled ones are silent |
| **memory, auto-compaction** (`agent/memory.py`, `agent/autocompact.py`) | `last_consolidated`, summaries, set of sessions being archived | consolidate, archive idle sessions, prepare session | archives in the background while a message reactivates the session | no message dropped that was not archived |
| **goal continuations** (`session/turn_continuation.py`) | round counter in message metadata | continue, stop at a user message | continuation races with user input | at most 12 rounds; stops when the goal ends |
| **cron** (`cron/service.py`, `cron/bound_runner.py`) | jobs file, action log, `_active_executions`, timer | add/remove/enable/run, timer tick, merge actions | other processes append actions while the timer executes; crash between truncating and saving | an action is applied once; a one-shot job runs once |
| **local triggers** (`triggers/local_store.py`, `triggers/local_runner.py`) | `triggers.json`, files in `inbox`, `processing`, `failed` | create, enable, delete, enqueue, claim, recover, retry, complete | kills between write and unlink; cancellation with a claimed batch; a trigger withdrawn after the claim | at-least-once, attempts bounded, nothing forgotten in `processing` |
| **turn delivery** (`agent/turn_delivery.py`, `bus/runtime_events.py`, `session/webui_turns.py`) | stream segments, run status per session | start, delta, close, complete, fail | cancellation in mid-stream | each started turn gets one end |
| **channels** (`channels/manager.py`, `channels/base.py`) | outbound queue, retries, stream buffers | dispatch outbound, coalesce deltas, retry | retry after partial sends | order per chat, no delta lost |
| **providers** (`providers/base.py`, `providers/fallback_provider.py`) | circuit state, retry budget | chat with retry, fallback | time-outs racing answers | bounded retries; open circuit skipped |
| **exec sessions** (`agent/tools/exec_session.py`, killing in `agent/tools/shell.py`) | table of processes by session, a lock, `_closed` | `exec`, `write_stdin`, list, sweep by owner, close all | calls cancelled while they spawn or kill; kills that raise; readers cancelled by one call and gathered by another | no process runs on unknown; nothing is started after the close; calls return |
| **MCP connections** (`agent/tools/mcp.py`) | `_servers`, `_connections`, the tool registry, `_closing` | connect, reload, refresh, close | cancelled batches; servers that end a session; cancellations that the SDK leaks | every connection has somebody to close it; tools belong to the current connection |
| other tools (`agent/tools`) | files, processes, network | run | external systems | - |
| pairing, rate limits; RAG; process runtime; git store; web UI, CLI, config | small stores, databases, OS services | - | external systems | - |

Interaction: channels, cron and triggers put messages on the inbound bus; the run
loop consumes them one at a time and either handles a priority command inline,
defers an automation turn, queues a follow-up for the running turn, or creates a
task; the task takes the session lock, then a gate slot, runs the turn through
the runner (which drains the follow-ups), saves the session, and in its `finally`
blocks sends leftovers round again, publishes the next deferred turn and answers
the submitter.  Cron and the trigger worker wait for that answer.

## 2. Plan

Order: what most of the process depends on comes first.

| module | composes with | status |
|---|---|---|
| `SessionDispatch`, abstract `SerialTurns`, lists in `DistinctLists` | - | modelled, checked; its safety and the refinement proved |
| `LocalTriggers`, abstract `DeliveryQueue` | relies on `SubmittersAreAnswered` of the dispatcher | modelled, checked; its safety and the refinement proved |
| `TurnCheckpoint` | relies on `TurnsAreSerial` of the dispatcher | modelled, checked, all its properties proved |
| `CronStore` | relies on turns ending, for the jobs it submits | modelled, checked, its safety proved |
| `SessionMemory` | the history `TurnCheckpoint` writes, from the side that takes messages out of it | modelled, checked, its safety proved |
| `GoalTurns` | `SessionDispatch` of one session, its pending queue, its commands | modelled, checked, its safety proved |
| `ReplyStream` | one turn of `SessionDispatch`; publishes what `Outbound` sends | modelled, checked, its safety proved |
| `Outbound` | takes what turns publish | modelled, checked, its safety proved |
| `ExecSessions` | tool calls of turns and sub-agents, `/stop` | modelled, checked, its safety proved |
| `McpConnections` | turns that connect, tools that refresh | modelled, checked, its safety proved |
| provider conversation state, starting and replacing channels | `TurnCheckpoint`, `Outbound` | left |

Abstract specifications worth stating: `SerialTurns` above `SessionDispatch` and
`DeliveryQueue` above `LocalTriggers` (done); an append-only conversation above
`TurnCheckpoint` and `SessionMemory`.

Theorems left: the refinement of the abstract specification still to be stated.

## 3. The dispatcher

`SessionDispatch.tla` models `agent/loop.py` between the inbound bus and the end
of a turn, with `agent/automation_turns.py` and the commands `/stop`, `/new` and
the discard control of temporary chats.

State.  A message is in one place at a time, so `at[m]` says where it is and the
message also names its task and the pending queue its task publishes.
`inbound`, `activeTasks`, `pendingQueues`, `deferred` and `discarding` are the
attributes of the same name; `lock`/`lockQueue` and `gate`/`gateQueue` are the
FIFO queues inside `asyncio.Lock` and `asyncio.Semaphore`; `cancel` holds the
tasks with an undelivered `CancelledError`; `inline`/`joining` say which command
the run loop is executing and which tasks it awaits; `waiters` are the automation
turns whose `submit()` awaits its future; `cached` is the session manager's cache.

| actions | code |
|---|---|
| `Publish`, `CallDirect`, `AbandonDirect` | `publish_inbound`, `submit`, `process_direct` and the cancellation of its caller |
| `DropUnbound`, `RunInline`, `FinishInline`, `Defer`, `RouteFollowUp`, `CreateTask` | the branches of `AgentLoop.run`; a command that awaits tasks is two actions, before and after its awaits |
| `Start`, `AcquireLock`, `TakeGate` | `_dispatch`/`process_direct` up to the first stage of the turn |
| `Drain` | `_drain_pending`, at most `InjectLimit` messages at once |
| `EndTurn`, `EndDirect`, `CancelUnstarted`, `CancelWaiting` | the turn's answer, error or cancellation together with every `finally` up to the end of the task |

Steps are cut where the code suspends.  An uncontended `acquire()` does not
suspend, so taking a free lock and a free slot is one step.  The `finally` blocks
are one step because nothing in them suspends: the queues they write to are
unbounded and the subscribers of the runtime events in this repository return
without waiting.  A cancellation is delivered when the task is next scheduled, so
`cancel` is set in one step and takes effect in another.

`LoopYields` is the one thing that depends on the interpreter: up to Python 3.11
`asyncio.wait_for` wraps the bus read in a task, so the run loop always lets
freshly created tasks take their first step before it consumes the next message;
from 3.12 on it awaits in place and consumes a waiting message at once.  The runs
with commands assume the former, `DispatchTurns` the latter.

`SerialTurns.tla` is the abstract specification: messages are unseen, waiting,
running or over; turns of one session are serial; at most `Slots` of them run; a
message is given up only if a command of its session was sent, or its caller went
away.  `ImplementsSerialTurns` is the refinement, with `StatusOf` as the mapping.

Runs.

| run | instance | shows |
|---|---|---|
| `DispatchTurns` | two sessions: two user messages, an automation turn and a direct call that may be abandoned in one, a user message in the other; one slot, queue of one; no commands | the refinement; every message settles and every submitter is answered |
| `DispatchCommands` | either a session with two user messages, an automation turn, a direct call, `/new` and `/stop`, or a temporary chat with two messages, `/new`, `/stop` and the discard control; queue of two, drained one by one | seriality, follow-ups held once, no deferred turn left in an idle session, submitters told how their turn ended (answered, failed or cancelled), none absorbed or dropped, what `/stop` guarantees, a discarded chat is not reopened |
| `DispatchStranded`, `DispatchStopFollowUps` | small | findings, section 11 |

One slot makes the gate contended with two sessions; a queue of one makes the
overflow of a full queue happen, a queue of two with a drain limit of one makes
partial drains happen.  Six messages in one session are enough for a running
turn, a lock waiter, a follow-up, a deferred turn and a command at once, which is
every role a message can have.  `OneSessionSpec` of `MCSessionDispatch` lets the
messages of one session only be sent in a behaviour: with commands, the sessions
meet at the gate alone, which `DispatchTurns` covers.  Deadlock is not checked:
once every message is settled the system rests until somebody sends another.

The type invariant, `GateBoundsTurns` (at most `Slots` bus turns),
`QueueBelongsToTurn`, `BusHoldsOnce` and `WaitersQueued` are theorems (section 12)
and not repeated in the runs.

Fairness (`Fairness`): the event loop runs every task that is ready, and the run
loop, so `Advance` and `RunLoop` are weakly fair; `End` is weakly fair because
model requests and tools carry time-outs and the runner has an iteration limit.
Nobody has to send or abandon anything.  Commands are left out of `DispatchTurns`:
after `/stop` the code does not answer every submitter (first finding).

## 4. Local triggers

`LocalTriggers.tla` models `triggers/local_store.py` and
`triggers/local_runner.py`.  `disk[dir][d]` is the number of attempts recorded in
the file of delivery `d` in `dir`, or `Absent`; `batch`, `attempts` and
`submitted` are the worker's memory; `trigger` is `triggers.json`.  Every store
method holds one file lock, so it is one action; a method that touches more than
one file has a second disjunct in which its process is killed half-way, in the
order in which it touches them (`Delete`, `Start`, `Claim`, `Retry`).  `Crash`
kills the gateway anywhere else.  `Cancelled` is the cancellation of the worker
while it awaits a turn: it retries that delivery and forgets the rest of its
batch.

The run `Workers` checks three deliveries of two triggers, one of them on a channel
that is not enabled, batches of two, two attempts and two kills: a kill while
recovering from a kill, a full batch with a delivery left over, and a delivery
that reaches its attempt limit all happen.  `EveryDeliveryLeaves` is checked in
the same run: the gateway is started again, its worker claims what is there and
handles its batch.  It takes from the dispatcher that a submitted turn ends,
which the first finding can break after a `/stop`.

`DeliveryQueue.tla` is what the queue promises, without files and workers: a
delivery is waiting, done, failed or deleted with its trigger, has spent some tries
and was handed over so many times.  It is handed over once a try at most and only
while its trigger takes deliveries; it fails with its last try; and it is done
without having been handed over only when its trigger is disabled or unreachable.
`ImplementsQueue` maps the files to it: the most advanced copy of a delivery
(`Furthest`) says where it is and how many tries it has spent, so that a retry killed
between the write and the unlink has spent the try, and the recovery that finishes it
spends none.  A delivery of a deleted trigger is deleted, whatever a retry that was
under way writes back: it is dropped the next time the worker claims it, and never
handed over.

`ClaimedIsInBatch` (every file in `processing` belongs to the running worker's
batch), `OneLiveCopy` (no second copy of a delivery while a worker runs) and
`StartsBounded` (no more turns than attempts) are theorems and not repeated in the
run.

Abstracted: the wording of run records, titles and prompts; files that cannot be
parsed (they are moved aside).

Three runs are sums: `Workers` (this section and the next), `Sessions` (6 and 7)
and `Turns` (8 to 10).  `MCWorkers`, `MCSessions` and `MCTurns` pick one of several
modules in the initial state, with the selectors `worked`, `shown` and `told`, and
the behaviour is that module's.  The modules of a sum share no state, so their product would
only interleave steps that do not concern each other; a sum explores each of them
completely.  Liveness is stated with each module's fairness in its own behaviours.

## 5. Scheduled jobs

`CronStore.tla` models `cron/service.py` in the gateway, next to other processes
that use the same workspace.  The gateway keeps the jobs in memory (`cronStore`,
with `dirty` after a save that raised) and in the file `cronFile`; other processes
append to `actionLog`, which `_load_store` merges and truncates before the merged
store is saved.  `wakeAt` is the armed timer, `due` and `current` the tick that
executes, `manual` the runs by `run_job`.  Times are small numbers: `CronTick`
moves `now`, a periodic job is due `Every` later, the timer sleeps `MaxSleep` at
most.

| actions | code |
|---|---|
| `OnTimer`, `JobEnds` | `_on_timer` up to the turn of a job it awaits, and from its end to the next job or the next sleep |
| `CronApi`, `ManualEnds` | `add_job`, `remove_job`, `enable_job`, `update_job` and `run_job` of the gateway; `add_job` and `remove_job` of other processes, which log |
| `KillGateway`, `StartService`, `StartFails` | death at any point, the start with its reload, merge and save, and a start whose save raises |

Every save may raise (`MaxFailures` times).  `NoReplay` is what the comment of
`_load_store` wants: no tick lists an occurrence whose execution has ended.

`AcknowledgedIsDurable` is about both words the service gives: a job that
`add_job` accepted is there (`promised`), and one that `remove_job` removed does not
return (`gone`), in the file with the log applied to it and in the memory that will
be saved over it.  Truncating the log before the save breaks both
in the code, and the ghosts say by how much.  `unsaved` are the jobs of a merged log
whose save has raised, until a later save catches up: for these memory alone has to
keep the word.  `erased` are those of them that a kill before that save, or a start
that fails, has done away with; only they are excused (section 11).

The other ghosts are `begun`, `ended` and `withdrawn`.  `RunJob` has the flag `force`
(`Runs`), with which a disabled job runs too.  `DueJobsRun` is the liveness: a due
job runs, or is withdrawn or postponed, while the gateway stays up.  Fairness: the
event loop runs a timer that is due and a turn that ended (`OnTimer`, `JobEnds`,
`ManualEnds`; turns carry time-outs) and time passes (`CronTick`).

`Workers` checks a one-shot and a periodic job, three API calls, one save that
raises and one kill, with calls up to time 2 and a sleep of 2: a tick that finds
two jobs due, a removal while the other executes, a log merged between the two, a
save after a truncation that raises and a kill between the two all happen.

`TimerIsArmed` (a running gateway without a tick has a timer set) and
`WithdrawnJobsRest` (a withdrawn job is not started again) are theorems and not
repeated in the run.

Left out: system jobs, `stop()`, damaged files, disabling of unbound jobs,
one-shots that are kept after their run, run history, a tick that unwinds slowly
after its cancellation, and enabling or updating jobs from other processes.

## 6. Turn checkpoints

`TurnCheckpoint.tla` models how one session's turns reach its history.  `history`,
`pending` and `check` are `Session.messages` and the metadata keys
`pending_user_turn` and `runtime_checkpoint` of the cached session; `disk` is the
last saved copy; `work` holds the messages of the running turn, which reach the
history only at its end.  Each save may raise, leaving memory and disk different
(`SaveThen`); the process may die between any two actions (`Crash`), the session
may be flushed at any time (`Flush`).  Messages are records of the turn, response
and call they belong to and their kind.  The overlap search of
`_restore_runtime_checkpoint` compares contents in the code and identities here;
two different messages with equal contents are out of the model.  The iteration
limit `MaxSteps` is at least one (`BoundsAssumption`): `agent/tools/self.py:118` lets
an agent set it to no less; the configuration, whose default is 200, does not check
it, and a limit of zero is out of the model.

The runner's iterations are `CallTools`, `ToolsDone`, `ToolsFatal`, `Answer`,
`Truncated`, `Retry`, `GiveUp` and `Exhausted`.  Where they close a turn matters:
an empty part of a cut answer leaves no row (`loop.py:2038`); a request that
fails, or an answer that stays blank, is followed by a first drain before any
closing row is written (`runner.py:750`) and by a second one behind it
(`runner.py:782`, `800`).  What such a first drain takes is mostly merged into the
message before it (`InjectOpen`): a follow-up of the turn, or the turn's input, which
the turn does not save again (section 11).  A goal that continues a
turn at its iteration limit strips the closing row; `continued` names these turns,
whose input may stay open, and `UserTurnsClosed` leaves them out.  A blank answer and
a prompt to go on can repeat as often as the model likes; `MaxRows` bounds the messages
behind which it is asked once more.

`Sessions` checks two turns of two responses with two calls each and one
injection, the model asked behind at most five messages (`MaxRows`): a restored
checkpoint meets a second turn, a checkpoint of the second response replaces the
one of the first. `RestoredIsLegal`, `RestoredOnce`, `UserTurnsClosed`,
`CheckpointLands` and `DiskKeeps` are what the next turn, and a restarted process,
rely on. `RestoredOnce` excludes histories in which `enforce_file_cap` has raised,
as it must (section 11).

Left out: the provider's resumable conversation state, the trimming done at the
file cap and by consolidation (section 7), and the repair of a damaged file.

## 7. Session memory

`SessionMemory.tla` models who takes messages out of a session: `Consolidator`
before and after turns (`agent/memory.py`), the compaction of idle sessions
(`agent/autocompact.py`), `/new` (`command/builtin.py`) and the file cap
(`session/manager.py`).  A `Session` object has an identity, because a save of an
object that the cache has replaced is the danger: `objects` are the objects alive
with their messages and their cursor `last_consolidated`, `cachedSession` is the
one in the cache, `sessionFile` the file, `talk` the turn with the object it
holds, `consolidating` and `lockWaiters` the holder of the consolidation lock and
those behind it, `snapshots` what `/new` handed to its background archive.  How
many messages a consolidation takes is free, since it depends on token estimates.

`NothingForgotten` says that every saved message is in the history file, on its
way there or beyond the cursor; `ArchivedOnce` that none is archived twice;
`OneSession` that turn, consolidation, cache and file agree on the object.  They
have exceptions which the code really has, and the ghosts name them: `overtaken`
(a consolidation whose session changed under it: `/new` takes no consolidation
lock; a direct turn outlives the idle time and its object is replaced; the file
cap trims what an idle compaction has counted), `abandoned` (a crash cuts off the
background archive of `/new`) and `deaths` (a crash between appending the batch
and saving the cursor archives it again).  `MemoryNew` shows what the first of the
three costs (section 11).

`Sessions` checks three turns, from the bus or direct, one `/new`, a cap of three
messages and one crash.  Left out: the cap's way out of a tail without a user's
message (`session/manager.py:413-422`), which needs a turn longer than the cap of
2000 messages, while a turn is two messages here and the cap at least two;
`_last_summary`, eviction from the cache, saves
of a consolidation that raise, and an inline `/new` beside a direct turn.

## 8. Goals and sub-agents

`GoalTurns.tla` models what keeps a session working by itself: continuations of a
goal (`session/turn_continuation.py`, `agent/goal_permission.py`), sub-agents
(`agent/subagent.py`, `agent/tools/spawn.py`), the drain that waits for them
(`agent/loop.py:1006`) and `/stop`.  Turns of the session are serial by
`TurnsAreSerial`, so one `goalTurn` is enough; `bus`, `followUps` and `waiting`
are its messages on the bus, in the pending queue and in tasks behind the turn: a
user's message, a `/goal` command, a slice, a sub-agent's result.  `goalActive` and
`rounds` are the goal's state in the session's metadata.

A slice is a turn: it drains follow-ups, calls the model, may spawn sub-agents,
set, replace or end the goal, and at its end queues its continuation, publishes
what is left in its queue, and shows the session idle or leaves that to its slice.
`Agents` may finish, fail or be cancelled; a cancelled one says nothing.

| property | what it is about |
|---|---|
| `SlicesAreBudgeted` | rounds are counted in the session's metadata and renewed by a new goal; the permission to set one comes with the `/goal` message only, so a session continues at most `MaxRounds` times for each turn a user's `/goal` opened |
| `GoalKeepsGoing` | an active goal with rounds left goes idle only after a failed, cancelled or sub-agent's turn |
| `RunShownEnds` | the running status ends, but for two cancellations the ghost `unshown` names |
| `StoppedIsQuiet` | when `/stop` returns, nothing of the session is at work |
| `SlicesFollow` | a turn that sets out to continue makes way for its slice: violated, section 11 |

`Turns` checks two interchangeable sub-agents, every bound one and three
messages of the user, so that a follow-up, a result and a slice compete for a
queue of one.  Instances with two iterations and two rounds (one sub-agent), and
with two rounds (two sub-agents), were checked once as well.  Fairness of
`GoalFairSpec`: model calls time out, a drain waits 300 s at most, sub-agents have
a budget of their own and cancellation is not suppressed, so `GoalWork` is weakly
fair; users need not do anything.

Left out: saves of the goal's state that raise, sub-agents of other sessions and
of direct turns.

## 9. Answers on their way to the chat

`ReplyStream.tla` models one turn that streams its answer.  A request goes to the
primary provider and its fallbacks (`providers/fallback_provider.py`), in attempts
(`providers/base.py`); a provider may stream some text, then fail, and each layer
remembers in a flag of its own (`saw`) whether text is in the chat already.  The
runner (`agent/runner.py`) handles the response: cut at the length limit,
blank, refused, with malformed tool calls, with tool calls, or final; the turn
publishes the text in segments (`agent/turn_delivery.py`) and at the end either
the answer or a marker that it was streamed (`agent/loop.py:1495`).

| actions | code |
|---|---|
| `Ask`, `StreamDelta`, `CallFails`, `NoProviderLeft`, `AskAgain`, `WallClock` | a request of the runner, its deltas, the errors of a provider, the end of the fallbacks, the next attempt, the time-out around it |
| `MalformedCalls`, `ToolCalls`, `BlankResponse`, `CutOrFinal`, `Refused`, `Finalized` | the branches of `_run_core` on a response, with the two finalization requests |
| `Injected`, `FinishReply`, `ToolsEnd`, `OutOfSteps` | the end of an iteration or of the turn |
| `StopTurn`, `ReplyRaises` | cancellation and an exception, anywhere |

`SegmentsHoldOneAttempt`: no segment holds two attempts at the same text.
`AnswerShownOnce`: the marker is sent only for an answer all of which was
streamed, the full text only for one that was not streamed at all.
`StreamsClosed`: a channel sees the end of every stream it has text of.
`Turns` checks two fallbacks, one retry, three iterations, two cut parts, two
blank responses and one delta a call: every pair of layers can fail one after the
other.  It is safety only; nothing has to happen.  Errors are four classes (which
of them fall back, which are transient), the circuit breaker is a free choice to
skip the primary.  Left out: tool hints, reasoning and progress events, answers
sent by the message tool, the persistent retry mode, turns that do not stream.

`Outbound.tla` models the dispatcher that sends what turns publish
(`channels/manager.py`).  `outbound` is the bus, `putBack` the message that joining
deltas took too far, `sending` and `attempt` the send under way, `replied` the
fingerprints by which a sub-agent's echo of an answer is suppressed.  An iteration
takes its messages without suspending, so it is one action (`TakeDelta`,
`TakeOther`); an end of a stream that carries text joins its deltas too and is the
last to do so (`endText`; no publisher in `src/` sends one today, see
`agent/turn_delivery.py:303`).  A send may fail (`SendFails`), before or after it reached the
platform.  `OutboundInOrder` says that what is owed is the unbroken tail of what
was published, and that the platform sees the rest in order, a message again only
in a retry.  `Turns` checks four messages: deltas and ends of two streams, an
answer, its echoes, hidden messages; two sends each.  Left out: the restart
notice, which is a second sender, and the replacement of a channel.

## 10. What tools leave running

`ExecSessions.tla` models the shell commands that outlive the tool call which
started them (`agent/tools/exec_session.py`).  `registered` is `_sessions`,
`managerLock` the manager's lock while its holder suspends, `call` the tool calls
in progress with the place where they suspend, `sweep` a `terminate_by_owner()` or
`close_all()`.  Of a process the model knows whether it runs, was signalled or is
dead, whether it may be signalled at all, and what became of the two tasks that
read its pipes: a descendant that left the process group keeps them open.

| actions | code |
|---|---|
| `CallTool`, `Enter`, `CleanupStep` | `exec`, `write_stdin` and list up to the end of what they do under the lock, with the killing of stale sessions one after the other |
| `Spawned`, `SpawnFails`, `WriteEnds`, `KillEnds`, `PollWaits`, `ExpireEnds`, `ReadRest`, `Pop` | what a call waits for: the process, its pipe, a kill, output, the readers, the lock again |
| `CancelCall` | the cancellation of the turn or sub-agent at any of these |
| `TakeVictims`, `SweepEnds`, `RestoreFailed` | the sweeps, and what they put back when a kill raised |
| `Dies`, `PipesClose` | the operating system |

`ProcessesAreKept`: whatever is cancelled or raises, a running process is in the
table or in the hands of a sweep.  `ClosedForGood`: shutdown leaves no process
that a signal could have ended.  Times (idle, deadline, waits) are free choices,
but for a session that a call is using, which is not idle.  The pipe of a `write`
takes the text at some time, the code has no limit for it.  Left out: output
buffers, Windows jobs, recycled process groups, sweeps that are cancelled.

`McpConnections.tla` models `MCPProvider` and `connect_mcp_servers`
(`agent/tools/mcp.py`).  `conns` are the connections ever opened, each with the
configuration it was opened for and a task that owns it; `connections`, `tools` and
`servers` are what the provider holds; `op` is the operation under its lock.

| actions | code |
|---|---|
| `Connect`, `Reload`, `Refresh` | the three operations, up to their first wait |
| `CloseServer`, `TakeOver`, `OpenServer`, `OpenDone`, `HandOver` | one server after the other closed, the new configuration taken over, one after the other opened, the batch handed to the provider |
| `OpenLeaks` | an exception, or a `CancelledError` that the SDK leaks although nobody cancelled, after the first tools were registered |
| `CancelOp` | the cancellation of whoever asked, with its rollback |
| `Terminates`, `AskClose`, `CloseAll` | a server ends a session; `aclose` announces itself, waits for the lock and closes |

`ConnectionsAreOwned`: a connection that is open is the provider's, or in the
batch of the operation under way, at any cancellation and whoever has begun to
close.  `ToolsAreCurrent`: between operations a server's tools are those of its
connection and of the configuration that was read, but for the tools of a
connection whose opening failed, or was cancelled by the SDK, behind their
registration (`mcp.py:1161`, `1239`): these stay registered until their server
connects again, and the comment of the property says so.  Left out: statuses,
OAuth, the names of single tools, the calls themselves, and a close that raises
what `aclose` does not expect.

`Turns` checks two processes of one owner, one of them perhaps another user's,
with a limit of one, two tool calls at once while there is one process (the
constraint `ExecBound`), `/stop` and shutdown: a kill that raises in a clean-up, in
a sweep and in a poll, a spawn that meets a shutdown and two calls for the same
process all happen.  It checks two servers with two configurations each and three
connections: a reload that changes one server and keeps the other, a reconnection
behind a refresh and a rollback of two connections happen.  `Alike` is sound
because sub-agents, tool calls and servers are only compared for equality, and
because a behaviour is of one module, so that one pair of model values can stand
for all three.

## 11. Where code and documentation disagree

| run | what it shows |
|---|---|
| `DispatchStranded` | a task cancelled while it waits for the lock or the gate, or before its first step, never answers the submitter of its automation turn |
| `DispatchStopFollowUps` | `/stop` looks for the pending queue after the cancelled turn has republished it: the follow-ups run instead of being thrown away |
| `CheckpointStop` | a checkpoint holds the latest response only; `/stop` loses the calls and results of earlier responses of the turn |
| `CronTwice` | every API call cancels the timer task, also one that awaits a one-shot's turn; the next tick starts the one-shot again |
| `MemoryNew` | `/new` takes no consolidation lock: a consolidation under way moves the cursor of the emptied session, and its next messages are never archived |
| `GoalStuck` | the put of a continuation into a full pending queue waits for the queue that only the waiting turn would empty |
| `ExecCancelled` | a kill gives up on readers whose pipes a descendant keeps open and cancels them; the poll that follows gathers cancelled tasks and raises `CancelledError` in a turn nobody cancelled |

Each of these runs is expected to find its property violated.

Seen while reading and modelling, without a run of their own:

- From Python 3.12 on, where the run loop does not yield, `/stop` can cancel the
  only task of a session before its first step; an automation turn deferred behind
  it stays deferred in an idle session, until the next turn of that session ends.
- If archiving at the file cap raises after the turn's messages were appended, the
  checkpoint survives and is restored a second time behind them.
- A turn that raises while a stream is open does not close it (`agent/loop.py:1327`
  only reports the failure), and neither does one that reaches its iteration limit
  after a cut part with a goal that continues.  `StreamsClosed` leaves both out.
- A cut part that was not streamed, followed by a streamed tail, is hidden behind
  the marker; text streamed by an attempt that broke off, or before tool calls that
  are malformed twice, counts as streamed, so that the answer which follows without
  streaming is not emitted, although `agent/loop.py:1495` says that such a recovery
  is not suppressed.  `AnswerShownOnce` leaves these out.
- The action log of scheduled jobs is truncated (`cron/service.py:293`) before the
  merged jobs are saved: a start whose save raises, or a kill in between, loses a job
  that another process was told is added, or brings back one it removed, although `docs/deployment.md:55` says that
  the disk keeps the cron state across restarts.  `erased` holds these jobs, and
  `AcknowledgedIsDurable` without it fails in `Workers`.
- A follow-up drained behind a request that failed (`agent/runner.py:750`), before the
  turn has a row of its own, is merged into the turn's input, which is not saved again
  (`agent/loop.py:1909`): the model answers it and the history never has it.  The same
  happens at the iteration limit (`runner.py:851`), whose comment says that the
  follow-ups are drained "so they are appended to the conversation history".
- The circuit breaker's "allow one probe" lets every concurrent request probe.
- The fingerprint that suppresses an echo is recorded before the send; if the
  answer is then given up, its echo is suppressed as well.
- `finalize_on_max_iterations` of a goal's turn is decided before the turn runs.
- The deadline of an exec session is enforced only when somebody polls it.  One
  stale session whose kill raises, that of another user's process, makes every
  later `exec`, `write_stdin` and list of every session fail; those that a sweep
  puts back may exceed the limit.  A sweep that is cancelled forgets the sessions it
  has taken, also those it could not kill.
- A refresh for a tool that its reconnected server no longer has closes and reopens
  a connection that works.  A refresh that is cancelled leaves the server's status
  at "connecting".

## 12. Proofs

Theorems hold for every value of the constants that satisfies the named
assumptions of the modules: `SessionsAssumption`, `MessagesAssumption`;
`DeliveriesAssumption`, `BoundsAssumption` (one in `LocalTriggers`, one in
`TurnCheckpoint`), `NoneAssumption`; `CronJobsAssumption`, `CronTimesAssumption`;
`GoalAgentsAssumption`, `GoalBoundsAssumption`, `NoTurnAssumption`;
`ReplyBoundsAssumption`, `OutboundAssumption`; `ExecAssumption`, `McpAssumption`;
`MemoryAssumption`.  They say that counts are natural numbers, positive where the
code needs one of something, and that the values standing for "nobody" are nobody.
`MemoryAssumption` also says that whichever two `Session` objects are taken there
is another: the running turn and a consolidation each hold at most one when an
object is opened, and the model reuses the identities of objects that nobody holds,
as Python reuses memory; and that the file cap is at least two, the length of an
answered turn (`FILE_MAX_MESSAGES` is 2000).  TLC evaluates
them in the runs.

### The dispatcher

- `SessionDispatchProofs.tla` begins with queues without repetitions: what
  appending to one, taking its head, leaving it from the middle and joining two of
  them list.  `TypeCorrect` follows, with one lemma per group of actions.  Then the
  inductive invariant `IInv` and the six results that follow from it.
  `TurnsAreSerial` alone is not inductive: that a task which
  takes the lock is alone has to come from what the lock says of everybody else.
  `LockInv` says a session's lock is held by `m` exactly while `m` is inside the
  `async with`, the wait for the gate included.  `GateInv` says the slots taken are
  the bus turns that run and that no direct call waits for one.  `QueueInv` says
  the owner of a published queue is a bus turn running in that session, which
  with `LockInv` makes it the lock's holder.  `InlineInv` places the command that
  the run loop executes.  `BusHoldsOnce`, `FollowUpsHeldOnce` and `WaitersQueued`
  are inductive only together with these: `EndTurn` puts the leftovers of its
  queue back onto the bus, and that they are all follow-ups of its session, and
  not on the bus already, is what the other two say.  The lemmas `FinishMoves`,
  `DrainMoves`, `EndMoves` and `WaitingMoves` translate the loops over queue
  contents into sets of messages, so that everything after them is about `at`.
- `SerialTurnsProofs.tla` has the refinement.  `CommandInv` adds where a cancellation
  can come from (`CancelledByCommand`, `TasksOfSession`) and when a temporary
  session can be gone (`GoneByCommand`), because `Withdraw` of `SerialTurns` wants a
  command behind every message given up.  Then one lemma per action: it begins,
  ends, absorbs, withdraws or accepts, or it only shuffles waiting messages.  It
  ends with `TurnsReport`, from `OnlyUsersInjected` (what is or was in a pending queue
  is a user message, so that no automation turn is absorbed) and `WaitersUnsettled` (who
  still waits has a turn that is not settled or was cancelled).  `TurnEndsInEnd` goes
  through the actions to show that a turn which is over ended in `EndTurn` or
  `EndDirect`, whatever its fate; `EndIsReported` that neither leaves a waiter.
  `StopInv` is about who awaits whom.  `Tracked`: a task is in its session's task set,
  or the command that took it from there, inline or a `/new` that is clearing, still
  awaits it.  With `TasksTaken` (the run loop adds no task while it executes a
  command) this is `StopLeavesNoTurn`.  `ClearingAlone` says that nobody can cancel a
  `/new` that is clearing; hence no cancelled turn runs when a temporary chat leaves
  the cache or the set of those being discarded, and `GoneQuietly` follows, the
  reason why the clean-up of a cancelled turn reopens no discarded chat.
  `CarrierInv` adds to `DeferredHasCarrier` that a task cancelled before its first
  step is awaited by a `/new` that will publish the deferred turn in its place.  It
  needs `LoopYields`, which the theorem has as its hypothesis: section 11 tells what
  happens without it.

### Turn checkpoints

`SessionsProofs.tla` proves all five properties of `TurnCheckpoint`, and its types,
from `TurnInv`, which is `TypeOK` and two parts; `UserTurnsClosed` has an invariant of
its own, `ClosedInv`, on top.

`SessionInv` is about the session, in memory and on disk alike, since a crash makes
the second the first.  `Good` says that the rows are a legal history; that no row,
nor the checkpoint, is of a later turn than the latest (`Aged`); and, unless
archiving failed, that no row is there twice and none but the input is of the
checkpoint's turn (`Unique`).  `RestoredIsLegal` and `RestoredOnce` are about a
function of the state, what a restore *would* add; they follow from these parts and
are not inductive by themselves, because what a restore adds depends on which rows
the checkpoint overlaps with.  `DiskFits` says that the history has all that is on
disk, which is `DiskKeeps` one step later: a save replaces the disk by a history
that contains it.

`RunInv` is about the running turn: its messages `work` are of the turn, numbered
up to its latest response and legal (`WorkRows`), but while tools run, when they end
with calls that have no results yet (`CallsLast`); the checkpoint is of this
turn and its durable rows are in `work` (`CheckFits`), which is why saving the turn
may drop it; and the history has nothing of the turn but its input
(`HistoryFits`), which is why `_save_turn` repeats nothing.

`ClosedInv` does not assume that a turn closes its message.  `Marked`: a user's
message at the end of the history, in memory or on disk, is flagged as pending, so
that the next restore closes it, or its turn was continued; and one that another
turn's input follows was continued.  The rest is what keeps this true when a turn is
saved: while the model runs, an open message is the running turn's input, and a turn
that ended with no row of its own was continued.  That is where the order of drains
and closing rows of `GiveUp`, `Truncated` and `Exhausted` enters: each ends the turn
with a row behind the input, or keeps it going.

The lemmas are about the operators the model builds histories with: appending,
concatenating and filtering sequences of rows keeps them legal, once each and
closed, under conditions on the seam.

### Session memory

The second half of `SessionsProofs.tla` proves `NothingForgotten`, `ArchivedOnce`,
`OneSession` and the types of `SessionMemory` from `MemoryInv`.

`MemoryShape` is what holds whatever was overtaken: types (`MemoryTyped`); a
session's messages are rising and its cursor is within them, in every object and in
the file (`SessionsFit`); a turn runs exactly while its object's last message is an
unanswered user's (`TalkHolds`); and the turn waits for the consolidation lock, or
holds it, once at most and only before it is ready (`TurnWaits`).  The other three
parts hold until something overtakes a consolidation.  `Together`: the object in the
cache is what the file has, the turn and the consolidation hold that object, and the
batch being archived is exactly what the session has from its cursor to the
batch's end.  This is why saving the cursor afterwards passes over nothing that was
not archived.  `Accounted` is `NothingForgotten` with the converse it needs: what the
cursor has passed and the session still has is archived, so that the file cap may
drop it, and only what it drops beyond the cursor has to be archived raw.  `Apart`, until a crash:
what is archived, what a `/new` has handed over and what the session still has to
archive are disjoint, and a new message is later than all of them.  `OneSession` and
`ArchivedOnce` are parts of these; none of the three is inductive, since what a
consolidation archives is decided by the batch it took before it gave up control.
The lemmas are about sessions as sequences: appending, dropping a prefix, trimming
to the cap at a user's message, and what each leaves of the unarchived messages.

### Local triggers

`LocalTriggersProofs.tla` proves the four safety invariants of the trigger queue, and
that it implements `DeliveryQueue`.  The invariants are not inductive.  `DeliveryInv` is `TypeOK` and, for each delivery:
`Fresh` (nothing is known of it before it is accepted), `Kept` (`AcceptedNotLost`
itself), `Copies` (a second copy only while no worker runs, and only where the
claimed one would go: so the recovery overwrites it with the same file instead of
adding a third), `Claimed` (`ClaimedIsInBatch`), `Held` (what the worker holds is
nowhere else to be delivered, and its attempts lag behind its starts by at most
the one turn it awaits) and `Counted` (the attempts in a file count the starts).
`StartsBounded` needs the last two: an attempt is recorded at the retry, so the
start it stands for must be unrecorded once at most.

`QueueImplements` needs three facts more, which are `QueueInv` with `DeliveryInv`:
a second copy has the attempts that the recovery will write over it (`CopiesCount`),
of what was acknowledged nothing is left (`GoneForGood`), and the turn that the
worker waits for is that of the delivery it handles (`AwaitsItsTurn`), so that what
it acknowledges afterwards was handed over.  `Retried` is what `Start`, `Retry` and
`Cancelled` have in common, whole or killed, and `RetriedStatus` says of each
delivery whether it spends a try.

### Scheduled jobs

`CronStoreProofs.tla` proves `CronTypeCorrect`, `TimerStaysArmed`,
`JobsAreDurable`, `WithdrawnRest` and `NothingReplayed`, with invariants that
build on each other.  `Sound`: types, no job is in a store or in the log that was
not added, and a gateway that is down executes nothing (`Down`).
`Calm`: `Sound`, jobs that the log adds are in no store yet (`Unmerged`, since another
process only adds jobs of its own), and a withdrawn job is on in neither store, nor
offered by the log, nor listed by a tick (`Resting`).  `WordKept`, on
top of `Calm`: memory has every promised job and none that is gone, but for the
erased, and so has the file with the log applied to it, but for the unsaved; and
there are unsaved ones only while memory is ahead of the file.  The last is why a
reload, which trusts the file, loses nothing; `Unmerged` is why a job that the log
adds is not overruled by an older copy.  `Replayed`: `Calm`, and no
job is on, in memory, for an occurrence whose execution ended, nor in the file
unless memory is ahead of it or a job executes (`Spent`): these are the two cases
in which `_load_store` must not reload, and does not.

`WorkersTypesCorrect`, at the end of the module, joins `Sound` and the invariant of
the triggers to the types of `MCWorkers`, as the run checks them.

### Goals and sub-agents

`GoalTurnsProofs.tla` proves `GoalTypeCorrect`, `ContinuationsBounded`,
`StoppingIsComplete`, `GoalGoesOn` and `StatusEnds`.  `Shaped` are the types without
the limit of sub-agents, which is `Limited`.  `Budgeted`: the rounds left to an
active goal, and those of a goal that the turn may still set, are paid for by the
`/goal` turns begun; without it a new goal could renew rounds nobody asked for.
`Quieting`: behind `/stop` nobody waits and the turn is cancelled; once the
sub-agents are cancelled the turn is gone, an inline sub-agent with it.  `Carried`:
between turns a slice is on its way to a goal that goes on and to a session shown
as running.  `Settling`: a turn that is about to end has put that slice into its
queue, which its end moves to the bus.

### Answers and their delivery

`DeliveryProofs.tla` proves the three invariants of `ReplyStream` and the one of
`Outbound`.

`ReplyInv` has the reason each flag of the code is trusted for.  `CallsKnowText`:
until a request is repeated, both layers that could call a provider again, the
fallback wrapper and the retry loop, know of text that this call has streamed, and
none of an earlier call is in the segment: `SegmentsHoldOneAttempt` follows.
`FlagsAgree` relates the runner's and the turn's flags to the text of the current
segment, and `AnswerIsKnown` says that when the turn responds, the flag it looks at
tells whether the last part was shown, and that a last part which was not shown is
the only one; `AnswerShownOnce` needs both, since the code keeps one flag for an
answer of several parts.  `TextIsOpen`: a segment with text is open, and none
survives tool calls or a blank response, which `StreamsClosed` needs.
`ReplyCounted` bounds the counters; a step has at most one blank response.

`DeliveryInv`: what is being sent, put back and still on the bus are three
successive stretches of the numbers published (`TailIsOwed`), the put-back message
at most one (`DeliveryTyped`); what was shown is older than all of them, or is the
send that is being retried (`ShownBefore`), and increasing (`ShownInOrder`).
`OutboundInOrder` says the first of the three places together; that joining may
take one message too many without disturbing the order is visible only with their
borders.

### What tools leave running

`ToolsProofs.tla` proves the safety of `ExecSessions` and `McpConnections`.

`ExecInv`: a call holds the manager's lock exactly while it kills stale sessions or
spawns (`LockHeld`); what a call reads to the end is dead, and a stale session
that a clean-up forgets was killed unless its kill raised (`CallsKnow`); a sweep
holds only sessions that were signalled, or that it could not kill and will put
back (`SweepsKnow`); the table has no session without a process (`TableKnows`); and
once the manager is closed nobody under the lock may still spawn (`NoneSpawns`),
without which `ClosedForGood` is broken by the spawn that meets the shutdown.
`ExecLimit`, the limit that `ExecTypeOK` includes, is proved on top: what is counted
are the sessions that could be killed.  `TurnsTypesCorrect`, at the end of the
module, joins the invariants of the five modules of `MCTurns` to its types.

`McpInv`: at every suspension, the provider's connections (`ConnectionsServe`), the
batch (`BatchServes`) and the connection being opened (`OpeningServes`) belong to
three different kinds of server: those that keep theirs, those tried and those still
to do (`OpensMissing`); what a reload keeps has the configuration it reads
(`ClosesOutdated`), so that taking over the new one keeps `ConnectionsServe`; tools
of no current connection are a leaked one's (`ToolsServe`).  `OpHolds` says that
only an operation has a batch, so that between operations the batch's exceptions
are gone: that is `ToolsAreCurrent`.

### Only model-checked

- Liveness: fairness and `ENABLED` are out of the prover's reach.
- What the violation runs refute.

## 13. Not modelled

Of the modelled parts: what their sections name as left out; of the dispatcher,
shutdown of the loop (`aclose`), `submit()` while the loop is stopped and the
routing of a unified session key.  Of the rest, every component marked
`not_modelled` in `PROJECT.json`, with its reason: the platform channels, the
provider clients, the web UI, the CLI and most tools are adapters whose state is
somebody else's service, file or process, and they make up most of the code.
