------------------------------ MODULE GoalTurns ------------------------------
(***************************************************************************)
(* What keeps one session working without its user: follow-ups and results *)
(* of sub-agents drained into the running turn (agent/loop.py and          *)
(* agent/runner.py), the sub-agents themselves (agent/subagent.py), and    *)
(* the slices by which a sustained goal continues beyond a turn's budget   *)
(* (session/turn_continuation.py, agent/tools/long_task.py).  Turns of one *)
(* session run one after the other: SessionDispatch says so.               *)
(***************************************************************************)
EXTENDS Integers, Sequences, FiniteSets

CONSTANTS
    Agents,         \* sub-agents a behaviour may start; each also names its result
    MaxConcurrent,  \* max_concurrent_subagents
    MaxRounds,      \* _MAX_GOAL_CONTINUATION_ROUNDS
    MaxIterations,  \* max_iterations of a turn
    MaxDrains,      \* _MAX_INJECTION_CYCLES
    DrainLimit,     \* _MAX_INJECTIONS_PER_TURN
    FollowUpCap,    \* maxsize of the pending queue
    MaxRequests,    \* messages the user sends (bound)
    NoTurn

Requests == {"chat", "goal", "stop"}
GoalMessages == {"chat", "goal", "slice", "stop"} \cup Agents
Turns ==
    [opener : GoalMessages, why : {"tools", "final", "error", "budget"},
     phase : {"model", "inline", "drain", "blocked", "over", "putting", "saving"},
     steps : 0..MaxIterations, cycles : 0..MaxDrains, may : BOOLEAN,
     continuing : BOOLEAN, cancelled : BOOLEAN]

ASSUME GoalAgentsAssumption ==
    IsFiniteSet(Agents) /\ Agents \cap {"chat", "goal", "slice", "stop"} = {}
ASSUME GoalBoundsAssumption ==
    /\ MaxConcurrent \in Nat \ {0} /\ MaxRounds \in Nat /\ MaxIterations \in Nat \ {0}
    /\ MaxDrains \in Nat /\ DrainLimit \in Nat \ {0} /\ FollowUpCap \in Nat \ {0}
    /\ MaxRequests \in Nat
ASSUME NoTurnAssumption == NoTurn \notin Turns

VARIABLES
    bus,          \* MessageBus.inbound, of this session
    waiting,      \* messages whose tasks wait for the session's lock
    goalTurn,     \* the running turn
    followUps,    \* its pending queue
    goalActive,   \* the session's goal_state is active
    rounds,       \* _sustained_goal_continuation_rounds
    agents,       \* what became of each sub-agent
    stopping,     \* how far /stop is; the run loop waits for it
    runShown,     \* the last run status published is "running"
    requests,     \* messages the user has sent
    slices,       \* ghost: slices queued so far
    quota,        \* ghost: MaxRounds for every turn a /goal command opened
    lastEnd,      \* ghost: how the last turn ended
    unshown       \* ghost: a cancellation took away who owed the idle status

goalState == <<goalActive, rounds>>
goalGhosts == <<slices, quota, lastEnd, unshown>>
goalVars == <<bus, waiting, goalTurn, followUps, goalState, agents, stopping,
              runShown, requests, goalGhosts>>

InPhase(p) == goalTurn # NoTurn /\ ~goalTurn.cancelled /\ goalTurn.phase = p

\* A sub-agent leaves _running_tasks one step after its task is done.
Counted == {a \in Agents : agents[a] \in {"running", "inline", "cancelled", "closing"}}
Alive   == {a \in Agents : agents[a] \in {"running", "inline", "cancelled"}}

GoalInit ==
    /\ bus = <<>> /\ waiting = <<>> /\ followUps = <<>>
    /\ goalTurn = NoTurn
    /\ goalActive = FALSE /\ rounds = 0
    /\ agents = [a \in Agents |-> "unused"]
    /\ stopping = "no" /\ runShown = FALSE /\ requests = 0
    /\ slices = 0 /\ quota = 0 /\ lastEnd = "none" /\ unshown = FALSE

UserSends(m) ==
    /\ requests < MaxRequests
    /\ requests' = requests + 1
    /\ bus' = Append(bus, m)
    /\ UNCHANGED <<waiting, goalTurn, followUps, goalState, agents, stopping, runShown,
                   goalGhosts>>

-----------------------------------------------------------------------------
(* The run loop *)

Takes(m) == stopping = "no" /\ bus # <<>> /\ Head(bus) = m /\ bus' = Tail(bus)
Routed ==
    UNCHANGED <<goalTurn, goalState, agents, stopping, runShown, requests, goalGhosts>>

\* /goal beside a running turn is answered by the run loop itself.
RefuseGoal ==
    /\ Takes("goal") /\ goalTurn # NoTurn
    /\ UNCHANGED <<waiting, followUps>> /\ Routed

RouteFollowUp(m) ==
    /\ Takes(m) /\ goalTurn # NoTurn /\ m \notin {"stop", "goal"}
    /\ Len(followUps) < FollowUpCap
    /\ followUps' = Append(followUps, m)
    /\ UNCHANGED waiting /\ Routed

\* Without a turn, or with its queue full, the message gets a task.
MakeTask(m) ==
    /\ Takes(m) /\ m # "stop"
    /\ goalTurn = NoTurn \/ (m # "goal" /\ Len(followUps) >= FollowUpCap)
    /\ waiting' = Append(waiting, m)
    /\ UNCHANGED followUps /\ Routed

-----------------------------------------------------------------------------
(* A turn *)

\* Mutant: the slices of a goal inherit goal_requested.
MayMutateInherited(opener) == opener \in {"goal", "slice"}
\* Only the message that is the /goal command may create or replace a goal.
MayMutate(opener) == opener = "goal"

\* Mutant: a slice inherits the mark of the turn that queued it.
ContinuingInherited(opener) == opener = "slice"
\* No turn is continued before it has queued its slice.
Continuing(opener) == FALSE

StartTurn ==
    /\ goalTurn = NoTurn /\ waiting # <<>>
    /\ LET m == Head(waiting) IN
       /\ goalTurn' = [opener |-> m, phase |-> "model", why |-> "tools", steps |-> 0,
                       cycles |-> 0, may |-> MayMutate(m),
                       continuing |-> Continuing(m), cancelled |-> FALSE]
       /\ runShown' = (runShown \/ m \notin Agents)
       /\ quota' = IF m = "goal" THEN quota + MaxRounds ELSE quota
    /\ waiting' = Tail(waiting)
    /\ UNCHANGED <<bus, followUps, goalState, agents, stopping, requests, slices,
                   lastEnd, unshown>>

\* The model's response: tools to execute, a final answer or an error.
Responds(why, phase) ==
    /\ InPhase("model") /\ goalTurn.steps < MaxIterations
    /\ goalTurn' = [goalTurn EXCEPT !.steps = @ + 1, !.why = why, !.phase = phase]
    /\ UNCHANGED <<bus, waiting, followUps, stopping, runShown, requests, goalGhosts>>
CallsTools == Responds("tools", "drain")

Respond(why) == Responds(why, "drain") /\ UNCHANGED <<goalState, agents>>

CreateGoal ==
    /\ CallsTools /\ goalTurn.may /\ ~goalActive
    /\ goalActive' = TRUE /\ rounds' = 0
    /\ UNCHANGED agents

ReplaceGoal ==
    /\ CallsTools /\ goalTurn.may /\ goalActive
    /\ rounds' = 0
    /\ UNCHANGED <<goalActive, agents>>

\* complete, cancel or block; the permission to set another goal is revoked.
EndGoal ==
    /\ InPhase("model") /\ goalTurn.steps < MaxIterations /\ goalActive
    /\ goalActive' = FALSE
    /\ goalTurn' = [goalTurn EXCEPT !.steps = @ + 1, !.why = "tools",
                                    !.phase = "drain", !.may = FALSE]
    /\ UNCHANGED <<bus, waiting, followUps, rounds, agents, stopping, runShown,
                   requests, goalGhosts>>

\* Mutant: the limit is checked after the new sub-agent is counted out.
StartsOneMore(a) == agents[a] = "unused" /\ Cardinality(Counted) <= MaxConcurrent
\* The limit counts the sub-agents of every session, inline ones included.
Starts(a) == agents[a] = "unused" /\ Cardinality(Counted) < MaxConcurrent

Spawn(a) ==
    /\ CallsTools /\ Starts(a)
    /\ agents' = [agents EXCEPT ![a] = "running"]
    /\ UNCHANGED goalState

\* wait=true: the tool call awaits the sub-agent.
RunInline(a) ==
    /\ Responds("tools", "inline") /\ Starts(a)
    /\ agents' = [agents EXCEPT ![a] = "inline"]
    /\ UNCHANGED goalState

-----------------------------------------------------------------------------
(* Draining the pending queue *)

\* Mutant: the model's final answer ends the turn of an active goal.
AfterDrainEnds(injected) ==
    CASE goalTurn.why = "tools"  -> "model"
      [] goalTurn.why = "budget" -> "over"
      [] OTHER -> IF injected THEN "model" ELSE "saving"
\* Where the turn goes from its drain: an answer given while the goal is active
\* is not the last one.
AfterDrain(injected) ==
    CASE goalTurn.why = "tools"  -> "model"
      [] goalTurn.why = "budget" -> "over"
      [] goalTurn.why = "final"  -> IF injected \/ goalActive THEN "model" ELSE "saving"
      [] OTHER               -> IF injected THEN "model" ELSE "saving"

Drained ==
    UNCHANGED <<bus, waiting, goalState, agents, stopping, runShown, requests, goalGhosts>>

MayTake == goalTurn.cycles < MaxDrains

TakeFollowUps ==
    /\ InPhase("drain") \/ InPhase("blocked")
    /\ MayTake /\ followUps # <<>>
    /\ LET n == IF Len(followUps) < DrainLimit THEN Len(followUps) ELSE DrainLimit IN
       followUps' = SubSeq(followUps, n + 1, Len(followUps))
    /\ goalTurn' = [goalTurn EXCEPT !.cycles = @ + 1, !.phase = AfterDrain(TRUE)]
    /\ Drained

\* Nothing to inject, but sub-agents of the session run: the drain waits for
\* the queue, for 300 s at most.
Block ==
    /\ InPhase("drain") /\ MayTake /\ followUps = <<>>
    /\ \E a \in Agents : agents[a] = "running"
    /\ goalTurn' = [goalTurn EXCEPT !.phase = "blocked"]
    /\ UNCHANGED followUps /\ Drained

InjectNothing ==
    /\ \/ InPhase("blocked") /\ followUps = <<>>
       \/ InPhase("drain") /\ ~MayTake
       \/ /\ InPhase("drain") /\ followUps = <<>>
          /\ \A a \in Agents : agents[a] # "running"
    /\ goalTurn' = [goalTurn EXCEPT !.phase = AfterDrain(FALSE)]
    /\ UNCHANGED followUps /\ Drained

-----------------------------------------------------------------------------
(* The end of a turn *)

ReachBudget ==
    /\ InPhase("model") /\ goalTurn.steps = MaxIterations
    /\ goalTurn' = [goalTurn EXCEPT !.why = "budget", !.phase = "drain"]
    /\ UNCHANGED <<bus, waiting, followUps, goalState, agents, stopping, runShown,
                   requests, goalGhosts>>

\* Turns of sub-agents' results are not continued.
GoalContinuationAvailable ==
    goalActive /\ rounds < MaxRounds /\ goalTurn.opener \notin Agents

\* maybe_continue_turn(): the round is counted and the turn marked before the
\* slice is put into its queue.  Nothing takes from a full queue until the turn
\* ends, so the put never returns.
ContinueTurn ==
    /\ InPhase("over") /\ GoalContinuationAvailable
    /\ rounds' = rounds + 1
    /\ IF Len(followUps) < FollowUpCap
       THEN /\ followUps' = Append(followUps, "slice")
            /\ slices' = slices + 1
            /\ goalTurn' = [goalTurn EXCEPT !.continuing = TRUE, !.phase = "saving"]
       ELSE /\ goalTurn' = [goalTurn EXCEPT !.continuing = TRUE, !.phase = "putting"]
            /\ UNCHANGED <<followUps, slices>>
    /\ UNCHANGED <<bus, waiting, goalActive, agents, stopping, runShown, requests,
                   quota, lastEnd, unshown>>

FinishTurn ==
    /\ InPhase("over") /\ ~GoalContinuationAvailable
    /\ goalTurn' = [goalTurn EXCEPT !.phase = "saving"]
    /\ UNCHANGED followUps /\ Drained

\* _dispatch()'s finally: what is left goes back to the bus, and the session is
\* shown idle unless its slice follows.
Leave(how) ==
    /\ goalTurn' = NoTurn
    /\ bus' = bus \o followUps /\ followUps' = <<>>
    /\ runShown' = (runShown /\ goalTurn.continuing)
    /\ lastEnd' = how

SaveTurn ==
    /\ InPhase("saving")
    /\ Leave(IF goalTurn.why = "budget" /\ goalTurn.opener \in Agents THEN "background"
             ELSE IF goalTurn.why = "error" THEN "failed" ELSE "saved")
    /\ rounds' = IF goalActive THEN rounds ELSE 0
    /\ unshown' = (unshown /\ goalTurn.continuing)
    /\ UNCHANGED <<waiting, goalActive, agents, stopping, requests, slices, quota>>

\* An exception leaves the turn without saving it.
TurnRaises ==
    /\ InPhase("model")
    /\ Leave("failed")
    /\ unshown' = FALSE
    /\ UNCHANGED <<waiting, goalState, agents, stopping, requests, slices, quota>>
-----------------------------------------------------------------------------
(* Sub-agents *)

\* A background sub-agent announces its result, or its error, and its task is
\* done.
AgentFinishes(a) ==
    /\ agents[a] = "running"
    /\ agents' = [agents EXCEPT ![a] = "closing"]
    /\ bus' = Append(bus, a)
    /\ UNCHANGED <<waiting, goalTurn, followUps, goalState, stopping, runShown, requests,
                   goalGhosts>>

AgentCleaned(a) ==
    /\ agents[a] = "closing"
    /\ agents' = [agents EXCEPT ![a] = "over"]
    /\ UNCHANGED <<bus, waiting, goalTurn, followUps, goalState, stopping, runShown,
                   requests, goalGhosts>>

\* The result of run_inline() is the result of the tool call.
InlineFinishes(a) ==
    /\ agents[a] = "inline" /\ InPhase("inline")
    /\ agents' = [agents EXCEPT ![a] = "over"]
    /\ goalTurn' = [goalTurn EXCEPT !.phase = "drain"]
    /\ UNCHANGED <<bus, waiting, followUps, goalState, stopping, runShown, requests,
                   goalGhosts>>

-----------------------------------------------------------------------------
(* /stop: cancel the tasks and await them, then cancel the sub-agents and    *)
(* await these.                                                              *)

\* A cancelled task that already waited for the lock publishes the idle status;
\* one that had not begun does nothing.
StopArrives(begun) ==
    /\ Takes("stop")
    /\ begun => waiting # <<>>
    /\ stopping' = "turns"
    /\ IF goalTurn = NoTurn THEN UNCHANGED goalTurn
       ELSE goalTurn' = [goalTurn EXCEPT !.cancelled = TRUE]
    /\ waiting' = <<>>
    /\ runShown' = (runShown /\ ~begun)
    /\ unshown' = (/\ runShown'
                   /\ unshown \/ \E i \in DOMAIN waiting : waiting[i] = "slice")
    /\ lastEnd' = IF waiting = <<>> THEN lastEnd ELSE "cancelled"
    /\ UNCHANGED <<followUps, goalState, agents, requests, slices, quota>>

\* A sub-agent the turn awaits is cancelled with it, and ends first.
UnwindTurn ==
    /\ goalTurn # NoTurn /\ goalTurn.cancelled
    /\ Leave("cancelled")
    /\ unshown' = (/\ runShown'
                   /\ unshown \/ \A i \in DOMAIN followUps : followUps[i] # "slice")
    /\ agents' = [a \in Agents |-> IF agents[a] = "inline" THEN "over" ELSE agents[a]]
    /\ UNCHANGED <<waiting, goalState, stopping, requests, slices, quota>>

\* Mutant: the cancelled tasks are not awaited first.
StopAgentsAtOnce ==
    /\ stopping = "turns" /\ stopping' = "agents"
    /\ agents' = [a \in Agents |->
                    IF agents[a] = "running" THEN "cancelled" ELSE agents[a]]
    /\ UNCHANGED <<bus, waiting, goalTurn, followUps, goalState, runShown, requests,
                   goalGhosts>>
StopAgents ==
    /\ stopping = "turns" /\ goalTurn = NoTurn
    /\ stopping' = "agents"
    /\ agents' = [a \in Agents |->
                    IF agents[a] = "running" THEN "cancelled" ELSE agents[a]]
    /\ UNCHANGED <<bus, waiting, goalTurn, followUps, goalState, runShown, requests,
                   goalGhosts>>

\* A cancelled sub-agent announces nothing.
AgentUnwinds(a) ==
    /\ agents[a] = "cancelled"
    /\ agents' = [agents EXCEPT ![a] = "closing"]
    /\ UNCHANGED <<bus, waiting, goalTurn, followUps, goalState, stopping, runShown,
                   requests, goalGhosts>>

StopReturns ==
    /\ stopping = "agents" /\ \A a \in Agents : agents[a] # "cancelled"
    /\ stopping' = "no"
    /\ UNCHANGED <<bus, waiting, goalTurn, followUps, goalState, agents, runShown,
                   requests, goalGhosts>>

-----------------------------------------------------------------------------

GoalUsers == \E m \in Requests : UserSends(m)
GoalLoop ==
    \/ RefuseGoal \/ \E m \in GoalMessages : RouteFollowUp(m) \/ MakeTask(m)
    \/ \E begun \in BOOLEAN : StopArrives(begun)
GoalModel ==
    \/ \E why \in {"tools", "final", "error"} : Respond(why)
    \/ CreateGoal \/ ReplaceGoal \/ EndGoal
    \/ \E a \in Agents : Spawn(a) \/ RunInline(a)
GoalRunner ==
    \/ StartTurn \/ TakeFollowUps \/ Block \/ InjectNothing
    \/ ReachBudget \/ ContinueTurn \/ FinishTurn \/ SaveTurn \/ TurnRaises
GoalAgents ==
    \E a \in Agents :
        AgentFinishes(a) \/ AgentCleaned(a) \/ InlineFinishes(a) \/ AgentUnwinds(a)
GoalStop == UnwindTurn \/ StopAgents \/ StopReturns

\* What happens without the user.
GoalWork == GoalLoop \/ GoalModel \/ GoalRunner \/ GoalAgents \/ GoalStop
GoalNext == GoalUsers \/ GoalWork
GoalSpec == GoalInit /\ [][GoalNext]_goalVars

\* Model calls end (they time out), drains wait for 300 s at most, sub-agents
\* have a budget of their own and cancellation is not suppressed.
GoalFairSpec == GoalSpec /\ WF_goalVars(GoalWork)

-----------------------------------------------------------------------------
(* Properties *)

\* The records are well-formed, the queue and the counters keep their limits,
\* and no more sub-agents are counted than the limit allows.
GoalTypeOK ==
    /\ bus \in Seq(GoalMessages) /\ waiting \in Seq(GoalMessages)
    /\ followUps \in Seq(GoalMessages) /\ Len(followUps) <= FollowUpCap
    /\ goalTurn \in Turns \cup {NoTurn}
    /\ goalActive \in BOOLEAN /\ rounds \in 0..MaxRounds
    /\ agents \in [Agents -> {"unused", "running", "inline", "cancelled", "closing", "over"}]
    /\ Cardinality(Counted) <= MaxConcurrent
    /\ stopping \in {"no", "turns", "agents"}
    /\ runShown \in BOOLEAN /\ requests \in 0..MaxRequests
    /\ slices \in Nat /\ quota \in Nat
    /\ lastEnd \in {"none", "saved", "failed", "background", "cancelled"}
    /\ unshown \in BOOLEAN

AtRest ==
    /\ goalTurn = NoTurn /\ bus = <<>> /\ waiting = <<>> /\ stopping = "no" /\ Alive = {}
\* However the model behaves, even if it never finishes its goal or keeps on
\* replacing it, a session continues by itself MaxRounds times at most for every
\* turn that a user's /goal command opened.
SlicesAreBudgeted == slices <= quota

\* An active goal with rounds left does not go idle by itself: only a failed or
\* cancelled turn, or one that a sub-agent's result opened, leaves it behind.
GoalKeepsGoing ==
    AtRest /\ goalActive /\ rounds < MaxRounds =>
        lastEnd \in {"failed", "cancelled", "background"}

\* A session at rest is not shown as running, unless a cancellation hit a slice
\* before its task began or a turn that could not queue its slice.
RunShownEnds == AtRest /\ runShown => unshown

\* When /stop returns no turn, task or sub-agent of the session is at work, so
\* that only what is on the bus already can follow it.
StoppedIsQuiet ==
    [][stopping = "agents" /\ stopping' = "no" =>
          goalTurn' = NoTurn /\ waiting' = <<>> /\ Alive' = {}]_goalVars

\* turn_continuation.py, 95: "The next queued continuation slice owns the eventual
\* user-visible response": a turn that sets out to continue makes way for it.
SlicesFollow == (goalTurn # NoTurn /\ goalTurn.continuing) ~> (goalTurn = NoTurn)
=============================================================================
