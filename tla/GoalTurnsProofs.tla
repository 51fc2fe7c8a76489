--------------------------- MODULE GoalTurnsProofs ---------------------------
(***************************************************************************)
(* What GoalTurns promises, for every number of sub-agents and messages    *)
(* and every value of its limits.                                          *)
(***************************************************************************)
EXTENDS GoalTurns, FiniteSetTheorems, TLAPS

USE GoalBoundsAssumption, NoTurnAssumption DEF GoalBoundsAssumption

AgentStates == {"unused", "running", "inline", "cancelled", "closing", "over"}

\* GoalTypeOK without its limit of sub-agents.
Shaped ==
    /\ bus \in Seq(GoalMessages) /\ waiting \in Seq(GoalMessages)
    /\ followUps \in Seq(GoalMessages) /\ Len(followUps) <= FollowUpCap
    /\ goalTurn \in Turns \cup {NoTurn}
    /\ goalActive \in BOOLEAN /\ rounds \in 0..MaxRounds
    /\ agents \in [Agents -> AgentStates]
    /\ stopping \in {"no", "turns", "agents"}
    /\ runShown \in BOOLEAN /\ requests \in 0..MaxRequests
    /\ slices \in Nat /\ quota \in Nat
    /\ lastEnd \in {"none", "saved", "failed", "background", "cancelled"}
    /\ unshown \in BOOLEAN

-----------------------------------------------------------------------------
(* Types *)

LEMMA AppendShaped ==
    ASSUME NEW s \in Seq(GoalMessages), NEW m \in GoalMessages
    PROVE  Append(s, m) \in Seq(GoalMessages) /\ Len(Append(s, m)) = Len(s) + 1
OBVIOUS

\* A step of the run loop or of the user keeps the types.
LEMMA LoopShaped ==
    ASSUME Shaped, GoalLoop \/ GoalUsers
    PROVE  Shaped'
<1> USE DEF Shaped, goalState, goalGhosts
<1>1. ASSUME NEW m \in Requests, UserSends(m)
      PROVE  Shaped'
  <2>1. m \in GoalMessages  BY DEF Requests, GoalMessages
  <2> QED  BY <1>1, <2>1 DEF UserSends
<1>2. CASE RefuseGoal
  BY <1>2 DEF RefuseGoal, Takes, Routed
<1>3. ASSUME NEW m \in GoalMessages, RouteFollowUp(m)
      PROVE  Shaped'
  BY <1>3 DEF RouteFollowUp, Takes, Routed
<1>4. ASSUME NEW m \in GoalMessages, MakeTask(m)
      PROVE  Shaped'
  BY <1>4 DEF MakeTask, Takes, Routed
<1>5. ASSUME NEW begun \in BOOLEAN, StopArrives(begun)
      PROVE  Shaped'
  <2>1. goalTurn' \in Turns \cup {NoTurn}
    BY <1>5 DEF StopArrives, Turns
  <2>2. /\ unshown' \in BOOLEAN /\ runShown' \in BOOLEAN
        /\ lastEnd' \in {"none", "saved", "failed", "background", "cancelled"}
    BY <1>5 DEF StopArrives
  <2> QED  BY <1>5, <2>1, <2>2 DEF StopArrives, Takes
<1> QED  BY <1>1, <1>2, <1>3, <1>4, <1>5 DEF GoalLoop, GoalUsers

LEMMA ResponseShaped ==
    ASSUME Shaped,
           NEW why \in {"tools", "final", "error"}, NEW phase \in {"drain", "inline"},
           Responds(why, phase)
    PROVE  goalTurn' \in Turns
<1>1. goalTurn \in Turns /\ goalTurn.steps < MaxIterations
  BY DEF Responds, InPhase, Shaped
<1>2. goalTurn.steps + 1 \in 0..MaxIterations
  BY <1>1 DEF Turns
<1>3. goalTurn' = [goalTurn EXCEPT !.steps = @ + 1, !.why = why, !.phase = phase]
  BY DEF Responds
<1> QED  BY <1>1, <1>2, <1>3 DEF Turns

\* A step inside a turn leaves it a turn.
LEMMA StepShaped ==
    ASSUME Shaped,
           \/ TakeFollowUps \/ Block \/ InjectNothing \/ ReachBudget
           \/ ContinueTurn \/ FinishTurn \/ EndGoal
    PROVE  goalTurn' \in Turns
<1>1. goalTurn \in Turns
  BY DEF TakeFollowUps, Block, InjectNothing, ReachBudget, ContinueTurn, FinishTurn,
         EndGoal, InPhase, Shaped
<1>2. ASSUME NEW injected \in BOOLEAN
      PROVE  AfterDrain(injected) \in {"model", "over", "saving"}
  BY DEF AfterDrain
<1>3. CASE TakeFollowUps
  <2>1. goalTurn.cycles + 1 \in 0..MaxDrains
    BY <1>1, <1>3 DEF TakeFollowUps, MayTake, Turns
  <2>2. AfterDrain(TRUE) \in {"model", "over", "saving"}  BY <1>2
  <2>3. goalTurn' = [goalTurn EXCEPT !.cycles = @ + 1, !.phase = AfterDrain(TRUE)]
    BY <1>3 DEF TakeFollowUps
  <2> QED  BY <1>1, <2>1, <2>2, <2>3 DEF Turns
<1>4. CASE Block
  BY <1>1, <1>4 DEF Block, Turns
<1>5. CASE InjectNothing
  <2>1. AfterDrain(FALSE) \in {"model", "over", "saving"}  BY <1>2
  <2>2. goalTurn' = [goalTurn EXCEPT !.phase = AfterDrain(FALSE)]
    BY <1>5 DEF InjectNothing
  <2> QED  BY <1>1, <2>1, <2>2 DEF Turns
<1>6. CASE ReachBudget \/ FinishTurn
  BY <1>1, <1>6 DEF ReachBudget, FinishTurn, Turns
<1>7. CASE ContinueTurn
  <2>1. \E p \in {"putting", "saving"} :
           goalTurn' = [goalTurn EXCEPT !.continuing = TRUE, !.phase = p]
    BY <1>7 DEF ContinueTurn
  <2> QED  BY <1>1, <2>1 DEF Turns
<1>8. CASE EndGoal
  <2>1. goalTurn.steps + 1 \in 0..MaxIterations
    BY <1>1, <1>8 DEF EndGoal, Turns
  <2> QED  BY <1>1, <1>8, <2>1 DEF EndGoal, Turns
<1> QED  BY <1>3, <1>4, <1>5, <1>6, <1>7, <1>8

\* A response of the model keeps the types.
LEMMA ModelShaped ==
    ASSUME Shaped, GoalModel
    PROVE  Shaped'
<1> USE DEF Shaped, goalState, goalGhosts
<1>1. ASSUME NEW why \in {"tools", "final", "error"}, Respond(why)
      PROVE  Shaped'
  <2>1. goalTurn' \in Turns  BY ResponseShaped, <1>1 DEF Respond
  <2> QED  BY <1>1, <2>1 DEF Respond, Responds
<1>2. CASE CreateGoal \/ ReplaceGoal
  <2>1. /\ goalActive' \in BOOLEAN /\ rounds' = 0
        /\ UNCHANGED agents
    BY <1>2 DEF CreateGoal, ReplaceGoal
  <2>2. Responds("tools", "drain")  BY <1>2 DEF CreateGoal, ReplaceGoal, CallsTools
  <2>3. goalTurn' \in Turns  BY ResponseShaped, <2>2
  <2> QED  BY <2>1, <2>2, <2>3 DEF Responds
<1>3. CASE EndGoal
  <2>1. goalTurn' \in Turns  BY <1>3, StepShaped
  <2> QED  BY <1>3, <2>1 DEF EndGoal
<1>4. ASSUME NEW a \in Agents, Spawn(a) \/ RunInline(a)
      PROVE  Shaped'
  <2>1. goalTurn' \in Turns  BY ResponseShaped, <1>4 DEF Spawn, RunInline, CallsTools
  <2>2. agents' \in [Agents -> AgentStates]
    BY <1>4 DEF Spawn, RunInline, AgentStates
  <2> QED  BY <1>4, <2>1, <2>2 DEF Spawn, RunInline, CallsTools, Responds
<1> QED  BY <1>1, <1>2, <1>3, <1>4 DEF GoalModel

\* A step of the turn keeps the types.
LEMMA RunnerShaped ==
    ASSUME Shaped, GoalRunner
    PROVE  Shaped'
<1> USE DEF Shaped, goalState, goalGhosts
<1>1. CASE StartTurn
  <2>1. Head(waiting) \in GoalMessages /\ Tail(waiting) \in Seq(GoalMessages)
    BY <1>1 DEF StartTurn
  <2>2. goalTurn' \in Turns
    BY <1>1, <2>1 DEF StartTurn, Turns, MayMutate, Continuing
  <2>3. runShown' \in BOOLEAN /\ quota' \in Nat
    BY <1>1 DEF StartTurn
  <2> QED  BY <1>1, <2>1, <2>2, <2>3 DEF StartTurn
<1>2. CASE TakeFollowUps
  <2>1. goalTurn' \in Turns  BY <1>2, StepShaped
  <2>2. PICK n \in 1..Len(followUps) : followUps' = SubSeq(followUps, n + 1, Len(followUps))
    <3>1. followUps # <<>>  BY <1>2 DEF TakeFollowUps
    <3>2. Len(followUps) \in Nat \ {0}  BY <3>1
    <3>3. CASE Len(followUps) < DrainLimit
      <4>1. followUps' = SubSeq(followUps, Len(followUps) + 1, Len(followUps))
        BY <1>2, <3>3 DEF TakeFollowUps
      <4> QED  BY <3>2, <4>1
    <3>4. CASE ~(Len(followUps) < DrainLimit)
      <4>1. followUps' = SubSeq(followUps, DrainLimit + 1, Len(followUps))
        BY <1>2, <3>4 DEF TakeFollowUps
      <4>2. DrainLimit \in 1..Len(followUps)  BY <3>2, <3>4
      <4> QED  BY <4>1, <4>2
    <3> QED  BY <3>3, <3>4
  <2>3. followUps' \in Seq(GoalMessages)
    BY <2>2
  <2>4. Len(followUps') <= FollowUpCap
    BY <2>2
  <2> QED  BY <1>2, <2>1, <2>3, <2>4 DEF TakeFollowUps, Drained
<1>3. CASE Block
  <2>1. goalTurn' \in Turns  BY <1>3, StepShaped
  <2> QED  BY <1>3, <2>1 DEF Block, Drained
<1>4. CASE InjectNothing
  <2>1. goalTurn' \in Turns  BY <1>4, StepShaped
  <2> QED  BY <1>4, <2>1 DEF InjectNothing, Drained
<1>5. CASE ReachBudget
  <2>1. goalTurn' \in Turns  BY <1>5, StepShaped
  <2> QED  BY <1>5, <2>1 DEF ReachBudget
<1>6. CASE ContinueTurn
  <2>1. goalTurn' \in Turns  BY <1>6, StepShaped
  <2>2. rounds' \in 0..MaxRounds
    BY <1>6 DEF ContinueTurn, GoalContinuationAvailable
  <2>3. /\ followUps' \in Seq(GoalMessages) /\ Len(followUps') <= FollowUpCap
        /\ slices' \in Nat
    <3>1. "slice" \in GoalMessages  BY DEF GoalMessages
    <3>2. CASE Len(followUps) < FollowUpCap
      <4>1. followUps' = Append(followUps, "slice") /\ slices' = slices + 1
        BY <1>6, <3>2 DEF ContinueTurn
      <4> QED  BY <3>1, <3>2, <4>1, AppendShaped
    <3>3. CASE ~(Len(followUps) < FollowUpCap)
      BY <1>6, <3>3 DEF ContinueTurn
    <3> QED  BY <3>2, <3>3
  <2> QED  BY <1>6, <2>1, <2>2, <2>3 DEF ContinueTurn
<1>7. CASE FinishTurn
  <2>1. goalTurn' \in Turns  BY <1>7, StepShaped
  <2> QED  BY <1>7, <2>1 DEF FinishTurn, Drained
<1>8. ASSUME NEW how \in {"saved", "failed", "background"}, Leave(how), goalTurn \in Turns
      PROVE  /\ bus' \in Seq(GoalMessages) /\ followUps' = <<>>
             /\ goalTurn' = NoTurn /\ runShown' \in BOOLEAN /\ lastEnd' = how
  BY <1>8 DEF Leave, Turns
<1>9. CASE SaveTurn
  <2>1. goalTurn \in Turns  BY <1>9 DEF SaveTurn, InPhase
  <2>2. PICK how \in {"saved", "failed", "background"} : Leave(how)
    BY <1>9 DEF SaveTurn
  <2>3. /\ bus' \in Seq(GoalMessages) /\ followUps' = <<>>
        /\ goalTurn' = NoTurn /\ runShown' \in BOOLEAN /\ lastEnd' = how
    BY <1>8, <2>1, <2>2
  <2>4. rounds' \in 0..MaxRounds /\ unshown' \in BOOLEAN
    BY <1>9, <2>1 DEF SaveTurn, Turns
  <2> QED  BY <1>9, <2>3, <2>4 DEF SaveTurn
<1>10. CASE TurnRaises
  <2>1. goalTurn \in Turns  BY <1>10 DEF TurnRaises, InPhase
  <2>2. /\ bus' \in Seq(GoalMessages) /\ followUps' = <<>>
        /\ goalTurn' = NoTurn /\ runShown' \in BOOLEAN /\ lastEnd' = "failed"
    <3>1. Leave("failed")  BY <1>10 DEF TurnRaises
    <3> QED  BY <1>8, <2>1, <3>1
  <2>3. /\ UNCHANGED <<waiting, goalActive, rounds, agents, stopping, requests, slices, quota>>
        /\ unshown' \in BOOLEAN
    BY <1>10 DEF TurnRaises
  <2> QED  BY <2>2, <2>3
<1> QED
  BY <1>1, <1>2, <1>3, <1>4, <1>5, <1>6, <1>7, <1>9, <1>10 DEF GoalRunner

\* A step of a sub-agent or of /stop keeps the types.
LEMMA AgentsShaped ==
    ASSUME Shaped, GoalAgents \/ GoalStop
    PROVE  Shaped'
<1> USE DEF Shaped, goalState, goalGhosts
<1>1. ASSUME NEW a \in Agents, AgentFinishes(a) \/ AgentCleaned(a) \/ AgentUnwinds(a)
      PROVE  Shaped'
  <2>1. agents' \in [Agents -> AgentStates]
    BY <1>1 DEF AgentFinishes, AgentCleaned, AgentUnwinds, AgentStates
  <2>2. bus' \in Seq(GoalMessages)
    <3>1. a \in GoalMessages  BY DEF GoalMessages
    <3>2. bus' = bus \/ bus' = Append(bus, a)
      BY <1>1 DEF AgentFinishes, AgentCleaned, AgentUnwinds
    <3> QED  BY <3>1, <3>2, AppendShaped
  <2>3. UNCHANGED <<waiting, goalTurn, followUps, goalActive, rounds, stopping, runShown,
                    requests, slices, quota, lastEnd, unshown>>
    BY <1>1 DEF AgentFinishes, AgentCleaned, AgentUnwinds
  <2> QED  BY <2>1, <2>2, <2>3
<1>2. ASSUME NEW a \in Agents, InlineFinishes(a)
      PROVE  Shaped'
  <2>1. agents' \in [Agents -> AgentStates]  BY <1>2 DEF InlineFinishes, AgentStates
  <2>2. goalTurn' \in Turns  BY <1>2 DEF InlineFinishes, InPhase, Turns
  <2> QED  BY <1>2, <2>1, <2>2 DEF InlineFinishes
<1>3. CASE UnwindTurn
  <2>1. goalTurn \in Turns /\ goalTurn.continuing \in BOOLEAN
    BY <1>3 DEF UnwindTurn, Turns
  <2>2. agents' \in [Agents -> AgentStates]  BY <1>3 DEF UnwindTurn, AgentStates
  <2>3. unshown' \in BOOLEAN /\ runShown' \in BOOLEAN
    BY <1>3, <2>1 DEF UnwindTurn, Leave
  <2> QED  BY <1>3, <2>1, <2>2, <2>3 DEF UnwindTurn, Leave
<1>4. CASE StopAgents
  <2>1. agents' \in [Agents -> AgentStates]  BY <1>4 DEF StopAgents, AgentStates
  <2> QED  BY <1>4, <2>1 DEF StopAgents
<1>5. CASE StopReturns
  BY <1>5 DEF StopReturns
<1> QED  BY <1>1, <1>2, <1>3, <1>4, <1>5 DEF GoalAgents, GoalStop
\* Every step keeps the types.
LEMMA ShapeKept ==
    ASSUME Shaped, [GoalNext]_goalVars
    PROVE  Shaped'
<1>1. CASE UNCHANGED goalVars
  BY <1>1 DEF Shaped, goalVars, goalState, goalGhosts
<1> QED
  BY <1>1, LoopShaped, ModelShaped, RunnerShaped, AgentsShaped DEF GoalNext, GoalWork

LEMMA ShapedAtFirst == GoalInit => Shaped
<1> SUFFICES ASSUME GoalInit PROVE Shaped
  OBVIOUS
<1>1. agents \in [Agents -> AgentStates]  BY DEF GoalInit, AgentStates
<1>2. <<>> \in Seq(GoalMessages) /\ Len(<<>>) = 0  OBVIOUS
<1>3. /\ bus = <<>> /\ waiting = <<>> /\ followUps = <<>> /\ goalTurn = NoTurn
      /\ goalActive \in BOOLEAN /\ runShown \in BOOLEAN /\ unshown \in BOOLEAN
      /\ rounds = 0 /\ requests = 0 /\ slices = 0 /\ quota = 0
      /\ stopping = "no" /\ lastEnd = "none"
  BY DEF GoalInit
<1> QED  BY <1>1, <1>2, <1>3 DEF Shaped

-----------------------------------------------------------------------------
(* The limit of sub-agents *)

Limited == Cardinality(Counted) <= MaxConcurrent

\* Outside the model's calls nobody is added to the sub-agents that are counted.
LEMMA CountedShrinks ==
    ASSUME Shaped, [GoalNext]_goalVars,
           ~\E a \in Agents : Spawn(a) \/ RunInline(a)
    PROVE  Counted' \subseteq Counted
<1>1. CASE UNCHANGED agents
  BY <1>1 DEF Counted
<1>2. CASE GoalUsers \/ GoalLoop
  <2>1. UNCHANGED agents
    BY <1>2 DEF GoalUsers, GoalLoop, UserSends, RefuseGoal, RouteFollowUp, MakeTask,
                Routed, StopArrives
  <2> QED  BY <1>1, <2>1
<1>3. CASE GoalModel
  <2>1. UNCHANGED agents
    BY <1>3 DEF GoalModel, Respond, CreateGoal, ReplaceGoal, EndGoal
  <2> QED  BY <1>1, <2>1
<1>4. CASE GoalRunner
  <2>1. UNCHANGED agents
    BY <1>4 DEF GoalRunner, StartTurn, TakeFollowUps, Block, InjectNothing, Drained,
                ReachBudget, ContinueTurn, FinishTurn, SaveTurn, TurnRaises
  <2> QED  BY <1>1, <2>1
<1>5. ASSUME NEW a \in Agents,
             AgentFinishes(a) \/ AgentCleaned(a) \/ InlineFinishes(a) \/ AgentUnwinds(a)
      PROVE  Counted' \subseteq Counted
  <2>1. \E state \in AgentStates : agents' = [agents EXCEPT ![a] = state]
    BY <1>5 DEF AgentFinishes, AgentCleaned, InlineFinishes, AgentUnwinds, AgentStates
  <2>2. a \in Counted
    BY <1>5 DEF AgentFinishes, AgentCleaned, InlineFinishes, AgentUnwinds, Counted
  <2> QED  BY <2>1, <2>2 DEF Counted, Shaped
<1>6. CASE UnwindTurn \/ StopAgents
  <2>1. \A b \in Agents :
           agents'[b] = agents[b] \/ (agents[b] \in {"inline", "running"})
    BY <1>6 DEF UnwindTurn, StopAgents
  <2> QED  BY <2>1 DEF Counted
<1>7. CASE StopReturns \/ UNCHANGED goalVars
  <2>1. UNCHANGED agents  BY <1>7 DEF StopReturns, goalVars
  <2> QED  BY <1>1, <2>1
<1> QED
  BY <1>2, <1>3, <1>4, <1>5, <1>6, <1>7 DEF GoalNext, GoalWork, GoalAgents, GoalStop

\* spawn checks the limit with the sub-agent that it starts.
LEMMA LimitKept ==
    ASSUME Shaped, Limited, [GoalNext]_goalVars
    PROVE  Limited'
<1>1. IsFiniteSet(Counted)
  <2>1. Counted \subseteq Agents  BY DEF Counted
  <2> QED  BY <2>1, FS_Subset, GoalAgentsAssumption DEF GoalAgentsAssumption
<1>2. Cardinality(Counted) \in Nat  BY <1>1, FS_CardinalityType
<1>3. ASSUME NEW a \in Agents, Spawn(a) \/ RunInline(a)
      PROVE  Limited'
  <2>1. Starts(a)  BY <1>3 DEF Spawn, RunInline
  <2>2. \E state \in {"running", "inline"} : agents' = [agents EXCEPT ![a] = state]
    BY <1>3 DEF Spawn, RunInline
  <2>3. a \notin Counted  BY <2>1 DEF Starts, Counted
  <2>4. Counted' = Counted \cup {a}
    BY <2>2 DEF Counted, Shaped
  <2>5. Cardinality(Counted') = Cardinality(Counted) + 1
    BY <1>1, <2>3, <2>4, FS_AddElement
  <2>6. Cardinality(Counted) < MaxConcurrent  BY <2>1 DEF Starts
  <2> QED  BY <1>2, <2>5, <2>6 DEF Limited
<1>4. CASE ~\E a \in Agents : Spawn(a) \/ RunInline(a)
  <2>1. Counted' \subseteq Counted  BY <1>4, CountedShrinks
  <2>2. /\ Cardinality(Counted') \in Nat
        /\ Cardinality(Counted') <= Cardinality(Counted)
    <3>1. IsFiniteSet(Counted')  BY <1>1, <2>1, FS_Subset
    <3> QED  BY <1>1, <2>1, <3>1, FS_Subset, FS_CardinalityType
  <2> QED  BY <1>2, <2>2 DEF Limited
<1> QED  BY <1>3, <1>4

LEMMA GoalStart == GoalInit => Shaped /\ Limited
<1> SUFFICES ASSUME GoalInit PROVE Shaped /\ Limited
  OBVIOUS
<1>1. Shaped  BY ShapedAtFirst
<1>2. Counted = {}  BY DEF GoalInit, Counted
<1>3. Cardinality(Counted) = 0  BY <1>2, FS_EmptySet
<1> QED  BY <1>1, <1>3 DEF Limited

LEMMA GoalTypes == Shaped /\ Limited => GoalTypeOK
  BY DEF Shaped, Limited, GoalTypeOK, AgentStates

\* GoalTypeOK for every number of sub-agents and every limit: whatever the model
\* asks for and /stop cancels, no more than max_concurrent_subagents are counted.
THEOREM GoalTypeCorrect == GoalSpec => []GoalTypeOK
<1>1. Shaped /\ Limited /\ [GoalNext]_goalVars => (Shaped /\ Limited)'
  BY ShapeKept, LimitKept
<1> QED  BY <1>1, GoalStart, GoalTypes, PTL DEF GoalSpec
-----------------------------------------------------------------------------
(* The budget of a goal *)

\* Every round that is left to the goal, and every goal that the turn may still
\* set, is paid for.
Budgeted ==
    /\ slices <= quota
    /\ goalActive => slices + (MaxRounds - rounds) <= quota
    /\ goalTurn # NoTurn =>
          /\ goalTurn.continuing => goalTurn.phase \in {"putting", "saving"}
          /\ goalTurn.may /\ ~goalTurn.continuing => slices + MaxRounds <= quota

\* A step that leaves the goal and the budget alone, and continues no turn.
LEMMA BudgetStays ==
    ASSUME Shaped, Budgeted, UNCHANGED <<goalActive, rounds, slices, quota>>,
           \/ goalTurn' = NoTurn \/ UNCHANGED goalTurn
           \/ /\ InPhase("model") \/ InPhase("inline") \/ InPhase("drain")
                 \/ InPhase("blocked") \/ InPhase("over")
              /\ goalTurn'.may => goalTurn.may
              /\ goalTurn'.continuing = goalTurn.continuing
           \/ /\ goalTurn # NoTurn
              /\ goalTurn'.may = goalTurn.may /\ goalTurn'.phase = goalTurn.phase
              /\ goalTurn'.continuing = goalTurn.continuing
    PROVE  Budgeted'
BY DEF Budgeted, InPhase

\* The invariant of the budget.
LEMMA BudgetKept ==
    ASSUME Shaped, Budgeted, [GoalNext]_goalVars
    PROVE  Budgeted'
<1> USE DEF goalState, goalGhosts
<1>1. CASE GoalUsers \/ GoalLoop
  <2>1. UNCHANGED <<goalActive, rounds, slices, quota>>
    BY <1>1 DEF GoalUsers, GoalLoop, UserSends, RefuseGoal, RouteFollowUp, MakeTask,
                Routed, StopArrives
  <2>2. \/ UNCHANGED goalTurn
        \/ goalTurn # NoTurn /\ goalTurn' = [goalTurn EXCEPT !.cancelled = TRUE]
    BY <1>1 DEF GoalUsers, GoalLoop, UserSends, RefuseGoal, RouteFollowUp, MakeTask,
                Routed, StopArrives
  <2>3. CASE UNCHANGED goalTurn  BY <2>1, <2>3, BudgetStays
  <2>4. CASE goalTurn # NoTurn /\ goalTurn' = [goalTurn EXCEPT !.cancelled = TRUE]
    <3>1. /\ goalTurn'.may = goalTurn.may /\ goalTurn'.phase = goalTurn.phase
          /\ goalTurn'.continuing = goalTurn.continuing
      BY <2>4 DEF Shaped, Turns
    <3> QED  BY <2>1, <2>4, <3>1, BudgetStays
  <2> QED  BY <2>2, <2>3, <2>4
<1>2. ASSUME NEW why, NEW phase, Responds(why, phase)
      PROVE  /\ InPhase("model") /\ goalTurn'.may = goalTurn.may
             /\ goalTurn'.continuing = goalTurn.continuing
             /\ UNCHANGED <<slices, quota>>
  BY <1>2 DEF Responds, InPhase, Shaped, Turns
<1>3. ASSUME NEW why \in {"tools", "final", "error"}, Respond(why)
      PROVE  Budgeted'
  <2>1. Responds(why, "drain") /\ UNCHANGED <<goalActive, rounds>>
    BY <1>3 DEF Respond
  <2> QED  BY <1>2, <2>1, BudgetStays
<1>4. CASE CreateGoal \/ ReplaceGoal
  <2>1. /\ Responds("tools", "drain") /\ goalTurn.may
        /\ goalActive' = TRUE /\ rounds' = 0
    BY <1>4 DEF CreateGoal, ReplaceGoal, CallsTools, Shaped
  <2>2. /\ InPhase("model") /\ goalTurn'.may = goalTurn.may
        /\ goalTurn'.continuing = goalTurn.continuing
        /\ UNCHANGED <<slices, quota>>
    BY <1>2, <2>1
  <2>3. ~goalTurn.continuing /\ slices + MaxRounds <= quota
    BY <2>1, <2>2 DEF Budgeted, InPhase
  <2> QED  BY <2>1, <2>2, <2>3 DEF Budgeted
<1>5. CASE EndGoal
  <2>1. /\ InPhase("model") /\ ~goalTurn'.may
        /\ goalTurn'.continuing = goalTurn.continuing
        /\ goalActive' = FALSE /\ UNCHANGED <<slices, quota>>
    BY <1>5 DEF EndGoal, InPhase, Shaped, Turns
  <2> QED  BY <2>1 DEF Budgeted, InPhase
<1>6. ASSUME NEW a \in Agents, Spawn(a) \/ RunInline(a)
      PROVE  Budgeted'
  <2>1. /\ \E phase \in {"drain", "inline"} : Responds("tools", phase)
        /\ UNCHANGED <<goalActive, rounds>>
    BY <1>6 DEF Spawn, RunInline, CallsTools
  <2> QED  BY <1>2, <2>1, BudgetStays
<1>7. CASE StartTurn
  <2>1. ~goalTurn'.continuing /\ (goalTurn'.may => Head(waiting) = "goal")
    BY <1>7 DEF StartTurn, MayMutate, Continuing
  <2>2. UNCHANGED <<goalActive, rounds, slices>>
    BY <1>7 DEF StartTurn
  <2>3. CASE Head(waiting) = "goal"
    <3>1. quota' = quota + MaxRounds  BY <1>7, <2>3 DEF StartTurn
    <3> QED  BY <2>1, <2>2, <3>1 DEF Budgeted, Shaped
  <2>4. CASE Head(waiting) # "goal"
    <3>1. quota' = quota  BY <1>7, <2>4 DEF StartTurn
    <3> QED  BY <2>1, <2>2, <2>4, <3>1 DEF Budgeted, Shaped
  <2> QED  BY <2>3, <2>4
<1>8. CASE TakeFollowUps \/ Block \/ InjectNothing \/ ReachBudget \/ FinishTurn
  <2>1. UNCHANGED <<goalActive, rounds, slices, quota>>
    BY <1>8 DEF TakeFollowUps, Block, InjectNothing, ReachBudget, FinishTurn, Drained
  <2>2. InPhase("model") \/ InPhase("drain") \/ InPhase("blocked") \/ InPhase("over")
    BY <1>8 DEF TakeFollowUps, Block, InjectNothing, ReachBudget, FinishTurn
  <2>3. goalTurn'.may = goalTurn.may /\ goalTurn'.continuing = goalTurn.continuing
    BY <1>8, <2>2 DEF TakeFollowUps, Block, InjectNothing, ReachBudget, FinishTurn,
                      InPhase, Shaped, Turns
  <2> QED  BY <2>1, <2>2, <2>3, BudgetStays
<1>9. CASE ContinueTurn
  <2>1. /\ goalTurn'.continuing /\ goalTurn'.phase \in {"putting", "saving"}
    BY <1>9 DEF ContinueTurn, InPhase, Shaped, Turns
  <2>2. goalActive /\ rounds < MaxRounds
    BY <1>9 DEF ContinueTurn, GoalContinuationAvailable
  <2>3. /\ rounds' = rounds + 1 /\ slices' \in {slices, slices + 1}
        /\ UNCHANGED <<goalActive, quota>>
    BY <1>9 DEF ContinueTurn
  <2>4. slices' <= quota' /\ slices' + (MaxRounds - rounds') <= quota'
    <3>1. slices + (MaxRounds - rounds) <= quota  BY <2>2 DEF Budgeted
    <3>2. slices \in Nat /\ quota \in Nat /\ rounds \in Nat  BY DEF Shaped
    <3>3. rounds < MaxRounds  BY <2>2
    <3>4. rounds' = rounds + 1 /\ quota' = quota  BY <2>3
    <3>5. CASE slices' = slices  BY <3>1, <3>2, <3>3, <3>4, <3>5
    <3>6. CASE slices' = slices + 1  BY <3>1, <3>2, <3>3, <3>4, <3>6
    <3> QED  BY <2>3, <3>5, <3>6
  <2> QED  BY <2>1, <2>4 DEF Budgeted
<1>10. CASE SaveTurn
  <2>1. /\ goalTurn' = NoTurn /\ rounds' = IF goalActive THEN rounds ELSE 0
        /\ UNCHANGED <<goalActive, slices, quota>>
    BY <1>10 DEF SaveTurn, Leave
  <2> QED  BY <2>1 DEF Budgeted
<1>11. CASE TurnRaises \/ UnwindTurn
  <2>1. goalTurn' = NoTurn /\ UNCHANGED <<goalActive, rounds, slices, quota>>
    BY <1>11 DEF TurnRaises, UnwindTurn, Leave
  <2> QED  BY <2>1, BudgetStays
<1>12. ASSUME NEW a \in Agents,
              AgentFinishes(a) \/ AgentCleaned(a) \/ AgentUnwinds(a)
       PROVE  Budgeted'
  <2>1. UNCHANGED <<goalTurn, goalActive, rounds, slices, quota>>
    BY <1>12 DEF AgentFinishes, AgentCleaned, AgentUnwinds
  <2> QED  BY <2>1, BudgetStays
<1>13. ASSUME NEW a \in Agents, InlineFinishes(a)
       PROVE  Budgeted'
  <2>1. /\ InPhase("inline") /\ UNCHANGED <<goalActive, rounds, slices, quota>>
        /\ goalTurn'.may = goalTurn.may /\ goalTurn'.continuing = goalTurn.continuing
    BY <1>13 DEF InlineFinishes, InPhase, Shaped, Turns
  <2> QED  BY <2>1, BudgetStays
<1>14. CASE StopAgents \/ StopReturns \/ UNCHANGED goalVars
  <2>1. UNCHANGED <<goalTurn, goalActive, rounds, slices, quota>>
    BY <1>14 DEF StopAgents, StopReturns, goalVars
  <2> QED  BY <2>1, BudgetStays
<1> QED
  BY <1>1, <1>3, <1>4, <1>5, <1>6, <1>7, <1>8, <1>9, <1>10, <1>11, <1>12, <1>13, <1>14
     DEF GoalNext, GoalWork, GoalModel, GoalRunner, GoalAgents, GoalStop

\* SlicesAreBudgeted: whatever the model does with its goals and however turns end,
\* _MAX_GOAL_CONTINUATION_ROUNDS bounds the slices of every /goal command.
THEOREM ContinuationsBounded == GoalSpec => []SlicesAreBudgeted
<1>1. GoalInit => Shaped /\ Budgeted
  BY ShapedAtFirst DEF GoalInit, Budgeted
<1>2. Shaped /\ Budgeted /\ [GoalNext]_goalVars => (Shaped /\ Budgeted)'
  BY ShapeKept, BudgetKept
<1>3. Shaped /\ Budgeted => SlicesAreBudgeted
  BY DEF Budgeted, SlicesAreBudgeted
<1> QED  BY <1>1, <1>2, <1>3, PTL DEF GoalSpec
-----------------------------------------------------------------------------
(* /stop *)

\* Only the turn that awaits it runs a sub-agent inline; behind /stop nobody waits
\* for the session, its turn is cancelled, and once the sub-agents are being
\* cancelled the turn is gone.
Quieting ==
    /\ \A a \in Agents :
          agents[a] = "inline" => goalTurn # NoTurn /\ goalTurn.phase = "inline"
    /\ \A a, b \in Agents : agents[a] = "inline" /\ agents[b] = "inline" => a = b
    /\ stopping # "no" => waiting = <<>> /\ (goalTurn # NoTurn => goalTurn.cancelled)
    /\ stopping = "agents" =>
          goalTurn = NoTurn /\ \A a \in Agents : agents[a] \notin {"running", "inline"}

\* A step of the uncancelled turn, into or outside a phase without an inline
\* sub-agent.
LEMMA QuietInTurn ==
    ASSUME Shaped, Quieting, UNCHANGED <<agents, stopping, waiting>>,
           goalTurn # NoTurn, ~goalTurn.cancelled, goalTurn.phase # "inline"
    PROVE  Quieting'
BY DEF Quieting

\* The invariant of /stop.
LEMMA QuietKept ==
    ASSUME Shaped, Quieting, [GoalNext]_goalVars
    PROVE  Quieting'
<1> USE DEF goalState, goalGhosts
<1>1. CASE GoalUsers \/ \E m \in GoalMessages : RouteFollowUp(m)
  <2>1. UNCHANGED <<goalTurn, waiting, agents, stopping>>
    BY <1>1 DEF GoalUsers, UserSends, RouteFollowUp, Routed
  <2> QED  BY <2>1 DEF Quieting
<1>2. ASSUME NEW m \in GoalMessages, MakeTask(m) \/ RefuseGoal
      PROVE  Quieting'
  <2>1. stopping = "no" /\ UNCHANGED <<goalTurn, agents, stopping>>
    BY <1>2 DEF MakeTask, RefuseGoal, Takes, Routed
  <2> QED  BY <2>1 DEF Quieting
<1>3. ASSUME NEW begun \in BOOLEAN, StopArrives(begun)
      PROVE  Quieting'
  <2>1. stopping = "no" /\ stopping' = "turns" /\ waiting' = <<>> /\ UNCHANGED agents
    BY <1>3 DEF StopArrives, Takes
  <2>2. CASE goalTurn = NoTurn
    <3>1. UNCHANGED goalTurn  BY <1>3, <2>2 DEF StopArrives
    <3> QED  BY <2>1, <2>2, <3>1 DEF Quieting
  <2>3. CASE goalTurn # NoTurn
    <3>1. goalTurn' = [goalTurn EXCEPT !.cancelled = TRUE]
      BY <1>3, <2>3 DEF StopArrives
    <3>2. goalTurn' \in Turns /\ goalTurn'.cancelled /\ goalTurn'.phase = goalTurn.phase
      BY <2>3, <3>1 DEF Shaped, Turns
    <3> QED  BY <2>1, <2>3, <3>2 DEF Quieting
  <2> QED  BY <2>2, <2>3
<1>4. ASSUME NEW why \in {"tools", "final", "error"},
             Respond(why) \/ CreateGoal \/ ReplaceGoal \/ EndGoal
      PROVE  Quieting'
  <2>1. InPhase("model") /\ UNCHANGED <<agents, stopping, waiting>>
    BY <1>4 DEF Respond, CreateGoal, ReplaceGoal, EndGoal, CallsTools, Responds
  <2> QED  BY <2>1, QuietInTurn DEF InPhase
<1>5. ASSUME NEW a \in Agents, Spawn(a) \/ RunInline(a)
      PROVE  Quieting'
  <2>1. goalTurn # NoTurn /\ ~goalTurn.cancelled /\ goalTurn.phase = "model"
    BY <1>5 DEF Spawn, RunInline, CallsTools, Responds, InPhase
  <2>2. stopping = "no" /\ UNCHANGED stopping
    BY <1>5, <2>1 DEF Spawn, RunInline, CallsTools, Responds, Quieting, Shaped
  <2>3. \A b \in Agents : agents[b] # "inline"  BY <2>1 DEF Quieting
  <2>4. CASE Spawn(a)
    <3>1. \A b \in Agents : agents'[b] # "inline"
      BY <2>3, <2>4 DEF Spawn, Shaped
    <3> QED  BY <2>2, <3>1 DEF Quieting
  <2>5. CASE RunInline(a)
    <3>1. goalTurn' = [goalTurn EXCEPT !.steps = @ + 1, !.why = "tools", !.phase = "inline"]
      BY <2>5 DEF RunInline, Responds
    <3>2. goalTurn' # NoTurn /\ goalTurn'.phase = "inline"
      <4>1. goalTurn' \in Turns
        BY <2>5, ResponseShaped DEF RunInline
      <4> QED  BY <2>1, <3>1, <4>1 DEF Shaped, Turns
    <3>3. \A b \in Agents : agents'[b] = "inline" => b = a
      BY <2>3, <2>5 DEF RunInline, Shaped
    <3> QED  BY <2>2, <3>2, <3>3 DEF Quieting
  <2> QED  BY <1>5, <2>4, <2>5
<1>6. CASE StartTurn
  <2>1. waiting # <<>> /\ UNCHANGED <<agents, stopping>> /\ goalTurn = NoTurn
    BY <1>6 DEF StartTurn
  <2>2. stopping = "no"  BY <2>1 DEF Quieting, Shaped
  <2> QED  BY <2>1, <2>2 DEF Quieting
<1>7. CASE TakeFollowUps \/ Block \/ InjectNothing \/ ReachBudget \/ ContinueTurn
           \/ FinishTurn \/ SaveTurn \/ TurnRaises
  <2>1. UNCHANGED <<agents, stopping, waiting>>
    BY <1>7 DEF TakeFollowUps, Block, InjectNothing, ReachBudget, ContinueTurn,
                FinishTurn, SaveTurn, TurnRaises, Drained
  <2>2. \E p \in {"model", "drain", "blocked", "over", "saving"} : InPhase(p)
    BY <1>7 DEF TakeFollowUps, Block, InjectNothing, ReachBudget, ContinueTurn,
                FinishTurn, SaveTurn, TurnRaises
  <2> QED  BY <2>1, <2>2, QuietInTurn DEF InPhase
<1>8. ASSUME NEW a \in Agents,
             AgentFinishes(a) \/ AgentCleaned(a) \/ AgentUnwinds(a)
      PROVE  Quieting'
  <2>1. \E state \in {"closing", "over"} : agents' = [agents EXCEPT ![a] = state]
    BY <1>8 DEF AgentFinishes, AgentCleaned, AgentUnwinds
  <2>2. UNCHANGED <<goalTurn, waiting, stopping>>
    BY <1>8 DEF AgentFinishes, AgentCleaned, AgentUnwinds
  <2> QED  BY <2>1, <2>2 DEF Quieting, Shaped
<1>9. ASSUME NEW a \in Agents, InlineFinishes(a)
      PROVE  Quieting'
  <2>1. goalTurn # NoTurn /\ ~goalTurn.cancelled /\ UNCHANGED <<waiting, stopping>>
    BY <1>9 DEF InlineFinishes, InPhase
  <2>2. stopping = "no"  BY <2>1 DEF Quieting, Shaped
  <2>3. \A b \in Agents : b # a => agents[b] # "inline"
    BY <1>9 DEF InlineFinishes, Quieting
  <2>4. \A b \in Agents : agents'[b] # "inline"
    BY <1>9, <2>3 DEF InlineFinishes, Shaped
  <2> QED  BY <2>1, <2>2, <2>4 DEF Quieting
<1>10. CASE UnwindTurn
  <2>1. goalTurn' = NoTurn /\ UNCHANGED <<waiting, stopping>>
    BY <1>10 DEF UnwindTurn, Leave
  <2>2. \A a \in Agents : agents'[a] # "inline" /\ (agents'[a] = "running" => agents[a] = "running")
    BY <1>10 DEF UnwindTurn
  <2> QED  BY <2>1, <2>2 DEF Quieting
<1>11. CASE StopAgents
  <2>1. /\ goalTurn = NoTurn /\ UNCHANGED <<goalTurn, waiting>>
        /\ stopping = "turns" /\ stopping' = "agents"
    BY <1>11 DEF StopAgents
  <2>2. \A a \in Agents : agents[a] # "inline"  BY <2>1 DEF Quieting
  <2>3. \A a \in Agents : agents'[a] \notin {"running", "inline"}
    BY <1>11, <2>2 DEF StopAgents
  <2> QED  BY <2>1, <2>3 DEF Quieting
<1>12. CASE StopReturns
  <2>1. stopping' = "no" /\ UNCHANGED <<goalTurn, waiting, agents>>
    BY <1>12 DEF StopReturns
  <2> QED  BY <2>1 DEF Quieting
<1>13. CASE UNCHANGED goalVars
  BY <1>13 DEF Quieting, goalVars
<1>14. ASSUME RefuseGoal  PROVE Quieting'
  <2>1. "chat" \in GoalMessages  BY DEF GoalMessages
  <2> QED  BY <1>2, <1>14, <2>1
<1>15. CASE GoalUsers \/ GoalLoop
  BY <1>1, <1>2, <1>3, <1>14, <1>15 DEF GoalLoop
<1>16. CASE CreateGoal \/ ReplaceGoal \/ EndGoal
  BY <1>4, <1>16
<1>17. CASE GoalModel
  BY <1>4, <1>5, <1>16, <1>17 DEF GoalModel
<1>18. CASE GoalRunner
  BY <1>6, <1>7, <1>18 DEF GoalRunner
<1>19. CASE GoalAgents
  BY <1>8, <1>9, <1>19 DEF GoalAgents
<1> QED
  BY <1>10, <1>11, <1>12, <1>13, <1>15, <1>17, <1>18, <1>19 DEF GoalNext, GoalWork, GoalStop

\* StoppedIsQuiet: when /stop has awaited all it cancelled, neither a turn nor a task
\* nor a sub-agent of the session is left, whatever they did while it waited.
THEOREM StoppingIsComplete == GoalSpec => StoppedIsQuiet
<1>1. GoalInit => Shaped /\ Quieting
  BY ShapedAtFirst DEF GoalInit, Quieting
<1>2. Shaped /\ Quieting /\ [GoalNext]_goalVars => (Shaped /\ Quieting)'
  BY ShapeKept, QuietKept
<1>3. ASSUME Shaped, Quieting, [GoalNext]_goalVars, stopping = "agents", stopping' = "no"
      PROVE  goalTurn' = NoTurn /\ waiting' = <<>> /\ Alive' = {}
  <2>1. goalTurn = NoTurn /\ waiting = <<>> /\ \A a \in Agents : agents[a] \notin {"running", "inline"}
    BY <1>3 DEF Quieting
  <2>2. CASE StopReturns
    <3>1. UNCHANGED <<goalTurn, waiting, agents>> /\ \A a \in Agents : agents[a] # "cancelled"
      BY <2>2 DEF StopReturns
    <3> QED  BY <2>1, <3>1 DEF Alive
  <2>3. CASE ~StopReturns
    <3>1. UNCHANGED stopping \/ stopping' \in {"turns", "agents"}
      BY <1>3, <2>3 DEF GoalNext, GoalWork, GoalLoop, GoalModel, GoalRunner, GoalAgents,
         GoalStop, GoalUsers, UserSends, RouteFollowUp, RefuseGoal, MakeTask, Routed,
         StopArrives, Respond, CreateGoal, ReplaceGoal, EndGoal, Spawn, RunInline,
         CallsTools, Responds, StartTurn, TakeFollowUps, Block, InjectNothing,
         ReachBudget, ContinueTurn, FinishTurn, SaveTurn, TurnRaises, Drained,
         AgentFinishes, AgentCleaned, AgentUnwinds, InlineFinishes, UnwindTurn,
         StopAgents, goalVars
    <3> QED  BY <1>3, <3>1
  <2> QED  BY <2>2, <2>3
<1>4. Shaped /\ Quieting /\ [GoalNext]_goalVars =>
         [stopping = "agents" /\ stopping' = "no" =>
             goalTurn' = NoTurn /\ waiting' = <<>> /\ Alive' = {}]_goalVars
  BY <1>3
<1> QED  BY <1>1, <1>2, <1>4, PTL DEF GoalSpec, StoppedIsQuiet
-----------------------------------------------------------------------------
(* The slices that carry a goal *)

HasSlice(s) == \E i \in 1..Len(s) : s[i] = "slice"

LEMMA SliceAppended ==
    ASSUME NEW s \in Seq(GoalMessages), NEW m \in GoalMessages
    PROVE  HasSlice(Append(s, m)) <=> HasSlice(s) \/ m = "slice"
<1>1. /\ Len(Append(s, m)) = Len(s) + 1
      /\ \A i \in 1..Len(s) : Append(s, m)[i] = s[i]
      /\ Append(s, m)[Len(s) + 1] = m
  OBVIOUS
<1>2. Len(s) \in Nat  OBVIOUS
<1> QED  BY <1>1, <1>2 DEF HasSlice

LEMMA SliceRepublished ==
    ASSUME NEW s \in Seq(GoalMessages), NEW t \in Seq(GoalMessages),
           HasSlice(s) \/ HasSlice(t)
    PROVE  HasSlice(s \o t)
<1>1. /\ Len(s \o t) = Len(s) + Len(t)
      /\ \A i \in 1..Len(s) : (s \o t)[i] = s[i]
      /\ \A i \in 1..Len(t) : (s \o t)[Len(s) + i] = t[i]
  OBVIOUS
<1>2. Len(s) \in Nat /\ Len(t) \in Nat  OBVIOUS
<1>3. CASE HasSlice(s)
  BY <1>1, <1>2, <1>3 DEF HasSlice
<1>4. CASE HasSlice(t)
  <2>1. PICK i \in 1..Len(t) : t[i] = "slice"  BY <1>4 DEF HasSlice
  <2>2. Len(s) + i \in 1..Len(s \o t)  BY <1>1, <1>2, <2>1
  <2> QED  BY <1>1, <2>1, <2>2 DEF HasSlice
<1> QED  BY <1>3, <1>4

LEMMA SliceLeft ==
    ASSUME NEW s \in Seq(GoalMessages), s # <<>>, HasSlice(s), Head(s) # "slice"
    PROVE  HasSlice(Tail(s))
<1>1. PICK i \in 1..Len(s) : s[i] = "slice"  BY DEF HasSlice
<1>2. i # 1  BY <1>1
<1>3. i - 1 \in 1..Len(Tail(s)) /\ Tail(s)[i - 1] = s[i]  BY <1>1, <1>2
<1> QED  BY <1>1, <1>3 DEF HasSlice

OnItsWay == HasSlice(bus) \/ HasSlice(waiting)
Continuable == goalActive /\ rounds < MaxRounds
EndedShort == lastEnd \in {"failed", "cancelled", "background"}

\* Between turns a slice is on its way to a goal that goes on, and to a session
\* shown as running; a turn that is about to end has put it into its queue.
Carried ==
    /\ goalTurn = NoTurn => followUps = <<>>
    /\ goalTurn = NoTurn /\ Continuable /\ ~EndedShort => OnItsWay
    /\ goalTurn = NoTurn /\ runShown /\ ~unshown => OnItsWay

Settling ==
    goalTurn # NoTurn =>
        /\ goalTurn.continuing => goalTurn.phase \in {"putting", "saving"}
        /\ goalTurn.phase = "over" => goalTurn.why = "budget"
        /\ goalTurn.phase = "saving" /\ goalTurn.continuing => HasSlice(followUps)
        /\ goalTurn.phase = "saving" /\ Continuable =>
              \/ goalTurn.why = "error"
              \/ goalTurn.why = "budget" /\ goalTurn.opener \in Agents
              \/ HasSlice(followUps)

\* The invariant of a turn on its way to its end.
LEMMA SettlingKept ==
    ASSUME Shaped, Settling, [GoalNext]_goalVars
    PROVE  Settling'
<1> USE DEF goalState, goalGhosts
<1>1. ASSUME UNCHANGED <<goalTurn, followUps, goalActive, rounds>>
      PROVE  Settling'
  BY <1>1 DEF Settling, Continuable, HasSlice
<1>2. ASSUME goalTurn' \in Turns, goalTurn'.phase \notin {"over", "saving", "putting"},
             ~goalTurn'.continuing
      PROVE  Settling'
  BY <1>2 DEF Settling
<1>3. CASE GoalUsers \/ RefuseGoal \/ \E m \in GoalMessages : MakeTask(m)
  BY <1>1, <1>3 DEF GoalUsers, UserSends, RefuseGoal, MakeTask, Routed
<1>4. ASSUME NEW m \in GoalMessages, RouteFollowUp(m)
      PROVE  Settling'
  <2>1. followUps' = Append(followUps, m) /\ UNCHANGED <<goalTurn, goalActive, rounds>>
    BY <1>4 DEF RouteFollowUp, Routed
  <2>2. HasSlice(followUps) => HasSlice(followUps')
    BY <2>1, SliceAppended DEF Shaped
  <2> QED  BY <2>1, <2>2 DEF Settling, Continuable
<1>5. ASSUME NEW begun \in BOOLEAN, StopArrives(begun)
      PROVE  Settling'
  <2>1. UNCHANGED <<followUps, goalActive, rounds>>  BY <1>5 DEF StopArrives
  <2>2. CASE goalTurn = NoTurn
    BY <1>1, <1>5, <2>1, <2>2 DEF StopArrives
  <2>3. CASE goalTurn # NoTurn
    <3>1. goalTurn' = [goalTurn EXCEPT !.cancelled = TRUE]
      BY <1>5, <2>3 DEF StopArrives
    <3>2. /\ goalTurn'.phase = goalTurn.phase /\ goalTurn'.why = goalTurn.why
          /\ goalTurn'.opener = goalTurn.opener
          /\ goalTurn'.continuing = goalTurn.continuing
      BY <2>3, <3>1 DEF Shaped, Turns
    <3> QED  BY <2>1, <2>3, <3>2 DEF Settling, Continuable, HasSlice
  <2> QED  BY <2>2, <2>3
<1>6. ASSUME NEW why \in {"tools", "final", "error"}, NEW phase \in {"drain", "inline"},
             Responds(why, phase)
      PROVE  Settling'
  <2>1. goalTurn \in Turns /\ ~goalTurn.continuing
    BY <1>6 DEF Responds, InPhase, Shaped, Settling
  <2>2. goalTurn'.phase = phase /\ goalTurn'.continuing = goalTurn.continuing
    BY <1>6, <2>1 DEF Responds, Turns
  <2> QED  BY <1>2, <1>6, <2>1, <2>2, ResponseShaped
<1>7. CASE GoalModel
  <2>1. CASE EndGoal
    <3>1. goalTurn \in Turns /\ ~goalTurn.continuing
      BY <2>1 DEF EndGoal, InPhase, Shaped, Settling
    <3>2. goalTurn'.phase = "drain" /\ goalTurn'.continuing = goalTurn.continuing
      BY <2>1, <3>1 DEF EndGoal, Turns
    <3> QED  BY <3>1, <3>2 DEF Settling
  <2>2. CASE ~EndGoal
    <3>1. \E why \in {"tools", "final", "error"}, phase \in {"drain", "inline"} :
             Responds(why, phase)
      BY <1>7, <2>2 DEF GoalModel, Respond, CreateGoal, ReplaceGoal, Spawn, RunInline,
                        CallsTools
    <3> QED  BY <1>6, <3>1
  <2> QED  BY <2>1, <2>2
<1>8. CASE StartTurn
  <2>1. goalTurn'.phase = "model" /\ ~goalTurn'.continuing
    BY <1>8 DEF StartTurn, Continuing
  <2> QED  BY <2>1 DEF Settling
<1>9. CASE TakeFollowUps \/ InjectNothing
  <2>1. /\ goalTurn \in Turns /\ ~goalTurn.continuing
        /\ UNCHANGED <<goalActive, rounds>>
    BY <1>9 DEF TakeFollowUps, InjectNothing, InPhase, Shaped, Settling, Drained
  <2>2. /\ goalTurn'.continuing = goalTurn.continuing /\ goalTurn'.why = goalTurn.why
        /\ goalTurn'.phase \in {AfterDrain(TRUE), AfterDrain(FALSE)}
    BY <1>9, <2>1 DEF TakeFollowUps, InjectNothing, Turns
  <2>3. goalTurn.why \in {"tools", "final", "error", "budget"}
    BY <2>1 DEF Turns
  <2>4. /\ goalTurn'.phase = "over" => goalTurn'.why = "budget"
        /\ goalTurn'.phase = "saving" => goalTurn'.why = "error" \/ ~goalActive
    BY <2>2, <2>3 DEF AfterDrain
  <2> QED  BY <2>1, <2>2, <2>4 DEF Settling, Continuable
<1>10. CASE Block \/ ReachBudget
  <2>1. goalTurn \in Turns /\ ~goalTurn.continuing
    BY <1>10 DEF Block, ReachBudget, InPhase, Shaped, Settling
  <2>2. goalTurn'.phase \in {"blocked", "drain"} /\ goalTurn'.continuing = goalTurn.continuing
    BY <1>10, <2>1 DEF Block, ReachBudget, Turns
  <2> QED  BY <2>1, <2>2 DEF Settling
<1>11. CASE ContinueTurn
  <2>1. goalTurn \in Turns  BY <1>11 DEF ContinueTurn, InPhase, Shaped
  <2>2. CASE Len(followUps) < FollowUpCap
    <3>1. followUps' = Append(followUps, "slice") /\ "slice" \in GoalMessages
      BY <1>11, <2>2 DEF ContinueTurn, GoalMessages
    <3>2. HasSlice(followUps')  BY <3>1, SliceAppended DEF Shaped
    <3>3. goalTurn'.phase = "saving"  BY <1>11, <2>1, <2>2 DEF ContinueTurn, Turns
    <3> QED  BY <3>2, <3>3 DEF Settling
  <2>3. CASE ~(Len(followUps) < FollowUpCap)
    <3>1. goalTurn'.phase = "putting"  BY <1>11, <2>1, <2>3 DEF ContinueTurn, Turns
    <3> QED  BY <3>1 DEF Settling
  <2> QED  BY <2>2, <2>3
<1>12. CASE FinishTurn
  <2>1. goalTurn \in Turns /\ goalTurn.phase = "over"
    BY <1>12 DEF FinishTurn, InPhase, Shaped
  <2>2. ~goalTurn.continuing /\ goalTurn.why = "budget"  BY <1>12, <2>1 DEF Settling, FinishTurn, InPhase
  <2>3. goalTurn'.why = goalTurn.why /\ goalTurn'.opener = goalTurn.opener
        /\ goalTurn'.continuing = goalTurn.continuing
    BY <1>12, <2>1 DEF FinishTurn, Turns
  <2>4. Continuable => goalTurn.opener \in Agents
    BY <1>12 DEF FinishTurn, GoalContinuationAvailable, Continuable
  <2>5. UNCHANGED <<goalActive, rounds>>  BY <1>12 DEF FinishTurn, Drained
  <2> QED  BY <2>2, <2>3, <2>4, <2>5 DEF Settling, Continuable
<1>13. CASE SaveTurn \/ TurnRaises \/ UnwindTurn
  BY <1>13 DEF SaveTurn, TurnRaises, UnwindTurn, Leave, Settling
<1>14. ASSUME NEW a \in Agents,
              AgentFinishes(a) \/ AgentCleaned(a) \/ AgentUnwinds(a)
       PROVE  Settling'
  BY <1>1, <1>14 DEF AgentFinishes, AgentCleaned, AgentUnwinds
<1>15. ASSUME NEW a \in Agents, InlineFinishes(a)
       PROVE  Settling'
  <2>1. goalTurn \in Turns /\ ~goalTurn.continuing
    BY <1>15 DEF InlineFinishes, InPhase, Shaped, Settling
  <2>2. goalTurn'.phase = "drain" /\ goalTurn'.continuing = goalTurn.continuing
    BY <1>15, <2>1 DEF InlineFinishes, Turns
  <2> QED  BY <2>1, <2>2 DEF Settling
<1>16. CASE StopAgents \/ StopReturns \/ UNCHANGED goalVars
  BY <1>1, <1>16 DEF StopAgents, StopReturns, goalVars
<1>17. CASE GoalUsers \/ GoalLoop
  BY <1>3, <1>4, <1>5, <1>17 DEF GoalLoop
<1>18. CASE GoalRunner
  BY <1>8, <1>9, <1>10, <1>11, <1>12, <1>13, <1>18 DEF GoalRunner
<1>19. CASE GoalAgents
  BY <1>14, <1>15, <1>19 DEF GoalAgents
<1> QED
  BY <1>7, <1>13, <1>16, <1>17, <1>18, <1>19 DEF GoalNext, GoalWork, GoalStop
\* The invariant of a goal between its turns.
LEMMA CarriedKept ==
    ASSUME Shaped, Settling, Carried, [GoalNext]_goalVars
    PROVE  Carried'
<1> USE DEF goalState, goalGhosts
<1>1. ASSUME goalTurn' \in Turns
      PROVE  Carried'
  BY <1>1 DEF Carried
<1>2. ASSUME UNCHANGED <<goalTurn, followUps, goalActive, rounds, lastEnd, runShown, unshown>>,
             OnItsWay => OnItsWay'
      PROVE  Carried'
  BY <1>2 DEF Carried, Continuable, EndedShort
<1>3. ASSUME NEW m \in Requests, UserSends(m)
      PROVE  Carried'
  <2>1. m \in GoalMessages  BY DEF Requests, GoalMessages
  <2>2. bus' = Append(bus, m) /\ UNCHANGED waiting  BY <1>3 DEF UserSends
  <2>3. OnItsWay => OnItsWay'  BY <2>1, <2>2, SliceAppended DEF OnItsWay, Shaped
  <2> QED  BY <1>2, <1>3, <2>3 DEF UserSends
<1>4. CASE RefuseGoal \/ \E m \in GoalMessages : RouteFollowUp(m)
  <2>1. goalTurn # NoTurn /\ UNCHANGED goalTurn
    BY <1>4 DEF RefuseGoal, RouteFollowUp, Routed
  <2> QED  BY <1>1, <2>1 DEF Shaped
<1>5. ASSUME NEW m \in GoalMessages, MakeTask(m)
      PROVE  Carried'
  <2>1. waiting' = Append(waiting, m) /\ bus # <<>> /\ Head(bus) = m /\ bus' = Tail(bus)
    BY <1>5 DEF MakeTask, Takes
  <2>2. OnItsWay => OnItsWay'
    <3>1. HasSlice(waiting') <=> HasSlice(waiting) \/ m = "slice"
      BY <2>1, SliceAppended DEF Shaped
    <3>2. HasSlice(bus) /\ m # "slice" => HasSlice(bus')
      BY <2>1, SliceLeft DEF Shaped
    <3> QED  BY <3>1, <3>2 DEF OnItsWay
  <2> QED  BY <1>2, <1>5, <2>2 DEF MakeTask, Routed
<1>6. ASSUME NEW begun \in BOOLEAN, StopArrives(begun)
      PROVE  Carried'
  <2>1. CASE goalTurn # NoTurn
    <3>1. goalTurn \in Turns /\ goalTurn' = [goalTurn EXCEPT !.cancelled = TRUE]
      BY <1>6, <2>1 DEF StopArrives, Shaped
    <3> QED  BY <1>1, <3>1 DEF Turns
  <2>2. CASE goalTurn = NoTurn
    <3>1. /\ bus # <<>> /\ Head(bus) = "stop" /\ bus' = Tail(bus)
          /\ UNCHANGED <<goalTurn, followUps, goalActive, rounds>>
      BY <1>6, <2>2 DEF StopArrives, Takes
    <3>2. HasSlice(bus) => HasSlice(bus')
      BY <3>1, SliceLeft DEF Shaped
    <3>3. Continuable' /\ ~EndedShort' => Continuable /\ ~EndedShort /\ waiting = <<>>
      BY <1>6, <3>1 DEF StopArrives, Continuable, EndedShort
    <3>4. waiting = <<>> => ~HasSlice(waiting)  BY DEF HasSlice
    <3>5. Continuable' /\ ~EndedShort' => OnItsWay'
      BY <2>2, <3>2, <3>3, <3>4 DEF Carried, OnItsWay
    <3>6. runShown' /\ ~unshown' => runShown /\ ~unshown /\ ~HasSlice(waiting)
      <4>1. runShown' => runShown  BY <1>6 DEF StopArrives, Shaped
      <4>2. runShown' /\ (unshown \/ HasSlice(waiting)) => unshown'
        <5>1. Len(waiting) \in Nat /\ DOMAIN waiting = 1..Len(waiting)
          BY DEF Shaped
        <5> QED  BY <1>6, <5>1 DEF StopArrives, HasSlice
      <4> QED  BY <4>1, <4>2
    <3>7. runShown' /\ ~unshown' => OnItsWay'
      BY <2>2, <3>2, <3>6 DEF Carried, OnItsWay
    <3> QED  BY <2>2, <3>1, <3>5, <3>7 DEF Carried
  <2> QED  BY <2>1, <2>2
<1>7. CASE GoalModel
  <2>1. CASE EndGoal  BY <1>1, <2>1, StepShaped
  <2>2. CASE ~EndGoal
    <3>1. \E why \in {"tools", "final", "error"}, phase \in {"drain", "inline"} :
             Responds(why, phase)
      BY <1>7, <2>2 DEF GoalModel, Respond, CreateGoal, ReplaceGoal, Spawn, RunInline,
                        CallsTools
    <3> QED  BY <1>1, <3>1, ResponseShaped
  <2> QED  BY <2>1, <2>2
<1>8. CASE StartTurn
  <2>1. waiting # <<>>  BY <1>8 DEF StartTurn
  <2>2. Head(waiting) \in GoalMessages  BY <2>1 DEF Shaped
  <2>3. goalTurn' \in Turns
    BY <1>8, <2>2 DEF StartTurn, Turns, MayMutate, Continuing
  <2> QED  BY <1>1, <2>3
<1>9. CASE TakeFollowUps \/ Block \/ InjectNothing \/ ReachBudget \/ ContinueTurn \/ FinishTurn
  BY <1>1, <1>9, StepShaped
<1>10. CASE SaveTurn
  <2>1. goalTurn \in Turns /\ goalTurn # NoTurn /\ goalTurn.phase = "saving"
    BY <1>10 DEF SaveTurn, InPhase, Shaped
  <2>2. bus' = bus \o followUps /\ followUps' = <<>> /\ goalTurn' = NoTurn
    BY <1>10 DEF SaveTurn, Leave
  <2>3. HasSlice(followUps) => OnItsWay'
    BY <2>2, SliceRepublished DEF OnItsWay, Shaped
  <2>4. Continuable' /\ ~EndedShort' => HasSlice(followUps)
    <3>1. Continuable' => Continuable
      BY <1>10 DEF SaveTurn, Continuable
    <3>2. lastEnd' = IF goalTurn.why = "budget" /\ goalTurn.opener \in Agents
                     THEN "background"
                     ELSE IF goalTurn.why = "error" THEN "failed" ELSE "saved"
      BY <1>10 DEF SaveTurn, Leave
    <3>3. ~EndedShort' => goalTurn.why # "error" /\ ~(goalTurn.why = "budget" /\ goalTurn.opener \in Agents)
      BY <3>2 DEF EndedShort
    <3> QED  BY <2>1, <3>1, <3>3 DEF Settling
  <2>5. runShown' => HasSlice(followUps)
    <3>1. runShown' => goalTurn.continuing
      BY <1>10, <2>1 DEF SaveTurn, Leave, Shaped, Turns
    <3> QED  BY <2>1, <3>1 DEF Settling
  <2> QED  BY <2>2, <2>3, <2>4, <2>5 DEF Carried
<1>11. CASE TurnRaises
  <2>1. goalTurn # NoTurn /\ ~goalTurn.continuing
    BY <1>11 DEF TurnRaises, InPhase, Settling
  <2>2. goalTurn' = NoTurn /\ followUps' = <<>> /\ lastEnd' = "failed" /\ ~runShown'
    BY <1>11, <2>1 DEF TurnRaises, Leave
  <2> QED  BY <2>2 DEF Carried, EndedShort
<1>12. CASE UnwindTurn
  <2>1. bus' = bus \o followUps /\ followUps' = <<>> /\ goalTurn' = NoTurn /\ lastEnd' = "cancelled"
    BY <1>12 DEF UnwindTurn, Leave
  <2>2. runShown' /\ ~unshown' => HasSlice(followUps)
    <3>1. Len(followUps) \in Nat /\ DOMAIN followUps = 1..Len(followUps)  BY DEF Shaped
    <3> QED  BY <1>12, <3>1 DEF UnwindTurn, HasSlice
  <2>3. HasSlice(followUps) => OnItsWay'
    BY <2>1, SliceRepublished DEF OnItsWay, Shaped
  <2> QED  BY <2>1, <2>2, <2>3 DEF Carried, EndedShort
<1>13. ASSUME NEW a \in Agents,
              AgentFinishes(a) \/ AgentCleaned(a) \/ AgentUnwinds(a)
       PROVE  Carried'
  <2>1. /\ bus' = bus \/ bus' = Append(bus, a)
        /\ UNCHANGED waiting
    BY <1>13 DEF AgentFinishes, AgentCleaned, AgentUnwinds
  <2>2. a \in GoalMessages  BY DEF GoalMessages
  <2>3. OnItsWay => OnItsWay'
    <3>1. HasSlice(bus) => HasSlice(Append(bus, a))
      BY <2>2, SliceAppended DEF Shaped
    <3>2. HasSlice(bus) => HasSlice(bus')  BY <2>1, <3>1
    <3> QED  BY <2>1, <3>2 DEF OnItsWay
  <2>4. UNCHANGED <<goalTurn, followUps, goalActive, rounds, lastEnd, runShown, unshown>>
    BY <1>13 DEF AgentFinishes, AgentCleaned, AgentUnwinds
  <2> QED  BY <1>2, <2>3, <2>4
<1>14. ASSUME NEW a \in Agents, InlineFinishes(a)
       PROVE  Carried'
  <2>1. goalTurn' \in Turns  BY <1>14 DEF InlineFinishes, InPhase, Shaped, Turns
  <2> QED  BY <1>1, <2>1
<1>15. CASE StopAgents \/ StopReturns \/ UNCHANGED goalVars
  <2>1. UNCHANGED <<bus, waiting>>  BY <1>15 DEF StopAgents, StopReturns, goalVars
  <2>2. OnItsWay => OnItsWay'  BY <2>1 DEF OnItsWay
  <2> QED  BY <1>2, <1>15, <2>2 DEF StopAgents, StopReturns, goalVars
<1>16. CASE GoalUsers \/ GoalLoop
  BY <1>3, <1>4, <1>5, <1>6, <1>16 DEF GoalUsers, GoalLoop
<1>17. CASE GoalRunner
  BY <1>8, <1>9, <1>10, <1>11, <1>17 DEF GoalRunner
<1>18. CASE GoalAgents
  BY <1>13, <1>14, <1>18 DEF GoalAgents
<1> QED
  BY <1>7, <1>12, <1>15, <1>16, <1>17, <1>18 DEF GoalNext, GoalWork, GoalStop

LEMMA CarriedThroughout == GoalSpec => [](Shaped /\ Carried)
<1>1. GoalInit => Shaped /\ Settling /\ Carried
  BY ShapedAtFirst DEF GoalInit, Settling, Carried, Continuable
<1>2. Shaped /\ Settling /\ Carried /\ [GoalNext]_goalVars
         => (Shaped /\ Settling /\ Carried)'
  BY ShapeKept, SettlingKept, CarriedKept
<1> QED  BY <1>1, <1>2, PTL DEF GoalSpec

LEMMA NothingOnItsWay ==
    ASSUME bus = <<>>, waiting = <<>>
    PROVE  ~OnItsWay
BY DEF OnItsWay, HasSlice

\* GoalKeepsGoing: a goal with rounds left goes idle only behind a turn that failed,
\* was cancelled, or was opened by a sub-agent's result.
THEOREM GoalGoesOn == GoalSpec => []GoalKeepsGoing
<1>1. Shaped /\ Carried => GoalKeepsGoing
  BY NothingOnItsWay DEF Carried, GoalKeepsGoing, AtRest, Continuable, EndedShort
<1> QED  BY <1>1, CarriedThroughout, PTL

\* RunShownEnds: whoever leaves the session shown as running leaves it to a slice,
\* which a cancellation must take away before the session can rest like that.
THEOREM StatusEnds == GoalSpec => []RunShownEnds
<1>1. Shaped /\ Carried => RunShownEnds
  BY NothingOnItsWay DEF Carried, RunShownEnds, AtRest
<1> QED  BY <1>1, CarriedThroughout, PTL
=============================================================================
