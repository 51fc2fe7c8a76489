--------------------------- MODULE SerialTurnsProofs ---------------------------
(***************************************************************************)
(* SessionDispatch implements SerialTurns for every value of its constants:*)
(* serial sessions, bounded concurrency, and no message given up unless a  *)
(* command of its session asked for it or its own caller went away.        *)
(* Automation turns are never injected into a running turn, and one that   *)
(* ran has told its submitter.  /stop leaves no turn behind, a discarded   *)
(* temporary chat stays gone, and a deferred turn has somebody to publish  *)
(* it.                                                                     *)
(***************************************************************************)
EXTENDS SessionDispatchProofs

\* A command of session s has been sent.
Commanded(s) ==
    \E c \in Messages : KindOf[c] \in Commands /\ SessionOf[c] = s /\ at[c] # "unsent"

\* Whoever is cancelled, or is a task of a session, or is a session lost.
CancelledByCommand == \A m \in cancel : IsDirect(m) \/ Commanded(SessionOf[m])
TasksOfSession     == \A s \in Sessions : \A m \in activeTasks[s] : SessionOf[m] = s
GoneByCommand      == \A s \in Temporary : s \notin cached => Commanded(s)
ClearingIsNew      == \A m \in Messages : at[m] = "clearing" => KindOf[m] = "new"
InlineIsCommand    == inline # None => KindOf[inline] \in Commands

\* Cancellations and lost temporary sessions go back to commands of their
\* session, or to a caller who went away.
CommandInv ==
    /\ CancelledByCommand /\ TasksOfSession /\ GoneByCommand
    /\ ClearingIsNew /\ InlineIsCommand

\* The inductive invariant of the refinement.
RInv == IInv /\ CommandInv

\* No step makes a message unsent again.
LEMMA StaysSent ==
    ASSUME IInv, [Next]_vars, NEW m \in Messages, at[m] # "unsent"
    PROVE  at'[m] # "unsent"
<1> USE MessagesAssumption DEF Move, Settle
<1>0. TypeOK /\ at \in [Messages -> Places]
  BY DEF IInv, TypeOK
<1>1. CASE UNCHANGED vars
  BY <1>1 DEF vars
<1>2. CASE RunLoop
  <2>1. ASSUME NEW n \in Messages, FinishInline(n) PROVE at'[m] # "unsent"
    BY <2>1, FinishMoves
  <2> QED BY <1>0, <1>2, <2>1 DEF RunLoop, DropUnbound, RunInline, Defer, RouteFollowUp, CreateTask
<1>3. ASSUME NEW n \in Messages, Publish(n) \/ CallDirect(n) \/ AbandonDirect(n)
      PROVE  at'[m] # "unsent"
  BY <1>0, <1>3 DEF Publish, CallDirect, AbandonDirect
<1>4. ASSUME NEW n \in Messages, BeginTurn(n) PROVE at'[m] # "unsent"
  BY <1>0, <1>4 DEF BeginTurn, OpenSession
<1>5. ASSUME NEW n \in Messages, WithLock(n) PROVE at'[m] # "unsent"
  BY <1>0, <1>4, <1>5 DEF WithLock
<1>6. ASSUME NEW n \in Messages, Advance(n) PROVE at'[m] # "unsent"
  BY <1>0, <1>4, <1>5, <1>6 DEF Advance, Start, AcquireLock, TakeGate
<1>7. ASSUME NEW n \in Messages, Drain(n) PROVE at'[m] # "unsent"
  BY <1>7, DrainMoves
<1>8. ASSUME NEW n \in Messages, End(n) PROVE at'[m] # "unsent"
  <2>1. ASSUME NEW f \in Fates, EndTurn(n, f) PROVE at'[m] # "unsent"
    BY <2>1, EndMoves
  <2>2. CASE CancelWaiting(n)
    BY <2>2, WaitingMoves
  <2> QED BY <1>0, <1>8, <2>1, <2>2 DEF End, EndDirect, CancelUnstarted
<1> QED BY <1>1, <1>2, <1>3, <1>6, <1>7, <1>8 DEF Next

\* So a command, once sent, accounts for whatever happens later.
LEMMA StaysCommanded ==
    ASSUME IInv, [Next]_vars
    PROVE  \A s : Commanded(s) => Commanded(s)'
BY StaysSent DEF Commanded

\* A command cancels only tasks of its own session.
LEMMA CancelsOwn ==
    ASSUME RInv, NEW m \in Messages, CancelActive(m), Commanded(SessionOf[m])',
           \A s : Commanded(s) => Commanded(s)'
    PROVE  CancelledByCommand' /\ TasksOfSession'
<1>0. /\ TypeOK /\ CancelledByCommand /\ TasksOfSession /\ SessionOf[m] \in Sessions
  BY MessagesAssumption DEF RInv, IInv, CommandInv
<1>1. /\ cancel' = cancel \cup (activeTasks[SessionOf[m]] \ {m})
      /\ activeTasks' = [activeTasks EXCEPT ![SessionOf[m]] = {}]
  BY DEF CancelActive
<1>2. \A t \in activeTasks[SessionOf[m]] : SessionOf[t] = SessionOf[m]
  BY <1>0 DEF TasksOfSession
<1>3. CancelledByCommand'
  BY <1>0, <1>1, <1>2 DEF CancelledByCommand, IsDirect
<1>4. TasksOfSession'
  BY <1>0, <1>1 DEF TasksOfSession, TypeOK
<1> QED BY <1>3, <1>4

LEMMA CommandInit == Init => CommandInv
BY DEF Init, CommandInv, CancelledByCommand, TasksOfSession, GoneByCommand,
       ClearingIsNew, InlineIsCommand

\* Only /new gets to clear a session.
LEMMA ClearingStep ==
    ASSUME RInv, [Next]_vars
    PROVE  ClearingIsNew'
<1> SUFFICES ASSUME NEW m \in Messages, at[m] # "clearing", KindOf[m] # "new"
             PROVE  at'[m] # "clearing"
  BY DEF RInv, CommandInv, ClearingIsNew
<1> USE MessagesAssumption DEF Move, Settle
<1>0. IInv /\ TypeOK /\ at \in [Messages -> Places]
  BY DEF RInv, IInv, TypeOK
<1>1. CASE UNCHANGED vars
  BY <1>1 DEF vars
<1>2. CASE RunLoop
  <2>1. ASSUME NEW n \in Messages, FinishInline(n) PROVE at'[m] # "clearing"
    BY <1>0, <2>1, FinishMoves
  <2> QED BY <1>0, <1>2, <2>1 DEF RunLoop, DropUnbound, RunInline, Defer, RouteFollowUp, CreateTask
<1>3. ASSUME NEW n \in Messages, Publish(n) \/ CallDirect(n) \/ AbandonDirect(n)
      PROVE  at'[m] # "clearing"
  BY <1>0, <1>3 DEF Publish, CallDirect, AbandonDirect
<1>4. ASSUME NEW n \in Messages, BeginTurn(n) PROVE at'[m] # "clearing"
  BY <1>0, <1>4 DEF BeginTurn, OpenSession
<1>5. ASSUME NEW n \in Messages, WithLock(n) PROVE at'[m] # "clearing"
  BY <1>0, <1>4, <1>5 DEF WithLock
<1>6. ASSUME NEW n \in Messages, Advance(n) PROVE at'[m] # "clearing"
  BY <1>0, <1>4, <1>5, <1>6 DEF Advance, Start, AcquireLock, TakeGate
<1>7. ASSUME NEW n \in Messages, Drain(n) PROVE at'[m] # "clearing"
  BY <1>0, <1>7, DrainMoves
<1>8. ASSUME NEW n \in Messages, End(n) PROVE at'[m] # "clearing"
  <2>1. ASSUME NEW f \in Fates, EndTurn(n, f) PROVE at'[m] # "clearing"
    BY <1>0, <2>1, EndMoves
  <2>2. CASE CancelWaiting(n)
    BY <1>0, <2>2, WaitingMoves
  <2> QED BY <1>0, <1>8, <2>1, <2>2 DEF End, EndDirect, CancelUnstarted
<1> QED BY <1>1, <1>2, <1>3, <1>6, <1>7, <1>8 DEF Next

LEMMA CommandStep ==
    ASSUME RInv, [Next]_vars
    PROVE  CommandInv'
<1>0. /\ IInv /\ TypeOK /\ CancelledByCommand /\ TasksOfSession /\ GoneByCommand
      /\ ClearingIsNew /\ InlineIsCommand
  BY DEF RInv, IInv, CommandInv
<1>z. ClearingIsNew'
  BY ClearingStep
<1> SUFFICES CancelledByCommand' /\ TasksOfSession' /\ GoneByCommand' /\ InlineIsCommand'
  BY <1>z DEF CommandInv
<1> DEFINE Goal == CancelledByCommand' /\ TasksOfSession' /\ GoneByCommand' /\ InlineIsCommand'
<1>a. \A s : Commanded(s) => Commanded(s)'
  BY <1>0, StaysCommanded
<1>b. UNCHANGED cancel => CancelledByCommand'
  BY <1>0, <1>a DEF CancelledByCommand, IsDirect
<1>c. UNCHANGED activeTasks => TasksOfSession'
  BY <1>0 DEF TasksOfSession
<1>d. cached \subseteq cached' => GoneByCommand'
  BY <1>0, <1>a DEF GoneByCommand
<1>e. UNCHANGED inline => InlineIsCommand'
  BY <1>0 DEF InlineIsCommand
<1>f. ASSUME NEW m \in Messages, TaskDone(m)
      PROVE  CancelledByCommand' /\ TasksOfSession' /\ InlineIsCommand'
  <2>1. /\ cancel' \subseteq cancel /\ UNCHANGED inline
        /\ activeTasks' = [activeTasks EXCEPT ![SessionOf[m]] = @ \ {m}]
    BY <1>f DEF TaskDone
  <2>2. TasksOfSession'
    BY <1>0, <2>1 DEF TasksOfSession, TypeOK
  <2>3. CancelledByCommand'
    BY <1>0, <1>a, <2>1 DEF CancelledByCommand, IsDirect
  <2> QED BY <1>e, <2>1, <2>2, <2>3
<1>g. ASSUME NEW m \in Messages, KindOf[m] \in Commands, at[m] # "unsent"
      PROVE  Commanded(SessionOf[m])'
  BY <1>a, <1>g DEF Commanded
<1>h. ASSUME NEW s \in Sessions, Commanded(s)', cached \ {s} \subseteq cached'
      PROVE  GoneByCommand'
  BY <1>0, <1>a, <1>h DEF GoneByCommand
<1>i. ASSUME NEW m \in Messages, CancelActive(m), KindOf[m] \in Commands, at[m] # "unsent"
      PROVE  CancelledByCommand' /\ TasksOfSession'
  BY <1>a, <1>g, <1>i, CancelsOwn
<1>1. CASE UNCHANGED vars
  BY <1>1, <1>b, <1>c, <1>d, <1>e DEF vars, tasks, store
<1>2. ASSUME NEW m \in Messages, Publish(m) \/ CallDirect(m) \/ AbandonDirect(m) PROVE Goal
  <2>1. UNCHANGED <<activeTasks, cached, inline>>
    BY <1>2 DEF Publish, CallDirect, AbandonDirect, tasks, store
  <2>2. CancelledByCommand'
    <3>1. CASE AbandonDirect(m)
      BY <1>0, <1>a, <3>1 DEF AbandonDirect, CancelledByCommand, IsDirect
    <3>2. CASE Publish(m) \/ CallDirect(m)
      BY <1>b, <3>2 DEF Publish, CallDirect, tasks
    <3> QED BY <1>2, <3>1, <3>2
  <2> QED BY <1>c, <1>d, <1>e, <2>1, <2>2
<1>3. ASSUME NEW m \in Messages, DropUnbound(m) \/ Defer(m) \/ RouteFollowUp(m) PROVE Goal
  BY <1>3, <1>b, <1>c, <1>d, <1>e DEF DropUnbound, Defer, RouteFollowUp, tasks, store
<1>4. ASSUME NEW m \in Messages, CreateTask(m) PROVE Goal
  <2>1. TasksOfSession'
    BY <1>0, <1>4, MessagesAssumption DEF CreateTask, TasksOfSession, TypeOK
  <2> QED BY <1>4, <1>b, <1>d, <1>e, <2>1 DEF CreateTask, store
<1>5. ASSUME NEW m \in Messages, RunInline(m) PROVE Goal
  <2>1. at[m] # "unsent" /\ CancelActive(m) /\ KindOf[m] \in Commands /\ inline' = m
    BY <1>0, <1>5, Consumed DEF RunInline, Commands
  <2>2. CancelledByCommand' /\ TasksOfSession'
    BY <1>i, <2>1
  <2>3. GoneByCommand'
    BY <1>5, <1>g, <1>h, <2>1, MessagesAssumption DEF RunInline, store
  <2> QED BY <2>1, <2>2, <2>3 DEF InlineIsCommand
<1>6. ASSUME NEW m \in Messages, FinishInline(m) PROVE Goal
  <2>1. /\ inline = m /\ inline' = None /\ UNCHANGED <<cancel, activeTasks>>
        /\ cached \ {SessionOf[m]} \subseteq cached'
    BY <1>6 DEF FinishInline
  <2>2. at[m] # "unsent" /\ KindOf[m] \in Commands
    BY <1>0, <2>1, MessagesAssumption DEF InlineIsCommand, IInv, InlineInv
  <2>3. GoneByCommand'
    BY <1>g, <1>h, <2>1, <2>2, MessagesAssumption
  <2> QED BY <1>b, <1>c, <2>1, <2>3 DEF InlineIsCommand
<1>7. ASSUME NEW m \in Messages, BeginTurn(m), at[m] # "unsent", UNCHANGED inline PROVE Goal
  <2>1. OpenSession(m)
    BY <1>7 DEF BeginTurn
  <2>2. cached \subseteq cached'
    BY <2>1 DEF OpenSession
  <2>3. CancelledByCommand' /\ TasksOfSession'
    <3>1. CASE CancelActive(m) /\ KindOf[m] = "new"
      BY <1>7, <1>i, <3>1 DEF Commands
    <3>2. CASE UNCHANGED <<cancel, activeTasks>>
      BY <1>b, <1>c, <3>2
    <3> QED BY <2>1, <3>1, <3>2 DEF OpenSession
  <2> QED BY <1>7, <1>d, <1>e, <2>2, <2>3
<1>8. ASSUME NEW m \in Messages, WithLock(m), at[m] # "unsent", UNCHANGED inline PROVE Goal
  BY <1>7, <1>8, <1>b, <1>c, <1>d, <1>e DEF WithLock
<1>9. ASSUME NEW m \in Messages, Advance(m) PROVE Goal
  <2>1. CASE Start(m)
    BY <1>8, <1>b, <1>c, <1>d, <1>e, <2>1 DEF Start
  <2>2. CASE AcquireLock(m)
    BY <1>8, <2>2 DEF AcquireLock
  <2>3. CASE TakeGate(m)
    BY <1>7, <2>3 DEF TakeGate
  <2> QED BY <1>9, <2>1, <2>2, <2>3 DEF Advance
<1>10. ASSUME NEW m \in Messages, Drain(m) PROVE Goal
  BY <1>10, <1>b, <1>c, <1>d, <1>e DEF Drain, tasks, store
<1>11. ASSUME NEW m \in Messages, End(m) PROVE Goal
  <2>1. ASSUME NEW f \in Fates, EndTurn(m, f) PROVE Goal
    <3>1. TaskDone(m) /\ cached' = CacheAfter(m, f) /\ at[m] # "unsent"
      BY <2>1 DEF EndTurn, InTurn
    <3>2. CASE at[m] = "clearing"
      <4>1. Commanded(SessionOf[m])'
        BY <1>0, <1>g, <3>1, <3>2 DEF ClearingIsNew, Commands
      <4>2. cached \ {SessionOf[m]} \subseteq cached'
        BY <3>1 DEF CacheAfter
      <4> QED BY <1>f, <1>h, <3>1, <4>1, <4>2, MessagesAssumption
    <3>3. CASE at[m] # "clearing"
      <4>1. cached \subseteq cached'
        BY <3>1, <3>3 DEF CacheAfter
      <4> QED BY <1>d, <1>f, <3>1, <4>1
    <3> QED BY <3>2, <3>3
  <2>2. ASSUME NEW f \in Fates, EndDirect(m, f) PROVE Goal
    BY <1>d, <1>f, <2>2 DEF EndDirect, store
  <2>3. CASE CancelUnstarted(m) \/ CancelWaiting(m)
    BY <1>d, <1>f, <2>3 DEF CancelUnstarted, CancelWaiting, store
  <2> QED BY <1>11, <2>1, <2>2, <2>3 DEF End
<1>12. CASE RunLoop
  BY <1>3, <1>4, <1>5, <1>6, <1>12 DEF RunLoop
<1> QED BY <1>1, <1>2, <1>9, <1>10, <1>11, <1>12 DEF Next
-----------------------------------------------------------------------------
(* The refinement: every step is a step of SerialTurns or leaves it alone.  *)

\* The status of a message, by the place it is in.
StatusAt(p) ==
    CASE p = "unsent" -> "unseen"
      [] p \in InTurn -> "running"
      [] p = "done"   -> "over"
      [] OTHER        -> "waiting"

Waiting == {"inbound", "inline", "queued", "deferred", "created", "lockWait", "gateWait"}

LEMMA StatusValue ==
    /\ StatusAt("unsent") = "unseen" /\ StatusAt("done") = "over"
    /\ \A p \in InTurn : StatusAt(p) = "running"
    /\ \A p \in Waiting : StatusAt(p) = "waiting"
    /\ Places = {"unsent", "done"} \cup InTurn \cup Waiting
    /\ \A p \in Places : StatusAt(p) = "running" => p \in InTurn
<1>1. Places = {"unsent", "done"} \cup InTurn \cup Waiting
  BY DEF Places, InTurn, Waiting
<1>2. /\ StatusAt("unsent") = "unseen" /\ StatusAt("done") = "over"
      /\ \A p \in InTurn : StatusAt(p) = "running"
      /\ \A p \in Waiting : StatusAt(p) = "waiting"
  BY DEF StatusAt, InTurn, Waiting
<1> QED BY <1>1, <1>2

Status == [m \in Messages |-> StatusOf(m)]

LEMMA StatusIs ==
    \A m \in Messages : Status[m] = StatusAt(at[m]) /\ Status'[m] = StatusAt(at'[m])
BY DEF Status, StatusOf, StatusAt

LEMMA StatusKept ==
    ASSUME \A t \in Messages : StatusAt(at'[t]) = StatusAt(at[t])
    PROVE  UNCHANGED Status
BY DEF Status, StatusOf, StatusAt

LEMMA StatusSet ==
    ASSUME NEW S \in SUBSET Messages, NEW v,
           \A t \in Messages : StatusAt(at'[t]) = IF t \in S THEN v ELSE StatusAt(at[t])
    PROVE  Serial!Set(S, v)
<1>1. \A t \in Messages : StatusOf(t)' = IF t \in S THEN v ELSE StatusOf(t)
  BY DEF StatusOf, StatusAt
<1>2. Serial!Set(S, v) <=>
        [m \in Messages |-> StatusOf(m)]'
          = [m \in Messages |-> IF m \in S THEN v ELSE [n \in Messages |-> StatusOf(n)][m]]
  BY DEF Serial!Set
<1> QED BY <1>1, <1>2
\* One message moves, and the others wait on at most elsewhere.
LEMMA OneMoves ==
    ASSUME TypeOK, NEW m \in Messages, NEW v, StatusAt(at'[m]) = v,
           \A t \in Messages : t # m =>
              at'[t] = at[t] \/ (at[t] \in Waiting /\ at'[t] \in Waiting)
    PROVE  Serial!Set({m}, v)
<1>1. \A t \in Messages : StatusAt(at'[t]) = IF t \in {m} THEN v ELSE StatusAt(at[t])
  BY StatusValue
<1> DEFINE S == {m}
<1>2. S \in SUBSET Messages
  OBVIOUS
<1>3. \A t \in Messages : StatusAt(at'[t]) = IF t \in S THEN v ELSE StatusAt(at[t])
  BY <1>1
<1> HIDE DEF S
<1>4. Serial!Set(S, v)
  BY <1>2, <1>3, StatusSet
<1> QED BY <1>4 DEF S

\* A message that somebody cancelled, or whose session is gone, has a command
\* of its session behind it, or is a direct call.
Accounted(m) ==
    \/ IsDirect(m)
    \/ \E c \in Messages : /\ KindOf[c] \in Commands /\ SessionOf[c] = SessionOf[m]
                           /\ Status[c] # "unseen"

LEMMA CommandAccounts ==
    ASSUME TypeOK, NEW m \in Messages, IsDirect(m) \/ Commanded(SessionOf[m])
    PROVE  Accounted(m)
<1> SUFFICES ASSUME Commanded(SessionOf[m]) PROVE Accounted(m)
  BY DEF Accounted
<1>1. PICK c \in Messages : KindOf[c] \in Commands /\ SessionOf[c] = SessionOf[m]
                            /\ at[c] # "unsent"
  BY DEF Commanded
<1>2. at[c] \in Places
  BY DEF TypeOK
<1>3. Status[c] # "unseen"
  BY <1>1, <1>2, StatusIs, StatusValue
<1> QED BY <1>1, <1>3 DEF Accounted

LEMMA Withdrawn ==
    ASSUME NEW S \in SUBSET Messages, S # {}, Serial!Set(S, "over"),
           \A m \in S : Status[m] = "waiting" /\ Accounted(m)
    PROVE  Serial!Next
<1>1. Serial!Withdraw(S)
  BY DEF Serial!Withdraw, Accounted, Status
<1> QED BY <1>1 DEF Serial!Next

\* One message is given up, while others may be put back onto the bus.
LEMMA OneWithdrawn ==
    ASSUME TypeOK, NEW m \in Messages, at[m] \in Waiting, at'[m] = "done",
           IsDirect(m) \/ Commanded(SessionOf[m]),
           \A t \in Messages : t # m =>
              at'[t] = at[t] \/ (at[t] \in Waiting /\ at'[t] \in Waiting)
    PROVE  Serial!Next
<1> DEFINE S == {m}
<1>1. Serial!Set(S, "over")
  BY OneMoves, StatusValue
<1>2. \A t \in S : Status[t] = "waiting" /\ Accounted(t)
  BY CommandAccounts, StatusIs, StatusValue
<1>3. S \in SUBSET Messages /\ S # {}
  OBVIOUS
<1> HIDE DEF S
<1> QED BY <1>1, <1>2, <1>3, Withdrawn

LEMMA SameCardinality == \A S : Serial!Cardinality(S) = Cardinality(S)
BY DEF Serial!Cardinality, Cardinality

\* A turn that begins under its lock and the gate begins in SerialTurns.
LEMMA TurnRefines ==
    ASSUME RInv, NEW m \in Messages, BeginTurn(m),
           at[m] \in {"created", "lockWait", "gateWait"},
           lock[SessionOf[m]] \in {None, m},
           ~IsDirect(m) => Cardinality(gate) < GateSlots
    PROVE  Serial!Next
<1>0. /\ TypeOK /\ LockInv /\ GateInv
      /\ SessionOf[m] \in Sessions /\ None \notin Messages
  BY MessagesAssumption DEF RInv, IInv
<1>1. at'[m] \in InTurn /\ \A t \in Messages : t # m => at'[t] = at[t]
  BY <1>0 DEF BeginTurn, OpenSession, Move, InTurn, TypeOK
<1>2. Serial!Set({m}, "running")
  BY <1>0, <1>1, OneMoves, StatusValue
<1>3. Status[m] = "waiting"
  BY StatusIs, StatusValue DEF Waiting
<1>4. ASSUME NEW n \in Messages, Status[n] = "running", SessionOf[n] = SessionOf[m]
      PROVE  FALSE
  <2>1. at[n] \in InTurn
    BY <1>0, <1>4, StatusIs, StatusValue DEF TypeOK
  <2>2. lock[SessionOf[m]] = n
    BY <1>0, <1>4, <2>1 DEF LockInv, HoldLock
  <2>3. n = m
    BY <1>0, <2>2
  <2> QED BY <2>1, <2>3 DEF InTurn
<1>5. {n \in Messages : Status[n] = "running"} \ {n \in Messages : IsDirect(n)} = gate
  <2>1. \A n \in Messages : Status[n] = "running" <=> at[n] \in InTurn
    BY <1>0, StatusIs, StatusValue DEF TypeOK
  <2> QED BY <1>0, <2>1 DEF GateInv
<1>6. IsDirect(m) \/ Cardinality(Serial!Running \ {n \in Messages : IsDirect(n)}) < GateSlots
  BY <1>5 DEF Serial!Running, Status
<1>7. \A n \in Serial!Running : SessionOf[n] # SessionOf[m]
  BY <1>4 DEF Serial!Running, Status
<1>8. Serial!Begin(m)
  BY <1>2, <1>3, <1>6, <1>7, SameCardinality DEF Serial!Begin, Status
<1>9. \E n \in Messages : Serial!Accept(n) \/ Serial!Begin(n) \/ Serial!Finish(n)
  BY <1>8
<1> QED BY <1>9 DEF Serial!Next
\* Messages that only change the queue they wait in.
LEMMA Shuffled ==
    ASSUME \A t \in Messages : at'[t] = at[t] \/ (at[t] \in Waiting /\ at'[t] \in Waiting)
    PROVE  UNCHANGED Status
BY StatusKept, StatusValue

LEMMA EnvironmentRefines ==
    ASSUME RInv, NEW m \in Messages, Publish(m) \/ CallDirect(m) \/ AbandonDirect(m)
    PROVE  Serial!Next \/ UNCHANGED Status
<1>0. TypeOK
  BY DEF RInv, IInv
<1>1. CASE Publish(m) \/ CallDirect(m)
  <2>1. /\ at[m] = "unsent" /\ at'[m] \in Waiting
        /\ \A t \in Messages : t # m => at'[t] = at[t]
    BY <1>0, <1>1 DEF Publish, CallDirect, Move, Waiting, TypeOK
  <2>2. Serial!Set({m}, "waiting")
    BY <1>0, <2>1, OneMoves, StatusValue
  <2>3. Status[m] = "unseen"
    BY <2>1, StatusIs, StatusValue
  <2>4. Serial!Accept(m)
    BY <2>2, <2>3 DEF Serial!Accept, Status
  <2>5. \E n \in Messages : Serial!Accept(n) \/ Serial!Begin(n) \/ Serial!Finish(n)
    BY <2>4
  <2> QED BY <2>5 DEF Serial!Next
<1>2. CASE AbandonDirect(m)
  BY <1>2, Shuffled DEF AbandonDirect
<1> QED BY <1>1, <1>2

LEMMA RoutingRefines ==
    ASSUME RInv, NEW m \in Messages,
           DropUnbound(m) \/ RunInline(m) \/ Defer(m) \/ RouteFollowUp(m) \/ CreateTask(m)
    PROVE  Serial!Next \/ UNCHANGED Status
<1>0. TypeOK /\ IInv /\ GoneByCommand
  BY DEF RInv, IInv, CommandInv
<1>1. at[m] = "inbound"
  BY <1>0, Consumed DEF DropUnbound, RunInline, Defer, RouteFollowUp, CreateTask
<1>2. CASE DropUnbound(m)
  <2>1. at'[m] = "done" /\ \A t \in Messages : t # m => at'[t] = at[t]
    BY <1>0, <1>2 DEF DropUnbound, Settle, Move, TypeOK
  <2>2. Commanded(SessionOf[m])
    BY <1>0, <1>2 DEF DropUnbound, Passes, Requires, GoneByCommand
  <2>3. at[m] \in Waiting
    BY <1>1 DEF Waiting
  <2> QED BY <1>0, <2>1, <2>2, <2>3, OneWithdrawn
<1>3. CASE RunInline(m) \/ Defer(m) \/ RouteFollowUp(m) \/ CreateTask(m)
  <2>1. at'[m] \in Waiting /\ \A t \in Messages : t # m => at'[t] = at[t]
    BY <1>0, <1>3 DEF RunInline, Defer, RouteFollowUp, CreateTask, Move, Waiting, TypeOK
  <2> QED BY <1>1, <2>1, Shuffled DEF Waiting
<1> QED BY <1>2, <1>3

\* A command that ends takes the follow-ups it throws away with it.
LEMMA FinishRefines ==
    ASSUME RInv, NEW m \in Messages, FinishInline(m)
    PROVE  Serial!Next
<1> DEFINE S == Discarded(m) \cup {m}
<1>0. TypeOK /\ IInv /\ InlineIsCommand
  BY DEF RInv, IInv, CommandInv
<1>1. /\ at[m] = "inline"
      /\ \A t \in Messages : at'[t] = IF t \in S THEN "done" ELSE at[t]
  BY <1>0, FinishMoves
<1>2. KindOf[m] \in Commands
  BY <1>0, MessagesAssumption DEF FinishInline, InlineIsCommand
<1>3. /\ S \in SUBSET Messages /\ S # {}
      /\ \A t \in S : at[t] \in Waiting /\ SessionOf[t] = SessionOf[m]
  BY <1>1 DEF Discarded, Placed, Waiting
<1>4. Commanded(SessionOf[m])
  BY <1>1, <1>2 DEF Commanded
<1> HIDE DEF S
<1>5. \A t \in S : Status[t] = "waiting" /\ Accounted(t)
  BY <1>0, <1>3, <1>4, CommandAccounts, StatusIs, StatusValue
<1>6. Serial!Set(S, "over")
  BY <1>1, <1>3, StatusSet, StatusValue
<1> QED BY <1>3, <1>5, <1>6, Withdrawn

LEMMA LockRefines ==
    ASSUME RInv, NEW m \in Messages, WithLock(m),
           at[m] \in {"created", "lockWait"}, lock[SessionOf[m]] = None
    PROVE  Serial!Next \/ UNCHANGED Status
<1>0. TypeOK
  BY DEF RInv, IInv
<1>1. CASE IsDirect(m) \/ GateFree
  <2>1. BeginTurn(m)
    BY <1>1 DEF WithLock
  <2>2. ~IsDirect(m) => Cardinality(gate) < GateSlots
    BY <1>1 DEF GateFree
  <2> QED BY <2>1, <2>2, TurnRefines
<1>2. CASE ~(IsDirect(m) \/ GateFree)
  <2>1. at'[m] = "gateWait" /\ \A t \in Messages : t # m => at'[t] = at[t]
    BY <1>0, <1>2 DEF WithLock, Move, TypeOK
  <2> QED BY <2>1, Shuffled DEF Waiting
<1> QED BY <1>1, <1>2

LEMMA AdvanceRefines ==
    ASSUME RInv, NEW m \in Messages, Advance(m)
    PROVE  Serial!Next \/ UNCHANGED Status
<1>0. TypeOK /\ LockInv /\ SessionOf[m] \in Sessions
  BY MessagesAssumption DEF RInv, IInv
<1>1. CASE Start(m)
  <2>1. CASE LockFree(SessionOf[m])
    BY <1>1, <2>1, LockRefines DEF Start, LockFree
  <2>2. CASE ~LockFree(SessionOf[m])
    <3>1. /\ at[m] = "created" /\ at'[m] = "lockWait"
          /\ \A t \in Messages : t # m => at'[t] = at[t]
      BY <1>0, <1>1, <2>2 DEF Start, Move, TypeOK
    <3> QED BY <3>1, Shuffled DEF Waiting
  <2> QED BY <2>1, <2>2
<1>2. CASE AcquireLock(m)
  BY <1>2, LockRefines DEF AcquireLock
<1>3. CASE TakeGate(m)
  <2>1. lock[SessionOf[m]] = m
    BY <1>0, <1>3 DEF TakeGate, LockInv, HoldLock
  <2> QED BY <1>3, <2>1, TurnRefines DEF TakeGate
<1> QED BY <1>1, <1>2, <1>3 DEF Advance

LEMMA DrainRefines ==
    ASSUME RInv, NEW m \in Messages, Drain(m)
    PROVE  Serial!Next
<1> DEFINE S == Taken(m)
<1>1. /\ at[m] = "turn" /\ S # {} /\ S \subseteq Placed("queued", SessionOf[m])
      /\ \A t \in Messages : at'[t] = IF t \in S THEN "done" ELSE at[t]
  BY DrainMoves DEF RInv
<1> HIDE DEF S
<1>2. /\ S \in SUBSET Messages
      /\ \A t \in S : at[t] \in Waiting /\ SessionOf[t] = SessionOf[m]
  BY <1>1 DEF Placed, Waiting
<1>3. Status[m] = "running" /\ \A t \in S : Status[t] = "waiting"
  BY <1>1, <1>2, StatusIs, StatusValue DEF InTurn
<1>4. Serial!Set(S, "over")
  BY <1>1, <1>2, StatusSet, StatusValue
<1>5. Serial!Absorb(m, S)
  BY <1>1, <1>2, <1>3, <1>4 DEF Serial!Absorb, Status
<1>6. \E n \in Messages, T \in SUBSET Messages : Serial!Absorb(n, T)
  BY <1>2, <1>5
<1> QED BY <1>6 DEF Serial!Next

\* A turn that ends, while its leftovers and a deferred turn go back.
LEMMA TurnOver ==
    ASSUME TypeOK, NEW m \in Messages, at[m] \in InTurn, at'[m] = "done",
           \A t \in Messages : t # m =>
              at'[t] = at[t] \/ (at[t] \in Waiting /\ at'[t] \in Waiting)
    PROVE  Serial!Next
<1>1. Serial!Set({m}, "over")
  BY OneMoves, StatusValue
<1>2. Status[m] = "running"
  BY StatusIs, StatusValue
<1>3. Serial!Finish(m)
  BY <1>1, <1>2 DEF Serial!Finish, Status
<1>4. \E n \in Messages : Serial!Accept(n) \/ Serial!Begin(n) \/ Serial!Finish(n)
  BY <1>3
<1> QED BY <1>4 DEF Serial!Next

LEMMA EndRefines ==
    ASSUME RInv, NEW m \in Messages, End(m)
    PROVE  Serial!Next
<1>0. TypeOK /\ IInv /\ CancelledByCommand
  BY DEF RInv, IInv, CommandInv
<1>1. ASSUME NEW f \in Fates, EndTurn(m, f) PROVE Serial!Next
  <2>1. /\ at[m] \in InTurn /\ at'[m] = "done"
        /\ \A t \in Messages :
              \/ t = m
              \/ t \in Left(m) /\ at'[t] = "inbound"
              \/ t \notin Left(m) /\ at[t] = "deferred" /\ at'[t] = "inbound"
              \/ t \notin Left(m) /\ at'[t] = at[t]
    BY <1>0, <1>1, EndMoves
  <2>2. \A t \in Left(m) : at[t] = "queued"
    BY DEF Left, Placed
  <2>3. \A t \in Messages : t # m =>
           at'[t] = at[t] \/ (at[t] \in Waiting /\ at'[t] \in Waiting)
    BY <2>1, <2>2 DEF Waiting
  <2> QED BY <1>0, <2>1, <2>3, TurnOver
<1>2. ASSUME NEW f \in Fates, EndDirect(m, f) PROVE Serial!Next
  <2>1. /\ at[m] \in InTurn /\ at'[m] = "done"
        /\ \A t \in Messages : t # m => at'[t] = at[t]
    BY <1>0, <1>2 DEF EndDirect, Settle, Move, InTurn, TypeOK
  <2> QED BY <1>0, <2>1, TurnOver
<1>3. CASE CancelUnstarted(m) \/ CancelWaiting(m)
  <2>1. IsDirect(m) \/ Commanded(SessionOf[m])
    BY <1>0, <1>3 DEF CancelUnstarted, CancelWaiting, CancelledByCommand
  <2>2. /\ at[m] \in Waiting /\ at'[m] = "done"
        /\ \A t \in Messages : t # m =>
              at'[t] = at[t] \/ (at[t] \in Waiting /\ at'[t] \in Waiting)
    <3>1. CASE CancelUnstarted(m)
      BY <1>0, <3>1 DEF CancelUnstarted, Settle, Move, TypeOK, Waiting
    <3>2. CASE CancelWaiting(m)
      BY <1>0, <3>2, WaitingMoves DEF Waiting
    <3> QED BY <1>3, <3>1, <3>2
  <2> QED BY <1>0, <2>1, <2>2, OneWithdrawn
<1> QED BY <1>1, <1>2, <1>3 DEF End

LEMMA StepRefines ==
    ASSUME RInv, [Next]_vars
    PROVE  Serial!Next \/ UNCHANGED Status
<1>1. CASE UNCHANGED vars
  BY <1>1, Shuffled DEF vars
<1>2. CASE RunLoop
  BY <1>2, RoutingRefines, FinishRefines DEF RunLoop
<1>3. ASSUME NEW m \in Messages,
             Publish(m) \/ CallDirect(m) \/ AbandonDirect(m) \/ Advance(m) \/ Drain(m) \/ End(m)
      PROVE  Serial!Next \/ UNCHANGED Status
  BY <1>3, EnvironmentRefines, AdvanceRefines, DrainRefines, EndRefines
<1> QED BY <1>1, <1>2, <1>3 DEF Next

LEMMA RInvHolds == Spec => []RInv
<1>1. Init => RInv
  BY InvInit, CommandInit DEF RInv
<1>2. RInv /\ [Next]_vars => RInv'
  BY InvStep, CommandStep DEF RInv
<1> QED BY <1>1, <1>2, PTL DEF Spec

\* Whatever the dispatcher does is behaviour that SerialTurns allows: turns of
\* a session one at a time, bus turns within the gate, and no message given up
\* without a command of its session or a caller who went away.
THEOREM DispatcherImplements == Spec => ImplementsSerialTurns
<1>1. Init => Serial!Init
  <2> SUFFICES ASSUME Init PROVE Serial!Init
    OBVIOUS
  <2>1. \A m \in Messages : StatusOf(m) = "unseen"
    BY DEF Init, StatusOf, InTurn
  <2> QED BY <2>1 DEF Serial!Init
<1>2. RInv /\ [Next]_vars => [Serial!Next]_[m \in Messages |-> StatusOf(m)]
  BY StepRefines DEF Status
<1> QED BY <1>1, <1>2, RInvHolds, PTL DEF Spec, ImplementsSerialTurns, Serial!Spec

-----------------------------------------------------------------------------
(* How messages are settled: a turn that ran has told its submitter.       *)


\* Follow-ups are user messages, and so is whatever a running turn absorbed:
\* nobody waits for a message that a queue is drained of.
OnlyUsersInjected ==
    \A m \in Messages : at[m] = "queued" \/ fate[m] = "absorbed" => KindOf[m] = "user"

\* Whoever still waits submitted an automation turn that was not settled, or
\* that was cancelled before it ran.
WaitersUnsettled ==
    /\ \A m \in Messages : at[m] = "unsent" => fate[m] = "none"
    /\ \A m \in waiters : KindOf[m] = "automation" /\ fate[m] \in {"none", "cancelled"}

\* The inductive invariant.
OutcomeInv == RInv /\ OnlyUsersInjected /\ WaitersUnsettled

LEMMA OutcomeInit == Init => OnlyUsersInjected /\ WaitersUnsettled
BY DEF Init, OnlyUsersInjected, WaitersUnsettled

\* A step that sends nobody into a queue, nor back, and settles only message m,
\* who does not wait any more or was given up.
LEMMA OneSettled ==
    ASSUME OutcomeInv, NEW m \in Messages, NEW f \in {"answered", "failed", "cancelled", "dropped"},
           fate' = [fate EXCEPT ![m] = f], at'[m] # "unsent",
           \A t \in Messages : (at'[t] = "queued" => at[t] = "queued")
                               /\ (at'[t] = "unsent" => at[t] = "unsent"),
           waiters' \subseteq waiters, m \in waiters' => f = "cancelled"
    PROVE  OnlyUsersInjected' /\ WaitersUnsettled'
<1>0. TypeOK /\ OnlyUsersInjected /\ WaitersUnsettled
  BY DEF OutcomeInv, RInv, IInv
<1>1. \A t \in Messages : fate'[t] = IF t = m THEN f ELSE fate[t]
  BY <1>0 DEF TypeOK
<1>2. OnlyUsersInjected'
  BY <1>0, <1>1 DEF OnlyUsersInjected
<1>3. WaitersUnsettled'
  BY <1>0, <1>1 DEF WaitersUnsettled, TypeOK
<1> QED BY <1>2, <1>3

\* A step that settles nobody and sends nobody into a running turn's queue.
LEMMA NobodySettled ==
    ASSUME OutcomeInv, UNCHANGED <<fate, waiters>>,
           \A t \in Messages : (at'[t] = "queued" => at[t] = "queued" \/ KindOf[t] = "user")
                               /\ (at'[t] = "unsent" => at[t] = "unsent")
    PROVE  OnlyUsersInjected' /\ WaitersUnsettled'
BY DEF OutcomeInv, OnlyUsersInjected, WaitersUnsettled

\* A step that settles the messages of S, none of them an automation turn, and
\* has only user messages absorbed.
LEMMA SomeSettled ==
    ASSUME OutcomeInv, NEW S \in SUBSET Messages, UNCHANGED waiters,
           \A t \in S : /\ KindOf[t] # "automation" /\ at'[t] = "done"
                        /\ fate'[t] = "absorbed" => KindOf[t] = "user",
           \A t \in Messages : t \notin S => at'[t] = at[t] /\ fate'[t] = fate[t]
    PROVE  OnlyUsersInjected' /\ WaitersUnsettled'
<1>0. TypeOK /\ OnlyUsersInjected /\ WaitersUnsettled
  BY DEF OutcomeInv, RInv, IInv
<1>1. OnlyUsersInjected'
  BY <1>0 DEF OnlyUsersInjected
<1>2. \A t \in waiters : t \in Messages /\ t \notin S
  BY <1>0 DEF WaitersUnsettled, TypeOK
<1>3. WaitersUnsettled'
  BY <1>0, <1>2 DEF WaitersUnsettled
<1> QED BY <1>1, <1>3

LEMMA OutcomeEnvironment ==
    ASSUME OutcomeInv, NEW m \in Messages, Publish(m) \/ CallDirect(m) \/ AbandonDirect(m)
    PROVE  OnlyUsersInjected' /\ WaitersUnsettled'
<1>0. TypeOK /\ OnlyUsersInjected /\ WaitersUnsettled
  BY DEF OutcomeInv, RInv, IInv
<1>1. UNCHANGED fate /\ \A t \in Messages : at'[t] = at[t] \/ at'[t] \in {"inbound", "created"}
  BY <1>0 DEF Publish, CallDirect, AbandonDirect, Move, TypeOK
<1>2. OnlyUsersInjected'
  BY <1>0, <1>1 DEF OnlyUsersInjected
<1>3. waiters' \subseteq waiters
      \/ (KindOf[m] = "automation" /\ at[m] = "unsent" /\ waiters' = waiters \cup {m})
  BY DEF Publish, CallDirect, AbandonDirect, bus
<1>4. WaitersUnsettled'
  BY <1>0, <1>1, <1>3 DEF WaitersUnsettled
<1> QED BY <1>2, <1>4

LEMMA OutcomeRunLoop ==
    ASSUME OutcomeInv, RunLoop
    PROVE  OnlyUsersInjected' /\ WaitersUnsettled'
<1>0. TypeOK /\ IInv /\ InlineIsCommand /\ OnlyUsersInjected /\ WaitersUnsettled
  BY DEF OutcomeInv, RInv, IInv, CommandInv
<1> DEFINE Goal == OnlyUsersInjected' /\ WaitersUnsettled'
<1>1. ASSUME NEW m \in Messages, DropUnbound(m) PROVE Goal
  <2>1. KindOf[m] # "automation"
    BY <1>1, MessagesAssumption DEF DropUnbound, Passes, Requires, Commands
  <2> DEFINE S == {m}
  <2>2. \A t \in S : KindOf[t] # "automation" /\ at'[t] = "done" /\ fate'[t] = "dropped"
    BY <1>0, <1>1, <2>1 DEF DropUnbound, Settle, Move, TypeOK
  <2>3. \A t \in Messages : t \notin S => at'[t] = at[t] /\ fate'[t] = fate[t]
    BY <1>0, <1>1 DEF DropUnbound, Settle, Move, TypeOK
  <2>4. S \in SUBSET Messages /\ UNCHANGED waiters
    BY <1>1 DEF DropUnbound
  <2> HIDE DEF S
  <2> QED BY <2>2, <2>3, <2>4, SomeSettled
<1>2. ASSUME NEW m \in Messages, RunInline(m) \/ Defer(m) \/ RouteFollowUp(m) \/ CreateTask(m)
      PROVE  Goal
  <2>1. UNCHANGED <<fate, waiters>>
    BY <1>2 DEF RunInline, Defer, RouteFollowUp, CreateTask
  <2>2. /\ \A t \in Messages : t # m => at'[t] = at[t]
        /\ at'[m] \in {"inline", "deferred", "created"} \/ (at'[m] = "queued" /\ KindOf[m] = "user")
    BY <1>0, <1>2 DEF RunInline, Defer, RouteFollowUp, Injectable, CreateTask, Move, TypeOK
  <2> QED BY <2>1, <2>2, NobodySettled
<1>3. ASSUME NEW m \in Messages, FinishInline(m) PROVE Goal
  <2> DEFINE S == Discarded(m) \cup {m}
             drained == IF Stops(m) THEN ToSet(pending[pendingQueues[SessionOf[m]]]) ELSE {}
  <2>1. \A t \in Messages : at'[t] = IF t \in S THEN "done" ELSE at[t]
    BY <1>0, <1>3, FinishMoves
  <2>2. KindOf[m] \in Commands
    BY <1>0, <1>3, MessagesAssumption DEF FinishInline, InlineIsCommand
  <2>3. \A t \in S : t \in Messages /\ KindOf[t] # "automation"
    BY <1>0, <2>2 DEF Discarded, Placed, OnlyUsersInjected, Commands
  <2>4. drained = Discarded(m)
    BY <1>0, MessagesAssumption
       DEF IInv, FollowUpsHeldOnce, Lists, SessionActive, Stops, Discarded
  <2>5. fate' = [t \in Messages |-> CASE t = m -> "answered"
                                      [] t \in drained -> "dropped"
                                      [] OTHER -> fate[t]]
    BY <1>3 DEF FinishInline, Stops
  <2> HIDE DEF drained
  <2>6. \A t \in Messages : /\ t \in S => fate'[t] \in {"answered", "dropped"}
                            /\ t \notin S => fate'[t] = fate[t]
    BY <2>4, <2>5
  <2>7. UNCHANGED waiters
    BY <1>3 DEF FinishInline, bus
  <2> HIDE DEF S
  <2>8. \A t \in S : /\ KindOf[t] # "automation" /\ at'[t] = "done"
                     /\ fate'[t] = "absorbed" => KindOf[t] = "user"
    BY <2>1, <2>3, <2>6
  <2> QED BY <2>1, <2>3, <2>6, <2>7, <2>8, SomeSettled
<1> QED BY <1>1, <1>2, <1>3 DEF RunLoop
LEMMA OutcomeBegin ==
    ASSUME OutcomeInv, NEW m \in Messages, BeginTurn(m) \/ WithLock(m), UNCHANGED <<fate, waiters>>
    PROVE  OnlyUsersInjected' /\ WaitersUnsettled'
<1>0. at \in [Messages -> Places]
  BY DEF OutcomeInv, RInv, IInv, TypeOK
<1>1. BeginTurn(m) \/ Move(m, "gateWait")
  BY DEF WithLock
<1>2. /\ \A t \in Messages : t # m => at'[t] = at[t]
      /\ at'[m] \in InTurn \cup {"gateWait"}
  BY <1>0, <1>1 DEF BeginTurn, OpenSession, Move, InTurn
<1> QED BY <1>2, NobodySettled DEF InTurn

LEMMA OutcomeAdvance ==
    ASSUME OutcomeInv, NEW m \in Messages, Advance(m)
    PROVE  OnlyUsersInjected' /\ WaitersUnsettled'
<1>0. at \in [Messages -> Places]
  BY DEF OutcomeInv, RInv, IInv, TypeOK
<1>1. UNCHANGED <<fate, waiters>>
  BY DEF Advance, Start, AcquireLock, TakeGate, bus
<1>2. CASE Move(m, "lockWait")
  BY <1>0, <1>1, <1>2, NobodySettled DEF Move
<1>3. Move(m, "lockWait") \/ BeginTurn(m) \/ WithLock(m)
  BY DEF Advance, Start, AcquireLock, TakeGate
<1> QED BY <1>1, <1>2, <1>3, OutcomeBegin

LEMMA OutcomeDrain ==
    ASSUME OutcomeInv, NEW m \in Messages, Drain(m)
    PROVE  OnlyUsersInjected' /\ WaitersUnsettled'
<1>0. TypeOK /\ IInv /\ OnlyUsersInjected
  BY DEF OutcomeInv, RInv, IInv
<1> DEFINE S == Taken(m)
<1>1. /\ S \subseteq Placed("queued", SessionOf[m])
      /\ \A t \in Messages : at'[t] = IF t \in S THEN "done" ELSE at[t]
  BY <1>0, DrainMoves
<1>2. fate' = [t \in Messages |-> IF t \in S THEN "absorbed" ELSE fate[t]] /\ UNCHANGED waiters
  BY DEF Drain, Taken, DrainSize, bus
<1> HIDE DEF S
<1>3. \A t \in S : t \in Messages /\ KindOf[t] = "user"
  BY <1>0, <1>1 DEF Placed, OnlyUsersInjected
<1> QED BY <1>1, <1>2, <1>3, SomeSettled

LEMMA OutcomeEnd ==
    ASSUME OutcomeInv, NEW m \in Messages, End(m)
    PROVE  OnlyUsersInjected' /\ WaitersUnsettled'
<1>0. TypeOK /\ IInv /\ WaitersUnsettled
  BY DEF OutcomeInv, RInv, IInv
<1> DEFINE Goal == OnlyUsersInjected' /\ WaitersUnsettled'
<1>1. ASSUME NEW f \in Fates, EndTurn(m, f) PROVE Goal
  <2>1. /\ at'[m] = "done"
        /\ \A t \in Messages : t # m => at'[t] = at[t] \/ at'[t] = "inbound"
    BY <1>0, <1>1, EndMoves
  <2>2. fate' = [fate EXCEPT ![m] = f] /\ f \in {"answered", "failed", "cancelled", "dropped"}
    BY <1>1 DEF EndTurn, Republish
  <2>3. waiters' = waiters \ {m}
    BY <1>1 DEF EndTurn, StillWaiting
  <2> QED BY <2>1, <2>2, <2>3, OneSettled
<1>2. ASSUME NEW f \in Fates, EndDirect(m, f) PROVE Goal
  <2>1. /\ \A t \in Messages : at'[t] = IF t = m THEN "done" ELSE at[t]
        /\ fate' = [fate EXCEPT ![m] = f] /\ UNCHANGED waiters
    BY <1>0, <1>2 DEF EndDirect, Settle, Move, TypeOK, bus
  <2>2. f \in {"answered", "failed", "cancelled", "dropped"}
    BY <1>2 DEF EndDirect
  <2>3. m \notin waiters
    BY <1>0, <1>2 DEF EndDirect, IsDirect, WaitersUnsettled
  <2> QED BY <2>1, <2>2, <2>3, OneSettled
<1>3. CASE CancelUnstarted(m)
  <2>1. /\ \A t \in Messages : at'[t] = IF t = m THEN "done" ELSE at[t]
        /\ fate' = [fate EXCEPT ![m] = "cancelled"] /\ UNCHANGED waiters
    BY <1>0, <1>3 DEF CancelUnstarted, Settle, Move, TypeOK, bus
  <2> QED BY <2>1, OneSettled
<1>4. CASE CancelWaiting(m)
  <2>1. /\ at'[m] = "done"
        /\ \A t \in Messages : t # m => at'[t] = at[t] \/ at'[t] = "inbound"
    BY <1>0, <1>4, WaitingMoves
  <2>2. fate' = [fate EXCEPT ![m] = "cancelled"] /\ UNCHANGED waiters
    BY <1>4 DEF CancelWaiting, Settle, Republish
  <2> QED BY <2>1, <2>2, OneSettled
<1> QED BY <1>1, <1>2, <1>3, <1>4 DEF End

LEMMA OutcomeStep == OutcomeInv /\ [Next]_vars => OutcomeInv'
<1> SUFFICES ASSUME OutcomeInv, [Next]_vars PROVE OutcomeInv'
  OBVIOUS
<1>1. RInv'
  BY InvStep, CommandStep DEF OutcomeInv, RInv
<1>2. CASE UNCHANGED vars
  <2>1. UNCHANGED <<at, fate, waiters>>
    BY <1>2 DEF vars, bus
  <2>2. OnlyUsersInjected' /\ WaitersUnsettled'
    BY <2>1, NobodySettled
  <2> QED BY <1>1, <2>2 DEF OutcomeInv
<1>3. CASE RunLoop
  BY <1>1, <1>3, OutcomeRunLoop DEF OutcomeInv
<1>4. ASSUME NEW m \in Messages,
             Publish(m) \/ CallDirect(m) \/ AbandonDirect(m) \/ Advance(m) \/ Drain(m) \/ End(m)
      PROVE  OutcomeInv'
  <2>1. OnlyUsersInjected' /\ WaitersUnsettled'
    BY <1>4, OutcomeEnvironment, OutcomeAdvance, OutcomeDrain, OutcomeEnd
  <2> QED BY <1>1, <2>1 DEF OutcomeInv
<1> QED BY <1>2, <1>3, <1>4 DEF Next

LEMMA OutcomeHolds == Spec => []OutcomeInv
<1>1. Init => OutcomeInv
  BY InvInit, CommandInit, OutcomeInit DEF OutcomeInv, RInv
<1> QED BY <1>1, OutcomeStep, PTL DEF Spec

\* A step with which the turn of message t is over is one that ends it.
LEMMA TurnEndsInEnd ==
    ASSUME OutcomeInv, [Next]_vars, NEW t \in Messages, at[t] \in InTurn, at'[t] \notin InTurn
    PROVE  \E f \in Fates : EndTurn(t, f) \/ EndDirect(t, f)
<1>0. TypeOK /\ IInv
  BY DEF OutcomeInv, RInv, IInv
<1>1. at'[t] # at[t] /\ at[t] \notin {"unsent", "inbound", "created", "deferred", "queued", "inline",
                                      "lockWait", "gateWait", "done"}
  BY DEF InTurn
<1>2. ~UNCHANGED vars
  BY <1>1 DEF vars
<1>3. ASSUME NEW m \in Messages, Publish(m) \/ CallDirect(m) \/ AbandonDirect(m) PROVE FALSE
  BY <1>0, <1>1, <1>3 DEF Publish, CallDirect, AbandonDirect, Move, TypeOK
<1>4. ASSUME NEW m \in Messages, DropUnbound(m) \/ RunInline(m) \/ Defer(m) \/ RouteFollowUp(m)
                                  \/ CreateTask(m)
      PROVE  FALSE
  <2>1. at[m] = "inbound"
    BY <1>0, <1>4, Consumed DEF DropUnbound, RunInline, Defer, RouteFollowUp, CreateTask
  <2>2. \A n \in Messages : n # m => at'[n] = at[n]
    BY <1>0, <1>4 DEF DropUnbound, RunInline, Defer, RouteFollowUp, CreateTask, Settle, Move, TypeOK
  <2> QED BY <1>1, <2>1, <2>2
<1>5. ASSUME NEW m \in Messages, FinishInline(m) PROVE FALSE
  BY <1>0, <1>1, <1>5, FinishMoves DEF Discarded, Placed
<1>6. ASSUME NEW m \in Messages, Advance(m) PROVE FALSE
  <2>1. at[m] \in {"created", "lockWait", "gateWait"}
    BY <1>0, <1>6 DEF IInv, WaitersQueued, Lists, Advance, Start, AcquireLock, TakeGate
  <2>2. \A n \in Messages : n # m => at'[n] = at[n]
    BY <1>0, <1>6 DEF Advance, Start, AcquireLock, TakeGate, WithLock, BeginTurn, OpenSession, Move,
                      TypeOK
  <2> QED BY <1>1, <2>1, <2>2
<1>7. ASSUME NEW m \in Messages, Drain(m) PROVE FALSE
  BY <1>0, <1>1, <1>7, DrainMoves DEF Placed
<1>8. ASSUME NEW m \in Messages, NEW f \in Fates, EndTurn(m, f) PROVE m = t
  <2>1. t \notin Left(m) \/ at[t] = "queued"
    BY <1>0, <1>8 DEF Left, Placed
  <2> QED BY <1>0, <1>1, <1>8, <2>1, EndMoves
<1>9. ASSUME NEW m \in Messages, NEW f \in Fates, EndDirect(m, f) PROVE m = t
  BY <1>0, <1>1, <1>9 DEF EndDirect, Settle, Move, TypeOK
<1>10. ASSUME NEW m \in Messages, CancelUnstarted(m) PROVE FALSE
  BY <1>0, <1>1, <1>10 DEF CancelUnstarted, Settle, Move, TypeOK
<1>11. ASSUME NEW m \in Messages, CancelWaiting(m) PROVE FALSE
  BY <1>0, <1>1, <1>11, WaitingMoves
<1> QED BY <1>2, <1>3, <1>4, <1>5, <1>6, <1>7, <1>8, <1>9, <1>10, <1>11 DEF Next, RunLoop, End

\* The same for who submitted it: told by EndTurn, or a direct caller, who waits
\* for no coordinator.
LEMMA EndIsReported ==
    ASSUME OutcomeInv, [Next]_vars, NEW t \in Messages, at[t] \in InTurn, at'[t] \notin InTurn
    PROVE  t \notin waiters'
<1>1. PICK f \in Fates : EndTurn(t, f) \/ EndDirect(t, f)
  BY TurnEndsInEnd
<1>2. CASE EndTurn(t, f)
  BY <1>2 DEF EndTurn, StillWaiting
<1>3. CASE EndDirect(t, f)
  BY <1>3 DEF OutcomeInv, WaitersUnsettled, EndDirect, IsDirect, bus
<1> QED BY <1>1, <1>2, <1>3

\* Whoever submitted an automation turn that got to run is told how it ended,
\* answered, failed or cancelled, and none is absorbed or dropped unanswered;
\* only a turn cancelled before it ran may leave its submitter waiting.
THEOREM TurnsReport == Spec => RanTurnsReport
<1>1. OutcomeInv => \A m \in waiters : fate[m] \in {"none", "cancelled"}
  BY DEF OutcomeInv, WaitersUnsettled
<1>2. OutcomeInv /\ [Next]_vars =>
        [\A m \in Messages :
            (at[m] \in InTurn /\ at'[m] \notin InTurn) => m \notin waiters']_vars
  BY EndIsReported
<1> QED BY <1>1, <1>2, OutcomeHolds, PTL DEF Spec, RanTurnsReport

-----------------------------------------------------------------------------
(* What commands leave behind: no turn that /stop could have cancelled, no *)
(* temporary chat that comes back, and no deferred turn without a carrier. *)

\* A /new that is clearing the session of t awaits it.
AwaitedByNew(t) ==
    \E n \in Messages : at[n] = "clearing" /\ SessionOf[n] = SessionOf[t] /\ t \in joining[n]
AwaitedInline(t) == inline # None /\ t \in joining[inline]

\* Whoever can be cancelled is in its session's task set, or whoever took it
\* from there still awaits it; only a /new that is clearing takes itself out.
Tracked ==
    \A t \in Messages : at[t] \in TaskLive /\ ~IsDirect(t) =>
        \/ t \in activeTasks[SessionOf[t]] \/ at[t] = "clearing"
        \/ AwaitedByNew(t) \/ AwaitedInline(t)

\* An inline command has taken all there is, and the run loop adds nothing.
TasksTaken == inline # None => activeTasks[SessionOf[inline]] = {}

\* So nothing cancels a /new that is clearing.
ClearingAlone ==
    \A t \in Messages : at[t] = "clearing" => t \notin cancel /\ t \notin activeTasks[SessionOf[t]]

TaskKinds == \A t \in Messages : at[t] \in TaskLive => KindOf[t] \notin {"stop", "discard"}

\* A cancelled turn of a temporary chat that is gone is being discarded with it,
\* and will not reopen it.
GoneQuietly ==
    \A t \in Messages :
        (SessionOf[t] \in Temporary \ cached /\ t \in cancel /\ at[t] \in InTurn)
            => SessionOf[t] \in discarding

\* Only tasks are in a task set, or cancelled.
TasksAlive ==
    \A t \in Messages : t \in cancel \/ t \in activeTasks[SessionOf[t]] => at[t] \in TaskLive

StopInv == Tracked /\ TasksTaken /\ ClearingAlone /\ TaskKinds /\ GoneQuietly /\ TasksAlive

\* A turn in the session of a deferred one, or an automation turn on its way to
\* it, will publish the deferred one; where the run loop yields, a task that is
\* cancelled before its first step is awaited by a /new that will.
DeferredAreAutomation == \A m \in Messages : at[m] = "deferred" => KindOf[m] = "automation"
UnstartedAwaited ==
    \A t \in Messages : at[t] = "created" /\ t \in cancel /\ ~IsDirect(t) => AwaitedByNew(t)
CarrierInv == DeferredAreAutomation /\ (LoopYields => UnstartedAwaited /\ DeferredHasCarrier)

LEMMA StopInit == Init => StopInv /\ CarrierInv
<1> SUFFICES ASSUME Init PROVE StopInv /\ CarrierInv
  OBVIOUS
<1>1. /\ \A t \in Messages : at[t] = "unsent" /\ SessionOf[t] \in Sessions
      /\ \A t \in Messages : t \notin cancel /\ activeTasks[SessionOf[t]] = {}
      /\ inline = None /\ \A s \in Sessions : deferred[s] = <<>>
  BY MessagesAssumption DEF Init
<1>2. StopInv
  BY <1>1 DEF StopInv, Tracked, TasksTaken, ClearingAlone, TaskKinds, GoneQuietly, TasksAlive,
              TaskLive, HoldLock, InTurn
<1>3. CarrierInv
  BY <1>1 DEF CarrierInv, DeferredAreAutomation, UnstartedAwaited, DeferredHasCarrier
<1> QED BY <1>2, <1>3

\* A step that touches no task set and nobody's await, that makes nobody but a
\* direct caller a task, begins no other turn and cancels nobody else.
LEMMA StopSame ==
    ASSUME RInv, StopInv, UNCHANGED <<activeTasks, joining, inline, cached, discarding>>,
           \A t \in cancel' : t \in cancel \/ (IsDirect(t) /\ at[t] \in TaskLive),
           \A t \in Messages :
              /\ at'[t] \in TaskLive => at[t] \in TaskLive \/ IsDirect(t)
              /\ at[t] \in TaskLive => at'[t] \in TaskLive
              /\ at'[t] \in InTurn => at[t] \in InTurn
              /\ at'[t] = "clearing" <=> at[t] = "clearing"
    PROVE  StopInv'
<1>0. /\ ClearingIsNew /\ Tracked /\ TasksTaken /\ ClearingAlone /\ TaskKinds /\ GoneQuietly /\ TasksAlive
  BY DEF RInv, CommandInv, StopInv
<1>1. \A t \in Messages : (AwaitedByNew(t)' <=> AwaitedByNew(t)) /\ (AwaitedInline(t)' <=> AwaitedInline(t))
  BY DEF AwaitedByNew, AwaitedInline
<1>2. Tracked'
  BY <1>0, <1>1 DEF Tracked, IsDirect
<1>3. TasksTaken'
  BY <1>0 DEF TasksTaken
<1>4. ClearingAlone'
  BY <1>0 DEF ClearingAlone, ClearingIsNew, IsDirect
<1>5. TaskKinds'
  BY <1>0 DEF TaskKinds, IsDirect
<1>6. GoneQuietly'
  <2>1. \A t \in Messages : IsDirect(t) => SessionOf[t] \notin Temporary
    BY MessagesAssumption DEF IsDirect, Commands
  <2> QED BY <1>0, <2>1 DEF GoneQuietly
<1>7. TasksAlive'
  BY <1>0 DEF TasksAlive
<1> QED BY <1>2, <1>3, <1>4, <1>5, <1>6, <1>7 DEF StopInv

LEMMA StopEnvironment ==
    ASSUME RInv, StopInv, NEW m \in Messages, Publish(m) \/ CallDirect(m) \/ AbandonDirect(m)
    PROVE  StopInv'
<1>0. TypeOK /\ at \in [Messages -> Places]
  BY DEF RInv, IInv, TypeOK
<1>1. UNCHANGED <<activeTasks, joining, inline, cached, discarding>>
  BY DEF Publish, CallDirect, AbandonDirect, tasks, store
<1>2. \A t \in cancel' : t \in cancel \/ (IsDirect(t) /\ at[t] \in TaskLive)
  BY DEF Publish, CallDirect, AbandonDirect, tasks
<1>3. \A t \in Messages : at'[t] = at[t]
          \/ (at[t] = "unsent" /\ (at'[t] = "inbound" \/ (at'[t] = "created" /\ IsDirect(t))))
  BY <1>0 DEF Publish, CallDirect, AbandonDirect, Move
<1>4. \A t \in Messages :
          /\ at'[t] \in TaskLive => at[t] \in TaskLive \/ IsDirect(t)
          /\ at[t] \in TaskLive => at'[t] \in TaskLive
          /\ at'[t] \in InTurn => at[t] \in InTurn
          /\ at'[t] = "clearing" <=> at[t] = "clearing"
  BY <1>3 DEF TaskLive, HoldLock, InTurn
<1> QED BY <1>1, <1>2, <1>4, StopSame

LEMMA StopRouting ==
    ASSUME RInv, StopInv, NEW m \in Messages, DropUnbound(m) \/ Defer(m) \/ RouteFollowUp(m)
    PROVE  StopInv'
<1>0. TypeOK /\ IInv /\ at \in [Messages -> Places] /\ at[m] = "inbound"
  BY Consumed DEF RInv, IInv, TypeOK, DropUnbound, Defer, RouteFollowUp
<1>1. UNCHANGED <<activeTasks, joining, inline, cached, discarding, cancel>>
  BY DEF DropUnbound, Defer, RouteFollowUp, tasks, store
<1>2. \A t \in Messages : at'[t] = at[t]
          \/ (at[t] = "inbound" /\ at'[t] \in {"done", "deferred", "queued"})
  BY <1>0 DEF DropUnbound, Defer, RouteFollowUp, Settle, Move
<1>3. \A t \in Messages :
          /\ at'[t] \in TaskLive => at[t] \in TaskLive \/ IsDirect(t)
          /\ at[t] \in TaskLive => at'[t] \in TaskLive
          /\ at'[t] \in InTurn => at[t] \in InTurn
          /\ at'[t] = "clearing" <=> at[t] = "clearing"
  BY <1>2 DEF TaskLive, HoldLock, InTurn
<1> QED BY <1>1, <1>3, StopSame

LEMMA StopDrain ==
    ASSUME RInv, StopInv, NEW m \in Messages, Drain(m)
    PROVE  StopInv'
<1>0. IInv
  BY DEF RInv
<1>1. UNCHANGED <<activeTasks, joining, inline, cached, discarding, cancel>>
  BY DEF Drain, tasks, store
<1>2. \A t \in Messages : at'[t] = at[t] \/ (at[t] = "queued" /\ at'[t] = "done")
  BY <1>0, DrainMoves DEF Placed
<1>3. \A t \in Messages :
          /\ at'[t] \in TaskLive => at[t] \in TaskLive \/ IsDirect(t)
          /\ at[t] \in TaskLive => at'[t] \in TaskLive
          /\ at'[t] \in InTurn => at[t] \in InTurn
          /\ at'[t] = "clearing" <=> at[t] = "clearing"
  BY <1>2 DEF TaskLive, HoldLock, InTurn
<1> QED BY <1>1, <1>3, StopSame

\* A message becomes a task of its session only while no command is executed.
LEMMA StopCreate ==
    ASSUME RInv, StopInv, NEW m \in Messages, CreateTask(m)
    PROVE  StopInv'
<1>0. /\ TypeOK /\ at[m] = "inbound" /\ inline = None /\ SessionOf[m] \in Sessions
      /\ Tracked /\ TasksTaken /\ ClearingAlone /\ TaskKinds /\ GoneQuietly /\ TasksAlive
  BY Consumed, MessagesAssumption DEF RInv, IInv, StopInv, CreateTask, Consume
<1>1. /\ activeTasks' = [activeTasks EXCEPT ![SessionOf[m]] = @ \cup {m}]
      /\ UNCHANGED <<joining, inline, cached, discarding, cancel>>
      /\ KindOf[m] \in {"user", "automation", "new"}
  BY DEF CreateTask, store
<1>2. at'[m] = "created" /\ \A t \in Messages : t # m => at'[t] = at[t]
  BY <1>0 DEF CreateTask, Move, TypeOK
<1>3. /\ m \in activeTasks'[SessionOf[m]]
      /\ \A t \in Messages : t # m /\ t \in activeTasks[SessionOf[t]] => t \in activeTasks'[SessionOf[t]]
      /\ \A t \in Messages : t # m /\ t \notin activeTasks[SessionOf[t]] => t \notin activeTasks'[SessionOf[t]]
  BY <1>0, <1>1, MessagesAssumption DEF TypeOK
<1>4. \A t \in Messages : (AwaitedByNew(t) => AwaitedByNew(t)') /\ ~AwaitedInline(t)
  BY <1>0, <1>1, <1>2 DEF AwaitedByNew, AwaitedInline
<1>5. Tracked'
  BY <1>0, <1>2, <1>3, <1>4 DEF Tracked, IsDirect
<1>6. TasksTaken'
  BY <1>0, <1>1 DEF TasksTaken
<1>7. ClearingAlone'
  BY <1>0, <1>1, <1>2, <1>3 DEF ClearingAlone
<1>8. TaskKinds'
  BY <1>0, <1>1, <1>2 DEF TaskKinds
<1>9. GoneQuietly'
  BY <1>0, <1>1, <1>2 DEF GoneQuietly, InTurn
<1>10. TasksAlive'
  <2>1. "created" \in TaskLive
    BY DEF TaskLive
  <2> QED BY <1>0, <1>1, <1>2, <1>3, <2>1 DEF TasksAlive
<1> QED BY <1>5, <1>6, <1>7, <1>8, <1>9, <1>10 DEF StopInv

\* What a command, inline or in its own turn, cancels it awaits.
LEMMA CancelledAwaited ==
    ASSUME TypeOK, TasksOfSession, NEW m \in Messages, CancelActive(m)
    PROVE  /\ \A t \in Messages : /\ t \in cancel' <=> t \in cancel \/ t \in joining'[m]
                                  /\ t \in joining'[m] <=> t \in activeTasks[SessionOf[m]] /\ t # m
                                  /\ t \in joining'[m] => SessionOf[t] = SessionOf[m]
                                  /\ t # m => joining'[t] = joining[t]
           /\ activeTasks'[SessionOf[m]] = {}
           /\ \A s \in Sessions : s # SessionOf[m] => activeTasks'[s] = activeTasks[s]
<1>1. SessionOf[m] \in Sessions
  BY MessagesAssumption
<1>2. /\ activeTasks' = [activeTasks EXCEPT ![SessionOf[m]] = {}]
      /\ cancel' = cancel \cup (activeTasks[SessionOf[m]] \ {m})
      /\ joining' = [joining EXCEPT ![m] = activeTasks[SessionOf[m]] \ {m}]
  BY DEF CancelActive
<1>3. joining'[m] = activeTasks[SessionOf[m]] \ {m} /\ \A t \in Messages : t # m => joining'[t] = joining[t]
  BY <1>2 DEF TypeOK
<1>4. activeTasks'[SessionOf[m]] = {} /\ \A s \in Sessions : s # SessionOf[m] => activeTasks'[s] = activeTasks[s]
  BY <1>1, <1>2 DEF TypeOK
<1>5. \A t \in activeTasks[SessionOf[m]] : SessionOf[t] = SessionOf[m]
  BY <1>1 DEF TasksOfSession
<1> QED BY <1>2, <1>3, <1>4, <1>5

LEMMA StopRunInline ==
    ASSUME RInv, StopInv, NEW m \in Messages, RunInline(m)
    PROVE  StopInv'
<1>0. /\ TypeOK /\ at[m] = "inbound" /\ inline = None /\ inline' = m /\ SessionOf[m] \in Sessions
      /\ TasksOfSession /\ CancelActive(m) /\ None \notin Messages
      /\ Tracked /\ TasksTaken /\ ClearingAlone /\ TaskKinds /\ GoneQuietly /\ TasksAlive
  BY Consumed, MessagesAssumption DEF RInv, IInv, CommandInv, StopInv, RunInline, Consume
<1>1. at'[m] = "inline" /\ \A t \in Messages : t # m => at'[t] = at[t]
  BY <1>0 DEF RunInline, Move, TypeOK
<1>2. /\ \A t \in Messages : /\ t \in cancel' <=> t \in cancel \/ t \in joining'[m]
                             /\ t \in joining'[m] <=> t \in activeTasks[SessionOf[m]] /\ t # m
                             /\ t \in joining'[m] => SessionOf[t] = SessionOf[m]
                             /\ t # m => joining'[t] = joining[t]
      /\ activeTasks'[SessionOf[m]] = {}
      /\ \A s \in Sessions : s # SessionOf[m] => activeTasks'[s] = activeTasks[s]
  BY <1>0, CancelledAwaited
<1>3. Tracked'
  <2> SUFFICES ASSUME NEW t \in Messages, at'[t] \in TaskLive, ~IsDirect(t)
               PROVE  \/ t \in activeTasks'[SessionOf[t]] \/ at'[t] = "clearing"
                      \/ AwaitedByNew(t)' \/ AwaitedInline(t)'
    BY DEF Tracked, IsDirect
  <2>1. t # m /\ at'[t] = at[t] /\ SessionOf[t] \in Sessions
    BY <1>1, MessagesAssumption DEF TaskLive, HoldLock, InTurn
  <2>2. t \in activeTasks[SessionOf[t]] \/ at[t] = "clearing" \/ AwaitedByNew(t)
    BY <1>0, <2>1 DEF Tracked, AwaitedInline
  <2>3. AwaitedByNew(t) => AwaitedByNew(t)'
    BY <1>0, <1>1, <1>2 DEF AwaitedByNew
  <2>4. t \in activeTasks[SessionOf[t]] => t \in activeTasks'[SessionOf[t]] \/ t \in joining'[m]
    BY <1>2, <2>1
  <2> QED BY <1>0, <2>1, <2>2, <2>3, <2>4 DEF AwaitedInline
<1>4. TasksTaken'
  BY <1>0, <1>2 DEF TasksTaken
<1>5. ClearingAlone'
  <2> SUFFICES ASSUME NEW t \in Messages, at'[t] = "clearing"
               PROVE  t \notin cancel' /\ t \notin activeTasks'[SessionOf[t]]
    BY DEF ClearingAlone
  <2>1. at[t] = "clearing" /\ t # m /\ SessionOf[t] \in Sessions
    BY <1>1, MessagesAssumption
  <2>2. t \notin cancel /\ t \notin activeTasks[SessionOf[t]]
    BY <1>0, <2>1 DEF ClearingAlone
  <2> QED BY <1>2, <2>1, <2>2
<1>6. TaskKinds'
  BY <1>0, <1>1 DEF TaskKinds, TaskLive, HoldLock, InTurn
<1>7. GoneQuietly'
  <2> SUFFICES ASSUME NEW t \in Messages, SessionOf[t] \in Temporary \ cached',
                      t \in cancel', at'[t] \in InTurn
               PROVE  SessionOf[t] \in discarding'
    BY DEF GoneQuietly
  <2>1. at[t] \in InTurn
    BY <1>1 DEF InTurn
  <2>2. CASE KindOf[m] = "discard"
    <3>1. discarding' = discarding \cup {SessionOf[m]} /\ cached' = cached \ {SessionOf[m]}
      BY <2>2 DEF RunInline
    <3> QED BY <1>0, <1>2, <2>1, <3>1 DEF GoneQuietly
  <2>3. CASE KindOf[m] # "discard"
    <3>1. UNCHANGED <<cached, discarding>> /\ Passes(m)
      BY <2>3 DEF RunInline, store
    <3>2. SessionOf[m] \notin Temporary \ cached
      BY <2>3, <3>1 DEF Passes, Requires
    <3> QED BY <1>0, <1>2, <2>1, <3>1, <3>2 DEF GoneQuietly
  <2> QED BY <2>2, <2>3
<1>8. TasksAlive'
  <2> SUFFICES ASSUME NEW t \in Messages, t \in cancel' \/ t \in activeTasks'[SessionOf[t]]
               PROVE  at'[t] \in TaskLive
    BY DEF TasksAlive
  <2>1. t \in cancel \/ t \in activeTasks[SessionOf[t]]
    BY <1>2, MessagesAssumption
  <2>2. at[t] \in TaskLive
    BY <1>0, <2>1 DEF TasksAlive
  <2> QED BY <1>0, <1>1, <2>2 DEF TaskLive, HoldLock, InTurn
<1> QED BY <1>3, <1>4, <1>5, <1>6, <1>7, <1>8 DEF StopInv

\* Behind the last of what an inline command awaits, no turn of its session runs
\* that was cancelled, nor any other that could be.
LEMMA NoneLeft ==
    ASSUME RInv, StopInv, NEW m \in Messages, inline = m, AllEnded(m),
           NEW t \in Messages, at[t] \in TaskLive, SessionOf[t] = SessionOf[m], ~IsDirect(t)
    PROVE  at[t] = "clearing" \/ AwaitedByNew(t)
<1>1. Tracked /\ TasksTaken /\ None \notin Messages
  BY MessagesAssumption DEF StopInv
<1>2. t \notin activeTasks[SessionOf[t]]
  BY <1>1 DEF TasksTaken
<1>3. ~AwaitedInline(t)
  BY DEF AwaitedInline, AllEnded, TaskLive, HoldLock, InTurn
<1> QED BY <1>1, <1>2, <1>3 DEF Tracked

\* Two turns of a session are one turn.
LEMMA OneTurn ==
    ASSUME RInv, NEW t \in Messages, NEW n \in Messages, at[t] \in InTurn, at[n] \in InTurn,
           SessionOf[t] = SessionOf[n]
    PROVE  t = n
<1>1. LockInv
  BY DEF RInv, IInv
<1>2. lock[SessionOf[t]] = t /\ lock[SessionOf[t]] = n
  BY <1>1, MessagesAssumption DEF LockInv, HoldLock
<1> QED BY <1>2

\* So no cancelled turn of that session is left.
LEMMA NoneCancelled ==
    ASSUME RInv, StopInv, NEW m \in Messages, inline = m, AllEnded(m),
           NEW t \in Messages, at[t] \in InTurn, SessionOf[t] = SessionOf[m], ~IsDirect(t)
    PROVE  t \notin cancel
<1>1. at[t] = "clearing" \/ AwaitedByNew(t)
  BY NoneLeft DEF TaskLive, HoldLock
<1>2. AwaitedByNew(t) => at[t] = "clearing"
  BY OneTurn DEF AwaitedByNew, InTurn
<1> QED BY <1>1, <1>2 DEF StopInv, ClearingAlone

LEMMA StopFinish ==
    ASSUME RInv, StopInv, NEW m \in Messages, FinishInline(m)
    PROVE  StopInv'
<1> DEFINE s == SessionOf[m]
<1>0. /\ TypeOK /\ IInv /\ inline = m /\ inline' = None /\ AllEnded(m) /\ s \in Sessions
      /\ Tracked /\ TasksTaken /\ ClearingAlone /\ TaskKinds /\ GoneQuietly /\ TasksAlive
  BY MessagesAssumption DEF RInv, IInv, StopInv, FinishInline
<1>1. /\ at[m] = "inline"
      /\ \A t \in Messages : at'[t] = at[t] \/ (at[t] \in {"inline", "queued"} /\ at'[t] = "done")
  BY <1>0, FinishMoves DEF Discarded, Placed
<1>2. /\ UNCHANGED <<cancel, activeTasks>>
      /\ cached \ {s} \subseteq cached' /\ discarding \ {s} \subseteq discarding'
      /\ joining' = [joining EXCEPT ![m] = {}]
  BY DEF FinishInline
<1>3. \A n \in Messages : n # m => joining'[n] = joining[n]
  BY <1>0, <1>2 DEF TypeOK
<1>4. \A t \in Messages : /\ at'[t] \in TaskLive <=> at[t] \in TaskLive
                          /\ at'[t] \in InTurn <=> at[t] \in InTurn
                          /\ at'[t] = "clearing" <=> at[t] = "clearing"
  BY <1>1 DEF TaskLive, HoldLock, InTurn
<1>5. \A t \in Messages : AwaitedByNew(t) => AwaitedByNew(t)'
  BY <1>1, <1>3, <1>4 DEF AwaitedByNew
<1>6. Tracked'
  <2> SUFFICES ASSUME NEW t \in Messages, at'[t] \in TaskLive, ~IsDirect(t)
               PROVE  \/ t \in activeTasks'[SessionOf[t]] \/ at'[t] = "clearing"
                      \/ AwaitedByNew(t)' \/ AwaitedInline(t)'
    BY DEF Tracked, IsDirect
  <2>1. ~AwaitedInline(t)
    BY <1>0, <1>4 DEF AwaitedInline, AllEnded, TaskLive, HoldLock, InTurn
  <2> QED BY <1>0, <1>2, <1>4, <1>5, <2>1 DEF Tracked
<1>7. TasksTaken'
  BY <1>0 DEF TasksTaken
<1>8. ClearingAlone'
  BY <1>0, <1>2, <1>4 DEF ClearingAlone
<1>9. TaskKinds' /\ TasksAlive'
  BY <1>0, <1>2, <1>4 DEF TaskKinds, TasksAlive
<1>10. GoneQuietly'
  <2> SUFFICES ASSUME NEW t \in Messages, SessionOf[t] \in Temporary \ cached',
                      t \in cancel', at'[t] \in InTurn
               PROVE  SessionOf[t] \in discarding'
    BY DEF GoneQuietly
  <2>1. at[t] \in InTurn /\ t \in cancel
    BY <1>2, <1>4
  <2>2. ~IsDirect(t)
    BY MessagesAssumption DEF IsDirect, Commands
  <2>3. SessionOf[t] # s
    BY <1>0, <2>1, <2>2, NoneCancelled
  <2>4. SessionOf[t] \in Temporary \ cached
    BY <1>2, <2>3
  <2> QED BY <1>0, <1>2, <2>1, <2>3, <2>4 DEF GoneQuietly
<1> QED BY <1>6, <1>7, <1>8, <1>9, <1>10 DEF StopInv

\* A turn that begins cancels nobody, or it is /new and awaits whom it cancels.
LEMMA BeginCancels ==
    ASSUME RInv, NEW m \in Messages, BeginTurn(m)
    PROVE  /\ at'[m] \in InTurn /\ \A t \in Messages : t # m => at'[t] = at[t]
           /\ cached \subseteq cached'
           /\ \/ at'[m] # "clearing" /\ UNCHANGED <<cancel, activeTasks, joining>>
              \/ at'[m] = "clearing" /\ CancelActive(m) /\ SessionOf[m] \in cached'
<1>0. at \in [Messages -> Places]
  BY DEF RInv, IInv, TypeOK
<1>1. OpenSession(m)
  BY DEF BeginTurn
<1>2. at'[m] \in InTurn /\ \A t \in Messages : t # m => at'[t] = at[t]
  BY <1>0, <1>1 DEF OpenSession, Move, InTurn
<1>3. cached \subseteq cached'
  BY <1>1 DEF OpenSession
<1> DEFINE missing == Requires(m) /\ SessionOf[m] \notin cached
<1>4. CASE KindOf[m] = "new" /\ ~missing
  <2>1. at'[m] = "clearing" /\ CancelActive(m) /\ SessionOf[m] \in cached'
    BY <1>0, <1>1, <1>4 DEF OpenSession, Move
  <2> QED BY <1>2, <1>3, <2>1
<1>5. CASE ~(KindOf[m] = "new" /\ ~missing)
  <2>1. UNCHANGED <<cancel, activeTasks, joining>>
    BY <1>1, <1>5 DEF OpenSession
  <2>2. at'[m] # "clearing"
    BY <1>0, <1>1, <1>5 DEF OpenSession, Move
  <2> QED BY <1>2, <1>3, <2>1, <2>2
<1> QED BY <1>4, <1>5

LEMMA StopBegin ==
    ASSUME RInv, StopInv, NEW m \in Messages, BeginTurn(m), m \notin cancel,
           at[m] \in {"created", "lockWait", "gateWait"}, UNCHANGED <<inline, discarding>>
    PROVE  StopInv'
<1> DEFINE s == SessionOf[m]
<1>0. /\ TypeOK /\ InlineInv /\ s \in Sessions /\ TasksOfSession /\ None \notin Messages
      /\ Tracked /\ TasksTaken /\ ClearingAlone /\ TaskKinds /\ GoneQuietly /\ TasksAlive
  BY MessagesAssumption DEF RInv, IInv, CommandInv, StopInv
<1>1. /\ at'[m] \in InTurn /\ \A t \in Messages : t # m => at'[t] = at[t]
      /\ cached \subseteq cached'
  BY BeginCancels
<1>2. at[m] \in TaskLive /\ at[m] # "clearing" /\ inline # m
  BY <1>0 DEF TaskLive, HoldLock, InlineInv
<1>3. inline # None => inline \in Messages
  BY <1>0 DEF TypeOK
<1>4. TaskKinds'
  BY <1>0, <1>1, <1>2 DEF TaskKinds
<1>5. CASE at'[m] # "clearing" /\ UNCHANGED <<cancel, activeTasks, joining>>
  <2>1. \A t \in Messages : /\ AwaitedByNew(t) => AwaitedByNew(t)'
                            /\ AwaitedInline(t) => AwaitedInline(t)'
    BY <1>1, <1>2, <1>5 DEF AwaitedByNew, AwaitedInline
  <2>2. Tracked'
    BY <1>0, <1>1, <1>2, <1>5, <2>1 DEF Tracked, IsDirect
  <2>3. TasksTaken' /\ ClearingAlone'
    BY <1>0, <1>1, <1>5 DEF TasksTaken, ClearingAlone
  <2>4. GoneQuietly'
    BY <1>0, <1>1, <1>5 DEF GoneQuietly
  <2>5. TasksAlive'
    BY <1>0, <1>1, <1>5 DEF TasksAlive, TaskLive, HoldLock
  <2> QED BY <1>4, <2>2, <2>3, <2>4, <2>5 DEF StopInv
<1>6. CASE at'[m] = "clearing" /\ CancelActive(m) /\ SessionOf[m] \in cached'
  <2>1. /\ \A t \in Messages : /\ t \in cancel' <=> t \in cancel \/ t \in joining'[m]
                               /\ t \in joining'[m] <=> t \in activeTasks[SessionOf[m]] /\ t # m
                               /\ t \in joining'[m] => SessionOf[t] = SessionOf[m]
                               /\ t # m => joining'[t] = joining[t]
        /\ activeTasks'[SessionOf[m]] = {}
        /\ \A r \in Sessions : r # SessionOf[m] => activeTasks'[r] = activeTasks[r]
    BY <1>0, <1>6, CancelledAwaited
  <2>2. \A t \in Messages : /\ AwaitedByNew(t) => AwaitedByNew(t)'
                            /\ AwaitedInline(t) => AwaitedInline(t)'
    BY <1>1, <1>2, <1>3, <2>1 DEF AwaitedByNew, AwaitedInline
  <2>3. Tracked'
    <3> SUFFICES ASSUME NEW t \in Messages, at'[t] \in TaskLive, ~IsDirect(t)
                 PROVE  \/ t \in activeTasks'[SessionOf[t]] \/ at'[t] = "clearing"
                        \/ AwaitedByNew(t)' \/ AwaitedInline(t)'
      BY DEF Tracked, IsDirect
    <3>1. CASE t = m
      BY <1>6, <3>1
    <3>2. CASE t # m
      <4>1. t \in activeTasks[SessionOf[t]] \/ at[t] = "clearing" \/ AwaitedByNew(t) \/ AwaitedInline(t)
        BY <1>0, <1>1, <3>2 DEF Tracked
      <4>2. CASE t \in activeTasks[SessionOf[t]] /\ SessionOf[t] = s
        <5>1. t \in joining'[m]
          BY <2>1, <3>2, <4>2
        <5> QED BY <1>6, <4>2, <5>1 DEF AwaitedByNew
      <4>3. CASE t \in activeTasks[SessionOf[t]] /\ SessionOf[t] # s
        BY <2>1, <4>3, MessagesAssumption
      <4> QED BY <1>1, <2>2, <3>2, <4>1, <4>2, <4>3
    <3> QED BY <3>1, <3>2
  <2>4. TasksTaken'
    BY <1>0, <1>3, <2>1, MessagesAssumption DEF TasksTaken
  <2>5. ClearingAlone'
    <3> SUFFICES ASSUME NEW t \in Messages, at'[t] = "clearing"
                 PROVE  t \notin cancel' /\ t \notin activeTasks'[SessionOf[t]]
      BY DEF ClearingAlone
    <3>1. CASE t = m
      BY <2>1, <3>1
    <3>2. CASE t # m
      <4>1. t \notin cancel /\ t \notin activeTasks[SessionOf[t]]
        BY <1>0, <1>1, <3>2 DEF ClearingAlone
      <4> QED BY <2>1, <4>1, MessagesAssumption
    <3> QED BY <3>1, <3>2
  <2>6. GoneQuietly'
    <3> SUFFICES ASSUME NEW t \in Messages, SessionOf[t] \in Temporary \ cached',
                        t \in cancel', at'[t] \in InTurn
                 PROVE  SessionOf[t] \in discarding'
      BY DEF GoneQuietly
    <3>1. SessionOf[t] # s /\ SessionOf[t] \in Temporary \ cached /\ t # m
      BY <1>1, <1>6
    <3>2. t \in cancel /\ at[t] \in InTurn
      BY <1>1, <2>1, <3>1
    <3> QED BY <1>0, <3>1, <3>2 DEF GoneQuietly
  <2>7. TasksAlive'
    <3> SUFFICES ASSUME NEW t \in Messages, t \in cancel' \/ t \in activeTasks'[SessionOf[t]]
                 PROVE  at'[t] \in TaskLive
      BY DEF TasksAlive
    <3>1. t \in cancel \/ t \in activeTasks[SessionOf[t]]
      BY <2>1, MessagesAssumption
    <3>2. at[t] \in TaskLive
      BY <1>0, <3>1 DEF TasksAlive
    <3> QED BY <1>1, <3>2 DEF TaskLive, HoldLock
  <2> QED BY <1>4, <2>3, <2>4, <2>5, <2>6, <2>7 DEF StopInv
<1> QED BY <1>5, <1>6, BeginCancels

\* A task starts, or is woken: it begins its turn or waits on.
LEMMA AdvanceBegins ==
    ASSUME NEW m \in Messages, Advance(m)
    PROVE  /\ m \notin cancel /\ at[m] \in {"created", "lockWait", "gateWait"}
           /\ UNCHANGED <<fate, bus, pending, inline, discarding>>
           /\ \/ BeginTurn(m)
              \/ \E p \in {"lockWait", "gateWait"} : Move(m, p)
                    /\ UNCHANGED <<cached, cancel, activeTasks, joining>>
<1>1. CASE Start(m)
  BY <1>1 DEF Start, WithLock
<1>2. CASE AcquireLock(m)
  BY <1>2 DEF AcquireLock, WithLock
<1>3. CASE TakeGate(m)
  BY <1>3 DEF TakeGate
<1> QED BY <1>1, <1>2, <1>3 DEF Advance

LEMMA StopAdvance ==
    ASSUME RInv, StopInv, NEW m \in Messages, Advance(m)
    PROVE  StopInv'
<1>0. at \in [Messages -> Places]
  BY DEF RInv, IInv, TypeOK
<1>1. /\ m \notin cancel /\ at[m] \in {"created", "lockWait", "gateWait"}
      /\ UNCHANGED <<inline, discarding>>
      /\ \/ BeginTurn(m)
         \/ \E p \in {"lockWait", "gateWait"} : Move(m, p)
               /\ UNCHANGED <<cached, cancel, activeTasks, joining>>
  BY AdvanceBegins
<1>2. ASSUME NEW p \in {"lockWait", "gateWait"}, Move(m, p),
             UNCHANGED <<cached, cancel, activeTasks, joining>>
      PROVE  StopInv'
  <2>1. at'[m] = p /\ \A t \in Messages : t # m => at'[t] = at[t]
    BY <1>0, <1>2 DEF Move
  <2>2. \A t \in Messages :
          /\ at'[t] \in TaskLive => at[t] \in TaskLive \/ IsDirect(t)
          /\ at[t] \in TaskLive => at'[t] \in TaskLive
          /\ at'[t] \in InTurn => at[t] \in InTurn
          /\ at'[t] = "clearing" <=> at[t] = "clearing"
    BY <1>1, <2>1 DEF TaskLive, HoldLock, InTurn
  <2> QED BY <1>1, <1>2, <2>2, StopSame
<1> QED BY <1>1, <1>2, StopBegin

\* A task that ends is awaited by nobody who could miss it, and a /new awaits
\* all it cancelled before it ends.
LEMMA StopLeaves ==
    ASSUME RInv, StopInv, NEW m \in Messages, at[m] \in TaskLive, at'[m] = "done", TaskDone(m),
           \A t \in Messages : t # m =>
              at'[t] = at[t] \/ (at[t] \in {"queued", "deferred"} /\ at'[t] = "inbound"),
           \A n \in Messages : n # m => joining'[n] = joining[n],
           at[m] = "clearing" => AllEnded(m), UNCHANGED discarding,
           \A s \in cached : s \notin cached' => s = SessionOf[m] /\ at[m] \in InTurn
    PROVE  StopInv'
<1>0. /\ TypeOK /\ InlineInv /\ SessionOf[m] \in Sessions /\ None \notin Messages
      /\ Tracked /\ TasksTaken /\ ClearingAlone /\ TaskKinds /\ GoneQuietly /\ TasksAlive
  BY MessagesAssumption DEF RInv, IInv, StopInv
<1>1. /\ cancel' = cancel \ {m} /\ UNCHANGED inline
      /\ activeTasks' = [activeTasks EXCEPT ![SessionOf[m]] = @ \ {m}]
  BY DEF TaskDone
<1>2. /\ activeTasks'[SessionOf[m]] = activeTasks[SessionOf[m]] \ {m}
      /\ \A s \in Sessions : s # SessionOf[m] => activeTasks'[s] = activeTasks[s]
  BY <1>0, <1>1 DEF TypeOK
<1>3. \A t \in Messages : t # m =>
         (t \in activeTasks'[SessionOf[t]] <=> t \in activeTasks[SessionOf[t]])
  BY <1>2, MessagesAssumption
<1>4. m \notin activeTasks'[SessionOf[m]]
  BY <1>2
<1>5. \A t \in Messages : t # m => /\ at'[t] \in TaskLive <=> at[t] \in TaskLive
                                   /\ at'[t] \in InTurn <=> at[t] \in InTurn
                                   /\ at'[t] = "clearing" <=> at[t] = "clearing"
  BY DEF TaskLive, HoldLock, InTurn
<1>6. at'[m] \notin TaskLive /\ at'[m] \notin InTurn
  BY DEF TaskLive, HoldLock, InTurn
<1>7. \A t \in Messages : at[t] \in TaskLive /\ AwaitedByNew(t) => AwaitedByNew(t)'
  <2> SUFFICES ASSUME NEW t \in Messages, at[t] \in TaskLive,
                      NEW n \in Messages, at[n] = "clearing", SessionOf[n] = SessionOf[t],
                      t \in joining[n]
               PROVE  AwaitedByNew(t)'
    BY DEF AwaitedByNew
  <2>1. n # m
    BY DEF AllEnded, TaskLive, HoldLock, InTurn
  <2> QED BY <1>5, <2>1 DEF AwaitedByNew
<1>8. \A t : AwaitedInline(t) => AwaitedInline(t)'
  <2>1. inline # None => inline \in Messages /\ inline # m
    BY <1>0 DEF TypeOK, InlineInv, TaskLive, HoldLock, InTurn
  <2> QED BY <1>1, <2>1 DEF AwaitedInline
<1>9. Tracked'
  <2> SUFFICES ASSUME NEW t \in Messages, at'[t] \in TaskLive, ~IsDirect(t)
               PROVE  \/ t \in activeTasks'[SessionOf[t]] \/ at'[t] = "clearing"
                      \/ AwaitedByNew(t)' \/ AwaitedInline(t)'
    BY DEF Tracked, IsDirect
  <2>1. t # m /\ at[t] \in TaskLive
    BY <1>5, <1>6
  <2> QED BY <1>0, <1>3, <1>5, <1>7, <1>8, <2>1 DEF Tracked
<1>10. TasksTaken'
  <2>1. inline # None => SessionOf[inline] \in Sessions
    BY <1>0, MessagesAssumption DEF TypeOK
  <2> QED BY <1>0, <1>1, <1>2, <2>1 DEF TasksTaken
<1>11. ClearingAlone'
  BY <1>0, <1>1, <1>3, <1>4, <1>5 DEF ClearingAlone
<1>12. TaskKinds'
  BY <1>0, <1>5, <1>6 DEF TaskKinds
<1>13. GoneQuietly'
  <2> SUFFICES ASSUME NEW t \in Messages, SessionOf[t] \in Temporary \ cached',
                      t \in cancel', at'[t] \in InTurn
               PROVE  SessionOf[t] \in discarding'
    BY DEF GoneQuietly
  <2>1. t # m /\ at[t] \in InTurn /\ t \in cancel
    BY <1>1, <1>5, <1>6
  <2>2. SessionOf[t] \notin cached
    BY <2>1, OneTurn
  <2> QED BY <1>0, <2>1, <2>2 DEF GoneQuietly
<1>14. TasksAlive'
  BY <1>0, <1>1, <1>3, <1>4, <1>5 DEF TasksAlive
<1> QED BY <1>9, <1>10, <1>11, <1>12, <1>13, <1>14 DEF StopInv

LEMMA StopEnd ==
    ASSUME RInv, StopInv, NEW m \in Messages, End(m)
    PROVE  StopInv'
<1>0. TypeOK /\ IInv
  BY DEF RInv, IInv
<1>1. ASSUME NEW f \in Fates, EndTurn(m, f) PROVE StopInv'
  <2>1. /\ at[m] \in InTurn /\ at[m] \in TaskLive /\ at'[m] = "done"
        /\ \A t \in Messages : t # m =>
              at'[t] = at[t] \/ (at[t] \in {"queued", "deferred"} /\ at'[t] = "inbound")
    BY <1>0, <1>1, EndMoves DEF Left, Placed, TaskLive, HoldLock
  <2>2. TaskDone(m) /\ AllEnded(m) /\ UNCHANGED discarding /\ cached' = CacheAfter(m, f)
    BY <1>1 DEF EndTurn
  <2>3. \A n \in Messages : n # m => joining'[n] = joining[n]
    BY <1>0, <1>1 DEF EndTurn, TypeOK
  <2>4. \A s \in cached : s \notin cached' => s = SessionOf[m]
    BY <2>2 DEF CacheAfter
  <2> QED BY <2>1, <2>2, <2>3, <2>4, StopLeaves
<1>2. ASSUME NEW f \in Fates, EndDirect(m, f) PROVE StopInv'
  <2>1. /\ at[m] = "turn" /\ at[m] \in TaskLive /\ at'[m] = "done"
        /\ \A t \in Messages : t # m => at'[t] = at[t]
    BY <1>0, <1>2 DEF EndDirect, Settle, Move, TypeOK, TaskLive, HoldLock, InTurn
  <2>2. TaskDone(m) /\ UNCHANGED <<joining, cached, discarding>>
    BY <1>2 DEF EndDirect, store
  <2> QED BY <2>1, <2>2, StopLeaves
<1>3. CASE CancelUnstarted(m)
  <2>1. /\ at[m] = "created" /\ at[m] \in TaskLive /\ at'[m] = "done"
        /\ \A t \in Messages : t # m => at'[t] = at[t]
    BY <1>0, <1>3 DEF CancelUnstarted, Settle, Move, TypeOK, TaskLive
  <2>2. TaskDone(m) /\ UNCHANGED <<joining, cached, discarding>>
    BY <1>3 DEF CancelUnstarted, store
  <2> QED BY <2>1, <2>2, StopLeaves
<1>4. CASE CancelWaiting(m)
  <2>1. /\ at[m] \in {"lockWait", "gateWait"} /\ at'[m] = "done"
        /\ \A t \in Messages : t # m =>
              at'[t] = at[t] \/ (at[t] = "deferred" /\ at'[t] = "inbound")
    BY <1>0, <1>4, WaitingMoves
  <2>2. at[m] \in TaskLive /\ at[m] # "clearing"
    BY <2>1 DEF TaskLive, HoldLock
  <2>3. TaskDone(m) /\ UNCHANGED <<joining, cached, discarding>>
    BY <1>4 DEF CancelWaiting, store
  <2> QED BY <2>1, <2>2, <2>3, StopLeaves
<1> QED BY <1>1, <1>2, <1>3, <1>4 DEF End

LEMMA StopStep == RInv /\ StopInv /\ [Next]_vars => StopInv'
<1> SUFFICES ASSUME RInv, StopInv, [Next]_vars PROVE StopInv'
  OBVIOUS
<1>1. CASE UNCHANGED vars
  BY <1>1, StopSame DEF vars, tasks, store
<1>2. ASSUME NEW m \in Messages, Publish(m) \/ CallDirect(m) \/ AbandonDirect(m)
             \/ Advance(m) \/ Drain(m) \/ End(m)
      PROVE  StopInv'
  BY <1>2, StopEnvironment, StopAdvance, StopDrain, StopEnd
<1>3. ASSUME NEW m \in Messages, DropUnbound(m) \/ RunInline(m) \/ FinishInline(m)
             \/ Defer(m) \/ RouteFollowUp(m) \/ CreateTask(m)
      PROVE  StopInv'
  BY <1>3, StopRouting, StopRunInline, StopFinish, StopCreate
<1> QED BY <1>1, <1>2, <1>3 DEF Next, RunLoop

LEMMA StopHolds == Spec => [](RInv /\ StopInv)
<1>1. Init => RInv /\ StopInv
  BY InvInit, CommandInit, StopInit DEF RInv
<1>2. RInv /\ StopInv /\ [Next]_vars => (RInv /\ StopInv)'
  BY InvStep, CommandStep, StopStep DEF RInv
<1> QED BY <1>1, <1>2, PTL DEF Spec

\* Only the end of an inline command leaves none behind.
LEMMA InlineEnds ==
    ASSUME [Next]_vars, inline # None, inline' = None, None \notin Messages
    PROVE  FinishInline(inline)
<1>1. CASE UNCHANGED vars
  BY <1>1 DEF vars, tasks
<1>2. ASSUME NEW m \in Messages, Publish(m) \/ CallDirect(m) \/ AbandonDirect(m)
      PROVE  inline' = inline
  BY <1>2 DEF Publish, CallDirect, AbandonDirect, tasks
<1>3. ASSUME NEW m \in Messages, Advance(m) \/ Drain(m)
      PROVE  inline' = inline
  BY <1>3, AdvanceBegins DEF Drain, tasks
<1>4. ASSUME NEW m \in Messages, End(m)
      PROVE  inline' = inline
  BY <1>4 DEF End, EndTurn, EndDirect, CancelUnstarted, CancelWaiting, TaskDone
<1>5. ASSUME NEW m \in Messages, DropUnbound(m) \/ RunInline(m) \/ Defer(m)
             \/ RouteFollowUp(m) \/ CreateTask(m)
      PROVE  FALSE
  BY <1>5 DEF DropUnbound, RunInline, Defer, RouteFollowUp, CreateTask, Consume
<1>6. \A m \in Messages : FinishInline(m) => inline = m
  BY DEF FinishInline
<1> QED BY <1>1, <1>2, <1>3, <1>4, <1>5, <1>6 DEF Next, RunLoop

\* When /stop, an inline /new or the discard control reports back, no turn it
\* could have cancelled is left, whatever was queued or started meanwhile.
THEOREM StopIsComplete == Spec => StopLeavesNoTurn
<1>1. ASSUME RInv, StopInv, [Next]_vars
      PROVE  (inline # None /\ inline' = None) =>
          \A m \in Messages :
             (SessionOf[m] = SessionOf[inline] /\ at[m] \in TaskLive) =>
                \/ IsDirect(m) \/ at[m] = "clearing"
                \/ \E n \in Messages : at[n] = "clearing" /\ m \in joining[n]
  <2> SUFFICES ASSUME inline # None, inline' = None, NEW m \in Messages,
                      SessionOf[m] = SessionOf[inline], at[m] \in TaskLive, ~IsDirect(m)
               PROVE  at[m] = "clearing"
                      \/ \E n \in Messages : at[n] = "clearing" /\ m \in joining[n]
    OBVIOUS
  <2>1. inline \in Messages /\ None \notin Messages
    BY <1>1, MessagesAssumption DEF RInv, IInv, TypeOK
  <2>2. FinishInline(inline)
    BY <1>1, <2>1, InlineEnds
  <2>3. AllEnded(inline)
    BY <2>2 DEF FinishInline
  <2>4. at[m] = "clearing" \/ AwaitedByNew(m)
    BY <1>1, <2>1, <2>3, NoneLeft
  <2> QED BY <2>4 DEF AwaitedByNew
<1> QED BY <1>1, StopHolds, PTL DEF Spec, StopLeavesNoTurn

\* No turn, clean-up or follow-up of a discarded temporary chat opens it again.
LEMMA GoneStays ==
    ASSUME RInv, StopInv, [Next]_vars, NEW s \in Temporary, s \notin cached
    PROVE  s \notin cached'
<1>0. GoneQuietly /\ TaskKinds
  BY DEF StopInv
<1>1. CASE UNCHANGED vars
  BY <1>1 DEF vars, store
<1>2. ASSUME NEW m \in Messages, Publish(m) \/ CallDirect(m) \/ AbandonDirect(m) \/ Drain(m)
      PROVE  s \notin cached'
  BY <1>2 DEF Publish, CallDirect, AbandonDirect, Drain, store
<1>3. ASSUME NEW m \in Messages, DropUnbound(m) \/ RunInline(m) \/ FinishInline(m)
             \/ Defer(m) \/ RouteFollowUp(m) \/ CreateTask(m)
      PROVE  s \notin cached'
  BY <1>3 DEF DropUnbound, RunInline, FinishInline, Defer, RouteFollowUp, CreateTask, store
<1>4. ASSUME NEW m \in Messages, Advance(m) PROVE s \notin cached'
  <2>1. at[m] \in TaskLive
    BY <1>4, AdvanceBegins DEF TaskLive, HoldLock
  <2>2. SessionOf[m] = s => Requires(m)
    BY <1>0, <2>1 DEF TaskKinds, Requires
  <2>3. BeginTurn(m) \/ UNCHANGED cached
    BY <1>4, AdvanceBegins
  <2> QED BY <2>2, <2>3 DEF BeginTurn, OpenSession
<1>5. ASSUME NEW m \in Messages, NEW f \in Fates, EndTurn(m, f) PROVE s \notin cached'
  <2>1. cached' = CacheAfter(m, f) /\ at[m] \in InTurn /\ (f = "cancelled" => m \in cancel)
    BY <1>5 DEF EndTurn
  <2>2. SessionOf[m] = s /\ f = "cancelled" => s \in discarding
    BY <1>0, <2>1 DEF GoneQuietly
  <2> QED BY <2>1, <2>2 DEF CacheAfter
<1>6. ASSUME NEW m \in Messages, End(m) PROVE s \notin cached'
  BY <1>5, <1>6 DEF End, EndDirect, CancelUnstarted, CancelWaiting, store
<1> QED BY <1>1, <1>2, <1>3, <1>4, <1>6 DEF Next, RunLoop

\* A temporary chat discarded from the session cache never comes back: neither
\* a late write of a turn nor the clean-up after /stop re-creates its session.
THEOREM DiscardedStaysGone == Spec => TemporaryStaysGone
<1>1. RInv /\ StopInv /\ [Next]_vars => \A s \in Temporary : s \notin cached => s \notin cached'
  BY GoneStays
<1> QED BY <1>1, StopHolds, PTL DEF Spec, TemporaryStaysGone

-----------------------------------------------------------------------------
(* Deferred automation turns have a carrier.                                *)

\* What carries the deferred turns of its session.
Carries(t) == ~IsDirect(t) /\ (at[t] \in TaskLive \/ (at[t] = "inbound" /\ KindOf[t] = "automation"))

\* A step that defers nobody, stops nobody from carrying, creates no task that
\* is cancelled already and ends no /new.
LEMMA CarrierSame ==
    ASSUME CarrierInv, UNCHANGED deferred,
           \A t \in Messages : /\ Carries(t) => Carries(t)'
                               /\ at'[t] = "deferred" => at[t] = "deferred"
                               /\ (at'[t] = "created" /\ t \in cancel' /\ ~IsDirect(t))
                                     => (at[t] = "created" /\ t \in cancel) \/ AwaitedByNew(t)'
                               /\ AwaitedByNew(t) => AwaitedByNew(t)'
    PROVE  CarrierInv'
<1>1. DeferredAreAutomation /\ (LoopYields => UnstartedAwaited /\ DeferredHasCarrier)
  BY DEF CarrierInv
<1>2. DeferredAreAutomation'
  BY <1>1 DEF DeferredAreAutomation
<1>3. ASSUME LoopYields PROVE UnstartedAwaited'
  BY <1>1, <1>3 DEF UnstartedAwaited, IsDirect
<1>4. ASSUME LoopYields PROVE DeferredHasCarrier'
  BY <1>1, <1>4 DEF DeferredHasCarrier, Carrier, Carries, IsDirect
<1> QED BY <1>2, <1>3, <1>4 DEF CarrierInv

LEMMA CarrierEnvironment ==
    ASSUME RInv, CarrierInv, NEW m \in Messages, Publish(m) \/ CallDirect(m) \/ AbandonDirect(m)
    PROVE  CarrierInv'
<1>0. at \in [Messages -> Places]
  BY DEF RInv, IInv, TypeOK
<1>1. UNCHANGED <<deferred, joining>>
  BY DEF Publish, CallDirect, AbandonDirect, bus, tasks
<1>2. \A t \in Messages : at'[t] = at[t]
          \/ (at[t] = "unsent" /\ (at'[t] = "inbound" \/ (at'[t] = "created" /\ IsDirect(t))))
  BY <1>0 DEF Publish, CallDirect, AbandonDirect, Move
<1>3. \A t \in cancel' : t \in cancel \/ IsDirect(t)
  BY DEF Publish, CallDirect, AbandonDirect, tasks
<1>4. \A t \in Messages : /\ Carries(t) => Carries(t)'
                          /\ AwaitedByNew(t) => AwaitedByNew(t)'
  BY <1>1, <1>2 DEF Carries, AwaitedByNew, TaskLive, HoldLock, InTurn, IsDirect
<1>5. \A t \in Messages : /\ at'[t] = "deferred" => at[t] = "deferred"
                          /\ (at'[t] = "created" /\ t \in cancel' /\ ~IsDirect(t))
                                => (at[t] = "created" /\ t \in cancel)
  BY <1>2, <1>3
<1> QED BY <1>1, <1>4, <1>5, CarrierSame

\* What the run loop takes off the bus it drops, defers, queues or starts.
LEMMA CarrierRouting ==
    ASSUME RInv, StopInv, CarrierInv, NEW m \in Messages,
           DropUnbound(m) \/ RouteFollowUp(m) \/ CreateTask(m)
    PROVE  CarrierInv'
<1>0. /\ TypeOK /\ IInv /\ at \in [Messages -> Places] /\ at[m] = "inbound" /\ TasksAlive
  BY Consumed DEF RInv, IInv, TypeOK, DropUnbound, RouteFollowUp, CreateTask, StopInv
<1>1. UNCHANGED <<deferred, joining, cancel>>
  BY DEF DropUnbound, RouteFollowUp, CreateTask, tasks
<1>2. /\ \A t \in Messages : t # m => at'[t] = at[t]
      /\ at'[m] = "created" \/ (at'[m] \in {"done", "queued"} /\ KindOf[m] # "automation")
  <2>1. DropUnbound(m) => KindOf[m] # "automation"
    BY MessagesAssumption DEF DropUnbound, Passes, Requires, Commands
  <2> QED BY <1>0, <2>1 DEF DropUnbound, RouteFollowUp, CreateTask, Injectable, Settle, Move
<1>3. m \notin cancel
  BY <1>0 DEF TasksAlive, TaskLive, HoldLock, InTurn
<1>4. ~IsDirect(m) \/ ~Carries(m)
  BY DEF Carries
<1>5. \A t \in Messages : /\ Carries(t) => Carries(t)'
                          /\ AwaitedByNew(t) => AwaitedByNew(t)'
  BY <1>0, <1>1, <1>2 DEF Carries, AwaitedByNew, TaskLive, HoldLock, InTurn, IsDirect
<1>6. \A t \in Messages : /\ at'[t] = "deferred" => at[t] = "deferred"
                          /\ (at'[t] = "created" /\ t \in cancel' /\ ~IsDirect(t))
                                => (at[t] = "created" /\ t \in cancel)
  BY <1>1, <1>2, <1>3
<1> QED BY <1>1, <1>5, <1>6, CarrierSame

\* A turn is deferred behind the turn that runs.
LEMMA CarrierDefer ==
    ASSUME RInv, CarrierInv, NEW m \in Messages, Defer(m)
    PROVE  CarrierInv'
<1> DEFINE s == SessionOf[m]
           o == pendingQueues[s]
<1>0. /\ TypeOK /\ at \in [Messages -> Places] /\ at[m] = "inbound" /\ QueueInv /\ s \in Sessions
      /\ DeferredAreAutomation /\ (LoopYields => UnstartedAwaited /\ DeferredHasCarrier)
  BY Consumed, MessagesAssumption DEF RInv, IInv, TypeOK, Defer, CarrierInv
<1>1. /\ KindOf[m] = "automation" /\ o # None /\ UNCHANGED <<joining, cancel>>
      /\ deferred' = [deferred EXCEPT ![s] = Append(@, m)]
  BY DEF Defer, SessionActive, tasks
<1>2. at'[m] = "deferred" /\ \A t \in Messages : t # m => at'[t] = at[t]
  BY <1>0 DEF Defer, Move
<1>3. DeferredAreAutomation'
  BY <1>0, <1>1, <1>2 DEF DeferredAreAutomation
<1>4. ASSUME LoopYields PROVE UnstartedAwaited'
  <2>1. \A t \in Messages : AwaitedByNew(t) => AwaitedByNew(t)'
    BY <1>0, <1>1, <1>2 DEF AwaitedByNew
  <2> QED BY <1>0, <1>1, <1>2, <1>4, <2>1 DEF UnstartedAwaited, IsDirect
<1>5. ASSUME LoopYields PROVE DeferredHasCarrier'
  <2> SUFFICES ASSUME NEW r \in Sessions, deferred'[r] # <<>> PROVE Carrier(r)'
    BY DEF DeferredHasCarrier
  <2>1. CASE r = s
    <3>1. o \in Messages /\ SessionOf[o] = s /\ at[o] \in InTurn /\ ~IsDirect(o)
      BY <1>0, <1>1 DEF QueueInv, TypeOK
    <3>2. o # m
      BY <1>0, <3>1 DEF InTurn
    <3>3. at'[o] \in TaskLive
      BY <1>2, <3>1, <3>2 DEF TaskLive, HoldLock
    <3> QED BY <2>1, <3>1, <3>3 DEF Carrier, IsDirect
  <2>2. CASE r # s
    <3>1. deferred'[r] = deferred[r]
      BY <1>0, <1>1, <2>2 DEF TypeOK
    <3>2. Carrier(r)
      BY <1>0, <1>5, <3>1 DEF DeferredHasCarrier
    <3> QED BY <1>2, <2>2, <3>2 DEF Carrier, IsDirect
  <2> QED BY <2>1, <2>2
<1> QED BY <1>3, <1>4, <1>5 DEF CarrierInv

\* Where the run loop yields, an inline command finds no task that has not begun.
LEMMA CarrierRunInline ==
    ASSUME RInv, CarrierInv, NEW m \in Messages, RunInline(m)
    PROVE  CarrierInv'
<1>0. /\ TypeOK /\ at \in [Messages -> Places] /\ at[m] = "inbound" /\ KindOf[m] # "automation"
      /\ DeferredAreAutomation /\ (LoopYields => UnstartedAwaited /\ DeferredHasCarrier)
  BY Consumed DEF RInv, IInv, TypeOK, RunInline, CarrierInv
<1>1. at'[m] = "inline" /\ \A t \in Messages : t # m => at'[t] = at[t]
  BY <1>0 DEF RunInline, Move
<1>2. UNCHANGED deferred /\ (LoopYields => \A t \in Messages : at[t] # "created")
  BY DEF RunInline, Consume
<1>3. DeferredAreAutomation'
  BY <1>0, <1>1 DEF DeferredAreAutomation
<1>4. ASSUME LoopYields PROVE UnstartedAwaited'
  BY <1>1, <1>2, <1>4 DEF UnstartedAwaited
<1>5. \A t \in Messages : Carries(t) => Carries(t)'
  BY <1>0, <1>1 DEF Carries, IsDirect, TaskLive, HoldLock, InTurn
<1>6. ASSUME LoopYields PROVE DeferredHasCarrier'
  BY <1>0, <1>2, <1>5, <1>6 DEF DeferredHasCarrier, Carrier, Carries, IsDirect
<1> QED BY <1>3, <1>4, <1>6 DEF CarrierInv

LEMMA CarrierFinish ==
    ASSUME RInv, CarrierInv, NEW m \in Messages, FinishInline(m)
    PROVE  CarrierInv'
<1>0. TypeOK /\ IInv
  BY DEF RInv, IInv
<1>1. /\ at[m] = "inline"
      /\ \A t \in Messages : at'[t] = at[t] \/ (at[t] \in {"inline", "queued"} /\ at'[t] = "done")
  BY <1>0, FinishMoves DEF Discarded, Placed
<1>2. UNCHANGED <<cancel, deferred>> /\ \A n \in Messages : n # m => joining'[n] = joining[n]
  BY <1>0 DEF FinishInline, bus, TypeOK
<1>3. \A t \in Messages : Carries(t) => Carries(t)'
  BY <1>1 DEF Carries, TaskLive, HoldLock, InTurn, IsDirect
<1>4. \A t \in Messages : AwaitedByNew(t) => AwaitedByNew(t)'
  BY <1>1, <1>2 DEF AwaitedByNew
<1>5. \A t \in Messages : /\ at'[t] = "deferred" => at[t] = "deferred"
                          /\ (at'[t] = "created" /\ t \in cancel' /\ ~IsDirect(t))
                                => (at[t] = "created" /\ t \in cancel)
  BY <1>1, <1>2
<1> QED BY <1>2, <1>3, <1>4, <1>5, CarrierSame

LEMMA CarrierDrain ==
    ASSUME RInv, CarrierInv, NEW m \in Messages, Drain(m)
    PROVE  CarrierInv'
<1>0. IInv
  BY DEF RInv
<1>1. \A t \in Messages : at'[t] = at[t] \/ (at[t] = "queued" /\ at'[t] = "done")
  BY <1>0, DrainMoves DEF Placed
<1>2. UNCHANGED <<cancel, deferred, joining>>
  BY DEF Drain, bus, tasks
<1>3. \A t \in Messages : Carries(t) => Carries(t)'
  BY <1>1 DEF Carries, TaskLive, HoldLock, InTurn, IsDirect
<1>4. \A t \in Messages : AwaitedByNew(t) => AwaitedByNew(t)'
  BY <1>1, <1>2 DEF AwaitedByNew
<1>5. \A t \in Messages : /\ at'[t] = "deferred" => at[t] = "deferred"
                          /\ (at'[t] = "created" /\ t \in cancel' /\ ~IsDirect(t))
                                => (at[t] = "created" /\ t \in cancel)
  BY <1>1, <1>2
<1> QED BY <1>2, <1>3, <1>4, <1>5, CarrierSame

\* A task that starts or begins its turn carries on; those whom a /new cancels
\* it awaits.
LEMMA CarrierAdvance ==
    ASSUME RInv, CarrierInv, NEW m \in Messages, Advance(m)
    PROVE  CarrierInv'
<1>0. TypeOK /\ at \in [Messages -> Places] /\ TasksOfSession
  BY DEF RInv, IInv, TypeOK, CommandInv
<1>1. at[m] \in {"created", "lockWait", "gateWait"} /\ UNCHANGED deferred
  BY AdvanceBegins DEF bus
<1>2. /\ at'[m] \in InTurn \cup {"lockWait", "gateWait"}
      /\ \A t \in Messages : t # m => at'[t] = at[t]
  <2>1. BeginTurn(m) \/ \E p \in {"lockWait", "gateWait"} : Move(m, p)
    BY AdvanceBegins
  <2> QED BY <1>0, <2>1, BeginCancels DEF Move
<1>3. \A t \in Messages : Carries(t) => Carries(t)'
  BY <1>1, <1>2 DEF Carries, TaskLive, HoldLock, IsDirect
<1>4. \A t \in Messages : at'[t] = "deferred" => at[t] = "deferred"
  BY <1>2 DEF InTurn
<1>5. CASE UNCHANGED <<cancel, joining>>
  <2>1. \A t \in Messages : AwaitedByNew(t) => AwaitedByNew(t)'
    BY <1>1, <1>2, <1>5 DEF AwaitedByNew
  <2>2. \A t \in Messages : (at'[t] = "created" /\ t \in cancel' /\ ~IsDirect(t))
                               => (at[t] = "created" /\ t \in cancel)
    BY <1>2, <1>5 DEF InTurn
  <2> QED BY <1>1, <1>3, <1>4, <2>1, <2>2, CarrierSame
<1>6. CASE CancelActive(m) /\ at'[m] = "clearing"
  <2>1. \A t \in Messages : /\ t \in cancel' <=> t \in cancel \/ t \in joining'[m]
                            /\ t \in joining'[m] => SessionOf[t] = SessionOf[m]
                            /\ t # m => joining'[t] = joining[t]
    BY <1>0, <1>6, CancelledAwaited
  <2>2. \A t \in Messages : AwaitedByNew(t) => AwaitedByNew(t)'
    BY <1>1, <1>2, <2>1 DEF AwaitedByNew
  <2>3. \A t \in Messages : t \in joining'[m] => AwaitedByNew(t)'
    BY <1>6, <2>1 DEF AwaitedByNew
  <2>4. \A t \in Messages : (at'[t] = "created" /\ t \in cancel' /\ ~IsDirect(t))
                               => (at[t] = "created" /\ t \in cancel) \/ AwaitedByNew(t)'
    BY <1>2, <1>6, <2>1, <2>3
  <2> QED BY <1>1, <1>3, <1>4, <2>2, <2>4, CarrierSame
<1>7. UNCHANGED <<cancel, joining>> \/ (CancelActive(m) /\ at'[m] = "clearing")
  BY AdvanceBegins, BeginCancels
<1> QED BY <1>5, <1>6, <1>7

\* A task of session s ends, and if a deferred turn of s is left, there is
\* another carrier.
LEMMA CarrierLeaves ==
    ASSUME CarrierInv, NEW m \in Messages, at[m] \in TaskLive, at'[m] = "done",
           \A t \in Messages : t # m =>
              at'[t] = at[t] \/ (at[t] \in {"queued", "deferred"} /\ at'[t] = "inbound"),
           \A n \in Messages : n # m => joining'[n] = joining[n],
           at[m] = "clearing" => AllEnded(m), cancel' = cancel \ {m},
           \A r \in Sessions : r # SessionOf[m] => deferred'[r] = deferred[r],
           ~IsDirect(m) /\ LoopYields /\ deferred'[SessionOf[m]] # <<>> => Carrier(SessionOf[m])',
           IsDirect(m) => UNCHANGED deferred
    PROVE  CarrierInv'
<1>0. DeferredAreAutomation /\ (LoopYields => UnstartedAwaited /\ DeferredHasCarrier)
  BY DEF CarrierInv
<1>1. DeferredAreAutomation'
  BY <1>0 DEF DeferredAreAutomation
<1>2. ASSUME LoopYields PROVE UnstartedAwaited'
  <2> SUFFICES ASSUME NEW t \in Messages, at'[t] = "created", t \in cancel', ~IsDirect(t)
               PROVE  AwaitedByNew(t)'
    BY DEF UnstartedAwaited, IsDirect
  <2>1. t # m /\ at[t] = "created" /\ t \in cancel
    OBVIOUS
  <2>2. PICK n \in Messages : at[n] = "clearing" /\ SessionOf[n] = SessionOf[t] /\ t \in joining[n]
    BY <1>0, <1>2, <2>1 DEF UnstartedAwaited, AwaitedByNew
  <2>3. n # m
    BY <2>1, <2>2 DEF AllEnded
  <2> QED BY <2>2, <2>3 DEF AwaitedByNew
<1>3. \A t \in Messages : t # m /\ Carries(t) => Carries(t)'
  BY DEF Carries, IsDirect, TaskLive, HoldLock, InTurn
<1>4. ASSUME LoopYields PROVE DeferredHasCarrier'
  <2> SUFFICES ASSUME NEW r \in Sessions, deferred'[r] # <<>> PROVE Carrier(r)'
    BY DEF DeferredHasCarrier
  <2>1. CASE r = SessionOf[m] /\ ~IsDirect(m)
    BY <1>4, <2>1
  <2>2. CASE ~(r = SessionOf[m] /\ ~IsDirect(m))
    <3>1. deferred[r] # <<>>
      BY <2>2
    <3>2. PICK t \in Messages : SessionOf[t] = r /\ Carries(t)
      BY <1>0, <1>4, <3>1 DEF DeferredHasCarrier, Carrier, Carries
    <3>3. t # m
      BY <2>2, <3>2 DEF Carries
    <3>4. Carries(t)'
      BY <1>3, <3>2, <3>3
    <3> QED BY <3>2, <3>4 DEF Carrier, Carries, IsDirect
  <2> QED BY <2>1, <2>2
<1> QED BY <1>1, <1>2, <1>4 DEF CarrierInv

\* The next deferred turn goes onto the bus, and carries the rest.
LEMMA Resupplied ==
    ASSUME TypeOK, BusHoldsOnce, DeferredAreAutomation, NEW m \in Messages, NEW s \in Sessions,
           NEW f, NEW seq \in Seq(Messages), at[m] \in TaskLive, Republish(seq, s, m, f)
    PROVE  /\ deferred'[s] # <<>> => Carrier(s)'
           /\ \A r \in Sessions : r # s => deferred'[r] = deferred[r]
<1>1. /\ deferred \in [Sessions -> Seq(Messages)] /\ deferred[s] \in Seq(Messages)
      /\ deferred' = [deferred EXCEPT ![s] = RestDeferred(s)]
  BY DEF TypeOK, Republish
<1>2. deferred'[s] = RestDeferred(s) /\ \A r \in Sessions : r # s => deferred'[r] = deferred[r]
  BY <1>1
<1>3. ASSUME deferred'[s] # <<>> PROVE Carrier(s)'
  <2> DEFINE d == Head(deferred[s])
             back == seq \o NextDeferred(s)
  <2>1. deferred[s] # <<>>
    BY <1>2, <1>3 DEF RestDeferred
  <2>2. d \in Messages /\ d \in ToSet(deferred[s])
    <3>1. 1 \in DOMAIN deferred[s] /\ d = deferred[s][1]
      BY <1>1, <2>1
    <3> QED BY <1>1, <3>1 DEF ToSet
  <2>3. at[d] = "deferred" /\ SessionOf[d] = s
    BY <2>2 DEF BusHoldsOnce, Lists, Placed
  <2>4. KindOf[d] = "automation" /\ d # m
    BY <2>2, <2>3 DEF DeferredAreAutomation, TaskLive, HoldLock, InTurn
  <2>5. d \in ToSet(back)
    <3>1. back = seq \o <<d>>
      BY <2>1 DEF NextDeferred
    <3>2. Len(seq) + 1 \in DOMAIN (seq \o <<d>>) /\ (seq \o <<d>>)[Len(seq) + 1] = d
      BY <2>2
    <3> HIDE DEF d, back
    <3> QED BY <3>1, <3>2 DEF ToSet
  <2>6. at' = [t \in Messages |-> CASE t = m -> "done"
                                    [] t \in ToSet(back) -> "inbound"
                                    [] OTHER -> at[t]]
    BY DEF Republish
  <2> HIDE DEF d, back
  <2>7. at'[d] = "inbound"
    BY <2>2, <2>4, <2>5, <2>6
  <2> QED BY <2>2, <2>3, <2>4, <2>7 DEF Carrier, IsDirect
<1> QED BY <1>2, <1>3

LEMMA CarrierEnd ==
    ASSUME RInv, CarrierInv, NEW m \in Messages, End(m)
    PROVE  CarrierInv'
<1> DEFINE s == SessionOf[m]
<1>0. /\ TypeOK /\ IInv /\ BusHoldsOnce /\ s \in Sessions /\ pending[m] \in Seq(Messages)
      /\ ClearingIsNew /\ DeferredAreAutomation
      /\ (LoopYields => UnstartedAwaited /\ DeferredHasCarrier)
  BY MessagesAssumption DEF RInv, IInv, TypeOK, CommandInv, CarrierInv
<1>1. ASSUME NEW f \in Fates, EndTurn(m, f) PROVE CarrierInv'
  <2>1. /\ at[m] \in TaskLive /\ at'[m] = "done"
        /\ \A t \in Messages : t # m =>
              at'[t] = at[t] \/ (at[t] \in {"queued", "deferred"} /\ at'[t] = "inbound")
    BY <1>0, <1>1, EndMoves DEF Left, Placed, TaskLive, HoldLock
  <2>2. /\ AllEnded(m) /\ cancel' = cancel \ {m} /\ ~IsDirect(m)
        /\ Republish(pending[m], s, m, f)
    BY <1>1 DEF EndTurn, TaskDone, Leftovers
  <2>3. \A n \in Messages : n # m => joining'[n] = joining[n]
    BY <1>0, <1>1 DEF EndTurn, TypeOK
  <2>4. /\ deferred'[s] # <<>> => Carrier(s)'
        /\ \A r \in Sessions : r # s => deferred'[r] = deferred[r]
    BY <1>0, <2>1, <2>2, Resupplied
  <2> QED BY <2>1, <2>2, <2>3, <2>4, CarrierLeaves
<1>2. ASSUME NEW f \in Fates, EndDirect(m, f) PROVE CarrierInv'
  <2>1. /\ at[m] = "turn" /\ at[m] \in TaskLive /\ at'[m] = "done"
        /\ \A t \in Messages : t # m => at'[t] = at[t]
    BY <1>0, <1>2 DEF EndDirect, Settle, Move, TypeOK, TaskLive, HoldLock, InTurn
  <2>2. cancel' = cancel \ {m} /\ IsDirect(m) /\ UNCHANGED <<joining, deferred>>
    BY <1>2 DEF EndDirect, TaskDone, bus
  <2> QED BY <2>1, <2>2, CarrierLeaves
<1>3. CASE CancelUnstarted(m)
  <2>1. /\ at[m] = "created" /\ at[m] \in TaskLive /\ at'[m] = "done"
        /\ \A t \in Messages : t # m => at'[t] = at[t]
    BY <1>0, <1>3 DEF CancelUnstarted, Settle, Move, TypeOK, TaskLive
  <2>2. m \in cancel /\ cancel' = cancel \ {m} /\ UNCHANGED <<joining, deferred>>
    BY <1>3 DEF CancelUnstarted, TaskDone, bus
  <2>3. ~IsDirect(m) /\ LoopYields => Carrier(s)'
    <3> SUFFICES ASSUME ~IsDirect(m), LoopYields PROVE Carrier(s)'
      OBVIOUS
    <3>1. PICK n \in Messages : at[n] = "clearing" /\ SessionOf[n] = s
      BY <1>0, <2>1, <2>2 DEF UnstartedAwaited, AwaitedByNew
    <3>2. n # m /\ at'[n] \in TaskLive /\ ~IsDirect(n)
      BY <1>0, <2>1, <3>1 DEF ClearingIsNew, IsDirect, TaskLive, HoldLock, InTurn
    <3> QED BY <3>1, <3>2 DEF Carrier, IsDirect
  <2> QED BY <2>1, <2>2, <2>3, CarrierLeaves
<1>4. CASE CancelWaiting(m)
  <2>1. /\ at[m] \in {"lockWait", "gateWait"} /\ at'[m] = "done"
        /\ \A t \in Messages : t # m =>
              at'[t] = at[t] \/ (at[t] \in {"queued", "deferred"} /\ at'[t] = "inbound")
    BY <1>0, <1>4, WaitingMoves
  <2>2. at[m] \in TaskLive /\ at[m] # "clearing"
    BY <2>1 DEF TaskLive, HoldLock
  <2>3. cancel' = cancel \ {m} /\ UNCHANGED joining
    BY <1>4 DEF CancelWaiting, TaskDone
  <2>4. CASE IsDirect(m)
    <3>1. UNCHANGED deferred
      BY <1>4, <2>4 DEF CancelWaiting
    <3> QED BY <2>1, <2>2, <2>3, <2>4, <3>1, CarrierLeaves
  <2>5. CASE ~IsDirect(m)
    <3> DEFINE seq == <<>>
    <3>1. seq \in Seq(Messages) /\ Republish(seq, s, m, "cancelled")
      BY <1>4, <2>5 DEF CancelWaiting
    <3> HIDE DEF seq
    <3>2. /\ deferred'[s] # <<>> => Carrier(s)'
          /\ \A r \in Sessions : r # s => deferred'[r] = deferred[r]
      BY <1>0, <2>2, <3>1, Resupplied
    <3> QED BY <2>1, <2>2, <2>3, <2>5, <3>2, CarrierLeaves
  <2> QED BY <2>4, <2>5
<1> QED BY <1>1, <1>2, <1>3, <1>4 DEF End

LEMMA CarrierStep == RInv /\ StopInv /\ CarrierInv /\ [Next]_vars => CarrierInv'
<1> SUFFICES ASSUME RInv, StopInv, CarrierInv, [Next]_vars PROVE CarrierInv'
  OBVIOUS
<1>1. CASE UNCHANGED vars
  <2>1. UNCHANGED <<at, deferred, cancel, joining>>
    BY <1>1 DEF vars, bus, tasks
  <2>2. \A t \in Messages : /\ Carries(t) => Carries(t)'
                            /\ AwaitedByNew(t) => AwaitedByNew(t)'
    BY <2>1 DEF Carries, AwaitedByNew, IsDirect
  <2> QED BY <2>1, <2>2, CarrierSame
<1>2. ASSUME NEW m \in Messages, Publish(m) \/ CallDirect(m) \/ AbandonDirect(m)
             \/ Advance(m) \/ Drain(m) \/ End(m)
      PROVE  CarrierInv'
  BY <1>2, CarrierEnvironment, CarrierAdvance, CarrierDrain, CarrierEnd
<1>3. ASSUME NEW m \in Messages, DropUnbound(m) \/ RunInline(m) \/ FinishInline(m)
             \/ Defer(m) \/ RouteFollowUp(m) \/ CreateTask(m)
      PROVE  CarrierInv'
  BY <1>3, CarrierRouting, CarrierDefer, CarrierRunInline, CarrierFinish
<1> QED BY <1>1, <1>2, <1>3 DEF Next, RunLoop

\* Where the run loop lets new tasks start between two messages, as up to Python
\* 3.11, no deferred automation turn is left behind in an idle session, whatever
\* is stopped, cleared, cancelled or abandoned.
THEOREM DeferredAreCarried == LoopYields => (Spec => []DeferredHasCarrier)
<1> SUFFICES ASSUME LoopYields PROVE Spec => []DeferredHasCarrier
  OBVIOUS
<1>1. Init => RInv /\ StopInv /\ CarrierInv
  BY InvInit, CommandInit, StopInit DEF RInv
<1>2. RInv /\ StopInv /\ CarrierInv /\ [Next]_vars => (RInv /\ StopInv /\ CarrierInv)'
  BY InvStep, CommandStep, StopStep, CarrierStep DEF RInv
<1>3. CarrierInv => DeferredHasCarrier
  BY DEF CarrierInv
<1> QED BY <1>1, <1>2, <1>3, PTL DEF Spec
=============================================================================
