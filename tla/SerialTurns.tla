----------------------------- MODULE SerialTurns -----------------------------
(***************************************************************************)
(* What the dispatcher promises, whatever its queues and locks: messages   *)
(* of one session are worked on one at a time, a bounded number of them    *)
(* run at once, and a message is only ever given up because a command of   *)
(* its session asked for it.                                               *)
(***************************************************************************)
EXTENDS Integers, FiniteSets

CONSTANTS Messages, SessionOf,
          Ungated,      \* messages that do not count against the slots
          Commanding,   \* messages that may make others be given up
          Slots

VARIABLE status

Statuses == {"unseen", "waiting", "running", "over"}
Running  == {m \in Messages : status[m] = "running"}
Set(S, v) == status' = [m \in Messages |-> IF m \in S THEN v ELSE status[m]]

Init == status = [m \in Messages |-> "unseen"]

Accept(m) == status[m] = "unseen" /\ Set({m}, "waiting")

\* A turn begins: alone in its session and within the slots.
Begin(m) ==
    /\ status[m] = "waiting"
    /\ \A n \in Running : SessionOf[n] # SessionOf[m]
    /\ m \in Ungated \/ Cardinality(Running \ Ungated) < Slots
    /\ Set({m}, "running")

Finish(m) == status[m] = "running" /\ Set({m}, "over")

\* The running turn n takes waiting messages of its session.
Absorb(n, S) ==
    /\ status[n] = "running" /\ S # {}
    /\ \A m \in S : status[m] = "waiting" /\ SessionOf[m] = SessionOf[n]
    /\ Set(S, "over")

\* Messages given up, or commands carried out, without a turn.
Withdraw(S) ==
    /\ S # {}
    /\ \A m \in S :
          /\ status[m] = "waiting"
          /\ m \in Ungated
             \/ \E c \in Commanding : SessionOf[c] = SessionOf[m] /\ status[c] # "unseen"
    /\ Set(S, "over")

Next ==
    \/ \E m \in Messages : Accept(m) \/ Begin(m) \/ Finish(m)
    \/ \E m \in Messages, S \in SUBSET Messages : Absorb(m, S)
    \/ \E S \in SUBSET Messages : Withdraw(S)

Spec == Init /\ [][Next]_status
=============================================================================
