-------------------------- MODULE MCSessionDispatch --------------------------
(***************************************************************************)
(* Small instances of SessionDispatch for TLC: every .cfg picks its        *)
(* messages by name, and the name fixes what the message is.               *)
(***************************************************************************)
EXTENDS SessionDispatch

MCKindOf ==
    [m \in Messages |-> CASE m \in {"auto1", "auto2"} -> "automation"
                           [] m = "direct" -> "direct"
                           [] m \in {"stop", "stop2"} -> "stop"
                           [] m \in {"new", "new2"} -> "new"
                           [] m = "discard" -> "discard"
                           [] OTHER -> "user"]

\* Everything is for session "s1" except these, some of which only make sense
\* if "s2" is a temporary chat.
MCSessionOf ==
    [m \in Messages |->
        IF m \in {"other", "other2", "new2", "stop2", "discard"} THEN "s2" ELSE "s1"]

\* The behaviours in which messages of one session only are sent.
MaySend(m) == \A t \in Messages : at[t] # "unsent" => SessionOf[t] = SessionOf[m]
OneSessionNext ==
    \/ \E m \in Messages :
          \/ MaySend(m) /\ Publish(m)
          \/ MaySend(m) /\ CallDirect(m)
          \/ AbandonDirect(m) \/ Advance(m) \/ Drain(m) \/ End(m)
    \/ RunLoop
OneSessionSpec == Init /\ [][OneSessionNext]_vars
=============================================================================
