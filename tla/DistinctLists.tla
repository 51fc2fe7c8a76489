---------------------------- MODULE DistinctLists ----------------------------
(* Queues in which no element stands twice, described by the set they list. *)
EXTENDS Integers, SequencesExt

\* The queue q lists the elements of S, each of them once.
Lists(q, S) ==
    /\ ToSet(q) = S
    /\ \A i, j \in DOMAIN q : q[i] = q[j] => i = j

\* The queue q after the waiter m has left it, wherever it stood.
Without(q, m) ==
    IF \E i \in DOMAIN q : q[i] = m
    THEN RemoveAt(q, CHOOSE i \in DOMAIN q : q[i] = m) ELSE q
=============================================================================
