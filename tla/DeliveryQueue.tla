---------------------------- MODULE DeliveryQueue ----------------------------
(***************************************************************************)
(* What the queue of local triggers promises, whatever files it is made of *)
(* and whoever is killed: a delivery that was accepted waits until it is   *)
(* done, has failed its last try or was deleted with its trigger, it is    *)
(* handed over once a try at most, and it is not done without having been  *)
(* handed over as long as its trigger takes deliveries.                    *)
(***************************************************************************)
EXTENDS Integers

CONSTANTS Triggers, Deliveries, TriggerOf, Reachable, MaxAttempts

VARIABLES
    trigger,   \* what each trigger is
    status,    \* where each delivery is
    tries,     \* tries it has spent, while it waits or after it failed
    handed     \* how often it was handed over

Init ==
    /\ trigger \in [Triggers -> {"enabled", "none"}]
    /\ status = [d \in Deliveries |-> "unseen"]
    /\ tries  = [d \in Deliveries |-> 0]
    /\ handed = [d \in Deliveries |-> 0]

Takes(d) == trigger[TriggerOf[d]] = "enabled"

\* A trigger is created, enabled or disabled.
Change(t, state) ==
    /\ trigger[t] # "deleted" /\ state \in {"enabled", "disabled"}
    /\ trigger' = [trigger EXCEPT ![t] = state]
    /\ UNCHANGED <<status, tries, handed>>

\* A deleted trigger takes its deliveries with it.
Delete(t) ==
    LET ofT(d) == TriggerOf[d] = t /\ status[d] # "unseen"
    IN  /\ trigger' = [trigger EXCEPT ![t] = "deleted"]
        /\ status' = [d \in Deliveries |-> IF ofT(d) THEN "deleted" ELSE status[d]]
        /\ tries'  = [d \in Deliveries |-> IF ofT(d) THEN 0 ELSE tries[d]]
        /\ UNCHANGED handed

Accept(d) ==
    /\ status[d] = "unseen" /\ Takes(d)
    /\ status' = [status EXCEPT ![d] = "waiting"]
    /\ UNCHANGED <<trigger, tries, handed>>

\* Once a try.
HandOver(d) ==
    /\ status[d] = "waiting" /\ Takes(d) /\ TriggerOf[d] \in Reachable
    /\ handed[d] <= tries[d]
    /\ handed' = [handed EXCEPT ![d] = @ + 1]
    /\ UNCHANGED <<trigger, status, tries>>

\* Done, or dropped because its trigger takes no deliveries here.
Settle(d) ==
    /\ status[d] = "waiting"
    /\ handed[d] > 0 \/ ~Takes(d) \/ TriggerOf[d] \notin Reachable
    /\ status' = [status EXCEPT ![d] = "done"]
    /\ tries'  = [tries EXCEPT ![d] = 0]
    /\ UNCHANGED <<trigger, handed>>

\* Waiting deliveries spend a try, and wait for the next unless it was the last.
Waiting == {d \in Deliveries : status[d] = "waiting"}
SpendTry(S) ==
    /\ UNCHANGED <<trigger, handed>>
    /\ tries'  = [d \in Deliveries |-> IF d \in S THEN tries[d] + 1 ELSE tries[d]]
    /\ status' = [d \in Deliveries |->
                    IF d \in S /\ tries[d] + 1 >= MaxAttempts THEN "failed" ELSE status[d]]

Next ==
    \/ \E S \in SUBSET Waiting : SpendTry(S)
    \/ \E t \in Triggers : Delete(t) \/ \E state \in {"enabled", "disabled"} : Change(t, state)
    \/ \E d \in Deliveries : Accept(d) \/ HandOver(d) \/ Settle(d)

Spec == Init /\ [][Next]_<<trigger, status, tries, handed>>
=============================================================================
