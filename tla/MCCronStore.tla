----------------------------- MODULE MCCronStore -----------------------------
(* A small instance of CronStore for TLC. *)
EXTENDS CronStore

MCAt == [j \in OneShots |-> 2]
=============================================================================
