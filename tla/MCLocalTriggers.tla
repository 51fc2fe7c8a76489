--------------------------- MODULE MCLocalTriggers ---------------------------
(* Small instances of LocalTriggers for TLC: the last delivery is for "t2". *)
EXTENDS LocalTriggers

MCTriggerOf == [d \in Deliveries |-> IF d = 3 THEN "t2" ELSE "t1"]
=============================================================================
