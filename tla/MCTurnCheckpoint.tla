--------------------------- MODULE MCTurnCheckpoint ---------------------------
(* Small instances of TurnCheckpoint for TLC. *)
EXTENDS TurnCheckpoint
=============================================================================
