--------------------------- MODULE MCSessionMemory ---------------------------
(* A small instance of SessionMemory for TLC. *)
EXTENDS SessionMemory

MCObjects == 1 .. 4
=============================================================================
