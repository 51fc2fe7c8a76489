------------------------------ MODULE MCSessions ------------------------------
(***************************************************************************)
(* One session in one run: how turns reach its history (TurnCheckpoint),   *)
(* or how messages leave it (SessionMemory).  The two share no state.      *)
(***************************************************************************)
EXTENDS TurnCheckpoint, MCSessionMemory

VARIABLE shown    \* whose behaviour this is

Shows(which, Step, others) == shown = which /\ Step /\ UNCHANGED <<shown, others>>

SessionsInit == Init /\ MemoryInit /\ shown \in {"turns", "memory"}
SessionsNext ==
    \/ Shows("turns", Next, memoryVars)
    \/ Shows("memory", MemoryNext, vars)
SessionsSpec == SessionsInit /\ [][SessionsNext]_<<vars, memoryVars, shown>>

\* The two modules' type invariants.
SessionsTypeOK == TypeOK /\ MemoryTypeOK
=============================================================================
