------------------------------- MODULE MCTurns -------------------------------
(***************************************************************************)
(* What a turn sets going, in one run: slices of a goal and sub-agents     *)
(* (GoalTurns), the stream of its answer (ReplyStream) and the dispatcher  *)
(* that delivers it (Outbound), shell commands (ExecSessions), or          *)
(* connections to MCP servers (McpConnections).  They share no state.      *)
(***************************************************************************)
EXTENDS GoalTurns, ReplyStream, Outbound, ExecSessions, McpConnections, TLC

\* The same two model values stand for sub-agents, tool calls and MCP servers.
Alike == Permutations(Agents \cup Callers \cup Servers)

VARIABLE told    \* whose behaviour this is

Tells(which, Step, others) == told = which /\ Step /\ UNCHANGED <<told, others>>

TurnsInit ==
    /\ GoalInit /\ ReplyInit /\ OutboundInit /\ ExecInit /\ McpInit
    /\ \/ told = "mcp"
       \/ /\ told \in {"goal", "reply", "outbound", "exec"}
          /\ servers = [s \in Servers |-> 0]
TurnsNext ==
    \/ Tells("goal", GoalNext, <<replyVars, outboundVars, execVars, mcpVars>>)
    \/ Tells("reply", ReplyNext, <<goalVars, outboundVars, execVars, mcpVars>>)
    \/ Tells("outbound", OutboundNext, <<goalVars, replyVars, execVars, mcpVars>>)
    \/ Tells("exec", ExecNext, <<goalVars, replyVars, outboundVars, mcpVars>>)
    \/ Tells("mcp", McpNext, <<goalVars, replyVars, outboundVars, execVars>>)
TurnsSpec ==
    TurnsInit /\ [][TurnsNext]_<<goalVars, replyVars, outboundVars, execVars, mcpVars, told>>

\* Bound: two tool calls at a time only while there is one process.
ExecBound ==
    \/ Cardinality({c \in Callers : call[c].phase # "none"}) <= 1
    \/ \A e \in Execs \ {1} : process[e] = "none"

\* The five modules' type invariants.
TurnsTypeOK == GoalTypeOK /\ ReplyTypeOK /\ OutboundTypeOK /\ ExecTypeOK /\ McpTypeOK
=============================================================================
