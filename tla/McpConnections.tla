---------------------------- MODULE McpConnections ----------------------------
(***************************************************************************)
(* The connections to MCP servers and the tools they register              *)
(* (agent/tools/mcp.py, MCPProvider): connected when a turn needs them,    *)
(* reconciled with the configuration, reopened when a server has ended a   *)
(* session, and closed at shutdown, all under one lock and all of them     *)
(* cancelled with the turn or request that asked for them.                 *)
(***************************************************************************)
EXTENDS Integers, Sequences

CONSTANTS
    Servers,      \* names of MCP servers
    Versions,     \* configurations of a server (bound)
    MaxOpens      \* connections opened in a behaviour (bound)

ASSUME McpAssumption == 0 \notin Versions /\ MaxOpens \in Nat \ {0}

VARIABLES
    servers,      \* version of each server as the provider has read it, 0: none: _servers
    conns,        \* every connection that was opened, in order
    connections,  \* connection of each server: _connections
    tools,        \* the connection that each server's registered tools use
    op,           \* what holds the lock
    closing       \* _closing, and whether aclose() is done

mcpVars == <<servers, conns, connections, tools, op, closing>>

Ids == 1 .. Len(conns)
Nowhere == [s \in Servers |-> 0]

\* Of a reload, a refresh or a connect: the configuration read, the servers it is
\* about, those still to be closed and to be opened, those tried, the connections
\* opened so far and the one being opened.
NoOp == [phase |-> "none", next |-> Nowhere, only |-> {}, close |-> {}, todo |-> {},
         tried |-> {}, batch |-> Nowhere, opening |-> 0]

McpInit ==
    /\ servers \in [Servers -> Versions \cup {0}]
    /\ conns = <<>> /\ connections = Nowhere /\ tools = Nowhere
    /\ op = NoOp /\ closing = "no"

-----------------------------------------------------------------------------
(* What others do *)

\* The server ends the session; its transport waits for its owner to close it.
Terminates(i) ==
    /\ conns[i].state = "open"
    /\ conns' = [conns EXCEPT ![i].state = "lost"]
    /\ UNCHANGED <<servers, connections, tools, op, closing>>

-----------------------------------------------------------------------------
(* Operations that take the lock *)

Become(state, S) ==
    [i \in Ids |-> IF i \in S THEN [conns[i] EXCEPT !.state = state] ELSE conns[i]]
Unregistered(S) == [s \in Servers |-> IF s \in S THEN 0 ELSE tools[s]]
InBatch == {op.batch[s] : s \in Servers}

\* Mutant: only the connection being opened is closed.
RolledBackOne == {op.opening}
RolledBack == InBatch \cup {op.opening}

\* connect(): the servers that have no connection.
Connect ==
    LET missing == {s \in Servers : servers[s] # 0 /\ connections[s] = 0} IN
    /\ op = NoOp /\ closing = "no" /\ missing # {}
    /\ op' = [NoOp EXCEPT !.phase = "opening", !.todo = missing]
    /\ UNCHANGED <<servers, conns, connections, tools, closing>>

\* Mutant: only servers that are gone are closed.
OutdatedRemoved(next) == {s \in Servers : servers[s] # 0 /\ next[s] = 0}
\* The servers that the new configuration removes or changes.
Outdated(next) == {s \in Servers : servers[s] # 0 /\ next[s] # servers[s]}

\* The configuration file holds whatever was last written to it.
Reload ==
    /\ op = NoOp /\ closing = "no"
    /\ \E next \in [Servers -> Versions \cup {0}] :
          op' = [NoOp EXCEPT !.phase = "closing", !.next = next, !.only = Servers,
                             !.close = Outdated(next)]
    /\ UNCHANGED <<servers, conns, connections, tools, closing>>

\* _refresh_terminated_server(): a tool call found the session of connection i
\* terminated.  Had somebody else reconnected, it only takes the new session.
Refresh(i) ==
    LET s == conns[i].server IN
    /\ op = NoOp /\ closing = "no" /\ conns[i].state \in {"lost", "closed"}
    /\ servers[s] # 0 /\ (tools[s] \in {0, i} \/ connections[s] = 0)
    /\ op' = [NoOp EXCEPT !.phase = "closing", !.next = servers, !.only = {s},
                          !.close = {s}]
    /\ UNCHANGED <<servers, conns, connections, tools, closing>>

\* _unregister_server_tools() and _close_server(), which tells the connection's
\* owner to close before it waits for it.
CloseServer(s) ==
    /\ op.phase = "closing" /\ s \in op.close
    /\ tools' = Unregistered({s}) /\ connections' = [connections EXCEPT ![s] = 0]
    /\ conns' = Become("closed", {connections[s]})
    /\ op' = [op EXCEPT !.close = @ \ {s}]
    /\ UNCHANGED <<servers, closing>>

\* A reload takes the configuration over and opens every server without connection;
\* a refresh, for which the configuration has not changed, opens its own.
TakeOver ==
    LET missing == {s \in op.only : op.next[s] # 0 /\ connections[s] = 0} IN
    /\ op.phase = "closing" /\ op.close = {}
    /\ servers' = op.next
    /\ op' = IF missing = {} THEN NoOp ELSE [NoOp EXCEPT !.phase = "opening", !.todo = missing]
    /\ UNCHANGED <<conns, connections, tools, closing>>

-----------------------------------------------------------------------------
(* connect_mcp_servers() *)

\* connect_single_server() starts a task that will own the connection.
OpenServer(s) ==
    /\ op.phase = "opening" /\ op.opening = 0 /\ s \in op.todo /\ Len(conns) < MaxOpens
    /\ conns' = Append(conns, [server |-> s, version |-> servers[s], state |-> "opening"])
    /\ op' = [op EXCEPT !.opening = Len(conns'), !.todo = @ \ {s}, !.tried = @ \cup {s}]
    /\ UNCHANGED <<servers, connections, tools, closing>>

\* The tools replace those that the registry had under their names.
ToolsOf(i) == [tools EXCEPT ![conns[i].server] = i]

OpenDone(i) ==
    /\ op.phase = "opening" /\ op.opening = i /\ i # 0
    /\ \/ /\ conns' = [conns EXCEPT ![i].state = "open"]
          /\ tools' = ToolsOf(i)
          /\ op' = [op EXCEPT !.opening = 0, !.batch[conns[i].server] = i]
       \/ /\ conns' = Become("failed", {i}) /\ UNCHANGED tools
          /\ op' = [op EXCEPT !.opening = 0]
    /\ UNCHANGED <<servers, connections, closing>>

\* An exception, or a CancelledError that the SDK leaks, after tools were registered:
\* the connection is closed and counts as failed, its tools stay in the registry.
OpenLeaks(i) ==
    /\ op.phase = "opening" /\ op.opening = i /\ i # 0
    /\ conns' = [conns EXCEPT ![i].state = "leaked"]
    /\ tools' = ToolsOf(i)
    /\ op' = [op EXCEPT !.opening = 0]
    /\ UNCHANGED <<servers, connections, closing>>

\* The batch is handed over to the provider, unless that has begun to close.
HandOver ==
    /\ op.phase = "opening" /\ op.opening = 0 /\ op.todo = {}
    /\ op' = NoOp
    /\ IF closing = "no"
       THEN /\ connections' = [s \in Servers |-> IF op.batch[s] = 0 THEN connections[s]
                                                 ELSE op.batch[s]]
            /\ UNCHANGED conns
       ELSE conns' = Become("failed", InBatch) /\ UNCHANGED connections
    /\ UNCHANGED <<servers, tools, closing>>

\* The turn or request is cancelled while a connection closes or opens.  The whole
\* batch is rolled back.
CancelOp ==
    /\ op # NoOp /\ (op.phase = "opening" => op.opening # 0)
    /\ op' = NoOp
    /\ conns' = Become("failed", RolledBack) /\ tools' = Unregistered(op.tried)
    /\ UNCHANGED <<servers, connections, closing>>

-----------------------------------------------------------------------------
(* Shutdown *)

\* aclose() announces itself before it waits for the lock.
AskClose ==
    /\ closing = "no" /\ closing' = "asked"
    /\ UNCHANGED <<servers, conns, connections, tools, op>>

CloseAll ==
    /\ closing = "asked" /\ op = NoOp /\ closing' = "done"
    /\ conns' = Become("closed", {connections[s] : s \in Servers})
    /\ connections' = Nowhere /\ tools' = Unregistered({s \in Servers : servers[s] # 0})
    /\ UNCHANGED <<servers, op>>

McpNext ==
    \/ \E s \in Servers : CloseServer(s) \/ OpenServer(s)
    \/ \E i \in Ids : Terminates(i) \/ Refresh(i) \/ OpenDone(i) \/ OpenLeaks(i)
    \/ Connect \/ Reload \/ TakeOver \/ HandOver \/ CancelOp \/ AskClose \/ CloseAll

McpSpec == McpInit /\ [][McpNext]_mcpVars

-----------------------------------------------------------------------------
(* Properties *)

StillOpen(i) == conns[i].state \in {"opening", "open", "lost"}

\* Every variable keeps its type, and a closed provider stays empty.
McpTypeOK ==
    /\ servers \in [Servers -> Versions \cup {0}]
    /\ conns \in Seq([server : Servers, version : Versions,
                      state : {"opening", "open", "lost", "closed", "failed", "leaked"}])
    /\ connections \in [Servers -> {0} \cup Ids] /\ tools \in [Servers -> {0} \cup Ids]
    /\ op.opening \in {0} \cup Ids
    /\ closing \in {"no", "asked", "done"}

\* A connection, that is a task and perhaps a process, has somebody to close it:
\* the provider, or the operation that is opening a batch, whenever that is cancelled
\* and whoever has begun to close (connect, reload, _refresh_terminated_server,
\* connect_mcp_servers, aclose).
ConnectionsAreOwned ==
    \A i \in Ids :
       StillOpen(i) => /\ i \in {connections[conns[i].server], op.opening} \cup InBatch
                       /\ closing # "done"

\* Between operations the tools of a server are those of its connection, and of the
\* configuration the provider has read: nothing that was reloaded, refreshed or
\* rolled back stays behind, but for the tools of a connection whose opening failed,
\* or was cancelled by the SDK, after it had registered them.
ToolsAreCurrent ==
    op = NoOp =>
       \A s \in Servers :
          /\ connections[s] # 0 => /\ conns[connections[s]].version = servers[s]
                                   /\ tools[s] = connections[s]
          /\ tools[s] \notin {0, connections[s]} =>
                conns[tools[s]].state = "leaked" \/ closing = "asked"
=============================================================================
