------------------------------- MODULE McpBridge -------------------------------
(***************************************************************************)
(* MCP servers on stdio: the manager that starts them, finds their tools   *)
(* and calls one (runtime mcp_stdio.rs), the registry the tools consult    *)
(* (mcp_tool_bridge.rs), and what the tools report of a server (tools      *)
(* lib.rs).  Calls share one manager behind a mutex; a call discovers the  *)
(* tools of every server, calls one tool, and shuts every server down.     *)
(* The server processes run on their own: each answers a request once, may *)
(* write a message nobody asked for, and may exit.                         *)
(***************************************************************************)
EXTENDS Naturals, Sequences

CONSTANTS Callers, Servers,
          Order,       \* the servers on stdio, in the order of the BTreeMap
          Transport,   \* the transport each server is configured with
          Normal,      \* normalize_name_for_mcp of each server's name
          MaxNotes,    \* messages the servers may write unasked
          MaxCalls     \* calls before the run ends

VARIABLES registry,    \* connection status of each registered server
          process,     \* child process of each managed server
          tool_index,  \* qualified tool name -> server
          lock,        \* who holds the manager, and how far the call is
          caller,      \* what each caller waits for or was told
          abandoned,   \* history: a discovery failed since the last shutdown
          calls, notes \* bounds

mcpVars == <<registry, process, tool_index, lock, caller, abandoned, calls, notes>>

ASSUME BridgeAssumption == Order \in Seq(Servers) /\ "none" \notin Callers

Stdio == {Order[i] : i \in 1..Len(Order)}
Free == [holder |-> "none"]
NoProcess == [state |-> "none", initialized |-> FALSE, asked |-> <<>>, out |-> <<>>]
Spawned == [state |-> "running", initialized |-> FALSE, asked |-> <<>>, out |-> <<>>]
Notice == "note"
Told(result) == [at |-> "told", result |-> result]

\* from_servers: servers of other transports are not managed.
McpInit ==
  /\ registry = [s \in Servers |-> "absent"]
  /\ process = [s \in Stdio |-> NoProcess]
  /\ tool_index = [n \in {} |-> ""]
  /\ lock = Free
  /\ caller = [c \in Callers |-> [at |-> "idle"]]
  /\ abandoned = FALSE
  /\ calls = 0 /\ notes = 0

\* Mutant: the name of the tool alone.
mcp_tool_name_bare(s) == "tool"

\* The qualified name of the one tool of a server.
mcp_tool_name(s) == Normal[s]

\* What the configuration alone says of a server.
configured_mcp_server_state(s) ==
  CASE Transport[s] = "stdio" -> "disconnected"
    [] Transport[s] = "http+oauth" -> "auth_required"
    [] OTHER -> "error"

\* McpAuth: the registry's entry, or else the configuration's.
effective_mcp_server_state(s) ==
  IF registry[s] # "absent" THEN registry[s] ELSE configured_mcp_server_state(s)

\* ListMcpServers: the listing inserts the registered servers over the configured ones.
merged_mcp_server_states ==
  [s \in Servers |-> IF registry[s] = "absent" THEN configured_mcp_server_state(s)
                     ELSE registry[s]]

\* register_server, set_auth_status and disconnect.
changed(s, status) ==
  /\ registry[s] # status
  /\ registry' = [registry EXCEPT ![s] = status]
  /\ UNCHANGED <<process, tool_index, lock, caller, abandoned, calls, notes>>

register_server(s) == registry[s] = "absent" /\ changed(s, "connected")
set_auth_status(s) == registry[s] = "connected" /\ changed(s, "auth_required")
disconnect(s) == registry[s] # "absent" /\ changed(s, "absent")

\* McpToolRegistry::call_tool: refused unless the server is connected; the
\* registry's lock is released before the manager's is asked for.
call_tool(c, s) ==
  /\ caller[c].at \in {"idle", "told"}
  /\ calls < MaxCalls
  /\ calls' = calls + 1
  /\ caller' = [caller EXCEPT ![c] = IF registry[s] = "connected"
                                     THEN [at |-> "waiting", server |-> s]
                                     ELSE Told([kind |-> "refused"])]
  /\ UNCHANGED <<registry, process, tool_index, lock, abandoned, notes>>

\* spawn_tool_call: a thread of its own takes the manager's lock.
spawn_tool_call(c) ==
  /\ caller[c].at = "waiting"
  /\ lock = Free
  /\ lock' = [holder |-> c, phase |-> "ready", i |-> 1, server |-> "none", result |-> [kind |-> "none"]]
  /\ UNCHANGED <<registry, process, tool_index, caller, abandoned, calls, notes>>

Holding(phase) == lock.holder # "none" /\ lock.phase = phase
Current == Order[lock.i]

\* The error of discover_tools leaves before shutdown: the processes stay.
discovery_fails ==
  /\ caller' = [caller EXCEPT ![lock.holder] = Told([kind |-> "discovery failed"])]
  /\ lock' = Free
  /\ abandoned' = TRUE

\* ensure_server_ready: spawn when there is no process, initialize when it was not.
ensure_server_ready ==
  /\ Holding("ready")
  /\ LET p == process[Current] IN
     \/ /\ p.state = "none"
        /\ process' = [process EXCEPT ![Current] = Spawned]
        /\ UNCHANGED <<lock, caller, abandoned>>
     \/ p.state = "none" /\ discovery_fails /\ UNCHANGED process
     \/ /\ p.state # "none" /\ ~ p.initialized
        /\ process' = [process EXCEPT ![Current].asked = Append(@, "initialize")]
        /\ lock' = [lock EXCEPT !.phase = "initialize"]
        /\ UNCHANGED <<caller, abandoned>>
     \/ /\ p.state # "none" /\ p.initialized
        /\ process' = [process EXCEPT ![Current].asked = Append(@, "list")]
        /\ lock' = [lock EXCEPT !.phase = "list"]
        /\ UNCHANGED <<caller, abandoned>>
  /\ UNCHANGED <<registry, tool_index, calls, notes>>

\* request: the answer is the next message on the pipe, whoever it is for.  A
\* notification has no id and does not parse; a closed pipe is an error.
incoming(s) == IF process[s].out = <<>> THEN Notice ELSE Head(process[s].out)
read_response(s) ==
  /\ process[s].out # <<>> \/ process[s].state = "exited"
  /\ process' = [process EXCEPT ![s].out = IF @ = <<>> THEN @ ELSE Tail(@)]

initialized ==
  /\ Holding("initialize")
  /\ \/ /\ incoming(Current) # Notice
        /\ process' = [process EXCEPT ![Current].out = Tail(@), ![Current].initialized = TRUE]
        /\ lock' = [lock EXCEPT !.phase = "ready"]
        /\ UNCHANGED <<caller, abandoned>>
     \/ read_response(Current) /\ discovery_fails
  /\ UNCHANGED <<registry, tool_index, calls, notes>>

\* discover_tools: the server's routes are cleared and rebuilt, page by page.
listed(reply) ==
  IF reply = Notice THEN discovery_fails /\ UNCHANGED tool_index
  ELSE /\ LET kept == {n \in DOMAIN tool_index : tool_index[n] # Current}
              n == mcp_tool_name(Current) IN
          tool_index' = [x \in kept \cup {n} |-> IF x = n THEN Current ELSE tool_index[x]]
       /\ lock' = IF lock.i < Len(Order)
                  THEN [lock EXCEPT !.phase = "ready", !.i = @ + 1]
                  ELSE [lock EXCEPT !.phase = "route"]
       /\ UNCHANGED <<caller, abandoned>>

discover_tools ==
  /\ Holding("list")
  /\ read_response(Current) /\ listed(incoming(Current))
  /\ UNCHANGED <<registry, calls, notes>>

\* McpServerManager::call_tool: by the route of the qualified name.
route ==
  /\ Holding("route")
  /\ LET n == mcp_tool_name(caller[lock.holder].server) IN
     IF n \notin DOMAIN tool_index
     THEN /\ lock' = [lock EXCEPT !.phase = "shutdown", !.i = 1,
                                !.result = [kind |-> "unknown tool"]]
          /\ UNCHANGED process
     ELSE /\ lock' = [lock EXCEPT !.phase = "invoke", !.server = tool_index[n]]
          /\ process' = [process EXCEPT ![tool_index[n]].asked = Append(@, "call")]
  /\ UNCHANGED <<registry, tool_index, caller, abandoned, calls, notes>>

answered(reply) ==
  lock' = [lock EXCEPT !.phase = "shutdown", !.i = 1,
                       !.result = IF reply = Notice THEN [kind |-> "call failed"]
                                  ELSE [kind |-> "answer", of |-> reply, from |-> lock.server,
                                        asked |-> caller[lock.holder].server]]

invoke ==
  /\ Holding("invoke")
  /\ read_response(lock.server) /\ answered(incoming(lock.server))
  /\ UNCHANGED <<registry, tool_index, caller, abandoned, calls, notes>>

\* shutdown: kill and wait, server by server.
shutdown ==
  /\ Holding("shutdown")
  /\ process' = [process EXCEPT ![Current] = NoProcess]
  /\ IF lock.i < Len(Order)
     THEN lock' = [lock EXCEPT !.i = @ + 1] /\ UNCHANGED <<caller, abandoned>>
     ELSE /\ lock' = Free /\ abandoned' = FALSE
          /\ caller' = [caller EXCEPT ![lock.holder] = Told(lock.result)]
  /\ UNCHANGED <<registry, tool_index, calls, notes>>

\* The child processes.
reply(s) ==
  /\ process[s].state = "running" /\ process[s].asked # <<>>
  /\ process' = [process EXCEPT ![s].asked = Tail(@), ![s].out = Append(@, Head(process[s].asked))]
  /\ UNCHANGED <<registry, tool_index, lock, caller, abandoned, calls, notes>>

notify(s) ==
  /\ process[s].state = "running" /\ notes < MaxNotes
  /\ notes' = notes + 1
  /\ process' = [process EXCEPT ![s].out = Append(@, Notice)]
  /\ UNCHANGED <<registry, tool_index, lock, caller, abandoned, calls>>

server_exits(s) ==
  /\ process[s].state = "running"
  /\ process' = [process EXCEPT ![s].state = "exited"]
  /\ UNCHANGED <<registry, tool_index, lock, caller, abandoned, calls, notes>>

McpNext ==
  \/ ensure_server_ready \/ initialized \/ discover_tools
  \/ route \/ invoke \/ shutdown
  \/ \E s \in Servers : register_server(s) \/ set_auth_status(s) \/ disconnect(s)
  \/ \E s \in Stdio : reply(s) \/ notify(s) \/ server_exits(s)
  \/ \E c \in Callers : spawn_tool_call(c) \/ \E s \in Stdio : call_tool(c, s)

--------------------------------------------------------------------------------
(* Properties *)

\* A caller that is given a result has the answer to a tool call, made by the
\* server it named: no answer of another request is taken for it.  The pipe is
\* read without looking at ids, so this rests on a server writing nothing
\* unasked, and on server names that differ once they are normalised.
AnswersMatch ==
  \A c \in Callers :
    caller[c].at = "told" /\ caller[c].result.kind = "answer" =>
      /\ notes = 0 => caller[c].result.of = "call"
      /\ (\A s, t \in Stdio : s # t => Normal[s] # Normal[t]) =>
           caller[c].result.from = caller[c].result.asked

\* Between calls no server process is left over, unless the discovery of some
\* call failed: that error returns before the shutdown, and the process it
\* failed on, even an exited one, serves every later call.
NoProcessLeftOver ==
  lock = Free /\ (\E s \in Stdio : process[s].state # "none") => abandoned

\* The listing of all servers and the report of one are computed by different
\* code and say the same of every server, registered or only configured.
ReportsAgree == \A s \in Servers : merged_mcp_server_states[s] = effective_mcp_server_state(s)
================================================================================
