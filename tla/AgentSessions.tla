---------------------------- MODULE AgentSessions ----------------------------
(***************************************************************************)
(* The Agent tool and the Session tools (tools lib.rs).  Agent writes a    *)
(* task file and a manifest and runs a sub-agent on a thread that records  *)
(* its end in both files; nothing else tells whether it runs.  The Session *)
(* tools read those files, the session files the CLI saves, and the        *)
(* threads of a local server over HTTP, while agents end, the CLI saves,   *)
(* runs advance, other clients send turns, requests time out and the       *)
(* process that runs the agents is killed.                                 *)
(***************************************************************************)
EXTENDS Naturals, Sequences, FiniteSets

CONSTANTS Agents,    \* agents that may be started
          Scopes     \* what a behaviour exercises:
                     \*   agents, types: agents and the sub-agent types that are asked for
                     \*   kinds: session kinds asked for: "thread", "managed_session", "agent_run", "all"
                     \*   locations: where a server may be found: "url", "none", "torn", "remote"
                     \*   polls, runs: bounds on the polls of one SessionWait and the runs of the thread

ASSUME AgentsAssumption ==
  \A s \in Scopes : s.agents \subseteq Agents /\ s.polls \in Nat /\ s.runs \in Nat

VARIABLES scope,     \* one of Scopes, fixed
          manifest,  \* manifest file of an agent: "absent", "torn", "running", "completed", "failed"
          output,    \* sections of its output file
          job,       \* the agent: how far its thread is
          changed,   \* history: the agent ran a tool that changes something
          botched,   \* history: writing the end of the agent failed
          saved,     \* the CLI's session file: "absent", "torn", "idle", "awaiting_user_input"
          process_killed,    \* the process was killed
          located,   \* how a server is found
          thread,    \* the server's thread: its status and run
          stopped,   \* history: runs that have stopped running
          op,        \* the tool call in progress
          late,      \* a request its caller gave up on that is still on its way, or "none"
          own,       \* history: the last run a send or resume was told of
          replied     \* what the last tool call answered

agentVars == <<scope, manifest, output, job, changed, botched, saved, process_killed, located, thread, stopped,
               op, late, own, replied>>
filesOnly == <<saved, process_killed, located, thread, stopped, late, own>>

NoOp == [tool |-> "none", kind |-> "none", id |-> "none", at |-> "idle", left |-> {}, seen |-> {}, polls |-> 0]
NoJob == [at |-> "none", type |-> "none", status |-> "none", outcome |-> "none"]

AgentsInit ==
  /\ scope \in Scopes
  /\ manifest = [a \in Agents |-> "absent"] /\ output = [a \in Agents |-> <<>>]
  /\ job = [a \in Agents |-> NoJob]
  /\ changed = [a \in Agents |-> FALSE] /\ botched = [a \in Agents |-> FALSE]
  /\ saved = "absent" /\ process_killed = FALSE /\ located \in scope.locations
  /\ thread = [status |-> "idle", run |-> 0] /\ stopped = {}
  /\ op = NoOp /\ late = "none" /\ own = 0 /\ replied = [is |-> "none"]

ends(r) == op' = NoOp /\ replied' = r
error(why) == [is |-> "error", why |-> why]

(***************************************************************************)
(* Agent: the task file, the manifest, the thread.                         *)
(***************************************************************************)
\* A type that is not known gets every tool.
normalize_subagent_type(t) ==
  CASE t \in {"explorer", "Explore"} -> "Explore" [] t \in {"verify", "Verification"} -> "Verification"
    [] t \in {"plan", "Plan"} -> "Plan" [] t = "guide" -> "openyak-guide"
    [] t = "statusline" -> "statusline-setup" [] t = "" -> "general-purpose" [] OTHER -> t

\* The tools by what they can do: "read", "note" (todo list, messages), "write".
allowed_tools_for_subagent(t) ==
  CASE t = "Explore" -> {"read"}
    [] t \in {"Plan", "openyak-guide"} -> {"read", "note"}
    [] OTHER -> {"read", "note", "write"}

\* fs::write truncates and then writes; either may fail.
execute_agent_start(a, t) ==
  /\ op = NoOp /\ job[a] = NoJob
  /\ \/ ends(error("store")) /\ UNCHANGED <<output, job>>
     \/ /\ output' = [output EXCEPT ![a] = <<"task">>]
        /\ job' = [job EXCEPT ![a] = [NoJob EXCEPT !.at = "truncate", !.type = normalize_subagent_type(t)]]
        /\ op' = [NoOp EXCEPT !.tool = "Agent", !.id = a, !.at = "starting"] /\ UNCHANGED replied
  /\ UNCHANGED <<manifest, changed, botched, filesOnly>>

\* write_agent_manifest("running"), then the thread is spawned.
execute_agent_manifest(a) ==
  /\ op.at = "starting" /\ op.id = a
  /\ CASE job[a].at = "truncate" ->
            \/ manifest' = [manifest EXCEPT ![a] = "torn"] /\ job' = [job EXCEPT ![a].at = "write"]
               /\ UNCHANGED <<op, replied>>
            \/ UNCHANGED manifest /\ job' = [job EXCEPT ![a].at = "over"] /\ ends(error("manifest"))
       [] job[a].at = "write" ->
            \/ manifest' = [manifest EXCEPT ![a] = "running"] /\ job' = [job EXCEPT ![a].at = "spawn"]
               /\ UNCHANGED <<op, replied>>
            \/ UNCHANGED manifest /\ job' = [job EXCEPT ![a].at = "over"] /\ ends(error("manifest"))
       [] job[a].at = "spawn" ->
            /\ UNCHANGED manifest
            /\ \/ job' = [job EXCEPT ![a].at = "run"] /\ ends([is |-> "started", id |-> a])
               \/ /\ job' = [job EXCEPT ![a].at = "append", ![a].status = "failed", ![a].outcome = "spawn"]
                  /\ op' = [op EXCEPT !.at = "spawn failed"] /\ UNCHANGED replied
  /\ UNCHANGED <<output, changed, botched, filesOnly>>

execute_agent_failed(a) ==
  /\ op.at = "spawn failed" /\ op.id = a /\ job[a].at = "over"
  /\ ends(error("spawn")) /\ UNCHANGED <<manifest, output, job, changed, botched, filesOnly>>

\* A tool the type does not have is refused, and the agent goes on.
subagent_execute(a) ==
  /\ job[a].at = "run" /\ "write" \in allowed_tools_for_subagent(job[a].type)
  /\ changed' = [changed EXCEPT ![a] = TRUE]
  /\ UNCHANGED <<manifest, output, job, botched, op, replied, filesOnly>>

\* run_turn ends: with a text, with a question nobody will answer, with an
\* error, or in a panic that spawn_agent_job catches.
run_agent_job(a) ==
  /\ job[a].at = "run"
  /\ \E o \in {"text", "question", "error", "panic"} :
       job' = [job EXCEPT ![a].at = "append", ![a].outcome = o,
                          ![a].status = IF o \in {"text", "question"} THEN "completed" ELSE "failed"]
  /\ UNCHANGED <<manifest, output, changed, botched, op, replied, filesOnly>>

\* When recording "completed" fails the end is recorded again, as "failed";
\* when that fails too it is given up.
persist_failed(a) ==
  /\ botched' = [botched EXCEPT ![a] = TRUE]
  /\ job' = IF job[a].status = "completed" THEN [job EXCEPT ![a].at = "append", ![a].status = "failed"]
            ELSE [job EXCEPT ![a].at = "over"]

\* Mutant: the manifest first.
persist_agent_terminal_state_manifest_first(a) ==
  /\ job[a].status # "none"
  /\ CASE job[a].at = "append" -> /\ manifest' = [manifest EXCEPT ![a] = job[a].status]
                                  /\ job' = [job EXCEPT ![a].at = "write"] /\ UNCHANGED <<output, botched>>
       [] job[a].at = "write" -> /\ output' = [output EXCEPT ![a] = Append(@, job[a].status)]
                                 /\ job' = [job EXCEPT ![a].at = "over"] /\ UNCHANGED <<manifest, botched>>
       [] OTHER -> FALSE
  /\ UNCHANGED <<changed, op, replied, filesOnly>>

persist_agent_terminal_state(a) ==
  /\ job[a].status # "none"
  /\ CASE job[a].at = "append" ->
            \/ /\ output' = [output EXCEPT ![a] = Append(@, job[a].status)]
               /\ job' = [job EXCEPT ![a].at = "truncate"] /\ UNCHANGED <<manifest, botched>>
            \/ persist_failed(a) /\ UNCHANGED <<manifest, output>>
       [] job[a].at = "truncate" ->
            \/ /\ manifest' = [manifest EXCEPT ![a] = "torn"]
               /\ job' = [job EXCEPT ![a].at = "write"] /\ UNCHANGED <<output, botched>>
            \/ persist_failed(a) /\ UNCHANGED <<manifest, output>>
       [] job[a].at = "write" ->
            \/ /\ manifest' = [manifest EXCEPT ![a] = job[a].status]
               /\ job' = [job EXCEPT ![a].at = "over"] /\ UNCHANGED <<output, botched>>
            \/ persist_failed(a) /\ UNCHANGED <<manifest, output>>
       [] OTHER -> FALSE
  /\ UNCHANGED <<changed, op, replied, filesOnly>>

\* The request of the call in progress, when it may still reach the server.
given_up == IF op.at = "request" /\ op.tool \in {"SessionSend", "SessionResume"} THEN op.tool ELSE late

\* The process ends: its threads and its tool call with it.
kill ==
  /\ ~process_killed /\ process_killed' = TRUE
  /\ job' = [a \in Agents |-> IF job[a].at \in {"none", "over"} THEN job[a] ELSE [job[a] EXCEPT !.at = "dead"]]
  /\ op' = NoOp /\ replied' = [is |-> "none"]
  /\ late' = given_up /\ own' = 0
  /\ UNCHANGED <<manifest, output, changed, botched, saved, located, thread, stopped>>

\* The CLI saves its session with one fs::write, too.
save_session ==
  /\ {"managed_session", "all"} \cap scope.kinds # {}
  /\ saved' \in (IF saved = "torn" THEN {"idle", "awaiting_user_input"} ELSE {"torn"})
  /\ UNCHANGED <<manifest, output, job, changed, botched, process_killed, located, thread, stopped, op, late, own,
                 replied>>

(***************************************************************************)
(* Session tools: how a call begins and in which order it looks.           *)
(***************************************************************************)
Capabilities ==
  [thread |-> {"SessionList", "SessionGet", "SessionCreate", "SessionSend", "SessionResume", "SessionWait"},
   managed_session |-> {"SessionList", "SessionGet"},
   agent_run |-> {"SessionList", "SessionGet", "SessionWait"}]

first_step(kind) ==
  CASE kind \in {"thread", "all"} -> "discover" [] kind = "managed_session" -> "managed" [] OTHER -> "agents"

run_session_tool(tool, kind, id) ==
  /\ op = NoOp
  /\ kind = "all" => tool = "SessionList"
  /\ kind = "agent_run" /\ tool # "SessionList" => id \in Agents
  /\ IF kind # "all" /\ tool \notin Capabilities[kind]
     THEN ends(error("unsupported"))
     ELSE /\ op' = [NoOp EXCEPT !.tool = tool, !.kind = kind, !.id = id, !.at = first_step(kind)]
          /\ replied' = [is |-> "none"]
  /\ UNCHANGED <<manifest, output, job, changed, botched, saved, process_killed, located, thread, stopped, late, own>>

readOnly == <<manifest, output, job, changed, botched, saved, process_killed, located>>

\* A listing of all kinds goes on without the threads, with a warning.
thread_step_fails(why) ==
  IF op.kind = "all" THEN op' = [op EXCEPT !.at = "managed"] /\ UNCHANGED replied ELSE ends(error(why))

(***************************************************************************)
(* Threads: find the server, one request of at most two seconds.           *)
(***************************************************************************)
\* validate_local_session_server_url takes loopback addresses only.
discover_session_server_url ==
  /\ op.at = "discover"
  /\ IF located = "url" THEN op' = [op EXCEPT !.at = "request"] /\ UNCHANGED replied
     ELSE thread_step_fails(located)
  /\ UNCHANGED <<readOnly, thread, stopped, late, own>>

\* The answer, or the time is up and the request stays on its way.
request_times_out ==
  /\ op.at = "request"
  /\ late' = given_up
  /\ thread_step_fails("timeout")
  /\ UNCHANGED <<readOnly, thread, stopped, own>>

terminal(s) == s \in {"idle", "awaiting_user_input", "interrupted"}
accepted(r) == [is |-> "accepted", run |-> r]
may_poll == op.polls < scope.polls

\* What a snapshot of the thread means for the call that asked for it.
snapshot ==
  CASE op.kind = "all" -> op' = [op EXCEPT !.at = "managed"] /\ UNCHANGED replied
    [] op.tool = "SessionWait" ->
         \/ /\ terminal(thread.status)
            /\ ends([is |-> "waited", status |-> thread.status, terminal |-> TRUE])
         \/ /\ ~terminal(thread.status)
            /\ ends([is |-> "waited", status |-> thread.status, terminal |-> FALSE])
         \/ /\ ~terminal(thread.status) /\ may_poll
            /\ op' = [op EXCEPT !.at = "discover", !.polls = @ + 1] /\ UNCHANGED replied
    [] OTHER -> ends([is |-> "shown", status |-> thread.status])

\* The server's handlers: a turn needs an idle or interrupted thread, an input
\* a waiting one; both leave the thread running and answer with the run.
takes(tool) == IF tool = "SessionSend" THEN {"idle", "interrupted"} ELSE {"awaiting_user_input"}
start_run(tool) ==
  /\ thread.status \in takes(tool)
  /\ tool = "SessionSend" => thread.run < scope.runs
  /\ thread' = [status |-> "running", run |-> IF tool = "SessionSend" THEN thread.run + 1 ELSE thread.run]

serve ==
  /\ op.at = "request"
  /\ \/ /\ op.tool \notin {"SessionSend", "SessionResume"}
        /\ IF op.tool = "SessionCreate" THEN ends([is |-> "created"]) ELSE snapshot
        /\ UNCHANGED <<thread, own>>
     \/ /\ op.tool \in {"SessionSend", "SessionResume"} /\ start_run(op.tool)
        /\ own' = thread'.run /\ ends(accepted(thread'.run))
     \/ /\ op.tool \in {"SessionSend", "SessionResume"} /\ thread.status \notin takes(op.tool)
        /\ ends(error("conflict")) /\ UNCHANGED <<thread, own>>
  /\ UNCHANGED <<readOnly, stopped, late>>

\* A request whose caller has given up is served all the same, or refused.
serve_late ==
  /\ late # "none" /\ late' = "none"
  /\ start_run(late) \/ (thread.status \notin takes(late) /\ UNCHANGED thread)
  /\ UNCHANGED <<readOnly, stopped, op, own, replied>>

\* Runs go on, other clients send turns and answers, the server restarts.
server_advances ==
  /\ \/ /\ thread.status = "running"
        /\ thread' \in [status : {"idle", "awaiting_user_input", "interrupted"}, run : {thread.run}]
        /\ stopped' = stopped \cup {thread.run}
     \/ /\ thread.status \in {"idle", "interrupted"} /\ thread.run < scope.runs
        /\ thread' = [status |-> "running", run |-> thread.run + 1] /\ UNCHANGED stopped
     \/ /\ thread.status = "awaiting_user_input"
        /\ thread' \in [status : {"running", "interrupted"}, run : {thread.run}] /\ UNCHANGED stopped
  /\ UNCHANGED <<readOnly, op, late, own, replied>>

(***************************************************************************)
(* Files: every *.json of the directory is loaded before one is picked;    *)
(* a file that does not parse fails the call.                              *)
(***************************************************************************)
list_managed_session_records ==
  /\ op.at = "managed"
  /\ CASE saved = "torn" -> ends(error("session file"))
       [] op.kind = "all" -> op' = [op EXCEPT !.at = "agents"] /\ UNCHANGED replied
       [] op.tool = "SessionList" -> ends([is |-> "listed"])
       [] saved = "absent" -> ends(error("not found"))
       [] OTHER -> ends([is |-> "shown", status |-> saved])
  /\ UNCHANGED <<readOnly, thread, stopped, late, own>>

list_agent_run_records ==
  /\ op.at = "agents"
  /\ op' = [op EXCEPT !.at = "load", !.left = {a \in Agents : manifest[a] # "absent"}, !.seen = {}]
  /\ UNCHANGED <<readOnly, thread, stopped, late, own, replied>>

load_agent_run_record(a) ==
  /\ op.at = "load" /\ a \in op.left
  /\ IF manifest[a] = "torn" THEN ends(error("manifest file"))
     ELSE /\ op' = [op EXCEPT !.at = "output", !.left = @ \ {a},
                              !.seen = @ \cup {[id |-> a, status |-> manifest[a], output |-> <<>>]}]
          /\ UNCHANGED replied
  /\ UNCHANGED <<readOnly, thread, stopped, late, own>>

load_agent_output(r) ==
  /\ op.at = "output" /\ r \in op.seen /\ r.output = <<>>
  /\ op' = [op EXCEPT !.at = "load", !.seen = (@ \ {r}) \cup {[r EXCEPT !.output = output[r.id]]}]
  /\ UNCHANGED <<readOnly, thread, stopped, late, own, replied>>

\* find_agent_run_record, and what the tool makes of the record.
find_agent_run_record ==
  LET found == {r \in op.seen : r.id = op.id} IN
  /\ op.at = "load" /\ op.left = {}
  /\ IF op.tool = "SessionList" THEN ends([is |-> "listed", records |-> op.seen])
     ELSE IF found = {} THEN ends(error("not found"))
     ELSE \E r \in found :
       IF op.tool = "SessionGet" THEN ends([is |-> "listed", records |-> found])
       ELSE \/ /\ r.status \in {"completed", "failed"}
               /\ ends([is |-> "listed", records |-> found])
            \/ r.status = "running" /\ ends([is |-> "listed", records |-> found])
            \/ /\ r.status = "running" /\ may_poll
               /\ op' = [op EXCEPT !.at = "agents", !.polls = @ + 1] /\ UNCHANGED replied
  /\ UNCHANGED <<readOnly, thread, stopped, late, own>>

AgentsStep ==
  \/ \E a \in scope.agents :
       \/ \E t \in scope.types : execute_agent_start(a, t)
       \/ execute_agent_manifest(a) \/ execute_agent_failed(a) \/ subagent_execute(a)
       \/ run_agent_job(a) \/ persist_agent_terminal_state(a) \/ load_agent_run_record(a)
  \/ kill \/ save_session
  \/ \E tool \in UNION {Capabilities[k] : k \in DOMAIN Capabilities}, kind \in scope.kinds :
       \E id \in scope.agents : run_session_tool(tool, kind, id)
  \/ discover_session_server_url \/ request_times_out \/ serve \/ serve_late \/ server_advances
  \/ list_managed_session_records \/ list_agent_run_records \/ find_agent_run_record
  \/ \E r \in op.seen : load_agent_output(r)

AgentsNext == AgentsStep /\ UNCHANGED scope

(***************************************************************************)
(* Properties.                                                             *)
(***************************************************************************)
\* A record that is shown as completed or failed comes with the output that
\* says so last: the end is appended before the manifest names it, and the
\* manifest is read before the output, whatever happens in between.
EndComesWithResult ==
  replied.is = "listed" /\ "records" \in DOMAIN replied =>
    \A r \in replied.records :
      r.status \in {"completed", "failed"} => r.output[Len(r.output)] = r.status

\* What a manifest says is so: "completed" means the agent's turn ended, an
\* agent shown as running has a thread, or lost it when the process was killed
\* or its end could not be written, and "failed" without a failure happens
\* only in the last case.
ManifestTruthful ==
  \A a \in Agents :
    /\ manifest[a] = "completed" => job[a].outcome \in {"text", "question"}
    /\ manifest[a] = "failed" => job[a].outcome \notin {"text", "question"} \/ botched[a]
    /\ manifest[a] = "running" => job[a].at # "over" \/ botched[a]

\* An agent whose type has only reading tools changes nothing.
ReadersDoNotWrite ==
  \A a \in Agents : changed[a] => job[a].type \notin {"Explore", "Plan", "openyak-guide"}

\* A wait that follows an accepted send or resume and reports the thread
\* terminal means that run has stopped at least once since.
WaitFollowsSend ==
  (replied.is = "waited" /\ replied.terminal) => own = 0 \/ own \in stopped

AgentsSound == EndComesWithResult /\ ManifestTruthful /\ ReadersDoNotWrite /\ WaitFollowsSend
-----------------------------------------------------------------------------
(***************************************************************************)
(* Why.  An end is appended to the output before the manifest names it,    *)
(* and stays; a record is read the other way round, one at a time.         *)
(***************************************************************************)
AgentStatuses == {"running", "completed", "failed"}
Sections == {"task", "completed", "failed"}
AgentRecord == [id : Agents, status : AgentStatuses, output : Seq(Sections)]
Ended(a) == manifest[a] \in {"completed", "failed"}
SaysLast(out, status) == out # <<>> /\ out[Len(out)] = status

AgentTypeOK ==
  /\ scope \in Scopes
  /\ manifest \in [Agents -> AgentStatuses \cup {"absent", "torn"}]
  /\ output \in [Agents -> Seq(Sections)]
  /\ job \in [Agents ->
       [at : {"none", "truncate", "write", "spawn", "run", "append", "over", "dead"},
        type : {"none"} \cup {normalize_subagent_type(t) : t \in UNION {s.types : s \in Scopes}},
        status : {"none", "completed", "failed"},
        outcome : {"none", "spawn", "text", "question", "error", "panic"}]]
  /\ changed \in [Agents -> BOOLEAN] /\ botched \in [Agents -> BOOLEAN]
  /\ thread \in [status : {"idle", "running", "awaiting_user_input", "interrupted"}, run : Nat]
  /\ own \in Nat
  /\ DOMAIN op = DOMAIN NoOp
  /\ op.left \subseteq Agents /\ op.seen \subseteq AgentRecord

\* An agent's files and its thread.
FilesFollow(a) ==
  /\ job[a] = NoJob => manifest[a] = "absent" /\ ~changed[a]
  /\ job[a] # NoJob => output[a] # <<>>
  /\ job[a].status = "completed" => job[a].outcome \in {"text", "question"}
  /\ job[a].status = "failed" => job[a].outcome \notin {"text", "question"} \/ botched[a]
  /\ job[a].at \in {"truncate", "write"} =>
       IF job[a].status = "none" THEN manifest[a] \in {"absent", "torn"}
       ELSE SaysLast(output[a], job[a].status)
  /\ job[a].at \in {"spawn", "run"} => job[a].status = "none" /\ ~Ended(a)
  /\ Ended(a) => job[a].at = "over" /\ SaysLast(output[a], manifest[a])

\* The call that starts an agent is ahead of its thread.
Starting ==
  op.at = "starting" => /\ op.id \in Agents /\ job[op.id].status = "none"
                        /\ job[op.id].at \in {"truncate", "write", "spawn"}

\* The records a Session call has read: one may lack its output.
RecordsRead ==
  /\ \A a \in op.left : manifest[a] # "absent"
  /\ \A r \in op.seen :
       /\ job[r.id] # NoJob
       /\ r.output = <<>> =>
            op.at = "output" /\ (r.status \in {"completed", "failed"} => manifest[r.id] = r.status)
       /\ r.output # <<>> /\ r.status \in {"completed", "failed"} => SaysLast(r.output, r.status)
  /\ \A r, q \in op.seen : r.output = <<>> /\ q.output = <<>> => r = q

\* A run that was accepted stops before the thread does anything else.
RunStops == own = 0 \/ own \in stopped \/ (thread.status = "running" /\ thread.run = own)

AgentsInv ==
  /\ AgentTypeOK
  /\ \A a \in Agents : FilesFollow(a)
  /\ Starting /\ RecordsRead /\ RunStops /\ AgentsSound
=============================================================================
