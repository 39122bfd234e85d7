---------------------------- MODULE ServerDaemon ----------------------------
(***************************************************************************)
(* The operator commands of the CLI (openyak-cli/src/main.rs) for the      *)
(* local thread server of one workspace: server start --detach, recover    *)
(* and stop, around the discovery file that the server processes write.    *)
(* Commands and servers are processes of their own and share nothing but   *)
(* the file, the listening sockets and the process table, so that every    *)
(* read, probe, signal and write is a step.                                *)
(***************************************************************************)
EXTENDS Naturals, FiniteSets

CONSTANTS Starts, Recovers, Stops, \* the commands that may be run
          MaxServers,  \* bound on the server processes
          MaxPolls,    \* polls that fit into a timeout
          Scenes       \* what a behaviour exercises:
                       \*   commands: the ones that are run
                       \*   servers, crashes: how many are spawned, and killed from outside
                       \*   foreground: how many a user may start with `server`
                       \*   binds: the --bind targets in use
                       \*   serial: one command at a time

ASSUME DaemonAssumption ==
  /\ Starts \cap Recovers = {} /\ (Starts \cup Recovers) \cap Stops = {}
  /\ {MaxServers, MaxPolls} \subseteq Nat
  /\ Scenes \subseteq [commands : SUBSET (Starts \cup Recovers \cup Stops), servers : 1..MaxServers,
                       crashes : Nat, foreground : Nat, binds : SUBSET {"default", "fixed"},
                       serial : BOOLEAN]

VARIABLES scene,     \* one of Scenes, fixed
          discovery, \* the discovery file: its content and the pid it names
          state,     \* of each server process
          bind,      \* the bind target of each server process
          orphaned,  \* servers that write into a file that was unlinked
          signalled, \* processes that were sent a SIGTERM
          users,     \* servers started in the foreground
          crashes,
          pc, goal,  \* of each command: its step, and where inspecting leads
          report,    \* the status report it works with
          child,     \* the server it launched, 0 for none
          asked,     \* its --bind target
          polls,
          result     \* the status it reported, "none" before

servers == <<scene, state, bind, orphaned, signalled, users, crashes>>
vars == <<discovery, servers, pc, goal, report, child, asked, polls, result>>

Commands == Starts \cup Recovers \cup Stops
Pids == 1..MaxServers

(* "empty" is a file that is truncated and not yet written, "mixed" one    *)
(* with the rest of a longer record behind a shorter one. Neither parses.  *)
Discovery == [kind : {"none", "empty", "mixed"}, pid : {0}]
               \cup [kind : {"info"}, pid : Pids]
NoFile == [kind |-> "none", pid |-> 0]
Empty == [kind |-> "empty", pid |-> 0]
Mixed == [kind |-> "mixed", pid |-> 0]
Info(p) == [kind |-> "info", pid |-> p]

(* "bound": the listener accepts connections and loads its state; "open":  *)
(* the discovery file is truncated; "announcing": it is written; "drop":   *)
(* the guard found its own pid in it. "foreign": the pid of a dead server  *)
(* that the system gave to some other program.                             *)
States == {"unborn", "binding", "bound", "open", "announcing", "serving",
           "drop", "dead", "foreign"}
Statuses == {"not_running", "running", "stale_registration",
             "invalid_registration"}
Results == {"none", "error", "started", "already_running", "bind_conflict",
            "start_failed", "recovered", "recover_failed",
            "nothing_to_recover", "stopped", "stop_failed",
            "stale_registration_cleared", "already_stopped",
            "invalid_registration"}
Goals == {"prepare", "refresh", "ready", "failed", "recover", "stop"}
Steps == {"new", "read", "probe", "identity", "matches", "remove", "launch",
          "await", "terminate", "shutdown", "kill", "done"} \cup Goals

TypeOK ==
  /\ scene \in Scenes
  /\ discovery \in Discovery
  /\ state \in [Pids -> States]
  /\ bind \in [Pids -> {"default", "fixed"}]
  /\ orphaned \subseteq Pids /\ signalled \subseteq Pids
  /\ users \subseteq Pids /\ crashes \in Nat
  /\ pc \in [Commands -> Steps]
  /\ goal \in [Commands -> Goals]
  /\ report \in [Commands -> [status : Statuses, pid : 0..MaxServers]]
  /\ child \in [Commands -> 0..MaxServers]
  /\ asked \in [Commands -> {"default", "fixed"}]
  /\ polls \in [Commands -> 0..MaxPolls]
  /\ result \in [Commands -> Results]

Init ==
  /\ scene \in Scenes
  /\ discovery = NoFile
  /\ state = [p \in Pids |-> "unborn"]
  /\ bind = [p \in Pids |-> "default"]
  /\ orphaned = {} /\ signalled = {} /\ users = {} /\ crashes = 0
  /\ pc = [c \in Commands |-> "new"]
  /\ goal = [c \in Commands |-> "prepare"]
  /\ report = [c \in Commands |-> [status |-> "not_running", pid |-> 0]]
  /\ child = [c \in Commands |-> 0]
  /\ asked = [c \in Commands |-> "default"]
  /\ polls = [c \in Commands |-> 0]
  /\ result = [c \in Commands |-> "none"]

-----------------------------------------------------------------------------
(* Processes and sockets. The default bind has port 0: the system picks a  *)
(* free one, here the number of the process.                               *)
Alive(p) == state[p] \notin {"unborn", "dead", "foreign"}
Listening(p) == state[p] \in {"bound", "open", "announcing", "serving",
                              "drop"}
base_url(p) == IF bind[p] = "fixed" THEN 0 ELSE p
probe_local_thread_server(u) == \E q \in Pids : Listening(q) /\ base_url(q) = u

spawned(p, b) ==
  /\ p <= scene.servers
  /\ state[p] = "unborn" /\ \A q \in 1..(p - 1) : state[q] # "unborn"
  /\ state' = [state EXCEPT ![p] = "binding"]
  /\ bind' = [bind EXCEPT ![p] = b]

become(p, s) == state' = [state EXCEPT ![p] = s]
commands == <<scene, pc, goal, report, child, asked, polls, result>>

(* Unlinking the file: whoever has it open writes into nothing.            *)
remove_file ==
  /\ discovery' = NoFile
  /\ orphaned' = orphaned \cup {p \in Pids : state[p] = "open"}

(* run_server: a user runs a server in the foreground, with no preflight.  *)
run_server(p, b) ==
  /\ Cardinality(users) < scene.foreground
  /\ users' = users \cup {p}
  /\ spawned(p, b)
  /\ UNCHANGED <<discovery, orphaned, signalled, crashes, commands>>

listen(p) ==
  /\ state[p] = "binding"
  /\ bind[p] = "fixed" => ~probe_local_thread_server(0)
  /\ become(p, "bound")
  /\ UNCHANGED <<discovery, bind, orphaned, signalled, users, crashes,
                 commands>>

(* The address is in use, the state does not load or a write fails.        *)
run_server_fails(p) ==
  /\ state[p] \in {"binding", "bound", "open"}
  /\ become(p, "dead")
  /\ UNCHANGED <<discovery, bind, orphaned, signalled, users, crashes,
                 commands>>

(* write_thread_server_info is fs::write: truncate, then write.            *)
open_thread_server_info(p) ==
  /\ state[p] = "bound"
  /\ become(p, "open")
  /\ discovery' = Empty
  /\ UNCHANGED <<bind, orphaned, signalled, users, crashes, commands>>

write_thread_server_info(p) ==
  /\ state[p] = "open"
  /\ become(p, "announcing")
  /\ discovery' \in IF p \in orphaned THEN {discovery}
                    ELSE IF discovery = Empty THEN {Info(p)}
                    ELSE {Info(p), Mixed}
  /\ UNCHANGED <<bind, orphaned, signalled, users, crashes, commands>>

serve(p) ==
  /\ state[p] = "announcing"
  /\ become(p, "serving")
  /\ UNCHANGED <<discovery, bind, orphaned, signalled, users, crashes,
                 commands>>

(* The line on stdout fails (a closed pipe): run_server returns and drops  *)
(* its guard. A detached server writes to /dev/null.                       *)
guard_matches(p) ==
  /\ state[p] = "announcing" /\ p \in users
  /\ become(p, IF discovery = Info(p) THEN "drop" ELSE "dead")
  /\ UNCHANGED <<discovery, bind, orphaned, signalled, users, crashes,
                 commands>>

guard_removes(p) ==
  /\ state[p] = "drop"
  /\ become(p, "dead")
  /\ remove_file
  /\ UNCHANGED <<bind, signalled, users, crashes, commands>>

(* A process is killed from outside, dies of a SIGTERM (there is no        *)
(* handler, so that the guard does not run), or its pid is used again; not *)
(* while its parent has not waited for it, or while a command is between   *)
(* its check of the pid and the signal.                                    *)
crash(p) ==
  /\ Alive(p) /\ crashes < scene.crashes
  /\ crashes' = crashes + 1
  /\ become(p, "dead")
  /\ UNCHANGED <<discovery, bind, orphaned, signalled, users, commands>>

terminated(p) ==
  /\ Alive(p) /\ p \in signalled
  /\ become(p, "dead")
  /\ UNCHANGED <<discovery, bind, orphaned, signalled, users, crashes,
                 commands>>

reuse_pid(p) ==
  /\ state[p] = "dead" /\ p \notin signalled
  /\ \A c \in Commands :
       pc[c] \notin {"new", "done"} =>
         /\ child[c] # p
         /\ ~(pc[c] \in {"stop", "terminate"} /\ report[c] =
                [status |-> "running", pid |-> p])
  /\ become(p, "foreign")
  /\ UNCHANGED <<discovery, bind, orphaned, signalled, users, crashes,
                 commands>>

-----------------------------------------------------------------------------
(* The commands. *)
goto(c, l) == pc' = [pc EXCEPT ![c] = l]
inspect(c, g) == goto(c, "read") /\ goal' = [goal EXCEPT ![c] = g]
inspected(c, s, p) ==
  /\ report' = [report EXCEPT ![c] = [status |-> s, pid |-> p]]
  /\ goto(c, goal[c])

(* What recover makes of the outcome of the start it runs.                 *)
recover_status(s) == CASE s = "started" -> "recovered"
                       [] s = "start_failed" -> "recover_failed"
                       [] OTHER -> s
finish(c, s) ==
  /\ goto(c, "done")
  /\ result' = [result EXCEPT ![c] =
                  IF c \in Recovers THEN recover_status(s) ELSE s]

begin(c) ==
  /\ pc[c] = "new"
  /\ scene.serial => \A d \in Commands : pc[d] \in {"new", "done"}
  /\ \E b \in IF c \in Starts THEN scene.binds ELSE {"default"} :
       asked' = [asked EXCEPT ![c] = b]
  /\ inspect(c, CASE c \in Starts -> "prepare"
                  [] c \in Recovers -> "recover"
                  [] OTHER -> "stop")
  /\ UNCHANGED <<discovery, servers, report, child, polls, result>>

(* inspect_thread_server_status_for: the file, the socket, the identity.   *)
read_thread_server_info(c) ==
  /\ pc[c] = "read"
  /\ \/ discovery = NoFile /\ inspected(c, "not_running", 0)
     \/ discovery \in {Empty, Mixed} /\ inspected(c, "invalid_registration", 0)
     \/ /\ discovery.kind = "info"
        /\ report' = [report EXCEPT ![c].pid = discovery.pid]
        /\ goto(c, "probe")
  /\ UNCHANGED <<discovery, servers, goal, child, asked, polls, result>>

probe(c) ==
  LET p == report[c].pid IN
  /\ pc[c] = "probe"
  /\ IF probe_local_thread_server(base_url(p))
     THEN goto(c, "identity") /\ UNCHANGED report
     ELSE inspected(c, "stale_registration", p)
  /\ UNCHANGED <<discovery, servers, goal, child, asked, polls, result>>

(* The listener must know the token of the record and answer with its pid; *)
(* the answer may also time out.                                           *)
validate_identity(c) ==
  LET p == report[c].pid IN
  /\ pc[c] = "identity"
  /\ \/ state[p] = "serving" /\ inspected(c, "running", p)
     \/ inspected(c, "invalid_registration", p)
  /\ UNCHANGED <<discovery, servers, goal, child, asked, polls, result>>

(* running_thread_server_start_report *)
report_running(c) ==
  finish(c, IF asked[c] = "default" \/ base_url(report[c].pid) = 0
            THEN "already_running" ELSE "bind_conflict")

(* Mutant: an invalid record is cleared like a stale one.                  *)
prepare_thread_server_start_any(c) ==
  /\ pc[c] = "prepare"
  /\ CASE report[c].status = "running" -> report_running(c)
       [] report[c].status \in {"invalid_registration",
                                "stale_registration"} ->
            goto(c, "matches") /\ UNCHANGED result
       [] OTHER -> goto(c, "launch") /\ UNCHANGED result
  /\ UNCHANGED <<discovery, servers, goal, report, child, asked, polls>>

prepare_thread_server_start(c) ==
  /\ pc[c] = "prepare"
  /\ CASE report[c].status = "running" -> report_running(c)
       [] report[c].status = "invalid_registration" ->
            finish(c, "invalid_registration")
       [] report[c].status = "stale_registration" ->
            goto(c, "matches") /\ UNCHANGED result
       [] OTHER -> goto(c, "launch") /\ UNCHANGED result
  /\ UNCHANGED <<discovery, servers, goal, report, child, asked, polls>>

(* The second look, after the stale record turned out to be gone.          *)
refreshed_status(c) ==
  /\ pc[c] = "refresh"
  /\ CASE report[c].status = "running" -> report_running(c)
       [] report[c].status = "invalid_registration" ->
            finish(c, "invalid_registration")
       [] OTHER -> goto(c, "launch") /\ UNCHANGED result
  /\ UNCHANGED <<discovery, servers, goal, report, child, asked, polls>>

(* remove_thread_server_info_if_matches_pid: reads, then removes.          *)
matches_pid(c) ==
  /\ pc[c] = "matches"
  /\ IF discovery = Info(report[c].pid)
     THEN goto(c, "remove") /\ UNCHANGED <<goal, result>>
     ELSE IF c \in Stops
     THEN /\ finish(c, IF report[c].status = "running" THEN "stopped"
                       ELSE "already_stopped")
          /\ UNCHANGED goal
     ELSE inspect(c, "refresh") /\ UNCHANGED result
  /\ UNCHANGED <<discovery, servers, report, child, asked, polls>>

remove_info(c) ==
  /\ pc[c] = "remove"
  /\ IF discovery = NoFile
     THEN finish(c, "error") /\ UNCHANGED <<discovery, orphaned>>
     ELSE /\ remove_file
          /\ IF c \in Stops
             THEN finish(c, IF report[c].status = "running" THEN "stopped"
                            ELSE "stale_registration_cleared")
             ELSE goto(c, "launch") /\ UNCHANGED result
  /\ UNCHANGED <<scene, state, bind, signalled, users, crashes, goal, report, child,
                 asked, polls>>

launch_detached_thread_server(c) ==
  /\ pc[c] = "launch"
  /\ \/ \E p \in Pids : /\ spawned(p, asked[c])
                        /\ child' = [child EXCEPT ![c] = p]
                        /\ goto(c, "await") /\ UNCHANGED result
     \/ finish(c, "error") /\ UNCHANGED <<state, bind, child>>
  /\ UNCHANGED <<scene, discovery, orphaned, signalled, users, crashes, goal,
                 report, asked, polls>>

(* wait_for_detached_thread_server_ready: the child, then the status.      *)
try_wait(c) ==
  /\ pc[c] = "await"
  /\ IF Alive(child[c]) THEN inspect(c, "ready")
     ELSE goto(c, "kill") /\ UNCHANGED goal
  /\ UNCHANGED <<discovery, servers, report, child, asked, polls, result>>

(* Mutant: only success or failure of the server ends the wait.            *)
poll_again_always(c) == UNCHANGED polls

(* Time passes: a wait may be over at any poll and is over after MaxPolls. *)
poll_again(c) ==
  /\ polls[c] < MaxPolls
  /\ polls' = [polls EXCEPT ![c] = @ + 1]

(* Mutant: any running server will do.                                     *)
launched_any(c) == report[c].status = "running"

launched(c) == report[c] = [status |-> "running", pid |-> child[c]]

ready(c) ==
  /\ pc[c] = "ready"
  /\ \/ launched(c) /\ finish(c, "started") /\ UNCHANGED polls
     \/ /\ ~launched(c) /\ report[c].status = "running"
        /\ goto(c, "kill") /\ UNCHANGED <<polls, result>>
     \/ /\ report[c].status # "running"
        /\ goto(c, "kill") /\ UNCHANGED <<polls, result>>
     \/ /\ report[c].status # "running" /\ poll_again(c)
        /\ goto(c, "await") /\ UNCHANGED result
  /\ UNCHANGED <<discovery, servers, goal, report, child, asked>>

(* Mutant: a child that is late is left alone.                             *)
stop_launched_child_spared(c) ==
  /\ pc[c] = "kill"
  /\ inspect(c, "failed")
  /\ UNCHANGED <<discovery, servers, report, child, asked, polls, result>>

stop_launched_child_if_still_running(c) ==
  /\ pc[c] = "kill"
  /\ IF Alive(child[c]) THEN become(child[c], "dead") ELSE UNCHANGED state
  /\ inspect(c, "failed")
  /\ UNCHANGED <<scene, discovery, bind, orphaned, signalled, users, crashes, report,
                 child, asked, polls, result>>

start_failure_report(c) ==
  /\ pc[c] = "failed"
  /\ finish(c, "start_failed")
  /\ UNCHANGED <<discovery, servers, goal, report, child, asked, polls>>

(* Whether there are threads in the store is not known here.               *)
recover_thread_server_for(c) ==
  /\ pc[c] = "recover"
  /\ \/ /\ report[c].status = "running"
        /\ finish(c, "already_running") /\ UNCHANGED goal
     \/ /\ report[c].status = "not_running"
        /\ finish(c, "nothing_to_recover") /\ UNCHANGED goal
     \/ /\ report[c].status \in {"not_running", "stale_registration"}
        /\ inspect(c, "prepare") /\ UNCHANGED result
     \/ /\ report[c].status = "invalid_registration"
        /\ finish(c, "invalid_registration") /\ UNCHANGED goal
  /\ UNCHANGED <<discovery, servers, report, child, asked, polls>>

stop_thread_server_for(c) ==
  /\ pc[c] = "stop"
  /\ CASE report[c].status = "not_running" -> finish(c, "already_stopped")
       [] report[c].status = "invalid_registration" ->
            finish(c, "invalid_registration")
       [] report[c].status = "stale_registration" ->
            goto(c, "matches") /\ UNCHANGED result
       [] OTHER -> goto(c, "terminate") /\ UNCHANGED result
  /\ UNCHANGED <<discovery, servers, goal, report, child, asked, polls>>

(* A process that is gone is an error, unless it is still a zombie.        *)
terminate_process_by_pid(c) ==
  LET p == report[c].pid IN
  /\ pc[c] = "terminate"
  /\ \/ /\ signalled' = signalled \cup {p}
        /\ goto(c, "shutdown") /\ UNCHANGED result
     \/ state[p] = "dead" /\ finish(c, "error") /\ UNCHANGED signalled
  /\ UNCHANGED <<scene, discovery, state, bind, orphaned, users, crashes, goal,
                 report, child, asked, polls>>

wait_for_thread_server_shutdown(c) ==
  LET p == report[c].pid
      over == ~Alive(p) \/ ~probe_local_thread_server(base_url(p))
  IN
  /\ pc[c] = "shutdown"
  /\ \/ over /\ goto(c, "matches") /\ UNCHANGED <<polls, result>>
     \/ ~over /\ finish(c, "stop_failed") /\ UNCHANGED polls
     \/ ~over /\ poll_again(c) /\ UNCHANGED <<pc, result>>
  /\ UNCHANGED <<discovery, servers, goal, report, child, asked>>

CommandStep(c) ==
  \/ read_thread_server_info(c) \/ probe(c) \/ validate_identity(c)
  \/ prepare_thread_server_start(c) \/ refreshed_status(c)
  \/ matches_pid(c) \/ remove_info(c)
  \/ launch_detached_thread_server(c) \/ try_wait(c) \/ ready(c)
  \/ stop_launched_child_if_still_running(c) \/ start_failure_report(c)
  \/ recover_thread_server_for(c) \/ stop_thread_server_for(c)
  \/ terminate_process_by_pid(c) \/ wait_for_thread_server_shutdown(c)

ServerStep(p) ==
  \/ listen(p) \/ run_server_fails(p)
  \/ open_thread_server_info(p) \/ write_thread_server_info(p) \/ serve(p)
  \/ guard_matches(p) \/ guard_removes(p)
  \/ crash(p) \/ terminated(p) \/ reuse_pid(p)

(* Every command has reported and no server is on its way up or down.      *)
AtRest ==
  /\ \A c \in Commands : pc[c] \in {"new", "done"}
  /\ \A p \in Pids : state[p] \in {"unborn", "serving", "dead", "foreign"}
  /\ \A p \in signalled : ~Alive(p)
Finished == AtRest /\ (\A c \in scene.commands : pc[c] = "done") /\ UNCHANGED vars

Next ==
  \/ \E c \in scene.commands : begin(c) \/ CommandStep(c)
  \/ \E p \in Pids : ServerStep(p) \/ \E b \in scene.binds : run_server(p, b)
  \/ Finished

Spec == Init /\ [][Next]_vars

(* A command that was started runs. *)
FairSpec == Spec /\ \A c \in Commands : WF_vars(CommandStep(c))

-----------------------------------------------------------------------------
(* No command ever signals a program that merely has the pid of a server   *)
(* that is gone, however old the record is and whoever listens at its      *)
(* address now: stop acts on a validated identity only.                    *)
ForeignUntouched == \A p \in signalled : state[p] # "foreign"

(* What start, recover and stop report is so, whatever other commands and  *)
(* servers do meanwhile: a server that was reported as started did come    *)
(* up, a failed start leaves no server behind, a stopped server is gone    *)
(* and no record names it; and when all is quiet, every server that is up  *)
(* was reported to somebody.                                               *)
ReportsTruthful ==
  /\ \A c \in Commands :
       /\ result[c] \in {"started", "recovered"} =>
            state[child[c]] \in {"serving", "dead", "foreign"}
       /\ result[c] \in {"start_failed", "recover_failed"} =>
            ~Alive(child[c])
       /\ result[c] \in {"stopped", "stale_registration_cleared"} =>
            /\ ~Listening(report[c].pid)
            /\ discovery # Info(report[c].pid)
  /\ AtRest => \A p \in Pids \ users :
       state[p] = "serving" =>
         \E c \in Commands : /\ child[c] = p
                             /\ result[c] \in {"started", "recovered"}

(* Every state is one a command can be in, no stranger is signalled and    *)
(* what start, recover and stop report is so.                              *)
CommandsSafe == TypeOK /\ ForeignUntouched /\ ReportsTruthful

(* One command at a time, and nobody runs a server by hand.                *)
Undisturbed == scene.serial /\ scene.foreground = 0

(* With one command at a time and detached servers only, the record leads  *)
(* to every server that is up, so that stop can reach it; also after       *)
(* servers died at any moment.                                             *)
ServersReachable ==
  Undisturbed /\ AtRest =>
    \A p \in Pids : state[p] = "serving" => discovery = Info(p)

(* Clearing a record clears a stale one: the record of a server that is up *)
(* is never removed, one command at a time.                                *)
LiveRecordKept ==
  [][Undisturbed => \A p \in Pids :
       discovery = Info(p) /\ state[p] = "serving" => discovery' # NoFile]_vars

(* A command comes back, whatever the servers and other commands do.       *)
CommandsEnd == \A c \in Commands : pc[c] = "read" ~> pc[c] = "done"
=============================================================================
