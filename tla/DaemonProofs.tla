----------------------------- MODULE DaemonProofs -----------------------------
(***************************************************************************)
(* The safety of the server commands, proved for any numbers of commands,  *)
(* servers, polls and crashes. DaemonInv follows the commands that overlap *)
(* with anything: a process only moves on, what a report says of it stays  *)
(* so, and the child of a command is waited for until it serves or is      *)
(* gone. SoloInv adds what holds for one command at a time: the servers    *)
(* that are up are in the record, and a launch meets none.                 *)
(***************************************************************************)
EXTENDS ServerDaemon, FiniteSetTheorems, TLAPS

(* How far a process is for good: it wrote its record, it served, it is    *)
(* gone.                                                                   *)
Announced(p) == state[p] \in {"announcing", "serving", "drop", "dead",
                              "foreign"}
Served(p) == state[p] \in {"serving", "dead", "foreign"}
Gone(p) == state[p] \in {"dead", "foreign"}

Inspecting(c) == pc[c] \in {"probe", "identity"}

(* A record, and a report, names a process that wrote its record; what the *)
(* last inspection found out about it is still so.                         *)
RecordInv == discovery.kind = "info" => Announced(discovery.pid)

ReportInv(c) ==
  /\ report[c].pid # 0 => Announced(report[c].pid)
  /\ Inspecting(c) => report[c].pid # 0
  /\ ~Inspecting(c) /\ report[c].status = "running" =>
       report[c].pid # 0 /\ Served(report[c].pid)
  /\ ~Inspecting(c) /\ report[c].status = "stale_registration" =>
       report[c].pid # 0 /\ Gone(report[c].pid)
  /\ pc[c] \in {"terminate", "shutdown"} => report[c].status = "running"
  /\ pc[c] \in {"matches", "remove"} =>
       report[c].pid # 0 /\ Gone(report[c].pid)
  /\ pc[c] \in {"stop", "terminate"} /\ report[c].status = "running" =>
       state[report[c].pid] # "foreign"

(* The inspections a command that launched a server makes.                 *)
Waits(c) == /\ pc[c] \in {"read", "probe", "identity"}
            /\ goal[c] \in {"ready", "failed"}

(* From the launch on a command watches its child; it gives up on it only  *)
(* once the child is gone.                                                 *)
ChildInv(c) ==
  /\ child[c] # 0 => /\ state[child[c]] # "unborn"
                     /\ \/ pc[c] \in {"await", "ready", "kill", "failed",
                                      "done"}
                        \/ Waits(c)
  /\ pc[c] \in {"await", "ready", "kill", "failed"} \/ Waits(c) =>
       child[c] # 0
  /\ pc[c] = "failed" \/ (Waits(c) /\ goal[c] = "failed") => Gone(child[c])
  /\ result[c] # "none" => pc[c] = "done"
  /\ pc[c] = "done" /\ child[c] # 0 =>
       result[c] \in {"started", "recovered"} \/ Gone(child[c])

ResultInv(c) ==
  /\ result[c] \in {"started", "recovered"} =>
       child[c] # 0 /\ Served(child[c])
  /\ result[c] \in {"start_failed", "recover_failed"} =>
       child[c] # 0 /\ Gone(child[c])
  /\ result[c] \in {"stopped", "stale_registration_cleared"} =>
       /\ report[c].pid # 0 /\ Gone(report[c].pid)
       /\ discovery # Info(report[c].pid)

LaunchedInv == \A p \in Pids \ users :
                 state[p] # "unborn" => \E c \in Commands : child[c] = p

CommandInv(c) == ReportInv(c) /\ ChildInv(c) /\ ResultInv(c)

DaemonInv == /\ TypeOK /\ ForeignUntouched /\ RecordInv /\ LaunchedInv
             /\ \A c \in Commands : CommandInv(c)

-----------------------------------------------------------------------------
(* One command at a time: nothing but the child of the command under way   *)
(* is on its way up, and every server that serves is in the record.        *)
Quiet == \A p \in Pids : ~Alive(p)
Active(c) == pc[c] \notin {"new", "done"}

Undecided(c) == pc[c] \in {"prepare", "refresh", "recover", "stop"}
Stopping(c) == pc[c] \in {"stop", "terminate", "shutdown"}

OneCommand == \A c, d \in Commands : Active(c) /\ Active(d) => c = d

(* No server is dropped or writes into an unlinked file, and the file is   *)
(* the one of the server that is past truncating it.                       *)
Recorded ==
  /\ users = {} /\ orphaned = {}
  /\ \A p \in Pids : /\ state[p] # "drop"
                     /\ state[p] = "open" => discovery = Empty
                     /\ state[p] \in {"announcing", "serving"} =>
                          discovery = Info(p)

OneServer == \A p, q \in Pids : Alive(p) /\ Alive(q) => p = q

(* Only the child of the command under way is on its way up.               *)
Attended == \A p \in Pids : Alive(p) =>
              \/ state[p] = "serving"
              \/ \E c \in Commands : Active(c) /\ child[c] = p

(* What a command that launched nothing yet found in the record is so.     *)
Alone(c) ==
  Active(c) /\ child[c] = 0 =>
    /\ Inspecting(c) => discovery = Info(report[c].pid)
    /\ Undecided(c) /\ report[c].status \in {"not_running",
                                            "stale_registration"} => Quiet
    /\ pc[c] \in {"matches", "remove", "launch"} => Quiet
    /\ Stopping(c) /\ report[c].status = "running" =>
         discovery = Info(report[c].pid)
    /\ pc[c] = "remove" => discovery = Info(report[c].pid)

Solo == /\ OneCommand /\ Recorded /\ OneServer /\ Attended
        /\ \A c \in Commands : Alone(c)

SoloInv == Undisturbed => Solo

-----------------------------------------------------------------------------
(* Type correctness, one step of the processes and of the commands each.   *)
LEMMA Constants ==
  /\ MaxServers \in Nat /\ MaxPolls \in Nat
  /\ \A c \in Stops : c \notin Starts /\ c \notin Recovers
  /\ \A c \in Recovers : c \notin Starts
BY DaemonAssumption

LEMMA Scened ==
  ASSUME TypeOK
  PROVE  scene.commands \subseteq Commands /\ scene.serial \in BOOLEAN
BY DaemonAssumption DEF TypeOK, Commands

LEMMA InitType == Init => TypeOK
<1> SUFFICES ASSUME Init PROVE TypeOK
  OBVIOUS
<1>1. discovery \in Discovery /\ crashes \in Nat
  BY DEF Init, Discovery, NoFile
<1>2. state \in [Pids -> States] /\ bind \in [Pids -> {"default", "fixed"}]
  BY DEF Init, States
<1>3. pc \in [Commands -> Steps] /\ goal \in [Commands -> Goals]
  BY DEF Init, Steps, Goals
<1>4. /\ report \in [Commands -> [status : Statuses, pid : 0..MaxServers]]
      /\ child \in [Commands -> 0..MaxServers]
      /\ asked \in [Commands -> {"default", "fixed"}]
      /\ polls \in [Commands -> 0..MaxPolls]
      /\ result \in [Commands -> Results]
  BY Constants DEF Init, Statuses, Results
<1> QED
  BY <1>1, <1>2, <1>3, <1>4 DEF TypeOK, Init

(* What a step of a process may do to the file.                            *)
LEMMA DiscoveryTypes ==
  /\ NoFile \in Discovery /\ Empty \in Discovery /\ Mixed \in Discovery
  /\ \A p \in Pids : Info(p) \in Discovery
BY DEF Discovery, NoFile, Empty, Mixed, Info

LEMMA ServerType ==
  ASSUME TypeOK, NEW p \in Pids,
         ServerStep(p) \/ \E b \in scene.binds : run_server(p, b)
  PROVE  TypeOK'
<1>1. UNCHANGED commands
  BY DEF ServerStep, run_server, listen, run_server_fails,
         open_thread_server_info, write_thread_server_info, serve,
         guard_matches, guard_removes, crash, terminated, reuse_pid
<1>2. \E s \in States : state' = [state EXCEPT ![p] = s]
  BY DEF ServerStep, run_server, spawned, listen, run_server_fails,
         open_thread_server_info, write_thread_server_info, serve,
         guard_matches, guard_removes, crash, terminated, reuse_pid, become,
         States
<1>3. discovery' \in Discovery
  BY DiscoveryTypes
  DEF ServerStep, run_server, listen, run_server_fails,
      open_thread_server_info, write_thread_server_info, serve,
      guard_matches, guard_removes, crash, terminated, reuse_pid,
      remove_file, TypeOK
<1>4. orphaned' \subseteq Pids /\ users' \subseteq Pids
      /\ signalled' = signalled
  BY DEF ServerStep, run_server, listen, run_server_fails,
         open_thread_server_info, write_thread_server_info, serve,
         guard_matches, guard_removes, crash, terminated, reuse_pid,
         remove_file, TypeOK
<1>5. crashes' \in Nat
  BY DEF ServerStep, run_server, listen, run_server_fails,
         open_thread_server_info, write_thread_server_info, serve,
         guard_matches, guard_removes, crash, terminated, reuse_pid, TypeOK
<1>6. bind' \in [Pids -> {"default", "fixed"}]
  <2>1. bind' = bind \/ \E b \in scene.binds : bind' = [bind EXCEPT ![p] = b]
    BY DEF ServerStep, run_server, spawned, listen, run_server_fails,
           open_thread_server_info, write_thread_server_info, serve,
           guard_matches, guard_removes, crash, terminated, reuse_pid
  <2>2. scene.binds \subseteq {"default", "fixed"}
    BY DaemonAssumption DEF TypeOK
  <2> QED
    BY <2>1, <2>2 DEF TypeOK
<1> QED
  BY <1>1, <1>2, <1>3, <1>4, <1>5, <1>6 DEF TypeOK, commands

(* Where a command goes, what it notes, and what it touches.               *)
LEMMA CommandMoves ==
  ASSUME TypeOK, NEW c \in Commands, begin(c) \/ CommandStep(c)
  PROVE  /\ \E l \in Steps : pc' = [pc EXCEPT ![c] = l]
         /\ \/ goal' = goal
            \/ \E g \in Goals : goal' = [goal EXCEPT ![c] = g]
         /\ \/ report' = report
            \/ \E s \in Statuses, p \in 0..MaxServers :
                 report' = [report EXCEPT ![c] = [status |-> s, pid |-> p]]
         /\ \/ result' = result
            \/ \E s \in Results : result' = [result EXCEPT ![c] = s]
         /\ \/ child' = child
            \/ \E p \in Pids : child' = [child EXCEPT ![c] = p]
<1>1. goal[c] \in Goals /\ Goals \subseteq Steps /\ report[c].pid \in 0..MaxServers
      /\ report[c].status \in Statuses
      /\ report \in [Commands -> [status : Statuses, pid : 0..MaxServers]]
  BY DEF TypeOK, Steps
<1>2. \E l \in Steps : pc' = [pc EXCEPT ![c] = l]
  <2>1. CASE begin(c)
    BY <2>1 DEF begin, inspect, goto, Steps
  <2>2. CASE \/ read_thread_server_info(c) \/ probe(c)
             \/ validate_identity(c)
    BY <1>1, <2>2
    DEF read_thread_server_info, probe, validate_identity, inspected, goto,
        Steps
  <2>3. CASE prepare_thread_server_start(c) \/ refreshed_status(c)
    BY <2>3
    DEF prepare_thread_server_start, refreshed_status, report_running,
        finish, goto, Steps
  <2>4. CASE matches_pid(c) \/ remove_info(c)
             \/ launch_detached_thread_server(c)
    BY <2>4
    DEF matches_pid, remove_info, launch_detached_thread_server, inspect,
        finish, goto, Steps
  <2>5. CASE \/ try_wait(c) \/ ready(c) \/ start_failure_report(c)
             \/ stop_launched_child_if_still_running(c)
    BY <2>5
    DEF try_wait, ready, start_failure_report,
        stop_launched_child_if_still_running, inspect, finish, goto, Steps
  <2>6. CASE recover_thread_server_for(c) \/ stop_thread_server_for(c)
    BY <2>6
    DEF recover_thread_server_for, stop_thread_server_for, inspect, finish,
        goto, Steps
  <2>7. CASE terminate_process_by_pid(c)
    BY <2>7 DEF terminate_process_by_pid, finish, goto, Steps
  <2>8. CASE wait_for_thread_server_shutdown(c)
    <3>1. pc[c] = "shutdown" /\ pc \in [Commands -> Steps]
      BY <2>8 DEF wait_for_thread_server_shutdown, TypeOK
    <3>2. pc = [pc EXCEPT ![c] = "shutdown"] /\ "shutdown" \in Steps
      BY <3>1 DEF Steps
    <3> QED
      BY <2>8, <3>2
      DEF wait_for_thread_server_shutdown, finish, goto, Steps
  <2> QED
    BY <2>1, <2>2, <2>3, <2>4, <2>5, <2>6, <2>7, <2>8 DEF CommandStep
<1>3. \/ goal' = goal
      \/ \E g \in Goals : goal' = [goal EXCEPT ![c] = g]
  BY <1>1
  DEF begin, CommandStep, read_thread_server_info, probe, validate_identity,
      prepare_thread_server_start, refreshed_status, report_running,
      matches_pid, remove_info, launch_detached_thread_server, try_wait,
      ready, stop_launched_child_if_still_running, start_failure_report,
      recover_thread_server_for, stop_thread_server_for,
      terminate_process_by_pid, wait_for_thread_server_shutdown,
      inspect, Goals
<1>4. \/ report' = report
      \/ \E s \in Statuses, p \in 0..MaxServers :
           report' = [report EXCEPT ![c] = [status |-> s, pid |-> p]]
  <2>1. CASE read_thread_server_info(c)
    <3>1. CASE report' = [report EXCEPT ![c].pid = discovery.pid]
               /\ discovery.kind = "info"
      <4>1. discovery.pid \in 0..MaxServers
        BY <3>1 DEF TypeOK, Discovery, Pids
      <4>2. report[c] \in [status : Statuses, pid : 0..MaxServers]
        BY <1>1
      <4>3. [report[c] EXCEPT !.pid = discovery.pid]
              = [status |-> report[c].status, pid |-> discovery.pid]
        BY <4>2
      <4>4. report' = [report EXCEPT ![c] = [status |-> report[c].status,
                                             pid |-> discovery.pid]]
        BY <3>1, <4>3
      <4> QED
        BY <1>1, <4>1, <4>4
    <3>2. CASE ~ (report' = [report EXCEPT ![c].pid = discovery.pid]
                  /\ discovery.kind = "info")
      <4>1. \E s \in Statuses : inspected(c, s, 0)
        BY <2>1, <3>2 DEF read_thread_server_info, Statuses
      <4>2. 0 \in 0..MaxServers
        BY Constants
      <4> QED
        BY <4>1, <4>2 DEF inspected
    <3> QED
      BY <3>1, <3>2
  <2>2. CASE probe(c) \/ validate_identity(c)
    <3>1. \/ report' = report
          \/ \E s \in Statuses : inspected(c, s, report[c].pid)
      BY <2>2 DEF probe, validate_identity, Statuses
    <3> QED
      BY <1>1, <3>1 DEF inspected
  <2>3. CASE /\ ~read_thread_server_info(c) /\ ~probe(c)
             /\ ~validate_identity(c)
    BY <2>3
    DEF begin, CommandStep, prepare_thread_server_start, refreshed_status,
        matches_pid, remove_info, launch_detached_thread_server, try_wait,
        ready, stop_launched_child_if_still_running, start_failure_report,
        recover_thread_server_for, stop_thread_server_for,
        terminate_process_by_pid, wait_for_thread_server_shutdown
  <2> QED
    BY <2>1, <2>2, <2>3
<1>5. \/ result' = result
      \/ \E s \in Results : result' = [result EXCEPT ![c] = s]
  BY <1>1
  DEF begin, CommandStep, read_thread_server_info, probe, validate_identity,
      prepare_thread_server_start, refreshed_status, report_running,
      matches_pid, remove_info, launch_detached_thread_server, try_wait,
      ready, stop_launched_child_if_still_running, start_failure_report,
      recover_thread_server_for, stop_thread_server_for,
      terminate_process_by_pid, wait_for_thread_server_shutdown,
      finish, recover_status, Results
<1>6. \/ child' = child
      \/ \E p \in Pids : child' = [child EXCEPT ![c] = p]
  BY
  DEF begin, CommandStep, read_thread_server_info, probe, validate_identity,
      prepare_thread_server_start, refreshed_status, report_running,
      matches_pid, remove_info, launch_detached_thread_server, try_wait,
      ready, stop_launched_child_if_still_running, start_failure_report,
      recover_thread_server_for, stop_thread_server_for,
      terminate_process_by_pid, wait_for_thread_server_shutdown
<1> QED
  BY <1>2, <1>3, <1>4, <1>5, <1>6

(* Only processes are signalled: stop knows its server.                    *)
LEMMA CommandType ==
  ASSUME TypeOK, NEW c \in Commands, ReportInv(c),
         begin(c) \/ CommandStep(c)
  PROVE  TypeOK'
<1>1. /\ pc' \in [Commands -> Steps] /\ goal' \in [Commands -> Goals]
      /\ report' \in [Commands -> [status : Statuses, pid : 0..MaxServers]]
      /\ result' \in [Commands -> Results]
      /\ child' \in [Commands -> 0..MaxServers]
  <2>1. /\ pc \in [Commands -> Steps] /\ goal \in [Commands -> Goals]
        /\ report \in [Commands -> [status : Statuses, pid : 0..MaxServers]]
        /\ result \in [Commands -> Results]
        /\ child \in [Commands -> 0..MaxServers]
    BY DEF TypeOK
  <2>2. Pids \subseteq 0..MaxServers
    BY Constants DEF Pids
  <2>3. report' \in [Commands -> [status : Statuses, pid : 0..MaxServers]]
    <3>1. \A s \in Statuses, p \in 0..MaxServers :
            [status |-> s, pid |-> p] \in [status : Statuses,
                                          pid : 0..MaxServers]
      OBVIOUS
    <3>2. \/ report' = report
          \/ \E r \in [status : Statuses, pid : 0..MaxServers] :
               report' = [report EXCEPT ![c] = r]
      BY <3>1, CommandMoves
    <3> QED
      BY <2>1, <3>2
  <2>4. pc' \in [Commands -> Steps] /\ goal' \in [Commands -> Goals]
    BY <2>1, CommandMoves
  <2>5. result' \in [Commands -> Results]
        /\ child' \in [Commands -> 0..MaxServers]
    BY <2>1, <2>2, CommandMoves
  <2> QED
    BY <2>3, <2>4, <2>5
<1>2. /\ discovery' \in Discovery /\ orphaned' \subseteq Pids
      /\ UNCHANGED <<scene, users, crashes>>
  BY DiscoveryTypes
  DEF begin, CommandStep, read_thread_server_info, probe, validate_identity,
      prepare_thread_server_start, refreshed_status, matches_pid,
      remove_info, launch_detached_thread_server, try_wait, ready,
      stop_launched_child_if_still_running, start_failure_report,
      recover_thread_server_for, stop_thread_server_for,
      terminate_process_by_pid, wait_for_thread_server_shutdown,
      remove_file, servers, TypeOK
<1>3. scene.binds \subseteq {"default", "fixed"}
  BY DaemonAssumption DEF TypeOK
<1>4. asked' \in [Commands -> {"default", "fixed"}]
  <2>1. asked' = asked \/ begin(c)
    BY DEF CommandStep, read_thread_server_info, probe, validate_identity,
        prepare_thread_server_start, refreshed_status, matches_pid,
        remove_info, launch_detached_thread_server, try_wait, ready,
        stop_launched_child_if_still_running, start_failure_report,
        recover_thread_server_for, stop_thread_server_for,
        terminate_process_by_pid, wait_for_thread_server_shutdown
  <2>2. ASSUME begin(c)
        PROVE  \E b \in {"default", "fixed"} :
                 asked' = [asked EXCEPT ![c] = b]
    <3>1. PICK b \in IF c \in Starts THEN scene.binds ELSE {"default"} :
            asked' = [asked EXCEPT ![c] = b]
      BY <2>2 DEF begin
    <3> QED
      BY <1>3, <3>1
  <2> QED
    BY <2>1, <2>2 DEF TypeOK
<1>5. polls' \in [Commands -> 0..MaxPolls]
  <2>1. polls' = polls \/ poll_again(c)
    BY DEF begin, CommandStep, read_thread_server_info, probe,
        validate_identity, prepare_thread_server_start, refreshed_status,
        matches_pid, remove_info, launch_detached_thread_server, try_wait,
        ready, stop_launched_child_if_still_running, start_failure_report,
        recover_thread_server_for, stop_thread_server_for,
        terminate_process_by_pid, wait_for_thread_server_shutdown
  <2>2. polls[c] \in 0..MaxPolls /\ polls \in [Commands -> 0..MaxPolls]
    BY DEF TypeOK
  <2>3. poll_again(c) => polls[c] + 1 \in 0..MaxPolls
    BY <2>2, Constants DEF poll_again
  <2> QED
    BY <2>1, <2>2, <2>3 DEF poll_again
<1>6. /\ state' \in [Pids -> States] /\ signalled' \subseteq Pids
      /\ bind' \in [Pids -> {"default", "fixed"}]
  <2>1. CASE launch_detached_thread_server(c)
    <3>1. signalled' = signalled
      BY <2>1 DEF launch_detached_thread_server
    <3>2. asked[c] \in {"default", "fixed"} /\ "binding" \in States
      BY DEF TypeOK, States
    <3>3. \/ UNCHANGED <<state, bind>>
          \/ \E p \in Pids : spawned(p, asked[c])
      BY <2>1 DEF launch_detached_thread_server
    <3> QED
      BY <3>1, <3>2, <3>3 DEF spawned, TypeOK
  <2>2. CASE stop_launched_child_if_still_running(c)
    <3>1. UNCHANGED <<signalled, bind>>
      BY <2>2 DEF stop_launched_child_if_still_running
    <3>2. state' = state \/ state' = [state EXCEPT ![child[c]] = "dead"]
      BY <2>2 DEF stop_launched_child_if_still_running, become
    <3>3. "dead" \in States
      BY DEF States
    <3> QED
      BY <3>1, <3>2, <3>3 DEF TypeOK
  <2>3. CASE terminate_process_by_pid(c)
    <3>1. UNCHANGED <<state, bind>>
      BY <2>3 DEF terminate_process_by_pid
    <3>2. signalled' \subseteq Pids
      <4>1. /\ report[c].pid \in 0..MaxServers /\ report[c].pid # 0
        BY <2>3
        DEF terminate_process_by_pid, ReportInv, Inspecting, TypeOK
      <4>2. report[c].pid \in Pids
        BY <4>1, Constants DEF Pids
      <4> QED
        BY <2>3, <4>2 DEF terminate_process_by_pid, TypeOK
    <3> QED
      BY <3>1, <3>2 DEF TypeOK
  <2>4. CASE /\ ~launch_detached_thread_server(c)
             /\ ~stop_launched_child_if_still_running(c)
             /\ ~terminate_process_by_pid(c)
    <3>1. UNCHANGED <<state, bind, signalled>>
      BY <2>4
      DEF begin, CommandStep, read_thread_server_info, probe,
          validate_identity, prepare_thread_server_start, refreshed_status,
          matches_pid, remove_info, try_wait, ready, start_failure_report,
          recover_thread_server_for, stop_thread_server_for,
          wait_for_thread_server_shutdown, servers
    <3> QED
      BY <3>1 DEF TypeOK
  <2> QED
    BY <2>1, <2>2, <2>3, <2>4
<1> QED
  BY <1>1, <1>2, <1>4, <1>5, <1>6 DEF TypeOK

-----------------------------------------------------------------------------
(* A process only moves on.                                                *)
MovesOn(p) == /\ state[p] # "unborn" => state'[p] # "unborn"
              /\ Announced(p) => Announced(p)'
              /\ Served(p) => Served(p)'
              /\ Gone(p) => Gone(p)'

(* What is known of a command that takes no step stays so.                 *)
LEMMA CommandKept ==
  ASSUME TypeOK, NEW d \in Commands, CommandInv(d),
         /\ pc'[d] = pc[d] /\ goal'[d] = goal[d]
         /\ report'[d] = report[d] /\ child'[d] = child[d]
         /\ result'[d] = result[d],
         \A p \in Pids : MovesOn(p),
         (/\ pc[d] \in {"stop", "terminate"}
          /\ report[d].status = "running"
          /\ state[report[d].pid] # "foreign")
           => state'[report[d].pid] # "foreign",
         \A p \in Pids : Gone(p) /\ discovery' = Info(p) => discovery = Info(p)
  PROVE  CommandInv(d)'
<1>1. /\ report[d].pid # 0 => report[d].pid \in Pids
      /\ child[d] # 0 => child[d] \in Pids
  BY Constants DEF TypeOK, Pids
<1>2. ReportInv(d)'
  <2> USE <1>1 DEF ReportInv, Inspecting, MovesOn
  <2>1. report[d].pid # 0 => Announced(report[d].pid)'
    BY DEF CommandInv
  <2>2. /\ ~Inspecting(d) /\ report[d].status = "running" =>
             report[d].pid # 0 /\ Served(report[d].pid)'
        /\ ~Inspecting(d) /\ report[d].status = "stale_registration" =>
             report[d].pid # 0 /\ Gone(report[d].pid)'
        /\ pc[d] \in {"matches", "remove"} =>
             report[d].pid # 0 /\ Gone(report[d].pid)'
    BY DEF CommandInv
  <2>3. /\ Inspecting(d) => report[d].pid # 0
        /\ pc[d] \in {"terminate", "shutdown"} =>
             report[d].status = "running"
        /\ pc[d] \in {"stop", "terminate"} /\ report[d].status = "running"
             => state'[report[d].pid] # "foreign"
    BY DEF CommandInv
  <2> QED
    BY <2>1, <2>2, <2>3 DEF Announced, Served, Gone
<1>3. ChildInv(d)'
  <2> USE <1>1 DEF ChildInv, Waits, MovesOn
  <2>1. child[d] # 0 => state'[child[d]] # "unborn"
    BY DEF CommandInv
  <2>2. /\ pc[d] = "failed" \/ (Waits(d) /\ goal[d] = "failed") =>
             Gone(child[d])'
        /\ pc[d] = "done" /\ child[d] # 0 =>
             result[d] \in {"started", "recovered"} \/ Gone(child[d])'
    BY DEF CommandInv
  <2> QED
    BY <2>1, <2>2 DEF CommandInv, Gone
<1>4. ResultInv(d)'
  <2> USE <1>1 DEF ResultInv, MovesOn
  <2>1. /\ result[d] \in {"started", "recovered"} =>
             child[d] # 0 /\ Served(child[d])'
        /\ result[d] \in {"start_failed", "recover_failed"} =>
             child[d] # 0 /\ Gone(child[d])'
        /\ result[d] \in {"stopped", "stale_registration_cleared"} =>
             report[d].pid # 0 /\ Gone(report[d].pid)'
    BY DEF CommandInv
  <2>2. result[d] \in {"stopped", "stale_registration_cleared"} =>
          discovery' # Info(report[d].pid)
    BY DEF CommandInv
  <2> QED
    BY <2>1, <2>2 DEF Served, Gone, Info
<1> QED
  BY <1>2, <1>3, <1>4 DEF CommandInv

(* What a step of a process is: it moves on, touches the file or not, and  *)
(* is nothing to the commands. Its pid is reused once it is dead and no    *)
(* command is about to signal it.                                          *)
LEMMA ServerMoves ==
  ASSUME TypeOK, NEW p \in Pids,
         ServerStep(p) \/ \E b \in scene.binds : run_server(p, b)
  PROVE  /\ UNCHANGED <<signalled, pc, goal, report, child, result>>
         /\ \A q \in Pids : MovesOn(q) /\ (q # p => state'[q] = state[q])
         /\ state'[p] # "unborn"
         /\ state[p] = "unborn" => p \in users'
         /\ users \subseteq users'
         /\ state'[p] = "foreign" => state[p] = "foreign" \/ reuse_pid(p)
         /\ \/ discovery' \in {discovery, NoFile, Empty, Mixed}
            \/ /\ discovery' = Info(p)
               /\ state[p] = "open" /\ state'[p] = "announcing"
<1>1. UNCHANGED <<signalled, pc, goal, report, child, result>>
  BY DEF ServerStep, run_server, listen, run_server_fails,
         open_thread_server_info, write_thread_server_info, serve,
         guard_matches, guard_removes, crash, terminated, reuse_pid, commands
<1>2. state \in [Pids -> States]
  BY DEF TypeOK
<1>3. PICK s : /\ state' = [state EXCEPT ![p] = s]
               /\ s # "unborn"
               /\ state[p] = "unborn" => p \in users'
               /\ state[p] \in {"announcing", "serving", "drop", "dead",
                                "foreign"} =>
                    s \in {"announcing", "serving", "drop", "dead", "foreign"}
               /\ state[p] \in {"serving", "dead", "foreign"} =>
                    s \in {"serving", "dead", "foreign"}
               /\ state[p] \in {"dead", "foreign"} => s \in {"dead", "foreign"}
               /\ s = "foreign" => reuse_pid(p)
  <2>1. CASE \E b \in scene.binds : run_server(p, b)
    <3>1. /\ state' = [state EXCEPT ![p] = "binding"]
          /\ users' = users \cup {p} /\ state[p] = "unborn"
      BY <2>1 DEF run_server, spawned
    <3> WITNESS "binding"
    <3> QED
      BY <3>1
  <2>2. CASE listen(p) \/ run_server_fails(p)
             \/ open_thread_server_info(p) \/ write_thread_server_info(p)
             \/ serve(p)
    BY <2>2 DEF listen, run_server_fails, open_thread_server_info,
                write_thread_server_info, serve, become
  <2>3. CASE guard_matches(p) \/ guard_removes(p)
    BY <2>3 DEF guard_matches, guard_removes, become
  <2>4. CASE crash(p) \/ terminated(p)
    BY <2>4 DEF crash, terminated, become, Alive
  <2>5. CASE reuse_pid(p)
    BY <2>5 DEF reuse_pid, become
  <2> QED
    BY <2>1, <2>2, <2>3, <2>4, <2>5 DEF ServerStep
<1>4. users \subseteq users'
  BY DEF ServerStep, run_server, listen, run_server_fails,
         open_thread_server_info, write_thread_server_info, serve,
         guard_matches, guard_removes, crash, terminated, reuse_pid
<1>5. \/ discovery' \in {discovery, NoFile, Empty, Mixed}
      \/ /\ discovery' = Info(p)
         /\ state[p] = "open" /\ state'[p] = "announcing"
  <2>1. CASE write_thread_server_info(p)
    BY <1>2, <2>1 DEF write_thread_server_info, become
  <2>2. CASE ~write_thread_server_info(p)
    BY <2>2
    DEF ServerStep, run_server, listen, run_server_fails,
        open_thread_server_info, serve, guard_matches, guard_removes, crash,
        terminated, reuse_pid, remove_file
  <2> QED
    BY <2>1, <2>2
<1>6. \A q \in Pids : state'[q] = IF q = p THEN s ELSE state[q]
  BY <1>2, <1>3
<1>7. \A q \in Pids : MovesOn(q) /\ (q # p => state'[q] = state[q])
  BY <1>3, <1>6 DEF MovesOn, Announced, Served, Gone
<1> QED
  BY <1>1, <1>3, <1>4, <1>5, <1>6, <1>7

LEMMA ServerKeeps ==
  ASSUME DaemonInv, NEW p \in Pids,
         ServerStep(p) \/ \E b \in scene.binds : run_server(p, b)
  PROVE  DaemonInv'
<1>1. TypeOK /\ TypeOK'
  BY ServerType DEF DaemonInv
<1>2. ForeignUntouched'
  BY <1>1, ServerMoves DEF DaemonInv, ForeignUntouched, TypeOK, reuse_pid
<1>3. RecordInv'
  <2>1. CASE discovery' \in {NoFile, Empty, Mixed}
    BY <2>1 DEF RecordInv, NoFile, Empty, Mixed
  <2>2. CASE discovery' = discovery
    <3>1. discovery.kind = "info" => discovery.pid \in Pids
      BY <1>1 DEF TypeOK, Discovery
    <3> QED
      BY <1>1, <2>2, <3>1, ServerMoves DEF DaemonInv, RecordInv, MovesOn, Announced
  <2>3. CASE discovery' = Info(p) /\ state'[p] = "announcing"
    BY <2>3 DEF RecordInv, Info, Announced
  <2> QED
    BY <1>1, <2>1, <2>2, <2>3, ServerMoves
<1>4. LaunchedInv'
  <2> SUFFICES ASSUME NEW q \in Pids \ users', state'[q] # "unborn"
               PROVE  \E c \in Commands : child'[c] = q
    BY DEF LaunchedInv
  <2>1. q \in Pids \ users /\ state[q] # "unborn"
    BY <1>1, ServerMoves
  <2> QED
    BY <1>1, <2>1, ServerMoves DEF DaemonInv, LaunchedInv
<1>5. ASSUME NEW d \in Commands PROVE CommandInv(d)'
  <2>1. UNCHANGED <<pc, goal, report, child, result>>
        /\ \A q \in Pids : MovesOn(q)
    BY <1>1, ServerMoves
  <2>2. (/\ pc[d] \in {"stop", "terminate"}
         /\ report[d].status = "running"
         /\ state[report[d].pid] # "foreign")
          => state'[report[d].pid] # "foreign"
    <3> HAVE /\ pc[d] \in {"stop", "terminate"}
             /\ report[d].status = "running"
             /\ state[report[d].pid] # "foreign"
    <3> SUFFICES ASSUME state'[report[d].pid] = "foreign" PROVE FALSE
      OBVIOUS
    <3>1. report[d].pid \in Pids
      <4>1. report[d].pid # 0 /\ report[d].pid \in 0..MaxServers
        BY <1>1 DEF DaemonInv, CommandInv, ReportInv, Inspecting, TypeOK
      <4> QED
        BY <4>1, Constants DEF Pids
    <3>2. reuse_pid(p) /\ report[d].pid = p
      BY <1>1, <3>1, ServerMoves
    <3>3. report[d] # [status |-> "running", pid |-> p]
      BY <3>2 DEF reuse_pid
    <3>4. report[d] \in [status : Statuses, pid : 0..MaxServers]
      BY <1>1 DEF TypeOK
    <3> QED
      BY <3>2, <3>3, <3>4
  <2>3. \A q \in Pids : Gone(q) /\ discovery' = Info(q) => discovery = Info(q)
    <3> TAKE q \in Pids
    <3> HAVE Gone(q) /\ discovery' = Info(q)
    <3>1. discovery' \notin {NoFile, Empty, Mixed}
      BY DEF Info, NoFile, Empty, Mixed
    <3>2. ASSUME discovery' = Info(p), state[p] = "open" PROVE FALSE
      <4>1. q = p
        BY <3>2 DEF Info
      <4> QED
        BY <3>2, <4>1 DEF Gone
    <3> QED
      BY <1>1, <3>1, <3>2, ServerMoves
  <2> QED
    BY <1>1, <2>1, <2>2, <2>3, CommandKept DEF DaemonInv
<1> QED
  BY <1>1, <1>2, <1>3, <1>4, <1>5 DEF DaemonInv

(* What a step of a command does to the processes, the file and the other  *)
(* commands.                                                               *)
LEMMA CommandTouches ==
  ASSUME DaemonInv, NEW c \in Commands, begin(c) \/ CommandStep(c)
  PROVE  /\ users' = users
         /\ \/ discovery' = discovery
            \/ discovery' = NoFile
         /\ \A p \in Pids : MovesOn(p)
         /\ \A p \in Pids : state'[p] = "foreign" => state[p] = "foreign"
         /\ \/ signalled' = signalled
            \/ /\ signalled' = signalled \cup {report[c].pid}
               /\ state[report[c].pid] # "foreign"
         /\ \A d \in Commands : d # c =>
              /\ pc'[d] = pc[d] /\ goal'[d] = goal[d]
              /\ report'[d] = report[d] /\ child'[d] = child[d]
              /\ result'[d] = result[d]
         /\ \/ child' = child /\ \A p \in Pids : state[p] = "unborn" =>
                                                   state'[p] = "unborn"
            \/ \E p \in Pids :
                 /\ child[c] = 0 /\ child' = [child EXCEPT ![c] = p]
                 /\ state' = [state EXCEPT ![p] = "binding"]
<1>1. TypeOK /\ CommandInv(c)
  BY DEF DaemonInv
<1>2. users' = users
  BY DEF begin, CommandStep, read_thread_server_info, probe,
      validate_identity, prepare_thread_server_start, refreshed_status,
      matches_pid, remove_info, launch_detached_thread_server, try_wait,
      ready, stop_launched_child_if_still_running, start_failure_report,
      recover_thread_server_for, stop_thread_server_for,
      terminate_process_by_pid, wait_for_thread_server_shutdown, servers
<1>3. discovery' = discovery \/ discovery' = NoFile
  BY DEF begin, CommandStep, read_thread_server_info, probe,
      validate_identity, prepare_thread_server_start, refreshed_status,
      matches_pid, remove_info, launch_detached_thread_server, try_wait,
      ready, stop_launched_child_if_still_running, start_failure_report,
      recover_thread_server_for, stop_thread_server_for,
      terminate_process_by_pid, wait_for_thread_server_shutdown, remove_file
<1>4. \/ signalled' = signalled
      \/ /\ signalled' = signalled \cup {report[c].pid}
         /\ state[report[c].pid] # "foreign"
  <2>1. CASE terminate_process_by_pid(c)
    <3>1. state[report[c].pid] # "foreign"
      BY <1>1, <2>1
      DEF terminate_process_by_pid, CommandInv, ReportInv
    <3> QED
      BY <2>1, <3>1 DEF terminate_process_by_pid
  <2>2. CASE ~terminate_process_by_pid(c)
    BY <2>2
    DEF begin, CommandStep, read_thread_server_info, probe,
      validate_identity, prepare_thread_server_start, refreshed_status,
      matches_pid, remove_info, launch_detached_thread_server, try_wait,
      ready, stop_launched_child_if_still_running, start_failure_report,
      recover_thread_server_for, stop_thread_server_for,
      wait_for_thread_server_shutdown, servers
  <2> QED
    BY <2>1, <2>2
<1>5. \A d \in Commands : d # c =>
        /\ pc'[d] = pc[d] /\ goal'[d] = goal[d]
        /\ report'[d] = report[d] /\ child'[d] = child[d]
        /\ result'[d] = result[d]
  BY <1>1, CommandMoves DEF TypeOK
<1>6. /\ \A p \in Pids : MovesOn(p)
      /\ \A p \in Pids : state'[p] = "foreign" => state[p] = "foreign"
      /\ \/ child' = child /\ \A p \in Pids : state[p] = "unborn" =>
                                                state'[p] = "unborn"
         \/ \E p \in Pids :
              /\ child[c] = 0 /\ child' = [child EXCEPT ![c] = p]
              /\ state' = [state EXCEPT ![p] = "binding"]
  <2>0. state \in [Pids -> States]
    BY <1>1 DEF TypeOK
  <2>1. CASE launch_detached_thread_server(c)
    <3>1. child[c] = 0
      BY <1>1, <2>1
      DEF launch_detached_thread_server, CommandInv, ChildInv, Waits
    <3>2. CASE UNCHANGED <<state, child>>
      BY <3>2 DEF MovesOn, Announced, Served, Gone
    <3>3. CASE \E p \in Pids : /\ spawned(p, asked[c])
                               /\ child' = [child EXCEPT ![c] = p]
      <4>1. PICK p \in Pids : /\ spawned(p, asked[c])
                              /\ child' = [child EXCEPT ![c] = p]
        BY <3>3
      <4>2. state[p] = "unborn" /\ state' = [state EXCEPT ![p] = "binding"]
        BY <4>1 DEF spawned
      <4>3. \A q \in Pids : state'[q] = IF q = p THEN "binding" ELSE state[q]
        BY <2>0, <4>2
      <4>4. /\ \A q \in Pids : MovesOn(q)
            /\ \A q \in Pids : state'[q] = "foreign" => state[q] = "foreign"
        BY <4>2, <4>3 DEF MovesOn, Announced, Served, Gone
      <4> QED
        BY <3>1, <4>1, <4>2, <4>4
    <3> QED
      BY <2>1, <3>2, <3>3 DEF launch_detached_thread_server
  <2>2. CASE stop_launched_child_if_still_running(c)
    <3>1. child' = child
      BY <2>2 DEF stop_launched_child_if_still_running
    <3>2. \/ state' = state
          \/ Alive(child[c]) /\ state' = [state EXCEPT ![child[c]] = "dead"]
      BY <2>2 DEF stop_launched_child_if_still_running, become
    <3>3. \A q \in Pids :
            \/ state'[q] = state[q]
            \/ state'[q] = "dead" /\ state[q] \notin {"unborn", "foreign"}
      BY <2>0, <3>2 DEF Alive
    <3> QED
      BY <3>1, <3>3 DEF MovesOn, Announced, Served, Gone
  <2>3. CASE /\ ~launch_detached_thread_server(c)
             /\ ~stop_launched_child_if_still_running(c)
    <3>1. UNCHANGED <<state, child>>
      BY <2>3
      DEF begin, CommandStep, read_thread_server_info, probe,
        validate_identity, prepare_thread_server_start, refreshed_status,
        matches_pid, remove_info, try_wait,
        ready, start_failure_report,
        recover_thread_server_for, stop_thread_server_for,
        terminate_process_by_pid, wait_for_thread_server_shutdown, servers
    <3> QED
      BY <3>1 DEF MovesOn, Announced, Served, Gone
  <2> QED
    BY <2>1, <2>2, <2>3
<1> QED
  BY <1>2, <1>3, <1>4, <1>5, <1>6

(* What the command that takes the step knows afterwards, by the kind of   *)
(* step: an inspection, a decision, the wait for a child, a stop.          *)
LEMMA InspectionKept ==
  ASSUME DaemonInv, NEW c \in Commands,
         \/ begin(c) \/ read_thread_server_info(c) \/ probe(c)
         \/ validate_identity(c)
  PROVE  CommandInv(c)'
<1>1. /\ TypeOK /\ CommandInv(c) /\ RecordInv
      /\ UNCHANGED <<discovery, state, child, result>>
      /\ result[c] = "none"
  BY DEF DaemonInv, CommandInv, ChildInv, begin, read_thread_server_info,
         probe, validate_identity, servers
<1>2. /\ pc \in [Commands -> Steps] /\ goal \in [Commands -> Goals]
      /\ report \in [Commands -> [status : Statuses, pid : 0..MaxServers]]
      /\ child \in [Commands -> 0..MaxServers]
  BY <1>1 DEF TypeOK
<1>3. CASE begin(c)
  <2>1. /\ pc[c] = "new" /\ pc'[c] = "read" /\ report' = report
        /\ goal'[c] \in {"prepare", "recover", "stop"}
    BY <1>2, <1>3 DEF begin, inspect, goto
  <2> QED
    BY <1>1, <2>1
    DEF CommandInv, ReportInv, ChildInv, ResultInv, Inspecting, Waits,
        Announced, Served, Gone
<1>4. ASSUME \/ read_thread_server_info(c) \/ probe(c)
             \/ validate_identity(c)
      PROVE  /\ goal' = goal
             /\ pc[c] \in {"read", "probe", "identity"}
             /\ \/ /\ pc'[c] \in {"probe", "identity"}
                   /\ report'[c].pid # 0 /\ Announced(report'[c].pid)
                \/ /\ pc'[c] = goal[c]
                   /\ report'[c].pid # 0 => Announced(report'[c].pid)
                   /\ report'[c].status = "running" =>
                        /\ report'[c].pid # 0
                        /\ state[report'[c].pid] = "serving"
                   /\ report'[c].status = "stale_registration" =>
                        report'[c].pid # 0 /\ Gone(report'[c].pid)
  <2>1. CASE read_thread_server_info(c)
    <3>1. pc[c] = "read" /\ goal' = goal
      BY <2>1 DEF read_thread_server_info
    <3>2. CASE \E s \in {"not_running", "invalid_registration"} :
                 inspected(c, s, 0)
      <4>1. PICK s \in {"not_running", "invalid_registration"} :
              inspected(c, s, 0)
        BY <3>2
      <4>2. report'[c] = [status |-> s, pid |-> 0] /\ pc'[c] = goal[c]
        BY <1>2, <4>1 DEF inspected, goto
      <4> QED
        BY <3>1, <4>2
    <3>3. CASE /\ discovery.kind = "info"
               /\ report' = [report EXCEPT ![c].pid = discovery.pid]
               /\ goto(c, "probe")
      <4>1. discovery.pid \in Pids
        BY <1>1, <3>3 DEF TypeOK, Discovery
      <4>2. discovery.pid # 0 /\ Announced(discovery.pid)
        BY <1>1, <3>3, <4>1, Constants DEF RecordInv, Pids
      <4>3. report'[c].pid = discovery.pid /\ pc'[c] = "probe"
        BY <1>2, <3>3 DEF goto
      <4> QED
        BY <3>1, <4>2, <4>3
    <3> QED
      BY <2>1, <3>2, <3>3 DEF read_thread_server_info
  <2>2. CASE probe(c)
    <3>1. /\ pc[c] = "probe" /\ goal' = goal
          /\ report[c].pid # 0 /\ Announced(report[c].pid)
      BY <1>1, <2>2 DEF probe, CommandInv, ReportInv, Inspecting
    <3>2. CASE pc' = [pc EXCEPT ![c] = "identity"] /\ report' = report
      BY <1>2, <3>1, <3>2
    <3>3. CASE /\ ~probe_local_thread_server(base_url(report[c].pid))
               /\ inspected(c, "stale_registration", report[c].pid)
      <4>1. report[c].pid \in Pids
        BY <1>2, <3>1, Constants DEF Pids
      <4>2. Gone(report[c].pid)
        BY <3>1, <3>3, <4>1
        DEF probe_local_thread_server, Announced, Gone, Listening
      <4>3. /\ report'[c] = [status |-> "stale_registration",
                             pid |-> report[c].pid]
            /\ pc'[c] = goal[c]
        BY <1>2, <3>3 DEF inspected, goto
      <4> QED
        BY <3>1, <4>2, <4>3
    <3> QED
      BY <2>2, <3>2, <3>3 DEF probe, goto
  <2>3. CASE validate_identity(c)
    <3>1. /\ pc[c] = "identity" /\ goal' = goal
          /\ report[c].pid # 0 /\ Announced(report[c].pid)
      BY <1>1, <2>3 DEF validate_identity, CommandInv, ReportInv, Inspecting
    <3>2. PICK s \in {"running", "invalid_registration"} :
            /\ s = "running" => state[report[c].pid] = "serving"
            /\ inspected(c, s, report[c].pid)
      BY <2>3 DEF validate_identity
    <3>3. /\ report'[c] = [status |-> s, pid |-> report[c].pid]
          /\ pc'[c] = goal[c]
      BY <1>2, <3>2 DEF inspected, goto
    <3> QED
      BY <3>1, <3>2, <3>3
  <2> QED
    BY <1>4, <2>1, <2>2, <2>3
<1>5. ASSUME \/ read_thread_server_info(c) \/ probe(c)
             \/ validate_identity(c)
      PROVE  CommandInv(c)'
  <2>1. /\ goal'[c] = goal[c] /\ goal[c] \in Goals
    BY <1>2, <1>4, <1>5
  <2>2. ReportInv(c)'
    BY <1>1, <1>4, <1>5, <2>1
    DEF ReportInv, Inspecting, Goals, Announced, Served, Gone
  <2>3. ChildInv(c)'
    BY <1>1, <1>4, <1>5, <2>1
    DEF CommandInv, ChildInv, Waits, Goals, Gone
  <2>4. ResultInv(c)'
    BY <1>1 DEF ResultInv
  <2> QED
    BY <2>2, <2>3, <2>4 DEF CommandInv
<1> QED
  BY <1>3, <1>5

LEMMA DecisionKept ==
  ASSUME DaemonInv, NEW c \in Commands,
         \/ prepare_thread_server_start(c) \/ refreshed_status(c)
         \/ recover_thread_server_for(c) \/ stop_thread_server_for(c)
  PROVE  CommandInv(c)'
<1>1. /\ TypeOK /\ CommandInv(c)
      /\ UNCHANGED <<discovery, state, child, report>>
      /\ pc[c] \in {"prepare", "refresh", "recover", "stop"}
  BY DEF DaemonInv, prepare_thread_server_start, refreshed_status,
         recover_thread_server_for, stop_thread_server_for, servers
<1>2. /\ pc \in [Commands -> Steps] /\ goal \in [Commands -> Goals]
      /\ result \in [Commands -> Results]
      /\ child \in [Commands -> 0..MaxServers]
  BY <1>1 DEF TypeOK
<1>3. result[c] = "none" /\ child[c] = 0
  BY <1>1 DEF CommandInv, ChildInv, Waits
<1>4. \/ /\ pc'[c] = "done"
         /\ result'[c] \in {"already_running", "bind_conflict",
                            "invalid_registration", "nothing_to_recover",
                            "already_stopped"}
      \/ /\ pc'[c] = "read" /\ goal'[c] = "prepare" /\ result' = result
      \/ /\ pc'[c] = "launch" /\ result' = result
      \/ /\ pc'[c] = "matches" /\ result' = result
         /\ report[c].status = "stale_registration"
      \/ /\ pc'[c] = "terminate" /\ result' = result
         /\ pc[c] = "stop"
         /\ report[c].status = "running"
  <2>1. CASE prepare_thread_server_start(c)
    BY <1>2, <2>1
    DEF prepare_thread_server_start, report_running, finish, goto,
        recover_status
  <2>2. CASE refreshed_status(c)
    BY <1>2, <2>2
    DEF refreshed_status, report_running, finish, goto, recover_status
  <2>3. CASE recover_thread_server_for(c)
    BY <1>2, <2>3
    DEF recover_thread_server_for, inspect, finish, goto, recover_status
  <2>4. CASE stop_thread_server_for(c)
    <3>1. report[c].status \in Statuses
      BY <1>1 DEF TypeOK
    <3> QED
      BY <1>2, <2>4, <3>1
      DEF stop_thread_server_for, finish, goto, recover_status, Statuses
  <2> QED
    BY <2>1, <2>2, <2>3, <2>4
<1>5. ReportInv(c)'
  BY <1>1, <1>4
  DEF CommandInv, ReportInv, Inspecting, Announced, Served, Gone
<1>6. ChildInv(c)'
  BY <1>1, <1>3, <1>4 DEF ChildInv, Waits
<1>7. ResultInv(c)'
  BY <1>3, <1>4 DEF ResultInv
<1> QED
  BY <1>5, <1>6, <1>7 DEF CommandInv

LEMMA WaitKept ==
  ASSUME DaemonInv, NEW c \in Commands,
         \/ launch_detached_thread_server(c) \/ try_wait(c) \/ ready(c)
         \/ stop_launched_child_if_still_running(c)
         \/ start_failure_report(c)
  PROVE  CommandInv(c)'
<1>1. /\ TypeOK /\ CommandInv(c)
      /\ UNCHANGED <<discovery, report>>
      /\ pc[c] \in {"launch", "await", "ready", "kill", "failed"}
      /\ \A p \in Pids : MovesOn(p)
  <2>1. \A p \in Pids : MovesOn(p)
    BY CommandTouches DEF CommandStep
  <2> QED
    BY <2>1
    DEF DaemonInv, launch_detached_thread_server, try_wait, ready,
        stop_launched_child_if_still_running, start_failure_report, servers
<1>2. /\ pc \in [Commands -> Steps] /\ goal \in [Commands -> Goals]
      /\ result \in [Commands -> Results]
      /\ child \in [Commands -> 0..MaxServers]
      /\ state \in [Pids -> States]
      /\ report[c] \in [status : Statuses, pid : 0..MaxServers]
      /\ Pids = 1..MaxServers
  BY <1>1 DEF TypeOK, Pids
<1>3. result[c] = "none"
  BY <1>1 DEF CommandInv, ChildInv
<1>4. /\ report[c].pid # 0 => Announced(report[c].pid)'
      /\ report[c].status = "running" =>
           report[c].pid # 0 /\ Served(report[c].pid)'
      /\ report[c].status = "stale_registration" =>
           report[c].pid # 0 /\ Gone(report[c].pid)'
  <2>1. report[c].pid # 0 => report[c].pid \in Pids
    BY <1>2, Constants
  <2>2. ~Inspecting(c)
    BY <1>1 DEF Inspecting
  <2>3. /\ report[c].pid # 0 => Announced(report[c].pid)
        /\ report[c].status = "running" =>
             report[c].pid # 0 /\ Served(report[c].pid)
        /\ report[c].status = "stale_registration" =>
             report[c].pid # 0 /\ Gone(report[c].pid)
    BY <1>1, <2>2 DEF CommandInv, ReportInv
  <2> QED
    BY <1>1, <2>1, <2>3 DEF MovesOn
<1>5. /\ child'[c] # 0 => state'[child'[c]] # "unborn"
      /\ \/ /\ pc'[c] = "done" /\ result'[c] = "error" /\ child'[c] = 0
         \/ /\ pc'[c] = "done" /\ result'[c] \in {"started", "recovered"}
            /\ child'[c] # 0 /\ Served(child[c])'
         \/ /\ pc'[c] = "done"
            /\ result'[c] \in {"start_failed", "recover_failed"}
            /\ child'[c] # 0 /\ Gone(child[c])'
         \/ /\ pc'[c] \in {"await", "kill"} /\ child'[c] # 0
            /\ result'[c] = "none"
         \/ /\ pc'[c] = "read" /\ goal'[c] = "ready" /\ child'[c] # 0
            /\ result'[c] = "none"
         \/ /\ pc'[c] = "read" /\ goal'[c] = "failed" /\ child'[c] # 0
            /\ Gone(child[c])' /\ result'[c] = "none"
  <2>1. CASE launch_detached_thread_server(c)
    <3>1. child[c] = 0
      BY <1>1, <2>1
      DEF launch_detached_thread_server, CommandInv, ChildInv, Waits
    <3>2. CASE finish(c, "error") /\ UNCHANGED <<state, bind, child>>
      BY <1>2, <3>1, <3>2 DEF finish, goto, recover_status
    <3>3. CASE \E p \in Pids : /\ spawned(p, asked[c])
                               /\ child' = [child EXCEPT ![c] = p]
                               /\ goto(c, "await") /\ UNCHANGED result
      <4>1. PICK p \in Pids : /\ spawned(p, asked[c])
                              /\ child' = [child EXCEPT ![c] = p]
                              /\ goto(c, "await") /\ UNCHANGED result
        BY <3>3
      <4>2. state'[p] = "binding" /\ p # 0
        BY <1>2, <4>1, Constants DEF spawned
      <4> QED
        BY <1>2, <1>3, <4>1, <4>2 DEF goto
    <3> QED
      BY <2>1, <3>2, <3>3 DEF launch_detached_thread_server
  <2>2. CASE try_wait(c)
    <3>1. /\ child[c] # 0 /\ state[child[c]] # "unborn"
          /\ UNCHANGED <<child, state, result>>
      BY <1>1, <2>2 DEF try_wait, CommandInv, ChildInv, servers
    <3> QED
      BY <1>2, <1>3, <2>2, <3>1 DEF try_wait, inspect, goto
  <2>3. CASE ready(c)
    <3>1. /\ child[c] # 0 /\ state[child[c]] # "unborn"
          /\ UNCHANGED <<child, state>>
      BY <1>1, <2>3 DEF ready, CommandInv, ChildInv, servers
    <3>2. CASE launched(c) /\ finish(c, "started")
      <4>1. Served(child[c])'
        BY <1>1, <1>4, <3>1, <3>2 DEF launched, Served
      <4>2. pc'[c] = "done" /\ result'[c] \in {"started", "recovered"}
        BY <1>2, <3>2 DEF finish, goto, recover_status
      <4> QED
        BY <3>1, <4>1, <4>2 DEF Served
    <3>3. CASE goto(c, "kill") /\ UNCHANGED result
      BY <1>2, <1>3, <3>1, <3>3 DEF goto
    <3>4. CASE goto(c, "await") /\ UNCHANGED result
      BY <1>2, <1>3, <3>1, <3>4 DEF goto
    <3> QED
      BY <2>3, <3>2, <3>3, <3>4 DEF ready
  <2>4. CASE stop_launched_child_if_still_running(c)
    <3>1. /\ child[c] # 0 /\ state[child[c]] # "unborn"
          /\ UNCHANGED <<child, result>>
      BY <1>1, <2>4
      DEF stop_launched_child_if_still_running, CommandInv, ChildInv
    <3>2. child[c] \in Pids
      BY <1>2, <3>1, Constants
    <3>3. Gone(child[c])'
      <4>1. CASE Alive(child[c])
        <5>1. state' = [state EXCEPT ![child[c]] = "dead"]
          BY <2>4, <4>1 DEF stop_launched_child_if_still_running, become
        <5> QED
          BY <1>2, <3>1, <3>2, <5>1 DEF Gone
      <4>2. CASE ~Alive(child[c])
        <5>1. state' = state
          BY <2>4, <4>2 DEF stop_launched_child_if_still_running
        <5> QED
          BY <3>1, <4>2, <5>1 DEF Gone, Alive
      <4> QED
        BY <4>1, <4>2
    <3>4. pc'[c] = "read" /\ goal'[c] = "failed"
      BY <1>2, <2>4
      DEF stop_launched_child_if_still_running, inspect, goto
    <3> QED
      BY <1>3, <3>1, <3>3, <3>4 DEF Gone
  <2>5. CASE start_failure_report(c)
    <3>1. /\ child[c] # 0 /\ Gone(child[c])
          /\ UNCHANGED <<child, state>>
      BY <1>1, <2>5
      DEF start_failure_report, CommandInv, ChildInv, servers
    <3>2. pc'[c] = "done" /\ result'[c] \in {"start_failed",
                                             "recover_failed"}
      BY <1>2, <2>5 DEF start_failure_report, finish, goto, recover_status
    <3> QED
      BY <3>1, <3>2 DEF Gone
  <2> QED
    BY <2>1, <2>2, <2>3, <2>4, <2>5
<1>6. ReportInv(c)'
  BY <1>1, <1>4, <1>5 DEF ReportInv, Inspecting, Announced, Served, Gone
<1>7. ChildInv(c)'
  BY <1>5 DEF ChildInv, Waits, Gone
<1>8. ResultInv(c)'
  BY <1>5 DEF ResultInv, Served, Gone
<1> QED
  BY <1>6, <1>7, <1>8 DEF CommandInv

LEMMA StopKept ==
  ASSUME DaemonInv, NEW c \in Commands,
         \/ matches_pid(c) \/ remove_info(c)
         \/ terminate_process_by_pid(c)
         \/ wait_for_thread_server_shutdown(c)
  PROVE  CommandInv(c)'
<1>1. /\ TypeOK /\ CommandInv(c)
      /\ UNCHANGED <<state, child, report>>
      /\ pc[c] \in {"matches", "remove", "terminate", "shutdown"}
  BY DEF DaemonInv, matches_pid, remove_info, terminate_process_by_pid,
         wait_for_thread_server_shutdown, servers
<1>2. /\ pc \in [Commands -> Steps] /\ goal \in [Commands -> Goals]
      /\ result \in [Commands -> Results]
      /\ child \in [Commands -> 0..MaxServers]
  BY <1>1 DEF TypeOK
<1>3. result[c] = "none" /\ child[c] = 0
  BY <1>1 DEF CommandInv, ChildInv, Waits
<1>4. \/ /\ pc'[c] = "done"
         /\ result'[c] \in {"error", "already_stopped", "stop_failed"}
      \/ /\ pc'[c] = "done"
         /\ result'[c] \in {"stopped", "stale_registration_cleared"}
         /\ report[c].pid # 0 /\ Gone(report[c].pid)
         /\ discovery' # Info(report[c].pid)
      \/ /\ pc'[c] = "read" /\ goal'[c] = "refresh" /\ result'[c] = "none"
      \/ /\ pc'[c] = "launch" /\ result'[c] = "none"
      \/ /\ pc'[c] = "shutdown" /\ result'[c] = "none"
         /\ report[c].status = "running"
      \/ /\ pc'[c] \in {"matches", "remove"} /\ result'[c] = "none"
         /\ report[c].pid # 0 /\ Gone(report[c].pid)
  <2>1. CASE matches_pid(c)
    <3>1. /\ report[c].pid # 0 /\ Gone(report[c].pid)
          /\ discovery' = discovery
      BY <1>1, <2>1 DEF matches_pid, CommandInv, ReportInv
    <3> QED
      BY <1>2, <1>3, <2>1, <3>1
      DEF matches_pid, inspect, finish, goto, recover_status
  <2>2. CASE remove_info(c)
    <3>1. report[c].pid # 0 /\ Gone(report[c].pid)
      BY <1>1, <2>2 DEF remove_info, CommandInv, ReportInv
    <3>2. NoFile # Info(report[c].pid)
      BY DEF NoFile, Info
    <3> QED
      BY <1>2, <1>3, <2>2, <3>1, <3>2
      DEF remove_info, remove_file, finish, goto, recover_status
  <2>3. CASE terminate_process_by_pid(c)
    BY <1>1, <1>2, <1>3, <2>3
    DEF terminate_process_by_pid, finish, goto, recover_status, CommandInv,
        ReportInv
  <2>4. CASE wait_for_thread_server_shutdown(c)
    <3>1. /\ pc[c] = "shutdown" /\ report[c].status = "running"
          /\ report[c].pid # 0 /\ Served(report[c].pid)
      BY <1>1, <2>4
      DEF wait_for_thread_server_shutdown, CommandInv, ReportInv, Inspecting
    <3>2. ASSUME \/ ~Alive(report[c].pid)
                 \/ ~probe_local_thread_server(base_url(report[c].pid))
          PROVE  Gone(report[c].pid)
      <4>1. report[c].pid \in Pids
        BY <1>1, <3>1, Constants DEF TypeOK, Pids
      <4> QED
        BY <3>1, <3>2, <4>1
        DEF Served, Gone, Alive, probe_local_thread_server, Listening
    <3> QED
      BY <1>2, <1>3, <2>4, <3>1, <3>2
      DEF wait_for_thread_server_shutdown, finish, goto, recover_status
  <2> QED
    BY <2>1, <2>2, <2>3, <2>4
<1>5. ReportInv(c)'
  BY <1>1, <1>4
  DEF CommandInv, ReportInv, Inspecting, Announced, Served, Gone
<1>6. ChildInv(c)'
  BY <1>1, <1>3, <1>4 DEF ChildInv, Waits
<1>7. ResultInv(c)'
  BY <1>1, <1>3, <1>4 DEF ResultInv, Gone
<1> QED
  BY <1>5, <1>6, <1>7 DEF CommandInv

LEMMA CommandKeeps ==
  ASSUME DaemonInv, NEW c \in Commands, begin(c) \/ CommandStep(c)
  PROVE  DaemonInv'
<1>1. TypeOK /\ TypeOK'
  BY CommandType DEF DaemonInv, CommandInv
<1>2. ForeignUntouched'
  <2>1. \A p \in signalled' : p \in Pids
    BY <1>1 DEF TypeOK
  <2>2. \A p \in signalled' : p \in signalled \/ state[p] # "foreign"
    BY CommandTouches
  <2>3. \A p \in Pids : state'[p] = "foreign" => state[p] = "foreign"
    BY CommandTouches
  <2> QED
    BY <2>1, <2>2, <2>3 DEF DaemonInv, ForeignUntouched
<1>3. RecordInv'
  <2>1. CASE discovery' = NoFile
    BY <2>1 DEF RecordInv, NoFile
  <2>2. CASE discovery' = discovery
    <3>1. discovery.kind = "info" => discovery.pid \in Pids
      BY <1>1 DEF TypeOK, Discovery
    <3> QED
      BY <2>2, <3>1, CommandTouches
      DEF DaemonInv, RecordInv, MovesOn, Announced
  <2> QED
    BY <2>1, <2>2, CommandTouches
<1>4. LaunchedInv'
  <2> SUFFICES ASSUME NEW q \in Pids \ users', state'[q] # "unborn"
               PROVE  \E d \in Commands : child'[d] = q
    BY DEF LaunchedInv
  <2>1. q \in Pids \ users /\ child \in [Commands -> 0..MaxServers]
    BY <1>1, CommandTouches DEF TypeOK
  <2>2. CASE child' = child /\ \A p \in Pids : state[p] = "unborn" =>
                                                state'[p] = "unborn"
    BY <2>1, <2>2 DEF DaemonInv, LaunchedInv
  <2>3. CASE \E p \in Pids :
               /\ child[c] = 0 /\ child' = [child EXCEPT ![c] = p]
               /\ state' = [state EXCEPT ![p] = "binding"]
    <3>1. PICK p \in Pids :
            /\ child[c] = 0 /\ child' = [child EXCEPT ![c] = p]
            /\ state' = [state EXCEPT ![p] = "binding"]
      BY <2>3
    <3>2. CASE q = p
      BY <2>1, <3>1, <3>2
    <3>3. CASE q # p
      <4>1. state[q] # "unborn" /\ q # 0
        BY <1>1, <2>1, <3>1, <3>3, Constants DEF TypeOK, Pids
      <4>2. PICK d \in Commands : child[d] = q
        BY <2>1, <4>1 DEF DaemonInv, LaunchedInv
      <4> QED
        BY <2>1, <3>1, <4>1, <4>2
    <3> QED
      BY <3>2, <3>3
  <2> QED
    BY <2>2, <2>3, CommandTouches
<1>5. ASSUME NEW d \in Commands, d # c PROVE CommandInv(d)'
  <2>1. /\ pc'[d] = pc[d] /\ goal'[d] = goal[d]
        /\ report'[d] = report[d] /\ child'[d] = child[d]
        /\ result'[d] = result[d]
        /\ \A p \in Pids : MovesOn(p)
    BY <1>5, CommandTouches
  <2>2. (/\ pc[d] \in {"stop", "terminate"}
         /\ report[d].status = "running"
         /\ state[report[d].pid] # "foreign")
          => state'[report[d].pid] # "foreign"
    <3> HAVE /\ pc[d] \in {"stop", "terminate"}
             /\ report[d].status = "running"
             /\ state[report[d].pid] # "foreign"
    <3>1. report[d].pid \in Pids
      <4>1. report[d].pid # 0 /\ report[d].pid \in 0..MaxServers
        BY <1>1 DEF DaemonInv, CommandInv, ReportInv, Inspecting, TypeOK
      <4> QED
        BY <4>1, Constants DEF Pids
    <3> QED
      BY <3>1, CommandTouches
  <2>3. \A q \in Pids : Gone(q) /\ discovery' = Info(q) => discovery = Info(q)
    BY CommandTouches DEF NoFile, Info
  <2> QED
    BY <1>1, <2>1, <2>2, <2>3, CommandKept DEF DaemonInv
<1>6. CommandInv(c)'
  BY InspectionKept, DecisionKept, WaitKept, StopKept DEF CommandStep
<1> QED
  BY <1>1, <1>2, <1>3, <1>4, <1>5, <1>6 DEF DaemonInv

LEMMA InitDaemon == Init => DaemonInv
<1> SUFFICES ASSUME Init PROVE DaemonInv
  OBVIOUS
<1>1. ForeignUntouched /\ RecordInv /\ LaunchedInv
  BY DEF Init, ForeignUntouched, RecordInv, LaunchedInv, NoFile
<1>2. ASSUME NEW c \in Commands PROVE CommandInv(c)
  BY DEF Init, CommandInv, ReportInv, ChildInv, ResultInv, Inspecting, Waits
<1> QED
  BY <1>1, <1>2, InitType DEF DaemonInv

LEMMA NextDaemon == DaemonInv /\ [Next]_vars => DaemonInv'
<1> SUFFICES ASSUME DaemonInv, [Next]_vars PROVE DaemonInv'
  OBVIOUS
<1>1. CASE \E c \in scene.commands : begin(c) \/ CommandStep(c)
  BY <1>1, CommandKeeps, Scened DEF DaemonInv
<1>2. CASE \E p \in Pids :
             ServerStep(p) \/ \E b \in scene.binds : run_server(p, b)
  BY <1>2, ServerKeeps
<1>3. CASE UNCHANGED vars
  <2>1. UNCHANGED <<scene, state, bind, orphaned, signalled, users, crashes,
                    discovery, pc, goal, report, child, asked, polls, result>>
    BY <1>3 DEF vars, servers
  <2> QED
    BY <2>1
    DEF DaemonInv, TypeOK, ForeignUntouched, RecordInv, LaunchedInv,
        CommandInv, ReportInv, ChildInv, ResultInv, Inspecting, Waits,
        Announced, Served, Gone
<1> QED
  BY <1>1, <1>2, <1>3 DEF Next, Finished

LEMMA SafeDaemon == DaemonInv => CommandsSafe
<1> SUFFICES ASSUME DaemonInv PROVE CommandsSafe
  OBVIOUS
<1>1. ASSUME NEW c \in Commands
      PROVE  /\ result[c] \in {"started", "recovered"} =>
                  state[child[c]] \in {"serving", "dead", "foreign"}
             /\ result[c] \in {"start_failed", "recover_failed"} =>
                  ~Alive(child[c])
             /\ result[c] \in {"stopped", "stale_registration_cleared"} =>
                  /\ ~Listening(report[c].pid)
                  /\ discovery # Info(report[c].pid)
  BY DEF DaemonInv, CommandInv, ResultInv, Served, Gone, Alive, Listening
<1>2. ASSUME AtRest, NEW p \in Pids \ users, state[p] = "serving"
      PROVE  \E c \in Commands : /\ child[c] = p
                                 /\ result[c] \in {"started", "recovered"}
  <2>1. PICK c \in Commands : child[c] = p
    BY <1>2 DEF DaemonInv, LaunchedInv
  <2>2. p # 0
    BY Constants DEF Pids
  <2>3. pc[c] = "done"
    BY <1>2, <2>1, <2>2 DEF AtRest, DaemonInv, CommandInv, ChildInv, Waits
  <2> QED
    BY <1>2, <2>1, <2>2, <2>3 DEF DaemonInv, CommandInv, ChildInv, Gone
<1> QED
  BY <1>1, <1>2 DEF CommandsSafe, ReportsTruthful, DaemonInv

(* What the commands report is so and no stranger is signalled, whatever   *)
(* commands and servers run at the same time: stop signals a process only  *)
(* after its identity was validated (terminate_process_by_pid), a start    *)
(* waits for its child until it serves or is gone                          *)
(* (wait_for_detached_thread_server_ready,                                 *)
(* stop_launched_child_if_still_running).                                  *)
THEOREM CommandsAreSafe == Spec => []CommandsSafe
<1>1. Spec => []DaemonInv
  BY InitDaemon, NextDaemon, PTL DEF Spec
<1> QED
  BY <1>1, SafeDaemon, PTL

-----------------------------------------------------------------------------
(* One command at a time. Nobody starts a server by hand, so that a step   *)
(* of a server takes it on towards serving, or ends it.                    *)
LEMMA SoloServerMoves ==
  ASSUME DaemonInv, Solo, Undisturbed, NEW p \in Pids,
         ServerStep(p) \/ \E b \in scene.binds : run_server(p, b)
  PROVE  /\ UNCHANGED <<users, orphaned, scene, pc, report, child>>
         /\ \A q \in Pids : q # p => state'[q] = state[q]
         /\ \/ Gone(p)' /\ discovery' = discovery
            \/ /\ state[p] = "binding" /\ state'[p] = "bound"
               /\ discovery' = discovery
            \/ /\ state[p] = "bound" /\ state'[p] = "open"
               /\ discovery' = Empty
            \/ /\ state[p] = "open" /\ state'[p] = "announcing"
               /\ discovery' = Info(p)
            \/ /\ state[p] = "announcing" /\ state'[p] = "serving"
               /\ discovery' = discovery
<1>1. /\ state \in [Pids -> States] /\ users = {} /\ orphaned = {}
      /\ state[p] # "drop"
      /\ state[p] = "open" => discovery = Empty
  BY DEF DaemonInv, TypeOK, Solo, Recorded
<1>2. ~ \E b \in scene.binds : run_server(p, b)
  <2>1. Cardinality(users) = 0 /\ scene.foreground = 0
    BY <1>1, FS_EmptySet DEF Undisturbed
  <2> QED
    BY <2>1 DEF run_server
<1>3. ~guard_matches(p) /\ ~guard_removes(p)
  BY <1>1 DEF guard_matches, guard_removes
<1>4. UNCHANGED <<users, orphaned, scene, pc, report, child>>
  BY <1>2, <1>3
  DEF ServerStep, listen, run_server_fails, open_thread_server_info,
      write_thread_server_info, serve, crash, terminated, reuse_pid, commands
<1>5. CASE \/ run_server_fails(p) \/ crash(p) \/ terminated(p)
           \/ reuse_pid(p)
  <2>1. PICK s \in {"dead", "foreign"} : state' = [state EXCEPT ![p] = s]
    BY <1>5 DEF run_server_fails, crash, terminated, reuse_pid, become
  <2>2. discovery' = discovery
    BY <1>5 DEF run_server_fails, crash, terminated, reuse_pid
  <2> QED
    BY <1>1, <1>4, <2>1, <2>2 DEF Gone
<1>6. CASE \/ listen(p) \/ open_thread_server_info(p)
           \/ write_thread_server_info(p) \/ serve(p)
  BY <1>1, <1>4, <1>6
  DEF listen, open_thread_server_info, write_thread_server_info, serve,
      become
<1> QED
  BY <1>2, <1>3, <1>5, <1>6 DEF ServerStep

LEMMA SoloServer ==
  ASSUME DaemonInv, Solo, Undisturbed, NEW p \in Pids,
         ServerStep(p) \/ \E b \in scene.binds : run_server(p, b)
  PROVE  Solo'
<1>1. /\ UNCHANGED <<users, orphaned, pc, report, child>>
      /\ \A q \in Pids : q # p => state'[q] = state[q]
      /\ \/ Gone(p)' /\ discovery' = discovery
         \/ /\ state[p] = "binding" /\ state'[p] = "bound"
            /\ discovery' = discovery
         \/ /\ state[p] = "bound" /\ state'[p] = "open"
            /\ discovery' = Empty
         \/ /\ state[p] = "open" /\ state'[p] = "announcing"
            /\ discovery' = Info(p)
         \/ /\ state[p] = "announcing" /\ state'[p] = "serving"
            /\ discovery' = discovery
  BY SoloServerMoves
<1>2. OneCommand /\ Recorded /\ OneServer /\ Attended
      /\ \A c \in Commands : Alone(c)
  BY DEF Solo
<1>3. \A q \in Pids : Alive(q)' => Alive(q)
  BY <1>1 DEF Alive, Gone
<1>4. OneCommand'
  BY <1>1, <1>2 DEF OneCommand, Active
<1>5. OneServer'
  BY <1>2, <1>3 DEF OneServer
<1>6. Recorded'
  <2>1. CASE Gone(p)' /\ discovery' = discovery
    BY <1>1, <1>2, <2>1 DEF Recorded, Gone
  <2>2. CASE Alive(p) /\ state'[p] \in {"bound", "open", "announcing",
                                        "serving"}
    <3>1. \A q \in Pids : q # p => ~Alive(q)
      BY <1>2, <2>2 DEF OneServer
    <3>2. \A q \in Pids : q # p =>
            state'[q] \notin {"drop", "open", "announcing", "serving"}
      BY <1>1, <3>1 DEF Alive
    <3>3. /\ state'[p] = "open" => discovery' = Empty
          /\ state'[p] = "announcing" => discovery' = Info(p)
          /\ state'[p] = "serving" => discovery' = Info(p)
      BY <1>1, <1>2 DEF Recorded, Gone
    <3> QED
      BY <1>1, <1>2, <2>2, <3>2, <3>3 DEF Recorded
  <2> QED
    BY <1>1, <2>1, <2>2 DEF Alive
<1>7. Attended'
  <2> SUFFICES ASSUME NEW q \in Pids, Alive(q)', state'[q] # "serving"
               PROVE  \E c \in Commands : (Active(c) /\ child[c] = q)'
    BY DEF Attended
  <2>1. Alive(q) /\ state[q] # "serving"
    BY <1>1, <1>3 DEF Gone, Alive
  <2>2. PICK c \in Commands : Active(c) /\ child[c] = q
    BY <1>2, <2>1 DEF Attended
  <2> QED
    BY <1>1, <2>2 DEF Active
<1>8. ASSUME NEW c \in Commands PROVE Alone(c)'
  <2>1. Quiet => Quiet'
    BY <1>3 DEF Quiet
  <2>2. ASSUME Active(c), child[c] = 0 PROVE discovery' = discovery
    <3>1. Alive(p) => state[p] = "serving"
      <4>1. ASSUME NEW d \in Commands, Active(d), child[d] = p PROVE FALSE
        <5>1. p # 0 /\ d = c
          BY <1>2, <2>2, <4>1, Constants DEF OneCommand, Pids
        <5> QED
          BY <2>2, <4>1, <5>1
      <4> QED
        BY <1>2, <4>1 DEF Attended
    <3> QED
      BY <1>1, <3>1 DEF Alive
  <2> QED
    BY <1>1, <1>2, <2>1, <2>2
    DEF Alone, Active, Inspecting, Undecided, Stopping
<1> QED
  BY <1>4, <1>5, <1>6, <1>7, <1>8 DEF Solo

(* With one command at a time, a server that is up while a command has     *)
(* launched nothing serves, and the record names it.                       *)
LEMMA UpIsRecorded ==
  ASSUME Solo, NEW c \in Commands, Active(c), child[c] = 0,
         NEW p \in Pids, Alive(p)
  PROVE  state[p] = "serving" /\ discovery = Info(p)
<1>1. ASSUME NEW d \in Commands, Active(d), child[d] = p PROVE FALSE
  <2>1. p # 0 /\ d = c
    BY <1>1, Constants DEF Solo, OneCommand, Pids
  <2> QED
    BY <1>1, <2>1
<1>2. state[p] = "serving"
  BY <1>1 DEF Solo, Attended
<1> QED
  BY <1>2 DEF Solo, Recorded

LEMMA SoloBegun ==
  ASSUME DaemonInv, Solo, Undisturbed, NEW c \in Commands, begin(c)
  PROVE  Solo'
<1>1. /\ UNCHANGED <<discovery, users, orphaned, state, child, report>>
      /\ pc' = [pc EXCEPT ![c] = "read"] /\ pc[c] = "new"
      /\ \A d \in Commands : pc[d] \in {"new", "done"}
  BY DEF begin, inspect, goto, servers, Undisturbed
<1>2. /\ \A d \in Commands : ~Active(d)
      /\ \A d \in Commands : d # c => pc'[d] = pc[d]
      /\ pc'[c] = "read"
  BY <1>1 DEF Active, DaemonInv, TypeOK
<1>3. OneCommand'
  BY <1>2 DEF OneCommand, Active
<1>4. Recorded' /\ OneServer'
  BY <1>1 DEF Solo, Recorded, OneServer, Alive
<1>5. Attended'
  BY <1>1, <1>2 DEF Solo, Attended, Alive
<1>6. ASSUME NEW d \in Commands PROVE Alone(d)'
  BY <1>2 DEF Alone, Active, Inspecting, Undecided, Stopping
<1> QED
  BY <1>3, <1>4, <1>5, <1>6 DEF Solo

LEMMA SoloAlone ==
  ASSUME DaemonInv, Solo, NEW c \in Commands, CommandStep(c),
         Active(c), child[c] = 0, child'[c] = 0
  PROVE  Alone(c)'
<1>1. /\ pc \in [Commands -> Steps] /\ goal \in [Commands -> Goals]
      /\ report \in [Commands -> [status : Statuses, pid : 0..MaxServers]]
      /\ child \in [Commands -> 0..MaxServers]
      /\ discovery \in Discovery
  BY DEF DaemonInv, TypeOK
<1>2. Alone(c) /\ CommandInv(c)
  BY DEF DaemonInv, Solo
<1>3. \A p \in Pids : Alive(p) => state[p] = "serving" /\ discovery = Info(p)
  BY UpIsRecorded
<1>4. pc[c] \notin {"await", "ready", "kill", "failed"}
  BY <1>2 DEF CommandInv, ChildInv
<1>5. CASE read_thread_server_info(c)
  <2>1. UNCHANGED <<discovery, state>>
    BY <1>5 DEF read_thread_server_info, servers
  <2>2. CASE discovery.kind = "info" /\ goto(c, "probe")
             /\ report' = [report EXCEPT ![c].pid = discovery.pid]
    <3>1. pc'[c] = "probe" /\ report'[c].pid = discovery.pid
      BY <1>1, <2>2 DEF goto
    <3>2. discovery = Info(discovery.pid)
      BY <1>1, <2>2 DEF Discovery, Info
    <3> QED
      BY <2>1, <3>1, <3>2
      DEF Alone, Active, Inspecting, Undecided, Stopping, Quiet
  <2>3. CASE discovery = NoFile /\ inspected(c, "not_running", 0)
    <3>1. /\ pc'[c] = goal[c] /\ report'[c].status = "not_running"
          /\ goal[c] \in Goals
      BY <1>1, <2>3 DEF inspected, goto
    <3>2. Quiet
      BY <1>3, <2>3 DEF Quiet, NoFile, Info
    <3>3. Quiet'
      BY <2>1, <3>2 DEF Quiet, Alive
    <3> QED
      BY <3>1, <3>3
      DEF Alone, Active, Inspecting, Undecided, Stopping, Goals
  <2>4. CASE inspected(c, "invalid_registration", 0)
    <3>1. /\ pc'[c] = goal[c] /\ report'[c].status = "invalid_registration"
          /\ goal[c] \in Goals
      BY <1>1, <2>4 DEF inspected, goto
    <3> QED
      BY <3>1 DEF Alone, Active, Inspecting, Undecided, Stopping, Goals
  <2> QED
    BY <1>5, <2>2, <2>3, <2>4 DEF read_thread_server_info
<1>6. CASE probe(c)
  <2>1. /\ UNCHANGED <<discovery, state>> /\ pc[c] = "probe"
        /\ report[c].pid # 0 /\ discovery = Info(report[c].pid)
    BY <1>2, <1>6
    DEF probe, servers, CommandInv, ReportInv, Alone, Inspecting
  <2>2. CASE pc' = [pc EXCEPT ![c] = "identity"] /\ report' = report
    <3>1. pc'[c] = "identity"
      BY <1>1, <2>2
    <3> QED
      BY <2>1, <2>2, <3>1
      DEF Alone, Active, Inspecting, Undecided, Stopping, Quiet
  <2>3. CASE /\ ~probe_local_thread_server(base_url(report[c].pid))
             /\ inspected(c, "stale_registration", report[c].pid)
    <3>1. /\ pc'[c] = goal[c] /\ report'[c].status = "stale_registration"
          /\ goal[c] \in Goals
      BY <1>1, <2>3 DEF inspected, goto
    <3>2. ASSUME NEW p \in Pids, Alive(p) PROVE FALSE
      <4>1. state[p] = "serving" /\ Info(p) = Info(report[c].pid)
        BY <1>3, <2>1, <3>2
      <4>2. p = report[c].pid
        BY <4>1 DEF Info
      <4> QED
        BY <2>3, <3>2, <4>1, <4>2 DEF probe_local_thread_server, Listening
    <3>3. Quiet'
      BY <2>1, <3>2 DEF Quiet, Alive
    <3> QED
      BY <3>1, <3>3
      DEF Alone, Active, Inspecting, Undecided, Stopping, Goals
  <2> QED
    BY <1>6, <2>2, <2>3 DEF probe, goto
<1>7. CASE validate_identity(c)
  <2>1. /\ UNCHANGED <<discovery, state>>
        /\ discovery = Info(report[c].pid)
    BY <1>2, <1>7 DEF validate_identity, servers, Alone, Inspecting
  <2>2. PICK s \in {"running", "invalid_registration"} :
          inspected(c, s, report[c].pid)
    BY <1>7 DEF validate_identity
  <2>3. /\ pc'[c] = goal[c] /\ goal[c] \in Goals
        /\ report'[c] = [status |-> s, pid |-> report[c].pid]
    BY <1>1, <2>2 DEF inspected, goto
  <2> QED
    BY <2>1, <2>3 DEF Alone, Active, Inspecting, Undecided, Stopping, Goals
<1>8. CASE \/ prepare_thread_server_start(c) \/ refreshed_status(c)
           \/ recover_thread_server_for(c) \/ stop_thread_server_for(c)
  <2>1. /\ UNCHANGED <<discovery, state, report>> /\ Undecided(c)
        /\ report[c].status \in Statuses
    BY <1>1, <1>8
    DEF prepare_thread_server_start, refreshed_status,
        recover_thread_server_for, stop_thread_server_for, servers, Undecided
  <2>2. \/ pc'[c] = "done" \/ pc'[c] = "read"
        \/ /\ pc'[c] \in {"launch", "matches"}
           /\ report[c].status \in {"not_running", "stale_registration"}
        \/ /\ pc'[c] = "terminate" /\ pc[c] = "stop"
           /\ report[c].status = "running"
    BY <1>1, <1>8, <2>1
    DEF prepare_thread_server_start, refreshed_status, report_running,
        recover_thread_server_for, stop_thread_server_for, finish, inspect,
        goto, Statuses
  <2>3. Quiet => Quiet'
    BY <2>1 DEF Quiet, Alive
  <2> QED
    BY <1>2, <2>1, <2>2, <2>3
    DEF Alone, Active, Inspecting, Undecided, Stopping
<1>9. CASE matches_pid(c)
  <2>1. /\ UNCHANGED <<discovery, state, report>> /\ Quiet
    BY <1>2, <1>9 DEF matches_pid, servers, Alone
  <2>2. \/ pc'[c] \in {"done", "read"}
        \/ pc'[c] = "remove" /\ discovery = Info(report[c].pid)
    BY <1>1, <1>9 DEF matches_pid, finish, inspect, goto
  <2>3. Quiet'
    BY <2>1 DEF Quiet, Alive
  <2> QED
    BY <2>1, <2>2, <2>3 DEF Alone, Active, Inspecting, Undecided, Stopping
<1>10. CASE remove_info(c)
  <2>1. UNCHANGED state /\ Quiet
    BY <1>2, <1>10 DEF remove_info, Alone
  <2>2. pc'[c] \in {"done", "launch"}
    BY <1>1, <1>10 DEF remove_info, finish, goto
  <2>3. Quiet'
    BY <2>1 DEF Quiet, Alive
  <2> QED
    BY <2>2, <2>3 DEF Alone, Active, Inspecting, Undecided, Stopping
<1>11. CASE launch_detached_thread_server(c)
  <2>1. ASSUME NEW p \in Pids, child' = [child EXCEPT ![c] = p] PROVE FALSE
    BY <1>1, <2>1, Constants DEF Pids
  <2>2. pc'[c] = "done"
    BY <1>1, <1>11, <2>1 DEF launch_detached_thread_server, finish, goto
  <2> QED
    BY <2>2 DEF Alone, Active
<1>12. CASE terminate_process_by_pid(c)
  <2>1. /\ UNCHANGED <<discovery, state, report>>
        /\ report[c].status = "running" /\ Stopping(c)
    BY <1>2, <1>12
    DEF terminate_process_by_pid, CommandInv, ReportInv, Stopping
  <2>2. pc'[c] \in {"done", "shutdown"}
    BY <1>1, <1>12 DEF terminate_process_by_pid, finish, goto
  <2> QED
    BY <1>2, <2>1, <2>2
    DEF Alone, Active, Inspecting, Undecided, Stopping
<1>13. CASE wait_for_thread_server_shutdown(c)
  <2>1. /\ UNCHANGED <<discovery, state, report>>
        /\ report[c].status = "running" /\ pc[c] = "shutdown"
    BY <1>2, <1>13
    DEF wait_for_thread_server_shutdown, CommandInv, ReportInv, servers
  <2>2. discovery = Info(report[c].pid)
    BY <1>2, <2>1 DEF Alone, Stopping
  <2>3. \/ pc'[c] \in {"done", "shutdown"}
        \/ /\ pc'[c] = "matches"
           /\ \/ ~Alive(report[c].pid)
              \/ ~probe_local_thread_server(base_url(report[c].pid))
    BY <1>1, <1>13, <2>1
    DEF wait_for_thread_server_shutdown, finish, goto
  <2>4. ASSUME pc'[c] = "matches" PROVE Quiet'
    <3>1. ASSUME NEW p \in Pids, Alive(p) PROVE FALSE
      <4>1. state[p] = "serving" /\ Info(p) = Info(report[c].pid)
        BY <1>3, <2>2, <3>1
      <4>2. p = report[c].pid
        BY <4>1 DEF Info
      <4> QED
        BY <2>3, <2>4, <3>1, <4>1, <4>2
        DEF probe_local_thread_server, Listening
    <3> QED
      BY <2>1, <3>1 DEF Quiet, Alive
  <2> QED
    BY <1>2, <2>1, <2>2, <2>3, <2>4
    DEF Alone, Active, Inspecting, Undecided, Stopping
<1>14. ~ (\/ try_wait(c) \/ ready(c) \/ start_failure_report(c)
          \/ stop_launched_child_if_still_running(c))
  BY <1>4
  DEF try_wait, ready, start_failure_report,
      stop_launched_child_if_still_running
<1> QED
  BY <1>5, <1>6, <1>7, <1>8, <1>9, <1>10, <1>11, <1>12, <1>13, <1>14
  DEF CommandStep

(* Which servers a command touches, and when: one it launches while none   *)
(* is up, and its own child.                                               *)
LEMMA SoloTouches ==
  ASSUME DaemonInv, Solo, NEW c \in Commands, CommandStep(c)
  PROVE  /\ users' = users
         /\ \/ /\ child' = child
               /\ \A p \in Pids :
                    \/ state'[p] = state[p]
                    \/ p = child[c] /\ state'[p] = "dead"
            \/ \E p \in Pids :
                 /\ Quiet /\ child'[c] = p /\ state'[p] = "binding"
                 /\ \A q \in Pids : q # p => state'[q] = state[q]
                 /\ \A d \in Commands : d # c => child'[d] = child[d]
         /\ \/ discovery' = discovery /\ orphaned' = orphaned
            \/ Quiet /\ discovery' = NoFile /\ orphaned' = orphaned
<1>1. /\ state \in [Pids -> States] /\ child \in [Commands -> 0..MaxServers]
      /\ CommandInv(c) /\ Alone(c)
  BY DEF DaemonInv, TypeOK, Solo
<1>2. users' = users
  BY CommandTouches
<1>3. CASE remove_info(c)
  <2>1. child[c] = 0 /\ Active(c)
    BY <1>1, <1>3
    DEF remove_info, CommandInv, ChildInv, Waits, Active
  <2>2. Quiet
    BY <1>1, <1>3, <2>1 DEF remove_info, Alone
  <2>3. UNCHANGED <<state, child>>
    BY <1>3 DEF remove_info
  <2>4. \A p \in Pids : state[p] # "open"
    BY <2>2 DEF Quiet, Alive
  <2>5. \/ discovery' = discovery /\ orphaned' = orphaned
        \/ discovery' = NoFile /\ orphaned' = orphaned
    BY <1>3, <2>4 DEF remove_info, remove_file
  <2> QED
    BY <1>2, <2>2, <2>3, <2>5
<1>4. CASE launch_detached_thread_server(c)
  <2>1. child[c] = 0 /\ Active(c)
    BY <1>1, <1>4
    DEF launch_detached_thread_server, CommandInv, ChildInv, Waits, Active
  <2>2. Quiet
    BY <1>1, <1>4, <2>1 DEF launch_detached_thread_server, Alone
  <2>3. discovery' = discovery /\ orphaned' = orphaned
    BY <1>4 DEF launch_detached_thread_server
  <2>4. CASE UNCHANGED <<state, child>>
    BY <1>2, <2>3, <2>4
  <2>5. CASE \E p \in Pids : /\ spawned(p, asked[c])
                             /\ child' = [child EXCEPT ![c] = p]
    <3>1. PICK p \in Pids : /\ spawned(p, asked[c])
                            /\ child' = [child EXCEPT ![c] = p]
      BY <2>5
    <3>2. state' = [state EXCEPT ![p] = "binding"]
      BY <3>1 DEF spawned
    <3>3. /\ Quiet /\ child'[c] = p /\ state'[p] = "binding"
          /\ \A q \in Pids : q # p => state'[q] = state[q]
          /\ \A d \in Commands : d # c => child'[d] = child[d]
      BY <1>1, <2>2, <3>1, <3>2
    <3> QED
      BY <1>2, <2>3, <3>3
  <2> QED
    BY <1>4, <2>4, <2>5 DEF launch_detached_thread_server
<1>5. CASE stop_launched_child_if_still_running(c)
  <2>1. UNCHANGED <<discovery, orphaned, child>>
    BY <1>5 DEF stop_launched_child_if_still_running
  <2>2. state' = state \/ state' = [state EXCEPT ![child[c]] = "dead"]
    BY <1>5 DEF stop_launched_child_if_still_running, become
  <2> QED
    BY <1>1, <1>2, <2>1, <2>2
<1>6. CASE /\ ~remove_info(c) /\ ~launch_detached_thread_server(c)
           /\ ~stop_launched_child_if_still_running(c)
  <2>1. UNCHANGED <<discovery, orphaned, child, state>>
    BY <1>6
    DEF CommandStep, read_thread_server_info, probe, validate_identity,
      prepare_thread_server_start, refreshed_status, matches_pid, try_wait,
      ready, start_failure_report, recover_thread_server_for,
      stop_thread_server_for, terminate_process_by_pid,
      wait_for_thread_server_shutdown, servers
  <2> QED
    BY <1>2, <2>1
<1> QED
  BY <1>3, <1>4, <1>5, <1>6

LEMMA SoloCommand ==
  ASSUME DaemonInv, Solo, NEW c \in Commands, CommandStep(c)
  PROVE  Solo'
<1>1. DaemonInv'
  BY CommandKeeps
<1>2. Active(c)
  BY DEF Active, CommandStep, read_thread_server_info, probe,
      validate_identity, prepare_thread_server_start, refreshed_status,
      matches_pid, remove_info, launch_detached_thread_server, try_wait,
      ready, stop_launched_child_if_still_running, start_failure_report,
      recover_thread_server_for, stop_thread_server_for,
      terminate_process_by_pid, wait_for_thread_server_shutdown
<1>3. /\ \A d \in Commands : d # c => ~Active(d)
      /\ \A d \in Commands : d # c => ~Active(d)'
  <2>1. \A d \in Commands : d # c => ~Active(d)
    BY <1>2 DEF Solo, OneCommand
  <2>2. \A d \in Commands : d # c => pc'[d] = pc[d]
    BY CommandTouches
  <2> QED
    BY <2>1, <2>2 DEF Active
<1>4. OneCommand'
  BY <1>3 DEF OneCommand
<1>5. CASE /\ child' = child
           /\ \A p \in Pids : \/ state'[p] = state[p]
                              \/ p = child[c] /\ state'[p] = "dead"
  <2>1. \A p \in Pids : Alive(p)' => Alive(p) /\ state'[p] = state[p]
    BY <1>5 DEF Alive
  <2>2. OneServer'
    BY <2>1 DEF Solo, OneServer
  <2>3. Recorded'
    <3>1. CASE discovery' = discovery /\ orphaned' = orphaned
      BY <1>5, <3>1, SoloTouches DEF Solo, Recorded
    <3>2. CASE Quiet /\ discovery' = NoFile /\ orphaned' = orphaned
      <4>1. \A p \in Pids : ~Alive(p)'
        BY <2>1, <3>2 DEF Quiet
      <4> QED
        BY <3>2, <4>1, SoloTouches DEF Solo, Recorded, Alive
    <3> QED
      BY <3>1, <3>2, SoloTouches
  <2>4. Attended'
    <3> SUFFICES ASSUME NEW p \in Pids, Alive(p)', state'[p] # "serving"
                 PROVE  \E d \in Commands : (Active(d) /\ child[d] = p)'
      BY DEF Attended
    <3>1. Alive(p) /\ state[p] # "serving"
      BY <2>1
    <3>2. child[c] = p /\ p # 0
      BY <1>3, <3>1, Constants DEF Solo, Attended, Pids
    <3>3. Active(c)'
      <4>1. ASSUME pc'[c] = "done" PROVE FALSE
        <5>1. /\ child'[c] # 0 /\ CommandInv(c)'
          BY <1>1, <1>5, <3>2 DEF DaemonInv
        <5>2. Served(child[c])'
          BY <4>1, <5>1
          DEF CommandInv, ChildInv, ResultInv, Served, Gone
        <5> QED
          BY <1>5, <3>2, <5>2 DEF Served, Alive
      <4>2. pc'[c] # "new"
        BY <1>1, <1>5, <3>2 DEF DaemonInv, CommandInv, ChildInv, Waits
      <4> QED
        BY <4>1, <4>2 DEF Active
    <3> QED
      BY <1>5, <3>2, <3>3
  <2>5. Alone(c)'
    BY <1>2, <1>5, SoloAlone DEF Alone
  <2> QED
    BY <1>3, <1>4, <2>2, <2>3, <2>4, <2>5 DEF Solo, Alone
<1>6. CASE \E p \in Pids :
             /\ Quiet /\ child'[c] = p /\ state'[p] = "binding"
             /\ \A q \in Pids : q # p => state'[q] = state[q]
             /\ \A d \in Commands : d # c => child'[d] = child[d]
  <2>1. PICK p \in Pids :
             /\ Quiet /\ child'[c] = p /\ state'[p] = "binding"
             /\ \A q \in Pids : q # p => state'[q] = state[q]
    BY <1>6
  <2>2. \A q \in Pids : q # p => ~Alive(q)'
    BY <2>1 DEF Quiet, Alive
  <2>3. OneServer'
    BY <2>2 DEF OneServer
  <2>4. Recorded'
    <3>1. \A q \in Pids : state'[q] \notin {"drop", "open", "announcing",
                                            "serving"}
      BY <2>1, <2>2 DEF Alive
    <3> QED
      BY <3>1, SoloTouches DEF Solo, Recorded
  <2>5. p # 0
    BY Constants DEF Pids
  <2>6. Active(c)'
    <3>1. CommandInv(c)' /\ child'[c] # 0
      BY <1>1, <2>1, <2>5 DEF DaemonInv
    <3>2. pc'[c] # "done"
      BY <2>1, <3>1
      DEF CommandInv, ChildInv, ResultInv, Served, Gone
    <3> QED
      BY <3>1, <3>2 DEF CommandInv, ChildInv, Waits, Active
  <2>7. Attended'
    BY <2>1, <2>2, <2>6 DEF Attended
  <2>8. Alone(c)'
    BY <2>1, <2>5 DEF Alone
  <2> QED
    BY <1>3, <1>4, <2>3, <2>4, <2>7, <2>8 DEF Solo, Alone
<1> QED
  BY <1>5, <1>6, SoloTouches

LEMMA NextSolo == DaemonInv /\ SoloInv /\ [Next]_vars => SoloInv'
<1> SUFFICES ASSUME DaemonInv, SoloInv, [Next]_vars, Undisturbed'
             PROVE  Solo'
  BY DEF SoloInv
<1>1. scene' = scene
  <2>1. ASSUME NEW c \in scene.commands, begin(c) \/ CommandStep(c)
        PROVE  scene' = scene
    BY <2>1
    DEF begin, CommandStep, read_thread_server_info, probe,
      validate_identity, prepare_thread_server_start, refreshed_status,
      matches_pid, remove_info, launch_detached_thread_server, try_wait,
      ready, stop_launched_child_if_still_running, start_failure_report,
      recover_thread_server_for, stop_thread_server_for,
      terminate_process_by_pid, wait_for_thread_server_shutdown, servers
  <2>2. ASSUME NEW p \in Pids,
               ServerStep(p) \/ \E b \in scene.binds : run_server(p, b)
        PROVE  scene' = scene
    BY <2>2
    DEF ServerStep, run_server, listen, run_server_fails,
      open_thread_server_info, write_thread_server_info, serve,
      guard_matches, guard_removes, crash, terminated, reuse_pid, commands
  <2> QED
    BY <2>1, <2>2 DEF Next, Finished, vars, servers
<1>2. Undisturbed /\ Solo
  BY <1>1 DEF Undisturbed, SoloInv
<1>3. CASE \E c \in scene.commands : begin(c) \/ CommandStep(c)
  <2>1. scene.commands \subseteq Commands
    BY Scened DEF DaemonInv
  <2> QED
    BY <1>2, <1>3, <2>1, SoloBegun, SoloCommand
<1>4. CASE \E p \in Pids :
             ServerStep(p) \/ \E b \in scene.binds : run_server(p, b)
  BY <1>2, <1>4, SoloServer
<1>5. CASE UNCHANGED vars
  <2>1. UNCHANGED <<state, orphaned, users, discovery, pc, report, child>>
    BY <1>5 DEF vars, servers
  <2> QED
    BY <1>2, <2>1
    DEF Solo, OneCommand, Recorded, OneServer, Attended, Alone, Active,
        Alive, Quiet, Inspecting, Undecided, Stopping
<1> QED
  BY <1>3, <1>4, <1>5 DEF Next, Finished

LEMMA InitSolo == Init => SoloInv
<1> SUFFICES ASSUME Init PROVE Solo
  BY DEF SoloInv
<1>1. /\ \A c \in Commands : ~Active(c)
      /\ \A p \in Pids : ~Alive(p) /\ state[p] = "unborn"
      /\ users = {} /\ orphaned = {}
  BY DEF Init, Active, Alive
<1> QED
  BY <1>1 DEF Solo, OneCommand, Recorded, OneServer, Attended, Alone

LEMMA SoloHolds == Spec => [](DaemonInv /\ SoloInv)
<1>1. Init => DaemonInv /\ SoloInv
  BY InitDaemon, InitSolo
<1>2. DaemonInv /\ SoloInv /\ [Next]_vars => (DaemonInv /\ SoloInv)'
  BY NextDaemon, NextSolo
<1> QED
  BY <1>1, <1>2, PTL DEF Spec

(* One command at a time and no server by hand, the record leads to every  *)
(* server that is up, also after servers were killed at any moment: a      *)
(* launch meets none (prepare_thread_server_start), and a record is        *)
(* cleared once its server is gone (matches_pid, remove_info).             *)
THEOREM ServersReached == Spec => []ServersReachable
<1>1. DaemonInv /\ SoloInv => ServersReachable
  BY DEF SoloInv, Solo, Recorded, ServersReachable
<1> QED
  BY <1>1, SoloHolds, PTL

(* No step removes the record of a server that is up                       *)
(* (remove_thread_server_info_if_matches_pid), under the same conditions.  *)
THEOREM LiveRecords == Spec => LiveRecordKept
<1> DEFINE Kept == Undisturbed =>
                     \A p \in Pids :
                       discovery = Info(p) /\ state[p] = "serving"
                         => discovery' # NoFile
<1>1. ASSUME DaemonInv, SoloInv, [Next]_vars PROVE [Kept]_vars
  <2> SUFFICES ASSUME Undisturbed, NEW p \in Pids,
                      discovery = Info(p), state[p] = "serving",
                      discovery' = NoFile
               PROVE  vars' = vars
    BY DEF Kept
  <2>1. Solo /\ Alive(p) /\ ~Quiet
    BY <1>1 DEF SoloInv, Alive, Quiet
  <2>2. discovery' # discovery
    BY DEF NoFile, Info
  <2>3. ASSUME NEW c \in scene.commands, begin(c) \/ CommandStep(c)
        PROVE  FALSE
    <3>1. c \in Commands
      BY <1>1, Scened DEF DaemonInv
    <3>2. ~begin(c)
      BY <2>2 DEF begin
    <3>3. discovery' = discovery \/ Quiet
      BY <1>1, <2>1, <2>3, <3>1, <3>2, SoloTouches
    <3> QED
      BY <2>1, <2>2, <3>3
  <2>4. ASSUME NEW q \in Pids,
               ServerStep(q) \/ \E b \in scene.binds : run_server(q, b)
        PROVE  FALSE
    <3>1. discovery' \in {discovery, Empty, Info(q)}
      BY <1>1, <2>1, <2>4, SoloServerMoves
    <3> QED
      BY <2>2, <3>1 DEF NoFile, Empty, Info
  <2>5. UNCHANGED vars => discovery' = discovery
    BY DEF vars
  <2> QED
    BY <1>1, <2>2, <2>3, <2>4, <2>5 DEF Next, Finished
<1>2. Spec => [][Kept]_vars
  BY <1>1, SoloHolds, PTL DEF Spec
<1> QED
  BY <1>2 DEF LiveRecordKept
=============================================================================
