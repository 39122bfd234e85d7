--------------------------- MODULE WorkRegistries ---------------------------
(***************************************************************************)
(* The process-local task, team and cron registries                        *)
(* (runtime/src/task_registry.rs, team_cron_registry.rs) and the tools     *)
(* that work on them (tools/src/lib.rs). The registries are global and     *)
(* every one has a lock of its own; the runs of all threads of a server    *)
(* use them at the same time. A call of a registry is one step; creating a *)
(* team takes many, with a rollback by hand.                               *)
(***************************************************************************)
EXTENDS Naturals, Sequences

CONSTANTS Creators,    \* TeamCreate calls
          Requests,    \* the task ids a TeamCreate may name
          WorkerStatuses, \* the statuses that set_status is called with
          MaxTasks,    \* bound on the tasks that are created
          MaxCrons,    \* bound on the cron entries that are created
          MaxRuns      \* bound on the recorded runs of a cron entry

ASSUME RegistryAssumption ==
  /\ Requests \subseteq Seq(1..MaxTasks)
  /\ {MaxTasks, MaxCrons, MaxRuns} \subseteq Nat
  /\ WorkerStatuses \subseteq
       {"created", "running", "completed", "failed", "stopped"}

VARIABLES tasks,   \* TaskRegistry: the tasks, numbered by its counter
          teams,   \* TeamRegistry: the teams, by number
          team_counter,
          crons,   \* CronRegistry: the entries, by number
          cron_counter,
          pc,      \* where each TeamCreate call is
          ids,     \* the tasks a TeamCreate names
          at,      \* position in ids
          team_id  \* the team of a TeamCreate

registries == <<tasks, teams, team_counter, crons, cron_counter>>
calls == <<pc, ids, at, team_id>>
vars == <<registries, calls>>

TaskStatus == {"created", "running", "completed", "failed", "stopped"}
terminal(s) == s \in {"completed", "failed", "stopped"}

(* lifecycle is [status, guidance]: the guidance is "none" or the kind of  *)
(* failure it explains. last_error is set or not.                          *)
Lifecycle(statuses) == [status : statuses,
                        guidance : {"none", "conflict", "failure"}]
Task == [status : TaskStatus, lifecycle : Lifecycle(TaskStatus),
         last_error : BOOLEAN, team : Nat]
TeamStatus == {"created", "deleted"}
Team == [status : TeamStatus, lifecycle : Lifecycle(TeamStatus),
         last_error : BOOLEAN, task_ids : Seq(1..MaxTasks)]
CronStatus == {"enabled", "disabled"}
Cron == [enabled : BOOLEAN, lifecycle : Lifecycle(CronStatus),
         last_error : BOOLEAN, disabled_reason : BOOLEAN, run_count : Nat]

CreatorPCs == {"new", "checking", "assigning", "rollback", "failed", "done"}

TypeOK ==
  /\ tasks \in Seq(Task)
  /\ \A x \in DOMAIN teams : teams[x] \in Team
  /\ \A x \in DOMAIN crons : crons[x] \in Cron
  /\ team_counter \in Nat /\ cron_counter \in Nat
  /\ DOMAIN teams \subseteq 1..team_counter
  /\ DOMAIN crons \subseteq 1..cron_counter
  /\ pc \in [Creators -> CreatorPCs]
  /\ ids \in [Creators -> Seq(1..MaxTasks)]
  /\ at \in [Creators -> Nat]
  /\ team_id \in [Creators -> Nat]

Init ==
  /\ tasks = <<>>
  /\ teams = [x \in {} |-> 0] /\ team_counter = 0
  /\ crons = [x \in {} |-> 0] /\ cron_counter = 0
  /\ pc = [c \in Creators |-> "new"]
  /\ ids = [c \in Creators |-> <<>>]
  /\ at = [c \in Creators |-> 0]
  /\ team_id = [c \in Creators |-> 0]

-----------------------------------------------------------------------------
plain(s) == [status |-> s, guidance |-> "none"]
conflict(s) == [status |-> s, guidance |-> "conflict"]
failure == [status |-> "failed", guidance |-> "failure"]

(* A registry call that went through, and one that was refused because of  *)
(* the state of entry e, whose lifecycle shows status s.                   *)
Accepted(e, s) == [e EXCEPT !.lifecycle = plain(s), !.last_error = FALSE]
Refused(e, s) == [e EXCEPT !.lifecycle = conflict(s), !.last_error = TRUE]

With(f, x, v) == [y \in DOMAIN f \cup {x} |-> IF y = x THEN v ELSE f[y]]
Without(f, x) == [y \in DOMAIN f \ {x} |-> f[y]]

exists(t) == t \in 1..Len(tasks)
set_task(t, v) == tasks' = [tasks EXCEPT ![t] = v]

(* TaskRegistry *)
create_task ==
  /\ Len(tasks) < MaxTasks
  /\ tasks' = Append(tasks, [status |-> "created",
                             lifecycle |-> plain("created"),
                             last_error |-> FALSE, team |-> 0])
  /\ UNCHANGED <<teams, team_counter, crons, cron_counter, calls>>

stop(t) ==
  LET k == tasks[t] IN
  /\ exists(t)
  /\ set_task(t, IF terminal(k.status) THEN Refused(k, k.status)
                 ELSE Accepted([k EXCEPT !.status = "stopped"], "stopped"))
  /\ UNCHANGED <<teams, team_counter, crons, cron_counter, calls>>

(* update and append_output: what they append is left out.                 *)
update(t) ==
  /\ exists(t)
  /\ set_task(t, Accepted(tasks[t], tasks[t].status))
  /\ UNCHANGED <<teams, team_counter, crons, cron_counter, calls>>

(* Mutant: the lifecycle keeps the old status.                             *)
set_status_hidden(t, s) ==
  /\ exists(t)
  /\ set_task(t, [tasks[t] EXCEPT !.status = s])
  /\ UNCHANGED <<teams, team_counter, crons, cron_counter, calls>>

set_status(t, s) ==
  LET k == [tasks[t] EXCEPT !.status = s] IN
  /\ exists(t)
  /\ set_task(t, IF s = "failed" THEN [k EXCEPT !.lifecycle = failure]
                 ELSE Accepted(k, s))
  /\ UNCHANGED <<teams, team_counter, crons, cron_counter, calls>>

record_failure(t) ==
  /\ exists(t)
  /\ set_task(t, [tasks[t] EXCEPT !.status = "failed", !.lifecycle = failure,
                                  !.last_error = TRUE])
  /\ UNCHANGED <<teams, team_counter, crons, cron_counter, calls>>

(* The task after assign_team and unassign_team.                           *)
assigned(k, x) ==
  IF k.team \in {0, x} THEN Accepted([k EXCEPT !.team = x], k.status)
  ELSE Refused(k, k.status)
unassigned(k, x) ==
  IF k.team \in {0, x} THEN Accepted([k EXCEPT !.team = 0], k.status)
  ELSE Refused(k, k.status)

-----------------------------------------------------------------------------
(* run_team_create. extract_team_task_ids: distinct ids, in order.         *)
NoDuplicates(s) == \A i, j \in 1..Len(s) : s[i] = s[j] => i = j

goto(c, l) == pc' = [pc EXCEPT ![c] = l]
advance(c) == at' = [at EXCEPT ![c] = @ + 1]

extract_team_task_ids(c) ==
  /\ pc[c] = "new"
  /\ \E r \in Requests :
       IF NoDuplicates(r)
       THEN /\ ids' = [ids EXCEPT ![c] = r]
            /\ at' = [at EXCEPT ![c] = 1]
            /\ goto(c, "checking")
       ELSE goto(c, "failed") /\ UNCHANGED <<ids, at>>
  /\ UNCHANGED <<registries, team_id>>

check_task(c) ==
  LET t == ids[c][at[c]] IN
  /\ pc[c] = "checking" /\ at[c] <= Len(ids[c])
  /\ IF exists(t) /\ tasks[t].team = 0
     THEN advance(c) /\ UNCHANGED pc
     ELSE goto(c, "failed") /\ UNCHANGED at
  /\ UNCHANGED <<registries, ids, team_id>>

create_team(c) ==
  /\ pc[c] = "checking" /\ at[c] > Len(ids[c])
  /\ team_counter' = team_counter + 1
  /\ teams' = With(teams, team_counter + 1,
                   [status |-> "created", lifecycle |-> plain("created"),
                    last_error |-> FALSE, task_ids |-> ids[c]])
  /\ team_id' = [team_id EXCEPT ![c] = team_counter + 1]
  /\ at' = [at EXCEPT ![c] = 1]
  /\ goto(c, "assigning")
  /\ UNCHANGED <<tasks, crons, cron_counter, ids>>

(* Mutant: a task is taken from the team it is in.                         *)
assign_team_steals(c) ==
  LET t == ids[c][at[c]] IN
  /\ pc[c] = "assigning" /\ at[c] <= Len(ids[c])
  /\ set_task(t, [tasks[t] EXCEPT !.team = team_id[c]])
  /\ advance(c)
  /\ UNCHANGED <<teams, team_counter, crons, cron_counter, pc, ids, team_id>>

assign_team(c) ==
  LET t == ids[c][at[c]] IN
  /\ pc[c] = "assigning" /\ at[c] <= Len(ids[c])
  /\ set_task(t, assigned(tasks[t], team_id[c]))
  /\ IF tasks[t].team \in {0, team_id[c]}
     THEN advance(c) /\ UNCHANGED <<pc, ids>>
     ELSE /\ goto(c, "rollback")
          /\ ids' = [ids EXCEPT ![c] = SubSeq(@, 1, at[c] - 1)]
          /\ at' = [at EXCEPT ![c] = 1]
  /\ UNCHANGED <<teams, team_counter, crons, cron_counter, team_id>>

team_created(c) ==
  /\ pc[c] = "assigning" /\ at[c] > Len(ids[c])
  /\ goto(c, "done")
  /\ UNCHANGED <<registries, ids, at, team_id>>

(* The rollback: ids is now assigned_task_ids; then the team goes.         *)
unassign_team(c) ==
  LET t == ids[c][at[c]] IN
  /\ pc[c] = "rollback" /\ at[c] <= Len(ids[c])
  /\ set_task(t, unassigned(tasks[t], team_id[c]))
  /\ advance(c)
  /\ UNCHANGED <<teams, team_counter, crons, cron_counter, pc, ids, team_id>>

remove_team(c) ==
  /\ pc[c] = "rollback" /\ at[c] > Len(ids[c])
  /\ teams' = Without(teams, team_id[c])
  /\ goto(c, "failed")
  /\ UNCHANGED <<tasks, team_counter, crons, cron_counter, ids, at, team_id>>

(* TeamRegistry::delete: the team stays, marked; its tasks stay assigned.  *)
delete_team(x) ==
  LET t == teams[x] IN
  /\ x \in DOMAIN teams
  /\ teams' = [teams EXCEPT ![x] =
                 IF t.status = "deleted" THEN Refused(t, "deleted")
                 ELSE Accepted([t EXCEPT !.status = "deleted"], "deleted")]
  /\ UNCHANGED <<tasks, team_counter, crons, cron_counter, calls>>

-----------------------------------------------------------------------------
(* CronRegistry *)
create_cron ==
  /\ cron_counter < MaxCrons
  /\ cron_counter' = cron_counter + 1
  /\ crons' = With(crons, cron_counter + 1,
                   [enabled |-> TRUE, lifecycle |-> plain("enabled"),
                    last_error |-> FALSE, disabled_reason |-> FALSE,
                    run_count |-> 0])
  /\ UNCHANGED <<tasks, teams, team_counter, calls>>

set_cron(x, v) == /\ x \in DOMAIN crons
                  /\ crons' = [crons EXCEPT ![x] = v]
                  /\ UNCHANGED <<tasks, teams, team_counter, cron_counter,
                                 calls>>

(* disable and enable *)
set_enabled(x, on) ==
  LET e == crons[x]
      s == IF on THEN "enabled" ELSE "disabled"
  IN set_cron(x, IF e.enabled = on THEN Refused(e, s)
                 ELSE Accepted([e EXCEPT !.enabled = on,
                                         !.disabled_reason = ~on], s))

record_run(x) ==
  LET e == crons[x] IN
  /\ crons[x].run_count < MaxRuns
  /\ set_cron(x, IF ~e.enabled THEN Refused(e, "disabled")
                 ELSE Accepted([e EXCEPT !.run_count = @ + 1], "enabled"))

delete_cron(x) ==
  /\ x \in DOMAIN crons
  /\ crons' = Without(crons, x)
  /\ UNCHANGED <<tasks, teams, team_counter, cron_counter, calls>>

-----------------------------------------------------------------------------
CreateStep(c) ==
  \/ check_task(c) \/ create_team(c) \/ assign_team(c) \/ team_created(c)
  \/ unassign_team(c) \/ remove_team(c)

Next ==
  \/ create_task
  \/ \E t \in 1..MaxTasks :
       \/ stop(t) \/ update(t) \/ record_failure(t)
       \/ \E s \in WorkerStatuses : set_status(t, s)
  \/ \E c \in Creators : extract_team_task_ids(c) \/ CreateStep(c)
  \/ \E x \in DOMAIN teams : delete_team(x)
  \/ create_cron
  \/ \E x \in DOMAIN crons :
       \/ \E on \in BOOLEAN : set_enabled(x, on)
       \/ record_run(x) \/ delete_cron(x)

Spec == Init /\ [][Next]_vars

-----------------------------------------------------------------------------
(* A task and its team know of each other: a task that is in a team is     *)
(* listed by that team, which exists, and a team whose creation succeeded  *)
(* has all of its tasks; a creation that fails leaves nothing behind,      *)
(* however it interleaves with others that want the same tasks.            *)
MembershipAgrees ==
  /\ \A t \in 1..Len(tasks) :
       tasks[t].team # 0 =>
         /\ tasks[t].team \in DOMAIN teams
         /\ \E i \in 1..Len(teams[tasks[t].team].task_ids) :
              teams[tasks[t].team].task_ids[i] = t
  /\ \A c \in Creators :
       /\ pc[c] = "done" => \A i \in 1..Len(ids[c]) :
                              tasks[ids[c][i]].team = team_id[c]
       /\ pc[c] = "failed" /\ team_id[c] # 0 =>
            team_id[c] \notin DOMAIN teams

(* Why they agree. Held(c): the positions in ids of the tasks that are in  *)
(* the team of creation c at this moment.                                  *)
Owning(c) == pc[c] \in {"assigning", "rollback", "done"}
Held(c) == IF pc[c] = "assigning" THEN 1..(at[c] - 1)
           ELSE IF pc[c] = "rollback" THEN at[c]..Len(ids[c])
           ELSE IF pc[c] = "done" THEN 1..Len(ids[c]) ELSE {}

(* A creation works on distinct tasks that exist from the check on ...     *)
Ready(c) ==
  /\ NoDuplicates(ids[c])
  /\ pc[c] = "checking" => /\ at[c] \in 1..(Len(ids[c]) + 1)
                           /\ \A i \in 1..(at[c] - 1) : exists(ids[c][i])
  /\ pc[c] \in {"assigning", "rollback"} => at[c] \in 1..(Len(ids[c]) + 1)
  /\ Owning(c) => \A i \in 1..Len(ids[c]) : exists(ids[c][i])
  /\ pc[c] \in {"new", "checking"} => team_id[c] = 0
  /\ Owning(c) => team_id[c] # 0
  /\ team_id[c] <= team_counter

(* ... under a team number nobody else has.                                *)
Prepared ==
  \A c \in Creators :
    /\ Ready(c)
    /\ \A d \in Creators \ {c} : team_id[c] = team_id[d] => team_id[c] = 0

(* The team of a creation that is not rolled back lists its tasks; of one  *)
(* that failed it is gone.                                                 *)
Listed ==
  \A c \in Creators :
    /\ Owning(c) =>
         /\ team_id[c] \in DOMAIN teams
         /\ \A i \in 1..Len(ids[c]) :
              \E j \in 1..Len(teams[team_id[c]].task_ids) :
                teams[team_id[c]].task_ids[j] = ids[c][i]
    /\ pc[c] = "failed" => team_id[c] \notin DOMAIN teams

(* A task is in a team exactly when a creation holds it.                   *)
Assigned ==
  /\ \A c \in Creators : \A i \in Held(c) :
       tasks[ids[c][i]].team = team_id[c]
  /\ \A t \in 1..Len(tasks) : tasks[t].team # 0 =>
       \E c \in Creators : /\ tasks[t].team = team_id[c]
                           /\ \E i \in Held(c) : ids[c][i] = t

(* The inductive invariant behind MembershipAgrees: creations hold their   *)
(* tasks through every step and through the rollback (run_team_create).    *)
MembershipInv == TypeOK /\ Prepared /\ Listed /\ Assigned

(* What a list shows of an entry whose status is s is true of it: the      *)
(* lifecycle's status is s, an error comes with guidance, and conflict     *)
(* guidance with its error.                                                *)
Shown(e, s) == /\ e.lifecycle.status = s
               /\ e.last_error => e.lifecycle.guidance # "none"
               /\ e.lifecycle.guidance = "conflict" => e.last_error

(* Every entry is shown as it is, and exactly a disabled cron entry has a  *)
(* reason (task_registry.rs, team_cron_registry.rs).                       *)
ShownTruthfully ==
  /\ \A t \in 1..Len(tasks) : Shown(tasks[t], tasks[t].status)
  /\ \A x \in DOMAIN teams : Shown(teams[x], teams[x].status)
  /\ \A x \in DOMAIN crons :
       /\ Shown(crons[x], IF crons[x].enabled THEN "enabled" ELSE "disabled")
       /\ crons[x].disabled_reason = ~crons[x].enabled
=============================================================================
