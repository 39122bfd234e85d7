------------------------------ MODULE WorkTools ------------------------------
(***************************************************************************)
(* What the Task, Team and Cron tools answer (tools lib.rs).  Several      *)
(* threads call them on the registries of WorkRegistries at the same time. *)
(* Most answers are the entry as the one registry call left it; CronEnable *)
(* and CronDisable change the entry in one call and read it in a second,   *)
(* and TaskWait polls.                                                     *)
(***************************************************************************)
EXTENDS WorkRegistries

CONSTANTS Callers,   \* tool calls, one after the other on each
          MaxPolls   \* polls of one TaskWait

VARIABLES phase,     \* of each caller: "ready", "toggled" (between the two calls), "polling"
          tool,      \* the tool it runs
          entry_id,  \* the entry it was given
          polls,
          disturbed, \* history: another call changed that entry meanwhile
          reply      \* what the last tool call answered

local == <<phase, tool, entry_id, polls, disturbed, reply>>
toolVars == <<vars, local>>

NoReply == [is |-> "none"]
\* alone: nobody else changed the entry before the answer
ok(label, shown, alone) == [is |-> "ok", label |-> label, shown |-> shown, alone |-> alone]
read == [is |-> "read"]   \* an answer that only shows entries as they are
refused == [is |-> "refused"]
not_found == [is |-> "not_found"]

Reply == {NoReply, read, refused, not_found}
         \cup [is : {"ok"}, label : {"stopped", "deleted", "enabled", "disabled", "terminal", "timed_out"},
               shown : Task \cup Team \cup Cron, alone : BOOLEAN]

ToolNames == {"none", "TaskCreate", "TaskGet", "TaskList", "TaskStop", "TaskUpdate", "TaskOutput", "TaskWait",
              "TeamGet", "TeamList", "TeamDelete", "CronCreate", "CronGet", "CronList", "CronDelete",
              "CronEnable", "CronDisable"}

ToolsTypeOK ==
  /\ phase \in [Callers -> {"ready", "toggled", "polling"}] /\ tool \in [Callers -> ToolNames]
  /\ entry_id \in [Callers -> Nat] /\ polls \in [Callers -> Nat]
  /\ disturbed \in [Callers -> BOOLEAN] /\ reply \in [Callers -> Reply]

ToolsInit ==
  /\ Init
  /\ phase = [c \in Callers |-> "ready"] /\ tool = [c \in Callers |-> "none"]
  /\ entry_id = [c \in Callers |-> 0] /\ polls = [c \in Callers |-> 0]
  /\ disturbed = [c \in Callers |-> FALSE]
  /\ reply = [c \in Callers |-> NoReply]

(***************************************************************************)
(* One registry call, one answer.                                          *)
(***************************************************************************)
\* Caller c ran tool n on entry x and answers r; n and x are kept for the
\* answers that report a change.  The others that are in the
\* middle of a call on the same entry are disturbed if the entry changed.
touches(x) ==
  [d \in Callers |->
     disturbed[d] \/ (entry_id[d] = x /\ phase[d] = "polling" /\ x \in DOMAIN tasks /\ tasks'[x] # tasks[x])
                  \/ (entry_id[d] = x /\ phase[d] = "toggled" /\ x \in DOMAIN crons
                      /\ ~(x \in DOMAIN crons' /\ crons'[x] = crons[x]))]

answers(c, n, x, r) ==
  /\ tool' = [tool EXCEPT ![c] = IF r.is = "ok" THEN n ELSE "none"]
  /\ entry_id' = [entry_id EXCEPT ![c] = IF r.is = "ok" THEN x ELSE 0]
  /\ reply' = [reply EXCEPT ![c] = r] /\ phase' = [phase EXCEPT ![c] = "ready"]
  /\ polls' = [polls EXCEPT ![c] = 0]
  /\ disturbed' = [touches(x) EXCEPT ![c] = FALSE]

run_task_create(c) ==
  create_task /\ answers(c, "TaskCreate", Len(tasks) + 1, read)

run_task_get(c, t) ==
  /\ UNCHANGED vars
  /\ answers(c, "TaskGet", t, IF exists(t) THEN read ELSE not_found)

run_task_list(c) == UNCHANGED vars /\ answers(c, "TaskList", 0, read)

\* A refusal is recorded on the task; the answer is only the error.
run_task_stop(c, t) ==
  IF exists(t)
  THEN stop(t) /\ answers(c, "TaskStop", t, IF terminal(tasks[t].status) THEN refused
                                            ELSE ok("stopped", tasks'[t], TRUE))
  ELSE UNCHANGED vars /\ answers(c, "TaskStop", t, not_found)

run_task_update(c, t) ==
  IF exists(t) THEN update(t) /\ answers(c, "TaskUpdate", t, read)
  ELSE UNCHANGED vars /\ answers(c, "TaskUpdate", t, not_found)

run_task_output(c, t) ==
  /\ UNCHANGED vars
  /\ answers(c, "TaskOutput", t, IF exists(t) THEN read ELSE not_found)

run_team_get(c, x) ==
  /\ UNCHANGED vars
  /\ answers(c, "TeamGet", x, IF x \in DOMAIN teams THEN read ELSE not_found)

run_team_list(c) == UNCHANGED vars /\ answers(c, "TeamList", 0, read)

run_team_delete(c, x) ==
  IF x \in DOMAIN teams
  THEN delete_team(x) /\ answers(c, "TeamDelete", x,
                                 IF teams[x].status = "deleted" THEN refused ELSE ok("deleted", teams'[x], TRUE))
  ELSE UNCHANGED vars /\ answers(c, "TeamDelete", x, not_found)

run_cron_create(c) ==
  create_cron /\ answers(c, "CronCreate", cron_counter + 1, read)

run_cron_get(c, x) ==
  /\ UNCHANGED vars
  /\ answers(c, "CronGet", x, IF x \in DOMAIN crons THEN read ELSE not_found)

run_cron_list(c) == UNCHANGED vars /\ answers(c, "CronList", 0, read)

\* The answer shows the entry that was removed.
run_cron_delete(c, x) ==
  IF x \in DOMAIN crons THEN delete_cron(x) /\ answers(c, "CronDelete", x, ok("deleted", crons[x], TRUE))
  ELSE UNCHANGED vars /\ answers(c, "CronDelete", x, not_found)

(***************************************************************************)
(* CronEnable and CronDisable: the change, then the entry for the answer.  *)
(***************************************************************************)
toggle_tool(on) == IF on THEN "CronEnable" ELSE "CronDisable"

run_cron_toggle(c, x, on) ==
  IF x \notin DOMAIN crons
  THEN UNCHANGED vars /\ answers(c, toggle_tool(on), x, not_found)
  ELSE IF crons[x].enabled = on THEN set_enabled(x, on) /\ answers(c, toggle_tool(on), x, refused)
  ELSE /\ set_enabled(x, on)
       /\ phase' = [phase EXCEPT ![c] = "toggled"] /\ tool' = [tool EXCEPT ![c] = toggle_tool(on)]
       /\ entry_id' = [entry_id EXCEPT ![c] = x]
       /\ disturbed' = [touches(x) EXCEPT ![c] = FALSE]
       /\ UNCHANGED <<polls, reply>>

toggle_label(c) == IF tool[c] = "CronEnable" THEN "enabled" ELSE "disabled"

\* Mutant: the entry is answered from before the change.
toggle_answer_stale(c) ==
  LET x == entry_id[c] IN
  /\ phase[c] = "toggled"
  /\ UNCHANGED vars
  /\ answers(c, tool[c], x,
             IF x \notin DOMAIN crons THEN not_found
             ELSE ok(toggle_label(c), [crons[x] EXCEPT !.enabled = (tool[c] # "CronEnable")], ~disturbed[c]))

toggle_answer(c) ==
  LET x == entry_id[c] IN
  /\ phase[c] = "toggled"
  /\ UNCHANGED vars
  /\ answers(c, tool[c], x,
             IF x \notin DOMAIN crons THEN not_found
             ELSE ok(toggle_label(c), crons[x], ~disturbed[c]))

(***************************************************************************)
(* TaskWait: read, decide, sleep.  The time runs out when it likes.        *)
(***************************************************************************)
run_task_wait(c, t) ==
  /\ phase[c] = "ready" \/ (phase[c] = "polling" /\ entry_id[c] = t)
  /\ IF ~exists(t) THEN UNCHANGED vars /\ answers(c, "TaskWait", t, not_found)
     ELSE \/ /\ terminal(tasks[t].status)
             /\ UNCHANGED vars /\ answers(c, "TaskWait", t, ok("terminal", tasks[t], TRUE))
          \/ /\ ~terminal(tasks[t].status)
             /\ UNCHANGED vars /\ answers(c, "TaskWait", t, ok("timed_out", tasks[t], TRUE))
          \/ /\ ~terminal(tasks[t].status) /\ polls[c] < MaxPolls
             /\ phase' = [phase EXCEPT ![c] = "polling"] /\ tool' = [tool EXCEPT ![c] = "TaskWait"]
             /\ entry_id' = [entry_id EXCEPT ![c] = t] /\ polls' = [polls EXCEPT ![c] = @ + 1]
             /\ disturbed' = [disturbed EXCEPT ![c] = FALSE]
             /\ UNCHANGED <<vars, reply>>

ToolsNext ==
  \/ \E c \in Callers :
       \/ /\ phase[c] = "ready"
          /\ \/ run_task_create(c) \/ run_task_list(c) \/ run_team_list(c)
             \/ run_cron_create(c) \/ run_cron_list(c)
             \/ \E t \in 1..MaxTasks : \/ run_task_get(c, t) \/ run_task_stop(c, t)
                                       \/ run_task_update(c, t) \/ run_task_output(c, t)
             \/ \E x \in 1..MaxTasks : run_team_get(c, x) \/ run_team_delete(c, x)
             \/ \E x \in 1..MaxCrons : \/ run_cron_get(c, x) \/ run_cron_delete(c, x)
                                       \/ \E on \in BOOLEAN : run_cron_toggle(c, x, on)
       \/ \E t \in 1..MaxTasks : run_task_wait(c, t)
       \/ toggle_answer(c)
  \/ /\ \E c \in Creators : extract_team_task_ids(c) \/ CreateStep(c)
     /\ UNCHANGED local

ToolsSpec == ToolsInit /\ [][ToolsNext]_toolVars

(***************************************************************************)
(* Properties.                                                             *)
(***************************************************************************)
\* A toggle answers an entry that is as it says, unless somebody else changed
\* it between the change and the answer (run_cron_enable, run_cron_disable).
ToggleTruthful ==
  \A c \in Callers :
    (phase[c] = "ready" /\ reply[c].is = "ok" /\ reply[c].alone /\ tool[c] \in {"CronEnable", "CronDisable"}) =>
       /\ reply[c].shown.enabled = (reply[c].label = "enabled")
       /\ reply[c].shown.disabled_reason = ~reply[c].shown.enabled

\* What a tool reported as final stays so, whatever the other callers and the
\* rollbacks of team creations do afterwards: a task that TaskStop stopped or
\* TaskWait saw end keeps that status, a team that TeamDelete deleted is never
\* shown as live again, and a cron entry that was deleted does not come back.
FinalAnswersHold ==
  \A c \in Callers : (phase[c] = "ready" /\ reply[c].is = "ok") =>
    LET x == entry_id[c] IN
    /\ tool[c] = "TaskStop" \/ (tool[c] = "TaskWait" /\ reply[c].label = "terminal") =>
         tasks[x].status = reply[c].shown.status
    /\ tool[c] = "TeamDelete" => (x \in DOMAIN teams => teams[x].status = "deleted")
    /\ tool[c] = "CronDelete" => x \notin DOMAIN crons

ToolAnswersHold == ToggleTruthful /\ FinalAnswersHold

(***************************************************************************)
(* Why they hold, caller by caller.  A toggle that nobody disturbed finds  *)
(* the entry as it left it; what an answer calls final is final in the     *)
(* registry, whose numbers are never given out twice.                      *)
(***************************************************************************)
TogglePending(c) ==
  phase[c] = "toggled" =>
    /\ tool[c] \in {"CronEnable", "CronDisable"}
    /\ ~disturbed[c] => /\ entry_id[c] \in DOMAIN crons
                        /\ crons[entry_id[c]].enabled = (tool[c] = "CronEnable")
                        /\ crons[entry_id[c]].disabled_reason = (tool[c] # "CronEnable")

ToggleTold(c) ==
  (phase[c] = "ready" /\ reply[c].is = "ok" /\ reply[c].alone /\ tool[c] \in {"CronEnable", "CronDisable"}) =>
     /\ reply[c].shown.enabled = (reply[c].label = "enabled")
     /\ reply[c].shown.disabled_reason = ~reply[c].shown.enabled

FinalTold(c) ==
  (phase[c] = "ready" /\ reply[c].is = "ok") =>
    LET x == entry_id[c] IN
    /\ tool[c] = "TaskStop" \/ (tool[c] = "TaskWait" /\ reply[c].label = "terminal") =>
         exists(x) /\ terminal(tasks[x].status) /\ tasks[x].status = reply[c].shown.status
    /\ tool[c] = "TeamDelete" => x <= team_counter /\ (x \in DOMAIN teams => teams[x].status = "deleted")
    /\ tool[c] = "CronDelete" => x <= cron_counter /\ x \notin DOMAIN crons

CallerInv(c) == TogglePending(c) /\ ToggleTold(c) /\ FinalTold(c)

\* The inductive invariant behind ToolAnswersHold (run_cron_enable,
\* run_task_stop, run_task_wait, run_team_delete, run_cron_delete).
ToolInv == MembershipInv /\ ShownTruthfully /\ ToolsTypeOK /\ \A c \in Callers : CallerInv(c)
=============================================================================
