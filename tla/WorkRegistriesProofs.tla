----------------------- MODULE WorkRegistriesProofs -----------------------
(***************************************************************************)
(* The task, team and cron registries and their tools, for any number of   *)
(* creations, callers, tasks and requests.  Tasks and teams agree          *)
(* (MembershipInv is inductive), every entry is shown as it is, and what   *)
(* the tools answered holds (ToolInv is inductive).                        *)
(***************************************************************************)
EXTENDS WorkTools, TLAPS

(* Replacing an element of a sequence.                                     *)
LEMMA ReplaceFacts ==
  ASSUME NEW S, NEW q \in Seq(S), NEW k \in 1..Len(q), NEW v \in S
  PROVE  LET r == [q EXCEPT ![k] = v] IN
         /\ r \in Seq(S) /\ Len(r) = Len(q) /\ r[k] = v
         /\ \A j \in 1..Len(q) : j # k => r[j] = q[j]
OBVIOUS

(* A prefix of a sequence.                                                 *)
LEMMA PrefixFacts ==
  ASSUME NEW S, NEW q \in Seq(S), NEW k \in 1..Len(q)
  PROVE  LET r == SubSeq(q, 1, k - 1) IN
         /\ r \in Seq(S) /\ Len(r) = k - 1
         /\ \A j \in 1..(k - 1) : r[j] = q[j]
<1>1. \A j \in 1..(k - 1) : q[j] \in S
  OBVIOUS
<1> QED
  BY <1>1

(* Assigning and unassigning.                                              *)
LEMMA AssignedFacts ==
  ASSUME NEW k \in Task, NEW x \in Nat
  PROVE  /\ assigned(k, x) \in Task /\ unassigned(k, x) \in Task
         /\ k.team \in {0, x} => /\ assigned(k, x).team = x
                                 /\ unassigned(k, x).team = 0
         /\ k.team \notin {0, x} => /\ assigned(k, x).team = k.team
                                    /\ unassigned(k, x).team = k.team
<1>1. k.status \in TaskStatus
  BY DEF Task
<1>2. /\ Accepted([k EXCEPT !.team = x], k.status) \in Task
      /\ Accepted([k EXCEPT !.team = x], k.status).team = x
      /\ Refused(k, k.status) \in Task
      /\ Refused(k, k.status).team = k.team
  BY <1>1 DEF Task, Lifecycle, Accepted, Refused, plain, conflict, failure,
              TaskStatus
<1>3. /\ Accepted([k EXCEPT !.team = 0], k.status) \in Task
      /\ Accepted([k EXCEPT !.team = 0], k.status).team = 0
  BY <1>1 DEF Task, Lifecycle, Accepted, plain, TaskStatus
<1> QED
  BY <1>2, <1>3 DEF assigned, unassigned

-----------------------------------------------------------------------------
(* A call of the task registry that replaces a task.                       *)
LEMMA SetTask ==
  ASSUME TypeOK, NEW t, exists(t), NEW v \in Task, set_task(t, v)
  PROVE  /\ tasks' \in Seq(Task) /\ Len(tasks') = Len(tasks)
         /\ tasks'[t] = v
         /\ \A u \in 1..Len(tasks) : u # t => tasks'[u] = tasks[u]
<1>1. tasks \in Seq(Task) /\ t \in 1..Len(tasks)
  BY DEF TypeOK, exists
<1> QED
  BY <1>1, ReplaceFacts DEF set_task

(* A call of the task registry replaces the task by one in the same team   *)
(* that is shown as it is: stop and update of a finished task included.    *)
LEMMA TaskUpdate ==
  ASSUME TypeOK, NEW t \in 1..MaxTasks,
         \/ stop(t) \/ update(t) \/ record_failure(t)
         \/ \E s \in WorkerStatuses : set_status(t, s)
  PROVE  /\ exists(t)
         /\ \E v \in Task : /\ set_task(t, v) /\ v.team = tasks[t].team
                            /\ Shown(v, v.status)
         /\ UNCHANGED <<teams, team_counter, crons, cron_counter, calls>>
<1>0. \A u \in 1..Len(tasks) : tasks[u] \in Task
                               /\ tasks[u].status \in TaskStatus
  <2>1. tasks \in Seq(Task) BY DEF TypeOK
  <2>2. \A k \in Task : k.status \in TaskStatus BY DEF Task
  <2> QED BY <2>1, <2>2
<1>1. ASSUME stop(t)
      PROVE  \E v \in Task : /\ set_task(t, v) /\ v.team = tasks[t].team
                           /\ Shown(v, v.status)
  <2> DEFINE k == tasks[t]
             v == IF terminal(k.status) THEN Refused(k, k.status)
                  ELSE Accepted([k EXCEPT !.status = "stopped"], "stopped")
  <2>1. k \in Task /\ set_task(t, v)
    BY <1>0, <1>1 DEF stop, exists
  <2> HIDE DEF k
  <2>2. v \in Task /\ v.team = k.team /\ Shown(v, v.status)
    BY <2>1 DEF Shown, Task, Lifecycle, Accepted, Refused, plain,
                conflict, TaskStatus
  <2> QED
    BY <2>1, <2>2 DEF k
<1>2. ASSUME update(t)
      PROVE  \E v \in Task : /\ set_task(t, v) /\ v.team = tasks[t].team
                           /\ Shown(v, v.status)
  <2> DEFINE k == tasks[t]
             v == Accepted(k, k.status)
  <2>1. k \in Task /\ set_task(t, v)
    BY <1>0, <1>2 DEF update, exists
  <2> HIDE DEF k
  <2>2. v \in Task /\ v.team = k.team /\ Shown(v, v.status)
    BY <2>1 DEF Shown, Task, Lifecycle, Accepted, plain, TaskStatus
  <2> QED
    BY <2>1, <2>2 DEF k
<1>3. ASSUME record_failure(t)
      PROVE  \E v \in Task : /\ set_task(t, v) /\ v.team = tasks[t].team
                           /\ Shown(v, v.status)
  <2> DEFINE k == tasks[t]
             v == [k EXCEPT !.status = "failed", !.lifecycle = failure,
                            !.last_error = TRUE]
  <2>1. k \in Task /\ set_task(t, v)
    BY <1>0, <1>3 DEF record_failure, exists
  <2> HIDE DEF k
  <2>2. v \in Task /\ v.team = k.team /\ Shown(v, v.status)
    BY <2>1 DEF Shown, Task, Lifecycle, failure, TaskStatus
  <2> QED
    BY <2>1, <2>2 DEF k
<1>4. ASSUME NEW s \in WorkerStatuses, set_status(t, s)
      PROVE  \E v \in Task : /\ set_task(t, v) /\ v.team = tasks[t].team
                           /\ Shown(v, v.status)
  <2> DEFINE k == tasks[t]
             m == [k EXCEPT !.status = s]
             v == IF s = "failed" THEN [m EXCEPT !.lifecycle = failure]
                  ELSE Accepted(m, s)
  <2>1. k \in Task /\ set_task(t, v) /\ s \in TaskStatus
    BY <1>0, <1>4, RegistryAssumption DEF set_status, exists, TaskStatus
  <2> HIDE DEF k
  <2>2. v \in Task /\ v.team = k.team /\ Shown(v, v.status)
    BY <2>1 DEF Shown, Task, Lifecycle, Accepted, plain, failure, TaskStatus
  <2> QED
    BY <2>1, <2>2 DEF k
<1>5. exists(t)
      /\ UNCHANGED <<teams, team_counter, crons, cron_counter, calls>>
  BY DEF stop, update, record_failure, set_status
<1> QED
  BY <1>1, <1>2, <1>3, <1>4, <1>5

(* A step that only changes how tasks, teams and cron entries are shown,   *)
(* or adds a task.                                                         *)
LEMMA TaskSteps ==
  ASSUME TypeOK,
         \/ create_task
         \/ \E t \in 1..MaxTasks :
              \/ stop(t) \/ update(t) \/ record_failure(t)
              \/ \E s \in WorkerStatuses : set_status(t, s)
  PROVE  /\ tasks' \in Seq(Task) /\ Len(tasks') >= Len(tasks)
         /\ \A u \in 1..Len(tasks) : tasks'[u].team = tasks[u].team
         /\ \A u \in 1..Len(tasks') : u > Len(tasks) => tasks'[u].team = 0
         /\ UNCHANGED <<teams, team_counter, crons, cron_counter, calls>>
<1>0. tasks \in Seq(Task) /\ Len(tasks) \in Nat
      /\ \A u \in 1..Len(tasks) : tasks[u] \in Task
                                  /\ tasks[u].status \in TaskStatus
  <2>1. tasks \in Seq(Task) BY DEF TypeOK
  <2>2. \A k \in Task : k.status \in TaskStatus BY DEF Task
  <2> QED BY <2>1, <2>2
<1>1. CASE create_task
  <2> DEFINE k == [status |-> "created", lifecycle |-> plain("created"),
                   last_error |-> FALSE, team |-> 0]
  <2>1. k \in Task /\ k.team = 0
    BY DEF Task, TaskStatus, Lifecycle, plain
  <2>2. tasks' = Append(tasks, k)
    BY <1>1 DEF create_task
  <2> HIDE DEF k
  <2>3. /\ tasks' \in Seq(Task) /\ Len(tasks') = Len(tasks) + 1
        /\ \A u \in 1..Len(tasks) : tasks'[u] = tasks[u]
        /\ tasks'[Len(tasks) + 1] = k
    BY <1>0, <2>1, <2>2
  <2> QED
    BY <1>0, <1>1, <2>1, <2>3 DEF create_task
<1>2. ASSUME NEW t \in 1..MaxTasks, NEW v \in Task, exists(t),
             set_task(t, v), v.team = tasks[t].team
      PROVE  /\ tasks' \in Seq(Task) /\ Len(tasks') >= Len(tasks)
             /\ \A u \in 1..Len(tasks) : tasks'[u].team = tasks[u].team
             /\ \A u \in 1..Len(tasks') : u > Len(tasks) =>
                  tasks'[u].team = 0
  <2>1. /\ tasks' \in Seq(Task) /\ Len(tasks') = Len(tasks) /\ tasks'[t] = v
        /\ \A u \in 1..Len(tasks) : u # t => tasks'[u] = tasks[u]
    BY <1>2, SetTask
  <2> QED
    BY <1>0, <1>2, <2>1
<1>3. ASSUME NEW t \in 1..MaxTasks,
             \/ stop(t) \/ update(t) \/ record_failure(t)
             \/ \E s \in WorkerStatuses : set_status(t, s)
      PROVE  /\ exists(t)
             /\ \E v \in Task : set_task(t, v) /\ v.team = tasks[t].team
             /\ UNCHANGED <<teams, team_counter, crons, cron_counter, calls>>
  BY <1>3, TaskUpdate
<1> QED
  BY <1>1, <1>2, <1>3

(* A creation holds tasks that exist, at positions of its list.            *)
LEMMA HeldFacts ==
  ASSUME MembershipInv, NEW c \in Creators
  PROVE  /\ Len(ids[c]) \in Nat /\ at[c] \in Nat /\ team_id[c] \in Nat
         /\ \A i \in Held(c) : /\ i \in 1..Len(ids[c]) /\ Owning(c)
                               /\ exists(ids[c][i])
<1>1. Len(ids[c]) \in Nat /\ at[c] \in Nat /\ team_id[c] \in Nat
  BY DEF MembershipInv, TypeOK
<1>2. ASSUME NEW i \in Held(c)
      PROVE  i \in 1..Len(ids[c]) /\ Owning(c)
  <2>1. Owning(c) BY <1>2 DEF Held, Owning
  <2>2. pc[c] \in {"assigning", "rollback"} => at[c] \in 1..(Len(ids[c]) + 1)
    BY DEF MembershipInv, Prepared, Ready
  <2> QED
    BY <1>1, <1>2, <2>1, <2>2 DEF Held, Owning
<1>3. Owning(c) => \A i \in 1..Len(ids[c]) : exists(ids[c][i])
  BY DEF MembershipInv, Prepared, Ready
<1> QED
  BY <1>1, <1>2, <1>3

(* A step that leaves the creations alone, the teams with their lists, and *)
(* the team of every task.                                                 *)
LEMMA Frame ==
  ASSUME MembershipInv, UNCHANGED <<calls, team_counter>>,
         Len(tasks) \in Nat, Len(tasks') \in Nat, Len(tasks') >= Len(tasks),
         \A u \in 1..Len(tasks) : tasks'[u].team = tasks[u].team,
         \A u \in 1..Len(tasks') : u > Len(tasks) => tasks'[u].team = 0,
         DOMAIN teams' = DOMAIN teams,
         \A x \in DOMAIN teams : teams'[x].task_ids = teams[x].task_ids
  PROVE  Prepared' /\ Listed' /\ Assigned'
<1>1. \A t : exists(t) => exists(t)' /\ tasks'[t].team = tasks[t].team
  BY DEF exists
<1>2. \A c \in Creators : Held(c)' = Held(c) /\ Owning(c)' = Owning(c)
  BY DEF Held, Owning, calls
<1>3. Prepared'
  BY <1>1, <1>2 DEF MembershipInv, Prepared, Ready, calls, NoDuplicates
<1>4. Listed'
  BY <1>2 DEF MembershipInv, Listed, calls
<1>5. \A c \in Creators : \A i \in Held(c) : exists(ids[c][i])
  BY HeldFacts
<1>6. Assigned'
  <2>1. \A c \in Creators : \A i \in Held(c)' :
          tasks'[ids'[c][i]].team = team_id'[c]
    BY <1>1, <1>2, <1>5 DEF MembershipInv, Assigned, calls
  <2>2. ASSUME NEW t \in 1..Len(tasks'), tasks'[t].team # 0
        PROVE  \E c \in Creators : /\ tasks'[t].team = team_id'[c]
                                   /\ \E i \in Held(c)' : ids'[c][i] = t
    <3>1. t \in 1..Len(tasks) /\ tasks[t].team = tasks'[t].team
      BY <2>2
    <3> QED
      BY <1>2, <2>2, <3>1 DEF MembershipInv, Assigned, calls
  <2> QED
    BY <2>1, <2>2 DEF Assigned
<1> QED
  BY <1>3, <1>4, <1>6

-----------------------------------------------------------------------------
(* The steps of TeamCreate. Two creations never share a team number.       *)
LEMMA OwnTeam ==
  ASSUME MembershipInv, NEW c \in Creators, NEW d \in Creators \ {c}, Owning(c)
  PROVE  team_id[c] # team_id[d] /\ team_id[c] # 0
BY DEF MembershipInv, Prepared, Ready

(* A creation that takes no step stays ready and keeps what it holds.      *)
LEMMA OtherReady ==
  ASSUME MembershipInv, NEW d \in Creators,
         pc'[d] = pc[d], ids'[d] = ids[d], at'[d] = at[d],
         team_id'[d] = team_id[d],
         team_counter \in Nat, team_counter' \in Nat,
         team_counter' >= team_counter,
         Len(tasks) \in Nat, Len(tasks') \in Nat, Len(tasks') >= Len(tasks)
  PROVE  Ready(d)' /\ Held(d)' = Held(d) /\ (Owning(d)' <=> Owning(d))
<1>1. Held(d)' = Held(d) /\ (Owning(d)' <=> Owning(d))
  BY DEF Held, Owning
<1>2. Ready(d) /\ team_id[d] \in Nat
  BY HeldFacts DEF MembershipInv, Prepared
<1>3. Ready(d)'
  BY <1>1, <1>2 DEF Ready, NoDuplicates, exists
<1> QED
  BY <1>1, <1>3

(* A step that only moves one creation that owns no team.                  *)
LEMMA Unowned ==
  ASSUME MembershipInv, TypeOK', NEW c \in Creators,
         UNCHANGED <<registries, team_id>>,
         pc[c] \in {"new", "checking"}, pc'[c] \in {"checking", "failed"},
         \A d \in Creators \ {c} :
           pc'[d] = pc[d] /\ ids'[d] = ids[d] /\ at'[d] = at[d],
         Ready(c)'
  PROVE  MembershipInv'
<1>1. /\ UNCHANGED <<tasks, teams, team_counter, team_id>>
      /\ team_counter \in Nat /\ Len(tasks) \in Nat
  BY DEF registries, MembershipInv, TypeOK
<1>2. \A d \in Creators \ {c} :
        Ready(d)' /\ Held(d)' = Held(d) /\ (Owning(d)' <=> Owning(d))
  BY <1>1, OtherReady
<1>3. ~Owning(c) /\ ~(Owning(c)') /\ Held(c) = {} /\ Held(c)' = {}
  BY DEF Owning, Held
<1>4. team_id[c] = 0
  BY DEF MembershipInv, Prepared, Ready
<1>5. Prepared'
  BY <1>1, <1>2 DEF MembershipInv, Prepared
<1>6. Listed'
  <2>1. 0 \notin DOMAIN teams
    BY DEF MembershipInv, TypeOK
  <2> QED
    BY <1>1, <1>2, <1>3, <1>4, <2>1 DEF MembershipInv, Listed
<1>7. Assigned'
  BY <1>1, <1>2, <1>3 DEF MembershipInv, Assigned
<1> QED
  BY <1>5, <1>6, <1>7 DEF MembershipInv

(* Taking over a request (extract_team_task_ids): nothing is held yet.     *)
LEMMA ExtractKeeps ==
  ASSUME MembershipInv, NEW c \in Creators, extract_team_task_ids(c)
  PROVE  MembershipInv'
<1>0. PICK r \in Requests :
        IF NoDuplicates(r)
        THEN /\ ids' = [ids EXCEPT ![c] = r]
             /\ at' = [at EXCEPT ![c] = 1]
             /\ goto(c, "checking")
        ELSE goto(c, "failed") /\ UNCHANGED <<ids, at>>
  BY DEF extract_team_task_ids
<1>1. r \in Seq(1..MaxTasks) /\ Len(r) \in Nat
  BY RegistryAssumption
<1>2. TypeOK'
  <2>1. pc' \in [Creators -> CreatorPCs]
    BY <1>0 DEF goto, MembershipInv, TypeOK, CreatorPCs
  <2>2. ids' \in [Creators -> Seq(1..MaxTasks)] /\ at' \in [Creators -> Nat]
    <3>1. ids \in [Creators -> Seq(1..MaxTasks)] /\ at \in [Creators -> Nat]
      BY DEF MembershipInv, TypeOK
    <3>2. \/ ids' = [ids EXCEPT ![c] = r] /\ at' = [at EXCEPT ![c] = 1]
          \/ ids' = ids /\ at' = at
      BY <1>0
    <3>3. [ids EXCEPT ![c] = r] \in [Creators -> Seq(1..MaxTasks)]
          /\ [at EXCEPT ![c] = 1] \in [Creators -> Nat]
      BY <1>1, <3>1
    <3> QED
      BY <3>1, <3>2, <3>3
  <2> QED
    BY <2>1, <2>2 DEF extract_team_task_ids, MembershipInv, TypeOK, registries
<1>3. pc[c] = "new" /\ UNCHANGED <<registries, team_id>>
  BY DEF extract_team_task_ids
<1>4. \A d \in Creators \ {c} :
        pc'[d] = pc[d] /\ ids'[d] = ids[d] /\ at'[d] = at[d]
  BY <1>0 DEF goto, MembershipInv, TypeOK
<1>5. Ready(c) /\ team_id[c] = 0 /\ team_id' = team_id
      /\ team_counter' = team_counter
  BY <1>3 DEF MembershipInv, Prepared, Ready, registries
<1>6. CASE NoDuplicates(r)
  <2>1. ids'[c] = r /\ at'[c] = 1 /\ pc'[c] = "checking"
    BY <1>0, <1>6 DEF goto, MembershipInv, TypeOK
  <2>2. Ready(c)'
    <3>1. NoDuplicates(ids[c])'
      BY <1>6, <2>1 DEF NoDuplicates
    <3> QED
      BY <1>1, <1>5, <2>1, <3>1 DEF Ready, Owning
  <2> QED
    BY <1>2, <1>3, <1>4, <2>1, <2>2, Unowned
<1>7. CASE ~NoDuplicates(r)
  <2>1. ids' = ids /\ pc'[c] = "failed"
    BY <1>0, <1>7 DEF goto, MembershipInv, TypeOK
  <2>2. Ready(c)'
    BY <1>5, <2>1 DEF Ready, Owning, NoDuplicates
  <2> QED
    BY <1>2, <1>3, <1>4, <2>1, <2>2, Unowned
<1> QED
  BY <1>6, <1>7

(* Checking a task: the positions before at exist.                         *)
LEMMA CheckKeeps ==
  ASSUME MembershipInv, NEW c \in Creators, check_task(c)
  PROVE  MembershipInv'
<1>1. /\ pc \in [Creators -> CreatorPCs] /\ at \in [Creators -> Nat]
      /\ Len(ids[c]) \in Nat
  BY HeldFacts DEF MembershipInv, TypeOK
<1>2. /\ pc[c] = "checking" /\ UNCHANGED <<registries, team_id, ids>>
      /\ at[c] <= Len(ids[c])
      /\ \/ /\ pc' = pc /\ at' = [at EXCEPT ![c] = at[c] + 1]
            /\ exists(ids[c][at[c]])
         \/ pc' = [pc EXCEPT ![c] = "failed"] /\ at' = at
  BY DEF check_task, goto, advance
<1>3. pc' \in [Creators -> CreatorPCs] /\ at' \in [Creators -> Nat]
  <2>1. "failed" \in CreatorPCs BY DEF CreatorPCs
  <2>2. /\ [pc EXCEPT ![c] = "failed"] \in [Creators -> CreatorPCs]
        /\ [at EXCEPT ![c] = at[c] + 1] \in [Creators -> Nat]
    BY <1>1, <2>1
  <2>3. pc' = pc \/ pc' = [pc EXCEPT ![c] = "failed"]
    BY <1>2
  <2>4. at' = at \/ at' = [at EXCEPT ![c] = at[c] + 1]
    BY <1>2
  <2> QED
    BY <1>1, <2>2, <2>3, <2>4
<1>4. TypeOK'
  BY <1>2, <1>3 DEF MembershipInv, TypeOK, registries
<1>5. Ready(c)'
  <2>1. Ready(c) /\ UNCHANGED <<tasks, team_counter, team_id, ids>>
    BY <1>2 DEF MembershipInv, Prepared, registries
  <2>2. CASE pc' = pc /\ at' = [at EXCEPT ![c] = at[c] + 1]
             /\ exists(ids[c][at[c]])
    <3>1. pc'[c] = "checking" /\ at'[c] = at[c] + 1
      BY <1>1, <1>2, <2>2
    <3>2. at[c] \in 1..Len(ids[c])
      BY <1>1, <1>2, <2>1 DEF Ready
    <3>3. \A i \in 1..at[c] : ids[c][i] \in 1..Len(tasks)
      <4>1. \A i \in 1..(at[c] - 1) : ids[c][i] \in 1..Len(tasks)
        BY <1>2, <2>1 DEF Ready, exists
      <4>2. ids[c][at[c]] \in 1..Len(tasks)
        BY <2>2 DEF exists
      <4> QED
        BY <1>1, <3>2, <4>1, <4>2
    <3>4. /\ at'[c] \in 1..(Len(ids[c]) + 1)
          /\ \A i \in 1..(at'[c] - 1) : ids[c][i] \in 1..Len(tasks)
      BY <1>1, <3>1, <3>2, <3>3
    <3> QED
      BY <1>2, <2>1, <3>1, <3>4 DEF Ready, Owning, NoDuplicates, exists
  <2>3. CASE pc' = [pc EXCEPT ![c] = "failed"] /\ at' = at
    <3>1. pc'[c] = "failed"
      BY <1>1, <2>3
    <3> QED
      BY <1>1, <1>2, <2>1, <2>3, <3>1 DEF Ready, Owning, NoDuplicates, exists
  <2> QED
    BY <1>2, <2>2, <2>3
<1> QED
  BY <1>1, <1>2, <1>4, <1>5, Unowned

(* What a step of one creation leaves of the others.                       *)
LEMMA OthersReady ==
  ASSUME MembershipInv, TypeOK', NEW c \in Creators,
         \A d \in Creators \ {c} :
           /\ pc'[d] = pc[d] /\ ids'[d] = ids[d]
           /\ at'[d] = at[d] /\ team_id'[d] = team_id[d],
         team_counter' >= team_counter, Len(tasks') = Len(tasks)
  PROVE  \A d \in Creators \ {c} :
           Ready(d)' /\ Held(d)' = Held(d) /\ (Owning(d)' <=> Owning(d))
<1>1. /\ team_counter \in Nat /\ team_counter' \in Nat
      /\ Len(tasks) \in Nat /\ Len(tasks') \in Nat
  BY DEF MembershipInv, TypeOK
<1> QED
  BY <1>1, OtherReady

(* TeamRegistry::create: the new number is above every other.              *)
LEMMA CreateKeeps ==
  ASSUME MembershipInv, NEW c \in Creators, create_team(c)
  PROVE  MembershipInv'
<1> DEFINE n == team_counter + 1
           T == [status |-> "created", lifecycle |-> plain("created"),
                 last_error |-> FALSE, task_ids |-> ids[c]]
<1>1. /\ pc \in [Creators -> CreatorPCs] /\ at \in [Creators -> Nat]
      /\ ids \in [Creators -> Seq(1..MaxTasks)]
      /\ team_id \in [Creators -> Nat] /\ team_counter \in Nat
      /\ Len(ids[c]) \in Nat /\ n \in Nat
  BY HeldFacts DEF MembershipInv, TypeOK
<1>2. /\ pc[c] = "checking" /\ at[c] > Len(ids[c])
      /\ team_counter' = n /\ teams' = With(teams, n, T)
      /\ team_id' = [team_id EXCEPT ![c] = n]
      /\ at' = [at EXCEPT ![c] = 1] /\ pc' = [pc EXCEPT ![c] = "assigning"]
      /\ UNCHANGED <<tasks, crons, cron_counter, ids>>
  BY DEF create_team, goto
<1>3. T \in Team /\ T.task_ids = ids[c]
  BY <1>1 DEF Team, TeamStatus, Lifecycle, plain
<1>n. n = team_counter + 1 OBVIOUS
<1> HIDE DEF T, n
<1>4. /\ pc'[c] = "assigning" /\ at'[c] = 1 /\ team_id'[c] = n
      /\ \A d \in Creators \ {c} : /\ pc'[d] = pc[d] /\ ids'[d] = ids[d]
                                   /\ at'[d] = at[d]
                                   /\ team_id'[d] = team_id[d]
  BY <1>1, <1>2
<1>5. /\ DOMAIN teams' = DOMAIN teams \cup {n} /\ teams'[n] = T
      /\ \A y \in DOMAIN teams : y # n => teams'[y] = teams[y]
  <2>1. teams' = [y \in DOMAIN teams \cup {n} |->
                    IF y = n THEN T ELSE teams[y]]
    BY <1>2 DEF With
  <2> QED BY <2>1
<1>6. DOMAIN teams \subseteq 1..team_counter
  BY DEF MembershipInv, TypeOK
<1>7. TypeOK'
  <2>1. "assigning" \in CreatorPCs BY DEF CreatorPCs
  <2>2. /\ pc' \in [Creators -> CreatorPCs] /\ at' \in [Creators -> Nat]
        /\ ids' \in [Creators -> Seq(1..MaxTasks)]
        /\ team_id' \in [Creators -> Nat]
    BY <1>1, <1>2, <2>1
  <2>3. DOMAIN teams' \subseteq 1..team_counter'
    BY <1>1, <1>2, <1>5, <1>6, <1>n
  <2>4. \A x \in DOMAIN teams' : teams'[x] \in Team
    BY <1>3, <1>5 DEF MembershipInv, TypeOK
  <2> QED
    BY <1>1, <1>2, <2>2, <2>3, <2>4 DEF MembershipInv, TypeOK
<1>8. \A d \in Creators \ {c} :
        Ready(d)' /\ Held(d)' = Held(d) /\ (Owning(d)' <=> Owning(d))
  BY <1>1, <1>2, <1>4, <1>7, <1>n, OthersReady
<1>9. Ready(c) /\ at[c] = Len(ids[c]) + 1
  <2>1. Ready(c) BY DEF MembershipInv, Prepared
  <2>2. at[c] \in 1..(Len(ids[c]) + 1) BY <1>2, <2>1 DEF Ready
  <2> QED BY <1>1, <1>2, <2>1, <2>2
<1>10. \A i \in 1..Len(ids[c]) : ids[c][i] \in 1..Len(tasks)
  <2>1. \A i \in 1..(at[c] - 1) : ids[c][i] \in 1..Len(tasks)
    BY <1>2, <1>9 DEF Ready, exists
  <2>2. at[c] - 1 = Len(ids[c]) BY <1>1, <1>9
  <2> QED BY <2>1, <2>2
<1>11. Ready(c)'
  BY <1>1, <1>2, <1>4, <1>9, <1>10, <1>n
     DEF Ready, Owning, NoDuplicates, exists
<1>12. \A d \in Creators : team_id[d] <= team_counter /\ team_id[d] \in Nat
  BY <1>1 DEF MembershipInv, Prepared, Ready
<1>13. Prepared'
  BY <1>1, <1>4, <1>8, <1>11, <1>12, <1>n DEF MembershipInv, Prepared
<1>14. Listed'
  <2>1. \A d \in Creators \ {c} : team_id[d] # n
    <3>1. team_counter \in Nat BY <1>1
    <3>2. \A d \in Creators : team_id[d] <= team_counter /\ team_id[d] \in Nat
      BY <1>12
    <3>3. \A m \in Nat : m <= team_counter => m # n
      BY <3>1, <1>n
    <3> QED BY <3>2, <3>3
  <2>2. /\ team_id'[c] \in DOMAIN teams'
        /\ \A i \in 1..Len(ids'[c]) :
             \E j \in 1..Len(teams'[team_id'[c]].task_ids) :
               teams'[team_id'[c]].task_ids[j] = ids'[c][i]
    BY <1>2, <1>3, <1>4, <1>5
  <2>3. ASSUME NEW d \in Creators \ {c}
        PROVE  /\ Owning(d)' =>
                    /\ team_id'[d] \in DOMAIN teams'
                    /\ \A i \in 1..Len(ids'[d]) :
                         \E j \in 1..Len(teams'[team_id'[d]].task_ids) :
                           teams'[team_id'[d]].task_ids[j] = ids'[d][i]
               /\ pc'[d] = "failed" => team_id'[d] \notin DOMAIN teams'
    <3>1. /\ team_id'[d] = team_id[d] /\ ids'[d] = ids[d] /\ pc'[d] = pc[d]
          /\ Owning(d)' <=> Owning(d)
      BY <1>4, <1>8
    <3>2. team_id[d] # n
      BY <2>1
    <3>3. team_id[d] \in DOMAIN teams =>
            team_id[d] \in DOMAIN teams' /\ teams'[team_id[d]] = teams[team_id[d]]
      BY <1>5, <3>2
    <3>4. team_id[d] \notin DOMAIN teams => team_id[d] \notin DOMAIN teams'
      BY <1>5, <3>2
    <3>5. /\ Owning(d) =>
               /\ team_id[d] \in DOMAIN teams
               /\ \A i \in 1..Len(ids[d]) :
                    \E j \in 1..Len(teams[team_id[d]].task_ids) :
                      teams[team_id[d]].task_ids[j] = ids[d][i]
          /\ pc[d] = "failed" => team_id[d] \notin DOMAIN teams
      BY DEF MembershipInv, Listed
    <3> QED
      BY <3>1, <3>3, <3>4, <3>5
  <2> QED
    BY <1>4, <2>2, <2>3 DEF Listed
<1>15. Assigned'
  <2>1. Held(c) = {} /\ Held(c)' = {}
    BY <1>2, <1>4 DEF Held
  <2> QED
    BY <1>2, <1>4, <1>8, <2>1 DEF MembershipInv, Assigned
<1> QED
  BY <1>7, <1>13, <1>14, <1>15 DEF MembershipInv

(* A creation that keeps its team works on no task it did not name.        *)
LEMMA OwnedStep ==
  ASSUME MembershipInv, TypeOK', NEW c \in Creators,
         Owning(c), Owning(c)', Ready(c)',
         UNCHANGED <<teams, team_counter, team_id>>, Len(tasks') = Len(tasks),
         \A d \in Creators \ {c} :
           pc'[d] = pc[d] /\ ids'[d] = ids[d] /\ at'[d] = at[d],
         \A i \in 1..Len(ids'[c]) : /\ i \in 1..Len(ids[c])
                                    /\ ids'[c][i] = ids[c][i]
  PROVE  /\ Prepared' /\ Listed'
         /\ \A d \in Creators \ {c} : Held(d)' = Held(d)
<1>1. \A d \in Creators \ {c} :
        Ready(d)' /\ Held(d)' = Held(d) /\ (Owning(d)' <=> Owning(d))
  <2>1. team_counter' >= team_counter
    BY DEF MembershipInv, TypeOK
  <2> QED
    BY <2>1, OthersReady
<1>2. Prepared'
  BY <1>1 DEF MembershipInv, Prepared
<1>3. Listed'
  <2>1. pc'[c] # "failed"
    BY DEF Owning
  <2> QED
    BY <1>1, <2>1 DEF MembershipInv, Listed
<1> QED
  BY <1>1, <1>2, <1>3

(* The task at a position is no other creation's, nor at another position. *)
LEMMA OnePlace ==
  ASSUME MembershipInv, NEW c \in Creators, Owning(c),
         NEW p \in 1..Len(ids[c]), tasks[ids[c][p]].team \in {0, team_id[c]}
  PROVE  /\ \A d \in Creators \ {c} : \A i \in Held(d) : ids[d][i] # ids[c][p]
         /\ \A i \in 1..Len(ids[c]) : i # p => ids[c][i] # ids[c][p]
<1>1. ASSUME NEW d \in Creators \ {c}, NEW i \in Held(d),
             ids[d][i] = ids[c][p]
      PROVE  FALSE
  <2>1. tasks[ids[d][i]].team = team_id[d]
    BY DEF MembershipInv, Assigned
  <2>2. Owning(d)
    BY HeldFacts
  <2>3. team_id[d] # 0 /\ team_id[d] # team_id[c]
    BY <2>2, OwnTeam
  <2> QED
    BY <1>1, <2>1, <2>3
<1>2. NoDuplicates(ids[c])
  BY DEF MembershipInv, Prepared, Ready
<1> QED
  BY <1>1, <1>2 DEF NoDuplicates

(* assign_team: a free task is nobody's; a taken one starts the rollback.  *)
LEMMA AssignKeeps ==
  ASSUME MembershipInv, NEW c \in Creators, assign_team(c)
  PROVE  MembershipInv'
<1> DEFINE p == at[c]
           t == ids[c][at[c]]
           v == assigned(tasks[t], team_id[c])
<1>1. /\ pc \in [Creators -> CreatorPCs] /\ at \in [Creators -> Nat]
      /\ ids \in [Creators -> Seq(1..MaxTasks)]
      /\ Len(ids[c]) \in Nat /\ tasks \in Seq(Task)
      /\ team_id[c] \in Nat
  BY HeldFacts DEF MembershipInv, TypeOK
<1>2. /\ pc[c] = "assigning" /\ p <= Len(ids[c]) /\ set_task(t, v)
      /\ UNCHANGED <<teams, team_counter, crons, cron_counter, team_id>>
  BY DEF assign_team
<1>3. Owning(c) /\ Ready(c) /\ p \in 1..Len(ids[c]) /\ exists(t)
  <2>1. Owning(c) /\ Ready(c)
    BY <1>2 DEF Owning, MembershipInv, Prepared
  <2>2. at[c] \in 1..(Len(ids[c]) + 1)
    BY <1>2, <2>1 DEF Ready
  <2>3. p \in 1..Len(ids[c])
    BY <1>1, <1>2, <2>2
  <2> QED
    BY <2>1, <2>3 DEF Ready
<1>4. tasks[t] \in Task
  BY <1>1, <1>3 DEF exists
<1>5. v \in Task
      /\ (tasks[t].team \in {0, team_id[c]} => v.team = team_id[c])
      /\ (tasks[t].team \notin {0, team_id[c]} => v.team = tasks[t].team)
  BY <1>1, <1>4, AssignedFacts
<1>6. /\ tasks' \in Seq(Task) /\ Len(tasks') = Len(tasks) /\ tasks'[t] = v
      /\ \A u \in 1..Len(tasks) : u # t => tasks'[u] = tasks[u]
  <2>1. TypeOK BY DEF MembershipInv
  <2> HIDE DEF t, v
  <2> QED BY <1>2, <1>3, <1>5, <2>1, SetTask
<1>7. CASE tasks[t].team \in {0, team_id[c]}
  <2>1. at' = [at EXCEPT ![c] = at[c] + 1] /\ pc' = pc /\ ids' = ids
    BY <1>7 DEF assign_team, advance
  <2>2. at'[c] = p + 1 /\ at' \in [Creators -> Nat]
        /\ \A d \in Creators \ {c} : at'[d] = at[d]
    BY <1>1, <2>1
  <2>3. TypeOK'
    BY <1>2, <1>6, <2>1, <2>2 DEF MembershipInv, TypeOK
  <2>4. Owning(c)'
    BY <1>2, <2>1 DEF Owning
  <2>5. Ready(c)'
    <3>1. at'[c] \in 1..(Len(ids[c]) + 1) BY <1>1, <1>3, <2>2
    <3> QED
      BY <1>2, <1>3, <1>6, <2>1, <3>1 DEF Ready, Owning, NoDuplicates, exists
  <2>6. Prepared' /\ Listed'
        /\ \A d \in Creators \ {c} : Held(d)' = Held(d)
    BY <1>2, <1>3, <1>6, <2>1, <2>2, <2>3, <2>4, <2>5, OwnedStep
  <2>7. Held(c) = 1..(p - 1) /\ Held(c)' = 1..p
    <3>1. at'[c] - 1 = p BY <1>1, <2>2
    <3> QED BY <1>2, <2>1, <3>1 DEF Held
  <2>8. tasks'[t].team = team_id[c]
    BY <1>5, <1>6, <1>7
  <2>9. /\ \A d \in Creators \ {c} : \A i \in Held(d) : ids[d][i] # t
        /\ \A i \in 1..Len(ids[c]) : i # p => ids[c][i] # t
    BY <1>3, <1>7, OnePlace
  <2>10. \A d \in Creators : \A i \in Held(d) : ids[d][i] \in 1..Len(tasks)
    BY HeldFacts DEF exists
  <2>11. ASSUME NEW d \in Creators, NEW i \in Held(d)'
         PROVE  tasks'[ids[d][i]].team = team_id[d]
    <3>1. CASE d = c /\ i = p
      BY <2>8, <3>1
    <3>2. CASE d # c
      <4>1. i \in Held(d) /\ ids[d][i] # t /\ ids[d][i] \in 1..Len(tasks)
        BY <2>6, <2>9, <2>10, <2>11, <3>2
      <4> QED
        BY <1>6, <4>1 DEF MembershipInv, Assigned
    <3>3. CASE d = c /\ i # p
      <4>1. i \in Held(c) /\ i \in 1..Len(ids[c])
        BY <1>1, <1>3, <2>7, <2>11, <3>3
      <4>2. ids[c][i] # t /\ ids[c][i] \in 1..Len(tasks)
        BY <2>9, <2>10, <3>3, <4>1
      <4> QED
        BY <1>6, <3>3, <4>1, <4>2 DEF MembershipInv, Assigned
    <3> QED
      BY <3>1, <3>2, <3>3
  <2>12. ASSUME NEW u \in 1..Len(tasks'), tasks'[u].team # 0
         PROVE  \E d \in Creators : /\ tasks'[u].team = team_id[d]
                                    /\ \E i \in Held(d)' : ids[d][i] = u
    <3>1. CASE u = t
      BY <1>1, <1>3, <2>7, <2>8, <3>1
    <3>2. CASE u # t
      <4>1. u \in 1..Len(tasks) /\ tasks'[u] = tasks[u]
        BY <1>6, <3>2
      <4>2. PICK d \in Creators : /\ tasks[u].team = team_id[d]
                                  /\ \E i \in Held(d) : ids[d][i] = u
        BY <2>12, <4>1 DEF MembershipInv, Assigned
      <4>3. \A i \in Held(d) : i \in Held(d)'
        <5>1. CASE d # c
          BY <2>6, <5>1
        <5>2. CASE d = c
          <6>1. p \in Nat BY <1>1
          <6>2. \A i \in 1..(p - 1) : i \in 1..p BY <6>1
          <6> QED BY <2>7, <5>2, <6>2
        <5> QED BY <5>1, <5>2
      <4> QED
        BY <4>1, <4>2, <4>3
    <3> QED
      BY <3>1, <3>2
  <2>13. Assigned'
    BY <1>2, <2>1, <2>11, <2>12 DEF Assigned
  <2> QED
    BY <2>3, <2>6, <2>13 DEF MembershipInv
<1>8. CASE tasks[t].team \notin {0, team_id[c]}
  <2>1. /\ pc' = [pc EXCEPT ![c] = "rollback"]
        /\ ids' = [ids EXCEPT ![c] = SubSeq(ids[c], 1, p - 1)]
        /\ at' = [at EXCEPT ![c] = 1]
    BY <1>8 DEF assign_team, goto
  <2>2. /\ SubSeq(ids[c], 1, p - 1) \in Seq(1..MaxTasks)
        /\ Len(SubSeq(ids[c], 1, p - 1)) = p - 1
        /\ \A i \in 1..(p - 1) : SubSeq(ids[c], 1, p - 1)[i] = ids[c][i]
    <3>1. ids[c] \in Seq(1..MaxTasks) BY <1>1
    <3> QED BY <1>3, <3>1, PrefixFacts
  <2>3. /\ pc'[c] = "rollback" /\ at'[c] = 1 /\ Len(ids'[c]) = p - 1
        /\ \A i \in 1..(p - 1) : ids'[c][i] = ids[c][i]
        /\ \A d \in Creators \ {c} :
             pc'[d] = pc[d] /\ ids'[d] = ids[d] /\ at'[d] = at[d]
    BY <1>1, <2>1, <2>2
  <2>4. TypeOK'
    <3>1. "rollback" \in CreatorPCs BY DEF CreatorPCs
    <3>2. pc' \in [Creators -> CreatorPCs] /\ at' \in [Creators -> Nat]
      BY <1>1, <2>1, <3>1
    <3>3. ids' \in [Creators -> Seq(1..MaxTasks)]
      BY <1>1, <2>1, <2>2
    <3> QED
      BY <1>2, <1>6, <3>2, <3>3 DEF MembershipInv, TypeOK
  <2>5. Owning(c)'
    BY <2>3 DEF Owning
  <2>6. p - 1 \in Nat /\ \A i \in 1..(p - 1) : i \in 1..Len(ids[c])
    BY <1>1, <1>3
  <2>7. Ready(c)'
    <3>1. at'[c] \in 1..(Len(ids'[c]) + 1)
      BY <2>3, <2>6
    <3>2. \A i \in 1..Len(ids'[c]) : ids'[c][i] \in 1..Len(tasks')
      BY <1>3, <1>6, <2>3, <2>6 DEF Ready, exists
    <3>3. NoDuplicates(ids[c])'
      <4>1. \A i, j \in 1..Len(ids[c]) : ids[c][i] = ids[c][j] => i = j
        BY <1>3 DEF Ready, NoDuplicates
      <4>2. \A i, j \in 1..Len(ids'[c]) : ids'[c][i] = ids'[c][j] => i = j
        BY <2>3, <2>6, <4>1
      <4> QED BY <4>2 DEF NoDuplicates
    <3> QED
      BY <1>2, <1>3, <2>3, <3>1, <3>2, <3>3 DEF Ready, Owning, exists
  <2>8. Prepared' /\ Listed'
        /\ \A d \in Creators \ {c} : Held(d)' = Held(d)
    BY <1>2, <1>3, <1>6, <2>3, <2>4, <2>5, <2>6, <2>7, OwnedStep
  <2>9. Held(c) = 1..(p - 1) /\ Held(c)' = 1..(p - 1)
    BY <1>2, <2>3 DEF Held
  <2>10. /\ \A d \in Creators : Held(d)' = Held(d)
         /\ \A d \in Creators : \A i \in Held(d) : ids'[d][i] = ids[d][i]
    BY <2>3, <2>8, <2>9
  <2>11. \A u \in 1..Len(tasks) : tasks'[u].team = tasks[u].team
    BY <1>5, <1>6, <1>8
  <2>12. \A d \in Creators : \A i \in Held(d) : ids[d][i] \in 1..Len(tasks)
    BY HeldFacts DEF exists
  <2>13. Assigned'
    <3>1. \A d \in Creators : \A i \in Held(d)' :
            tasks'[ids'[d][i]].team = team_id'[d]
      BY <1>2, <2>10, <2>11, <2>12 DEF MembershipInv, Assigned
    <3>2. \A u \in 1..Len(tasks') : tasks'[u].team # 0 =>
            \E d \in Creators : /\ tasks'[u].team = team_id'[d]
                                /\ \E i \in Held(d)' : ids'[d][i] = u
      <4>1. ASSUME NEW u \in 1..Len(tasks'), tasks'[u].team # 0
            PROVE  \E d \in Creators : /\ tasks'[u].team = team_id'[d]
                                       /\ \E i \in Held(d)' : ids'[d][i] = u
        <5>1. u \in 1..Len(tasks) /\ tasks'[u].team = tasks[u].team
          BY <1>6, <2>11
        <5>2. PICK d \in Creators : /\ tasks[u].team = team_id[d]
                                    /\ \E i \in Held(d) : ids[d][i] = u
          BY <4>1, <5>1 DEF MembershipInv, Assigned
        <5> QED
          BY <1>2, <2>10, <5>1, <5>2
      <4> QED BY <4>1
    <3> QED
      BY <3>1, <3>2 DEF Assigned
  <2> QED
    BY <2>4, <2>8, <2>13 DEF MembershipInv
<1> QED
  BY <1>7, <1>8

(* The end of a creation: it holds the whole list.                         *)
LEMMA CreatedKeeps ==
  ASSUME MembershipInv, NEW c \in Creators, team_created(c)
  PROVE  MembershipInv'
<1>1. /\ pc \in [Creators -> CreatorPCs] /\ at[c] \in Nat
      /\ Len(ids[c]) \in Nat
  BY HeldFacts DEF MembershipInv, TypeOK
<1>2. /\ pc[c] = "assigning" /\ at[c] > Len(ids[c])
      /\ pc' = [pc EXCEPT ![c] = "done"]
      /\ UNCHANGED <<tasks, teams, team_counter, crons, cron_counter, ids, at,
                     team_id>>
  BY DEF team_created, goto, registries
<1>3. pc'[c] = "done" /\ \A d \in Creators \ {c} : pc'[d] = pc[d]
  BY <1>1, <1>2
<1>4. TypeOK'
  <2>1. "done" \in CreatorPCs BY DEF CreatorPCs
  <2>2. pc' \in [Creators -> CreatorPCs] BY <1>1, <1>2, <2>1
  <2> QED BY <1>2, <2>2 DEF MembershipInv, TypeOK
<1>5. Owning(c) /\ Owning(c)' /\ Ready(c)
  BY <1>2, <1>3 DEF Owning, MembershipInv, Prepared
<1>6. Ready(c)'
  BY <1>2, <1>3, <1>5 DEF Ready, Owning, NoDuplicates, exists
<1>7. Prepared' /\ Listed' /\ \A d \in Creators \ {c} : Held(d)' = Held(d)
  BY <1>2, <1>3, <1>4, <1>5, <1>6, OwnedStep
<1>8. Held(c)' = Held(c)
  <2>1. at[c] \in 1..(Len(ids[c]) + 1) BY <1>2, <1>5 DEF Ready
  <2>2. at[c] - 1 = Len(ids[c]) BY <1>1, <1>2, <2>1
  <2> QED BY <1>2, <1>3, <2>2 DEF Held
<1>9. Assigned'
  BY <1>2, <1>7, <1>8 DEF MembershipInv, Assigned
<1> QED
  BY <1>4, <1>7, <1>9 DEF MembershipInv

(* unassign_team in the rollback: one position less is held.               *)
LEMMA UnassignKeeps ==
  ASSUME MembershipInv, NEW c \in Creators, unassign_team(c)
  PROVE  MembershipInv'
<1> DEFINE p == at[c]
           t == ids[c][at[c]]
           v == unassigned(tasks[t], team_id[c])
<1>1. /\ at \in [Creators -> Nat] /\ Len(ids[c]) \in Nat
      /\ tasks \in Seq(Task) /\ team_id[c] \in Nat
  BY HeldFacts DEF MembershipInv, TypeOK
<1>2. /\ pc[c] = "rollback" /\ p <= Len(ids[c]) /\ set_task(t, v)
      /\ at' = [at EXCEPT ![c] = at[c] + 1]
      /\ UNCHANGED <<teams, team_counter, crons, cron_counter, pc, ids,
                     team_id>>
  BY DEF unassign_team, advance
<1>3. Owning(c) /\ Ready(c) /\ p \in 1..Len(ids[c]) /\ exists(t)
  <2>1. Owning(c) /\ Ready(c)
    BY <1>2 DEF Owning, MembershipInv, Prepared
  <2>2. at[c] \in 1..(Len(ids[c]) + 1)
    BY <1>2, <2>1 DEF Ready
  <2>3. p \in 1..Len(ids[c])
    BY <1>1, <1>2, <2>2
  <2> QED
    BY <2>1, <2>3 DEF Ready
<1>4. tasks[t] \in Task
  BY <1>1, <1>3 DEF exists
<1>5. Held(c) = p..Len(ids[c]) /\ tasks[t].team = team_id[c]
  <2>1. Held(c) = p..Len(ids[c]) BY <1>2 DEF Held
  <2>2. p \in Held(c) BY <1>1, <1>3, <2>1
  <2> QED BY <2>1, <2>2 DEF MembershipInv, Assigned
<1>6. v \in Task /\ v.team = 0
  BY <1>1, <1>4, <1>5, AssignedFacts
<1>7. /\ tasks' \in Seq(Task) /\ Len(tasks') = Len(tasks) /\ tasks'[t] = v
      /\ \A u \in 1..Len(tasks) : u # t => tasks'[u] = tasks[u]
  <2>1. TypeOK BY DEF MembershipInv
  <2> HIDE DEF t, v
  <2> QED BY <1>2, <1>3, <1>6, <2>1, SetTask
<1>8. at'[c] = p + 1 /\ at' \in [Creators -> Nat]
      /\ \A d \in Creators \ {c} : at'[d] = at[d]
  BY <1>1, <1>2
<1>9. TypeOK'
  BY <1>2, <1>7, <1>8 DEF MembershipInv, TypeOK
<1>10. Owning(c)'
  BY <1>2 DEF Owning
<1>11. Ready(c)'
  <2>1. at'[c] \in 1..(Len(ids[c]) + 1) BY <1>1, <1>3, <1>8
  <2> QED
    BY <1>2, <1>3, <1>7, <2>1 DEF Ready, Owning, NoDuplicates, exists
<1>12. Prepared' /\ Listed' /\ \A d \in Creators \ {c} : Held(d)' = Held(d)
  BY <1>2, <1>3, <1>7, <1>8, <1>9, <1>10, <1>11, OwnedStep
<1>13. Held(c)' = (p + 1)..Len(ids[c])
  BY <1>2, <1>8 DEF Held
<1>14. \A d \in Creators : \A i \in Held(d)' :
         /\ i \in Held(d) /\ ids[d][i] # t
         /\ ids[d][i] \in 1..Len(tasks)
  <2>1. /\ \A d \in Creators \ {c} : \A i \in Held(d) : ids[d][i] # t
        /\ \A i \in 1..Len(ids[c]) : i # p => ids[c][i] # t
    BY <1>3, <1>5, OnePlace
  <2>2. \A d \in Creators : \A i \in Held(d) : ids[d][i] \in 1..Len(tasks)
    BY HeldFacts DEF exists
  <2>3. \A i \in Held(c)' : i \in Held(c) /\ i \in 1..Len(ids[c]) /\ i # p
    BY <1>1, <1>3, <1>5, <1>13
  <2> QED
    BY <1>12, <2>1, <2>2, <2>3
<1>15. Assigned'
  <2>1. \A d \in Creators : \A i \in Held(d)' :
          tasks'[ids'[d][i]].team = team_id'[d]
    BY <1>2, <1>7, <1>14 DEF MembershipInv, Assigned
  <2>2. ASSUME NEW u \in 1..Len(tasks'), tasks'[u].team # 0
        PROVE  \E d \in Creators : /\ tasks'[u].team = team_id'[d]
                                   /\ \E i \in Held(d)' : ids'[d][i] = u
    <3>1. u # t /\ u \in 1..Len(tasks) /\ tasks'[u] = tasks[u]
      BY <1>6, <1>7, <2>2
    <3>2. PICK d \in Creators : /\ tasks[u].team = team_id[d]
                                /\ \E i \in Held(d) : ids[d][i] = u
      BY <2>2, <3>1 DEF MembershipInv, Assigned
    <3>3. PICK i \in Held(d) : ids[d][i] = u
      BY <3>2
    <3>4. i \in Held(d)'
      BY <1>1, <1>3, <1>5, <1>12, <1>13, <3>1, <3>3
    <3> QED
      BY <1>2, <3>1, <3>2, <3>3, <3>4
  <2> QED
    BY <2>1, <2>2 DEF Assigned
<1> QED
  BY <1>9, <1>12, <1>15 DEF MembershipInv

(* TeamRegistry::remove at the end of the rollback: nothing is held.       *)
LEMMA RemoveKeeps ==
  ASSUME MembershipInv, NEW c \in Creators, remove_team(c)
  PROVE  MembershipInv'
<1>1. /\ pc \in [Creators -> CreatorPCs] /\ at[c] \in Nat
      /\ Len(ids[c]) \in Nat /\ team_counter \in Nat
  BY HeldFacts DEF MembershipInv, TypeOK
<1>2. /\ pc[c] = "rollback" /\ at[c] > Len(ids[c])
      /\ teams' = Without(teams, team_id[c])
      /\ pc' = [pc EXCEPT ![c] = "failed"]
      /\ UNCHANGED <<tasks, team_counter, crons, cron_counter, ids, at,
                     team_id>>
  BY DEF remove_team, goto
<1>3. pc'[c] = "failed" /\ \A d \in Creators \ {c} : pc'[d] = pc[d]
  BY <1>1, <1>2
<1>4. /\ DOMAIN teams' = DOMAIN teams \ {team_id[c]}
      /\ \A x \in DOMAIN teams' : teams'[x] = teams[x]
  BY <1>2 DEF Without
<1>5. TypeOK'
  <2>1. "failed" \in CreatorPCs BY DEF CreatorPCs
  <2>2. pc' \in [Creators -> CreatorPCs] BY <1>1, <1>2, <2>1
  <2>3. /\ \A x \in DOMAIN teams' : teams'[x] \in Team
        /\ DOMAIN teams' \subseteq 1..team_counter'
    BY <1>2, <1>4 DEF MembershipInv, TypeOK
  <2> QED BY <1>2, <2>2, <2>3 DEF MembershipInv, TypeOK
<1>6. \A d \in Creators \ {c} :
        Ready(d)' /\ Held(d)' = Held(d) /\ (Owning(d)' <=> Owning(d))
  BY <1>1, <1>2, <1>3, <1>5, OthersReady
<1>7. Owning(c) /\ ~(Owning(c)') /\ Ready(c)
  BY <1>2, <1>3 DEF Owning, MembershipInv, Prepared
<1>8. Ready(c)'
  BY <1>2, <1>3, <1>7 DEF Ready, Owning, NoDuplicates, exists
<1>9. Prepared'
  BY <1>2, <1>6, <1>8 DEF MembershipInv, Prepared
<1>10. Listed'
  <2>1. \A d \in Creators \ {c} : team_id[d] # team_id[c]
    BY <1>7, OwnTeam
  <2> QED
    BY <1>2, <1>3, <1>4, <1>6, <1>7, <2>1 DEF MembershipInv, Listed
<1>11. Held(c) = {} /\ Held(c)' = {}
  BY <1>1, <1>2, <1>3 DEF Held
<1>12. Assigned'
  BY <1>2, <1>6, <1>11 DEF MembershipInv, Assigned
<1> QED
  BY <1>5, <1>9, <1>10, <1>12 DEF MembershipInv

-----------------------------------------------------------------------------
(* TeamRegistry::delete marks a team and keeps its list.                   *)
LEMMA DeleteKeeps ==
  ASSUME MembershipInv, NEW x \in DOMAIN teams, delete_team(x)
  PROVE  MembershipInv'
<1> DEFINE k == teams[x]
           v == IF k.status = "deleted" THEN Refused(k, "deleted")
                ELSE Accepted([k EXCEPT !.status = "deleted"], "deleted")
<1>1. k \in Team /\ Len(tasks) \in Nat
  BY DEF MembershipInv, TypeOK
<1>2. /\ teams' = [teams EXCEPT ![x] = v]
      /\ UNCHANGED <<tasks, team_counter, crons, cron_counter, calls>>
  BY DEF delete_team
<1> HIDE DEF k
<1>3. v \in Team /\ v.task_ids = k.task_ids
  BY <1>1 DEF Team, TeamStatus, Lifecycle, Accepted, Refused, plain, conflict
<1> HIDE DEF v
<1>4. /\ DOMAIN teams' = DOMAIN teams /\ teams'[x] = v
      /\ \A y \in DOMAIN teams : y # x => teams'[y] = teams[y]
  BY <1>2
<1>5. \A y \in DOMAIN teams : teams'[y].task_ids = teams[y].task_ids
  BY <1>3, <1>4 DEF k
<1>6. \A y \in DOMAIN teams' : teams'[y] \in Team
  BY <1>3, <1>4 DEF MembershipInv, TypeOK
<1>7. TypeOK'
  BY <1>2, <1>4, <1>6 DEF MembershipInv, TypeOK, calls
<1>8. Prepared' /\ Listed' /\ Assigned'
  BY <1>1, <1>2, <1>4, <1>5, Frame
<1> QED
  BY <1>7, <1>8 DEF MembershipInv

(* The cron entries are separate: their steps only have to keep the types. *)
CronStep ==
  \/ create_cron
  \/ \E x \in DOMAIN crons : \/ \E on \in BOOLEAN : set_enabled(x, on)
                             \/ record_run(x) \/ delete_cron(x)

(* What a cron step writes, and what it leaves alone.                      *)
LEMMA CronTypes ==
  ASSUME MembershipInv, CronStep
  PROVE  /\ \A x \in DOMAIN crons' : crons'[x] \in Cron
         /\ cron_counter' \in Nat /\ DOMAIN crons' \subseteq 1..cron_counter'
         /\ UNCHANGED <<tasks, teams, team_counter, calls>>
<1>0. /\ \A x \in DOMAIN crons : crons[x] \in Cron
      /\ cron_counter \in Nat /\ DOMAIN crons \subseteq 1..cron_counter
  BY DEF MembershipInv, TypeOK
<1>1. CASE create_cron
  <2> DEFINE n == cron_counter + 1
             v == [enabled |-> TRUE, lifecycle |-> plain("enabled"),
                   last_error |-> FALSE, disabled_reason |-> FALSE,
                   run_count |-> 0]
  <2>1. v \in Cron
    BY DEF Cron, CronStatus, Lifecycle, plain
  <2>2. /\ cron_counter' = n
        /\ crons' = [y \in DOMAIN crons \cup {n} |->
                       IF y = n THEN v ELSE crons[y]]
        /\ UNCHANGED <<tasks, teams, team_counter, calls>>
    BY <1>1 DEF create_cron, With
  <2> HIDE DEF v
  <2> QED
    BY <1>0, <2>1, <2>2
<1>2. ASSUME NEW x \in DOMAIN crons, NEW v \in Cron, set_cron(x, v)
      PROVE  /\ \A y \in DOMAIN crons' : crons'[y] \in Cron
             /\ DOMAIN crons' = DOMAIN crons
             /\ UNCHANGED <<cron_counter, tasks, teams, team_counter, calls>>
  BY <1>0, <1>2 DEF set_cron
<1>3. ASSUME NEW x \in DOMAIN crons, NEW on \in BOOLEAN, set_enabled(x, on)
      PROVE  \E v \in Cron : set_cron(x, v)
  <2> DEFINE e == crons[x]
             s == IF on THEN "enabled" ELSE "disabled"
             v == IF e.enabled = on THEN Refused(e, s)
                  ELSE Accepted([e EXCEPT !.enabled = on,
                                          !.disabled_reason = ~on], s)
  <2>1. e \in Cron /\ set_cron(x, v) /\ s \in CronStatus
    BY <1>0, <1>3 DEF set_enabled, CronStatus
  <2> HIDE DEF e, s
  <2>2. v \in Cron
    BY <2>1 DEF Cron, CronStatus, Lifecycle, Accepted, Refused, plain,
                conflict
  <2> QED
    BY <2>1, <2>2
<1>4. ASSUME NEW x \in DOMAIN crons, record_run(x)
      PROVE  \E v \in Cron : set_cron(x, v)
  <2> DEFINE e == crons[x]
             v == IF ~e.enabled THEN Refused(e, "disabled")
                  ELSE Accepted([e EXCEPT !.run_count = e.run_count + 1],
                                "enabled")
  <2>1. e \in Cron /\ set_cron(x, v)
    BY <1>0, <1>4 DEF record_run
  <2> HIDE DEF e
  <2>2. CASE ~e.enabled
    BY <2>1, <2>2 DEF Cron, CronStatus, Lifecycle, Refused, conflict
  <2>3. CASE e.enabled
    <3> DEFINE m == [e EXCEPT !.run_count = e.run_count + 1]
    <3>1. m \in Cron
      BY <2>1 DEF Cron
    <3> HIDE DEF m
    <3>2. Accepted(m, "enabled") \in Cron
      BY <3>1 DEF Cron, CronStatus, Lifecycle, Accepted, plain
    <3>3. v = Accepted(m, "enabled")
      BY <2>3 DEF m
    <3> QED
      BY <2>1, <3>2, <3>3
  <2> QED
    BY <2>2, <2>3
<1>5. ASSUME NEW x \in DOMAIN crons, delete_cron(x)
      PROVE  /\ \A y \in DOMAIN crons' : crons'[y] \in Cron
             /\ DOMAIN crons' \subseteq DOMAIN crons
             /\ UNCHANGED <<cron_counter, tasks, teams, team_counter, calls>>
  BY <1>0, <1>5 DEF delete_cron, Without
<1> QED
  BY <1>0, <1>1, <1>2, <1>3, <1>4, <1>5 DEF CronStep

(* A cron step keeps the invariant.                                        *)
LEMMA CronKeeps ==
  ASSUME MembershipInv, CronStep
  PROVE  MembershipInv'
<1>1. Len(tasks) \in Nat
  BY DEF MembershipInv, TypeOK
<1>2. UNCHANGED <<tasks, teams, team_counter, calls>>
  BY CronTypes
<1>3. TypeOK'
  BY <1>2, CronTypes DEF MembershipInv, TypeOK, calls
<1>4. Prepared' /\ Listed' /\ Assigned'
  BY <1>1, <1>2, Frame
<1> QED
  BY <1>3, <1>4 DEF MembershipInv

-----------------------------------------------------------------------------
(* Every step of every tool keeps the inductive invariant.                 *)
LEMMA MembershipStep == MembershipInv /\ [Next]_vars => MembershipInv'
<1> SUFFICES ASSUME MembershipInv, [Next]_vars PROVE MembershipInv'
  OBVIOUS
<1>0. Len(tasks) \in Nat
  BY DEF MembershipInv, TypeOK
<1>1. CASE \/ create_task
           \/ \E t \in 1..MaxTasks :
                \/ stop(t) \/ update(t) \/ record_failure(t)
                \/ \E s \in WorkerStatuses : set_status(t, s)
  <2>1. TypeOK BY DEF MembershipInv
  <2>2. /\ tasks' \in Seq(Task) /\ Len(tasks') >= Len(tasks)
        /\ \A u \in 1..Len(tasks) : tasks'[u].team = tasks[u].team
        /\ \A u \in 1..Len(tasks') : u > Len(tasks) => tasks'[u].team = 0
        /\ UNCHANGED <<teams, team_counter, crons, cron_counter, calls>>
    BY <1>1, <2>1, TaskSteps
  <2>3. Len(tasks') \in Nat BY <2>2
  <2>4. TypeOK'
    BY <2>1, <2>2 DEF TypeOK, calls
  <2>5. Prepared' /\ Listed' /\ Assigned'
    BY <1>0, <2>2, <2>3, Frame
  <2> QED
    BY <2>4, <2>5 DEF MembershipInv
<1>2. CASE \E c \in Creators : extract_team_task_ids(c) \/ CreateStep(c)
  BY <1>2, ExtractKeeps, CheckKeeps, CreateKeeps, AssignKeeps, CreatedKeeps,
     UnassignKeeps, RemoveKeeps DEF CreateStep
<1>3. CASE \E x \in DOMAIN teams : delete_team(x)
  BY <1>3, DeleteKeeps
<1>4. CASE CronStep
  BY <1>4, CronKeeps
<1>5. CASE UNCHANGED vars
  <2>1. UNCHANGED <<tasks, teams, team_counter, crons, cron_counter, calls>>
    BY <1>5 DEF vars, registries
  <2>2. TypeOK'
    BY <2>1 DEF MembershipInv, TypeOK, calls
  <2>3. Prepared' /\ Listed' /\ Assigned'
    BY <1>0, <2>1, Frame
  <2> QED
    BY <2>2, <2>3 DEF MembershipInv
<1> QED
  BY <1>1, <1>2, <1>3, <1>4, <1>5 DEF Next, CronStep

(* Nobody holds anything in the empty registries.                          *)
LEMMA MembershipInit == Init => MembershipInv
<1> SUFFICES ASSUME Init PROVE MembershipInv
  OBVIOUS
<1>1. TypeOK
  <2>1. "new" \in CreatorPCs BY DEF CreatorPCs
  <2> QED BY <2>1 DEF Init, TypeOK
<1>2. \A c \in Creators : ~Owning(c) /\ Held(c) = {} /\ Ready(c)
  <2>1. \A c \in Creators : /\ pc[c] = "new" /\ ids[c] = <<>>
                            /\ team_id[c] = 0 /\ team_counter = 0
    BY DEF Init
  <2>2. Len(<<>>) = 0 OBVIOUS
  <2>3. \A c \in Creators : NoDuplicates(ids[c])
    BY <2>1, <2>2 DEF NoDuplicates
  <2>4. \A c \in Creators : ~Owning(c) /\ Held(c) = {}
    BY <2>1 DEF Owning, Held
  <2>5. \A c \in Creators : team_id[c] <= team_counter
    <3>1. 0 <= 0 OBVIOUS
    <3> QED BY <2>1, <3>1, Zenon
  <2> QED
    BY <2>1, <2>3, <2>4, <2>5 DEF Ready
<1>3. Prepared
  BY <1>2 DEF Prepared, Init
<1>4. Listed
  BY <1>2 DEF Listed, Init
<1>5. Assigned
  BY <1>2 DEF Assigned, Init
<1> QED
  BY <1>1, <1>3, <1>4, <1>5 DEF MembershipInv

(* Through every interleaving of TeamCreate calls, their rollbacks and the *)
(* other registry tools, a creation holds exactly the tasks it assigned    *)
(* (run_team_create, TaskRegistry::assign_team, unassign_team).            *)
THEOREM MembershipInvHolds == Spec => []MembershipInv
  BY MembershipInit, MembershipStep, PTL DEF Spec

(* Tasks and teams agree: what the tools show after any number of          *)
(* concurrent TeamCreate calls, failed ones included (run_team_create).    *)
THEOREM MembershipHolds == Spec => []MembershipAgrees
<1>1. MembershipInv => MembershipAgrees
  <2> SUFFICES ASSUME MembershipInv PROVE MembershipAgrees
    OBVIOUS
  <2>1. ASSUME NEW t \in 1..Len(tasks), tasks[t].team # 0
        PROVE  /\ tasks[t].team \in DOMAIN teams
               /\ \E i \in 1..Len(teams[tasks[t].team].task_ids) :
                    teams[tasks[t].team].task_ids[i] = t
    <3>1. PICK c \in Creators : /\ tasks[t].team = team_id[c]
                                /\ \E i \in Held(c) : ids[c][i] = t
      BY <2>1 DEF MembershipInv, Assigned
    <3>2. PICK i \in Held(c) : ids[c][i] = t
      BY <3>1
    <3>3. i \in 1..Len(ids[c]) /\ Owning(c)
      BY HeldFacts
    <3> QED
      BY <3>1, <3>2, <3>3 DEF MembershipInv, Listed
  <2>2. ASSUME NEW c \in Creators, pc[c] = "done"
        PROVE  \A i \in 1..Len(ids[c]) : tasks[ids[c][i]].team = team_id[c]
    BY <2>2 DEF MembershipInv, Assigned, Held
  <2>3. ASSUME NEW c \in Creators, pc[c] = "failed"
        PROVE  team_id[c] \notin DOMAIN teams
    BY <2>3 DEF MembershipInv, Listed
  <2> QED
    BY <2>1, <2>2, <2>3 DEF MembershipAgrees
<1> QED
  BY <1>1, MembershipInvHolds, PTL

-----------------------------------------------------------------------------
(* What the tools show. An entry of the team or the cron registry after a  *)
(* call that went through and after one that was refused.                  *)
LEMMA TeamShown ==
  ASSUME NEW k \in Team, NEW s
  PROVE  /\ Shown(Accepted(k, s), s) /\ Accepted(k, s).status = k.status
         /\ Shown(Refused(k, s), s) /\ Refused(k, s).status = k.status
BY DEF Team, Shown, Accepted, Refused, plain, conflict

LEMMA CronShown ==
  ASSUME NEW e \in Cron, NEW s
  PROVE  /\ Shown(Accepted(e, s), s) /\ Shown(Refused(e, s), s)
         /\ Accepted(e, s).enabled = e.enabled
         /\ Refused(e, s).enabled = e.enabled
         /\ Accepted(e, s).disabled_reason = e.disabled_reason
         /\ Refused(e, s).disabled_reason = e.disabled_reason
BY DEF Cron, Shown, Accepted, Refused, plain, conflict

TasksShown == \A t \in 1..Len(tasks) : Shown(tasks[t], tasks[t].status)
TeamsShown == \A x \in DOMAIN teams : Shown(teams[x], teams[x].status)
CronFair(e) == /\ Shown(e, IF e.enabled THEN "enabled" ELSE "disabled")
               /\ e.disabled_reason = ~e.enabled
CronsShown == \A x \in DOMAIN crons : CronFair(crons[x])

LEMMA ShownParts == ShownTruthfully <=> TasksShown /\ TeamsShown /\ CronsShown
BY DEF ShownTruthfully, TasksShown, TeamsShown, CronsShown, CronFair

(* Replacing one task by one that is shown as it is.                       *)
LEMMA TaskReplaced ==
  ASSUME TypeOK, TasksShown, NEW t, exists(t), NEW v \in Task,
         set_task(t, v), Shown(v, v.status)
  PROVE  TasksShown'
<1>1. /\ Len(tasks') = Len(tasks) /\ tasks'[t] = v
      /\ \A u \in 1..Len(tasks) : u # t => tasks'[u] = tasks[u]
  BY SetTask
<1> QED
  BY <1>1 DEF TasksShown

(* The steps of TeamCreate that write a task: assign_team, unassign_team.  *)
LEMMA AssignedShown ==
  ASSUME NEW k \in Task, NEW x \in Nat
  PROVE  /\ Shown(assigned(k, x), assigned(k, x).status)
         /\ Shown(unassigned(k, x), unassigned(k, x).status)
<1>1. ASSUME NEW y \in Nat
      PROVE  LET a == Accepted([k EXCEPT !.team = y], k.status) IN
             Shown(a, a.status)
  BY DEF Task, Shown, Accepted, plain
<1>2. Shown(Refused(k, k.status), Refused(k, k.status).status)
  BY DEF Task, Shown, Refused, conflict
<1> QED
  BY <1>1, <1>2 DEF assigned, unassigned

(* Every task that any step writes is shown as it is.                      *)
LEMMA TasksShownStep ==
  ASSUME MembershipInv, TasksShown, [Next]_vars
  PROVE  TasksShown'
<1>0. TypeOK /\ tasks \in Seq(Task) /\ Len(tasks) \in Nat
  BY DEF MembershipInv, TypeOK
<1>1. CASE create_task
  <2> DEFINE k == [status |-> "created", lifecycle |-> plain("created"),
                   last_error |-> FALSE, team |-> 0]
  <2>1. Shown(k, k.status)
    BY DEF Shown, plain
  <2>2. tasks' = Append(tasks, k)
    BY <1>1 DEF create_task
  <2> HIDE DEF k
  <2>3. /\ Len(tasks') = Len(tasks) + 1 /\ tasks'[Len(tasks) + 1] = k
        /\ \A u \in 1..Len(tasks) : tasks'[u] = tasks[u]
    BY <1>0, <2>2
  <2> QED
    BY <1>0, <2>1, <2>3 DEF TasksShown
<1>2. CASE \E t \in 1..MaxTasks :
             \/ stop(t) \/ update(t) \/ record_failure(t)
             \/ \E s \in WorkerStatuses : set_status(t, s)
  BY <1>0, <1>2, TaskUpdate, TaskReplaced
<1>3. ASSUME NEW c \in Creators, assign_team(c) \/ unassign_team(c)
      PROVE  TasksShown'
  <2> DEFINE t == ids[c][at[c]]
  <2>1. exists(t) /\ team_id[c] \in Nat
    <3>1. Ready(c) /\ Owning(c) /\ at[c] \in 1..(Len(ids[c]) + 1)
      BY <1>3 DEF assign_team, unassign_team, Owning, MembershipInv, Prepared,
                  Ready
    <3>2. at[c] \in 1..Len(ids[c])
      <4>1. at[c] <= Len(ids[c])
        BY <1>3 DEF assign_team, unassign_team
      <4> QED BY <3>1, <4>1, HeldFacts
    <3> QED BY <3>1, <3>2, HeldFacts DEF Ready
  <2>2. tasks[t] \in Task
    BY <1>0, <2>1 DEF exists
  <2>3. \/ set_task(t, assigned(tasks[t], team_id[c]))
        \/ set_task(t, unassigned(tasks[t], team_id[c]))
    BY <1>3 DEF assign_team, unassign_team
  <2> HIDE DEF t
  <2>4. /\ assigned(tasks[t], team_id[c]) \in Task
        /\ unassigned(tasks[t], team_id[c]) \in Task
    BY <2>1, <2>2, AssignedFacts
  <2> QED
    BY <1>0, <2>1, <2>2, <2>3, <2>4, AssignedShown, TaskReplaced
<1>4. CASE tasks' = tasks
  BY <1>4 DEF TasksShown
<1>5. ASSUME NEW c \in Creators, extract_team_task_ids(c) \/ CreateStep(c)
      PROVE  \/ assign_team(c) \/ unassign_team(c) \/ tasks' = tasks
  BY <1>5 DEF extract_team_task_ids, CreateStep, check_task, create_team,
              team_created, remove_team, registries
<1>6. CASE \/ \E x \in DOMAIN teams : delete_team(x)
           \/ CronStep \/ UNCHANGED vars
  <2>1. tasks' = tasks
    BY <1>6, CronTypes DEF delete_team, vars, registries
  <2> QED BY <2>1, <1>4
<1> QED
  BY <1>1, <1>2, <1>3, <1>4, <1>5, <1>6 DEF Next, CronStep

(* A team is shown as created until it is deleted, which is recorded once. *)
LEMMA TeamsShownStep ==
  ASSUME MembershipInv, TeamsShown, [Next]_vars
  PROVE  TeamsShown'
<1>1. CASE \E c \in Creators : create_team(c)
  <2>1. PICK c \in Creators : create_team(c) BY <1>1
  <2> DEFINE n == team_counter + 1
             v == [status |-> "created", lifecycle |-> plain("created"),
                   last_error |-> FALSE, task_ids |-> ids[c]]
  <2>2. Shown(v, v.status)
    BY DEF Shown, plain
  <2>3. teams' = [y \in DOMAIN teams \cup {n} |-> IF y = n THEN v ELSE teams[y]]
    BY <2>1 DEF create_team, With
  <2> HIDE DEF v, n
  <2> QED BY <2>2, <2>3 DEF TeamsShown
<1>2. CASE \E c \in Creators : remove_team(c)
  BY <1>2 DEF remove_team, Without, TeamsShown
<1>3. CASE \E x \in DOMAIN teams : delete_team(x)
  <2>1. PICK x \in DOMAIN teams : delete_team(x) BY <1>3
  <2> DEFINE k == teams[x]
             m == [k EXCEPT !.status = "deleted"]
             v == IF k.status = "deleted" THEN Refused(k, "deleted")
                  ELSE Accepted(m, "deleted")
  <2>2. k \in Team
    BY DEF MembershipInv, TypeOK
  <2>3. teams' = [teams EXCEPT ![x] = v]
    BY <2>1 DEF delete_team
  <2> HIDE DEF k
  <2>4. m \in Team /\ m.status = "deleted"
    BY <2>2 DEF Team, TeamStatus
  <2> HIDE DEF m
  <2>5. Shown(v, v.status)
    BY <2>2, <2>4, TeamShown
  <2> HIDE DEF v
  <2> QED BY <2>3, <2>5 DEF TeamsShown
<1>4. CASE teams' = teams
  BY <1>4 DEF TeamsShown
<1>5. ASSUME NEW c \in Creators, extract_team_task_ids(c) \/ CreateStep(c)
      PROVE  \/ create_team(c) \/ remove_team(c) \/ teams' = teams
  BY <1>5 DEF extract_team_task_ids, CreateStep, check_task, assign_team,
              team_created, unassign_team, registries
<1>6. CASE \/ create_task \/ CronStep \/ UNCHANGED vars
           \/ \E t \in 1..MaxTasks :
                \/ stop(t) \/ update(t) \/ record_failure(t)
                \/ \E s \in WorkerStatuses : set_status(t, s)
  <2>1. teams' = teams
    BY <1>6, CronTypes DEF create_task, stop, update, record_failure,
                           set_status, vars, registries
  <2> QED BY <2>1, <1>4
<1> QED
  BY <1>1, <1>2, <1>3, <1>4, <1>5, <1>6 DEF Next, CronStep

(* Replacing one cron entry by one that is shown as it is.                 *)
LEMMA CronReplaced ==
  ASSUME CronsShown, NEW x \in DOMAIN crons, NEW v, set_cron(x, v), CronFair(v)
  PROVE  CronsShown'
BY DEF CronsShown, set_cron

LEMMA CronsShownStep ==
  ASSUME MembershipInv, CronsShown, [Next]_vars
  PROVE  CronsShown'
<1>0. \A x \in DOMAIN crons : crons[x] \in Cron /\ CronFair(crons[x])
  BY DEF MembershipInv, TypeOK, CronsShown
<1>1. CASE create_cron
  <2> DEFINE n == cron_counter + 1
             v == [enabled |-> TRUE, lifecycle |-> plain("enabled"),
                   last_error |-> FALSE, disabled_reason |-> FALSE,
                   run_count |-> 0]
  <2>1. CronFair(v)
    BY DEF CronFair, Shown, plain
  <2>2. crons' = [y \in DOMAIN crons \cup {n} |-> IF y = n THEN v ELSE crons[y]]
    BY <1>1 DEF create_cron, With
  <2> HIDE DEF v, n
  <2> QED BY <2>1, <2>2 DEF CronsShown
<1>2. ASSUME NEW x \in DOMAIN crons, NEW on \in BOOLEAN, set_enabled(x, on)
      PROVE  CronsShown'
  <2> DEFINE e == crons[x]
             s == IF on THEN "enabled" ELSE "disabled"
             m == [e EXCEPT !.enabled = on, !.disabled_reason = ~on]
             v == IF e.enabled = on THEN Refused(e, s) ELSE Accepted(m, s)
  <2>1. e \in Cron /\ CronFair(e) /\ set_cron(x, v)
    BY <1>0, <1>2 DEF set_enabled
  <2> HIDE DEF e
  <2>2. m \in Cron /\ m.enabled = on /\ m.disabled_reason = ~on
    BY <2>1 DEF Cron
  <2> HIDE DEF m
  <2>3. CASE e.enabled = on
    <3>1. CronFair(Refused(e, s))
      BY <2>1, <2>3, CronShown DEF CronFair
    <3> QED BY <2>1, <2>3, <3>1, CronReplaced
  <2>4. CASE e.enabled # on
    <3>1. CronFair(Accepted(m, s))
      BY <2>2, CronShown DEF CronFair
    <3> QED BY <2>1, <2>4, <3>1, CronReplaced
  <2> QED BY <2>3, <2>4
<1>3. ASSUME NEW x \in DOMAIN crons, record_run(x)
      PROVE  CronsShown'
  <2> DEFINE e == crons[x]
             m == [e EXCEPT !.run_count = e.run_count + 1]
             v == IF ~e.enabled THEN Refused(e, "disabled")
                  ELSE Accepted(m, "enabled")
  <2>1. e \in Cron /\ CronFair(e) /\ set_cron(x, v)
    BY <1>0, <1>3 DEF record_run
  <2> HIDE DEF e
  <2>2. /\ m \in Cron /\ m.enabled = e.enabled
        /\ m.disabled_reason = e.disabled_reason
    BY <2>1 DEF Cron
  <2> HIDE DEF m
  <2>3. CASE ~e.enabled
    <3>1. CronFair(Refused(e, "disabled"))
      BY <2>1, <2>3, CronShown DEF CronFair
    <3> QED BY <2>1, <2>3, <3>1, CronReplaced
  <2>4. CASE e.enabled
    <3>1. CronFair(Accepted(m, "enabled"))
      BY <2>1, <2>2, <2>4, CronShown DEF CronFair
    <3> QED BY <2>1, <2>4, <3>1, CronReplaced
  <2> QED BY <2>3, <2>4
<1>4. ASSUME NEW x \in DOMAIN crons, delete_cron(x)
      PROVE  CronsShown'
  BY <1>4 DEF delete_cron, Without, CronsShown
<1>5. CASE crons' = crons
  BY <1>5 DEF CronsShown
<1>6. CASE \/ create_task \/ UNCHANGED vars
           \/ \E t \in 1..MaxTasks :
                \/ stop(t) \/ update(t) \/ record_failure(t)
                \/ \E s \in WorkerStatuses : set_status(t, s)
           \/ \E c \in Creators : extract_team_task_ids(c) \/ CreateStep(c)
           \/ \E x \in DOMAIN teams : delete_team(x)
  <2>1. crons' = crons
    BY <1>6 DEF create_task, stop, update, record_failure, set_status, vars,
                registries, extract_team_task_ids, CreateStep, check_task,
                create_team, assign_team, team_created, unassign_team,
                remove_team, delete_team
  <2> QED BY <2>1, <1>5
<1> QED
  BY <1>1, <1>2, <1>3, <1>4, <1>6 DEF Next

LEMMA ShownStep ==
  ASSUME MembershipInv, ShownTruthfully, [Next]_vars
  PROVE  ShownTruthfully'
<1> SUFFICES TasksShown' /\ TeamsShown' /\ CronsShown'
  BY DEF ShownTruthfully, TasksShown, TeamsShown, CronsShown, CronFair
<1> QED
  BY ShownParts, TasksShownStep, TeamsShownStep, CronsShownStep

(* Whatever the tools, the workers and the rollbacks do to an entry, its   *)
(* list shows it as it is (task_registry.rs, team_cron_registry.rs).       *)
THEOREM ShownTruthfullyHolds == Spec => []ShownTruthfully
<1>1. Init => ShownTruthfully
  BY DEF Init, ShownTruthfully
<1>2. MembershipInv /\ ShownTruthfully /\ [Next]_vars => ShownTruthfully'
  BY ShownStep
<1> QED
  BY <1>1, <1>2, MembershipInvHolds, PTL DEF Spec

-----------------------------------------------------------------------------
(* What the tools answer. A tool call is a step of the registries, or one  *)
(* that only reads them.                                                   *)
LEMMA ToolsStepRegistries ==
  ASSUME [ToolsNext]_toolVars PROVE [Next]_vars
<1>1. ASSUME NEW c \in Callers,
             \/ run_task_create(c) \/ run_task_list(c) \/ run_team_list(c)
             \/ run_cron_create(c) \/ run_cron_list(c) \/ toggle_answer(c)
             \/ \E t \in 1..MaxTasks :
                  \/ run_task_get(c, t) \/ run_task_stop(c, t)
                  \/ run_task_update(c, t) \/ run_task_output(c, t)
                  \/ run_task_wait(c, t)
             \/ \E x \in 1..MaxTasks : run_team_get(c, x) \/ run_team_delete(c, x)
             \/ \E x \in 1..MaxCrons :
                  \/ run_cron_get(c, x) \/ run_cron_delete(c, x)
                  \/ \E on \in BOOLEAN : run_cron_toggle(c, x, on)
      PROVE  \/ create_task \/ create_cron \/ UNCHANGED vars
             \/ \E t \in 1..MaxTasks : stop(t) \/ update(t)
             \/ \E x \in DOMAIN teams : delete_team(x)
             \/ \E x \in DOMAIN crons : \/ delete_cron(x)
                                        \/ \E on \in BOOLEAN : set_enabled(x, on)
  BY <1>1, Zenon DEF run_task_create, run_task_list, run_team_list, run_cron_create,
              run_cron_list, toggle_answer, run_task_get, run_task_stop,
              run_task_update, run_task_output, run_task_wait, run_team_get,
              run_team_delete, run_cron_get, run_cron_delete, run_cron_toggle
<1>2. CASE \E c \in Creators : extract_team_task_ids(c) \/ CreateStep(c)
  BY <1>2 DEF Next
<1>3. CASE UNCHANGED toolVars
  BY <1>3 DEF toolVars
<1>4. ASSUME NEW c \in Callers,
             \/ create_task \/ create_cron \/ UNCHANGED vars
             \/ \E t \in 1..MaxTasks : stop(t) \/ update(t)
             \/ \E x \in DOMAIN teams : delete_team(x)
             \/ \E x \in DOMAIN crons : \/ delete_cron(x)
                                        \/ \E on \in BOOLEAN : set_enabled(x, on)
      PROVE  [Next]_vars
  BY <1>4 DEF Next
<1> QED
  BY <1>1, <1>2, <1>3, <1>4, Zenon DEF ToolsNext

(* What no tool and no rollback undoes: a task that ended stays as it is,  *)
(* a deleted team stays deleted, and numbers are not given out again.      *)
Steady ==
  /\ \A t \in 1..Len(tasks) :
       /\ t \in 1..Len(tasks')
       /\ terminal(tasks[t].status) => tasks'[t].status = tasks[t].status
  /\ team_counter' \in Nat /\ team_counter' >= team_counter
  /\ \A x \in DOMAIN teams' : x <= team_counter =>
       /\ x \in DOMAIN teams
       /\ teams[x].status = "deleted" => teams'[x].status = "deleted"
  /\ cron_counter' \in Nat /\ cron_counter' >= cron_counter
  /\ \A x \in DOMAIN crons' : x <= cron_counter => x \in DOMAIN crons

LEMMA SteadyWhenUnchanged ==
  ASSUME MembershipInv, UNCHANGED vars PROVE Steady
<1>1. UNCHANGED <<tasks, teams, team_counter, crons, cron_counter>>
  BY DEF vars, registries
<1>2. team_counter \in Nat /\ cron_counter \in Nat
  BY DEF MembershipInv, TypeOK
<1> QED
  BY <1>1, <1>2 DEF Steady

(* One task is replaced, and not if it ended.                              *)
LEMMA SteadyTask ==
  ASSUME MembershipInv, NEW t, exists(t), NEW v \in Task, set_task(t, v),
         terminal(tasks[t].status) => v.status = tasks[t].status,
         UNCHANGED <<teams, team_counter, crons, cron_counter>>
  PROVE  Steady
<1>1. TypeOK /\ team_counter \in Nat /\ cron_counter \in Nat
  BY DEF MembershipInv, TypeOK
<1>2. /\ Len(tasks') = Len(tasks) /\ tasks'[t] = v
      /\ \A u \in 1..Len(tasks) : u # t => tasks'[u] = tasks[u]
  BY <1>1, SetTask
<1> QED
  BY <1>1, <1>2 DEF Steady

LEMMA SteadyTaskTools ==
  ASSUME MembershipInv,
         \/ create_task
         \/ \E t \in 1..MaxTasks : stop(t) \/ update(t)
  PROVE  Steady
<1>0. /\ TypeOK /\ tasks \in Seq(Task) /\ Len(tasks) \in Nat
      /\ team_counter \in Nat /\ cron_counter \in Nat
  BY DEF MembershipInv, TypeOK
<1>1. CASE create_task
  <2> DEFINE k == [status |-> "created", lifecycle |-> plain("created"),
                   last_error |-> FALSE, team |-> 0]
  <2>1. tasks' = Append(tasks, k)
        /\ UNCHANGED <<teams, team_counter, crons, cron_counter>>
    BY <1>1 DEF create_task
  <2> HIDE DEF k
  <2>2. /\ Len(tasks') = Len(tasks) + 1
        /\ \A u \in 1..Len(tasks) : tasks'[u] = tasks[u]
    BY <1>0, <2>1
  <2> QED
    BY <1>0, <2>1, <2>2 DEF Steady
<1>2. ASSUME NEW t \in 1..MaxTasks, stop(t)
      PROVE  Steady
  <2> DEFINE k == tasks[t]
             v == IF terminal(k.status) THEN Refused(k, k.status)
                  ELSE Accepted([k EXCEPT !.status = "stopped"], "stopped")
  <2>1. /\ exists(t) /\ k \in Task /\ set_task(t, v)
        /\ UNCHANGED <<teams, team_counter, crons, cron_counter>>
    BY <1>0, <1>2 DEF stop, exists
  <2> HIDE DEF k
  <2>2. v \in Task /\ (terminal(k.status) => v.status = k.status)
    BY <2>1 DEF Task, Lifecycle, Accepted, Refused, plain, conflict, TaskStatus
  <2> HIDE DEF v
  <2> QED
    BY <2>1, <2>2, SteadyTask DEF k
<1>3. ASSUME NEW t \in 1..MaxTasks, update(t)
      PROVE  Steady
  <2> DEFINE k == tasks[t]
             v == Accepted(k, k.status)
  <2>1. /\ exists(t) /\ k \in Task /\ set_task(t, v)
        /\ UNCHANGED <<teams, team_counter, crons, cron_counter>>
    BY <1>0, <1>3 DEF update, exists
  <2> HIDE DEF k
  <2>2. v \in Task /\ v.status = k.status
    BY <2>1 DEF Task, Lifecycle, Accepted, plain, TaskStatus
  <2> HIDE DEF v
  <2> QED
    BY <2>1, <2>2, SteadyTask DEF k
<1> QED
  BY <1>1, <1>2, <1>3

(* Assigning and unassigning keep the status.                              *)
LEMMA AssignedStatus ==
  ASSUME NEW k \in Task, NEW x \in Nat
  PROVE  assigned(k, x).status = k.status /\ unassigned(k, x).status = k.status
<1>1. \A y \in Nat : Accepted([k EXCEPT !.team = y], k.status).status = k.status
  BY DEF Task, Accepted
<1>2. Refused(k, k.status).status = k.status
  BY DEF Task, Refused
<1> QED
  BY <1>1, <1>2 DEF assigned, unassigned

LEMMA SteadyCreations ==
  ASSUME MembershipInv, NEW c \in Creators,
         extract_team_task_ids(c) \/ CreateStep(c)
  PROVE  Steady /\ UNCHANGED crons
<1>0. /\ TypeOK /\ tasks \in Seq(Task) /\ Len(tasks) \in Nat
      /\ team_counter \in Nat /\ cron_counter \in Nat
  BY DEF MembershipInv, TypeOK
<1>1. CASE assign_team(c) \/ unassign_team(c)
  <2> DEFINE t == ids[c][at[c]]
  <2>1. exists(t) /\ team_id[c] \in Nat
    <3>1. Ready(c) /\ Owning(c) /\ at[c] \in 1..(Len(ids[c]) + 1)
      BY <1>1 DEF assign_team, unassign_team, Owning, MembershipInv, Prepared,
                  Ready
    <3>2. at[c] \in 1..Len(ids[c])
      <4>1. at[c] <= Len(ids[c])
        BY <1>1 DEF assign_team, unassign_team
      <4> QED BY <3>1, <4>1, HeldFacts
    <3> QED BY <3>1, <3>2, HeldFacts DEF Ready
  <2>2. tasks[t] \in Task
    BY <1>0, <2>1 DEF exists
  <2>3. /\ \/ set_task(t, assigned(tasks[t], team_id[c]))
           \/ set_task(t, unassigned(tasks[t], team_id[c]))
        /\ UNCHANGED <<teams, team_counter, crons, cron_counter>>
    BY <1>1 DEF assign_team, unassign_team
  <2> HIDE DEF t
  <2>4. /\ assigned(tasks[t], team_id[c]) \in Task
        /\ unassigned(tasks[t], team_id[c]) \in Task
    BY <2>1, <2>2, AssignedFacts
  <2> QED
    BY <2>1, <2>2, <2>3, <2>4, AssignedStatus, SteadyTask
<1>2. CASE create_team(c)
  <2> DEFINE n == team_counter + 1
             v == [status |-> "created", lifecycle |-> plain("created"),
                   last_error |-> FALSE, task_ids |-> ids[c]]
  <2>1. /\ teams' = [y \in DOMAIN teams \cup {n} |-> IF y = n THEN v ELSE teams[y]]
        /\ team_counter' = n /\ UNCHANGED <<tasks, crons, cron_counter>>
    BY <1>2 DEF create_team, With
  <2> HIDE DEF v
  <2> QED BY <1>0, <2>1 DEF Steady
<1>3. CASE remove_team(c)
  <2>1. /\ teams' = [y \in DOMAIN teams \ {team_id[c]} |-> teams[y]]
        /\ UNCHANGED <<tasks, team_counter, crons, cron_counter>>
    BY <1>3 DEF remove_team, Without
  <2> QED BY <1>0, <2>1 DEF Steady
<1>4. CASE extract_team_task_ids(c) \/ check_task(c) \/ team_created(c)
  <2>1. UNCHANGED <<tasks, teams, team_counter, crons, cron_counter>>
    BY <1>4 DEF extract_team_task_ids, check_task, team_created, registries
  <2> QED BY <1>0, <2>1 DEF Steady
<1> QED
  BY <1>1, <1>2, <1>3, <1>4 DEF CreateStep

LEMMA SteadyDelete ==
  ASSUME MembershipInv, NEW x \in DOMAIN teams, delete_team(x)
  PROVE  /\ Steady /\ teams'[x].status = "deleted" /\ UNCHANGED <<tasks, crons>>
         /\ teams'[x] \in Team
<1> DEFINE k == teams[x]
           m == [k EXCEPT !.status = "deleted"]
           v == IF k.status = "deleted" THEN Refused(k, "deleted")
                ELSE Accepted(m, "deleted")
<1>1. k \in Team /\ team_counter \in Nat /\ cron_counter \in Nat
  BY DEF MembershipInv, TypeOK
<1>2. /\ teams' = [teams EXCEPT ![x] = v]
      /\ UNCHANGED <<tasks, team_counter, crons, cron_counter>>
  BY DEF delete_team
<1> HIDE DEF k
<1>3. m \in Team /\ m.status = "deleted"
  BY <1>1 DEF Team, TeamStatus
<1> HIDE DEF m
<1>4. v.status = "deleted"
  BY <1>1, <1>3, TeamShown
<1>5. v \in Team
  BY <1>1, <1>3 DEF Team, TeamStatus, Lifecycle, Accepted, Refused, plain,
                    conflict
<1> HIDE DEF v
<1>6. /\ DOMAIN teams' = DOMAIN teams /\ teams'[x] = v
      /\ \A y \in DOMAIN teams : y # x => teams'[y] = teams[y]
  BY <1>2
<1> QED
  BY <1>1, <1>2, <1>4, <1>5, <1>6 DEF Steady

(* The cron entries other than x are left alone.                           *)
CronsElsewhere(x) ==
  \A y \in DOMAIN crons \ {x} : y \in DOMAIN crons' /\ crons'[y] = crons[y]

LEMMA SteadyCrons ==
  ASSUME MembershipInv
  PROVE  /\ create_cron => Steady /\ CronsElsewhere(cron_counter + 1)
         /\ \A x \in DOMAIN crons :
              /\ delete_cron(x) => Steady /\ CronsElsewhere(x)
              /\ \A on \in BOOLEAN :
                   set_enabled(x, on) => Steady /\ CronsElsewhere(x)
<1>0. /\ cron_counter \in Nat /\ team_counter \in Nat /\ Len(tasks) \in Nat
      /\ DOMAIN crons \subseteq 1..cron_counter
  BY DEF MembershipInv, TypeOK
<1>1. ASSUME create_cron PROVE Steady /\ CronsElsewhere(cron_counter + 1)
  <2> DEFINE v == [enabled |-> TRUE, lifecycle |-> plain("enabled"),
                   last_error |-> FALSE, disabled_reason |-> FALSE,
                   run_count |-> 0]
             n == cron_counter + 1
  <2>1. /\ crons' = [y \in DOMAIN crons \cup {n} |-> IF y = n THEN v ELSE crons[y]]
        /\ cron_counter' = n /\ UNCHANGED <<tasks, teams, team_counter>>
    BY <1>1 DEF create_cron, With
  <2> HIDE DEF v
  <2> QED BY <1>0, <2>1 DEF Steady, CronsElsewhere
<1>2. ASSUME NEW x \in DOMAIN crons, delete_cron(x)
      PROVE  Steady /\ CronsElsewhere(x)
  BY <1>0, <1>2 DEF delete_cron, Without, Steady, CronsElsewhere
<1>3. ASSUME NEW x \in DOMAIN crons, NEW on \in BOOLEAN, set_enabled(x, on)
      PROVE  Steady /\ CronsElsewhere(x)
  <2> DEFINE e == crons[x]
             s == IF on THEN "enabled" ELSE "disabled"
             v == IF e.enabled = on THEN Refused(e, s)
                  ELSE Accepted([e EXCEPT !.enabled = on,
                                          !.disabled_reason = ~on], s)
  <2>1. set_cron(x, v)
    BY <1>3 DEF set_enabled
  <2> HIDE DEF v
  <2> QED BY <1>0, <2>1 DEF set_cron, Steady, CronsElsewhere
<1> QED
  BY <1>1, <1>2, <1>3

-----------------------------------------------------------------------------
(* Another caller d while a tool works on entry x: it is told of a change  *)
(* of the entry it toggled.                                                *)
SameFor(d) == /\ phase'[d] = phase[d] /\ tool'[d] = tool[d]
              /\ entry_id'[d] = entry_id[d] /\ reply'[d] = reply[d]
Noticed(d, x) ==
  ~disturbed'[d] =>
    /\ ~disturbed[d]
    /\ phase[d] = "toggled" /\ entry_id[d] = x /\ x \in DOMAIN crons =>
         x \in DOMAIN crons' /\ crons'[x] = crons[x]

LEMMA OtherCaller ==
  ASSUME ToolInv, Steady, NEW x, CronsElsewhere(x), NEW d \in Callers,
         SameFor(d), Noticed(d, x)
  PROVE  CallerInv(d)'
<1>0. CallerInv(d) /\ entry_id[d] \in Nat
  BY DEF ToolInv, ToolsTypeOK
<1>1. TogglePending(d)'
  <2> SUFFICES ASSUME phase'[d] = "toggled"
               PROVE  /\ tool'[d] \in {"CronEnable", "CronDisable"}
                      /\ ~disturbed'[d] =>
                           /\ entry_id'[d] \in DOMAIN crons'
                           /\ crons'[entry_id'[d]].enabled = (tool'[d] = "CronEnable")
                           /\ crons'[entry_id'[d]].disabled_reason = (tool'[d] # "CronEnable")
    BY DEF TogglePending
  <2>1. /\ tool[d] \in {"CronEnable", "CronDisable"}
        /\ ~disturbed[d] =>
             /\ entry_id[d] \in DOMAIN crons
             /\ crons[entry_id[d]].enabled = (tool[d] = "CronEnable")
             /\ crons[entry_id[d]].disabled_reason = (tool[d] # "CronEnable")
    BY <1>0 DEF CallerInv, TogglePending, SameFor
  <2>2. ASSUME ~disturbed'[d]
        PROVE  /\ ~disturbed[d] /\ entry_id[d] \in DOMAIN crons'
               /\ crons'[entry_id[d]] = crons[entry_id[d]]
    BY <2>1, <2>2 DEF Noticed, CronsElsewhere, SameFor
  <2> QED
    BY <2>1, <2>2 DEF SameFor
<1>2. ToggleTold(d)'
  BY <1>0 DEF CallerInv, ToggleTold, SameFor
<1>3. FinalTold(d)'
  <2> DEFINE x0 == entry_id[d]
  <2> SUFFICES ASSUME phase[d] = "ready", reply[d].is = "ok"
               PROVE  /\ (\/ tool[d] = "TaskStop"
                          \/ tool[d] = "TaskWait" /\ reply[d].label = "terminal") =>
                           /\ x0 \in 1..Len(tasks') /\ terminal(tasks'[x0].status)
                           /\ tasks'[x0].status = reply[d].shown.status
                      /\ tool[d] = "TeamDelete" =>
                           /\ x0 <= team_counter'
                           /\ x0 \in DOMAIN teams' => teams'[x0].status = "deleted"
                      /\ tool[d] = "CronDelete" =>
                           x0 <= cron_counter' /\ x0 \notin DOMAIN crons'
    BY DEF SameFor, FinalTold, exists, terminal
  <2>1. /\ (\/ tool[d] = "TaskStop"
            \/ tool[d] = "TaskWait" /\ reply[d].label = "terminal") =>
             /\ x0 \in 1..Len(tasks) /\ terminal(tasks[x0].status)
             /\ tasks[x0].status = reply[d].shown.status
        /\ tool[d] = "TeamDelete" =>
             x0 <= team_counter /\ (x0 \in DOMAIN teams => teams[x0].status = "deleted")
        /\ tool[d] = "CronDelete" => x0 <= cron_counter /\ x0 \notin DOMAIN crons
    BY <1>0 DEF CallerInv, FinalTold, exists
  <2>2. team_counter \in Nat /\ cron_counter \in Nat
    BY <1>0 DEF ToolInv, MembershipInv, TypeOK
  <2> QED
    BY <1>0, <2>1, <2>2 DEF Steady
<1> QED
  BY <1>1, <1>2, <1>3 DEF CallerInv

(* What an answer does to the callers.                                     *)
LEMMA AnswerFacts ==
  ASSUME ToolsTypeOK, NEW c \in Callers, NEW n \in ToolNames, NEW x \in Nat,
         NEW r \in Reply, answers(c, n, x, r)
  PROVE  /\ ToolsTypeOK'
         /\ phase'[c] = "ready" /\ reply'[c] = r
         /\ r.is = "ok" => tool'[c] = n /\ entry_id'[c] = x
         /\ \A d \in Callers \ {c} : SameFor(d) /\ Noticed(d, x)
<1>1. /\ phase' \in [Callers -> {"ready", "toggled", "polling"}]
      /\ tool' \in [Callers -> ToolNames] /\ entry_id' \in [Callers -> Nat]
      /\ polls' \in [Callers -> Nat] /\ reply' \in [Callers -> Reply]
      /\ phase'[c] = "ready" /\ reply'[c] = r
      /\ r.is = "ok" => tool'[c] = n /\ entry_id'[c] = x
      /\ \A d \in Callers \ {c} : SameFor(d)
  <2>1. "none" \in ToolNames BY DEF ToolNames
  <2> QED BY <2>1 DEF answers, ToolsTypeOK, SameFor
<1>2. touches(x) \in [Callers -> BOOLEAN]
  BY DEF touches, ToolsTypeOK
<1>3. disturbed' \in [Callers -> BOOLEAN]
      /\ \A d \in Callers \ {c} : disturbed'[d] = touches(x)[d]
  BY <1>2 DEF answers
<1>4. ASSUME NEW d \in Callers \ {c}
      PROVE  Noticed(d, x)
  <2>1. disturbed[d] \in BOOLEAN BY DEF ToolsTypeOK
  <2> QED BY <1>3, <2>1 DEF Noticed, touches
<1> QED
  BY <1>1, <1>3, <1>4 DEF ToolsTypeOK

(* A tool that answers: what it says of the entry has to hold, and nothing *)
(* that was said before is undone.                                         *)
LEMMA AnswerKeeps ==
  ASSUME ToolInv, [Next]_vars, Steady, NEW x \in Nat, CronsElsewhere(x),
         NEW c \in Callers, NEW n \in ToolNames, NEW r \in Reply,
         answers(c, n, x, r),
         r.is = "ok" => ToggleTold(c)' /\ FinalTold(c)'
  PROVE  ToolInv'
<1>1. MembershipInv' /\ ShownTruthfully'
  BY MembershipStep, ShownStep DEF ToolInv
<1>2. /\ ToolsTypeOK' /\ phase'[c] = "ready" /\ reply'[c] = r
      /\ \A d \in Callers \ {c} : SameFor(d) /\ Noticed(d, x)
  BY AnswerFacts DEF ToolInv
<1>3. \A d \in Callers \ {c} : CallerInv(d)'
  BY <1>2, OtherCaller
<1>4. CallerInv(c)'
  <2>1. TogglePending(c)' BY <1>2 DEF TogglePending
  <2>2. ToggleTold(c)' /\ FinalTold(c)' BY <1>2 DEF ToggleTold, FinalTold
  <2> QED BY <2>1, <2>2 DEF CallerInv
<1> QED
  BY <1>1, <1>2, <1>3, <1>4 DEF ToolInv

(* A tool that only reads.                                                 *)
LEMMA ReadKeeps ==
  ASSUME ToolInv, UNCHANGED vars, NEW x \in Nat, NEW c \in Callers,
         NEW n \in ToolNames, NEW r \in Reply, answers(c, n, x, r),
         r.is = "ok" => ToggleTold(c)' /\ FinalTold(c)'
  PROVE  ToolInv'
<1>1. Steady BY SteadyWhenUnchanged DEF ToolInv
<1>2. CronsElsewhere(x) BY DEF CronsElsewhere, vars, registries
<1> QED
  BY <1>1, <1>2, AnswerKeeps

(* The answers that say nothing final.                                     *)
LEMMA PlainReplies ==
  /\ read \in Reply /\ refused \in Reply /\ not_found \in Reply
  /\ read.is # "ok" /\ refused.is # "ok" /\ not_found.is # "ok"
BY DEF Reply, read, refused, not_found

LEMMA OkReply ==
  ASSUME NEW l \in {"stopped", "deleted", "enabled", "disabled", "terminal", "timed_out"},
         NEW e \in Task \cup Team \cup Cron, NEW b \in BOOLEAN
  PROVE  /\ ok(l, e, b) \in Reply /\ ok(l, e, b).is = "ok"
         /\ ok(l, e, b).label = l /\ ok(l, e, b).shown = e
         /\ ok(l, e, b).alone = b
BY DEF Reply, ok

-----------------------------------------------------------------------------
(* The tools, one after the other. TaskStop: a task that it stopped, and   *)
(* one that had ended before, stays as it is.                              *)
LEMMA TaskStopKeeps ==
  ASSUME ToolInv, [Next]_vars, NEW c \in Callers, NEW t \in 1..MaxTasks,
         run_task_stop(c, t)
  PROVE  ToolInv'
<1>0. MembershipInv /\ TypeOK /\ t \in Nat /\ "TaskStop" \in ToolNames
  BY DEF ToolInv, MembershipInv, ToolNames
<1>1. CASE ~exists(t)
  BY <1>0, <1>1, PlainReplies, ReadKeeps DEF run_task_stop
<1>2. CASE exists(t)
  <2> DEFINE r == IF terminal(tasks[t].status) THEN refused
                  ELSE ok("stopped", tasks'[t], TRUE)
  <2>1. stop(t) /\ answers(c, "TaskStop", t, r)
    BY <1>2 DEF run_task_stop
  <2>2. Steady /\ UNCHANGED crons
    BY <1>0, <2>1, SteadyTaskTools DEF stop
  <2>3. CronsElsewhere(t)
    BY <2>2 DEF CronsElsewhere
  <2>4. tasks'[t] \in Task /\ t \in 1..Len(tasks')
    <3>1. tasks' \in Seq(Task) /\ Len(tasks') >= Len(tasks) /\ Len(tasks) \in Nat
      BY <1>0, <2>1, TaskSteps DEF TypeOK
    <3> QED BY <1>2, <3>1 DEF exists
  <2>5. ~terminal(tasks[t].status) => tasks'[t].status = "stopped"
    <3> DEFINE k == tasks[t]
               v == Accepted([k EXCEPT !.status = "stopped"], "stopped")
    <3>1. k \in Task BY <1>0, <1>2 DEF exists, TypeOK
    <3> HIDE DEF k
    <3>2. v.status = "stopped" /\ v \in Task
      BY <3>1 DEF Accepted, Task, Lifecycle, plain, TaskStatus
    <3>3. ~terminal(k.status) => set_task(t, v)
      BY <2>1 DEF stop, k
    <3> HIDE DEF v
    <3> QED BY <1>0, <1>2, <3>2, <3>3, SetTask DEF k
  <2>6. r \in Reply
    BY <2>4, OkReply, PlainReplies
  <2>7. r.is = "ok" => ToggleTold(c)' /\ FinalTold(c)'
    <3> SUFFICES ASSUME r.is = "ok" PROVE ToggleTold(c)' /\ FinalTold(c)'
      OBVIOUS
    <3>1. r = ok("stopped", tasks'[t], TRUE) /\ ~terminal(tasks[t].status)
      BY PlainReplies
    <3> HIDE DEF r
    <3>2. r.shown = tasks'[t]
      <4>1. ok("stopped", tasks'[t], TRUE).shown = tasks'[t]
        BY DEF ok
      <4> QED BY <3>1, <4>1
    <3>3. tool'[c] = "TaskStop" /\ entry_id'[c] = t /\ reply'[c] = r
      BY <1>0, <2>1, <2>6, AnswerFacts DEF ToolInv
    <3> QED
      BY <2>4, <2>5, <3>1, <3>2, <3>3 DEF ToggleTold, FinalTold, exists, terminal
  <2> HIDE DEF r
  <2> QED
    BY <1>0, <2>1, <2>2, <2>3, <2>6, <2>7, AnswerKeeps
<1> QED
  BY <1>1, <1>2

(* TeamDelete.                                                             *)
LEMMA TeamDeleteKeeps ==
  ASSUME ToolInv, [Next]_vars, NEW c \in Callers, NEW x \in 1..MaxTasks,
         run_team_delete(c, x)
  PROVE  ToolInv'
<1>0. /\ MembershipInv /\ x \in Nat /\ "TeamDelete" \in ToolNames
      /\ team_counter \in Nat /\ DOMAIN teams \subseteq 1..team_counter
  BY DEF ToolInv, MembershipInv, TypeOK, ToolNames
<1>1. CASE x \notin DOMAIN teams
  BY <1>0, <1>1, PlainReplies, ReadKeeps DEF run_team_delete
<1>2. CASE x \in DOMAIN teams
  <2> DEFINE r == IF teams[x].status = "deleted" THEN refused
                  ELSE ok("deleted", teams'[x], TRUE)
  <2>1. delete_team(x) /\ answers(c, "TeamDelete", x, r)
    BY <1>2 DEF run_team_delete
  <2>2. /\ Steady /\ teams'[x].status = "deleted" /\ UNCHANGED crons
        /\ teams'[x] \in Team
    BY <1>0, <1>2, <2>1, SteadyDelete
  <2>3. CronsElsewhere(x)
    BY <2>2 DEF CronsElsewhere
  <2>4. r \in Reply
    BY <2>2, OkReply, PlainReplies
  <2> HIDE DEF r
  <2>5. r.is = "ok" => ToggleTold(c)' /\ FinalTold(c)'
    <3> SUFFICES ASSUME r.is = "ok" PROVE ToggleTold(c)' /\ FinalTold(c)'
      OBVIOUS
    <3>1. tool'[c] = "TeamDelete" /\ entry_id'[c] = x
      BY <1>0, <2>1, <2>4, AnswerFacts DEF ToolInv
    <3>2. x <= team_counter' /\ team_counter' \in Nat
      BY <1>0, <1>2, <2>2 DEF Steady
    <3> QED
      BY <2>2, <3>1, <3>2 DEF ToggleTold, FinalTold
  <2> QED
    BY <1>0, <2>1, <2>2, <2>3, <2>4, <2>5, AnswerKeeps
<1> QED
  BY <1>1, <1>2

(* CronDelete.                                                             *)
LEMMA CronDeleteKeeps ==
  ASSUME ToolInv, [Next]_vars, NEW c \in Callers, NEW x \in 1..MaxCrons,
         run_cron_delete(c, x)
  PROVE  ToolInv'
<1>0. /\ MembershipInv /\ x \in Nat /\ "CronDelete" \in ToolNames
      /\ cron_counter \in Nat /\ DOMAIN crons \subseteq 1..cron_counter
      /\ \A y \in DOMAIN crons : crons[y] \in Cron
  BY DEF ToolInv, MembershipInv, TypeOK, ToolNames
<1>1. CASE x \notin DOMAIN crons
  BY <1>0, <1>1, PlainReplies, ReadKeeps DEF run_cron_delete
<1>2. CASE x \in DOMAIN crons
  <2> DEFINE r == ok("deleted", crons[x], TRUE)
  <2>1. delete_cron(x) /\ answers(c, "CronDelete", x, r)
    BY <1>2 DEF run_cron_delete
  <2>2. Steady /\ CronsElsewhere(x)
    BY <1>0, <1>2, <2>1, SteadyCrons
  <2>3. x \notin DOMAIN crons'
    BY <2>1 DEF delete_cron, Without
  <2>4. r \in Reply
    BY <1>0, <1>2, OkReply
  <2> HIDE DEF r
  <2>5. r.is = "ok" => ToggleTold(c)' /\ FinalTold(c)'
    <3> SUFFICES ASSUME r.is = "ok" PROVE ToggleTold(c)' /\ FinalTold(c)'
      OBVIOUS
    <3>1. tool'[c] = "CronDelete" /\ entry_id'[c] = x
      BY <1>0, <2>1, <2>4, AnswerFacts DEF ToolInv
    <3>2. x <= cron_counter' /\ cron_counter' \in Nat
      BY <1>0, <1>2, <2>2 DEF Steady
    <3> QED
      BY <2>3, <3>1, <3>2 DEF ToggleTold, FinalTold
  <2> QED
    BY <1>0, <2>1, <2>2, <2>4, <2>5, AnswerKeeps
<1> QED
  BY <1>1, <1>2

(* The first half of CronEnable and CronDisable.                           *)
LEMMA ToggleKeeps ==
  ASSUME ToolInv, [Next]_vars, NEW c \in Callers, NEW x \in 1..MaxCrons,
         NEW on \in BOOLEAN, run_cron_toggle(c, x, on)
  PROVE  ToolInv'
<1>0. /\ MembershipInv /\ ToolsTypeOK /\ x \in Nat
      /\ toggle_tool(on) \in ToolNames
      /\ toggle_tool(on) \in {"CronEnable", "CronDisable"}
      /\ on = (toggle_tool(on) = "CronEnable")
      /\ \A y \in DOMAIN crons : crons[y] \in Cron
  BY DEF ToolInv, MembershipInv, TypeOK, ToolNames, toggle_tool
<1>1. CASE x \notin DOMAIN crons
  BY <1>0, <1>1, PlainReplies, ReadKeeps DEF run_cron_toggle
<1>2. CASE x \in DOMAIN crons /\ crons[x].enabled = on
  <2>1. set_enabled(x, on) /\ answers(c, toggle_tool(on), x, refused)
    BY <1>2 DEF run_cron_toggle
  <2>2. Steady /\ CronsElsewhere(x)
    BY <1>0, <1>2, <2>1, SteadyCrons
  <2> QED
    BY <1>0, <2>1, <2>2, PlainReplies, AnswerKeeps
<1>3. CASE x \in DOMAIN crons /\ crons[x].enabled # on
  <2>1. /\ set_enabled(x, on)
        /\ phase' = [phase EXCEPT ![c] = "toggled"]
        /\ tool' = [tool EXCEPT ![c] = toggle_tool(on)]
        /\ entry_id' = [entry_id EXCEPT ![c] = x]
        /\ disturbed' = [touches(x) EXCEPT ![c] = FALSE]
        /\ UNCHANGED <<polls, reply>>
    BY <1>3 DEF run_cron_toggle
  <2>2. Steady /\ CronsElsewhere(x)
    BY <1>0, <1>3, <2>1, SteadyCrons
  <2>3. touches(x) \in [Callers -> BOOLEAN]
    BY <1>0 DEF touches, ToolsTypeOK
  <2>4. ToolsTypeOK'
    BY <1>0, <2>1, <2>3 DEF ToolsTypeOK
  <2>5. \A d \in Callers \ {c} : SameFor(d) /\ Noticed(d, x)
    <3> SUFFICES ASSUME NEW d \in Callers \ {c} PROVE SameFor(d) /\ Noticed(d, x)
      OBVIOUS
    <3>1. SameFor(d)
      BY <1>0, <2>1 DEF ToolsTypeOK, SameFor
    <3>2. disturbed'[d] = touches(x)[d] /\ disturbed[d] \in BOOLEAN
      BY <1>0, <2>1, <2>3 DEF ToolsTypeOK
    <3> QED BY <3>1, <3>2 DEF Noticed, touches
  <2>6. \A d \in Callers \ {c} : CallerInv(d)'
    BY <2>2, <2>5, OtherCaller
  <2>7. x \in DOMAIN crons' /\ crons'[x].enabled = on /\ crons'[x].disabled_reason = ~on
    <3> DEFINE e == crons[x]
               s == IF on THEN "enabled" ELSE "disabled"
               m == [e EXCEPT !.enabled = on, !.disabled_reason = ~on]
               v == Accepted(m, s)
    <3>1. e \in Cron /\ set_cron(x, v)
      BY <1>0, <1>3, <2>1 DEF set_enabled
    <3> HIDE DEF e
    <3>2. m \in Cron /\ m.enabled = on /\ m.disabled_reason = ~on
      BY <3>1 DEF Cron
    <3> HIDE DEF m, s
    <3>3. v.enabled = on /\ v.disabled_reason = ~on
      BY <3>2, CronShown
    <3> HIDE DEF v
    <3>4. x \in DOMAIN crons' /\ crons'[x] = v
      BY <3>1 DEF set_cron
    <3> QED BY <3>3, <3>4
  <2>8. CallerInv(c)'
    <3>1. /\ phase'[c] = "toggled" /\ tool'[c] = toggle_tool(on)
          /\ entry_id'[c] = x
      BY <1>0, <2>1 DEF ToolsTypeOK
    <3>2. TogglePending(c)'
      BY <1>0, <2>7, <3>1 DEF TogglePending
    <3>3. ToggleTold(c)' /\ FinalTold(c)'
      BY <3>1 DEF ToggleTold, FinalTold
    <3> QED BY <3>2, <3>3 DEF CallerInv
  <2>9. MembershipInv' /\ ShownTruthfully'
    BY MembershipStep, ShownStep DEF ToolInv
  <2> QED
    BY <2>4, <2>6, <2>8, <2>9 DEF ToolInv
<1> QED
  BY <1>1, <1>2, <1>3

(* The second half reads the entry that is there now.                      *)
LEMMA ToggleAnswerKeeps ==
  ASSUME ToolInv, NEW c \in Callers, toggle_answer(c)
  PROVE  ToolInv'
<1> DEFINE x == entry_id[c]
           r == IF x \notin DOMAIN crons THEN not_found
                ELSE ok(toggle_label(c), crons[x], ~disturbed[c])
<1>0. /\ x \in Nat /\ tool[c] \in ToolNames /\ disturbed[c] \in BOOLEAN
      /\ \A y \in DOMAIN crons : crons[y] \in Cron
      /\ ToolsTypeOK /\ CallerInv(c)
  BY DEF ToolInv, MembershipInv, TypeOK, ToolsTypeOK
<1>1. phase[c] = "toggled" /\ UNCHANGED vars /\ answers(c, tool[c], x, r)
  BY DEF toggle_answer
<1>2. /\ tool[c] \in {"CronEnable", "CronDisable"}
      /\ ~disturbed[c] => /\ crons[x].enabled = (tool[c] = "CronEnable")
                          /\ crons[x].disabled_reason = (tool[c] # "CronEnable")
  BY <1>0, <1>1 DEF CallerInv, TogglePending
<1>3. /\ toggle_label(c) \in {"enabled", "disabled"}
      /\ (toggle_label(c) = "enabled") = (tool[c] = "CronEnable")
  BY <1>2 DEF toggle_label
<1>4. /\ r \in Reply
      /\ r.is = "ok" => /\ r.label = toggle_label(c) /\ r.shown = crons[x]
                        /\ r.alone = ~disturbed[c]
  <2>1. CASE x \notin DOMAIN crons
    BY <2>1, PlainReplies
  <2>2. CASE x \in DOMAIN crons
    <3>1. crons[x] \in Cron /\ (~disturbed[c]) \in BOOLEAN
      BY <1>0, <2>2
    <3>2. /\ toggle_label(c) \in {"stopped", "deleted", "enabled", "disabled", "terminal", "timed_out"}
          /\ crons[x] \in Task \cup Team \cup Cron
      BY <1>3, <3>1
    <3>3. r = ok(toggle_label(c), crons[x], ~disturbed[c])
      BY <2>2
    <3> HIDE DEF r, x
    <3> QED BY <3>1, <3>2, <3>3 DEF ok, Reply
  <2> QED BY <2>1, <2>2
<1> HIDE DEF x, r
<1>5. r.is = "ok" => ToggleTold(c)' /\ FinalTold(c)'
  <2> SUFFICES ASSUME r.is = "ok" PROVE ToggleTold(c)' /\ FinalTold(c)'
    OBVIOUS
  <2>1. tool'[c] = tool[c] /\ reply'[c] = r
    BY <1>0, <1>1, <1>4, AnswerFacts
  <2>2. FinalTold(c)'
    BY <1>2, <2>1 DEF FinalTold
  <2>3. r.alone => /\ r.shown.enabled = (r.label = "enabled")
                   /\ r.shown.disabled_reason = ~r.shown.enabled
    BY <1>0, <1>2, <1>3, <1>4
  <2>4. ToggleTold(c)'
    BY <2>1, <2>3 DEF ToggleTold
  <2> QED BY <2>2, <2>4
<1> QED
  BY <1>0, <1>1, <1>4, <1>5, ReadKeeps

(* TaskWait: it ends with what it read, or polls on.                       *)
LEMMA TaskWaitKeeps ==
  ASSUME ToolInv, NEW c \in Callers, NEW t \in 1..MaxTasks, run_task_wait(c, t)
  PROVE  ToolInv'
<1>0. /\ t \in Nat /\ "TaskWait" \in ToolNames /\ ToolsTypeOK
      /\ tasks \in Seq(Task) /\ MembershipInv /\ ShownTruthfully
  BY DEF ToolInv, MembershipInv, TypeOK, ToolNames
<1>1. CASE ~exists(t)
  <2>1. UNCHANGED vars /\ answers(c, "TaskWait", t, not_found)
    BY <1>1 DEF run_task_wait
  <2> QED BY <1>0, <2>1, PlainReplies, ReadKeeps
<1>2. ASSUME exists(t), UNCHANGED vars, NEW l \in {"terminal", "timed_out"},
             l = "terminal" => terminal(tasks[t].status),
             answers(c, "TaskWait", t, ok(l, tasks[t], TRUE))
      PROVE  ToolInv'
  <2> DEFINE r == ok(l, tasks[t], TRUE)
  <2>1. tasks[t] \in Task
    <3>1. t \in 1..Len(tasks) BY <1>2 DEF exists
    <3>2. tasks \in Seq(Task) BY <1>0
    <3> HIDE DEF r
    <3> QED BY <3>1, <3>2
  <2>2. r \in Reply /\ r.label = l /\ r.shown = tasks[t] /\ r.is = "ok"
    <3>1. l \in {"stopped", "deleted", "enabled", "disabled", "terminal", "timed_out"}
      OBVIOUS
    <3>2. tasks[t] \in Task \cup Team \cup Cron BY <2>1
    <3> QED BY <3>1, <3>2 DEF ok, Reply
  <2> HIDE DEF r
  <2>3. tool'[c] = "TaskWait" /\ entry_id'[c] = t /\ reply'[c] = r
    <3>1. answers(c, "TaskWait", t, r) BY <1>2 DEF r
    <3> QED BY <1>0, <2>2, <3>1, AnswerFacts
  <2>4. tasks' = tasks
    BY <1>2 DEF vars, registries
  <2>5. ToggleTold(c)' /\ FinalTold(c)'
    BY <1>2, <2>2, <2>3, <2>4 DEF ToggleTold, FinalTold, exists, terminal
  <2> QED
    BY <1>0, <1>2, <2>2, <2>5, ReadKeeps DEF r
<1>3. ASSUME phase' = [phase EXCEPT ![c] = "polling"],
             tool' = [tool EXCEPT ![c] = "TaskWait"],
             entry_id' = [entry_id EXCEPT ![c] = t],
             polls' = [polls EXCEPT ![c] = @ + 1],
             disturbed' = [disturbed EXCEPT ![c] = FALSE],
             UNCHANGED <<vars, reply>>
      PROVE  ToolInv'
  <2>1. ToolsTypeOK'
    BY <1>0, <1>3 DEF ToolsTypeOK
  <2>2. Steady /\ CronsElsewhere(0) /\ crons' = crons
    BY <1>0, <1>3, SteadyWhenUnchanged DEF CronsElsewhere, vars, registries
  <2>3. \A d \in Callers \ {c} : SameFor(d) /\ Noticed(d, 0)
    BY <1>0, <1>3, <2>2 DEF ToolsTypeOK, SameFor, Noticed
  <2>4. \A d \in Callers \ {c} : CallerInv(d)'
    BY <2>2, <2>3, OtherCaller
  <2>5. phase'[c] = "polling"
    BY <1>0, <1>3 DEF ToolsTypeOK
  <2>6. CallerInv(c)'
    BY <2>5 DEF CallerInv, TogglePending, ToggleTold, FinalTold
  <2>7. MembershipInv' /\ ShownTruthfully'
    BY <1>0, <1>3, MembershipStep, ShownStep
  <2> QED
    BY <2>1, <2>4, <2>6, <2>7 DEF ToolInv
<1> QED
  <2>1. CASE exists(t)
    BY <1>2, <1>3, <2>1 DEF run_task_wait
  <2> QED BY <1>1, <2>1

(* The tools whose answers promise nothing.                                *)
LEMMA PlainToolsKeep ==
  ASSUME ToolInv, [Next]_vars, NEW c \in Callers,
         \/ run_task_create(c) \/ run_task_list(c) \/ run_team_list(c)
         \/ run_cron_create(c) \/ run_cron_list(c)
         \/ \E t \in 1..MaxTasks : \/ run_task_get(c, t) \/ run_task_update(c, t)
                                   \/ run_task_output(c, t)
         \/ \E x \in 1..MaxTasks : run_team_get(c, x)
         \/ \E x \in 1..MaxCrons : run_cron_get(c, x)
  PROVE  ToolInv'
<1>0. /\ MembershipInv /\ Len(tasks) + 1 \in Nat /\ cron_counter + 1 \in Nat
      /\ 0 \in Nat /\ 1..MaxTasks \subseteq Nat /\ 1..MaxCrons \subseteq Nat
  BY DEF ToolInv, MembershipInv, TypeOK
<1>1. CASE run_task_create(c)
  <2>1. Steady /\ UNCHANGED crons /\ answers(c, "TaskCreate", Len(tasks) + 1, read)
    BY <1>0, <1>1, SteadyTaskTools DEF run_task_create, create_task
  <2>2. CronsElsewhere(Len(tasks) + 1) /\ "TaskCreate" \in ToolNames
    BY <2>1 DEF CronsElsewhere, ToolNames
  <2> QED BY <1>0, <2>1, <2>2, PlainReplies, AnswerKeeps
<1>2. CASE run_cron_create(c)
  <2>1. /\ Steady /\ CronsElsewhere(cron_counter + 1)
        /\ answers(c, "CronCreate", cron_counter + 1, read)
    BY <1>0, <1>2, SteadyCrons DEF run_cron_create
  <2>2. "CronCreate" \in ToolNames BY DEF ToolNames
  <2> QED BY <1>0, <2>1, <2>2, PlainReplies, AnswerKeeps
<1>3. ASSUME NEW t \in 1..MaxTasks, run_task_update(c, t), exists(t)
      PROVE  ToolInv'
  <2>1. Steady /\ UNCHANGED crons /\ answers(c, "TaskUpdate", t, read)
    BY <1>0, <1>3, SteadyTaskTools DEF run_task_update, update
  <2>2. CronsElsewhere(t) /\ "TaskUpdate" \in ToolNames
    BY <2>1 DEF CronsElsewhere, ToolNames
  <2> QED BY <1>0, <2>1, <2>2, PlainReplies, AnswerKeeps
<1>4. ASSUME UNCHANGED vars, NEW n \in ToolNames, NEW x \in Nat,
             answers(c, n, x, read) \/ answers(c, n, x, not_found)
      PROVE  ToolInv'
  BY <1>4, PlainReplies, ReadKeeps
<1>5. ASSUME NEW t \in 1..MaxTasks, run_task_update(c, t), ~exists(t)
      PROVE  ToolInv'
  <2>1. UNCHANGED vars /\ answers(c, "TaskUpdate", t, not_found)
    BY <1>5 DEF run_task_update
  <2>2. "TaskUpdate" \in ToolNames BY DEF ToolNames
  <2> QED BY <1>0, <1>4, <2>1, <2>2
<1>6. CASE run_task_list(c) \/ run_team_list(c) \/ run_cron_list(c)
  <2>1. UNCHANGED vars /\ \E n \in {"TaskList", "TeamList", "CronList"} : answers(c, n, 0, read)
    BY <1>6 DEF run_task_list, run_team_list, run_cron_list
  <2>2. {"TaskList", "TeamList", "CronList"} \subseteq ToolNames BY DEF ToolNames
  <2> QED BY <1>0, <1>4, <2>1, <2>2
<1>7. ASSUME NEW x \in Nat,
             \/ run_task_get(c, x) \/ run_task_output(c, x)
             \/ run_team_get(c, x) \/ run_cron_get(c, x)
      PROVE  ToolInv'
  <2>1. /\ UNCHANGED vars
        /\ \E n \in {"TaskGet", "TaskOutput", "TeamGet", "CronGet"} :
             answers(c, n, x, read) \/ answers(c, n, x, not_found)
    BY <1>7 DEF run_task_get, run_task_output, run_team_get, run_cron_get
  <2>2. {"TaskGet", "TaskOutput", "TeamGet", "CronGet"} \subseteq ToolNames BY DEF ToolNames
  <2> QED BY <1>4, <2>1, <2>2
<1> QED
  BY <1>0, <1>1, <1>2, <1>3, <1>5, <1>6, <1>7

(* A step of a team creation undoes no answer.                             *)
LEMMA CreationsKeepAnswers ==
  ASSUME ToolInv, [Next]_vars, Steady, UNCHANGED <<crons, local>>
  PROVE  ToolInv'
<1>1. /\ ToolsTypeOK' /\ CronsElsewhere(0)
      /\ \A d \in Callers : SameFor(d) /\ Noticed(d, 0)
  BY DEF ToolInv, ToolsTypeOK, CronsElsewhere, SameFor, Noticed, local
<1>2. \A d \in Callers : CallerInv(d)'
  BY <1>1, OtherCaller
<1>3. MembershipInv' /\ ShownTruthfully'
  BY MembershipStep, ShownStep DEF ToolInv
<1> QED
  BY <1>1, <1>2, <1>3 DEF ToolInv

LEMMA ToolStep == ToolInv /\ [ToolsNext]_toolVars => ToolInv'
<1> SUFFICES ASSUME ToolInv, [ToolsNext]_toolVars PROVE ToolInv'
  OBVIOUS
<1>0. [Next]_vars /\ MembershipInv
  BY ToolsStepRegistries DEF ToolInv
<1>1. ASSUME NEW c \in Callers,
             \/ run_task_create(c) \/ run_task_list(c) \/ run_team_list(c)
             \/ run_cron_create(c) \/ run_cron_list(c)
             \/ \E t \in 1..MaxTasks : \/ run_task_get(c, t) \/ run_task_stop(c, t)
                                       \/ run_task_update(c, t) \/ run_task_output(c, t)
             \/ \E x \in 1..MaxTasks : run_team_get(c, x) \/ run_team_delete(c, x)
             \/ \E x \in 1..MaxCrons : \/ run_cron_get(c, x) \/ run_cron_delete(c, x)
                                       \/ \E on \in BOOLEAN : run_cron_toggle(c, x, on)
      PROVE  ToolInv'
  BY <1>0, <1>1, PlainToolsKeep, TaskStopKeeps, TeamDeleteKeeps, CronDeleteKeeps,
     ToggleKeeps
<1>2. ASSUME NEW c \in Callers, NEW t \in 1..MaxTasks, run_task_wait(c, t)
      PROVE  ToolInv'
  BY <1>2, TaskWaitKeeps
<1>3. ASSUME NEW c \in Callers, toggle_answer(c)
      PROVE  ToolInv'
  BY <1>3, ToggleAnswerKeeps
<1>4. ASSUME NEW c \in Creators, extract_team_task_ids(c) \/ CreateStep(c),
             UNCHANGED local
      PROVE  ToolInv'
  BY <1>0, <1>4, SteadyCreations, CreationsKeepAnswers
<1>5. CASE UNCHANGED toolVars
  <2>1. UNCHANGED vars /\ UNCHANGED <<crons, local>>
    BY <1>5 DEF toolVars, vars, registries
  <2> QED BY <1>0, <2>1, SteadyWhenUnchanged, CreationsKeepAnswers
<1> QED
  BY <1>1, <1>2, <1>3, <1>4, <1>5 DEF ToolsNext

(* What the Task, Team and Cron tools answer holds, for any number of      *)
(* callers and team creations: a toggle is as it was told unless somebody  *)
(* interfered between its two calls, and what was final stays so           *)
(* (run_cron_enable, run_task_stop, run_task_wait, run_team_delete).       *)
THEOREM ToolAnswers == ToolsSpec => []ToolAnswersHold
<1>1. ToolsInit => ToolInv
  <2> SUFFICES ASSUME ToolsInit PROVE ToolInv
    OBVIOUS
  <2>1. MembershipInv /\ ShownTruthfully
    BY MembershipInit DEF ToolsInit, Init, ShownTruthfully
  <2>2. ToolsTypeOK
    BY DEF ToolsInit, ToolsTypeOK, ToolNames, Reply
  <2>3. \A c \in Callers : phase[c] = "ready" /\ reply[c].is # "ok"
    BY DEF ToolsInit, NoReply
  <2>4. \A c \in Callers : CallerInv(c)
    BY <2>3 DEF CallerInv, TogglePending, ToggleTold, FinalTold
  <2> QED BY <2>1, <2>2, <2>4 DEF ToolInv
<1>2. ToolInv => ToolAnswersHold
  BY DEF ToolInv, CallerInv, ToggleTold, FinalTold, ToolAnswersHold,
         ToggleTruthful, FinalAnswersHold
<1> QED
  BY <1>1, <1>2, ToolStep, PTL DEF ToolsSpec
=============================================================================
