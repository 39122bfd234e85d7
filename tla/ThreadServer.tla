---------------------------- MODULE ThreadServer ----------------------------
(***************************************************************************)
(* The thread server around its threads (AppState in                       *)
(* crates/server/src/lib.rs): creating threads while others run, the two   *)
(* id counters all handlers share, and AppState::load_for_cwd, which reads *)
(* the rows of the store one by one after a restart and derives the        *)
(* counters from them. A thread is what ThreadLifecycle shows of it: its   *)
(* status and run id in memory, and the same columns of its row.           *)
(***************************************************************************)
EXTENDS Naturals, TLC

CONSTANTS Creates,        \* POST /v1/threads and POST /sessions requests
          Turns,          \* POST /v1/threads/{id}/turns requests
          MaxCrashes,     \* bound on crashes of the process
          MaxStoreFaults  \* bound on failing upserts

ASSUME ServerAssumption ==
  /\ Creates \cap Turns = {}
  /\ MaxCrashes \in Nat /\ MaxStoreFaults \in Nat

VARIABLES up,             \* the process serves requests
          threads,        \* AppState.threads, by the number in thread-N
          store,          \* the rows of the SQLite store
          next_thread_id, next_run_id,  \* AppState's counters
          max_thread_id, max_run_id,    \* load_for_cwd's locals
          pc,             \* where each request's handler is
          thread_id,      \* the thread of a request
          run_id,         \* the run of a turn
          crashes, faults

counters == <<next_thread_id, next_run_id>>
maxima == <<max_thread_id, max_run_id>>
requests == <<pc, thread_id, run_id>>
vars == <<up, threads, store, counters, maxima, requests, crashes, faults>>

Requests == Creates \cup Turns
Kinds == {"idle", "running", "awaiting_user_input", "interrupted"}
Thread == [kind : Kinds, run : Nat]
PCs == {"new", "allocated", "configured", "stored", "begun", "refused",
        "done"}
IsMap(f) == DOMAIN f \subseteq Nat /\ \A x \in DOMAIN f : f[x] \in Thread

TypeOK ==
  /\ up \in BOOLEAN
  /\ IsMap(threads) /\ IsMap(store)
  /\ next_thread_id \in Nat \ {0} /\ next_run_id \in Nat \ {0}
  /\ max_thread_id \in Nat /\ max_run_id \in Nat
  /\ pc \in [Requests -> PCs]
  /\ thread_id \in [Requests -> Nat]
  /\ run_id \in [Requests -> Nat]
  /\ crashes \in 0..MaxCrashes /\ faults \in 0..MaxStoreFaults

NoThreads == [x \in {} |-> [kind |-> "idle", run |-> 0]]

Init ==
  /\ up = TRUE
  /\ threads = NoThreads /\ store = NoThreads
  /\ next_thread_id = 1 /\ next_run_id = 1
  /\ max_thread_id = 0 /\ max_run_id = 0
  /\ pc = [q \in Requests |-> "new"]
  /\ thread_id = [q \in Requests |-> 0]
  /\ run_id = [q \in Requests |-> 0]
  /\ crashes = 0 /\ faults = 0

-----------------------------------------------------------------------------
Put(f, x, v) == [y \in DOMAIN f \cup {x} |-> IF y = x THEN v ELSE f[y]]

Idle == [kind |-> "idle", run |-> 0]
Running(r) == [kind |-> "running", run |-> r]
AwaitingUserInput(r) == [kind |-> "awaiting_user_input", run |-> r]
Interrupted(r) == [kind |-> "interrupted", run |-> r]

upsert_fails == /\ faults < MaxStoreFaults
                /\ faults' = faults + 1
                /\ UNCHANGED store

goto(q, l) == pc' = [pc EXCEPT ![q] = l]

(* create_thread and create_session: take an id, resolve the config, which *)
(* may fail, store the new thread, which may fail, insert it.              *)
allocate_thread_id(c) ==
  /\ up /\ pc[c] = "new"
  /\ thread_id' = [thread_id EXCEPT ![c] = next_thread_id]
  /\ next_thread_id' = next_thread_id + 1
  /\ goto(c, "allocated")
  /\ UNCHANGED <<up, threads, store, next_run_id, maxima, run_id, crashes,
                 faults>>

resolve_thread_config(c) ==
  /\ pc[c] = "allocated"
  /\ goto(c, "configured") \/ goto(c, "refused")
  /\ UNCHANGED <<up, threads, store, counters, maxima, thread_id, run_id,
                 crashes, faults>>

(* Mutant: the thread exists in memory only.                               *)
new_thread_unsaved(c) ==
  /\ pc[c] = "configured"
  /\ goto(c, "stored")
  /\ UNCHANGED <<up, threads, store, counters, maxima, thread_id, run_id,
                 crashes, faults>>

new_thread(c) ==
  /\ pc[c] = "configured"
  /\ \/ /\ store' = Put(store, thread_id[c], Idle)
        /\ goto(c, "stored")
        /\ UNCHANGED faults
     \/ upsert_fails /\ goto(c, "refused")
  /\ UNCHANGED <<up, threads, counters, maxima, thread_id, run_id, crashes>>

insert_thread(c) ==
  /\ pc[c] = "stored"
  /\ threads' = Put(threads, thread_id[c], Idle)
  /\ goto(c, "done")
  /\ UNCHANGED <<up, store, counters, maxima, thread_id, run_id, crashes,
                 faults>>

(* start_thread_turn: find the thread, take a run id; then start_turn.     *)
start_thread_turn(t) ==
  /\ up /\ pc[t] = "new"
  /\ \E x \in DOMAIN threads : thread_id' = [thread_id EXCEPT ![t] = x]
  /\ run_id' = [run_id EXCEPT ![t] = next_run_id]
  /\ next_run_id' = next_run_id + 1
  /\ goto(t, "begun")
  /\ UNCHANGED <<up, threads, store, next_thread_id, maxima, crashes, faults>>

(* The record of thread x is set to v and stored.                          *)
Save(x, v) == /\ threads' = Put(threads, x, v)
              /\ store' = Put(store, x, v)
              /\ UNCHANGED faults

start_turn(t) ==
  LET x == thread_id[t]
      at_rest == threads[x].kind \in {"idle", "interrupted"}
  IN /\ pc[t] = "begun"
     /\ \/ at_rest /\ Save(x, Running(run_id[t])) /\ goto(t, "done")
        \/ at_rest /\ upsert_fails /\ goto(t, "refused")
                   /\ UNCHANGED threads
        \/ ~at_rest /\ goto(t, "refused")
                    /\ UNCHANGED <<threads, store, faults>>
     /\ UNCHANGED <<up, counters, maxima, thread_id, run_id, crashes>>

(* An accepted reply goes on with the run that asked.                      *)
submit_user_input(x) ==
  /\ up /\ x \in DOMAIN threads
  /\ threads[x].kind = "awaiting_user_input"
  /\ \/ Save(x, Running(threads[x].run))
     \/ upsert_fails /\ UNCHANGED threads
  /\ UNCHANGED <<up, counters, maxima, requests, crashes>>

complete_run(x) ==
  /\ up /\ x \in DOMAIN threads /\ threads[x].kind = "running"
  /\ \E v \in {Idle, AwaitingUserInput(threads[x].run)} :
       \/ Save(x, v)
       \/ upsert_fails /\ threads' = Put(threads, x, v)
  /\ UNCHANGED <<up, counters, maxima, requests, crashes>>

-----------------------------------------------------------------------------
Crash ==
  /\ up /\ crashes < MaxCrashes
  /\ up' = FALSE
  /\ crashes' = crashes + 1
  /\ threads' = NoThreads
  /\ next_thread_id' = 1 /\ next_run_id' = 1
  /\ max_thread_id' = 0 /\ max_run_id' = 0
  /\ pc' = [q \in Requests |->
              IF pc[q] \in {"new", "done"} THEN pc[q] ELSE "refused"]
  /\ UNCHANGED <<store, thread_id, run_id, faults>>

(* thread_inner_from_persisted: a run in progress is shown as interrupted. *)
recovered(p) == IF p.kind = "running" THEN Interrupted(p.run) ELSE p

(* Mutant: the last row decides.                                           *)
max_last(a, b) == b

max(a, b) == IF a >= b THEN a ELSE b

(* One round of load_for_cwd's loop.                                       *)
load_row(x) ==
  LET p == recovered(store[x]) IN
  /\ ~up /\ x \in DOMAIN store \ DOMAIN threads
  /\ max_thread_id' = max(max_thread_id, x)
  /\ max_run_id' = max(max_run_id, store[x].run)
  /\ threads' = Put(threads, x, p)
  /\ store' = Put(store, x, p)
  /\ UNCHANGED <<up, counters, requests, crashes, faults>>

(* A row that cannot be rewritten ends the start; the next one begins      *)
(* afresh.                                                                 *)
load_fails(x) ==
  /\ ~up /\ x \in DOMAIN store \ DOMAIN threads
  /\ recovered(store[x]) # store[x]
  /\ upsert_fails
  /\ threads' = NoThreads
  /\ max_thread_id' = 0 /\ max_run_id' = 0
  /\ UNCHANGED <<up, counters, requests, crashes>>

(* Mutant: the counter goes on with the highest id in use.                 *)
saturating_next_same(n) == n

saturating_next(n) == n + 1

load_ends ==
  /\ ~up /\ DOMAIN threads = DOMAIN store
  /\ up' = TRUE
  /\ next_thread_id' = saturating_next(max_thread_id)
  /\ next_run_id' = saturating_next(max_run_id)
  /\ UNCHANGED <<threads, store, maxima, requests, crashes, faults>>

Quiet == /\ up /\ \A q \in Requests : pc[q] \in {"new", "refused", "done"}
         /\ UNCHANGED vars

Handle(q) ==
  \/ /\ q \in Creates
     /\ \/ allocate_thread_id(q) \/ resolve_thread_config(q)
        \/ new_thread(q) \/ insert_thread(q)
  \/ q \in Turns /\ (start_thread_turn(q) \/ start_turn(q))

Next ==
  \/ \E q \in Requests : Handle(q)
  \/ \E x \in DOMAIN threads : submit_user_input(x) \/ complete_run(x)
  \/ Crash
  \/ \E x \in DOMAIN store : load_row(x) \/ load_fails(x)
  \/ load_ends
  \/ Quiet

Spec == Init /\ [][Next]_vars

-----------------------------------------------------------------------------
(* The id a creation has taken belongs to nobody else: neither to another  *)
(* creation nor to a thread that exists, in memory or in the store,        *)
(* however often the counters were derived from the rows again. (The       *)
(* upsert and the insert would replace that thread without a word.)        *)
CreationsFresh ==
  \A c \in Creates :
    /\ pc[c] \in {"allocated", "configured", "stored"} =>
         /\ thread_id[c] \notin DOMAIN threads
         /\ \A d \in Creates \ {c} :
              pc[d] \in {"allocated", "configured", "stored"} =>
                thread_id[d] # thread_id[c]
    /\ pc[c] \in {"allocated", "configured"} =>
         thread_id[c] \notin DOMAIN store

(* A thread that was acknowledged exists from then on, in the store and,   *)
(* while the server is up, in memory: no failed or repeated start and no   *)
(* later creation loses it.                                                *)
CreatedThreadsKept ==
  \A c \in Creates :
    pc[c] = "done" => /\ thread_id[c] \in DOMAIN store
                      /\ up => thread_id[c] \in DOMAIN threads

(* The runs thread x shows in memory and would show after a restart.       *)
RunsOf(memory, rows, x) ==
  {rows[x].run} \cup (IF x \in DOMAIN memory THEN {memory[x].run} ELSE {})
Carried(x) == RunsOf(threads, store, x)

(* Two threads never carry the same run: run ids come from one counter     *)
(* that a restart derives from rows in which an idle thread's last run is  *)
(* missing, so that ids are reused, but never one a thread still shows or  *)
(* would show after a restart, or a turn under way has taken.              *)
RunsDistinct ==
  /\ \A x, y \in DOMAIN store :
       x # y => \A r \in Carried(x) : r = 0 \/ r \notin Carried(y)
  /\ \A t \in Turns : pc[t] = "begun" =>
       /\ \A x \in DOMAIN store : run_id[t] \notin Carried(x)
       /\ \A u \in Turns \ {t} : pc[u] = "begun" => run_id[u] # run_id[t]

(* Why: while up, the counters are beyond every id in use.                 *)
Counting ==
  up => /\ \A x \in DOMAIN store : /\ x < next_thread_id
                                   /\ \A r \in Carried(x) : r < next_run_id
        /\ \A c \in Creates :
             pc[c] \in {"allocated", "configured", "stored"} =>
               thread_id[c] < next_thread_id
        /\ \A t \in Turns :
             pc[t] = "begun" => run_id[t] \in 1..(next_run_id - 1)

(* While a start is under way nobody is served, and the maxima cover the   *)
(* rows read so far.                                                       *)
Loading ==
  ~up => /\ \A q \in Requests : pc[q] \in {"new", "refused", "done"}
         /\ \A x \in DOMAIN threads : /\ x <= max_thread_id
                                      /\ threads[x].run <= max_run_id
                                      /\ store[x].run = threads[x].run

(* Every thread in memory has a row, every creation its row once stored,   *)
(* every turn under way its thread.                                        *)
Known ==
  /\ DOMAIN threads \subseteq DOMAIN store
  /\ \A c \in Creates : pc[c] = "stored" => thread_id[c] \in DOMAIN store
  /\ \A t \in Turns : pc[t] = "begun" => thread_id[t] \in DOMAIN threads

(* The three properties above, with what makes them inductive: the ids in  *)
(* use never catch up with the counters, across any number of restarts.    *)
IdInv == /\ CreationsFresh /\ CreatedThreadsKept /\ RunsDistinct
         /\ Counting /\ Loading /\ Known

(* For TLC: creations are interchangeable, and so are turns.               *)
Symmetric == Permutations(Creates) \cup Permutations(Turns)
=============================================================================
