------------------------- MODULE ThreadServerProofs -------------------------
(***************************************************************************)
(* The ids of the thread server, proved for any numbers of creations,      *)
(* turns, crashes and store faults: IdInv is inductive together with       *)
(* TypeOK.                                                                 *)
(***************************************************************************)
EXTENDS ThreadServer, TLAPS

(* What Put maps.                                                          *)
LEMMA PutFacts ==
  ASSUME NEW f, NEW x, NEW v
  PROVE  /\ DOMAIN Put(f, x, v) = DOMAIN f \cup {x}
         /\ Put(f, x, v)[x] = v
         /\ \A y \in DOMAIN f : y # x => Put(f, x, v)[y] = f[y]
BY DEF Put

(* Putting a thread into a map of threads leaves a map of threads.         *)
LEMMA PutType ==
  ASSUME NEW f, IsMap(f), NEW x \in Nat, NEW v \in Thread
  PROVE  IsMap(Put(f, x, v))
<1> DEFINE g == Put(f, x, v)
<1>1. /\ DOMAIN g = DOMAIN f \cup {x}
      /\ g[x] = v
      /\ \A y \in DOMAIN f : y # x => g[y] = f[y]
  BY DEF Put
<1> HIDE DEF g
<1>2. DOMAIN g \subseteq Nat /\ \A y \in DOMAIN g : g[y] \in Thread
  BY <1>1 DEF IsMap
<1> QED
  BY <1>2 DEF IsMap, g

(* The constructors build threads.                                         *)
LEMMA ThreadTypes ==
  ASSUME NEW r \in Nat
  PROVE  /\ Idle \in Thread /\ Running(r) \in Thread
         /\ AwaitingUserInput(r) \in Thread /\ Interrupted(r) \in Thread
         /\ Idle.run = 0 /\ Running(r).run = r
         /\ AwaitingUserInput(r).run = r /\ Interrupted(r).run = r
BY DEF Idle, Running, AwaitingUserInput, Interrupted, Thread, Kinds

(* No threads are a map of threads.                                        *)
LEMMA NoThreadsFacts == IsMap(NoThreads) /\ DOMAIN NoThreads = {}
BY DEF NoThreads, IsMap

(* What recovery makes of a row is a thread with the run of the row.       *)
LEMMA RecoveredFacts ==
  ASSUME NEW p \in Thread
  PROVE  recovered(p) \in Thread /\ recovered(p).run = p.run
BY ThreadTypes DEF recovered, Thread

-----------------------------------------------------------------------------
(* Every step keeps the types.                                             *)
LEMMA TypeNext ==
  ASSUME TypeOK, [Next]_vars
  PROVE  TypeOK'
<1> USE ServerAssumption
<1>0. \A x \in DOMAIN threads : x \in Nat /\ threads[x] \in Thread
                                /\ threads[x].run \in Nat
  BY DEF TypeOK, IsMap, Thread
<1>00. \A x \in DOMAIN store : x \in Nat /\ store[x] \in Thread
                               /\ store[x].run \in Nat
  BY DEF TypeOK, IsMap, Thread
<1>1. ASSUME NEW q \in Requests, Handle(q) PROVE TypeOK'
  <2>1. CASE allocate_thread_id(q)
    BY <2>1 DEF allocate_thread_id, goto, TypeOK, PCs, maxima, counters
  <2>2. CASE resolve_thread_config(q)
    BY <2>2 DEF resolve_thread_config, goto, TypeOK, PCs, maxima, counters
  <2>3. CASE new_thread(q)
    <3>1. IsMap(store')
      <4>1. thread_id[q] \in Nat /\ Idle \in Thread /\ IsMap(store)
        BY ThreadTypes DEF TypeOK
      <4>2. store' = Put(store, thread_id[q], Idle) \/ store' = store
        BY <2>3 DEF new_thread, upsert_fails
      <4> QED
        BY <4>1, <4>2, PutType
    <3>2. faults' \in 0..MaxStoreFaults
      BY <2>3 DEF new_thread, upsert_fails, TypeOK
    <3>3. pc' \in [Requests -> PCs]
      BY <2>3 DEF new_thread, goto, TypeOK, PCs
    <3>4. UNCHANGED <<up, threads, counters, maxima, thread_id, run_id,
                      crashes>>
      BY <2>3 DEF new_thread
    <3> QED
      BY <3>1, <3>2, <3>3, <3>4 DEF TypeOK, counters, maxima
  <2>4. CASE insert_thread(q)
    <3>1. IsMap(threads')
      <4>1. thread_id[q] \in Nat /\ Idle \in Thread /\ IsMap(threads)
        BY ThreadTypes DEF TypeOK
      <4>2. threads' = Put(threads, thread_id[q], Idle)
        BY <2>4 DEF insert_thread
      <4> QED
        BY <4>1, <4>2, PutType
    <3>2. pc' \in [Requests -> PCs]
      BY <2>4 DEF insert_thread, goto, TypeOK, PCs
    <3>3. UNCHANGED <<up, store, counters, maxima, thread_id, run_id,
                      crashes, faults>>
      BY <2>4 DEF insert_thread
    <3> QED
      BY <3>1, <3>2, <3>3 DEF TypeOK, counters, maxima
  <2>5. CASE start_thread_turn(q)
    BY <1>0, <2>5 DEF start_thread_turn, goto, TypeOK, PCs, maxima
  <2>6. CASE start_turn(q)
    <3>1. /\ \/ UNCHANGED <<threads, store>>
             \/ /\ threads' = Put(threads, thread_id[q], Running(run_id[q]))
                /\ store' = Put(store, thread_id[q], Running(run_id[q]))
          /\ faults' \in {faults, faults + 1}
          /\ faults' # faults => faults < MaxStoreFaults
          /\ \E l \in PCs : pc' = [pc EXCEPT ![q] = l]
          /\ UNCHANGED <<up, counters, maxima, thread_id, run_id, crashes>>
      BY <2>6 DEF start_turn, Save, upsert_fails, goto, PCs
    <3>2. thread_id[q] \in Nat /\ Running(run_id[q]) \in Thread
          /\ IsMap(threads) /\ IsMap(store)
      BY ThreadTypes DEF TypeOK
    <3>3. IsMap(threads') /\ IsMap(store')
      BY <3>1, <3>2, PutType
    <3>4. pc' \in [Requests -> PCs] /\ faults' \in 0..MaxStoreFaults
      BY <3>1 DEF TypeOK
    <3> QED
      BY <3>1, <3>3, <3>4 DEF TypeOK, counters, maxima
  <2> QED
    BY <1>1, <2>1, <2>2, <2>3, <2>4, <2>5, <2>6 DEF Handle
<1>2. ASSUME NEW x \in DOMAIN threads, submit_user_input(x) \/ complete_run(x)
      PROVE  TypeOK'
  <2>1. /\ \/ UNCHANGED <<threads, store>>
           \/ \E v \in {Idle, Running(threads[x].run),
                        AwaitingUserInput(threads[x].run)} :
                /\ threads' = Put(threads, x, v)
                /\ store' \in {store, Put(store, x, v)}
        /\ faults' \in {faults, faults + 1}
        /\ faults' # faults => faults < MaxStoreFaults
        /\ UNCHANGED <<up, counters, maxima, requests, crashes>>
    BY <1>2 DEF submit_user_input, complete_run, Save, upsert_fails
  <2>2. IsMap(threads) /\ IsMap(store) /\ x \in Nat
    BY <1>0 DEF TypeOK
  <2>3. {Idle, Running(threads[x].run), AwaitingUserInput(threads[x].run)}
          \subseteq Thread
    BY <1>0, ThreadTypes
  <2>4. IsMap(threads') /\ IsMap(store')
    BY <2>1, <2>2, <2>3, PutType
  <2> QED
    BY <2>1, <2>4 DEF TypeOK, counters, maxima, requests
<1>3. CASE Crash
  <2>1. pc' \in [Requests -> PCs]
    BY <1>3 DEF Crash, TypeOK, PCs
  <2>2. IsMap(threads')
    BY <1>3, NoThreadsFacts DEF Crash
  <2>3. crashes' \in 0..MaxCrashes
    BY <1>3 DEF Crash, TypeOK
  <2>4. /\ up' \in BOOLEAN
        /\ next_thread_id' = 1 /\ next_run_id' = 1
        /\ max_thread_id' = 0 /\ max_run_id' = 0
        /\ UNCHANGED <<store, thread_id, run_id, faults>>
    BY <1>3 DEF Crash
  <2> QED
    BY <2>1, <2>2, <2>3, <2>4 DEF TypeOK
<1>4. ASSUME NEW x \in DOMAIN store, load_row(x) PROVE TypeOK'
  <2>1. x \in Nat /\ recovered(store[x]) \in Thread /\ store[x].run \in Nat
    BY <1>00, RecoveredFacts
  <2>2. IsMap(threads') /\ IsMap(store')
    BY <1>4, <2>1, PutType DEF load_row, TypeOK
  <2>3. max_thread_id' \in Nat /\ max_run_id' \in Nat
    BY <1>4, <2>1 DEF load_row, max, TypeOK
  <2>4. UNCHANGED <<up, counters, requests, crashes, faults>>
    BY <1>4 DEF load_row
  <2> QED
    BY <2>2, <2>3, <2>4 DEF TypeOK, counters, requests
<1>5. ASSUME NEW x \in DOMAIN store, load_fails(x) PROVE TypeOK'
  BY <1>5, NoThreadsFacts
  DEF load_fails, upsert_fails, TypeOK, counters, requests
<1>6. CASE load_ends
  BY <1>6 DEF load_ends, saturating_next, TypeOK, maxima, requests
<1>7. CASE UNCHANGED vars
  BY <1>7 DEF vars, TypeOK, counters, maxima, requests
<1> QED
  BY <1>1, <1>2, <1>3, <1>4, <1>5, <1>6, <1>7 DEF Next, Quiet

(* All state keeps its type.                                               *)
THEOREM ServerTypeCorrect == Spec => []TypeOK
<1>1. Init => TypeOK
  BY ServerAssumption, NoThreadsFacts DEF Init, TypeOK, PCs
<1> QED
  BY <1>1, TypeNext, PTL DEF Spec

-----------------------------------------------------------------------------
(* The runs a thread carries.                                              *)
LEMMA RunsOfFacts ==
  ASSUME NEW f, NEW g, NEW x, NEW r
  PROVE  r \in RunsOf(f, g, x) <=>
           r = g[x].run \/ (x \in DOMAIN f /\ r = f[x].run)
BY DEF RunsOf

(* RunsDistinct survives a step in which no thread carries a run it did    *)
(* not carry before, and no turn begins.                                   *)
LEMMA RunsShrink ==
  ASSUME RunsDistinct,
         \A x \in DOMAIN store' : \A r \in RunsOf(threads', store', x) :
           r = 0 \/ (x \in DOMAIN store /\ r \in RunsOf(threads, store, x)),
         \A t \in Turns : pc'[t] = "begun" =>
           pc[t] = "begun" /\ run_id'[t] = run_id[t] /\ run_id[t] # 0
  PROVE  RunsDistinct'
BY DEF RunsDistinct, Carried

(* The runs stay below the counter in such a step.                         *)
LEMMA RunsCounted ==
  ASSUME Counting, up, next_run_id \in Nat \ {0}, UNCHANGED next_run_id,
         \A x \in DOMAIN store' : \A r \in RunsOf(threads', store', x) :
           r = 0 \/ (x \in DOMAIN store /\ r \in RunsOf(threads, store, x))
  PROVE  \A x \in DOMAIN store' : \A r \in RunsOf(threads', store', x) :
           r < next_run_id'
BY DEF Counting, Carried

(* A turn under way has a run.                                             *)
LEMMA BegunRuns ==
  ASSUME TypeOK, IdInv, NEW t \in Turns, pc[t] = "begun"
  PROVE  up /\ run_id[t] # 0 /\ run_id[t] \in Nat
BY DEF TypeOK, IdInv, Counting, Loading, Requests

Taken(l) == l \in {"allocated", "configured", "stored"}

(* A step that only moves request q on, to a refusal or from a new id to a *)
(* configuration.                                                          *)
LEMMA MoveSafe ==
  ASSUME TypeOK, IdInv, NEW q \in Requests, NEW l \in PCs,
         pc' = [pc EXCEPT ![q] = l],
         l = "refused" \/ (l = "configured" /\ pc[q] = "allocated"),
         UNCHANGED <<up, threads, store, counters, maxima, thread_id, run_id>>
  PROVE  IdInv'
<1>1. \A o \in Requests : pc'[o] = IF o = q THEN l ELSE pc[o]
  BY DEF TypeOK
<1>2. Creates \subseteq Requests /\ Turns \subseteq Requests
  BY DEF Requests
<1>3. CreationsFresh'
  BY <1>1, <1>2 DEF IdInv, CreationsFresh
<1>4. CreatedThreadsKept'
  BY <1>1, <1>2 DEF IdInv, CreatedThreadsKept
<1>5. RunsDistinct'
  BY <1>1, <1>2 DEF IdInv, RunsDistinct, Carried
<1>6. Counting'
  BY <1>1, <1>2 DEF IdInv, Counting, Carried, counters
<1>7. Loading' /\ Known'
  BY <1>1, <1>2 DEF IdInv, Loading, Known, maxima
<1> QED
  BY <1>3, <1>4, <1>5, <1>6, <1>7 DEF IdInv

(* A request under way is only met while up.                               *)
LEMMA BusyIsUp ==
  ASSUME IdInv, NEW q \in Requests, pc[q] \notin {"new", "refused", "done"}
  PROVE  up
BY DEF IdInv, Loading

(* A new thread takes an id from the counter, which is beyond every id.    *)
LEMMA AllocateSafe ==
  ASSUME TypeOK, IdInv, NEW c \in Creates, allocate_thread_id(c)
  PROVE  IdInv'
<1>0. c \in Requests /\ Creates \subseteq Requests /\ Turns \subseteq Requests
      /\ c \notin Turns
  BY ServerAssumption DEF Requests
<1>1. /\ up /\ pc[c] = "new"
      /\ thread_id' = [thread_id EXCEPT ![c] = next_thread_id]
      /\ next_thread_id' = next_thread_id + 1
      /\ pc' = [pc EXCEPT ![c] = "allocated"]
      /\ UNCHANGED <<up, threads, store, next_run_id, maxima, run_id>>
  BY DEF allocate_thread_id, goto
<1>2. \A o \in Requests :
        /\ pc'[o] = IF o = c THEN "allocated" ELSE pc[o]
        /\ thread_id'[o] = IF o = c THEN next_thread_id ELSE thread_id[o]
  BY <1>1 DEF TypeOK
<1>3. next_thread_id \in Nat /\ DOMAIN store \subseteq Nat
      /\ DOMAIN threads \subseteq DOMAIN store
      /\ \A o \in Requests : thread_id[o] \in Nat
  BY DEF TypeOK, IsMap, IdInv, Known
<1>4. next_thread_id \notin DOMAIN store /\ next_thread_id \notin DOMAIN threads
  BY <1>1, <1>3 DEF IdInv, Counting
<1>5. \A d \in Creates : Taken(pc[d]) => thread_id[d] < next_thread_id
  BY <1>1 DEF IdInv, Counting, Taken
<1>6. CreationsFresh'
  BY <1>0, <1>1, <1>2, <1>3, <1>4, <1>5 DEF IdInv, CreationsFresh, Taken
<1>7. CreatedThreadsKept'
  BY <1>0, <1>1, <1>2 DEF IdInv, CreatedThreadsKept
<1>8. RunsDistinct'
  BY <1>0, <1>1, <1>2 DEF IdInv, RunsDistinct, Carried
<1>9. Counting'
  BY <1>0, <1>1, <1>2, <1>3 DEF IdInv, Counting, Carried
<1>10. Loading' /\ Known'
  BY <1>0, <1>1, <1>2 DEF IdInv, Loading, Known
<1> QED
  BY <1>6, <1>7, <1>8, <1>9, <1>10 DEF IdInv

(* Its row replaces none.                                                  *)
LEMMA NewThreadSafe ==
  ASSUME TypeOK, IdInv, NEW c \in Creates, new_thread(c)
  PROVE  IdInv'
<1>0. c \in Requests /\ Creates \subseteq Requests /\ Turns \subseteq Requests
      /\ c \notin Turns
  BY ServerAssumption DEF Requests
<1>1. pc[c] = "configured"
      /\ UNCHANGED <<up, threads, counters, maxima, thread_id, run_id>>
  BY DEF new_thread
<1>2. up
  BY <1>0, <1>1, BusyIsUp
<1>3. CASE pc' = [pc EXCEPT ![c] = "refused"] /\ UNCHANGED store
  BY <1>0, <1>1, <1>3, MoveSafe DEF PCs
<1>4. CASE /\ store' = Put(store, thread_id[c], Idle)
           /\ pc' = [pc EXCEPT ![c] = "stored"]
  <2> DEFINE id == thread_id[c]
  <2>1. \A o \in Requests : pc'[o] = IF o = c THEN "stored" ELSE pc[o]
    BY <1>4 DEF TypeOK
  <2>2. /\ id \notin DOMAIN threads /\ id \notin DOMAIN store
        /\ \A d \in Creates \ {c} : Taken(pc[d]) => thread_id[d] # id
        /\ id < next_thread_id
    BY <1>1, <1>2 DEF IdInv, CreationsFresh, Counting, Taken
  <2>3. /\ DOMAIN store' = DOMAIN store \cup {id}
        /\ store'[id] = Idle /\ Idle.run = 0
        /\ \A y \in DOMAIN store : store'[y] = store[y]
    BY <1>4, <2>2 DEF Put, Idle
  <2> HIDE DEF id
  <2>4. \A x \in DOMAIN store' : \A r \in RunsOf(threads', store', x) :
          r = 0 \/ (x \in DOMAIN store /\ r \in RunsOf(threads, store, x))
    BY <1>1, <2>2, <2>3, RunsOfFacts
  <2>5. \A t \in Turns : pc'[t] = "begun" =>
          pc[t] = "begun" /\ run_id'[t] = run_id[t] /\ run_id[t] # 0
    BY <1>0, <1>1, <2>1, BegunRuns
  <2>6. RunsDistinct'
    BY <2>4, <2>5, RunsShrink DEF IdInv
  <2>7. next_run_id \in Nat \ {0} /\ UNCHANGED next_run_id
        /\ UNCHANGED next_thread_id
    BY <1>1 DEF TypeOK, counters
  <2>8. \A x \in DOMAIN store' : \A r \in RunsOf(threads', store', x) :
          r < next_run_id'
    BY <1>2, <2>4, <2>7, RunsCounted DEF IdInv
  <2>9. CreationsFresh'
    BY <1>0, <1>1, <2>1, <2>2, <2>3 DEF IdInv, CreationsFresh, Taken, id
  <2>10. CreatedThreadsKept'
    BY <1>0, <1>1, <2>1, <2>3 DEF IdInv, CreatedThreadsKept
  <2>11. Counting'
    BY <1>0, <1>1, <1>2, <2>1, <2>2, <2>3, <2>7, <2>8
    DEF IdInv, Counting, Carried, Taken
  <2>12. Loading' /\ Known'
    BY <1>0, <1>1, <1>2, <2>1, <2>3 DEF IdInv, Loading, Known, id
  <2> QED
    BY <2>6, <2>9, <2>10, <2>11, <2>12 DEF IdInv
<1> QED
  BY <1>3, <1>4 DEF new_thread, goto, upsert_fails

(* Inserting it replaces no thread.                                        *)
LEMMA InsertSafe ==
  ASSUME TypeOK, IdInv, NEW c \in Creates, insert_thread(c)
  PROVE  IdInv'
<1>0. c \in Requests /\ Creates \subseteq Requests /\ Turns \subseteq Requests
      /\ c \notin Turns
  BY ServerAssumption DEF Requests
<1> DEFINE id == thread_id[c]
<1>1. /\ pc[c] = "stored"
      /\ threads' = Put(threads, id, Idle)
      /\ pc' = [pc EXCEPT ![c] = "done"]
      /\ UNCHANGED <<up, store, counters, maxima, thread_id, run_id>>
  BY DEF insert_thread, goto
<1>2. up
  BY <1>0, <1>1, BusyIsUp
<1>3. \A o \in Requests : pc'[o] = IF o = c THEN "done" ELSE pc[o]
  BY <1>1 DEF TypeOK
<1>4. /\ id \notin DOMAIN threads
      /\ \A d \in Creates \ {c} : Taken(pc[d]) => thread_id[d] # id
  BY <1>1 DEF IdInv, CreationsFresh, Taken
<1>5. /\ DOMAIN threads' = DOMAIN threads \cup {id}
      /\ threads'[id] = Idle /\ Idle.run = 0
      /\ \A y \in DOMAIN threads : threads'[y] = threads[y]
  BY <1>1, <1>4 DEF Put, Idle
<1>6. id \in DOMAIN store
  BY <1>0, <1>1 DEF IdInv, Known
<1> HIDE DEF id
<1>7. \A x \in DOMAIN store' : \A r \in RunsOf(threads', store', x) :
        r = 0 \/ (x \in DOMAIN store /\ r \in RunsOf(threads, store, x))
  BY <1>1, <1>5, RunsOfFacts
<1>8. \A t \in Turns : pc'[t] = "begun" =>
        pc[t] = "begun" /\ run_id'[t] = run_id[t] /\ run_id[t] # 0
  BY <1>0, <1>1, <1>3, BegunRuns
<1>9. RunsDistinct'
  BY <1>7, <1>8, RunsShrink DEF IdInv
<1>10. next_run_id \in Nat \ {0} /\ UNCHANGED <<next_run_id, next_thread_id>>
  BY <1>1 DEF TypeOK, counters
<1>11. \A x \in DOMAIN store' : \A r \in RunsOf(threads', store', x) :
         r < next_run_id'
  BY <1>2, <1>7, <1>10, RunsCounted DEF IdInv
<1>12. CreationsFresh'
  BY <1>0, <1>1, <1>3, <1>4, <1>5 DEF IdInv, CreationsFresh, Taken
<1>13. CreatedThreadsKept'
  BY <1>0, <1>1, <1>3, <1>5, <1>6 DEF IdInv, CreatedThreadsKept, id
<1>14. Counting'
  BY <1>0, <1>1, <1>2, <1>3, <1>10, <1>11
  DEF IdInv, Counting, Carried
<1>15. Loading' /\ Known'
  BY <1>0, <1>1, <1>2, <1>3, <1>5, <1>6 DEF IdInv, Loading, Known
<1> QED
  BY <1>9, <1>12, <1>13, <1>14, <1>15 DEF IdInv

(* A turn takes a run from the counter, which is beyond every run.         *)
LEMMA BeginSafe ==
  ASSUME TypeOK, IdInv, NEW t \in Turns, start_thread_turn(t)
  PROVE  IdInv'
<1>0. t \in Requests /\ Creates \subseteq Requests /\ Turns \subseteq Requests
      /\ t \notin Creates
  BY ServerAssumption DEF Requests
<1>1. /\ up /\ pc[t] = "new"
      /\ \E x \in DOMAIN threads : thread_id' = [thread_id EXCEPT ![t] = x]
      /\ run_id' = [run_id EXCEPT ![t] = next_run_id]
      /\ next_run_id' = next_run_id + 1
      /\ pc' = [pc EXCEPT ![t] = "begun"]
      /\ UNCHANGED <<up, threads, store, next_thread_id, maxima>>
  BY DEF start_thread_turn, goto
<1>2. /\ thread_id'[t] \in DOMAIN threads
      /\ \A o \in Requests :
           /\ o # t => thread_id'[o] = thread_id[o]
           /\ pc'[o] = IF o = t THEN "begun" ELSE pc[o]
           /\ run_id'[o] = IF o = t THEN next_run_id ELSE run_id[o]
  BY <1>0, <1>1 DEF TypeOK
<1>3. next_run_id \in Nat \ {0} /\ \A o \in Requests : run_id[o] \in Nat
  BY DEF TypeOK
<1>4. \A x \in DOMAIN store : \A r \in RunsOf(threads, store, x) :
        r < next_run_id
  BY <1>1 DEF IdInv, Counting, Carried
<1>4a. \A x \in DOMAIN store : \A r \in RunsOf(threads, store, x) : r \in Nat
  <2>1. IsMap(threads) /\ IsMap(store)
    BY DEF TypeOK
  <2> QED
    BY <2>1, RunsOfFacts DEF IsMap, Thread
<1>5. \A u \in Turns : pc[u] = "begun" => run_id[u] < next_run_id
  BY <1>0, <1>1, <1>3 DEF IdInv, Counting
<1>6. RunsDistinct'
  <2>1. \A x \in DOMAIN store : next_run_id \notin RunsOf(threads, store, x)
    BY <1>3, <1>4
  <2>2. \A u \in Turns : pc[u] = "begun" => run_id[u] # next_run_id
    BY <1>0, <1>3, <1>5
  <2> QED
    BY <1>0, <1>1, <1>2, <2>1, <2>2 DEF IdInv, RunsDistinct, Carried
<1>7. CreationsFresh'
  BY <1>0, <1>1, <1>2 DEF IdInv, CreationsFresh
<1>8. CreatedThreadsKept'
  BY <1>0, <1>1, <1>2 DEF IdInv, CreatedThreadsKept
<1>9. Counting'
  BY <1>0, <1>1, <1>2, <1>3, <1>4, <1>4a, <1>5 DEF IdInv, Counting, Carried
<1>10. Loading' /\ Known'
  BY <1>0, <1>1, <1>2 DEF IdInv, Loading, Known
<1> QED
  BY <1>6, <1>7, <1>8, <1>9, <1>10 DEF IdInv

(* Thread x, which exists, gets record v in memory and keeps its row or    *)
(* gets the same there; v carries a run x carried before, or none. Nothing *)
(* else changes.                                                           *)
LEMMA RecordSafe ==
  ASSUME TypeOK, IdInv, up, NEW x \in DOMAIN threads, NEW v,
         v.run \in {0, threads[x].run},
         threads' = Put(threads, x, v),
         store' \in {store, Put(store, x, v)},
         UNCHANGED <<up, counters, maxima, requests>>
  PROVE  IdInv'
<1>1. x \in DOMAIN store
  BY DEF IdInv, Known
<1>2. /\ DOMAIN threads' = DOMAIN threads /\ threads'[x] = v
      /\ \A y \in DOMAIN threads : y # x => threads'[y] = threads[y]
  BY DEF Put
<1>3. /\ DOMAIN store' = DOMAIN store /\ store'[x] \in {store[x], v}
      /\ \A y \in DOMAIN store : y # x => store'[y] = store[y]
  BY <1>1 DEF Put
<1>4. \A y \in DOMAIN store' : \A r \in RunsOf(threads', store', y) :
        r = 0 \/ (y \in DOMAIN store /\ r \in RunsOf(threads, store, y))
  BY <1>2, <1>3, RunsOfFacts
<1>5. UNCHANGED <<pc, thread_id, run_id>>
  BY DEF requests
<1>6. RunsDistinct'
  BY <1>4, <1>5, RunsShrink, BegunRuns DEF IdInv
<1>7. next_run_id \in Nat \ {0} /\ UNCHANGED <<next_run_id, next_thread_id>>
  BY DEF TypeOK, counters
<1>8. \A y \in DOMAIN store' : \A r \in RunsOf(threads', store', y) :
        r < next_run_id'
  BY <1>4, <1>7, RunsCounted DEF IdInv
<1>9. CreationsFresh' /\ CreatedThreadsKept'
  BY <1>2, <1>3, <1>5 DEF IdInv, CreationsFresh, CreatedThreadsKept
<1>10. Counting'
  BY <1>3, <1>5, <1>7, <1>8 DEF IdInv, Counting, Carried
<1>11. Loading' /\ Known'
  BY <1>2, <1>3, <1>5 DEF IdInv, Loading, Known
<1> QED
  BY <1>6, <1>9, <1>10, <1>11 DEF IdInv

(* A step that changes nothing IdInv speaks of.                            *)
LEMMA UntouchedSafe ==
  ASSUME IdInv, UNCHANGED <<up, threads, store, counters, maxima, requests>>
  PROVE  IdInv'
BY DEF IdInv, CreationsFresh, CreatedThreadsKept, RunsDistinct, Counting,
       Loading, Known, Carried, counters, maxima, requests

(* Replies and completions keep the run, or end it.                        *)
LEMMA RunStepSafe ==
  ASSUME TypeOK, IdInv, NEW x \in DOMAIN threads,
         submit_user_input(x) \/ complete_run(x)
  PROVE  IdInv'
<1>1. up /\ UNCHANGED <<up, counters, maxima, requests>>
  BY DEF submit_user_input, complete_run
<1>2. CASE UNCHANGED <<threads, store>>
  BY <1>1, <1>2, UntouchedSafe
<1>3. CASE ~UNCHANGED <<threads, store>>
  <2>1. PICK v \in {Idle, Running(threads[x].run),
                    AwaitingUserInput(threads[x].run)} :
          /\ threads' = Put(threads, x, v)
          /\ store' \in {store, Put(store, x, v)}
    BY <1>3 DEF submit_user_input, complete_run, Save, upsert_fails
  <2>2. v.run \in {0, threads[x].run}
    BY DEF Idle, Running, AwaitingUserInput
  <2> QED
    BY <1>1, <2>1, <2>2, RecordSafe
<1> QED
  BY <1>2, <1>3

(* An accepted turn gives its fresh run to its thread.                     *)
LEMMA StartSafe ==
  ASSUME TypeOK, IdInv, NEW t \in Turns, start_turn(t)
  PROVE  IdInv'
<1>0. t \in Requests /\ Creates \subseteq Requests /\ Turns \subseteq Requests
      /\ t \notin Creates
  BY ServerAssumption DEF Requests
<1> DEFINE x == thread_id[t]
           n == run_id[t]
<1>1. pc[t] = "begun"
      /\ UNCHANGED <<up, counters, maxima, thread_id, run_id>>
  BY DEF start_turn
<1>2. up /\ n # 0 /\ n \in Nat
  BY <1>1, BegunRuns
<1>3. CASE pc' = [pc EXCEPT ![t] = "refused"] /\ UNCHANGED <<threads, store>>
  BY <1>0, <1>1, <1>3, MoveSafe DEF PCs
<1>4. CASE /\ threads' = Put(threads, x, Running(n))
           /\ store' = Put(store, x, Running(n))
           /\ pc' = [pc EXCEPT ![t] = "done"]
  <2>1. \A o \in Requests : pc'[o] = IF o = t THEN "done" ELSE pc[o]
    BY <1>4 DEF TypeOK
  <2>2. x \in DOMAIN threads /\ x \in DOMAIN store
    BY <1>1 DEF IdInv, Known
  <2>3. Running(n).run = n
    BY DEF Running
  <2>4. /\ DOMAIN threads' = DOMAIN threads /\ DOMAIN store' = DOMAIN store
        /\ threads'[x].run = n /\ store'[x].run = n
        /\ \A y \in DOMAIN threads : y # x => threads'[y] = threads[y]
        /\ \A y \in DOMAIN store : y # x => store'[y] = store[y]
    BY <1>4, <2>2, <2>3 DEF Put
  <2>5. \A y \in DOMAIN store :
          /\ n \notin RunsOf(threads, store, y)
          /\ \A r \in RunsOf(threads', store', y) :
               IF y = x THEN r = n ELSE r \in RunsOf(threads, store, y)
    <3>1. \A y \in DOMAIN store : n \notin RunsOf(threads, store, y)
      BY <1>1 DEF IdInv, RunsDistinct, Carried
    <3> HIDE DEF x, n
    <3> QED
      BY <2>4, <3>1, RunsOfFacts
  <2>6. \A u \in Turns \ {t} : pc[u] = "begun" => run_id[u] # n
    BY <1>1 DEF IdInv, RunsDistinct
  <2>7. n < next_run_id
    BY <1>1, <1>2 DEF IdInv, Counting, TypeOK
  <2> HIDE DEF x, n
  <2>8. RunsDistinct'
    BY <1>0, <1>1, <2>1, <2>4, <2>5, <2>6 DEF IdInv, RunsDistinct, Carried
  <2>9. CreationsFresh' /\ CreatedThreadsKept'
    BY <1>0, <1>1, <2>1, <2>4 DEF IdInv, CreationsFresh, CreatedThreadsKept
  <2>10. Counting'
    BY <1>0, <1>1, <1>2, <2>1, <2>4, <2>5, <2>7
    DEF IdInv, Counting, Carried, counters
  <2>11. Loading' /\ Known'
    BY <1>0, <1>1, <1>2, <2>1, <2>4 DEF IdInv, Loading, Known
  <2> QED
    BY <2>8, <2>9, <2>10, <2>11 DEF IdInv
<1> QED
  BY <1>3, <1>4 DEF start_turn, Save, goto, upsert_fails

(* Memory is lost, or an unfinished start given up: nobody is under way    *)
(* and every thread carries only the run of its row.                       *)
LEMMA ClearSafe ==
  ASSUME TypeOK, IdInv, up' = FALSE, threads' = NoThreads,
         UNCHANGED <<store, thread_id, run_id>>,
         \A q \in Requests : /\ pc'[q] \in {"new", "refused", "done"}
                             /\ pc'[q] = "done" => pc[q] = "done"
  PROVE  IdInv'
<1>0. Creates \subseteq Requests /\ Turns \subseteq Requests
  BY DEF Requests
<1>1. DOMAIN threads' = {}
  BY NoThreadsFacts
<1>2. \A x \in DOMAIN store' : \A r \in RunsOf(threads', store', x) :
        r = 0 \/ (x \in DOMAIN store /\ r \in RunsOf(threads, store, x))
  BY <1>1, RunsOfFacts
<1>3. RunsDistinct'
  BY <1>0, <1>2, RunsShrink DEF IdInv
<1>4. CreationsFresh' /\ CreatedThreadsKept'
  BY <1>0 DEF IdInv, CreationsFresh, CreatedThreadsKept
<1>5. Counting' /\ Loading' /\ Known'
  BY <1>0, <1>1 DEF IdInv, Counting, Loading, Known
<1> QED
  BY <1>3, <1>4, <1>5 DEF IdInv

(* One row read: it keeps its run, and the maxima cover it.                *)
LEMMA LoadRowSafe ==
  ASSUME TypeOK, IdInv, NEW x \in DOMAIN store, load_row(x)
  PROVE  IdInv'
<1> DEFINE p == recovered(store[x])
<1>1. /\ ~up /\ x \notin DOMAIN threads
      /\ max_thread_id' = max(max_thread_id, x)
      /\ max_run_id' = max(max_run_id, store[x].run)
      /\ threads' = Put(threads, x, p)
      /\ store' = Put(store, x, p)
      /\ UNCHANGED <<up, pc, thread_id, run_id>>
  BY DEF load_row, requests
<1>2. x \in Nat /\ store[x] \in Thread /\ store[x].run \in Nat
      /\ max_thread_id \in Nat /\ max_run_id \in Nat
      /\ \A y \in DOMAIN threads : y \in Nat /\ threads[y].run \in Nat
  BY DEF TypeOK, IsMap, Thread
<1>3. p.run = store[x].run
  BY <1>2, RecoveredFacts
<1>4. /\ DOMAIN threads' = DOMAIN threads \cup {x}
      /\ DOMAIN store' = DOMAIN store
      /\ threads'[x].run = store[x].run /\ store'[x].run = store[x].run
      /\ \A y \in DOMAIN threads : threads'[y] = threads[y]
      /\ \A y \in DOMAIN store : y # x => store'[y] = store[y]
  BY <1>1, <1>3 DEF Put
<1>5. \A y \in DOMAIN store' : \A r \in RunsOf(threads', store', y) :
        r = 0 \/ (y \in DOMAIN store /\ r \in RunsOf(threads, store, y))
  BY <1>4, RunsOfFacts
<1>6. \A q \in Requests : pc[q] \in {"new", "refused", "done"}
  BY <1>1 DEF IdInv, Loading
<1>7. RunsDistinct'
  BY <1>1, <1>5, <1>6, RunsShrink DEF IdInv, Requests
<1>8. CreationsFresh' /\ CreatedThreadsKept' /\ Counting' /\ Known'
  BY <1>1, <1>4, <1>6
  DEF IdInv, CreationsFresh, CreatedThreadsKept, Counting, Known, Requests
<1>9. Loading'
  BY <1>1, <1>2, <1>4, <1>6 DEF IdInv, Loading, Known, max
<1> QED
  BY <1>7, <1>8, <1>9 DEF IdInv

(* A start that is through with its rows puts the counters beyond them.    *)
LEMMA LoadEndsSafe ==
  ASSUME TypeOK, IdInv, load_ends
  PROVE  IdInv'
<1>1. /\ ~up /\ DOMAIN threads = DOMAIN store
      /\ next_thread_id' = max_thread_id + 1
      /\ next_run_id' = max_run_id + 1
      /\ UNCHANGED <<threads, store, pc, thread_id, run_id>>
  BY DEF load_ends, saturating_next, requests
<1>2. max_thread_id \in Nat /\ max_run_id \in Nat
      /\ \A y \in DOMAIN threads : y \in Nat /\ threads[y].run \in Nat
  BY DEF TypeOK, IsMap, Thread
<1>3. /\ \A q \in Requests : pc[q] \in {"new", "refused", "done"}
      /\ \A x \in DOMAIN threads : /\ x <= max_thread_id
                                   /\ threads[x].run <= max_run_id
                                   /\ store[x].run = threads[x].run
  BY <1>1 DEF IdInv, Loading
<1>4. \A x \in DOMAIN store : \A r \in RunsOf(threads, store, x) :
        r < next_run_id'
  BY <1>1, <1>2, <1>3, RunsOfFacts
<1>5. Counting'
  BY <1>1, <1>2, <1>3, <1>4 DEF Counting, Carried, Requests
<1>6. CreationsFresh' /\ RunsDistinct' /\ Known'
  BY <1>1 DEF IdInv, CreationsFresh, RunsDistinct, Known, Carried
<1>7. CreatedThreadsKept'
  BY <1>1 DEF IdInv, CreatedThreadsKept
<1>8. Loading'
  BY DEF load_ends, Loading
<1> QED
  BY <1>5, <1>6, <1>7, <1>8 DEF IdInv

-----------------------------------------------------------------------------
(* IdInv holds throughout: ids in use stay below the counters, across any  *)
(* number of crashes, failed starts and failed upserts.                    *)
THEOREM IdsSafe == Spec => []IdInv
<1>1. Init => IdInv
  <2> SUFFICES ASSUME Init PROVE IdInv
    OBVIOUS
  <2>1. DOMAIN threads = {} /\ DOMAIN store = {} /\ up
        /\ \A q \in Requests : pc[q] = "new"
    BY NoThreadsFacts DEF Init
  <2> QED
    BY <2>1
    DEF IdInv, CreationsFresh, CreatedThreadsKept, RunsDistinct, Counting,
        Loading, Known, Requests
<1>2. ASSUME TypeOK, IdInv, [Next]_vars
      PROVE  IdInv'
  <2> USE <1>2
  <2>1. ASSUME NEW q \in Requests, Handle(q) PROVE IdInv'
    <3>1. CASE resolve_thread_config(q)
      BY <3>1, MoveSafe DEF resolve_thread_config, goto, PCs
    <3> QED
      BY <2>1, <3>1, AllocateSafe, NewThreadSafe, InsertSafe, BeginSafe,
         StartSafe DEF Handle
  <2>2. CASE Crash
    <3>1. threads' = NoThreads /\ UNCHANGED <<store, thread_id, run_id>>
      BY <2>2 DEF Crash
    <3>2. up' = FALSE
      BY <2>2 DEF Crash
    <3>3. \A q \in Requests : /\ pc'[q] \in {"new", "refused", "done"}
                              /\ pc'[q] = "done" => pc[q] = "done"
      BY <2>2 DEF Crash
    <3> QED
      BY <3>1, <3>2, <3>3, ClearSafe
  <2>3. ASSUME NEW x \in DOMAIN store, load_fails(x) PROVE IdInv'
    <3>1. /\ ~up /\ up' = up /\ threads' = NoThreads
          /\ UNCHANGED <<store, pc, thread_id, run_id>>
      BY <2>3 DEF load_fails, upsert_fails, requests
    <3>2. up' = FALSE
      BY <3>1 DEF TypeOK
    <3>3. \A q \in Requests : /\ pc'[q] \in {"new", "refused", "done"}
                              /\ pc'[q] = "done" => pc[q] = "done"
      BY <3>1 DEF IdInv, Loading
    <3> QED
      BY <3>1, <3>2, <3>3, ClearSafe
  <2>4. CASE UNCHANGED vars
    BY <2>4, UntouchedSafe DEF vars
  <2> QED
    BY <2>1, <2>2, <2>3, <2>4, RunStepSafe, LoadRowSafe, LoadEndsSafe
    DEF Next, Quiet
<1> QED
  BY <1>1, <1>2, ServerTypeCorrect, PTL DEF Spec

(* No creation ever takes the id of another thread.                        *)
THEOREM FreshCreations == Spec => []CreationsFresh
<1>1. IdInv => CreationsFresh
  BY DEF IdInv
<1> QED
  BY <1>1, IdsSafe, PTL

(* No acknowledged thread is ever lost.                                    *)
THEOREM KeptThreads == Spec => []CreatedThreadsKept
<1>1. IdInv => CreatedThreadsKept
  BY DEF IdInv
<1> QED
  BY <1>1, IdsSafe, PTL

(* No two threads ever carry the same run.                                 *)
THEOREM DistinctRuns == Spec => []RunsDistinct
<1>1. IdInv => RunsDistinct
  BY DEF IdInv
<1> QED
  BY <1>1, IdsSafe, PTL
=============================================================================
