---------------------------- MODULE ThreadRecord ----------------------------
(***************************************************************************)
(* One thread of the local thread server (crates/server/src/lib.rs): the   *)
(* record behind its mutex, its row in the SQLite store, the HTTP handlers *)
(* and run workers that act on it concurrently, and the two broadcast      *)
(* channels its SSE streams read.                                          *)
(*                                                                         *)
(* A request (a turn, a user-input reply, a legacy message append) is      *)
(* served once; the worker a turn or a reply spawns carries its name.      *)
(* Every block of code under one lock is one step; what happens outside    *)
(* the lock (reading the base session beforehand, sending an envelope      *)
(* afterwards) is a step of its own.                                       *)
(***************************************************************************)
EXTENDS SessionLog, TLC

CONSTANTS Turns,          \* POST /v1/threads/{id}/turns requests
          Replies,        \* POST /v1/threads/{id}/user-input requests
          Appends,        \* POST /sessions/{id}/message requests
          Streams,        \* subscribers of /v1/threads/{id}/events
          Listeners,      \* subscribers of /sessions/{id}/events
          Capacity,       \* slots of a broadcast channel
          ToolRounds,     \* tool rounds a run may take before it ends
          MaxCrashes,     \* bound on crashes of the server process
          MaxStoreFaults, \* bound on failing upserts
          Serial          \* TRUE: a client sends a request only once every
                          \* earlier one is over, its last event included

ASSUME ThreadAssumption ==
  /\ Writers = Turns \cup Replies \cup Appends
  /\ Turns \cap Replies = {} /\ Turns \cap Appends = {}
  /\ Replies \cap Appends = {}
  /\ Capacity \in Nat \ {0}
  /\ ToolRounds \subseteq Nat
  /\ MaxCrashes \in Nat /\ MaxStoreFaults \in Nat
  /\ Serial \in BOOLEAN

VARIABLES
  up,               \* the server process is running
  status,           \* ThreadInner.status
  session,          \* ThreadInner.session.messages
  last_sequence,    \* ThreadInner.last_sequence
  row,              \* the thread's row of the SQLite store
  next_run_id,      \* AppState.next_run_id
  crashes, faults,  \* crashes and failed upserts so far
  pc,               \* where each request's handler, then its worker, is
  base,             \* worker_base_session
  run_id,           \* the run of the request (0: none)
  answers,          \* the request_id a reply answers
  optimistic_len,   \* length of the session after the optimistic push
  messages,         \* final_session.messages.skip(optimistic_len)
  batches,          \* recorded batches not replayed yet
  cursor,           \* position of the worker in messages
  outcome,          \* the terminal event of the run
  inflight,         \* an envelope with its sequence, not sent yet
  protocol_events,  \* what was sent on the protocol channel
  legacy_events,    \* what was sent on the legacy channel
  stream,           \* the protocol streams
  listener          \* the legacy streams

inner == <<status, session, last_sequence>>
invocation == <<base, run_id, answers, optimistic_len>>
replay == <<messages, batches, cursor, outcome>>
channels == <<protocol_events, legacy_events>>
readers == <<stream, listener>>
vars == <<up, inner, row, next_run_id, crashes, faults, pc, invocation,
          replay, inflight, channels, readers>>

-----------------------------------------------------------------------------
(* ThreadStatus and its four constructors.                                 *)
StatusKinds == {"idle", "running", "awaiting_user_input", "interrupted"}
Notes == {"none", "restart", "idle_pending", "pending_mismatch",
          "requires_recovery"}
Status == [kind : StatusKinds, run : Nat, request : Writers \cup {None},
           note : Notes]

Idle == [kind |-> "idle", run |-> 0, request |-> None, note |-> "none"]
Running(r) == [kind |-> "running", run |-> r, request |-> None,
               note |-> "none"]
AwaitingUserInput(r, q) == [kind |-> "awaiting_user_input", run |-> r,
                            request |-> q, note |-> "none"]
Interrupted(r, n) == [kind |-> "interrupted", run |-> r, request |-> None,
                      note |-> n]

(* PersistedThreadRecord: the columns that depend on the run.              *)
Rows == [status : StatusKinds, last_run_id : Nat, last_sequence : Nat,
         session : Seq(Message), pending_request : Writers \cup {None},
         recovery_note : Notes]

persisted_thread_from_inner(st, ses, seq) ==
  [status |-> st.kind, last_run_id |-> st.run, last_sequence |-> seq,
   session |-> ses, pending_request |-> st.request,
   recovery_note |-> st.note]

recovered_status_from_persisted(p) ==
  LET session_pending == pending_user_input_request(p.session) IN
  CASE p.status = "idle" ->
         IF session_pending = None THEN Idle
         ELSE Interrupted(p.last_run_id, "idle_pending")
    [] p.status = "running" -> Interrupted(p.last_run_id, "restart")
    [] p.status = "awaiting_user_input" ->
         IF /\ p.last_run_id # 0
            /\ p.pending_request # None
            /\ p.pending_request = session_pending
         THEN AwaitingUserInput(p.last_run_id, p.pending_request)
         ELSE Interrupted(p.last_run_id, "pending_mismatch")
    [] p.status = "interrupted" ->
         Interrupted(p.last_run_id,
                     IF p.recovery_note = "none" THEN "requires_recovery"
                     ELSE p.recovery_note)

Envelope == [sequence : Nat, run : Nat,
             type : {"run.started", "user_input.submitted", "assistant",
                     "assistant.tool_result", "run.completed",
                     "run.waiting_user_input", "run.failed"}]
Terminal == {"run.completed", "run.waiting_user_input", "run.failed"}

-----------------------------------------------------------------------------
Requests == Turns \cup Replies \cup Appends

PCs == {"new",        \* not received yet
        "begun",      \* base session read
        "accepted",   \* thread is Running, optimistic message not broadcast
        "announcing", \* legacy broadcast done, first event not stamped
        "working",    \* the worker runs (its first event may be inflight)
        "legacy",     \* complete_run: broadcasting the new messages
        "replay",     \* emit_protocol_replay: about to emit a batch
        "blocks",     \* emit_protocol_replay: blocks behind a batch
        "terminal",   \* about to stamp the terminal event
        "appended",   \* append_session_message: not broadcast yet
        "refused",    \* answered with an error
        "done"}

StreamStates == [phase : {"off", "subscribed", "live", "resync", "closed"},
                 pos : Nat, first : Nat, snapshot_sequence : Nat,
                 watching : Nat, got : Seq(Envelope)]
ListenerStates == [phase : {"off", "subscribed", "live", "closed"},
                   pos : Nat, got : Seq(Message)]

ServerTypeOK ==
  /\ up \in BOOLEAN
  /\ status \in Status
  /\ session \in Seq(Message)
  /\ last_sequence \in Nat
  /\ row \in Rows
  /\ next_run_id \in Nat \ {0}
  /\ crashes \in 0..MaxCrashes
  /\ faults \in 0..MaxStoreFaults

RequestTypeOK ==
  /\ pc \in [Requests -> PCs]
  /\ base \in [Requests -> Seq(Message)]
  /\ run_id \in [Requests -> Nat]
  /\ answers \in [Requests -> Writers \cup {None}]
  /\ optimistic_len \in [Requests -> Nat]

ReplayTypeOK ==
  /\ messages \in [Requests -> Seq(Message)]
  /\ batches \in [Requests -> Nat]
  /\ cursor \in [Requests -> Nat]
  /\ outcome \in [Requests -> Terminal]
  /\ inflight \in [Requests -> Seq(Envelope)]

ReaderTypeOK ==
  /\ protocol_events \in Seq(Envelope)
  /\ legacy_events \in Seq(Message)
  /\ stream \in [Streams -> StreamStates]
  /\ listener \in [Listeners -> ListenerStates]

TypeOK == ServerTypeOK /\ RequestTypeOK /\ ReplayTypeOK /\ ReaderTypeOK

Init ==
  /\ up = TRUE
  /\ status = Idle
  /\ session = <<>>
  /\ last_sequence = 0
  /\ row = persisted_thread_from_inner(Idle, <<>>, 0)  \* ThreadRecord::new
  /\ next_run_id = 1
  /\ crashes = 0
  /\ faults = 0
  /\ pc = [r \in Requests |-> "new"]
  /\ base = [r \in Requests |-> <<>>]
  /\ run_id = [r \in Requests |-> 0]
  /\ answers = [r \in Requests |-> None]
  /\ optimistic_len = [r \in Requests |-> 0]
  /\ messages = [r \in Requests |-> <<>>]
  /\ batches = [r \in Requests |-> 0]
  /\ cursor = [r \in Requests |-> 0]
  /\ outcome = [r \in Requests |-> "run.failed"]
  /\ inflight = [r \in Requests |-> <<>>]
  /\ protocol_events = <<>>
  /\ legacy_events = <<>>
  /\ stream = [s \in Streams |-> [phase |-> "off", pos |-> 0, first |-> 0,
                                  snapshot_sequence |-> 0, watching |-> 0,
                                  got |-> <<>>]]
  /\ listener = [l \in Listeners |-> [phase |-> "off", pos |-> 0,
                                      got |-> <<>>]]

-----------------------------------------------------------------------------
(* A request is over when its handler and its worker have nothing left to  *)
(* do; a serial client waits for that before it sends the next one.        *)
Over(r) == pc[r] \in {"new", "refused", "done"} /\ inflight[r] = <<>>
Received(r) == /\ up
               /\ pc[r] = "new"
               /\ Serial => \A o \in Requests : Over(o)

optimistic_message(r) ==
  IF r \in Replies THEN user_input_response(r, answers[r]) ELSE user_text(r)

Refuse(r) ==
  /\ pc' = [pc EXCEPT ![r] = "refused"]
  /\ base' = [base EXCEPT ![r] = <<>>]
  /\ run_id' = [run_id EXCEPT ![r] = 0]
  /\ UNCHANGED <<inner, row, answers, optimistic_len>>

upsert_fails == /\ faults < MaxStoreFaults
                /\ faults' = faults + 1
                /\ UNCHANGED row

(* Mutant: the thread is marked Running without an upsert.                 *)
AcceptRun_unsaved(r, run) ==
  LET next == Append(session, optimistic_message(r)) IN
  /\ session' = next
  /\ status' = Running(run)
  /\ optimistic_len' = [optimistic_len EXCEPT ![r] = Len(next)]
  /\ run_id' = [run_id EXCEPT ![r] = run]
  /\ pc' = [pc EXCEPT ![r] = "accepted"]
  /\ UNCHANGED <<row, last_sequence, faults, base, answers>>

(* What start_turn and submit_user_input do under the lock once the status *)
(* allows them: push the optimistic message, mark the thread Running and   *)
(* persist. A failed upsert restores the previous record.                  *)
AcceptRun(r, run) ==
  LET next == Append(session, optimistic_message(r)) IN
  \/ /\ session' = next
     /\ status' = Running(run)
     /\ row' = persisted_thread_from_inner(Running(run), next, last_sequence)
     /\ optimistic_len' = [optimistic_len EXCEPT ![r] = Len(next)]
     /\ run_id' = [run_id EXCEPT ![r] = run]
     /\ pc' = [pc EXCEPT ![r] = "accepted"]
     /\ UNCHANGED <<last_sequence, faults, base, answers>>
  \/ upsert_fails /\ Refuse(r)

(* The turn handler before the lock: clone the base session, take a run id.*)
start_thread_turn(t) ==
  /\ Received(t)
  /\ base' = [base EXCEPT ![t] = session]
  /\ run_id' = [run_id EXCEPT ![t] = next_run_id]
  /\ next_run_id' = next_run_id + 1
  /\ pc' = [pc EXCEPT ![t] = "begun"]
  /\ UNCHANGED <<up, inner, row, crashes, faults, answers, optimistic_len,
                 replay, inflight, channels, readers>>

(* Mutant: only a blocked thread refuses a turn.                           *)
CanStartTurn_running == status.kind # "awaiting_user_input"

CanStartTurn == status.kind \in {"idle", "interrupted"}

start_turn(t) ==
  /\ pc[t] = "begun"
  /\ \/ ~CanStartTurn /\ Refuse(t) /\ UNCHANGED faults
     \/ CanStartTurn /\ AcceptRun(t, run_id[t])
  /\ UNCHANGED <<up, next_run_id, crashes, replay, inflight, channels,
                 readers>>

(* The user-input handler before the lock. The client answers a question   *)
(* it has seen in some snapshot or event of the thread.                    *)
submit_thread_user_input(r) ==
  /\ Received(r)
  /\ \E q \in Asked(session) : answers' = [answers EXCEPT ![r] = q]
  /\ base' = [base EXCEPT ![r] = session]
  /\ pc' = [pc EXCEPT ![r] = "begun"]
  /\ UNCHANGED <<up, inner, row, next_run_id, crashes, faults, run_id,
                 optimistic_len, replay, inflight, channels, readers>>

CanSubmit(r) == /\ status.kind = "awaiting_user_input"
                /\ status.request = answers[r]

submit_user_input(r) ==
  /\ pc[r] = "begun"
  /\ \/ ~CanSubmit(r) /\ Refuse(r) /\ UNCHANGED faults
     \/ CanSubmit(r) /\ AcceptRun(r, status.run)
  /\ UNCHANGED <<up, next_run_id, crashes, replay, inflight, channels,
                 readers>>

(* POST /sessions/{id}/message: allowed exactly when a turn may start.     *)
append_session_message(a) ==
  /\ Received(a)
  /\ \/ /\ CanStartTurn
        /\ session' = Append(session, user_text(a))
        /\ row' = persisted_thread_from_inner(status, session',
                                              last_sequence)
        /\ pc' = [pc EXCEPT ![a] = "appended"]
        /\ UNCHANGED <<status, last_sequence, faults, invocation>>
     \/ CanStartTurn /\ upsert_fails /\ Refuse(a)
     \/ ~CanStartTurn /\ Refuse(a) /\ UNCHANGED faults
  /\ UNCHANGED <<up, next_run_id, crashes, replay, inflight, channels,
                 readers>>

-----------------------------------------------------------------------------
(* n rounds of tool calls and their results.                               *)
tool_rounds(w, n) ==
  [i \in 1..(2 * n) |-> IF i % 2 = 1 THEN tool_use(w) ELSE tool_result(w)]

(* How the model may answer after that: fail, stream a batch that builds   *)
(* no message, answer in text, or ask the user (one question a message).   *)
model_answers(w) ==
  {[tail |-> <<>>, batch |-> 0, result |-> "err"],
   [tail |-> <<>>, batch |-> 1, result |-> "err"],
   [tail |-> <<assistant_text(w)>>, batch |-> 1, result |-> "ok"],
   [tail |-> <<request_user_input(w)>>, batch |-> 1, result |-> "err"]}

turn_execution(ses, w, n, answer) ==
  [final_session |-> ses \o tool_rounds(w, n) \o answer.tail,
   recorded_batches |-> n + answer.batch, result |-> answer.result]

continue_turn(ses, w) ==
  {turn_execution(ses, w, n, answer) :
     n \in ToolRounds, answer \in model_answers(w)}

failed_with(ses) ==
  {[final_session |-> ses, recorded_batches |-> 0, result |-> "err"]}

(* Mutant: a failed bootstrap returns the base session as it was.          *)
apply_optimistic_invocation_none(ses, w) == ses

apply_optimistic_invocation(ses, w) == Append(ses, optimistic_message(w))

(* The possible RunExecutions of a turn or of a resumed turn. A provider   *)
(* that cannot be built fails with apply_optimistic_invocation's session.  *)
execute_run(ses, w) ==
  LET next == Append(ses, optimistic_message(w))
      pending == pending_user_input_request(ses)
  IN failed_with(apply_optimistic_invocation(ses, w)) \cup
     IF w \in Turns
     THEN IF pending = None THEN continue_turn(next, w)
          ELSE failed_with(next)
     ELSE IF pending = answers[w] THEN continue_turn(next, w)
          ELSE failed_with(ses)

result_event(result, pending) ==
  IF result = "ok" THEN "run.completed"
  ELSE IF pending # None THEN "run.waiting_user_input" ELSE "run.failed"

(* Mutants: a pending question is forgotten; a run that asks stays Running.*)
completed_status_idle(r, pending) == Idle
completed_status_running(r, pending) ==
  IF pending # None THEN Running(r) ELSE Idle

completed_status(r, pending) ==
  IF pending # None THEN AwaitingUserInput(r, pending) ELSE Idle

(* Mutant: off by one past the optimistic message.                         *)
new_messages_short(final_session, len) ==
  SubSeq(final_session, len + 2, Len(final_session))

new_messages(final_session, len) ==
  SubSeq(final_session, len + 1, Len(final_session))

(* Where a worker stands after its legacy broadcasts.                      *)
ReplayPC(b) == IF b = 0 THEN "blocks" ELSE "replay"

(* complete_run's locked block: the session is replaced by the worker's    *)
(* own, whatever it is by now. If the upsert fails, memory keeps the new   *)
(* state and only run.failed is emitted.                                   *)
complete_with(w, final_session, recorded_batches, result) ==
  LET pending == pending_user_input_request(final_session)
      st == completed_status(run_id[w], pending)
      new == new_messages(final_session, optimistic_len[w])
  IN /\ session' = final_session
     /\ status' = st
     /\ \/ /\ row' = persisted_thread_from_inner(st, final_session,
                                                 last_sequence)
           /\ messages' = [messages EXCEPT ![w] = new]
           /\ batches' = [batches EXCEPT ![w] = recorded_batches]
           /\ outcome' = [outcome EXCEPT ![w] = result_event(result, pending)]
           /\ pc' = [pc EXCEPT ![w] = IF new = <<>>
                                      THEN ReplayPC(recorded_batches)
                                      ELSE "legacy"]
           /\ UNCHANGED faults
        \/ /\ upsert_fails
           /\ outcome' = [outcome EXCEPT ![w] = "run.failed"]
           /\ pc' = [pc EXCEPT ![w] = "terminal"]
           /\ UNCHANGED <<messages, batches>>

(* The worker: execute_run touches nothing shared, so that it and the      *)
(* locked block are one step.                                              *)
complete_run(w) ==
  /\ pc[w] = "working" /\ inflight[w] = <<>>
  /\ \E e \in execute_run(base[w], w) :
       complete_with(w, e.final_session, e.recorded_batches, e.result)
  /\ base' = [base EXCEPT ![w] = <<>>]
  /\ optimistic_len' = [optimistic_len EXCEPT ![w] = 0]
  /\ UNCHANGED <<up, last_sequence, next_run_id, crashes, run_id, answers,
                 cursor, inflight, channels, readers>>

-----------------------------------------------------------------------------
(* tokio's broadcast channel: a send without receivers is lost; a receiver *)
(* more than Capacity sends behind is told it lagged.                      *)
Receiving(reader, ids) ==
  \E i \in ids : reader[i].phase \in {"subscribed", "live"}
Lagged(pos, sent) == Len(sent) - pos > Capacity

broadcast_legacy_message(m) ==
  legacy_events' = IF Receiving(listener, Listeners)
                   THEN Append(legacy_events, m) ELSE legacy_events

BroadcastOptimistic(r) ==
  /\ pc[r] \in {"accepted", "appended"}
  /\ broadcast_legacy_message(optimistic_message(r))
  /\ pc' = [pc EXCEPT ![r] = IF @ = "accepted" THEN "announcing"
                             ELSE "done"]
  /\ UNCHANGED <<up, inner, row, next_run_id, crashes, faults, invocation,
                 replay, inflight, protocol_events, readers>>

BroadcastNew(w) ==
  LET next == cursor[w] + 1
      last == next = Len(messages[w])
  IN /\ pc[w] = "legacy" /\ next <= Len(messages[w])
     /\ broadcast_legacy_message(messages[w][next])
     /\ cursor' = [cursor EXCEPT ![w] = IF last THEN 0 ELSE next]
     /\ pc' = [pc EXCEPT ![w] = IF last THEN ReplayPC(batches[w]) ELSE @]
     /\ UNCHANGED <<up, inner, row, next_run_id, crashes, faults, invocation,
                    messages, batches, outcome, inflight, protocol_events,
                    readers>>

(* emit_protocol_event: the sequence is taken under the lock, the envelope *)
(* is sent after the lock is released.                                     *)
stamp(r, type) ==
  /\ inflight[r] = <<>>
  /\ last_sequence' = last_sequence + 1
  /\ inflight' = [inflight EXCEPT
                    ![r] = <<[sequence |-> last_sequence + 1,
                              run |-> run_id[r], type |-> type]>>]

send(r) ==
  /\ inflight[r] # <<>>
  /\ protocol_events' = IF Receiving(stream, Streams)
                        THEN Append(protocol_events, inflight[r][1])
                        ELSE protocol_events
  /\ inflight' = [inflight EXCEPT ![r] = <<>>]
  /\ UNCHANGED <<up, inner, row, next_run_id, crashes, faults, pc,
                 invocation, replay, legacy_events, readers>>

Announce(r) ==
  /\ pc[r] = "announcing"
  /\ stamp(r, IF r \in Replies THEN "user_input.submitted"
              ELSE "run.started")
  /\ pc' = [pc EXCEPT ![r] = "working"]
  /\ UNCHANGED <<up, status, session, row, next_run_id, crashes, faults,
                 invocation, replay, channels, readers>>

(* emit_protocol_replay: the events of a batch (one stands for all), then  *)
(* the blocks of the messages behind its assistant message; after the last *)
(* batch, the blocks of whatever is left.                                  *)
AtAssistant(w) == /\ cursor[w] < Len(messages[w])
                  /\ IsAssistant(messages[w][cursor[w] + 1])
BlocksLeft(w) == /\ cursor[w] < Len(messages[w])
                 /\ AtAssistant(w) => batches[w] = 0

ReplayBatch(w) ==
  /\ pc[w] = "replay" \/ (pc[w] = "blocks" /\ ~BlocksLeft(w))
  /\ batches[w] > 0
  /\ stamp(w, "assistant")
  /\ batches' = [batches EXCEPT ![w] = @ - 1]
  /\ cursor' = [cursor EXCEPT ![w] = IF AtAssistant(w) THEN @ + 1 ELSE @]
  /\ pc' = [pc EXCEPT ![w] = "blocks"]
  /\ UNCHANGED <<up, status, session, row, next_run_id, crashes, faults,
                 invocation, messages, outcome, channels, readers>>

emit_protocol_message_blocks(w, m) ==
  \/ m.kind = "tool" /\ stamp(w, "assistant.tool_result")
  \/ m.kind = "response" /\ stamp(w, "user_input.submitted")
  \/ /\ m.kind \notin {"tool", "response"}
     /\ inflight[w] = <<>>
     /\ UNCHANGED <<last_sequence, inflight>>

ReplayBlocks(w) ==
  /\ pc[w] = "blocks" /\ BlocksLeft(w)
  /\ emit_protocol_message_blocks(w, messages[w][cursor[w] + 1])
  /\ cursor' = [cursor EXCEPT ![w] = @ + 1]
  /\ UNCHANGED <<up, status, session, row, next_run_id, crashes, faults, pc,
                 invocation, messages, batches, outcome, channels, readers>>

EmitTerminal(w) ==
  /\ \/ pc[w] = "terminal"
     \/ pc[w] = "blocks" /\ ~BlocksLeft(w) /\ batches[w] = 0
  /\ stamp(w, outcome[w])
  /\ pc' = [pc EXCEPT ![w] = "done"]
  /\ run_id' = [run_id EXCEPT ![w] = 0]
  /\ messages' = [messages EXCEPT ![w] = <<>>]
  /\ cursor' = [cursor EXCEPT ![w] = 0]
  /\ outcome' = [outcome EXCEPT ![w] = "run.failed"]
  /\ UNCHANGED <<up, status, session, row, next_run_id, crashes, faults,
                 base, answers, optimistic_len, batches, channels, readers>>

-----------------------------------------------------------------------------
(* stream_thread_events: subscribe, then take the snapshot, then receive.  *)
subscribe_protocol(s) ==
  /\ up /\ stream[s].phase = "off"
  /\ stream' = [stream EXCEPT ![s].phase = "subscribed",
                              ![s].pos = Len(protocol_events)]
  /\ UNCHANGED <<up, inner, row, next_run_id, crashes, faults, pc,
                 invocation, replay, inflight, channels, listener>>

snapshot_event(s) ==
  /\ stream[s].phase = "subscribed"
  /\ stream' = [stream EXCEPT
                  ![s].phase = "live",
                  ![s].first = last_sequence,
                  ![s].snapshot_sequence = last_sequence,
                  ![s].watching = IF status.kind = "running"
                                  THEN status.run ELSE 0]
  /\ UNCHANGED <<up, inner, row, next_run_id, crashes, faults, pc,
                 invocation, replay, inflight, channels, listener>>

(* Mutant: off by one in the filter.                                       *)
Stale_next(s, e) == e.sequence <= stream[s].snapshot_sequence + 1

(* The filter of recv_thread_stream_event.                                 *)
Stale(s, e) == e.sequence <= stream[s].snapshot_sequence

recv_thread_stream_event(s) ==
  LET e == protocol_events[stream[s].pos + 1] IN
  /\ stream[s].phase = "live"
  /\ stream[s].pos < Len(protocol_events)
  /\ stream' =
       IF Lagged(stream[s].pos, protocol_events)
       THEN [stream EXCEPT ![s].phase = "resync"]
       ELSE IF Stale(s, e)
            THEN [stream EXCEPT ![s].pos = @ + 1]
            ELSE [stream EXCEPT ![s].pos = @ + 1,
                                ![s].snapshot_sequence = e.sequence,
                                ![s].got = Append(@, e)]
  /\ UNCHANGED <<up, inner, row, next_run_id, crashes, faults, pc,
                 invocation, replay, inflight, channels, listener>>

(* stream_session_events: the same shape without a filter; a lagging       *)
(* receiver ends the stream without a word.                                *)
subscribe_legacy(l) ==
  /\ up /\ listener[l].phase = "off"
  /\ listener' = [listener EXCEPT ![l].phase = "subscribed",
                                  ![l].pos = Len(legacy_events)]
  /\ UNCHANGED <<up, inner, row, next_run_id, crashes, faults, pc,
                 invocation, replay, inflight, channels, stream>>

current_session_snapshot(l) ==
  /\ listener[l].phase = "subscribed"
  /\ listener' = [listener EXCEPT ![l].phase = "live", ![l].got = session]
  /\ UNCHANGED <<up, inner, row, next_run_id, crashes, faults, pc,
                 invocation, replay, inflight, channels, stream>>

recv_legacy_session_event(l) ==
  /\ listener[l].phase = "live"
  /\ listener[l].pos < Len(legacy_events)
  /\ listener' =
       IF Lagged(listener[l].pos, legacy_events)
       THEN [listener EXCEPT ![l].phase = "closed"]
       ELSE [listener EXCEPT
               ![l].pos = @ + 1,
               ![l].got = Append(@, legacy_events[listener[l].pos + 1])]
  /\ UNCHANGED <<up, inner, row, next_run_id, crashes, faults, pc,
                 invocation, replay, inflight, channels, stream>>

-----------------------------------------------------------------------------
(* The process dies: memory, channels, handlers and workers are gone. What *)
(* was accepted stays accepted, what was only begun was never answered.    *)
Crash ==
  /\ up /\ crashes < MaxCrashes
  /\ up' = FALSE
  /\ crashes' = crashes + 1
  /\ status' = Idle /\ session' = <<>> /\ last_sequence' = 0
  /\ next_run_id' = 1
  /\ pc' = [r \in Requests |->
              IF pc[r] \in {"new", "refused"} THEN pc[r]
              ELSE IF pc[r] = "begun" THEN "refused" ELSE "done"]
  /\ base' = [r \in Requests |-> <<>>]
  /\ run_id' = [r \in Requests |-> 0]
  /\ optimistic_len' = [r \in Requests |-> 0]
  /\ messages' = [r \in Requests |-> <<>>]
  /\ batches' = [r \in Requests |-> 0]
  /\ cursor' = [r \in Requests |-> 0]
  /\ outcome' = [r \in Requests |-> "run.failed"]
  /\ inflight' = [r \in Requests |-> <<>>]
  /\ protocol_events' = <<>> /\ legacy_events' = <<>>
  /\ stream' = [s \in Streams |->
                  [stream[s] EXCEPT
                     !.phase = IF @ \in {"subscribed", "live"} THEN "closed"
                               ELSE @]]
  /\ listener' = [l \in Listeners |->
                    [listener[l] EXCEPT
                       !.phase = IF @ \in {"subscribed", "live"}
                                 THEN "closed" ELSE @]]
  /\ UNCHANGED <<row, faults, answers>>

next_counter(a, b) == IF a >= b THEN a + 1 ELSE b + 1

(* AppState::load_for_cwd on the thread's row. A recovered status that     *)
(* differs from the stored one is written back; if that fails, so does the *)
(* start of the server.                                                    *)
needs_rewrite == recovered_status_from_persisted(row).kind # row.status

load_fails ==
  /\ ~up /\ needs_rewrite
  /\ upsert_fails
  /\ UNCHANGED <<up, inner, next_run_id, crashes, pc, invocation, replay,
                 inflight, channels, readers>>

load_for_cwd ==
  LET st == recovered_status_from_persisted(row) IN
  /\ ~up
  /\ up' = TRUE
  /\ status' = st
  /\ session' = row.session
  /\ last_sequence' = row.last_sequence
  /\ next_run_id' = next_counter(row.last_run_id, st.run)
  /\ row' = IF needs_rewrite
            THEN persisted_thread_from_inner(st, row.session,
                                             row.last_sequence)
            ELSE row
  /\ UNCHANGED <<crashes, faults, pc, invocation, replay, inflight, channels,
                 readers>>

(* Nothing is under way: the server waits for a request.                   *)
Waiting ==
  /\ up /\ \A r \in Requests : Over(r)
  /\ UNCHANGED vars

(* The steps a handler or worker that has begun goes on to take.           *)
Proceed(r) ==
  \/ r \in Turns /\ start_turn(r)
  \/ r \in Replies /\ submit_user_input(r)
  \/ BroadcastOptimistic(r)
  \/ Announce(r)
  \/ complete_run(r)
  \/ BroadcastNew(r)
  \/ ReplayBatch(r)
  \/ ReplayBlocks(r)
  \/ EmitTerminal(r)
  \/ send(r)

StreamStep(s) == snapshot_event(s) \/ recv_thread_stream_event(s)
ListenerStep(l) == current_session_snapshot(l) \/ recv_legacy_session_event(l)

Next ==
  \/ \E t \in Turns : start_thread_turn(t)
  \/ \E r \in Replies : submit_thread_user_input(r)
  \/ \E a \in Appends : append_session_message(a)
  \/ \E r \in Requests : Proceed(r)
  \/ \E s \in Streams : subscribe_protocol(s) \/ StreamStep(s)
  \/ \E l \in Listeners : subscribe_legacy(l) \/ ListenerStep(l)
  \/ Crash
  \/ load_for_cwd
  \/ load_fails
  \/ Waiting

Spec == Init /\ [][Next]_vars

(* A handler that was entered runs to its end (it has no await point after *)
(* its input is parsed), a worker's model call returns, a live stream is   *)
(* polled. Nothing makes a client send, the process crash or an operator   *)
(* restart it.                                                             *)
FairSpec ==
  /\ Spec
  /\ \A r \in Requests : WF_vars(Proceed(r))
  /\ \A s \in Streams : WF_vars(StreamStep(s))
  /\ \A l \in Listeners : WF_vars(ListenerStep(l))

-----------------------------------------------------------------------------
(* The requests whose run the thread is in.                                *)
Owners == {r \in Requests : pc[r] \in {"accepted", "announcing", "working"}}

(* complete_run replaces session and status without looking at either:     *)
(* that is safe only because a Running thread always has exactly one       *)
(* handler or worker in charge of it, with the run id of the status, and a *)
(* thread that is not Running has none.                                    *)
RunOwned ==
  up => /\ status.kind = "running" <=> Owners # {}
        /\ \A v, w \in Owners : v = w
        /\ \A w \in Owners : run_id[w] = status.run

(* From the moment a turn or reply is accepted until its run completes its *)
(* input is in the session and in the store, in a row that restarts as     *)
(* interrupted with the same run id, whatever other requests do.           *)
ActiveInputDurable ==
  \A w \in Owners :
    /\ Holds(session, optimistic_message(w))
    /\ Holds(row.session, optimistic_message(w))
    /\ recovered_status_from_persisted(row)
         = Interrupted(run_id[w], "restart")

(* Memory and store differ only while the completion of a run could not be *)
(* persisted, and then the row still restarts as interrupted: a restart    *)
(* never shows a stale idle or awaiting thread as if it were current.      *)
StaleRowInterrupts ==
  up => \/ row = persisted_thread_from_inner(status, session,
                                            row.last_sequence)
        \/ row.status = "running" /\ status.kind # "running"

(* The consistency checks of load_for_cwd never fire: whatever is crashed  *)
(* into, the stored status agrees with the question pending in the stored  *)
(* session, so an unanswered question is always offered again as it was.   *)
RecoveryConsistent ==
  recovered_status_from_persisted(row).note \in {"none", "restart"}

(* The status and session a thread can have together: an idle thread has   *)
(* no question pending, an awaiting one waits for the pending question of  *)
(* its session, and only a restart interrupts.                             *)
Sound(st, ses) ==
  \/ st = Idle /\ pending_user_input_request(ses) = None
  \/ st.run # 0 /\ st = Running(st.run)
  \/ /\ st.run # 0 /\ pending_user_input_request(ses) # None
     /\ st = AwaitingUserInput(st.run, pending_user_input_request(ses))
  \/ st.run # 0 /\ st = Interrupted(st.run, "restart")

StoredStatus(p) == [kind |-> p.status, run |-> p.last_run_id,
                    request |-> p.pending_request, note |-> p.recovery_note]

(* What keeps the thread recoverable at every step: one owner per run, a   *)
(* status that fits the session in memory and in the store, a run id for   *)
(* every turn that may be accepted, the input of the active run in the     *)
(* session, and nobody at work while the process is down.                  *)
ServerInv ==
  /\ RunOwned
  /\ StaleRowInterrupts
  /\ up => Sound(status, session)
  /\ Sound(StoredStatus(row), row.session)
  /\ \A t \in Turns : pc[t] = "begun" => run_id[t] # 0
  /\ \A w \in Owners : Holds(session, optimistic_message(w))
  /\ ~up => \A r \in Requests : pc[r] \in {"new", "refused", "done"}

Accepted(r) == pc[r] \notin {"new", "begun", "refused"}

(* An input the server accepted is never dropped from the thread, in       *)
(* memory or in the store: each run completes with a session that extends  *)
(* the one it was accepted into.                                           *)
AcceptedInputsKept ==
  \A r \in Requests :
    Accepted(r) => /\ up => Holds(session, optimistic_message(r))
                   /\ Holds(row.session, optimistic_message(r))

(* A live stream has passed on every event it took from the channel that   *)
(* its opening snapshot does not already cover.                            *)
StreamFidelity ==
  \A s \in Streams :
    stream[s].phase = "live" =>
      \A i \in 1..stream[s].pos :
        protocol_events[i].sequence > stream[s].first =>
          \E j \in 1..Len(stream[s].got) :
            stream[s].got[j] = protocol_events[i]

(* A live legacy stream that has caught up with a thread at rest has shown *)
(* exactly the messages of its session (repeats allowed).                  *)
LegacyStreamComplete ==
  \A l \in Listeners :
    ( /\ listener[l].phase = "live"
      /\ listener[l].pos = Len(legacy_events)
      /\ \A r \in Requests : Over(r) ) =>
    {listener[l].got[i] : i \in 1..Len(listener[l].got)}
      = {session[i] : i \in 1..Len(session)}

(* Why these hold when clients wait for the end of each request: nobody is *)
(* at work beside the request that is under way, so that the session its   *)
(* run replaces is still the one it was accepted into.                     *)
OneAtATime == \A r, o \in Requests : ~Over(r) /\ ~Over(o) => r = o

OwnSession(r) ==
  /\ pc[r] = "begun" => base[r] = session
  /\ r \in Owners =>
       /\ r \in Turns \cup Replies
       /\ session = Append(base[r], optimistic_message(r))
       /\ optimistic_len[r] = Len(session)
       /\ cursor[r] = 0
       /\ r \in Replies =>
            pending_user_input_request(base[r]) = answers[r]
  /\ pc[r] \in {"new", "begun"} => cursor[r] = 0

InputInv == /\ OneAtATime
            /\ \A r \in Requests : OwnSession(r)
            /\ AcceptedInputsKept

(* Envelopes are sent in the order of their sequences, so that the newest  *)
(* one a stream has passed on is older than all it has not taken yet.      *)
OrderInv ==
  /\ \A i, j \in 1..Len(protocol_events) :
       i < j => protocol_events[i].sequence < protocol_events[j].sequence
  /\ \A i \in 1..Len(protocol_events) : protocol_events[i].sequence <= last_sequence
  /\ \A r \in Requests : inflight[r] # <<>> =>
       /\ up /\ inflight[r][1].sequence = last_sequence
       /\ \A i \in 1..Len(protocol_events) : protocol_events[i].sequence < last_sequence
  /\ ~up => protocol_events = <<>>

PassedOn(s) ==
  /\ stream[s].phase \in {"subscribed", "live"} =>
       up /\ stream[s].pos <= Len(protocol_events)
  /\ stream[s].phase = "live" =>
       \/ stream[s].snapshot_sequence = stream[s].first
       \/ \E i \in 1..stream[s].pos : protocol_events[i].sequence = stream[s].snapshot_sequence

StreamInv == OrderInv /\ (\A s \in Streams : PassedOn(s)) /\ StreamFidelity

(* What a legacy stream has not shown of the session is still on its way:  *)
(* in the channel, or due to be broadcast by the request under way.        *)
DueFrom(r, m) ==
  \/ pc[r] \in {"accepted", "appended"} /\ m = optimistic_message(r)
  \/ /\ pc[r] = "legacy"
     /\ \E i \in (cursor[r] + 1)..Len(messages[r]) : messages[r][i] = m

Due(m) == \E r \in Requests : DueFrom(r, m)

Shows(l, m) ==
  \/ Holds(listener[l].got, m)
  \/ \E i \in (listener[l].pos + 1)..Len(legacy_events) :
       legacy_events[i] = m
  \/ Due(m)

Covers(l) ==
  /\ listener[l].phase \in {"subscribed", "live"} =>
       up /\ listener[l].pos <= Len(legacy_events)
  /\ listener[l].phase = "live" =>
       /\ \A m \in Message : Holds(listener[l].got, m) => Holds(session, m)
       /\ \A m \in Message : Holds(session, m) => Shows(l, m)

LegacyInv ==
  /\ \A m \in Message : Holds(legacy_events, m) \/ Due(m) => Holds(session, m)
  /\ \A l \in Listeners : Covers(l)
  /\ ~up => legacy_events = <<>>

(* A Running thread comes to rest: every accepted run completes, fails or  *)
(* asks (unless the process dies).                                         *)
RunsEnd == (up /\ status.kind = "running") ~>
             (~up \/ status.kind # "running")

(* A stream that opened on a running thread is told how that run ended, or *)
(* is told to resynchronise, or is cut off.                                *)
WatcherLearnsEnd ==
  \A s \in Streams :
    (stream[s].phase = "live" /\ stream[s].watching # 0) ~>
      \/ stream[s].phase \in {"resync", "closed"}
      \/ \E i \in 1..Len(stream[s].got) :
           /\ stream[s].got[i].type \in Terminal
           /\ stream[s].got[i].run = stream[s].watching
-----------------------------------------------------------------------------
(* The thread record implements ThreadLifecycle: what a snapshot shows is  *)
(* the status in memory, what a restart would show is what load_for_cwd    *)
(* makes of the row.                                                       *)

(* thread_state_snapshot: the status a client sees, with its run.          *)
Shown(st) == [kind |-> st.kind, run |-> st.run]

Lifecycle == INSTANCE ThreadLifecycle
               WITH now <- Shown(status),
                    durable <- Shown(recovered_status_from_persisted(row))

(* Whatever handlers, workers, crashes and failing upserts do, a thread    *)
(* goes from rest to a run with its own id, from a run to rest or to a     *)
(* question of that run, and back from a crash to exactly what was stored: *)
(* an accepted run is never forgotten, only interrupted.                   *)
ImplementsLifecycle == Lifecycle!Spec
-----------------------------------------------------------------------------
(* Turns are interchangeable, and so are replies: their ids are only       *)
(* compared. Used in runs without liveness properties.                     *)
Symmetric == Permutations(Turns) \cup Permutations(Replies)
=============================================================================
