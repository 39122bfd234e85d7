-------------------------- MODULE ThreadRecordProofs --------------------------
(***************************************************************************)
(* Proofs about ThreadRecord, for any numbers of requests, streams,        *)
(* crashes and store faults: its types; its safety, without the Serial     *)
(* discipline; and what a thread whose clients wait for each other         *)
(* delivers.                                                               *)
(***************************************************************************)
EXTENDS ThreadRecord, SequenceTheorems, WellFoundedInduction, TLAPS

(* A nonempty set of natural numbers has a least element.                  *)
LEMMA LeastElement ==
  ASSUME NEW T, T \subseteq Nat, T # {}
  PROVE  \E i \in T : \A j \in T : i <= j
<1>1. PICK x \in T : \A y \in T : ~(<<y, x>> \in OpToRel(<, Nat))
  BY NatLessThanWellFounded, WFMin
<1>2. \A y \in T : ~(y < x)
  BY <1>1 DEF OpToRel
<1> QED
  BY <1>2

(* The constructors build messages.                                        *)
LEMMA MessageTypes ==
  ASSUME NEW w \in Writers, NEW q \in Writers \cup {None}
  PROVE  /\ user_text(w) \in Message
         /\ assistant_text(w) \in Message
         /\ tool_use(w) \in Message
         /\ tool_result(w) \in Message
         /\ request_user_input(w) \in Message
         /\ user_input_response(w, q) \in Message
BY DEF user_text, assistant_text, tool_use, tool_result, request_user_input,
       user_input_response, Message, Kinds

(* The pending question is that of the first unanswered position.          *)
LEMMA PendingPosition ==
  ASSUME NEW ses \in Seq(Message), Unanswered(ses) # {}
  PROVE  \E i \in Unanswered(ses) :
           /\ \A j \in Unanswered(ses) : i <= j
           /\ pending_user_input_request(ses) = ses[i].src
<1>1. Unanswered(ses) \subseteq Nat
  BY DEF Unanswered
<1>2. \E i \in Unanswered(ses) : \A j \in Unanswered(ses) : i <= j
  BY <1>1, LeastElement
<1> DEFINE k == CHOOSE i \in Unanswered(ses) :
                  \A j \in Unanswered(ses) : i <= j
<1>3. k \in Unanswered(ses) /\ \A j \in Unanswered(ses) : k <= j
  BY <1>2
<1>4. pending_user_input_request(ses) = ses[k].src
  BY DEF pending_user_input_request
<1> QED
  BY <1>3, <1>4

(* There is a pending question exactly when some question is unanswered,   *)
(* and it is a request id.                                                 *)
LEMMA PendingType ==
  ASSUME NEW ses \in Seq(Message)
  PROVE  /\ pending_user_input_request(ses) \in Writers \cup {None}
         /\ pending_user_input_request(ses) = None <=> Unanswered(ses) = {}
<1>1. CASE Unanswered(ses) = {}
  BY <1>1 DEF pending_user_input_request
<1>2. CASE Unanswered(ses) # {}
  <2>1. PICK i \in Unanswered(ses) :
          pending_user_input_request(ses) = ses[i].src
    BY <1>2, PendingPosition
  <2>2. ses[i] \in Message
    BY ElementOfSeq DEF Unanswered
  <2> QED
    BY <1>2, <2>1, <2>2, NoneAssumption DEF Message
<1> QED
  BY <1>1, <1>2

(* A message that is neither a question nor a response leaves the pending  *)
(* question as it is.                                                      *)
LEMMA PendingAfterPlain ==
  ASSUME NEW ses \in Seq(Message), NEW m \in Message,
         m.kind \notin {"ask", "response"}
  PROVE  pending_user_input_request(Append(ses, m))
           = pending_user_input_request(ses)
<1> DEFINE nxt == Append(ses, m)
<1>1. nxt \in Seq(Message) /\ Len(nxt) = Len(ses) + 1
  BY AppendProperties
<1>2. \A i \in 1..Len(ses) : nxt[i] = ses[i]
  BY AppendProperties
<1>3. nxt[Len(ses) + 1] = m
  BY AppendProperties
<1>4. Len(ses) \in Nat
  BY LenProperties
<1>5. Unanswered(nxt) = Unanswered(ses)
  <2>1. ASSUME NEW i \in Unanswered(nxt)
        PROVE  i \in Unanswered(ses)
    <3>1. i \in 1..Len(ses) + 1 /\ nxt[i].kind = "ask"
      BY <1>1 DEF Unanswered
    <3>2. i # Len(ses) + 1
      BY <3>1, <1>3
    <3>3. i \in 1..Len(ses)
      BY <3>1, <3>2, <1>4
    <3>4. \A j \in 1..Len(ses) : j \in 1..Len(nxt)
      BY <1>1, <1>4
    <3> QED
      BY <3>1, <3>3, <3>4, <1>2 DEF Unanswered
  <2>2. ASSUME NEW i \in Unanswered(ses)
        PROVE  i \in Unanswered(nxt)
    <3>1. i \in 1..Len(ses) /\ ses[i].kind = "ask"
      BY DEF Unanswered
    <3>2. i \in 1..Len(nxt) /\ nxt[i].kind = "ask" /\ nxt[i].src = ses[i].src
      BY <3>1, <1>1, <1>2, <1>4
    <3>3. ASSUME NEW j \in 1..Len(nxt), i < j, nxt[j].kind = "response",
                 nxt[j].ask = nxt[i].src
          PROVE  FALSE
      <4>1. j # Len(ses) + 1
        BY <3>3, <1>3
      <4>2. j \in 1..Len(ses)
        BY <4>1, <1>1, <1>4
      <4> QED
        BY <4>2, <3>3, <3>2, <1>2 DEF Unanswered
    <3> QED
      BY <3>2, <3>3 DEF Unanswered
  <2> QED
    BY <2>1, <2>2
<1>6. CASE Unanswered(ses) = {}
  BY <1>5, <1>6 DEF pending_user_input_request
<1>7. CASE Unanswered(ses) # {}
  <2>1. PICK i \in Unanswered(ses) :
          /\ \A j \in Unanswered(ses) : i <= j
          /\ pending_user_input_request(ses) = ses[i].src
    BY <1>7, PendingPosition
  <2>2. PICK k \in Unanswered(nxt) :
          /\ \A j \in Unanswered(nxt) : k <= j
          /\ pending_user_input_request(nxt) = nxt[k].src
    BY <1>1, <1>5, <1>7, PendingPosition
  <2>3. i = k /\ i \in 1..Len(ses)
    <3>1. i <= k /\ k <= i
      BY <2>1, <2>2, <1>5
    <3>2. i \in 1..Len(ses) /\ k \in 1..Len(nxt)
      BY <2>1, <2>2 DEF Unanswered
    <3> HIDE DEF nxt
    <3> QED BY <3>1, <3>2, <1>1
  <2> QED
    BY <2>1, <2>2, <2>3, <1>2
<1> QED
  BY <1>6, <1>7
-----------------------------------------------------------------------------
(* The requests are everything that can author a message.                  *)
LEMMA RequestsAreWriters == Requests = Writers
BY ThreadAssumption DEF Requests

(* Every optimistic message is a message.                                  *)
LEMMA OptimisticType ==
  ASSUME TypeOK, NEW r \in Requests
  PROVE  optimistic_message(r) \in Message
<1>1. r \in Writers /\ answers[r] \in Writers \cup {None}
  BY RequestsAreWriters DEF TypeOK, RequestTypeOK
<1> QED
  BY <1>1, MessageTypes DEF optimistic_message

Execution == [final_session : Seq(Message), recorded_batches : Nat,
              result : {"ok", "err"}]

(* The rounds of tool calls a run takes are messages.                      *)
LEMMA ToolRoundsType ==
  ASSUME NEW w \in Writers, NEW n \in Nat
  PROVE  tool_rounds(w, n) \in Seq(Message)
<1>1. 2 * n \in Nat
  OBVIOUS
<1>2. \A i \in 1..(2 * n) :
        (IF i % 2 = 1 THEN tool_use(w) ELSE tool_result(w)) \in Message
  BY MessageTypes
<1> QED
  BY <1>1, <1>2, IsASeq DEF tool_rounds

(* What the model answers after them is at most one message.               *)
LEMMA AnswerType ==
  ASSUME NEW w \in Writers, NEW x \in model_answers(w)
  PROVE  /\ x.tail \in Seq(Message)
         /\ x.batch \in Nat
         /\ x.result \in {"ok", "err"}
<1>1. assistant_text(w) \in Message /\ request_user_input(w) \in Message
  BY MessageTypes
<1>2. CASE x = [tail |-> <<>>, batch |-> 0, result |-> "err"]
  BY <1>2
<1>3. CASE x = [tail |-> <<>>, batch |-> 1, result |-> "err"]
  BY <1>3
<1>4. CASE x = [tail |-> <<assistant_text(w)>>, batch |-> 1,
                result |-> "ok"]
  BY <1>1, <1>4
<1>5. CASE x = [tail |-> <<request_user_input(w)>>, batch |-> 1,
                result |-> "err"]
  BY <1>1, <1>5
<1> QED
  BY <1>2, <1>3, <1>4, <1>5 DEF model_answers

(* The model loop returns an execution whose session extends its input.    *)
LEMMA ContinueTurnType ==
  ASSUME NEW ses \in Seq(Message), NEW w \in Writers,
         NEW e \in continue_turn(ses, w)
  PROVE  /\ e \in Execution
         /\ \E more \in Seq(Message) : e.final_session = ses \o more
<1>1. PICK n \in ToolRounds, x \in model_answers(w) :
        e = turn_execution(ses, w, n, x)
  BY DEF continue_turn
<1>2. n \in Nat
  BY ThreadAssumption
<1> DEFINE rounds == tool_rounds(w, n)
           tail == x.tail
<1>3. /\ rounds \in Seq(Message) /\ tail \in Seq(Message)
      /\ x.batch \in Nat /\ x.result \in {"ok", "err"}
  BY <1>2, ToolRoundsType, AnswerType
<1>4. e = [final_session |-> ses \o rounds \o tail,
           recorded_batches |-> n + x.batch, result |-> x.result]
  BY <1>1 DEF turn_execution
<1> HIDE DEF rounds, tail
<1>5. rounds \o tail \in Seq(Message)
  BY <1>3, ConcatProperties
<1>6. (ses \o rounds) \o tail = ses \o (rounds \o tail)
  BY <1>3, ConcatAssociative
<1>7. e.final_session = ses \o (rounds \o tail)
  BY <1>4, <1>6
<1>8. ses \o (rounds \o tail) \in Seq(Message)
  BY <1>5, ConcatProperties
<1>9. n + x.batch \in Nat
  BY <1>2, <1>3
<1>10. e \in Execution
  BY <1>3, <1>4, <1>6, <1>8, <1>9 DEF Execution
<1> QED
  BY <1>5, <1>7, <1>10

(* A worker returns an execution, whichever way its run goes.              *)
LEMMA ExecuteRunType ==
  ASSUME TypeOK, NEW w \in Requests, NEW ses \in Seq(Message),
         NEW e \in execute_run(ses, w)
  PROVE  e \in Execution
<1>1. Append(ses, optimistic_message(w)) \in Seq(Message)
  BY OptimisticType, AppendProperties
<1>2. w \in Writers
  BY RequestsAreWriters
<1>3. ASSUME NEW s \in Seq(Message), e \in failed_with(s)
      PROVE  e \in Execution
  BY <1>3 DEF failed_with, Execution
<1> QED
  BY <1>1, <1>2, <1>3, ContinueTurnType
  DEF execute_run, apply_optimistic_invocation

(* The four constructors of ThreadStatus build statuses.                   *)
LEMMA StatusTypes ==
  ASSUME NEW r \in Nat, NEW q \in Writers \cup {None}, NEW n \in Notes
  PROVE  /\ Idle \in Status
         /\ Running(r) \in Status
         /\ AwaitingUserInput(r, q) \in Status
         /\ Interrupted(r, n) \in Status
BY DEF Idle, Running, AwaitingUserInput, Interrupted, Status, StatusKinds,
       Notes

(* A status, a session and a sequence make a row of the store.             *)
LEMMA PersistedType ==
  ASSUME NEW st \in Status, NEW ses \in Seq(Message), NEW seq \in Nat
  PROVE  persisted_thread_from_inner(st, ses, seq) \in Rows
BY DEF persisted_thread_from_inner, Rows, Status

(* Every row restarts as some status.                                      *)
LEMMA RecoveredType ==
  ASSUME NEW p \in Rows
  PROVE  recovered_status_from_persisted(p) \in Status
<1>1. /\ p.last_run_id \in Nat
      /\ p.pending_request \in Writers \cup {None}
      /\ p.status \in StatusKinds
      /\ p.recovery_note \in Notes
  BY DEF Rows
<1>2. "restart" \in Notes /\ "idle_pending" \in Notes
      /\ "pending_mismatch" \in Notes /\ "requires_recovery" \in Notes
  BY DEF Notes
<1>3. CASE p.status = "idle"
  BY <1>1, <1>2, <1>3, StatusTypes DEF recovered_status_from_persisted
<1>4. CASE p.status = "running"
  BY <1>1, <1>2, <1>4, StatusTypes DEF recovered_status_from_persisted
<1>5. CASE p.status = "awaiting_user_input"
  BY <1>1, <1>2, <1>5, StatusTypes DEF recovered_status_from_persisted
<1>6. CASE p.status = "interrupted"
  BY <1>1, <1>2, <1>6, StatusTypes DEF recovered_status_from_persisted
<1> QED
  BY <1>1, <1>3, <1>4, <1>5, <1>6 DEF StatusKinds

(* The status complete_run leaves is a status.                             *)
LEMMA CompletedStatusType ==
  ASSUME NEW r \in Nat, NEW q \in Writers \cup {None}
  PROVE  completed_status(r, q) \in Status
BY StatusTypes DEF completed_status, Notes

-----------------------------------------------------------------------------
(* Type correctness: the initial state has the types of TypeOK.            *)
LEMMA InitType == Init => TypeOK
<1> SUFFICES ASSUME Init PROVE TypeOK
  OBVIOUS
<1>1. <<>> \in Seq(Message) /\ <<>> \in Seq(Envelope)
  OBVIOUS
<1>2. Idle \in Status
  BY DEF Idle, Status, StatusKinds, Notes
<1>3. row \in Rows
  BY <1>1, <1>2, PersistedType DEF Init
<1> QED
  <2>1. ServerTypeOK
    BY <1>1, <1>2, <1>3, ThreadAssumption DEF Init, ServerTypeOK
  <2>2. RequestTypeOK
    BY <1>1 DEF Init, RequestTypeOK, PCs
  <2>3. ReplayTypeOK
    BY <1>1 DEF Init, ReplayTypeOK, Terminal
  <2>4. ReaderTypeOK
    BY <1>1 DEF Init, ReaderTypeOK, StreamStates, ListenerStates
  <2> QED
    BY <2>1, <2>2, <2>3, <2>4 DEF TypeOK

(* One lemma per action, or per group of actions that share their effect.  *)
LEMMA BeginType ==
  ASSUME TypeOK, NEW r \in Requests,
         start_thread_turn(r) \/ submit_thread_user_input(r)
  PROVE  TypeOK'
<1> USE DEF inner, replay, channels, readers
<1>1. Asked(session) \subseteq Writers
  <2>1. \A i \in 1..Len(session) : session[i] \in Message
    BY ElementOfSeq DEF TypeOK, ServerTypeOK
  <2> QED
    BY <2>1 DEF Asked, Message
<1>2. CASE start_thread_turn(r)
  <2>1. ServerTypeOK'
    BY <1>2 DEF start_thread_turn, TypeOK, ServerTypeOK
  <2>2. RequestTypeOK'
    BY <1>2 DEF start_thread_turn, TypeOK, ServerTypeOK, RequestTypeOK, PCs
  <2>3. ReplayTypeOK' /\ ReaderTypeOK'
    BY <1>2 DEF start_thread_turn, TypeOK, ReplayTypeOK, ReaderTypeOK
  <2> QED
    BY <2>1, <2>2, <2>3 DEF TypeOK
<1>3. CASE submit_thread_user_input(r)
  <2>1. ServerTypeOK'
    BY <1>3 DEF submit_thread_user_input, TypeOK, ServerTypeOK
  <2>2. RequestTypeOK'
    BY <1>1, <1>3
    DEF submit_thread_user_input, TypeOK, ServerTypeOK, RequestTypeOK, PCs
  <2>3. ReplayTypeOK' /\ ReaderTypeOK'
    BY <1>3 DEF submit_thread_user_input, TypeOK, ReplayTypeOK, ReaderTypeOK
  <2> QED
    BY <2>1, <2>2, <2>3 DEF TypeOK
<1> QED
  BY <1>2, <1>3

(* A failing upsert leaves the row and counts one fault.                   *)
LEMMA UpsertFailsType ==
  ASSUME TypeOK, upsert_fails
  PROVE  faults' \in 0..MaxStoreFaults /\ row' = row
BY ThreadAssumption DEF upsert_fails, TypeOK, ServerTypeOK

(* Refusing a request keeps the types.                                     *)
LEMMA RefuseType ==
  ASSUME TypeOK, NEW r \in Requests, Refuse(r), faults' \in 0..MaxStoreFaults,
         UNCHANGED <<up, next_run_id, crashes, replay, inflight, channels,
                     readers>>
  PROVE  TypeOK'
<1> USE DEF inner, replay, channels, readers
<1>1. ServerTypeOK'
  BY DEF Refuse, TypeOK, ServerTypeOK
<1>2. RequestTypeOK'
  BY DEF Refuse, TypeOK, RequestTypeOK, PCs
<1>3. ReplayTypeOK' /\ ReaderTypeOK'
  BY DEF TypeOK, ReplayTypeOK, ReaderTypeOK
<1> QED
  BY <1>1, <1>2, <1>3 DEF TypeOK

(* Accepting a turn or a reply keeps the types, stored or not.             *)
LEMMA AcceptRunType ==
  ASSUME TypeOK, NEW r \in Requests, NEW n \in Nat, AcceptRun(r, n),
         UNCHANGED <<up, next_run_id, crashes, replay, inflight, channels,
                     readers>>
  PROVE  TypeOK'
<1> DEFINE nxt == Append(session, optimistic_message(r))
<1>1. nxt \in Seq(Message) /\ Len(nxt) \in Nat
  <2>1. session \in Seq(Message) /\ optimistic_message(r) \in Message
    BY OptimisticType DEF TypeOK, ServerTypeOK
  <2> QED
    BY <2>1, AppendProperties, LenProperties
<1>2. Running(n) \in Status
  BY StatusTypes DEF Notes
<1>3. persisted_thread_from_inner(Running(n), nxt, last_sequence) \in Rows
  BY <1>1, <1>2, PersistedType DEF TypeOK, ServerTypeOK
<1>4. CASE upsert_fails /\ Refuse(r)
  BY <1>4, UpsertFailsType, RefuseType
<1>5. CASE ~(upsert_fails /\ Refuse(r))
  <2>1. /\ session' = nxt
        /\ status' = Running(n)
        /\ row' = persisted_thread_from_inner(Running(n), nxt, last_sequence)
        /\ optimistic_len' = [optimistic_len EXCEPT ![r] = Len(nxt)]
        /\ run_id' = [run_id EXCEPT ![r] = n]
        /\ pc' = [pc EXCEPT ![r] = "accepted"]
        /\ UNCHANGED <<last_sequence, faults, base, answers>>
    BY <1>5 DEF AcceptRun
  <2> HIDE DEF nxt
  <2>2. ServerTypeOK'
    BY <1>1, <1>2, <1>3, <2>1 DEF TypeOK, ServerTypeOK
  <2>3. RequestTypeOK'
    BY <1>1, <2>1 DEF TypeOK, RequestTypeOK, PCs
  <2>4. ReplayTypeOK' /\ ReaderTypeOK'
    BY DEF TypeOK, ReplayTypeOK, ReaderTypeOK, replay, channels, readers
  <2> QED
    BY <2>2, <2>3, <2>4 DEF TypeOK
<1> QED
  BY <1>4, <1>5

(* The locked parts of the turn and user-input handlers.                   *)
LEMMA StartType ==
  ASSUME TypeOK, NEW r \in Requests, start_turn(r) \/ submit_user_input(r)
  PROVE  TypeOK'
<1>1. run_id[r] \in Nat /\ status.run \in Nat
      /\ (UNCHANGED faults => faults' \in 0..MaxStoreFaults)
  BY DEF TypeOK, RequestTypeOK, ServerTypeOK, Status
<1>2. CASE start_turn(r)
  BY <1>1, <1>2, RefuseType, AcceptRunType DEF start_turn
<1>3. CASE submit_user_input(r)
  BY <1>1, <1>3, RefuseType, AcceptRunType DEF submit_user_input
<1> QED
  BY <1>2, <1>3

(* The legacy message handler.                                             *)
LEMMA AppendType ==
  ASSUME TypeOK, NEW a \in Requests, append_session_message(a)
  PROVE  TypeOK'
<1>1. CASE Refuse(a)
  <2>1. faults' \in 0..MaxStoreFaults
    BY <1>1, UpsertFailsType
    DEF append_session_message, TypeOK, ServerTypeOK
  <2> QED
    BY <1>1, <2>1, RefuseType DEF append_session_message
<1>2. CASE ~Refuse(a)
  <2>1. /\ session' = Append(session, user_text(a))
        /\ row' = persisted_thread_from_inner(status, session',
                                              last_sequence)
        /\ pc' = [pc EXCEPT ![a] = "appended"]
        /\ UNCHANGED <<status, last_sequence, faults, invocation>>
        /\ UNCHANGED <<up, next_run_id, crashes, replay, inflight, channels,
                       readers>>
    BY <1>2 DEF append_session_message
  <2>2. session' \in Seq(Message)
    <3>1. session \in Seq(Message) /\ user_text(a) \in Message
      BY MessageTypes, RequestsAreWriters DEF TypeOK, ServerTypeOK
    <3> QED
      BY <3>1, <2>1, AppendProperties
  <2>3. row' \in Rows
    BY <2>1, <2>2, PersistedType DEF TypeOK, ServerTypeOK
  <2>4. ServerTypeOK'
    BY <2>1, <2>2, <2>3 DEF TypeOK, ServerTypeOK
  <2>5. RequestTypeOK'
    BY <2>1 DEF TypeOK, RequestTypeOK, PCs, invocation
  <2>6. ReplayTypeOK' /\ ReaderTypeOK'
    BY <2>1 DEF TypeOK, ReplayTypeOK, ReaderTypeOK, replay, channels, readers
  <2> QED
    BY <2>4, <2>5, <2>6 DEF TypeOK
<1> QED
  BY <1>1, <1>2

(* complete_run, stored or not.                                            *)
LEMMA CompleteType ==
  ASSUME TypeOK, NEW w \in Requests, complete_run(w)
  PROVE  TypeOK'
<1>1. PICK e \in execute_run(base[w], w) :
        complete_with(w, e.final_session, e.recorded_batches, e.result)
  BY DEF complete_run
<1>2. base[w] \in Seq(Message)
  BY DEF TypeOK, RequestTypeOK
<1>3. e \in Execution
  BY <1>2, ExecuteRunType
<1> DEFINE final == e.final_session
           pending == pending_user_input_request(final)
           st == completed_status(run_id[w], pending)
           new == new_messages(final, optimistic_len[w])
<1>4. final \in Seq(Message) /\ e.recorded_batches \in Nat
  BY <1>3 DEF Execution
<1>5. st \in Status
  <2>1. pending \in Writers \cup {None}
    BY <1>4, PendingType
  <2>2. run_id[w] \in Nat
    BY DEF TypeOK, RequestTypeOK
  <2> QED
    BY <2>1, <2>2, CompletedStatusType
<1>6. new \in Seq(Message)
  <2>1. optimistic_len[w] \in Nat /\ Len(final) \in Nat
    BY <1>4, LenProperties DEF TypeOK, RequestTypeOK
  <2>2. \A i \in optimistic_len[w] + 1 .. Len(final) : i \in 1..Len(final)
    BY <2>1
  <2>3. \A i \in optimistic_len[w] + 1 .. Len(final) : final[i] \in Message
    BY <1>4, <2>2, ElementOfSeq
  <2> QED
    BY <1>4, <2>1, <2>3, SubSeqProperties DEF new_messages
<1>7. persisted_thread_from_inner(st, final, last_sequence) \in Rows
  BY <1>4, <1>5, PersistedType DEF TypeOK, ServerTypeOK
<1>8. /\ session' = final
      /\ status' = st
      /\ \/ /\ row' = persisted_thread_from_inner(st, final, last_sequence)
            /\ messages' = [messages EXCEPT ![w] = new]
            /\ batches' = [batches EXCEPT ![w] = e.recorded_batches]
            /\ outcome' = [outcome EXCEPT
                             ![w] = result_event(e.result, pending)]
            /\ pc' = [pc EXCEPT ![w] = IF new = <<>>
                                       THEN ReplayPC(e.recorded_batches)
                                       ELSE "legacy"]
            /\ UNCHANGED faults
         \/ /\ upsert_fails
            /\ outcome' = [outcome EXCEPT ![w] = "run.failed"]
            /\ pc' = [pc EXCEPT ![w] = "terminal"]
            /\ UNCHANGED <<messages, batches>>
  BY <1>1 DEF complete_with
<1>9. /\ base' = [base EXCEPT ![w] = <<>>]
      /\ optimistic_len' = [optimistic_len EXCEPT ![w] = 0]
      /\ UNCHANGED <<up, last_sequence, next_run_id, crashes, run_id, answers,
                     cursor, inflight, channels, readers>>
  BY DEF complete_run
<1> HIDE DEF final, pending, st, new
<1>10. ServerTypeOK'
  <2>1. row' \in Rows /\ faults' \in 0..MaxStoreFaults
    BY <1>7, <1>8, UpsertFailsType DEF TypeOK, ServerTypeOK
  <2> QED
    BY <1>4, <1>5, <1>8, <1>9, <2>1 DEF TypeOK, ServerTypeOK
<1>11. RequestTypeOK'
  <2>1. PICK x \in PCs : pc' = [pc EXCEPT ![w] = x]
    BY <1>8 DEF PCs, ReplayPC
  <2> QED
    BY <1>9, <2>1 DEF TypeOK, RequestTypeOK
<1>12. ReplayTypeOK'
  <2>1. result_event(e.result, pending) \in Terminal /\ "run.failed" \in Terminal
    BY DEF result_event, Terminal
  <2> QED
    BY <1>4, <1>6, <1>8, <1>9, <2>1 DEF TypeOK, ReplayTypeOK
<1>13. ReaderTypeOK'
  BY <1>9 DEF TypeOK, ReaderTypeOK, channels, readers
<1> QED
  BY <1>10, <1>11, <1>12, <1>13 DEF TypeOK

(* The legacy broadcast of an optimistic message.                          *)
LEMMA LegacyType ==
  ASSUME TypeOK, NEW r \in Requests, BroadcastOptimistic(r)
  PROVE  TypeOK'
<1> USE DEF inner, invocation, replay, readers
<1>1. ServerTypeOK'
  BY DEF BroadcastOptimistic, TypeOK, ServerTypeOK
<1>2. RequestTypeOK'
  BY DEF BroadcastOptimistic, TypeOK, RequestTypeOK, PCs
<1>3. ReplayTypeOK'
  BY DEF BroadcastOptimistic, TypeOK, ReplayTypeOK
<1>4. legacy_events' \in Seq(Message)
  <2>1. legacy_events \in Seq(Message) /\ optimistic_message(r) \in Message
    BY OptimisticType DEF TypeOK, ReaderTypeOK
  <2> QED
    BY <2>1, AppendProperties
    DEF BroadcastOptimistic, broadcast_legacy_message
<1>5. ReaderTypeOK'
  BY <1>4 DEF BroadcastOptimistic, TypeOK, ReaderTypeOK
<1> QED
  BY <1>1, <1>2, <1>3, <1>5 DEF TypeOK

(* The legacy broadcast of what a run added.                               *)
LEMMA BroadcastNewType ==
  ASSUME TypeOK, NEW w \in Requests, BroadcastNew(w)
  PROVE  TypeOK'
<1> USE DEF inner, invocation, readers
<1>1. ServerTypeOK'
  BY DEF BroadcastNew, TypeOK, ServerTypeOK
<1>2. RequestTypeOK'
  BY DEF BroadcastNew, TypeOK, RequestTypeOK, PCs, ReplayPC
<1>3. ReplayTypeOK'
  BY DEF BroadcastNew, TypeOK, ReplayTypeOK
<1>4. legacy_events' \in Seq(Message)
  <2>1. /\ legacy_events \in Seq(Message)
        /\ messages[w] \in Seq(Message)
        /\ cursor[w] + 1 \in 1..Len(messages[w])
    BY LenProperties DEF BroadcastNew, TypeOK, ReaderTypeOK, ReplayTypeOK
  <2>2. messages[w][cursor[w] + 1] \in Message
    BY <2>1, ElementOfSeq
  <2> QED
    BY <2>1, <2>2, AppendProperties DEF BroadcastNew, broadcast_legacy_message
<1>5. ReaderTypeOK'
  BY <1>4 DEF BroadcastNew, TypeOK, ReaderTypeOK
<1> QED
  BY <1>1, <1>2, <1>3, <1>5 DEF TypeOK

EventTypes == {"run.started", "user_input.submitted", "assistant",
               "assistant.tool_result"} \cup Terminal

(* Taking a sequence makes an envelope for request r alone.                *)
LEMMA StampType ==
  ASSUME TypeOK, NEW r \in Requests, NEW type \in EventTypes, stamp(r, type)
  PROVE  last_sequence' \in Nat /\ inflight' \in [Requests -> Seq(Envelope)]
<1>1. last_sequence \in Nat /\ run_id[r] \in Nat
      /\ inflight \in [Requests -> Seq(Envelope)]
  BY DEF TypeOK, ServerTypeOK, RequestTypeOK, ReplayTypeOK
<1> DEFINE e == [sequence |-> last_sequence + 1, run |-> run_id[r],
                 type |-> type]
<1>2. e \in Envelope
  BY <1>1 DEF Envelope, EventTypes, Terminal
<1>3. <<e>> \in Seq(Envelope)
  BY <1>2
<1>4. inflight' = [inflight EXCEPT ![r] = <<e>>]
  BY DEF stamp
<1> HIDE DEF e
<1> QED
  BY <1>1, <1>3, <1>4 DEF stamp

(* Sending an envelope appends it to the channel.                          *)
LEMMA SendType ==
  ASSUME TypeOK, NEW r \in Requests, send(r)
  PROVE  TypeOK'
<1> USE DEF inner, invocation, replay, readers
<1>1. ServerTypeOK' /\ RequestTypeOK'
  BY DEF send, TypeOK, ServerTypeOK, RequestTypeOK
<1>2. ReplayTypeOK'
  BY DEF send, TypeOK, ReplayTypeOK
<1>3. protocol_events' \in Seq(Envelope)
  <2>1. /\ protocol_events \in Seq(Envelope)
        /\ inflight[r] \in Seq(Envelope)
        /\ inflight[r] # <<>>
    BY DEF send, TypeOK, ReaderTypeOK, ReplayTypeOK
  <2>2. inflight[r][1] \in Envelope
    BY <2>1
  <2> QED
    BY <2>1, <2>2, AppendProperties DEF send
<1>4. ReaderTypeOK'
  BY <1>3 DEF send, TypeOK, ReaderTypeOK
<1> QED
  BY <1>1, <1>2, <1>4 DEF TypeOK

(* The four actions that stamp an event.                                   *)
LEMMA EmitType ==
  ASSUME TypeOK, NEW r \in Requests,
         Announce(r) \/ ReplayBatch(r) \/ ReplayBlocks(r) \/ EmitTerminal(r)
  PROVE  TypeOK'
<1> USE DEF invocation, replay, channels, readers
<1>0. outcome[r] \in EventTypes
  BY DEF TypeOK, ReplayTypeOK, EventTypes
<1>1. last_sequence' \in Nat /\ inflight' \in [Requests -> Seq(Envelope)]
  <2>1. CASE Announce(r)
    BY <2>1, StampType DEF Announce, EventTypes
  <2>2. CASE ReplayBatch(r)
    BY <2>2, StampType DEF ReplayBatch, EventTypes
  <2>3. CASE ReplayBlocks(r)
    BY <2>3, StampType
    DEF ReplayBlocks, emit_protocol_message_blocks, EventTypes, TypeOK,
        ServerTypeOK, ReplayTypeOK
  <2>4. CASE EmitTerminal(r)
    BY <1>0, <2>4, StampType DEF EmitTerminal
  <2> QED
    BY <2>1, <2>2, <2>3, <2>4
<1>2. ServerTypeOK'
  BY <1>1 DEF Announce, ReplayBatch, ReplayBlocks, EmitTerminal, TypeOK,
              ServerTypeOK
<1>3. RequestTypeOK'
  <2>1. CASE Announce(r)
    BY <2>1 DEF Announce, TypeOK, RequestTypeOK, PCs
  <2>2. CASE ReplayBatch(r)
    BY <2>2 DEF ReplayBatch, TypeOK, RequestTypeOK, PCs
  <2>3. CASE ReplayBlocks(r)
    BY <2>3 DEF ReplayBlocks, TypeOK, RequestTypeOK
  <2>4. CASE EmitTerminal(r)
    BY <2>4 DEF EmitTerminal, TypeOK, RequestTypeOK, PCs
  <2> QED
    BY <2>1, <2>2, <2>3, <2>4
<1>4. ReplayTypeOK'
  <2>1. CASE Announce(r)
    BY <1>1, <2>1 DEF Announce, TypeOK, ReplayTypeOK
  <2>2. CASE ReplayBatch(r)
    BY <1>1, <2>2 DEF ReplayBatch, TypeOK, ReplayTypeOK
  <2>3. CASE ReplayBlocks(r)
    BY <1>1, <2>3 DEF ReplayBlocks, TypeOK, ReplayTypeOK
  <2>4. CASE EmitTerminal(r)
    BY <1>1, <2>4 DEF EmitTerminal, TypeOK, ReplayTypeOK, Terminal
  <2> QED
    BY <2>1, <2>2, <2>3, <2>4
<1>5. ReaderTypeOK'
  BY DEF Announce, ReplayBatch, ReplayBlocks, EmitTerminal, TypeOK,
         ReaderTypeOK
<1> QED
  BY <1>2, <1>3, <1>4, <1>5 DEF TypeOK

(* Replacing one stream by a stream keeps the types.                       *)
LEMMA StreamUpdateType ==
  ASSUME NEW v \in StreamStates, NEW q \in Nat, NEW g \in Seq(Envelope)
  PROVE  /\ [v EXCEPT !.phase = "resync"] \in StreamStates
         /\ [v EXCEPT !.pos = @ + 1] \in StreamStates
         /\ [v EXCEPT !.pos = @ + 1, !.snapshot_sequence = q, !.got = g]
              \in StreamStates
<1>1. [v EXCEPT !.phase = "resync"] \in StreamStates
  BY SMTT(20) DEF StreamStates
<1>2. [v EXCEPT !.pos = @ + 1] \in StreamStates
  BY SMTT(20) DEF StreamStates
<1>3. [v EXCEPT !.pos = @ + 1, !.snapshot_sequence = q, !.got = g]
        \in StreamStates
  <2>1. \A x \in StreamStates : [x EXCEPT !.snapshot_sequence = q]
                                  \in StreamStates
    BY DEF StreamStates
  <2>2. \A x \in StreamStates : [x EXCEPT !.got = g] \in StreamStates
    BY DEF StreamStates
  <2> DEFINE a == [v EXCEPT !.pos = @ + 1]
             b == [a EXCEPT !.snapshot_sequence = q]
             c == [b EXCEPT !.got = g]
  <2>3. b \in StreamStates
    BY <1>2, <2>1
  <2>4. c \in StreamStates
    BY <2>2, <2>3
  <2> QED
    BY <2>4
<1> QED
  BY <1>1, <1>2, <1>3

(* The stream steps change one stream only.                                *)
LEMMA StreamType ==
  ASSUME TypeOK, NEW s \in Streams, subscribe_protocol(s) \/ StreamStep(s)
  PROVE  TypeOK'
<1> USE DEF inner, invocation, replay, channels
<1>1. /\ stream[s] \in StreamStates
      /\ protocol_events \in Seq(Envelope)
      /\ Len(protocol_events) \in Nat
      /\ last_sequence \in Nat
      /\ status.run \in Nat
  BY LenProperties DEF TypeOK, ReaderTypeOK, ServerTypeOK, Status
<1>2. stream' \in [Streams -> StreamStates]
  <2>1. CASE subscribe_protocol(s)
    BY <1>1, <2>1 DEF subscribe_protocol, TypeOK, ReaderTypeOK, StreamStates
  <2>2. CASE snapshot_event(s)
    BY <1>1, <2>2 DEF snapshot_event, TypeOK, ReaderTypeOK, StreamStates
  <2>3. CASE recv_thread_stream_event(s)
    <3> DEFINE e == protocol_events[stream[s].pos + 1]
    <3>1. stream[s].pos \in Nat /\ stream[s].pos < Len(protocol_events)
      BY <1>1, <2>3 DEF recv_thread_stream_event, StreamStates
    <3>2. e \in Envelope /\ e.sequence \in Nat
      <4>1. stream[s].pos + 1 \in 1..Len(protocol_events)
        BY <1>1, <3>1
      <4>2. e \in Envelope
        BY <1>1, <4>1, ElementOfSeq
      <4> HIDE DEF e
      <4> QED
        BY <4>2 DEF Envelope
    <3>3. stream[s].got \in Seq(Envelope)
      BY <1>1 DEF StreamStates
    <3>4. Append(stream[s].got, e) \in Seq(Envelope)
      BY <3>2, <3>3, AppendProperties
    <3> DEFINE g == Append(stream[s].got, e)
               q == e.sequence
    <3>5. \/ stream' = [stream EXCEPT
                          ![s] = [stream[s] EXCEPT !.phase = "resync"]]
          \/ stream' = [stream EXCEPT ![s] = [stream[s] EXCEPT !.pos = @ + 1]]
          \/ stream' = [stream EXCEPT
                          ![s] = [stream[s] EXCEPT !.pos = @ + 1,
                                                   !.snapshot_sequence = q,
                                                   !.got = g]]
      BY <2>3 DEF recv_thread_stream_event
    <3> HIDE DEF e, g, q
    <3>6. g \in Seq(Envelope) /\ q \in Nat
      BY <3>2, <3>4 DEF g, q
    <3>7. /\ [stream[s] EXCEPT !.phase = "resync"] \in StreamStates
          /\ [stream[s] EXCEPT !.pos = @ + 1] \in StreamStates
          /\ [stream[s] EXCEPT !.pos = @ + 1, !.snapshot_sequence = q,
                               !.got = g] \in StreamStates
      BY <1>1, <3>6, StreamUpdateType
    <3>8. PICK v \in StreamStates : stream' = [stream EXCEPT ![s] = v]
      BY <3>5, <3>7
    <3> QED
      BY <3>8 DEF TypeOK, ReaderTypeOK
  <2> QED
    BY <2>1, <2>2, <2>3 DEF StreamStep
<1>3. UNCHANGED <<up, inner, row, next_run_id, crashes, faults, pc,
                  invocation, replay, inflight, channels, listener>>
  BY DEF subscribe_protocol, StreamStep, snapshot_event,
         recv_thread_stream_event
<1>4. ServerTypeOK' /\ RequestTypeOK' /\ ReplayTypeOK'
  BY <1>3 DEF TypeOK, ServerTypeOK, RequestTypeOK, ReplayTypeOK
<1>5. ReaderTypeOK'
  BY <1>2, <1>3 DEF TypeOK, ReaderTypeOK
<1> QED
  BY <1>4, <1>5 DEF TypeOK

(* The steps of a legacy listener.                                         *)
LEMMA ListenerType ==
  ASSUME TypeOK, NEW l \in Listeners, subscribe_legacy(l) \/ ListenerStep(l)
  PROVE  TypeOK'
<1> USE DEF inner, invocation, replay, channels
<1>1. /\ listener[l] \in ListenerStates
      /\ legacy_events \in Seq(Message)
      /\ Len(legacy_events) \in Nat
      /\ session \in Seq(Message)
  BY LenProperties DEF TypeOK, ReaderTypeOK, ServerTypeOK
<1>2. listener' \in [Listeners -> ListenerStates]
  <2>1. CASE subscribe_legacy(l)
    BY <1>1, <2>1 DEF subscribe_legacy, TypeOK, ReaderTypeOK, ListenerStates
  <2>2. CASE current_session_snapshot(l)
    BY <1>1, <2>2
    DEF current_session_snapshot, TypeOK, ReaderTypeOK, ListenerStates
  <2>3. CASE recv_legacy_session_event(l)
    <3> DEFINE m == legacy_events[listener[l].pos + 1]
    <3>1. listener[l].pos \in Nat /\ listener[l].pos < Len(legacy_events)
      BY <1>1, <2>3 DEF recv_legacy_session_event, ListenerStates
    <3>2. m \in Message
      BY <1>1, <3>1, ElementOfSeq
    <3>3. listener[l].got \in Seq(Message)
      BY <1>1 DEF ListenerStates
    <3>4. Append(listener[l].got, m) \in Seq(Message)
      BY <3>2, <3>3, AppendProperties
    <3>5. \/ listener' = [listener EXCEPT ![l].phase = "closed"]
          \/ listener' = [listener EXCEPT ![l].pos = @ + 1,
                                          ![l].got = Append(@, m)]
      BY <2>3 DEF recv_legacy_session_event
    <3> HIDE DEF m
    <3>6. CASE listener' = [listener EXCEPT ![l].phase = "closed"]
      BY <1>1, <3>6 DEF TypeOK, ReaderTypeOK, ListenerStates
    <3>7. CASE listener' = [listener EXCEPT ![l].pos = @ + 1,
                                            ![l].got = Append(@, m)]
      BY <1>1, <3>4, <3>7 DEF TypeOK, ReaderTypeOK, ListenerStates
    <3> QED
      BY <3>5, <3>6, <3>7
  <2> QED
    BY <2>1, <2>2, <2>3 DEF ListenerStep
<1>3. UNCHANGED <<up, inner, row, next_run_id, crashes, faults, pc,
                  invocation, replay, inflight, channels, stream>>
  BY DEF subscribe_legacy, ListenerStep, current_session_snapshot,
         recv_legacy_session_event
<1>4. ServerTypeOK' /\ RequestTypeOK' /\ ReplayTypeOK'
  BY <1>3 DEF TypeOK, ServerTypeOK, RequestTypeOK, ReplayTypeOK
<1>5. ReaderTypeOK'
  BY <1>2, <1>3 DEF TypeOK, ReaderTypeOK
<1> QED
  BY <1>4, <1>5 DEF TypeOK

(* A crash.                                                                *)
LEMMA CrashType ==
  ASSUME TypeOK, Crash
  PROVE  TypeOK'
<1>1. ServerTypeOK'
  <2>1. status' \in Status
    BY DEF Crash, Idle, Status, StatusKinds, Notes
  <2>2. crashes' \in 0..MaxCrashes
    BY ThreadAssumption DEF Crash, TypeOK, ServerTypeOK
  <2>3. /\ up' = FALSE /\ session' = <<>> /\ last_sequence' = 0
        /\ next_run_id' = 1 /\ row' = row /\ faults' = faults
    BY DEF Crash
  <2>4. row \in Rows /\ faults \in 0..MaxStoreFaults
    BY DEF TypeOK, ServerTypeOK
  <2>5. row' \in Rows /\ faults' \in 0..MaxStoreFaults
    BY <2>3, <2>4
  <2>6. session' \in Seq(Message) /\ last_sequence' \in Nat
        /\ next_run_id' \in Nat \ {0}
    BY <2>3
  <2>7. up' \in BOOLEAN
    BY <2>3
  <2> QED
    BY <2>1, <2>2, <2>5, <2>6, <2>7 DEF ServerTypeOK
<1>2. RequestTypeOK'
  BY DEF Crash, TypeOK, RequestTypeOK, PCs
<1>3. ReplayTypeOK'
  BY DEF Crash, TypeOK, ReplayTypeOK, Terminal
<1>4. \A s \in Streams : stream'[s] \in StreamStates
  BY DEF Crash, TypeOK, ReaderTypeOK, StreamStates
<1>5. \A l \in Listeners : listener'[l] \in ListenerStates
  BY DEF Crash, TypeOK, ReaderTypeOK, ListenerStates
<1>6. ReaderTypeOK'
  BY <1>4, <1>5 DEF Crash, ReaderTypeOK
<1> QED
  BY <1>1, <1>2, <1>3, <1>6 DEF TypeOK

(* A restart.                                                              *)
LEMMA LoadType ==
  ASSUME TypeOK, load_for_cwd
  PROVE  TypeOK'
<1> DEFINE st == recovered_status_from_persisted(row)
<1>1. /\ row \in Rows
      /\ row.session \in Seq(Message)
      /\ row.last_sequence \in Nat
      /\ row.last_run_id \in Nat
  BY DEF TypeOK, ServerTypeOK, Rows
<1>2. st \in Status /\ st.run \in Nat
  BY <1>1, RecoveredType DEF Status
<1>3. persisted_thread_from_inner(st, row.session, row.last_sequence) \in Rows
  BY <1>1, <1>2, PersistedType
<1>4. /\ up' = TRUE
      /\ status' = st
      /\ session' = row.session
      /\ last_sequence' = row.last_sequence
      /\ next_run_id' = next_counter(row.last_run_id, st.run)
      /\ row' \in {row, persisted_thread_from_inner(st, row.session,
                                                    row.last_sequence)}
      /\ UNCHANGED <<crashes, faults, pc, invocation, replay, inflight,
                     channels, readers>>
  BY DEF load_for_cwd
<1> HIDE DEF st
<1>5. ServerTypeOK'
  BY <1>1, <1>2, <1>3, <1>4 DEF TypeOK, ServerTypeOK, next_counter
<1>6. RequestTypeOK' /\ ReplayTypeOK' /\ ReaderTypeOK'
  BY <1>4 DEF TypeOK, RequestTypeOK, ReplayTypeOK, ReaderTypeOK, invocation,
              replay, channels, readers
<1> QED
  BY <1>5, <1>6 DEF TypeOK

(* A start that fails only counts the failed upsert.                       *)
LEMMA LoadFailsType ==
  ASSUME TypeOK, load_fails
  PROVE  TypeOK'
<1>1. ServerTypeOK'
  BY ThreadAssumption DEF TypeOK, ServerTypeOK, load_fails, upsert_fails, inner
<1>2. RequestTypeOK' /\ ReplayTypeOK' /\ ReaderTypeOK'
  BY DEF TypeOK, RequestTypeOK, ReplayTypeOK, ReaderTypeOK, load_fails,
         invocation, replay, channels, readers
<1> QED
  BY <1>1, <1>2 DEF TypeOK

(* A step that changes nothing.                                            *)
LEMMA StutterType ==
  ASSUME TypeOK, UNCHANGED vars
  PROVE  TypeOK'
BY DEF TypeOK, ServerTypeOK, RequestTypeOK, ReplayTypeOK, ReaderTypeOK, vars,
       inner, invocation, replay, channels, readers

(* Every step of the server, of its clients and of its streams keeps the   *)
(* types of all the state, for any number of requests and streams.         *)
THEOREM TypeCorrect == Spec => []TypeOK
<1>1. ASSUME TypeOK, [Next]_vars
      PROVE  TypeOK'
  <2> USE <1>1
  <2>1. ASSUME NEW t \in Turns, start_thread_turn(t) PROVE TypeOK'
    BY <2>1, BeginType DEF Requests
  <2>2. ASSUME NEW r \in Replies, submit_thread_user_input(r) PROVE TypeOK'
    BY <2>2, BeginType DEF Requests
  <2>3. ASSUME NEW a \in Appends, append_session_message(a) PROVE TypeOK'
    BY <2>3, AppendType DEF Requests
  <2>4. ASSUME NEW r \in Requests, Proceed(r) PROVE TypeOK'
    BY <2>4, StartType, LegacyType, EmitType, CompleteType, BroadcastNewType,
       SendType DEF Proceed
  <2>5. ASSUME NEW s \in Streams, subscribe_protocol(s) \/ StreamStep(s)
        PROVE  TypeOK'
    BY <2>5, StreamType
  <2>6. ASSUME NEW l \in Listeners, subscribe_legacy(l) \/ ListenerStep(l)
        PROVE  TypeOK'
    BY <2>6, ListenerType
  <2> QED
    BY <2>1, <2>2, <2>3, <2>4, <2>5, <2>6, CrashType, LoadType, LoadFailsType, StutterType
    DEF Next, Waiting
<1> QED
  BY <1>1, InitType, PTL DEF Spec
-----------------------------------------------------------------------------
(***************************************************************************)
(* The safety of a thread record: ServerInv is inductive together with     *)
(* TypeOK, and RunOwned, ActiveInputDurable, StaleRowInterrupts and        *)
(* RecoveryConsistent follow from it.                                      *)
(***************************************************************************)

OwnerPC(x) == x \in {"accepted", "announcing", "working"}

(* The conjuncts of ServerInv, named so that a proof can cite one alone.   *)
OneOwner == up => /\ status.kind = "running" <=> Owners # {}
                  /\ \A v, w \in Owners : v = w
                  /\ \A w \in Owners : run_id[w] = status.run
MemorySound == up => Sound(status, session)
RowSound == Sound(StoredStatus(row), row.session)
BegunHaveRuns == \A t \in Turns : pc[t] = "begun" => run_id[t] # 0
InputsHeld == \A w \in Owners : Holds(session, optimistic_message(w))
DownIsQuiet ==
  ~up => \A r \in Requests : pc[r] \in {"new", "refused", "done"}

(* ServerInv is the conjunction of the parts above.                        *)
LEMMA ServerInvParts ==
  ServerInv <=> /\ OneOwner /\ StaleRowInterrupts /\ MemorySound /\ RowSound
                /\ BegunHaveRuns /\ InputsHeld /\ DownIsQuiet
BY DEF ServerInv, RunOwned, OneOwner, MemorySound, RowSound, BegunHaveRuns,
       InputsHeld, DownIsQuiet

(* The same of the next state, where the conjuncts are put together again. *)
LEMMA ServerInvNext ==
  ASSUME OneOwner', StaleRowInterrupts', MemorySound', RowSound',
         BegunHaveRuns', InputsHeld', DownIsQuiet'
  PROVE  ServerInv'
BY DEF ServerInv, RunOwned, OneOwner, MemorySound, RowSound, BegunHaveRuns,
       InputsHeld, DownIsQuiet

(* A request that is past "new" and not over is only met while up.         *)
LEMMA BusyIsUp ==
  ASSUME ServerInv, NEW r \in Requests,
         pc[r] \notin {"new", "refused", "done"}
  PROVE  up
BY DEF ServerInv

-----------------------------------------------------------------------------
(* A step of request r that leaves the thread, its row and the owner of    *)
(* its run alone keeps the invariant: refusals, broadcasts and emissions.  *)
LEMMA FrameStep ==
  ASSUME TypeOK, ServerInv, NEW r \in Requests, NEW x \in PCs,
         UNCHANGED <<up, status, session, row>>,
         pc' = [pc EXCEPT ![r] = x],
         OwnerPC(x) <=> OwnerPC(pc[r]),
         \A o \in Requests : o # r \/ OwnerPC(x) =>
           run_id'[o] = run_id[o] /\ answers'[o] = answers[o],
         ~up => x \in {"new", "refused", "done"},
         x = "begun" /\ r \in Turns => run_id'[r] # 0
  PROVE  ServerInv'
<1>1. pc \in [Requests -> PCs]
  BY DEF TypeOK, RequestTypeOK
<1>2. \A o \in Requests : pc'[o] = IF o = r THEN x ELSE pc[o]
  BY <1>1
<1>3. Owners' = Owners
  BY <1>2 DEF Owners, OwnerPC
<1>4. \A o \in Owners : /\ o \in Requests
                        /\ run_id'[o] = run_id[o]
                        /\ answers'[o] = answers[o]
  <2> TAKE o \in Owners
  <2>1. o \in Requests /\ OwnerPC(pc[o])
    BY DEF Owners, OwnerPC
  <2>2. o # r \/ OwnerPC(x)
    BY <2>1
  <2> QED
    BY <2>1, <2>2
<1>5. OneOwner'
  BY <1>3, <1>4, ServerInvParts DEF OneOwner
<1>6. StaleRowInterrupts' /\ MemorySound' /\ RowSound'
  BY ServerInvParts DEF StaleRowInterrupts, MemorySound, RowSound
<1>7. BegunHaveRuns'
  <2> SUFFICES ASSUME NEW t \in Turns, pc'[t] = "begun" PROVE run_id'[t] # 0
    BY DEF BegunHaveRuns
  <2>1. t \in Requests
    BY DEF Requests
  <2>2. CASE t = r
    BY <1>2, <2>1, <2>2
  <2>3. CASE t # r
    BY <1>2, <2>1, <2>3, ServerInvParts DEF BegunHaveRuns
  <2> QED
    BY <2>2, <2>3
<1>8. InputsHeld'
  BY <1>3, <1>4, ServerInvParts DEF InputsHeld, optimistic_message
<1>9. DownIsQuiet'
  BY <1>2, ServerInvParts DEF DownIsQuiet
<1> QED
  BY <1>5, <1>6, <1>7, <1>8, <1>9, ServerInvNext

(* A step that touches none of the state ServerInv speaks of.              *)
LEMMA UntouchedStep ==
  ASSUME ServerInv,
         UNCHANGED <<up, status, session, row, pc, run_id, answers>>
  PROVE  ServerInv'
BY DEF ServerInv, RunOwned, StaleRowInterrupts, Owners, optimistic_message

-----------------------------------------------------------------------------
(* ThreadRecord::new gives a sound record and row.                         *)
LEMMA InitSafe == Init => ServerInv
<1> SUFFICES ASSUME Init PROVE ServerInv
  OBVIOUS
<1>1. Owners = {}
  BY DEF Init, Owners
<1>2. session = <<>> /\ status = Idle /\ up
      /\ row = persisted_thread_from_inner(Idle, <<>>, 0)
  BY DEF Init
<1>3. pending_user_input_request(<<>>) = None
  BY DEF pending_user_input_request, Unanswered
<1>4. OneOwner /\ InputsHeld
  BY <1>1, <1>2 DEF OneOwner, InputsHeld, Idle
<1>5. MemorySound
  BY <1>2, <1>3 DEF MemorySound, Sound
<1>6. StoredStatus(row) = Idle /\ row.session = <<>> /\ row.last_sequence = 0
  BY <1>2 DEF StoredStatus, persisted_thread_from_inner, Idle
<1>7. RowSound
  BY <1>3, <1>6 DEF RowSound, Sound
<1>8. StaleRowInterrupts
  BY <1>2, <1>6 DEF StaleRowInterrupts
<1>9. BegunHaveRuns /\ DownIsQuiet
  BY <1>2 DEF Init, BegunHaveRuns, DownIsQuiet, Requests
<1> QED
  BY <1>4, <1>5, <1>7, <1>8, <1>9, ServerInvParts

(* What a status is stored as is what is read back.                        *)
LEMMA StoredBack ==
  ASSUME NEW st \in Status, NEW ses, NEW seq
  PROVE  LET p == persisted_thread_from_inner(st, ses, seq)
         IN  StoredStatus(p) = st /\ p.session = ses /\ p.last_sequence = seq
BY DEF StoredStatus, persisted_thread_from_inner, Status

(* The handlers' steps before the lock.                                    *)
LEMMA BeginSafe ==
  ASSUME TypeOK, ServerInv, NEW r \in Requests,
         \/ r \in Turns /\ start_thread_turn(r)
         \/ r \in Replies /\ submit_thread_user_input(r)
  PROVE  ServerInv'
<1>1. up /\ pc[r] = "new"
  BY DEF start_thread_turn, submit_thread_user_input, Received
<1>2. CASE r \in Turns /\ start_thread_turn(r)
  <2>1. /\ UNCHANGED <<up, status, session, row, answers>>
        /\ pc' = [pc EXCEPT ![r] = "begun"]
        /\ run_id' = [run_id EXCEPT ![r] = next_run_id]
    BY <1>2 DEF start_thread_turn, inner
  <2>2. run_id \in [Requests -> Nat] /\ next_run_id # 0
    BY DEF TypeOK, ServerTypeOK, RequestTypeOK
  <2>3. run_id'[r] # 0 /\ \A o \in Requests : o # r => run_id'[o] = run_id[o]
    BY <2>1, <2>2
  <2>4. "begun" \in PCs /\ ~OwnerPC("begun") /\ ~OwnerPC(pc[r])
    BY <1>1 DEF OwnerPC, PCs
  <2>5. \A o \in Requests : o # r \/ OwnerPC("begun") =>
          run_id'[o] = run_id[o] /\ answers'[o] = answers[o]
    BY <2>1, <2>3, <2>4
  <2> QED
    BY <1>1, <2>1, <2>3, <2>4, <2>5, FrameStep
<1>3. CASE r \in Replies /\ submit_thread_user_input(r)
  <2>1. /\ UNCHANGED <<up, status, session, row, run_id>>
        /\ pc' = [pc EXCEPT ![r] = "begun"]
        /\ \E q : answers' = [answers EXCEPT ![r] = q]
    BY <1>3 DEF submit_thread_user_input, inner
  <2>2. \A o \in Requests : o # r => answers'[o] = answers[o]
    BY <2>1 DEF TypeOK, RequestTypeOK
  <2>3. r \notin Turns
    BY <1>3, ThreadAssumption
  <2>4. "begun" \in PCs /\ ~OwnerPC("begun") /\ ~OwnerPC(pc[r])
    BY <1>1 DEF OwnerPC, PCs
  <2>5. \A o \in Requests : o # r \/ OwnerPC("begun") =>
          run_id'[o] = run_id[o] /\ answers'[o] = answers[o]
    BY <2>1, <2>2, <2>4
  <2> QED
    BY <1>1, <2>1, <2>3, <2>4, <2>5, FrameStep
<1> QED
  BY <1>2, <1>3

(* A refused request changes nothing but itself.                           *)
LEMMA RefuseSafe ==
  ASSUME TypeOK, ServerInv, NEW r \in Requests, Refuse(r), UNCHANGED up,
         ~OwnerPC(pc[r])
  PROVE  ServerInv'
<1>1. /\ UNCHANGED <<up, status, session, row, answers>>
      /\ pc' = [pc EXCEPT ![r] = "refused"]
      /\ run_id' = [run_id EXCEPT ![r] = 0]
  BY DEF Refuse, inner
<1>2. \A o \in Requests : o # r => run_id'[o] = run_id[o]
  BY <1>1 DEF TypeOK, RequestTypeOK
<1>3. "refused" \in PCs /\ ~OwnerPC("refused") /\ ~OwnerPC(pc[r])
  BY DEF OwnerPC, PCs
<1>4. \A o \in Requests : o # r \/ OwnerPC("refused") =>
        run_id'[o] = run_id[o] /\ answers'[o] = answers[o]
  BY <1>1, <1>2, <1>3
<1> QED
  BY <1>1, <1>3, <1>4, FrameStep

(* start_turn and submit_user_input, accepted with run n on a thread that  *)
(* is not Running: the request becomes its only owner.                     *)
LEMMA AcceptRunSafe ==
  ASSUME TypeOK, ServerInv, NEW r \in Turns \cup Replies, NEW n \in Nat \ {0},
         AcceptRun(r, n), UNCHANGED up, up,
         status.kind # "running", pc[r] = "begun"
  PROVE  ServerInv'
<1>0. r \in Requests
  BY DEF Requests
<1> DEFINE nxt == Append(session, optimistic_message(r))
<1>1. CASE Refuse(r)
  BY <1>0, <1>1, RefuseSafe DEF OwnerPC
<1>2. CASE ~Refuse(r)
  <2>1. /\ session' = nxt
        /\ status' = Running(n)
        /\ row' = persisted_thread_from_inner(Running(n), nxt, last_sequence)
        /\ run_id' = [run_id EXCEPT ![r] = n]
        /\ pc' = [pc EXCEPT ![r] = "accepted"]
        /\ answers' = answers
    BY <1>2 DEF AcceptRun
  <2>2. Running(n) \in Status /\ session \in Seq(Message)
        /\ optimistic_message(r) \in Message
    BY <1>0, StatusTypes, OptimisticType DEF Notes, TypeOK, ServerTypeOK
  <2>3. nxt \in Seq(Message) /\ Len(nxt) = Len(session) + 1
        /\ nxt[Len(nxt)] = optimistic_message(r)
    BY <2>2, AppendProperties
  <2>4. Holds(nxt, optimistic_message(r))
    <3>1. Len(nxt) \in 1..Len(nxt)
      BY <2>2, <2>3, LenProperties
    <3> QED
      BY <2>3, <3>1 DEF Holds
  <2> HIDE DEF nxt
  <2>5. StoredStatus(row') = Running(n) /\ row'.session = nxt
        /\ row'.last_sequence = last_sequence
    BY <2>1, <2>2, StoredBack
  <2>6. \A o \in Requests : /\ pc'[o] = IF o = r THEN "accepted" ELSE pc[o]
                            /\ run_id'[o] = IF o = r THEN n ELSE run_id[o]
    BY <2>1 DEF TypeOK, RequestTypeOK
  <2>7. Owners = {}
    BY ServerInvParts DEF OneOwner
  <2>8. Owners' = {r}
    BY <1>0, <2>6, <2>7 DEF Owners
  <2>9. OneOwner'
    BY <1>0, <2>1, <2>6, <2>8 DEF OneOwner, Running
  <2>10. StaleRowInterrupts'
    BY <2>1, <2>5 DEF StaleRowInterrupts
  <2>11. Running(n).run = n
    BY DEF Running
  <2>12. MemorySound' /\ RowSound'
    BY <2>1, <2>5, <2>11 DEF MemorySound, RowSound, Sound
  <2>13. BegunHaveRuns'
    <3> SUFFICES ASSUME NEW t \in Turns, pc'[t] = "begun"
                 PROVE  run_id'[t] # 0
      BY DEF BegunHaveRuns
    <3> QED
      BY <2>6, ServerInvParts DEF BegunHaveRuns, Requests
  <2>14. InputsHeld'
    BY <2>1, <2>4, <2>8 DEF InputsHeld, optimistic_message
  <2>15. DownIsQuiet'
    BY DEF DownIsQuiet
  <2> QED
    BY <2>9, <2>10, <2>12, <2>13, <2>14, <2>15, ServerInvNext
<1> QED
  BY <1>1, <1>2

(* A turn is accepted on an idle or interrupted thread with its own run    *)
(* id, a reply on an awaiting thread with the run id of the status.        *)
LEMMA StartSafe ==
  ASSUME TypeOK, ServerInv, NEW r \in Requests,
         (r \in Turns /\ start_turn(r)) \/ (r \in Replies /\ submit_user_input(r))
  PROVE  ServerInv'
<1>1. pc[r] = "begun" /\ UNCHANGED up
  BY DEF start_turn, submit_user_input
<1>2. up
  BY <1>1, BusyIsUp
<1>3. run_id[r] \in Nat /\ status.run \in Nat
  BY DEF TypeOK, RequestTypeOK, ServerTypeOK, Status
<1>4. CASE Refuse(r)
  BY <1>1, <1>4, RefuseSafe DEF OwnerPC
<1>5. CASE r \in Turns /\ start_turn(r) /\ ~Refuse(r)
  <2>1. status.kind # "running" /\ AcceptRun(r, run_id[r])
    BY <1>5 DEF start_turn, CanStartTurn
  <2>2. run_id[r] # 0
    BY <1>1, <1>5, ServerInvParts DEF BegunHaveRuns
  <2> QED
    BY <1>1, <1>2, <1>3, <1>5, <2>1, <2>2, AcceptRunSafe
<1>6. CASE r \in Replies /\ submit_user_input(r) /\ ~Refuse(r)
  <2>1. status.kind = "awaiting_user_input" /\ AcceptRun(r, status.run)
    BY <1>6 DEF submit_user_input, CanSubmit
  <2>2. status.run # 0
    BY <1>2, <2>1, ServerInvParts DEF MemorySound, Sound, Idle
  <2> QED
    BY <1>1, <1>2, <1>3, <1>6, <2>1, <2>2, AcceptRunSafe
<1> QED
  BY <1>4, <1>5, <1>6

(* A legacy message joins a thread without an owner; it neither asks nor   *)
(* answers, so that status and pending question still agree.               *)
LEMMA AppendSafe ==
  ASSUME TypeOK, ServerInv, NEW a \in Requests, append_session_message(a)
  PROVE  ServerInv'
<1>1. up /\ pc[a] = "new" /\ UNCHANGED up
  BY DEF append_session_message, Received
<1>2. CASE Refuse(a)
  BY <1>1, <1>2, RefuseSafe DEF OwnerPC
<1>3. CASE ~Refuse(a)
  <2>1. /\ CanStartTurn
        /\ session' = Append(session, user_text(a))
        /\ row' = persisted_thread_from_inner(status, session',
                                              last_sequence)
        /\ pc' = [pc EXCEPT ![a] = "appended"]
        /\ UNCHANGED <<status, run_id, answers>>
    BY <1>3 DEF append_session_message, invocation
  <2>2. status \in Status /\ session \in Seq(Message)
        /\ user_text(a) \in Message /\ user_text(a).kind = "user"
    <3>1. user_text(a).kind = "user"
      BY DEF user_text
    <3> QED
      BY <3>1, MessageTypes, RequestsAreWriters DEF TypeOK, ServerTypeOK
  <2>3. pending_user_input_request(session')
          = pending_user_input_request(session)
    BY <2>1, <2>2, PendingAfterPlain
  <2>4. StoredStatus(row') = status /\ row'.session = session'
        /\ row'.last_sequence = last_sequence
    <3> DEFINE nxt == Append(session, user_text(a))
    <3>1. row' = persisted_thread_from_inner(status, nxt, last_sequence)
      BY <2>1
    <3>2. StoredStatus(row') = status /\ row'.session = nxt
          /\ row'.last_sequence = last_sequence
      <4> HIDE DEF nxt
      <4>1. status \in Status
        BY <2>2
      <4> QED
        BY <3>1, <4>1, StoredBack
    <3> QED
      BY <2>1, <3>2
  <2>5. \A o \in Requests : pc'[o] = IF o = a THEN "appended" ELSE pc[o]
    BY <2>1 DEF TypeOK, RequestTypeOK
  <2>6. Owners = {} /\ Owners' = {}
    <3>1. Owners = {}
      BY <1>1, <2>1, ServerInvParts DEF OneOwner, CanStartTurn
    <3> QED
      BY <2>5, <3>1 DEF Owners
  <2>7. OneOwner'
    BY <2>1, <2>6 DEF OneOwner, CanStartTurn
  <2>8. StaleRowInterrupts'
    BY <2>1, <2>4 DEF StaleRowInterrupts
  <2>9. Sound(status, session')
    BY <1>1, <2>3, ServerInvParts DEF MemorySound, Sound
  <2>10. MemorySound' /\ RowSound'
    BY <2>1, <2>4, <2>9 DEF MemorySound, RowSound
  <2>11. BegunHaveRuns'
    <3> SUFFICES ASSUME NEW t \in Turns, pc'[t] = "begun"
                 PROVE  run_id'[t] # 0
      BY DEF BegunHaveRuns
    <3> QED
      BY <2>1, <2>5, ServerInvParts DEF BegunHaveRuns, Requests
  <2>12. InputsHeld'
    BY <2>6 DEF InputsHeld
  <2>13. DownIsQuiet'
    BY <1>1 DEF DownIsQuiet
  <2> QED
    BY <2>7, <2>8, <2>10, <2>11, <2>12, <2>13, ServerInvNext
<1> QED
  BY <1>2, <1>3

(* complete_run takes the thread out of the run of its only owner into the *)
(* status its final session calls for; a row it fails to update still      *)
(* says running.                                                           *)
LEMMA CompleteSafe ==
  ASSUME TypeOK, ServerInv, NEW w \in Requests, complete_run(w)
  PROVE  ServerInv'
<1>1. PICK e \in execute_run(base[w], w) :
        complete_with(w, e.final_session, e.recorded_batches, e.result)
  BY DEF complete_run
<1> DEFINE final == e.final_session
           pending == pending_user_input_request(final)
           st == completed_status(run_id[w], pending)
<1>2. final \in Seq(Message)
  BY ExecuteRunType DEF TypeOK, RequestTypeOK, Execution
<1>3. pending \in Writers \cup {None} /\ run_id[w] \in Nat
  BY <1>2, PendingType DEF TypeOK, RequestTypeOK
<1>4. st \in Status
  BY <1>3, CompletedStatusType
<1>5. /\ session' = final
      /\ status' = st
      /\ \/ row' = persisted_thread_from_inner(st, final, last_sequence)
         \/ row' = row
  BY <1>1 DEF complete_with, upsert_fails
<1>6. \E x : pc' = [pc EXCEPT ![w] = x] /\ ~OwnerPC(x) /\ x # "begun"
  BY <1>1 DEF complete_with, ReplayPC, OwnerPC
<1>7. pc[w] = "working" /\ UNCHANGED <<up, run_id, answers>>
  BY DEF complete_run
<1>8. up /\ Owners = {w} /\ status.kind = "running"
      /\ run_id[w] = status.run
  <2>1. up
    BY <1>7, BusyIsUp
  <2>2. w \in Owners
    BY <1>7 DEF Owners
  <2> QED
    BY <2>1, <2>2, ServerInvParts DEF OneOwner
<1>9. run_id[w] # 0
  BY <1>8, ServerInvParts DEF MemorySound, Sound, Idle
<1>10. Sound(st, final) /\ st.kind # "running"
  BY <1>3, <1>9
  DEF Sound, completed_status, Idle, AwaitingUserInput
<1> HIDE DEF st, final
<1>11. \A o \in Requests : /\ o # w => pc'[o] = pc[o]
                           /\ ~OwnerPC(pc'[w]) /\ pc'[w] # "begun"
  BY <1>6 DEF TypeOK, RequestTypeOK
<1>12. Owners' = {}
  BY <1>8, <1>11 DEF Owners, OwnerPC
<1>13. OneOwner'
  BY <1>5, <1>10, <1>12 DEF OneOwner
<1>14. row'.status = "running" \/
         (StoredStatus(row') = st /\ row'.session = final
          /\ row' = persisted_thread_from_inner(st, final,
                                                row'.last_sequence))
  <2>1. CASE row' = row
    BY <1>8, <2>1, ServerInvParts
    DEF StaleRowInterrupts, persisted_thread_from_inner
  <2>2. CASE row' = persisted_thread_from_inner(st, final, last_sequence)
    BY <1>4, <2>2, StoredBack
  <2> QED
    BY <1>5, <2>1, <2>2
<1>15. StaleRowInterrupts'
  BY <1>5, <1>10, <1>14 DEF StaleRowInterrupts
<1>16. MemorySound'
  BY <1>5, <1>10 DEF MemorySound
<1>17. RowSound'
  <2>1. CASE row' = row
    BY <2>1, ServerInvParts DEF RowSound
  <2>2. CASE row' = persisted_thread_from_inner(st, final, last_sequence)
    BY <1>4, <1>10, <2>2, StoredBack DEF RowSound
  <2> QED
    BY <1>5, <2>1, <2>2
<1>18. BegunHaveRuns'
  <2> SUFFICES ASSUME NEW t \in Turns, pc'[t] = "begun"
               PROVE  run_id'[t] # 0
    BY DEF BegunHaveRuns
  <2> QED
    BY <1>7, <1>11, ServerInvParts DEF BegunHaveRuns, Requests
<1>19. InputsHeld' /\ DownIsQuiet'
  BY <1>7, <1>8, <1>12 DEF InputsHeld, DownIsQuiet
<1> QED
  BY <1>13, <1>15, <1>16, <1>17, <1>18, <1>19, ServerInvNext

(* Broadcasts and emissions move a request forward without taking the      *)
(* thread from its owner or giving it to another.                          *)
LEMMA EmitSafe ==
  ASSUME TypeOK, ServerInv, NEW r \in Requests,
         \/ BroadcastOptimistic(r) \/ Announce(r) \/ BroadcastNew(r)
         \/ ReplayBatch(r) \/ ReplayBlocks(r) \/ EmitTerminal(r) \/ send(r)
  PROVE  ServerInv'
<1> USE DEF inner, invocation
<1>1. CASE ReplayBlocks(r) \/ send(r)
  BY <1>1, UntouchedStep DEF ReplayBlocks, send, emit_protocol_message_blocks
<1>2. CASE BroadcastOptimistic(r)
  <2>1. CASE pc[r] = "accepted"
    BY <1>2, <2>1, FrameStep, BusyIsUp DEF BroadcastOptimistic, OwnerPC, PCs
  <2>2. CASE pc[r] = "appended"
    BY <1>2, <2>2, FrameStep, BusyIsUp DEF BroadcastOptimistic, OwnerPC, PCs
  <2> QED
    BY <1>2, <2>1, <2>2 DEF BroadcastOptimistic
<1>3. CASE Announce(r)
  BY <1>3, FrameStep, BusyIsUp DEF Announce, OwnerPC, PCs
<1>4. CASE BroadcastNew(r)
  <2>1. \E x \in {"legacy", "blocks", "replay"} : pc' = [pc EXCEPT ![r] = x]
    BY <1>4 DEF BroadcastNew, ReplayPC, TypeOK, RequestTypeOK
  <2>2. PICK x \in {"legacy", "blocks", "replay"} :
          pc' = [pc EXCEPT ![r] = x]
    BY <2>1
  <2>3. pc[r] = "legacy"
        /\ UNCHANGED <<up, status, session, row, run_id, answers>>
    BY <1>4 DEF BroadcastNew
  <2> QED
    BY <2>2, <2>3, FrameStep, BusyIsUp DEF OwnerPC, PCs
<1>5. CASE ReplayBatch(r)
  BY <1>5, FrameStep, BusyIsUp DEF ReplayBatch, OwnerPC, PCs
<1>6. CASE EmitTerminal(r)
  <2>1. /\ pc[r] \in {"terminal", "blocks"}
        /\ pc' = [pc EXCEPT ![r] = "done"]
        /\ run_id' = [run_id EXCEPT ![r] = 0]
        /\ UNCHANGED <<up, status, session, row, answers>>
    BY <1>6 DEF EmitTerminal
  <2>2. \A o \in Requests : o # r => run_id'[o] = run_id[o]
    BY <2>1 DEF TypeOK, RequestTypeOK
  <2>3. ~OwnerPC(pc[r]) /\ ~OwnerPC("done") /\ "done" \in PCs
    BY <2>1 DEF OwnerPC, PCs
  <2> QED
    BY <2>1, <2>2, <2>3, FrameStep
<1> QED
  BY <1>1, <1>2, <1>3, <1>4, <1>5, <1>6

(* A crash leaves the row and ends everything that was under way.          *)
LEMMA CrashSafe ==
  ASSUME TypeOK, ServerInv, Crash
  PROVE  ServerInv'
<1>1. /\ up' = FALSE
      /\ row' = row
      /\ pc' = [r \in Requests |->
                  IF pc[r] \in {"new", "refused"} THEN pc[r]
                  ELSE IF pc[r] = "begun" THEN "refused" ELSE "done"]
  BY DEF Crash
<1>2. \A r \in Requests : pc'[r] \in {"new", "refused", "done"}
  BY <1>1
<1>3. Owners' = {}
  BY <1>2 DEF Owners
<1>4. OneOwner' /\ StaleRowInterrupts' /\ MemorySound'
  BY <1>1 DEF OneOwner, StaleRowInterrupts, MemorySound
<1>5. RowSound'
  BY <1>1, ServerInvParts DEF RowSound
<1>6. BegunHaveRuns' /\ InputsHeld' /\ DownIsQuiet'
  BY <1>2, <1>3 DEF BegunHaveRuns, InputsHeld, DownIsQuiet, Requests
<1> QED
  BY <1>4, <1>5, <1>6, ServerInvNext

(* What a sound row restarts as: itself, or interrupted if it was running. *)
LEMMA RecoverSound ==
  ASSUME NEW p \in Rows, Sound(StoredStatus(p), p.session)
  PROVE  LET st == recovered_status_from_persisted(p)
         IN  /\ Sound(st, p.session)
             /\ st.kind # "running"
             /\ st.kind = p.status => st = StoredStatus(p)
             /\ st.note \in {"none", "restart"}
             /\ p.status = "running" =>
                  st = Interrupted(p.last_run_id, "restart")
<1> DEFINE sp == pending_user_input_request(p.session)
<1>1. StoredStatus(p) = [kind |-> p.status, run |-> p.last_run_id,
                         request |-> p.pending_request,
                         note |-> p.recovery_note]
  BY DEF StoredStatus
<1>2. CASE StoredStatus(p) = Idle /\ sp = None
  <2>1. p.status = "idle"
    BY <1>1, <1>2 DEF Idle
  <2>2. recovered_status_from_persisted(p) = Idle
    BY <1>2, <2>1 DEF recovered_status_from_persisted
  <2> QED
    BY <1>2, <2>1, <2>2 DEF Idle, Sound
<1>3. CASE /\ StoredStatus(p).run # 0
           /\ StoredStatus(p) = Running(StoredStatus(p).run)
  <2>1. p.status = "running" /\ p.last_run_id # 0
    BY <1>1, <1>3 DEF Running
  <2>2. recovered_status_from_persisted(p)
          = Interrupted(p.last_run_id, "restart")
    BY <2>1 DEF recovered_status_from_persisted
  <2> QED
    BY <2>1, <2>2 DEF Interrupted, Sound
<1>4. CASE /\ StoredStatus(p).run # 0 /\ sp # None
           /\ StoredStatus(p) = AwaitingUserInput(StoredStatus(p).run, sp)
  <2>1. p.status = "awaiting_user_input" /\ p.last_run_id # 0
        /\ p.pending_request = sp
    BY <1>1, <1>4 DEF AwaitingUserInput
  <2>2. recovered_status_from_persisted(p)
          = AwaitingUserInput(p.last_run_id, sp)
    BY <1>4, <2>1 DEF recovered_status_from_persisted
  <2>3. StoredStatus(p).run = p.last_run_id
    BY <1>1
  <2> QED
    BY <1>4, <2>1, <2>2, <2>3 DEF AwaitingUserInput, Sound
<1>5. CASE /\ StoredStatus(p).run # 0
           /\ StoredStatus(p) = Interrupted(StoredStatus(p).run, "restart")
  <2>1. p.status = "interrupted" /\ p.last_run_id # 0
        /\ p.recovery_note = "restart"
    BY <1>1, <1>5 DEF Interrupted
  <2>2. recovered_status_from_persisted(p)
          = Interrupted(p.last_run_id, "restart")
    BY <2>1 DEF recovered_status_from_persisted
  <2>3. StoredStatus(p).run = p.last_run_id
    BY <1>1
  <2> QED
    BY <1>5, <2>1, <2>2, <2>3 DEF Interrupted, Sound
<1> QED
  BY <1>2, <1>3, <1>4, <1>5 DEF Sound

(* A restart finds the row sound and makes memory agree with it.           *)
LEMMA LoadSafe ==
  ASSUME TypeOK, ServerInv, load_for_cwd
  PROVE  ServerInv'
<1> DEFINE st == recovered_status_from_persisted(row)
<1>1. /\ ~up /\ up' = TRUE
      /\ status' = st
      /\ session' = row.session
      /\ row' = IF st.kind = row.status THEN row
                ELSE persisted_thread_from_inner(st, row.session,
                                                 row.last_sequence)
      /\ UNCHANGED <<pc, run_id, answers>>
  BY DEF load_for_cwd, needs_rewrite, invocation
<1>2. row \in Rows /\ st \in Status
  BY RecoveredType DEF TypeOK, ServerTypeOK
<1>3. /\ Sound(st, row.session)
      /\ st.kind # "running"
      /\ st.kind = row.status => st = StoredStatus(row)
  BY <1>2, RecoverSound, ServerInvParts DEF RowSound
<1> HIDE DEF st
<1>4. Owners = {} /\ Owners' = {}
  BY <1>1, ServerInvParts DEF DownIsQuiet, Owners
<1>5. /\ StoredStatus(row') = st
      /\ row'.session = row.session
      /\ row' = persisted_thread_from_inner(st, row.session,
                                            row'.last_sequence)
  <2>1. CASE st.kind = row.status
    <3>1. row' = row /\ st = StoredStatus(row)
      BY <1>1, <1>3, <2>1
    <3> QED
      BY <1>2, <3>1
      DEF StoredStatus, persisted_thread_from_inner, Rows
  <2>2. CASE st.kind # row.status
    <3>1. row' = persisted_thread_from_inner(st, row.session,
                                             row.last_sequence)
      BY <1>1, <2>2
    <3> QED
      BY <1>2, <3>1, StoredBack
  <2> QED
    BY <2>1, <2>2
<1>6. OneOwner'
  BY <1>1, <1>3, <1>4 DEF OneOwner
<1>7. StaleRowInterrupts'
  BY <1>1, <1>5 DEF StaleRowInterrupts
<1>8. MemorySound' /\ RowSound'
  BY <1>1, <1>3, <1>5 DEF MemorySound, RowSound
<1>9. BegunHaveRuns' /\ InputsHeld' /\ DownIsQuiet'
  BY <1>1, <1>4, ServerInvParts DEF BegunHaveRuns, InputsHeld, DownIsQuiet
<1> QED
  BY <1>6, <1>7, <1>8, <1>9, ServerInvNext

-----------------------------------------------------------------------------
(* ServerInv holds throughout: one owner per run, a status that fits the   *)
(* session in memory and in the store, the active input in the session.    *)
THEOREM ServerSafe == Spec => []ServerInv
<1>1. ASSUME TypeOK, ServerInv, [Next]_vars
      PROVE  ServerInv'
  <2> USE <1>1
  <2>1. ASSUME NEW t \in Turns, start_thread_turn(t) PROVE ServerInv'
    BY <2>1, BeginSafe DEF Requests
  <2>2. ASSUME NEW r \in Replies, submit_thread_user_input(r)
        PROVE  ServerInv'
    BY <2>2, BeginSafe DEF Requests
  <2>3. ASSUME NEW a \in Appends, append_session_message(a)
        PROVE  ServerInv'
    BY <2>3, AppendSafe DEF Requests
  <2>4. ASSUME NEW r \in Requests, Proceed(r) PROVE ServerInv'
    BY <2>4, StartSafe, EmitSafe, CompleteSafe DEF Proceed
  <2>5. ASSUME NEW s \in Streams, subscribe_protocol(s) \/ StreamStep(s)
        PROVE  ServerInv'
    BY <2>5, UntouchedStep
    DEF subscribe_protocol, StreamStep, snapshot_event,
        recv_thread_stream_event, inner, invocation
  <2>6. ASSUME NEW l \in Listeners, subscribe_legacy(l) \/ ListenerStep(l)
        PROVE  ServerInv'
    BY <2>6, UntouchedStep
    DEF subscribe_legacy, ListenerStep, current_session_snapshot,
        recv_legacy_session_event, inner, invocation
  <2>7. CASE UNCHANGED vars
    BY <2>7, UntouchedStep DEF vars, inner, invocation
  <2>8. CASE load_fails
    BY <2>8, UntouchedStep DEF load_fails, upsert_fails, inner, invocation
  <2> QED
    BY <2>1, <2>2, <2>3, <2>4, <2>5, <2>6, <2>7, <2>8, CrashSafe, LoadSafe
    DEF Next, Waiting
<1> QED
  BY <1>1, InitSafe, TypeCorrect, PTL DEF Spec

(* A Running thread always has exactly one handler or worker in charge,    *)
(* with its run id: complete_run may overwrite session and status blindly. *)
THEOREM OwnedRuns == Spec => []RunOwned
<1>1. ServerInv => RunOwned
  BY DEF ServerInv
<1> QED
  BY <1>1, ServerSafe, PTL

(* Whatever is crashed into, the checks of load_for_cwd find the stored    *)
(* status and the stored session in agreement.                             *)
THEOREM ConsistentRecovery == Spec => []RecoveryConsistent
<1>1. TypeOK /\ ServerInv => RecoveryConsistent
  BY RecoverSound DEF TypeOK, ServerTypeOK, ServerInv, RecoveryConsistent
<1> QED
  BY <1>1, TypeCorrect, ServerSafe, PTL

(* The input of the active run is in the session and in the store, in a    *)
(* row that restarts as interrupted with the run's id.                     *)
THEOREM DurableActiveInput == Spec => []ActiveInputDurable
<1>1. ASSUME TypeOK, ServerInv PROVE ActiveInputDurable
  <2> USE <1>1
  <2> SUFFICES ASSUME NEW w \in Owners
               PROVE  /\ Holds(session, optimistic_message(w))
                      /\ Holds(row.session, optimistic_message(w))
                      /\ recovered_status_from_persisted(row)
                           = Interrupted(run_id[w], "restart")
    BY DEF ActiveInputDurable
  <2>1. w \in Requests /\ pc[w] \notin {"new", "refused", "done"}
    BY DEF Owners
  <2>2. up
    BY <2>1, BusyIsUp
  <2>3. status.kind = "running" /\ run_id[w] = status.run
    BY <2>2, ServerInvParts DEF OneOwner
  <2>4. row = persisted_thread_from_inner(status, session, row.last_sequence)
    BY <2>2, <2>3, ServerInvParts DEF StaleRowInterrupts
  <2>5. row.session = session /\ row.status = "running"
        /\ row.last_run_id = run_id[w]
    BY <2>3, <2>4 DEF persisted_thread_from_inner
  <2>6. Holds(session, optimistic_message(w))
    BY ServerInvParts DEF InputsHeld
  <2>7. recovered_status_from_persisted(row)
          = Interrupted(run_id[w], "restart")
    BY <2>5 DEF recovered_status_from_persisted
  <2> QED
    BY <2>5, <2>6, <2>7
<1> QED
  BY <1>1, TypeCorrect, ServerSafe, PTL

(* Memory and store differ only after a completion that could not be       *)
(* stored, and then the row restarts as interrupted.                       *)
THEOREM StaleRowsInterrupt == Spec => []StaleRowInterrupts
<1>1. ServerInv => StaleRowInterrupts
  BY DEF ServerInv
<1> QED
  BY <1>1, ServerSafe, PTL
-----------------------------------------------------------------------------
(* Every behaviour of a thread record is one of ThreadLifecycle. ServerInv *)
(* says which abstract step a concrete one is: that the run which          *)
(* completes is the run in progress, and that a stored status restarts as  *)
(* itself.                                                                 *)

(* What a restart would show, as an operator of the row.                   *)
Durable(p) == Shown(recovered_status_from_persisted(p))

(* A step that keeps process, status and row is no step of the lifecycle.  *)
LEMMA Stutters ==
  ASSUME UNCHANGED <<up, status, row>>
  PROVE  UNCHANGED Lifecycle!lifecycle
BY DEF Lifecycle!lifecycle, Shown

(* A stored status that fits its session restarts as itself, a running one *)
(* as interrupted.                                                         *)
LEMMA StoredShows ==
  ASSUME NEW st \in Status, NEW ses \in Seq(Message), NEW seq \in Nat,
         Sound(st, ses)
  PROVE  Durable(persisted_thread_from_inner(st, ses, seq))
           = IF st.kind = "running" THEN [kind |-> "interrupted", run |-> st.run]
             ELSE Shown(st)
<1> DEFINE p == persisted_thread_from_inner(st, ses, seq)
<1>1. p \in Rows /\ p.status = st.kind /\ p.last_run_id = st.run
  BY PersistedType DEF persisted_thread_from_inner
<1>2. StoredStatus(p) = st /\ p.session = ses
  BY StoredBack
<1> SUFFICES Durable(p) = IF st.kind = "running"
                          THEN [kind |-> "interrupted", run |-> st.run]
                          ELSE Shown(st)
  OBVIOUS
<1> HIDE DEF p
<1> DEFINE re == recovered_status_from_persisted(p)
<1>3. /\ re.kind = p.status => re = st
      /\ p.status = "running" => re = Interrupted(p.last_run_id, "restart")
  BY <1>1, <1>2, RecoverSound
<1>4. CASE st.kind = "running"
  BY <1>1, <1>3, <1>4 DEF Durable, Shown, Interrupted
<1>5. CASE st.kind # "running"
  <2>1. re = st
    <3>1. CASE st = Idle /\ pending_user_input_request(ses) = None
      <4>1. p.status = "idle"
        BY <1>1, <3>1 DEF Idle
      <4>2. re = Idle
        BY <1>2, <3>1, <4>1 DEF recovered_status_from_persisted
      <4> QED
        BY <3>1, <4>2
    <3>2. CASE /\ st.run # 0 /\ pending_user_input_request(ses) # None
               /\ st = AwaitingUserInput(st.run,
                                         pending_user_input_request(ses))
      <4>1. /\ p.status = "awaiting_user_input" /\ p.last_run_id # 0
            /\ p.pending_request = pending_user_input_request(ses)
        BY <1>1, <1>2, <3>2 DEF AwaitingUserInput, StoredStatus
      <4>2. re = AwaitingUserInput(p.last_run_id,
                                   pending_user_input_request(ses))
        BY <1>2, <3>2, <4>1 DEF recovered_status_from_persisted
      <4> QED
        BY <1>1, <3>2, <4>2
    <3>3. CASE st.run # 0 /\ st = Interrupted(st.run, "restart")
      <4>1. p.status = "interrupted" /\ p.recovery_note = "restart"
        BY <1>1, <1>2, <3>3 DEF Interrupted, StoredStatus
      <4>2. re = Interrupted(p.last_run_id, "restart")
        BY <4>1 DEF recovered_status_from_persisted
      <4> QED
        BY <1>1, <3>3, <4>2
    <3> QED
      BY <1>5, <3>1, <3>2, <3>3 DEF Sound, Running
  <2> QED
    BY <1>5, <2>1 DEF Durable
<1> QED
  BY <1>4, <1>5

-----------------------------------------------------------------------------
(* ThreadRecord::new starts a lifecycle.                                   *)
LEMMA InitRefines == Init => Lifecycle!Init
<1> SUFFICES ASSUME Init PROVE Lifecycle!Init
  OBVIOUS
<1>1. /\ up = TRUE /\ status = Idle
      /\ row = persisted_thread_from_inner(Idle, <<>>, 0)
  BY DEF Init
<1>2. Idle \in Status /\ <<>> \in Seq(Message) /\ Idle.kind = "idle"
  BY DEF Idle, Status, StatusKinds, Notes
<1>3. Sound(Idle, <<>>)
  BY DEF Sound, pending_user_input_request, Unanswered
<1>4. Durable(row) = Shown(Idle)
  BY <1>1, <1>2, <1>3, StoredShows
<1> QED
  BY <1>1, <1>4
  DEF Lifecycle!Init, Lifecycle!idle, Lifecycle!State, Shown, Idle, Durable

(* An accepted turn starts a run, an accepted reply resumes one.           *)
LEMMA AcceptRefines ==
  ASSUME TypeOK, ServerInv, NEW r \in Turns \cup Replies,
         NEW n \in Nat \ {0}, AcceptRun(r, n), UNCHANGED up, up,
         \/ status.kind \in {"idle", "interrupted"}
         \/ status.kind = "awaiting_user_input" /\ n = status.run
  PROVE  [Lifecycle!Next]_(Lifecycle!lifecycle)
<1>0. r \in Requests
  BY DEF Requests
<1>1. CASE Refuse(r)
  BY <1>1, Stutters DEF Refuse, inner
<1>2. CASE ~Refuse(r)
  <2> DEFINE nxt == Append(session, optimistic_message(r))
  <2>1. /\ status' = Running(n)
        /\ row' = persisted_thread_from_inner(Running(n), nxt, last_sequence)
    BY <1>2 DEF AcceptRun
  <2>2. /\ Running(n) \in Status /\ session \in Seq(Message)
        /\ optimistic_message(r) \in Message /\ last_sequence \in Nat
    BY <1>0, StatusTypes, OptimisticType DEF Notes, TypeOK, ServerTypeOK
  <2>3. nxt \in Seq(Message)
    BY <2>2, AppendProperties
  <2> HIDE DEF nxt
  <2>4. Running(n).kind = "running" /\ Running(n).run = n
    BY DEF Running
  <2>5. Sound(Running(n), nxt)
    BY <2>4 DEF Sound
  <2>6. Durable(row') = [kind |-> "interrupted", run |-> n]
    BY <2>1, <2>2, <2>3, <2>4, <2>5, StoredShows
  <2>7. Shown(status)' = [kind |-> "running", run |-> n]
    BY <2>1, <2>4 DEF Shown
  <2>8. Shown(recovered_status_from_persisted(row))'
          = [kind |-> "interrupted", run |-> n]
    BY <2>6 DEF Durable
  <2>9. Shown(status).kind = status.kind /\ Shown(status).run = status.run
    BY DEF Shown
  <2>10. CASE status.kind \in {"idle", "interrupted"}
    <3>1. Lifecycle!Start
      BY <2>7, <2>8, <2>9, <2>10 DEF Lifecycle!Start, Lifecycle!State
    <3> QED
      BY <3>1 DEF Lifecycle!Next
  <2>11. CASE status.kind = "awaiting_user_input" /\ n = status.run
    <3>1. Lifecycle!Resume
      BY <2>7, <2>8, <2>9, <2>11 DEF Lifecycle!Resume, Lifecycle!State
    <3> QED
      BY <3>1 DEF Lifecycle!Next
  <2> QED
    BY <2>10, <2>11
<1> QED
  BY <1>1, <1>2

(* start_turn and submit_user_input.                                       *)
LEMMA StartRefines ==
  ASSUME TypeOK, ServerInv, NEW r \in Requests,
         (r \in Turns /\ start_turn(r)) \/ (r \in Replies /\ submit_user_input(r))
  PROVE  [Lifecycle!Next]_(Lifecycle!lifecycle)
<1>1. pc[r] = "begun" /\ UNCHANGED up
  BY DEF start_turn, submit_user_input
<1>2. up
  BY <1>1, BusyIsUp
<1>3. run_id[r] \in Nat /\ status.run \in Nat
  BY DEF TypeOK, RequestTypeOK, ServerTypeOK, Status
<1>4. CASE Refuse(r)
  BY <1>1, <1>4, Stutters DEF Refuse, inner
<1>5. CASE r \in Turns /\ start_turn(r) /\ ~Refuse(r)
  <2>1. status.kind \in {"idle", "interrupted"} /\ AcceptRun(r, run_id[r])
    BY <1>5 DEF start_turn, CanStartTurn
  <2>2. run_id[r] # 0
    BY <1>1, <1>5, ServerInvParts DEF BegunHaveRuns
  <2> QED
    BY <1>1, <1>2, <1>3, <1>5, <2>1, <2>2, AcceptRefines
<1>6. CASE r \in Replies /\ submit_user_input(r) /\ ~Refuse(r)
  <2>1. status.kind = "awaiting_user_input" /\ AcceptRun(r, status.run)
    BY <1>6 DEF submit_user_input, CanSubmit
  <2>2. status.run # 0
    BY <1>2, <2>1, ServerInvParts DEF MemorySound, Sound, Idle
  <2> QED
    BY <1>1, <1>2, <1>3, <1>6, <2>1, <2>2, AcceptRefines
<1> QED
  BY <1>4, <1>5, <1>6

(* A legacy append stores a thread at rest as it is.                       *)
LEMMA AppendRefines ==
  ASSUME TypeOK, ServerInv, NEW a \in Requests, append_session_message(a)
  PROVE  [Lifecycle!Next]_(Lifecycle!lifecycle)
<1>1. up /\ UNCHANGED up
  BY DEF append_session_message, Received
<1>2. CASE Refuse(a)
  BY <1>1, <1>2, Stutters DEF Refuse, inner
<1>3. CASE ~Refuse(a)
  <2> DEFINE nxt == Append(session, user_text(a))
  <2>1. /\ status.kind \in {"idle", "interrupted"}
        /\ row' = persisted_thread_from_inner(status, nxt, last_sequence)
        /\ UNCHANGED status
    BY <1>3 DEF append_session_message, CanStartTurn
  <2>2. status \in Status /\ session \in Seq(Message) /\ last_sequence \in Nat
        /\ user_text(a) \in Message /\ user_text(a).kind = "user"
    <3>1. user_text(a).kind = "user"
      BY DEF user_text
    <3> QED
      BY <3>1, MessageTypes, RequestsAreWriters DEF TypeOK, ServerTypeOK
  <2>3. /\ nxt \in Seq(Message)
        /\ pending_user_input_request(nxt)
             = pending_user_input_request(session)
    BY <2>2, PendingAfterPlain, AppendProperties
  <2> HIDE DEF nxt
  <2>4. Sound(status, nxt)
    BY <1>1, <2>3, ServerInvParts DEF MemorySound, Sound
  <2>5. Durable(row') = Shown(status)
    BY <2>1, <2>2, <2>3, <2>4, StoredShows
  <2>6. Shown(recovered_status_from_persisted(row))' = Shown(status)
        /\ Shown(status)' = Shown(status)
        /\ Shown(status).kind = status.kind
    BY <2>1, <2>5 DEF Durable, Shown
  <2>7. Lifecycle!Save
    BY <1>1, <2>1, <2>6 DEF Lifecycle!Save
  <2> QED
    BY <2>7 DEF Lifecycle!Next
<1> QED
  BY <1>2, <1>3

(* complete_run ends the run in progress, stored or not.                   *)
LEMMA CompleteRefines ==
  ASSUME TypeOK, ServerInv, NEW w \in Requests, complete_run(w)
  PROVE  [Lifecycle!Next]_(Lifecycle!lifecycle)
<1>1. PICK e \in execute_run(base[w], w) :
        complete_with(w, e.final_session, e.recorded_batches, e.result)
  BY DEF complete_run
<1> DEFINE final == e.final_session
           pending == pending_user_input_request(final)
           st == completed_status(run_id[w], pending)
<1>2. final \in Seq(Message)
  BY ExecuteRunType DEF TypeOK, RequestTypeOK, Execution
<1>3. pending \in Writers \cup {None} /\ run_id[w] \in Nat
      /\ last_sequence \in Nat
  BY <1>2, PendingType DEF TypeOK, RequestTypeOK, ServerTypeOK
<1>4. st \in Status
  BY <1>3, CompletedStatusType
<1>5. /\ status' = st
      /\ \/ row' = persisted_thread_from_inner(st, final, last_sequence)
         \/ row' = row
  BY <1>1 DEF complete_with, upsert_fails
<1>6. pc[w] = "working" /\ UNCHANGED up
  BY DEF complete_run
<1>7. up /\ status.kind = "running" /\ run_id[w] = status.run
  <2>1. up
    BY <1>6, BusyIsUp
  <2>2. w \in Owners
    BY <1>6 DEF Owners
  <2> QED
    BY <2>1, <2>2, ServerInvParts DEF OneOwner
<1>8. run_id[w] # 0
  BY <1>7, ServerInvParts DEF MemorySound, Sound, Idle
<1>9. Sound(st, final) /\ st.kind # "running"
  BY <1>3, <1>8
  DEF Sound, completed_status, Idle, AwaitingUserInput
<1>10. Shown(st) \in {[kind |-> "idle", run |-> 0],
                      [kind |-> "awaiting_user_input", run |-> status.run]}
  BY <1>7 DEF completed_status, Idle, AwaitingUserInput, Shown
<1> HIDE DEF st, final
<1>11. Durable(row') \in {Shown(st), Durable(row)}
  <2>1. CASE row' = row
    BY <2>1
  <2>2. CASE row' = persisted_thread_from_inner(st, final, last_sequence)
    BY <1>2, <1>3, <1>4, <1>9, <2>2, StoredShows
  <2> QED
    BY <1>5, <2>1, <2>2
<1>12. /\ Shown(status)' = Shown(st)
       /\ Shown(recovered_status_from_persisted(row))'
            \in {Shown(st), Shown(recovered_status_from_persisted(row))}
       /\ Shown(status).kind = "running" /\ Shown(status).run = status.run
  BY <1>5, <1>7, <1>11 DEF Durable, Shown
<1>13. Lifecycle!Finish
  BY <1>6, <1>7, <1>10, <1>12
  DEF Lifecycle!Finish, Lifecycle!idle, Lifecycle!State
<1> QED
  BY <1>13 DEF Lifecycle!Next

(* A crash stops the thread, a start shows what was stored.                *)
LEMMA RestartRefines ==
  ASSUME TypeOK, ServerInv, Crash \/ load_for_cwd
  PROVE  [Lifecycle!Next]_(Lifecycle!lifecycle)
<1>1. CASE Crash
  <2>1. up /\ up' = FALSE /\ status' = Idle /\ row' = row
    BY <1>1 DEF Crash
  <2>2. Lifecycle!Stop
    BY <2>1
    DEF Lifecycle!Stop, Lifecycle!idle, Lifecycle!State, Shown, Idle
  <2> QED
    BY <2>2 DEF Lifecycle!Next
<1>2. CASE load_for_cwd
  <2> DEFINE st == recovered_status_from_persisted(row)
  <2>1. /\ ~up /\ up' = TRUE
        /\ status' = st
        /\ row' = IF st.kind = row.status THEN row
                  ELSE persisted_thread_from_inner(st, row.session,
                                                   row.last_sequence)
    BY <1>2 DEF load_for_cwd, needs_rewrite
  <2>2. row \in Rows /\ st \in Status /\ row.session \in Seq(Message)
        /\ row.last_sequence \in Nat
    BY RecoveredType DEF TypeOK, ServerTypeOK, Rows
  <2>3. Sound(st, row.session) /\ st.kind # "running"
    BY <2>2, RecoverSound, ServerInvParts DEF RowSound
  <2>4. Shown(st) = Durable(row)
    BY DEF Durable
  <2> HIDE DEF st
  <2>5. Durable(row') = Shown(st)
    <3>1. CASE st.kind = row.status
      BY <2>1, <2>4, <3>1
    <3>2. CASE st.kind # row.status
      BY <2>1, <2>2, <2>3, <3>2, StoredShows
    <3> QED
      BY <3>1, <3>2
  <2>6. /\ Shown(status)' = Shown(recovered_status_from_persisted(row))
        /\ Shown(recovered_status_from_persisted(row))'
             = Shown(recovered_status_from_persisted(row))
    BY <2>1, <2>4, <2>5 DEF Durable
  <2>7. Lifecycle!Restart
    BY <2>1, <2>6 DEF Lifecycle!Restart
  <2> QED
    BY <2>7 DEF Lifecycle!Next
<1> QED
  BY <1>1, <1>2

-----------------------------------------------------------------------------
(* The thread record implements the lifecycle: runs start at rest, only    *)
(* the run in progress ends, a reply resumes the run that asked, and after *)
(* a crash a thread shows what was stored, an accepted run as interrupted. *)
THEOREM Refines == Spec => ImplementsLifecycle
<1>1. ASSUME TypeOK, ServerInv, [Next]_vars
      PROVE  [Lifecycle!Next]_(Lifecycle!lifecycle)
  <2> USE <1>1
  <2>1. ASSUME NEW t \in Turns, start_thread_turn(t)
        PROVE  [Lifecycle!Next]_(Lifecycle!lifecycle)
    BY <2>1, Stutters DEF start_thread_turn, inner
  <2>2. ASSUME NEW r \in Replies, submit_thread_user_input(r)
        PROVE  [Lifecycle!Next]_(Lifecycle!lifecycle)
    BY <2>2, Stutters DEF submit_thread_user_input, inner
  <2>3. ASSUME NEW a \in Appends, append_session_message(a)
        PROVE  [Lifecycle!Next]_(Lifecycle!lifecycle)
    BY <2>3, AppendRefines DEF Requests
  <2>4. ASSUME NEW r \in Requests, Proceed(r)
        PROVE  [Lifecycle!Next]_(Lifecycle!lifecycle)
    <3>1. CASE \/ BroadcastOptimistic(r) \/ Announce(r) \/ BroadcastNew(r)
               \/ ReplayBatch(r) \/ ReplayBlocks(r) \/ EmitTerminal(r)
               \/ send(r)
      BY <3>1, Stutters
      DEF BroadcastOptimistic, Announce, BroadcastNew, ReplayBatch,
          ReplayBlocks, EmitTerminal, send, inner
    <3> QED
      BY <2>4, <3>1, StartRefines, CompleteRefines DEF Proceed
  <2>5. ASSUME NEW s \in Streams, subscribe_protocol(s) \/ StreamStep(s)
        PROVE  [Lifecycle!Next]_(Lifecycle!lifecycle)
    BY <2>5, Stutters
    DEF subscribe_protocol, StreamStep, snapshot_event,
        recv_thread_stream_event, inner
  <2>6. ASSUME NEW l \in Listeners, subscribe_legacy(l) \/ ListenerStep(l)
        PROVE  [Lifecycle!Next]_(Lifecycle!lifecycle)
    BY <2>6, Stutters
    DEF subscribe_legacy, ListenerStep, current_session_snapshot,
        recv_legacy_session_event, inner
  <2>7. CASE load_fails \/ UNCHANGED vars
    BY <2>7, Stutters DEF load_fails, upsert_fails, vars, inner
  <2> QED
    BY <2>1, <2>2, <2>3, <2>4, <2>5, <2>6, <2>7, RestartRefines
    DEF Next, Waiting
<1> QED
  BY <1>1, InitRefines, TypeCorrect, ServerSafe, PTL
  DEF Spec, ImplementsLifecycle, Lifecycle!Spec
-----------------------------------------------------------------------------
(***************************************************************************)
(* What a thread whose clients wait for each other delivers: an accepted   *)
(* input stays in the session and in the store (InputInv), a protocol      *)
(* stream passes on every event it took (StreamInv), and a legacy stream   *)
(* shows the whole session (LegacyInv, where every upsert succeeds).       *)
(*                                                                         *)
(* The induction rests on InputInv: while one request is under way no      *)
(* other is, so that the session a run replaces is the one it was accepted *)
(* into and the sequence of an envelope under way is the newest.           *)
(***************************************************************************)

(* A sequence that begins with another one; a session that does.           *)
Grown(later, seq) ==
  Len(seq) <= Len(later) /\ \A i \in 1..Len(seq) : later[i] = seq[i]

Extends(later, ses) == later \in Seq(Message) /\ Grown(later, ses)

(* What a session holds, every extension of it holds.                      *)
LEMMA ExtendsHolds ==
  ASSUME NEW ses \in Seq(Message), NEW later, Extends(later, ses), NEW m,
         Holds(ses, m)
  PROVE  Holds(later, m)
<1>1. PICK i \in 1..Len(ses) : ses[i] = m
  BY DEF Holds
<1>2. Len(ses) \in Nat /\ Len(later) \in Nat
  BY LenProperties DEF Extends, Grown
<1>3. i \in 1..Len(later) /\ later[i] = m
  BY <1>1, <1>2 DEF Extends, Grown
<1> QED
  BY <1>3 DEF Holds

(* A pushed message is held, and what was there before stays.              *)
LEMMA PushExtends ==
  ASSUME NEW ses \in Seq(Message), NEW m \in Message
  PROVE  Extends(Append(ses, m), ses) /\ Holds(Append(ses, m), m)
<1>1. /\ Append(ses, m) \in Seq(Message)
      /\ Len(Append(ses, m)) = Len(ses) + 1
      /\ \A i \in 1..Len(ses) : Append(ses, m)[i] = ses[i]
      /\ Append(ses, m)[Len(ses) + 1] = m
  BY AppendProperties
<1>2. Len(ses) \in Nat
  BY LenProperties
<1>3. Len(ses) + 1 \in 1..Len(Append(ses, m))
  BY <1>1, <1>2
<1> QED
  BY <1>1, <1>2, <1>3 DEF Extends, Grown, Holds

(* A run that was accepted into a session returns an extension of it: its  *)
(* input was pushed first, and a reply still answers the pending question. *)
LEMMA RunExtends ==
  ASSUME TypeOK, NEW w \in Turns \cup Replies, NEW ses \in Seq(Message),
         w \in Replies => pending_user_input_request(ses) = answers[w],
         NEW e \in execute_run(ses, w)
  PROVE  Extends(e.final_session, Append(ses, optimistic_message(w)))
<1>1. w \in Requests /\ w \in Writers
  BY RequestsAreWriters DEF Requests
<1> DEFINE next == Append(ses, optimistic_message(w))
<1>2. next \in Seq(Message) /\ Len(next) \in Nat
  BY <1>1, OptimisticType, AppendProperties, LenProperties
<1>3. e \in failed_with(next) \/ e \in continue_turn(next, w)
  BY DEF execute_run, apply_optimistic_invocation
<1> HIDE DEF next
<1>4. ASSUME e \in failed_with(next) PROVE Extends(e.final_session, next)
  <2>1. e.final_session = next
    BY <1>4 DEF failed_with
  <2> QED
    BY <1>2, <2>1 DEF Extends, Grown
<1>5. ASSUME e \in continue_turn(next, w)
      PROVE  Extends(e.final_session, next)
  <2>1. PICK more \in Seq(Message) : e.final_session = next \o more
    BY <1>1, <1>2, <1>5, ContinueTurnType
  <2>2. /\ next \o more \in Seq(Message)
        /\ Len(next \o more) = Len(next) + Len(more)
        /\ \A i \in 1..(Len(next) + Len(more)) :
             (next \o more)[i] = IF i <= Len(next) THEN next[i]
                                 ELSE more[i - Len(next)]
    BY <1>2, <2>1, ConcatProperties
  <2>3. Len(more) \in Nat
    BY <2>1, LenProperties
  <2>4. Len(next) <= Len(next \o more)
    BY <1>2, <2>2, <2>3
  <2>5. \A i \in 1..Len(next) : (next \o more)[i] = next[i]
    BY <1>2, <2>2, <2>3
  <2> QED
    BY <2>1, <2>2, <2>4, <2>5 DEF Extends, Grown
<1> QED
  BY <1>3, <1>4, <1>5 DEF next
-----------------------------------------------------------------------------
(* A step of request r beside which nobody is at work: what the others     *)
(* have is left alone, the session only grows, and the row keeps its       *)
(* session or takes the new one.                                           *)
LEMMA InputStep ==
  ASSUME TypeOK, TypeOK', InputInv, NEW r \in Requests,
         up, up',
         \A o \in Requests : o # r =>
           /\ Over(o)
           /\ pc'[o] = pc[o] /\ inflight'[o] = inflight[o]
           /\ cursor'[o] = cursor[o] /\ answers'[o] = answers[o],
         OwnSession(r)',
         Extends(session', session),
         row'.session = row.session \/ row'.session = session',
         \/ Accepted(r) /\ answers'[r] = answers[r]
         \/ ~Accepted(r)'
         \/ /\ Holds(session', optimistic_message(r)')
            /\ Holds(row'.session, optimistic_message(r)')
  PROVE  InputInv'
<1>1. OneAtATime'
  BY DEF OneAtATime, Over
<1>2. ASSUME NEW o \in Requests, o # r PROVE OwnSession(o)'
  <2>1. pc'[o] \in {"new", "refused", "done"} /\ cursor'[o] = cursor[o]
        /\ pc'[o] = pc[o]
    BY <1>2 DEF Over
  <2>2. o \notin Owners'
    BY <2>1 DEF Owners
  <2>3. pc[o] \in {"new", "begun"} => cursor[o] = 0
    BY DEF InputInv, OwnSession
  <2> QED
    BY <2>1, <2>2, <2>3 DEF OwnSession
<1>3. ASSUME NEW o \in Requests, Accepted(o), answers'[o] = answers[o]
      PROVE  /\ Holds(session', optimistic_message(o)')
             /\ Holds(row'.session, optimistic_message(o)')
  <2>1. optimistic_message(o)' = optimistic_message(o)
    BY <1>3 DEF optimistic_message
  <2>2. /\ Holds(session, optimistic_message(o))
        /\ Holds(row.session, optimistic_message(o))
    BY <1>3 DEF InputInv, AcceptedInputsKept
  <2>3. session \in Seq(Message)
    BY DEF TypeOK, ServerTypeOK
  <2>4. Holds(session', optimistic_message(o))
    BY <2>2, <2>3, ExtendsHolds
  <2> QED
    BY <2>1, <2>2, <2>4
<1>4. AcceptedInputsKept'
  <2> SUFFICES ASSUME NEW o \in Requests, Accepted(o)'
               PROVE  /\ Holds(session', optimistic_message(o)')
                      /\ Holds(row'.session, optimistic_message(o)')
    BY DEF AcceptedInputsKept
  <2>1. CASE o = r
    BY <1>3, <2>1
  <2>2. CASE o # r
    <3>1. Accepted(o) /\ answers'[o] = answers[o]
      BY <2>2 DEF Accepted
    <3> QED
      BY <1>3, <3>1
  <2> QED
    BY <2>1, <2>2
<1> QED
  BY <1>1, <1>2, <1>4 DEF InputInv

(* A step that touches nothing InputInv speaks of.                         *)
LEMMA InputFrame ==
  ASSUME InputInv, row'.session = row.session,
         UNCHANGED <<up, session, pc, inflight, cursor, base, answers,
                     optimistic_len>>
  PROVE  InputInv'
BY DEF InputInv, OneAtATime, Over, OwnSession, Owners, optimistic_message,
       AcceptedInputsKept, Accepted

(* Who has something under way has it alone.                               *)
LEMMA Alone ==
  ASSUME InputInv, NEW r \in Requests, ~Over(r) \/ (Serial /\ Received(r))
  PROVE  \A o \in Requests : o # r => Over(o)
BY DEF InputInv, OneAtATime, Received

(* A refused request leaves the thread as it was.                          *)
LEMMA InputRefuse ==
  ASSUME TypeOK, TypeOK', InputInv, NEW r \in Requests,
         up, UNCHANGED <<up, replay, inflight>>,
         \A o \in Requests : o # r => Over(o), Refuse(r)
  PROVE  InputInv'
<1>1. /\ UNCHANGED <<session, row, answers, cursor, inflight>>
      /\ pc' = [pc EXCEPT ![r] = "refused"]
  BY DEF Refuse, inner, replay
<1>2. \A o \in Requests : pc'[o] = IF o = r THEN "refused" ELSE pc[o]
  BY <1>1 DEF TypeOK, RequestTypeOK
<1>3. OwnSession(r)' /\ ~Accepted(r)'
  BY <1>2 DEF OwnSession, Owners, Accepted
<1>4. Extends(session', session)
  BY <1>1 DEF Extends, Grown, TypeOK, ServerTypeOK
<1> QED
  BY <1>1, <1>2, <1>3, <1>4, InputStep

(* The handlers read the base session before the lock; nobody changes the  *)
(* session in between.                                                     *)
LEMMA BeginInput ==
  ASSUME TypeOK, TypeOK', InputInv, Serial, NEW r \in Requests,
         \/ r \in Turns /\ start_thread_turn(r)
         \/ r \in Replies /\ submit_thread_user_input(r)
  PROVE  InputInv'
<1>1. Received(r)
  BY DEF start_thread_turn, submit_thread_user_input
<1>2. \A o \in Requests : o # r => Over(o)
  BY <1>1, Alone
<1>3. /\ UNCHANGED <<up, session, row, cursor, inflight>>
      /\ pc' = [pc EXCEPT ![r] = "begun"]
      /\ base' = [base EXCEPT ![r] = session]
  BY DEF start_thread_turn, submit_thread_user_input, inner, replay
<1>4. answers' = answers \/ \E q : answers' = [answers EXCEPT ![r] = q]
  BY DEF start_thread_turn, submit_thread_user_input
<1>5. \A o \in Requests : /\ pc'[o] = IF o = r THEN "begun" ELSE pc[o]
                          /\ o # r => answers'[o] = answers[o]
  BY <1>3, <1>4 DEF TypeOK, RequestTypeOK
<1>6. base'[r] = session /\ cursor[r] = 0
  <2>1. base'[r] = session
    BY <1>3 DEF TypeOK, RequestTypeOK
  <2>2. pc[r] = "new"
    BY <1>1 DEF Received
  <2> QED
    BY <2>1, <2>2 DEF InputInv, OwnSession
<1>7. OwnSession(r)' /\ ~Accepted(r)'
  BY <1>3, <1>5, <1>6 DEF OwnSession, Owners, Accepted
<1>8. Extends(session', session)
  BY <1>3 DEF Extends, Grown, TypeOK, ServerTypeOK
<1> QED
  BY <1>1, <1>2, <1>3, <1>5, <1>7, <1>8, InputStep DEF Received

(* A turn or a reply is accepted into the session its handler read; a      *)
(* reply only while the question it answers is the one pending there.      *)
LEMMA StartInput ==
  ASSUME TypeOK, TypeOK', ServerInv, InputInv, NEW r \in Requests,
         \/ r \in Turns /\ start_turn(r)
         \/ r \in Replies /\ submit_user_input(r)
  PROVE  InputInv'
<1>1. pc[r] = "begun" /\ UNCHANGED <<up, replay, inflight>>
  BY DEF start_turn, submit_user_input
<1>2. up /\ up'
  BY <1>1, BusyIsUp
<1>3. \A o \in Requests : o # r => Over(o)
  BY <1>1, Alone DEF Over
<1>4. CASE Refuse(r)
  BY <1>1, <1>2, <1>3, <1>4, InputRefuse
<1>5. CASE ~Refuse(r)
  <2> DEFINE om == optimistic_message(r)
  <2>1. /\ session' = Append(session, om)
        /\ optimistic_len' =
             [optimistic_len EXCEPT ![r] = Len(Append(session, om))]
        /\ pc' = [pc EXCEPT ![r] = "accepted"]
        /\ \E st : row' = persisted_thread_from_inner(
                              st, Append(session, om), last_sequence)
        /\ UNCHANGED <<base, answers, cursor>>
    BY <1>1, <1>5 DEF start_turn, submit_user_input, AcceptRun, replay
  <2>2. session \in Seq(Message) /\ om \in Message
    BY OptimisticType DEF TypeOK, ServerTypeOK
  <2>3. Extends(session', session) /\ Holds(session', om)
    BY <2>1, <2>2, PushExtends
  <2>4. row'.session = session'
    BY <2>1 DEF persisted_thread_from_inner
  <2>5. \A o \in Requests : pc'[o] = IF o = r THEN "accepted" ELSE pc[o]
    BY <2>1 DEF TypeOK, RequestTypeOK
  <2>6. optimistic_len'[r] = Len(session')
    BY <2>1 DEF TypeOK, RequestTypeOK
  <2>7. base[r] = session /\ cursor[r] = 0
    BY <1>1 DEF InputInv, OwnSession
  <2>8. r \in Replies => pending_user_input_request(session) = answers[r]
    <3> SUFFICES ASSUME r \in Replies
                 PROVE  pending_user_input_request(session) = answers[r]
      OBVIOUS
    <3>1. r \notin Turns
      BY ThreadAssumption
    <3>2. CanSubmit(r)
      BY <1>5, <3>1 DEF submit_user_input
    <3>3. Sound(status, session)
      BY <1>2, ServerInvParts DEF MemorySound
    <3> QED
      BY <3>2, <3>3
      DEF CanSubmit, Sound, Idle, Running, Interrupted, AwaitingUserInput
  <2>9. om' = om
    BY <2>1 DEF optimistic_message
  <2> HIDE DEF om
  <2>10. OwnSession(r)'
    <3>1. pc'[r] = "accepted"
      BY <2>5
    <3>2. session' = Append(base'[r], om') /\ optimistic_len'[r] = Len(session')
          /\ cursor'[r] = 0
      BY <2>1, <2>6, <2>7, <2>9
    <3>3. r \in Replies => pending_user_input_request(base'[r]) = answers'[r]
      BY <2>1, <2>7, <2>8
    <3>4. r \in Turns \cup Replies
      OBVIOUS
    <3> QED
      BY <3>1, <3>2, <3>3, <3>4 DEF OwnSession, om
  <2>11. /\ Holds(session', om') /\ Holds(row'.session, om')
    BY <2>3, <2>4, <2>9
  <2> QED
    BY <1>1, <1>2, <1>3, <2>1, <2>3, <2>4, <2>5, <2>10, <2>11, InputStep
    DEF om
<1> QED
  BY <1>4, <1>5

(* A legacy message is pushed and stored at once.                          *)
LEMMA AppendInput ==
  ASSUME TypeOK, TypeOK', InputInv, Serial, NEW a \in Appends,
         append_session_message(a)
  PROVE  InputInv'
<1>1. Received(a) /\ a \in Requests /\ UNCHANGED <<up, replay, inflight>>
  BY DEF append_session_message, Requests
<1>2. up /\ \A o \in Requests : o # a => Over(o)
  BY <1>1, Alone DEF Received
<1>3. CASE Refuse(a)
  BY <1>1, <1>2, <1>3, InputRefuse
<1>4. CASE ~Refuse(a)
  <2>1. /\ session' = Append(session, user_text(a))
        /\ row' = persisted_thread_from_inner(status, session', last_sequence)
        /\ pc' = [pc EXCEPT ![a] = "appended"]
        /\ UNCHANGED <<answers, cursor>>
    BY <1>1, <1>4 DEF append_session_message, invocation, replay
  <2>2. session \in Seq(Message) /\ user_text(a) \in Message
    BY <1>1, MessageTypes, RequestsAreWriters DEF TypeOK, ServerTypeOK
  <2>3. Extends(session', session) /\ Holds(session', user_text(a))
    BY <2>1, <2>2, PushExtends
  <2>4. row'.session = session'
    BY <2>1 DEF persisted_thread_from_inner
  <2>5. \A o \in Requests : pc'[o] = IF o = a THEN "appended" ELSE pc[o]
    BY <2>1 DEF TypeOK, RequestTypeOK
  <2>6. optimistic_message(a)' = user_text(a)
    BY ThreadAssumption DEF optimistic_message
  <2>7. OwnSession(a)'
    BY <1>1, <2>5 DEF OwnSession, Owners
  <2> QED
    BY <1>1, <1>2, <2>1, <2>3, <2>4, <2>5, <2>6, <2>7, InputStep
<1> QED
  BY <1>3, <1>4

(* complete_run replaces the session, blindly, by what its worker made of  *)
(* the base session and the input: an extension of what it replaces.       *)
LEMMA CompleteExtends ==
  ASSUME TypeOK, ServerInv, InputInv, NEW w \in Requests, complete_run(w)
  PROVE  \E e \in execute_run(base[w], w) :
           /\ complete_with(w, e.final_session, e.recorded_batches, e.result)
           /\ Extends(e.final_session, session)
           /\ e.recorded_batches \in Nat
<1>1. PICK e \in execute_run(base[w], w) :
        complete_with(w, e.final_session, e.recorded_batches, e.result)
  BY DEF complete_run
<1>2. pc[w] = "working" /\ w \in Owners
  BY DEF complete_run, Owners
<1>3. /\ w \in Turns \cup Replies
      /\ session = Append(base[w], optimistic_message(w))
      /\ w \in Replies => pending_user_input_request(base[w]) = answers[w]
  BY <1>2 DEF InputInv, OwnSession
<1>4. base[w] \in Seq(Message)
  BY DEF TypeOK, RequestTypeOK
<1>5. Extends(e.final_session, session)
  BY <1>3, <1>4, RunExtends
<1>6. e.recorded_batches \in Nat
  BY <1>4, ExecuteRunType DEF Execution
<1> QED
  BY <1>1, <1>5, <1>6

(* Completing a run keeps every input: the session is extended and the row *)
(* takes it, or stays.                                                     *)
LEMMA CompleteInput ==
  ASSUME TypeOK, TypeOK', ServerInv, InputInv, NEW w \in Requests,
         complete_run(w)
  PROVE  InputInv'
<1>1. PICK e \in execute_run(base[w], w) :
        /\ complete_with(w, e.final_session, e.recorded_batches, e.result)
        /\ Extends(e.final_session, session)
  BY CompleteExtends
<1>2. /\ session' = e.final_session
      /\ row'.session = row.session \/ row'.session = e.final_session
  BY <1>1 DEF complete_with, upsert_fails, persisted_thread_from_inner
<1>3. pc[w] = "working" /\ UNCHANGED <<up, answers, cursor, inflight>>
  BY DEF complete_run
<1>4. up /\ \A o \in Requests : o # w => Over(o)
  BY <1>3, BusyIsUp, Alone DEF Over
<1>5. \E x : /\ pc' = [pc EXCEPT ![w] = x]
             /\ x \in {"legacy", "replay", "blocks", "terminal"}
  BY <1>1 DEF complete_with, ReplayPC
<1>6. \A o \in Requests : o # w => pc'[o] = pc[o]
  BY <1>5 DEF TypeOK, RequestTypeOK
<1>7. pc'[w] \in {"legacy", "replay", "blocks", "terminal"}
  BY <1>5 DEF TypeOK, RequestTypeOK
<1>8. OwnSession(w)'
  BY <1>7 DEF OwnSession, Owners
<1>9. Accepted(w)
  BY <1>3 DEF Accepted
<1> QED
  BY <1>1, <1>2, <1>3, <1>4, <1>6, <1>8, <1>9, InputStep

(* Broadcasts and emissions only move their request forward.               *)
LEMMA EmitInput ==
  ASSUME TypeOK, TypeOK', ServerInv, InputInv, NEW r \in Requests,
         \/ BroadcastOptimistic(r) \/ Announce(r) \/ BroadcastNew(r)
         \/ ReplayBatch(r) \/ ReplayBlocks(r) \/ EmitTerminal(r) \/ send(r)
  PROVE  InputInv'
<1>1. CASE send(r)
  <2>1. /\ inflight[r] # <<>>
        /\ UNCHANGED <<up, session, row, pc, cursor, base, answers,
                       optimistic_len>>
        /\ inflight' = [inflight EXCEPT ![r] = <<>>]
    BY <1>1 DEF send, inner, replay, invocation
  <2>2. \A o \in Requests : inflight'[o] = <<>> \/ inflight'[o] = inflight[o]
    BY <2>1 DEF TypeOK, ReplayTypeOK
  <2>3. OneAtATime'
    BY <2>1, <2>2 DEF InputInv, OneAtATime, Over
  <2>4. (\A o \in Requests : OwnSession(o)') /\ AcceptedInputsKept'
    BY <2>1 DEF InputInv, OwnSession, Owners, optimistic_message,
                AcceptedInputsKept, Accepted
  <2> QED
    BY <2>3, <2>4 DEF InputInv
<1>2. CASE ~send(r)
  <2>1. pc[r] \notin {"new", "begun", "refused", "done"}
    BY <1>2 DEF BroadcastOptimistic, Announce, BroadcastNew, ReplayBatch,
                ReplayBlocks, EmitTerminal
  <2>2. up /\ Accepted(r) /\ \A o \in Requests : o # r => Over(o)
    BY <2>1, BusyIsUp, Alone DEF Over, Accepted
  <2>3. UNCHANGED <<up, session, row, base, answers, optimistic_len>>
    BY <1>2 DEF BroadcastOptimistic, Announce, BroadcastNew, ReplayBatch,
                ReplayBlocks, EmitTerminal, inner, invocation
  <2>4. \A o \in Requests : o # r => pc'[o] = pc[o] /\ cursor'[o] = cursor[o]
    BY <1>2
    DEF BroadcastOptimistic, Announce, BroadcastNew, ReplayBatch,
        ReplayBlocks, EmitTerminal, replay, TypeOK, RequestTypeOK,
        ReplayTypeOK
  <2>5. \A o \in Requests : o # r => inflight'[o] = inflight[o]
    BY <1>2
    DEF BroadcastOptimistic, Announce, BroadcastNew, ReplayBatch,
        ReplayBlocks, EmitTerminal, stamp, emit_protocol_message_blocks,
        TypeOK, ReplayTypeOK
  <2>6. OwnSession(r)'
    <3>1. CASE BroadcastOptimistic(r) /\ pc[r] = "accepted"
      <4>1. pc'[r] = "announcing" /\ cursor' = cursor
        BY <3>1 DEF BroadcastOptimistic, replay, TypeOK, RequestTypeOK
      <4>2. r \in Owners /\ OwnSession(r)
        BY <3>1 DEF Owners, InputInv
      <4> QED
        BY <2>3, <4>1, <4>2 DEF OwnSession, optimistic_message
    <3>2. CASE Announce(r)
      <4>1. pc'[r] = "working" /\ cursor' = cursor
        BY <3>2 DEF Announce, replay, TypeOK, RequestTypeOK
      <4>2. r \in Owners /\ OwnSession(r)
        BY <3>2 DEF Announce, Owners, InputInv
      <4> QED
        BY <2>3, <4>1, <4>2 DEF OwnSession, optimistic_message
    <3>3. CASE ~Announce(r) /\ ~(BroadcastOptimistic(r) /\ pc[r] = "accepted")
      <4>1. pc'[r] \in {"legacy", "replay", "blocks", "terminal", "done"}
        BY <1>2, <3>3
        DEF BroadcastOptimistic, BroadcastNew, ReplayBatch, ReplayBlocks,
            EmitTerminal, ReplayPC, TypeOK, RequestTypeOK
      <4> QED
        BY <4>1 DEF OwnSession, Owners
    <3> QED
      BY <3>1, <3>2, <3>3
  <2>7. Extends(session', session)
    BY <2>3 DEF Extends, Grown, TypeOK, ServerTypeOK
  <2> QED
    BY <2>2, <2>3, <2>4, <2>5, <2>6, <2>7, InputStep
<1> QED
  BY <1>1, <1>2

(* A crash loses the session but not the row; what was begun is refused,   *)
(* what was accepted is in the row.                                        *)
LEMMA CrashInput ==
  ASSUME TypeOK, InputInv, Crash
  PROVE  InputInv'
<1>1. /\ ~up' /\ UNCHANGED <<row, answers>>
      /\ \A o \in Requests :
           /\ pc'[o] \in {"new", "refused", "done"}
           /\ pc'[o] = "new" => pc[o] = "new"
           /\ pc'[o] \notin {"new", "refused"} => Accepted(o)
           /\ inflight'[o] = <<>> /\ cursor'[o] = 0
  BY DEF Crash, Accepted
<1>2. OneAtATime'
  BY <1>1 DEF OneAtATime, Over
<1>3. \A o \in Requests : OwnSession(o)'
  BY <1>1 DEF OwnSession, Owners
<1>4. AcceptedInputsKept'
  BY <1>1 DEF InputInv, AcceptedInputsKept, Accepted, optimistic_message
<1> QED
  BY <1>2, <1>3, <1>4 DEF InputInv

(* A restart takes its session from the row.                               *)
LEMMA LoadInput ==
  ASSUME TypeOK, ServerInv, InputInv, load_for_cwd
  PROVE  InputInv'
<1>1. /\ ~up /\ session' = row.session
      /\ row' = row \/ row'.session = row.session
      /\ UNCHANGED <<pc, inflight, cursor, answers>>
  BY DEF load_for_cwd, replay, invocation, persisted_thread_from_inner
<1>2. \A o \in Requests : pc[o] \in {"new", "refused", "done"}
  BY <1>1, ServerInvParts DEF DownIsQuiet
<1>3. OneAtATime'
  BY <1>1 DEF InputInv, OneAtATime, Over
<1>4. \A o \in Requests : OwnSession(o)'
  BY <1>1, <1>2 DEF InputInv, OwnSession, Owners
<1>5. AcceptedInputsKept'
  BY <1>1 DEF InputInv, AcceptedInputsKept, Accepted, optimistic_message
<1> QED
  BY <1>3, <1>4, <1>5 DEF InputInv

(* What readers do, and a failing start, is nothing to the requests.       *)
LEMMA ReadInput ==
  ASSUME InputInv,
         \/ \E s \in Streams : subscribe_protocol(s) \/ StreamStep(s)
         \/ \E l \in Listeners : subscribe_legacy(l) \/ ListenerStep(l)
         \/ load_fails \/ UNCHANGED vars
  PROVE  InputInv'
<1>1. UNCHANGED <<up, session, row, pc, inflight, cursor, base, answers,
                  optimistic_len>>
  BY DEF subscribe_protocol, StreamStep, snapshot_event,
         recv_thread_stream_event, subscribe_legacy, ListenerStep,
         current_session_snapshot, recv_legacy_session_event, load_fails,
         upsert_fails, vars, inner, invocation, replay
<1> QED
  BY <1>1, InputFrame

(* No step breaks InputInv.                                                *)
LEMMA StepInput ==
  ASSUME TypeOK, TypeOK', ServerInv, InputInv, Serial, [Next]_vars
  PROVE  InputInv'
<1>1. ASSUME NEW t \in Turns, start_thread_turn(t) PROVE InputInv'
  BY <1>1, BeginInput DEF Requests
<1>2. ASSUME NEW r \in Replies, submit_thread_user_input(r) PROVE InputInv'
  BY <1>2, BeginInput DEF Requests
<1>3. ASSUME NEW a \in Appends, append_session_message(a) PROVE InputInv'
  BY <1>3, AppendInput
<1>4. ASSUME NEW r \in Requests, Proceed(r) PROVE InputInv'
  BY <1>4, StartInput, CompleteInput, EmitInput DEF Proceed
<1> QED
  BY <1>1, <1>2, <1>3, <1>4, CrashInput, LoadInput, ReadInput
  DEF Next, Waiting

(* A new thread has accepted nothing.                                      *)
LEMMA InitInput == Init => InputInv
BY DEF Init, InputInv, OneAtATime, OwnSession, Owners, Over,
       AcceptedInputsKept, Accepted

(* InputInv holds of every thread whose clients wait for each other.       *)
THEOREM InputSafe == ASSUME Serial PROVE Spec => []InputInv
<1>1. TypeOK /\ TypeOK' /\ ServerInv /\ InputInv /\ [Next]_vars => InputInv'
  BY StepInput
<1> QED
  BY <1>1, InitInput, TypeCorrect, ServerSafe, PTL DEF Spec

(* An input the server accepted is never dropped from the thread, in       *)
(* memory or in the store, whatever crashes and failing upserts happen.    *)
THEOREM InputsKept == ASSUME Serial PROVE Spec => []AcceptedInputsKept
<1>1. InputInv => AcceptedInputsKept
  BY DEF InputInv
<1> QED
  BY <1>1, InputSafe, PTL
-----------------------------------------------------------------------------
(* A step that stamps or sends nothing keeps the order of the envelopes.   *)
LEMMA OrderFrame ==
  ASSUME OrderInv, UNCHANGED <<up, protocol_events, last_sequence, inflight>>
  PROVE  OrderInv'
BY DEF OrderInv

(* A stamped envelope gets a sequence above all that was sent, while no    *)
(* other one is under way.                                                 *)
LEMMA OrderStamp ==
  ASSUME TypeOK, TypeOK', OrderInv, NEW r \in Requests, NEW type, up, up',
         \A o \in Requests : o # r => inflight[o] = <<>>,
         stamp(r, type), UNCHANGED protocol_events
  PROVE  OrderInv'
<1>1. /\ last_sequence \in Nat /\ last_sequence' = last_sequence + 1
      /\ \A i \in 1..Len(protocol_events) :
           protocol_events[i].sequence \in Nat
  <2>1. protocol_events \in Seq(Envelope)
    BY DEF TypeOK, ReaderTypeOK
  <2>2. \A i \in 1..Len(protocol_events) : protocol_events[i] \in Envelope
    BY <2>1, ElementOfSeq
  <2> QED
    BY <2>2 DEF stamp, Envelope, TypeOK, ServerTypeOK
<1>2. \A o \in Requests : inflight'[o] # <<>> =>
        inflight'[o][1].sequence = last_sequence'
  <2> SUFFICES ASSUME NEW o \in Requests, inflight'[o] # <<>>
               PROVE  inflight'[o][1].sequence = last_sequence'
    OBVIOUS
  <2>1. inflight'[o] = IF o = r
                       THEN <<[sequence |-> last_sequence + 1,
                               run |-> run_id[r], type |-> type]>>
                       ELSE inflight[o]
    BY DEF stamp, TypeOK, ReplayTypeOK
  <2> QED
    BY <1>1, <2>1
<1>3. \A i \in 1..Len(protocol_events) :
        protocol_events[i].sequence < last_sequence'
  BY <1>1 DEF OrderInv
<1>4. \A i \in 1..Len(protocol_events) :
        protocol_events[i].sequence <= last_sequence'
  BY <1>1, <1>3
<1> QED
  BY <1>2, <1>3, <1>4 DEF OrderInv

(* The envelope under way is the newest: sending it keeps the order.       *)
LEMMA SendOrder ==
  ASSUME TypeOK, TypeOK', InputInv, OrderInv, NEW r \in Requests, send(r)
  PROVE  OrderInv' /\ Grown(protocol_events', protocol_events)
<1> DEFINE e == inflight[r][1]
<1>1. /\ inflight[r] # <<>> /\ UNCHANGED <<up, last_sequence>>
      /\ inflight' = [inflight EXCEPT ![r] = <<>>]
      /\ \/ protocol_events' = protocol_events
         \/ protocol_events' = Append(protocol_events, e)
  BY DEF send, inner
<1>2. \A o \in Requests : inflight'[o] = <<>>
  <2>1. \A o \in Requests : o # r => inflight[o] = <<>>
    BY <1>1, Alone DEF Over
  <2> QED
    BY <1>1, <2>1 DEF TypeOK, ReplayTypeOK
<1>3. e \in Envelope /\ protocol_events \in Seq(Envelope)
  <2>1. inflight[r] \in Seq(Envelope) /\ protocol_events \in Seq(Envelope)
    BY DEF TypeOK, ReplayTypeOK, ReaderTypeOK
  <2>2. Len(inflight[r]) \in Nat \ {0}
    BY <1>1, <2>1, EmptySeq
  <2>3. 1 \in 1..Len(inflight[r])
    BY <2>2
  <2> QED
    BY <2>1, <2>3, ElementOfSeq
<1>4. /\ up /\ e.sequence = last_sequence
      /\ \A i \in 1..Len(protocol_events) :
           protocol_events[i].sequence < last_sequence
  BY <1>1 DEF OrderInv
<1> HIDE DEF e
<1>5. CASE protocol_events' = protocol_events
  <2>1. OrderInv'
    BY <1>1, <1>2, <1>5 DEF OrderInv
  <2>2. Len(protocol_events) \in Nat
    BY <1>3, LenProperties
  <2> QED
    BY <1>5, <2>1, <2>2 DEF Grown
<1>6. CASE protocol_events' = Append(protocol_events, e)
  <2> DEFINE n == Len(protocol_events)
  <2>1. /\ n \in Nat /\ Len(protocol_events') = n + 1
        /\ \A i \in 1..n : protocol_events'[i] = protocol_events[i]
        /\ protocol_events'[n + 1] = e
    BY <1>3, <1>6, AppendProperties, LenProperties
  <2>2. last_sequence \in Nat
        /\ \A i \in 1..n : protocol_events[i].sequence \in Nat
    <3>1. \A i \in 1..n : protocol_events[i] \in Envelope
      BY <1>3, ElementOfSeq
    <3> QED
      BY <3>1 DEF Envelope, TypeOK, ServerTypeOK
  <2> HIDE DEF n
  <2>3. \A i, j \in 1..n :
          i < j => protocol_events[i].sequence < protocol_events[j].sequence
    BY DEF OrderInv, n
  <2>4. \A i \in 1..(n + 1) : i \in 1..n \/ i = n + 1
    BY <2>1
  <2>5. ASSUME NEW i \in 1..(n + 1), NEW j \in 1..(n + 1), i < j
        PROVE  protocol_events'[i].sequence < protocol_events'[j].sequence
    <3>1. i \in 1..n
      BY <2>1, <2>5
    <3>2. CASE j \in 1..n
      BY <2>1, <2>3, <2>5, <3>1, <3>2
    <3>3. CASE j = n + 1
      BY <1>4, <2>1, <3>1, <3>3 DEF n
    <3> QED
      BY <2>4, <3>2, <3>3
  <2>6. ASSUME NEW i \in 1..(n + 1)
        PROVE  protocol_events'[i].sequence <= last_sequence'
    <3>1. CASE i \in 1..n
      BY <1>1, <1>4, <2>1, <2>2, <3>1 DEF n
    <3>2. CASE i = n + 1
      BY <1>1, <1>4, <2>1, <2>2, <3>2
    <3> QED
      BY <2>4, <3>1, <3>2
  <2>7. OrderInv'
    BY <1>1, <1>2, <1>4, <2>1, <2>5, <2>6 DEF OrderInv
  <2>8. Grown(protocol_events', protocol_events)
    BY <2>1 DEF Grown, n
  <2> QED
    BY <2>7, <2>8
<1> QED
  BY <1>1, <1>5, <1>6 DEF e

(* Every stamp is taken by the request under way, in the order of its      *)
(* program.                                                                *)
LEMMA EmitOrder ==
  ASSUME TypeOK, TypeOK', ServerInv, InputInv, OrderInv, NEW r \in Requests,
         \/ Announce(r) \/ ReplayBatch(r) \/ ReplayBlocks(r)
         \/ EmitTerminal(r)
  PROVE  OrderInv' /\ UNCHANGED <<up, protocol_events, stream>>
<1>1. UNCHANGED <<up, protocol_events, stream>>
  BY DEF Announce, ReplayBatch, ReplayBlocks, EmitTerminal, channels, readers
<1>2. pc[r] \notin {"new", "refused", "done"}
  BY DEF Announce, ReplayBatch, ReplayBlocks, EmitTerminal
<1>3. up /\ \A o \in Requests : o # r => inflight[o] = <<>>
  BY <1>2, BusyIsUp, Alone DEF Over
<1>4. (\E type : stamp(r, type)) \/ UNCHANGED <<last_sequence, inflight>>
  BY DEF Announce, ReplayBatch, ReplayBlocks, EmitTerminal,
         emit_protocol_message_blocks
<1> QED
  BY <1>1, <1>3, <1>4, OrderStamp, OrderFrame

(* What StreamFidelity says of one stream.                                 *)
Faithful(s) ==
  stream[s].phase = "live" =>
    \A i \in 1..stream[s].pos :
      protocol_events[i].sequence > stream[s].first =>
        \E j \in 1..Len(stream[s].got) :
          stream[s].got[j] = protocol_events[i]

LEMMA FaithfulStreams == StreamFidelity <=> \A s \in Streams : Faithful(s)
BY DEF StreamFidelity, Faithful

(* A stream that is left alone while the channel only grows.               *)
LEMMA StreamFrame ==
  ASSUME TypeOK, NEW s \in Streams, PassedOn(s), Faithful(s),
         up' = up \/ stream[s].phase \notin {"subscribed", "live"},
         stream'[s] = stream[s], Grown(protocol_events', protocol_events)
  PROVE  PassedOn(s)' /\ Faithful(s)'
<1>1. CASE stream[s].phase \notin {"subscribed", "live"}
  BY <1>1 DEF PassedOn, Faithful
<1>2. CASE stream[s].phase = "subscribed"
  <2>1. stream[s].pos \in Nat /\ Len(protocol_events) \in Nat
        /\ Len(protocol_events') \in Nat
    BY DEF TypeOK, ReaderTypeOK, StreamStates
  <2> QED
    BY <1>2, <2>1 DEF PassedOn, Faithful, Grown
<1>3. CASE stream[s].phase = "live"
  <2>1. stream[s].pos \in Nat /\ Len(protocol_events) \in Nat
    BY LenProperties DEF TypeOK, ReaderTypeOK, StreamStates
  <2>2. stream[s].pos <= Len(protocol_events)
    BY <1>3 DEF PassedOn
  <2>3. \A i \in 1..stream[s].pos : protocol_events'[i] = protocol_events[i]
    BY <2>1, <2>2 DEF Grown
  <2>4. Faithful(s)'
    BY <1>3, <2>3 DEF Faithful
  <2>5. stream[s].pos <= Len(protocol_events')
    BY <2>1, <2>2 DEF Grown
  <2> QED
    BY <1>3, <2>3, <2>4, <2>5 DEF PassedOn
<1> QED
  BY <1>1, <1>2, <1>3

(* What a stream itself does: a new receiver starts at the end of the      *)
(* channel, its snapshot covers all that was sent, and the filter drops    *)
(* only what the snapshot or an earlier envelope covers.                   *)
LEMMA SubscribeFaithful ==
  ASSUME TypeOK, NEW s \in Streams, subscribe_protocol(s)
  PROVE  PassedOn(s)' /\ Faithful(s)'
<1>1. /\ up' /\ stream'[s].phase = "subscribed"
      /\ stream'[s].pos = Len(protocol_events)
      /\ protocol_events' = protocol_events
  BY DEF subscribe_protocol, channels, TypeOK, ReaderTypeOK, StreamStates
<1>2. Len(protocol_events) \in Nat
  BY LenProperties DEF TypeOK, ReaderTypeOK
<1> QED
  BY <1>1, <1>2 DEF PassedOn, Faithful

LEMMA SnapshotFaithful ==
  ASSUME TypeOK, OrderInv, NEW s \in Streams, PassedOn(s),
         snapshot_event(s)
  PROVE  PassedOn(s)' /\ Faithful(s)'
<1>1. /\ up' = up /\ stream[s].phase = "subscribed"
      /\ stream'[s].phase = "live"
      /\ stream'[s].pos = stream[s].pos
      /\ stream'[s].first = last_sequence
      /\ stream'[s].snapshot_sequence = last_sequence
      /\ protocol_events' = protocol_events
  BY DEF snapshot_event, channels, TypeOK, ReaderTypeOK, StreamStates
<1>2. /\ stream[s].pos \in Nat /\ Len(protocol_events) \in Nat
      /\ stream[s].pos <= Len(protocol_events) /\ up
  BY <1>1, LenProperties DEF PassedOn, TypeOK, ReaderTypeOK, StreamStates
<1>3. PassedOn(s)'
  BY <1>1, <1>2 DEF PassedOn
<1>4. \A i \in 1..Len(protocol_events) :
        ~(protocol_events[i].sequence > last_sequence)
  <2> SUFFICES ASSUME NEW i \in 1..Len(protocol_events)
               PROVE  ~(protocol_events[i].sequence > last_sequence)
    OBVIOUS
  <2>1. protocol_events[i] \in Envelope
    BY ElementOfSeq DEF TypeOK, ReaderTypeOK
  <2>2. protocol_events[i].sequence <= last_sequence
    BY DEF OrderInv
  <2> QED
    BY <2>1, <2>2 DEF Envelope, TypeOK, ServerTypeOK
<1>5. \A i \in 1..stream[s].pos : i \in 1..Len(protocol_events)
  BY <1>2
<1>6. Faithful(s)'
  BY <1>1, <1>4, <1>5 DEF Faithful
<1> QED
  BY <1>3, <1>6

LEMMA ReceiveFaithful ==
  ASSUME TypeOK, TypeOK', OrderInv, NEW s \in Streams, PassedOn(s),
         Faithful(s), recv_thread_stream_event(s)
  PROVE  PassedOn(s)' /\ Faithful(s)'
<1> DEFINE p == stream[s].pos
           e == protocol_events[p + 1]
           got == stream[s].got
<1>1. /\ up' = up /\ protocol_events' = protocol_events
      /\ stream[s].phase = "live" /\ p < Len(protocol_events)
  BY DEF recv_thread_stream_event, channels
<1>2. /\ p \in Nat /\ Len(protocol_events) \in Nat
      /\ p + 1 \in 1..Len(protocol_events)
      /\ got \in Seq(Envelope) /\ up
      /\ stream[s] \in StreamStates /\ stream \in [Streams -> StreamStates]
  <2>1. protocol_events \in Seq(Envelope)
    BY DEF TypeOK, ReaderTypeOK
  <2>2. Len(protocol_events) \in Nat
    BY <2>1, LenProperties
  <2>3. stream \in [Streams -> StreamStates]
    BY DEF TypeOK, ReaderTypeOK
  <2>4. stream[s] \in StreamStates
    BY <2>3
  <2>5. p \in Nat /\ got \in Seq(Envelope)
    BY <2>4 DEF StreamStates
  <2>6. up
    BY <1>1 DEF PassedOn
  <2> HIDE DEF p, got
  <2>7. p < Len(protocol_events) => p + 1 \in 1..Len(protocol_events)
    BY <2>2, <2>5
  <2> QED
    BY <1>1, <2>2, <2>3, <2>4, <2>5, <2>6, <2>7
<1>3. \A i \in 1..Len(protocol_events) : protocol_events[i].sequence \in Nat
  <2>1. \A i \in 1..Len(protocol_events) : protocol_events[i] \in Envelope
    BY ElementOfSeq DEF TypeOK, ReaderTypeOK
  <2> QED
    BY <2>1 DEF Envelope
<1>4. e \in Envelope
  BY <1>2, ElementOfSeq DEF TypeOK, ReaderTypeOK
<1>5. stream[s].first \in Nat /\ stream[s].snapshot_sequence \in Nat
  BY <1>2 DEF StreamStates
<1>6. \A i \in 1..(p + 1) : i \in 1..p \/ i = p + 1
  BY <1>2
<1>7. CASE Lagged(stream[s].pos, protocol_events)
  <2>1. stream'[s].phase = "resync"
    BY <1>2, <1>7 DEF recv_thread_stream_event, StreamStates
  <2> QED
    BY <2>1 DEF PassedOn, Faithful
<1>8. CASE ~Lagged(stream[s].pos, protocol_events) /\ Stale(s, e)
  <2>1. stream' = [stream EXCEPT ![s].pos = @ + 1]
    BY <1>8 DEF recv_thread_stream_event
  <2>2. /\ stream'[s].phase = "live" /\ stream'[s].pos = p + 1
        /\ stream'[s].first = stream[s].first
        /\ stream'[s].snapshot_sequence = stream[s].snapshot_sequence
        /\ stream'[s].got = got
    BY <1>1, <1>2, <2>1 DEF StreamStates
  <2>3. e.sequence <= stream[s].snapshot_sequence
    BY <1>8 DEF Stale
  <2> HIDE DEF got
  <2>4. ~(e.sequence > stream[s].first)
    <3>1. CASE stream[s].snapshot_sequence = stream[s].first
      BY <1>2, <1>3, <1>5, <2>3, <3>1
    <3>2. ASSUME NEW i \in 1..p,
                 protocol_events[i].sequence = stream[s].snapshot_sequence
          PROVE  FALSE
      <4>1. i \in 1..Len(protocol_events) /\ i < p + 1
        BY <1>1, <1>2
      <4>2. protocol_events[i].sequence < e.sequence
        BY <1>2, <4>1 DEF OrderInv
      <4> QED
        BY <1>2, <1>3, <1>5, <2>3, <3>2, <4>1, <4>2
    <3> QED
      BY <1>1, <3>1, <3>2 DEF PassedOn
  <2> HIDE DEF e
  <2>5. \A i \in 1..p : i \in 1..(p + 1)
    BY <1>2
  <2>6. PassedOn(s)'
    <3>1. p + 1 <= Len(protocol_events)
      BY <1>1, <1>2
    <3> QED
      BY <1>1, <1>2, <2>2, <2>5, <3>1 DEF PassedOn
  <2>7. Faithful(s)'
    <3> SUFFICES ASSUME NEW i \in 1..(p + 1),
                        protocol_events[i].sequence > stream[s].first
                 PROVE  \E j \in 1..Len(got) : got[j] = protocol_events[i]
      BY <1>1, <2>2 DEF Faithful
    <3>1. i \in 1..p
      BY <1>6, <2>4 DEF e
    <3> QED
      BY <1>1, <3>1 DEF Faithful, got
  <2> QED
    BY <2>6, <2>7
<1>9. CASE ~Lagged(stream[s].pos, protocol_events) /\ ~Stale(s, e)
  <2>1. stream' = [stream EXCEPT ![s].pos = @ + 1,
                                 ![s].snapshot_sequence = e.sequence,
                                 ![s].got = Append(@, e)]
    BY <1>9 DEF recv_thread_stream_event
  <2>2. /\ stream'[s].phase = "live" /\ stream'[s].pos = p + 1
        /\ stream'[s].first = stream[s].first
        /\ stream'[s].snapshot_sequence = e.sequence
        /\ stream'[s].got = Append(got, e)
    BY <1>1, <1>2, <2>1 DEF StreamStates
  <2> HIDE DEF got
  <2>3. /\ Len(got) \in Nat /\ Len(Append(got, e)) = Len(got) + 1
        /\ \A j \in 1..Len(got) : Append(got, e)[j] = got[j]
        /\ Append(got, e)[Len(got) + 1] = e
    BY <1>2, <1>4, AppendProperties, LenProperties
  <2>4. PassedOn(s)'
    <3>1. p + 1 <= Len(protocol_events) /\ p + 1 \in 1..(p + 1)
      BY <1>1, <1>2
    <3> QED
      BY <1>1, <1>2, <2>2, <3>1 DEF PassedOn
  <2>5. Faithful(s)'
    <3> SUFFICES ASSUME NEW i \in 1..(p + 1),
                        protocol_events[i].sequence > stream[s].first
                 PROVE  \E j \in 1..(Len(got) + 1) :
                          Append(got, e)[j] = protocol_events[i]
      BY <1>1, <2>2, <2>3 DEF Faithful
    <3>1. CASE i = p + 1
      <4>1. Len(got) + 1 \in 1..(Len(got) + 1)
        BY <2>3
      <4> QED
        BY <2>3, <3>1, <4>1
    <3>2. CASE i \in 1..p
      <4>1. PICK j \in 1..Len(got) : got[j] = protocol_events[i]
        BY <1>1, <3>2 DEF Faithful, got
      <4>2. j \in 1..(Len(got) + 1)
        BY <2>3
      <4> QED
        BY <2>3, <4>1, <4>2
    <3> QED
      BY <1>6, <3>1, <3>2
  <2> QED
    BY <2>4, <2>5
<1> QED
  BY <1>7, <1>8, <1>9

(* A step of one stream leaves the others and the channel alone.           *)
LEMMA ReadStreams ==
  ASSUME TypeOK, TypeOK', StreamInv, NEW s \in Streams,
         subscribe_protocol(s) \/ StreamStep(s)
  PROVE  StreamInv'
<1>1. /\ UNCHANGED <<up, protocol_events, last_sequence, inflight>>
      /\ \E x : stream' = [stream EXCEPT ![s] = x]
  BY DEF subscribe_protocol, StreamStep, snapshot_event,
         recv_thread_stream_event, inner, channels
<1>2. \A o \in Streams : o # s => stream'[o] = stream[o]
  BY <1>1 DEF TypeOK, ReaderTypeOK
<1>3. Grown(protocol_events', protocol_events)
  BY <1>1, LenProperties DEF Grown, TypeOK, ReaderTypeOK
<1>4. OrderInv'
  BY <1>1, OrderFrame DEF StreamInv
<1>5. PassedOn(s) /\ Faithful(s) /\ OrderInv
  BY FaithfulStreams DEF StreamInv
<1>6. PassedOn(s)' /\ Faithful(s)'
  BY <1>5, SubscribeFaithful, SnapshotFaithful, ReceiveFaithful
  DEF StreamStep
<1>7. \A o \in Streams : o # s => PassedOn(o)' /\ Faithful(o)'
  BY <1>1, <1>2, <1>3, StreamFrame, FaithfulStreams DEF StreamInv
<1>8. (\A o \in Streams : Faithful(o))' <=> StreamFidelity'
  BY DEF StreamFidelity, Faithful
<1> QED
  BY <1>4, <1>6, <1>7, <1>8 DEF StreamInv

(* A step that leaves the streams alone, while the channel only grows and  *)
(* keeps its order.                                                        *)
LEMMA AloneStreams ==
  ASSUME TypeOK, StreamInv, OrderInv', stream' = stream,
         up' = up \/ ~up, Grown(protocol_events', protocol_events)
  PROVE  StreamInv'
<1>1. ASSUME NEW s \in Streams PROVE PassedOn(s)' /\ Faithful(s)'
  <2>1. up' = up \/ stream[s].phase \notin {"subscribed", "live"}
    BY DEF StreamInv, PassedOn
  <2> QED
    BY <2>1, StreamFrame, FaithfulStreams DEF StreamInv
<1>2. (\A o \in Streams : Faithful(o))' <=> StreamFidelity'
  BY DEF StreamFidelity, Faithful
<1> QED
  BY <1>1, <1>2 DEF StreamInv

(* The steps that have nothing to do with envelopes.                       *)
LEMMA QuietStreams ==
  ASSUME TypeOK, StreamInv,
         \/ \E t \in Turns : start_thread_turn(t) \/ start_turn(t)
         \/ \E r \in Replies :
              submit_thread_user_input(r) \/ submit_user_input(r)
         \/ \E a \in Appends : append_session_message(a)
         \/ \E r \in Requests :
              BroadcastOptimistic(r) \/ complete_run(r) \/ BroadcastNew(r)
         \/ \E l \in Listeners : subscribe_legacy(l) \/ ListenerStep(l)
         \/ load_fails \/ UNCHANGED vars
  PROVE  StreamInv'
<1>1. UNCHANGED <<up, protocol_events, last_sequence, inflight, stream>>
  BY DEF start_thread_turn, start_turn, submit_thread_user_input,
         submit_user_input, append_session_message, BroadcastOptimistic,
         complete_run, BroadcastNew, subscribe_legacy, ListenerStep,
         current_session_snapshot, recv_legacy_session_event, load_fails,
         AcceptRun, Refuse, vars, inner, channels, readers
<1>2. OrderInv'
  BY <1>1, OrderFrame DEF StreamInv
<1>3. Grown(protocol_events', protocol_events)
  BY <1>1, LenProperties DEF Grown, TypeOK, ReaderTypeOK
<1> QED
  BY <1>1, <1>2, <1>3, AloneStreams

(* A crash closes the streams and empties the channel; nothing is sent     *)
(* before the process is up again, with the sequence of the row.           *)
LEMMA RestartStreams ==
  ASSUME TypeOK, ServerInv, StreamInv, Crash \/ load_for_cwd
  PROVE  StreamInv'
<1>1. CASE Crash
  <2>1. /\ protocol_events' = <<>>
        /\ \A r \in Requests : inflight'[r] = <<>>
        /\ \A s \in Streams : stream'[s].phase \notin {"subscribed", "live"}
    BY <1>1 DEF Crash, TypeOK, ReaderTypeOK, StreamStates
  <2>2. OrderInv'
    BY <2>1 DEF OrderInv
  <2>3. StreamFidelity' /\ \A s \in Streams : PassedOn(s)'
    BY <2>1 DEF StreamFidelity, PassedOn
  <2> QED
    BY <2>2, <2>3 DEF StreamInv
<1>2. CASE load_for_cwd
  <2>1. /\ ~up /\ UNCHANGED <<protocol_events, inflight, stream>>
    BY <1>2 DEF load_for_cwd, channels, readers
  <2>2. protocol_events' = <<>> /\ \A r \in Requests : inflight'[r] = <<>>
    BY <2>1 DEF StreamInv, OrderInv
  <2>3. OrderInv'
    BY <2>2 DEF OrderInv
  <2>4. Grown(protocol_events', protocol_events)
    BY <2>1, LenProperties DEF Grown, TypeOK, ReaderTypeOK
  <2> QED
    BY <2>1, <2>3, <2>4, AloneStreams
<1> QED
  BY <1>1, <1>2

(* No step breaks StreamInv.                                               *)
LEMMA StepStreams ==
  ASSUME TypeOK, TypeOK', ServerInv, InputInv, StreamInv, [Next]_vars
  PROVE  StreamInv'
<1>1. ASSUME NEW r \in Requests,
             Announce(r) \/ ReplayBatch(r) \/ ReplayBlocks(r) \/ EmitTerminal(r)
      PROVE  StreamInv'
  <2>1. OrderInv' /\ UNCHANGED <<up, protocol_events, stream>>
    BY <1>1, EmitOrder DEF StreamInv
  <2>2. Grown(protocol_events', protocol_events)
    BY <2>1, LenProperties DEF Grown, TypeOK, ReaderTypeOK
  <2> QED
    BY <2>1, <2>2, AloneStreams
<1>2. ASSUME NEW r \in Requests, send(r) PROVE StreamInv'
  <2>1. OrderInv' /\ Grown(protocol_events', protocol_events)
    BY <1>2, SendOrder DEF StreamInv
  <2>2. UNCHANGED <<up, stream>>
    BY <1>2 DEF send, readers
  <2> QED
    BY <2>1, <2>2, AloneStreams
<1>3. ASSUME NEW r \in Requests, Proceed(r) PROVE StreamInv'
  BY <1>1, <1>2, <1>3, QuietStreams DEF Proceed
<1> QED
  BY <1>3, QuietStreams, ReadStreams, RestartStreams DEF Next, Waiting

(* A new thread has sent nothing.                                          *)
LEMMA InitStreams == Init => StreamInv
<1> SUFFICES ASSUME Init PROVE StreamInv
  OBVIOUS
<1>1. /\ protocol_events = <<>> /\ \A r \in Requests : inflight[r] = <<>>
      /\ \A s \in Streams : stream[s].phase = "off"
  BY DEF Init
<1> QED
  BY <1>1 DEF StreamInv, OrderInv, PassedOn, StreamFidelity

(* A live stream has passed on every event it took from the channel that   *)
(* its opening snapshot does not cover: the sequence filter of             *)
(* recv_thread_stream_event never drops an event no one has seen.          *)
THEOREM StreamsFaithful == ASSUME Serial PROVE Spec => []StreamFidelity
<1>1. TypeOK /\ TypeOK' /\ ServerInv /\ InputInv /\ StreamInv /\ [Next]_vars
        => StreamInv'
  BY StepStreams
<1>2. StreamInv => StreamFidelity
  BY DEF StreamInv
<1> QED
  BY <1>1, <1>2, InitStreams, TypeCorrect, ServerSafe, InputSafe, PTL
  DEF Spec
-----------------------------------------------------------------------------
(* Without failing upserts a completed run broadcasts what it added.       *)
LEMMA NoFault == ASSUME TypeOK, MaxStoreFaults = 0 PROVE ~upsert_fails
BY DEF TypeOK, ServerTypeOK, upsert_fails

(* A request that is over has nothing to broadcast.                        *)
LEMMA OverOwesNothing ==
  ASSUME NEW r \in Requests, Over(r), NEW m
  PROVE  ~DueFrom(r, m)
BY DEF Over, DueFrom

(* A step that leaves the listeners alone: the session and the channel     *)
(* only grow, what is added to the session is due, and what is no longer   *)
(* due was sent to whoever listens.                                        *)
LEMMA LegacyStep ==
  ASSUME TypeOK, TypeOK', LegacyInv,
         up' = up, up \/ legacy_events' = legacy_events,
         listener' = listener,
         Extends(session', session), Grown(legacy_events', legacy_events),
         \A m \in Message :
           /\ Holds(legacy_events', m) \/ Due(m)' => Holds(session', m)
           /\ Holds(session', m) => Holds(session, m) \/ Due(m)'
           /\ Due(m) /\ Receiving(listener, Listeners) =>
                \/ Due(m)'
                \/ \E i \in (Len(legacy_events) + 1)..Len(legacy_events') :
                     legacy_events'[i] = m
  PROVE  LegacyInv'
<1>1. ASSUME NEW l \in Listeners PROVE Covers(l)'
  <2> DEFINE p == listener[l].pos
             n == Len(legacy_events)
             n2 == Len(legacy_events')
  <2>1. /\ p \in Nat /\ n \in Nat /\ n2 \in Nat /\ n <= n2
        /\ \A i \in 1..n : legacy_events'[i] = legacy_events[i]
    BY LenProperties DEF TypeOK, ReaderTypeOK, ListenerStates, Grown
  <2>2. Covers(l) /\ session \in Seq(Message)
    BY DEF LegacyInv, TypeOK, ServerTypeOK
  <2>3. listener[l].phase \in {"subscribed", "live"} => up' /\ p <= n2
    <3>1. listener[l].phase \in {"subscribed", "live"} => up /\ p <= n
      BY <2>2 DEF Covers
    <3> HIDE DEF n, n2, p
    <3> QED
      BY <2>1, <3>1
  <2>4. ASSUME listener[l].phase = "live", NEW m \in Message,
               Holds(listener[l].got, m)
        PROVE  Holds(session', m)
    <3>1. Holds(session, m)
      BY <2>2, <2>4 DEF Covers
    <3> QED
      BY <2>2, <3>1, ExtendsHolds
  <2>5. ASSUME listener[l].phase = "live", NEW m \in Message,
               Holds(session', m)
        PROVE  Shows(l, m)'
    <3>1. p <= n /\ (Holds(session, m) => Shows(l, m))
      BY <2>2, <2>5 DEF Covers
    <3>2. CASE Due(m)'
      BY <3>2 DEF Shows
    <3>3. CASE Holds(listener[l].got, m)
      BY <3>3 DEF Shows
    <3>4. ASSUME NEW i \in (p + 1)..n, legacy_events[i] = m
          PROVE  Shows(l, m)'
      <4>1. i \in (p + 1)..n2 /\ legacy_events'[i] = m
        BY <2>1, <3>4
      <4> QED
        BY <4>1 DEF Shows
    <3>5. CASE Due(m) /\ ~Due(m)'
      <4>1. Receiving(listener, Listeners)
        BY <2>5 DEF Receiving
      <4>2. PICK i \in (n + 1)..n2 : legacy_events'[i] = m
        BY <3>5, <4>1
      <4>3. i \in (p + 1)..n2
        BY <2>1, <3>1, <4>2
      <4> QED
        BY <4>2, <4>3 DEF Shows
    <3>6. Holds(session, m) \/ Due(m)'
      BY <2>5
    <3> QED
      BY <3>1, <3>2, <3>3, <3>4, <3>5, <3>6 DEF Shows
  <2> QED
    BY <2>3, <2>4, <2>5 DEF Covers
<1>2. ~up' => legacy_events' = <<>>
  BY DEF LegacyInv
<1> QED
  BY <1>1, <1>2 DEF LegacyInv

(* A step that changes neither what is in the session nor what is due.     *)
LEMMA LegacyFrame ==
  ASSUME TypeOK, TypeOK', LegacyInv,
         UNCHANGED <<up, session, legacy_events, listener>>,
         \A m \in Message : Due(m)' <=> Due(m)
  PROVE  LegacyInv'
<1>1. Extends(session', session) /\ Grown(legacy_events', legacy_events)
  BY LenProperties
  DEF Extends, Grown, TypeOK, ServerTypeOK, ReaderTypeOK
<1>2. \A m \in Message :
        Holds(legacy_events', m) \/ Due(m)' => Holds(session', m)
  BY DEF LegacyInv
<1> QED
  BY <1>1, <1>2, LegacyStep

(* A request that moves on without anything to broadcast.                  *)
LEMMA LegacyAside ==
  ASSUME TypeOK, TypeOK', LegacyInv, NEW r \in Requests,
         UNCHANGED <<up, session, legacy_events, listener>>,
         \A o \in Requests : o # r => Over(o) /\ pc'[o] = pc[o],
         pc[r] \notin {"accepted", "appended", "legacy"},
         pc'[r] \notin {"accepted", "appended", "legacy"}
  PROVE  LegacyInv'
<1>1. \A m \in Message : ~Due(m) /\ ~Due(m)'
  BY DEF Due, DueFrom, Over
<1> QED
  BY <1>1, LegacyFrame

(* An accepted input is pushed on the session and due to be broadcast.     *)
LEMMA LegacyPush ==
  ASSUME TypeOK, TypeOK', LegacyInv, NEW r \in Requests, up,
         UNCHANGED <<up, legacy_events, listener, answers>>,
         \A o \in Requests : o # r => Over(o) /\ pc'[o] = pc[o],
         pc[r] \notin {"accepted", "appended", "legacy"},
         pc'[r] \in {"accepted", "appended"},
         session' = Append(session, optimistic_message(r))
  PROVE  LegacyInv'
<1> DEFINE om == optimistic_message(r)
<1>1. session \in Seq(Message) /\ om \in Message
  BY OptimisticType DEF TypeOK, ServerTypeOK
<1>2. \A m \in Message : ~Due(m)
  BY DEF Due, DueFrom, Over
<1>3. om' = om
  BY DEF optimistic_message
<1>4. \A m \in Message : Due(m)' <=> m = om
  BY <1>3 DEF Due, DueFrom, Over
<1>5. Extends(session', session) /\ Holds(session', om)
  BY <1>1, PushExtends
<1>6. Grown(legacy_events', legacy_events)
  BY LenProperties DEF Grown, TypeOK, ReaderTypeOK
<1>7. \A m \in Message : Holds(session', m) => Holds(session, m) \/ m = om
  <2> SUFFICES ASSUME NEW m \in Message, Holds(session', m), m # om
               PROVE  Holds(session, m)
    OBVIOUS
  <2>1. PICK i \in 1..Len(session') : session'[i] = m
    BY DEF Holds
  <2>2. /\ Len(session) \in Nat /\ Len(session') = Len(session) + 1
        /\ session'[Len(session) + 1] = om
    BY <1>1, AppendProperties, LenProperties
  <2>3. i \in 1..Len(session)
    BY <2>1, <2>2
  <2>4. session'[i] = session[i]
    BY <1>5, <2>3 DEF Extends, Grown
  <2> QED
    BY <2>1, <2>3, <2>4 DEF Holds
<1>8. \A m \in Message : Holds(legacy_events', m) => Holds(session', m)
  BY <1>1, <1>5, ExtendsHolds DEF LegacyInv
<1> HIDE DEF om
<1>9. \A m \in Message :
        /\ Holds(legacy_events', m) \/ Due(m)' => Holds(session', m)
        /\ Holds(session', m) => Holds(session, m) \/ Due(m)'
  BY <1>4, <1>5, <1>7, <1>8
<1> QED
  BY <1>2, <1>5, <1>6, <1>9, LegacyStep

(* The steps before a request is accepted.                                 *)
LEMMA BeginLegacy ==
  ASSUME TypeOK, TypeOK', InputInv, LegacyInv, Serial, NEW r \in Requests,
         \/ r \in Turns /\ start_thread_turn(r)
         \/ r \in Replies /\ submit_thread_user_input(r)
  PROVE  LegacyInv'
<1>1. Received(r) /\ UNCHANGED <<up, session, legacy_events, listener>>
      /\ pc' = [pc EXCEPT ![r] = "begun"]
  BY DEF start_thread_turn, submit_thread_user_input, inner, channels,
         readers
<1>2. \A o \in Requests : /\ o # r => Over(o)
                          /\ pc'[o] = IF o = r THEN "begun" ELSE pc[o]
  BY <1>1, Alone DEF TypeOK, RequestTypeOK
<1>3. pc[r] = "new"
  BY <1>1 DEF Received
<1> QED
  BY <1>1, <1>2, <1>3, LegacyAside

(* start_turn, submit_user_input and append_session_message.               *)
LEMMA AcceptLegacy ==
  ASSUME TypeOK, TypeOK', ServerInv, InputInv, LegacyInv, Serial,
         MaxStoreFaults = 0, NEW r \in Requests,
         \/ r \in Turns /\ start_turn(r)
         \/ r \in Replies /\ submit_user_input(r)
         \/ r \in Appends /\ append_session_message(r)
  PROVE  LegacyInv'
<1>1. pc[r] \in {"new", "begun"}
      /\ UNCHANGED <<up, legacy_events, listener>>
  BY DEF start_turn, submit_user_input, append_session_message, Received,
         channels, readers
<1>2. \A o \in Requests : o # r => Over(o)
  BY Alone DEF start_turn, submit_user_input, append_session_message, Over
<1>3. up
  BY BusyIsUp
  DEF start_turn, submit_user_input, append_session_message, Received
<1>4. CASE Refuse(r)
  <2>1. session' = session /\ pc' = [pc EXCEPT ![r] = "refused"]
    BY <1>4 DEF Refuse, inner
  <2>2. \A o \in Requests : pc'[o] = IF o = r THEN "refused" ELSE pc[o]
    BY <2>1 DEF TypeOK, RequestTypeOK
  <2> QED
    BY <1>1, <1>2, <2>1, <2>2, LegacyAside
<1>5. CASE ~Refuse(r)
  <2>1. /\ session' = Append(session, optimistic_message(r))
        /\ \E x \in {"accepted", "appended"} : pc' = [pc EXCEPT ![r] = x]
        /\ answers' = answers
    BY <1>5, ThreadAssumption
    DEF start_turn, submit_user_input, append_session_message, AcceptRun,
        optimistic_message, invocation
  <2>2. \A o \in Requests : o # r => pc'[o] = pc[o]
    BY <2>1 DEF TypeOK, RequestTypeOK
  <2>3. pc'[r] \in {"accepted", "appended"}
    BY <2>1 DEF TypeOK, RequestTypeOK
  <2> QED
    BY <1>1, <1>2, <1>3, <2>1, <2>2, <2>3, LegacyPush
<1> QED
  BY <1>4, <1>5

(* The messages a completed run added are due, all of them.                *)
LEMMA CompleteLegacy ==
  ASSUME TypeOK, TypeOK', ServerInv, InputInv, LegacyInv,
         MaxStoreFaults = 0, NEW w \in Requests, complete_run(w)
  PROVE  LegacyInv'
<1>1. PICK e \in execute_run(base[w], w) :
        /\ complete_with(w, e.final_session, e.recorded_batches, e.result)
        /\ Extends(e.final_session, session)
  BY CompleteExtends
<1> DEFINE final == e.final_session
           n == Len(session)
           new == new_messages(final, optimistic_len[w])
<1>2. /\ pc[w] = "working"
      /\ UNCHANGED <<up, answers, cursor, legacy_events, listener>>
  BY DEF complete_run, channels, readers
<1>3. up /\ \A o \in Requests : o # w => Over(o)
  BY <1>2, BusyIsUp, Alone DEF Over
<1>4. optimistic_len[w] = n /\ cursor[w] = 0
  BY <1>2 DEF InputInv, OwnSession, Owners
<1>5. /\ session' = final
      /\ messages' = [messages EXCEPT ![w] = new]
      /\ pc' = [pc EXCEPT ![w] = IF new = <<>>
                                 THEN ReplayPC(e.recorded_batches)
                                 ELSE "legacy"]
  BY <1>1, NoFault DEF complete_with
<1>6. /\ final \in Seq(Message) /\ n \in Nat /\ Len(final) \in Nat
      /\ n <= Len(final)
      /\ \A i \in 1..n : final[i] = session[i]
  BY <1>1, LenProperties DEF Extends, Grown, TypeOK, ServerTypeOK
<1>7. /\ Len(new) = Len(final) - n
      /\ \A i \in 1..(Len(final) - n) : new[i] = final[n + i]
  <2>1. \A i \in (n + 1)..Len(final) : final[i] \in Message
    <3>1. \A i \in (n + 1)..Len(final) : i \in 1..Len(final)
      BY <1>6
    <3> QED
      BY <1>6, <3>1, ElementOfSeq
  <2>2. new = SubSeq(final, n + 1, Len(final))
    BY <1>4 DEF new_messages
  <2>3. n + 1 \in Int /\ Len(final) \in Int
    BY <1>6
  <2> HIDE DEF new, n, final
  <2>4. /\ Len(new) = IF n + 1 <= Len(final) THEN Len(final) - (n + 1) + 1
                      ELSE 0
        /\ \A i \in 1..(Len(final) - (n + 1) + 1) :
             new[i] = final[n + 1 + i - 1]
    BY <2>1, <2>2, <2>3, SubSeqProperties
  <2> QED
    BY <1>6, <2>4
<1> HIDE DEF final, new
<1>8. \A o \in Requests :
        /\ o # w => pc'[o] = pc[o] /\ messages'[o] = messages[o]
        /\ messages'[w] = new
        /\ pc'[w] = IF new = <<>> THEN ReplayPC(e.recorded_batches)
                    ELSE "legacy"
  BY <1>5 DEF TypeOK, RequestTypeOK, ReplayTypeOK
<1>9. \A m \in Message : ~Due(m)
  BY <1>2, <1>3 DEF Due, DueFrom, Over
<1>10. \A m \in Message : Due(m)' <=> DueFrom(w, m)'
  BY <1>3, <1>8 DEF Due, DueFrom, Over
<1>11. \A m \in Message :
         DueFrom(w, m)' <=> \E i \in 1..Len(new) : new[i] = m
  <2> TAKE m \in Message
  <2>1. CASE new = <<>>
    <3>1. pc'[w] \in {"blocks", "replay"} /\ Len(new) = 0
      BY <1>8, <2>1 DEF ReplayPC
    <3> QED
      BY <3>1 DEF DueFrom
  <2>2. CASE new # <<>>
    <3>1. pc'[w] = "legacy" /\ messages'[w] = new /\ cursor'[w] = 0
      BY <1>2, <1>4, <1>8, <2>2
    <3> QED
      BY <3>1 DEF DueFrom
  <2> QED
    BY <2>1, <2>2
<1>12. ASSUME NEW m \in Message, Holds(session', m), ~Holds(session, m)
       PROVE  \E i \in 1..Len(new) : new[i] = m
  <2>1. PICK i \in 1..Len(final) : final[i] = m
    BY <1>5, <1>12 DEF Holds
  <2>2. i \notin 1..n
    BY <1>6, <1>12, <2>1 DEF Holds
  <2>3. i - n \in 1..Len(new) /\ i - n \in 1..(Len(final) - n)
        /\ n + (i - n) = i
    BY <1>6, <1>7, <2>1, <2>2
  <2> QED
    BY <1>7, <2>1, <2>3
<1>13. ASSUME NEW m \in Message, NEW i \in 1..Len(new), new[i] = m
       PROVE  Holds(session', m)
  <2>1. n + i \in 1..Len(final) /\ final[n + i] = m
    BY <1>6, <1>7, <1>13
  <2> QED
    BY <1>5, <2>1 DEF Holds
<1>14. Extends(session', session) /\ session \in Seq(Message)
  BY <1>1, <1>5 DEF final, TypeOK, ServerTypeOK
<1>15. \A m \in Message : Holds(legacy_events', m) => Holds(session', m)
  BY <1>2, <1>14, ExtendsHolds DEF LegacyInv
<1>16. Grown(legacy_events', legacy_events)
  BY <1>2, LenProperties DEF Grown, TypeOK, ReaderTypeOK
<1>17. \A m \in Message :
         /\ Holds(legacy_events', m) \/ Due(m)' => Holds(session', m)
         /\ Holds(session', m) => Holds(session, m) \/ Due(m)'
  BY <1>10, <1>11, <1>12, <1>13, <1>15
<1> QED
  BY <1>2, <1>3, <1>9, <1>14, <1>16, <1>17, LegacyStep

(* A broadcast moves one message that is due into the channel, if anybody  *)
(* listens.                                                                *)
LEMMA LegacyBroadcast ==
  ASSUME TypeOK, TypeOK', LegacyInv, NEW m0 \in Message, Due(m0), up,
         UNCHANGED <<up, session, listener>>,
         broadcast_legacy_message(m0),
         \A m \in Message : /\ Due(m)' => Due(m)
                            /\ Due(m) => Due(m)' \/ m = m0
  PROVE  LegacyInv'
<1> DEFINE n == Len(legacy_events)
<1>1. legacy_events \in Seq(Message) /\ n \in Nat
  BY LenProperties DEF TypeOK, ReaderTypeOK
<1>2. Extends(session', session)
  BY LenProperties DEF Extends, Grown, TypeOK, ServerTypeOK
<1>3. CASE ~Receiving(listener, Listeners)
  <2>1. legacy_events' = legacy_events
    BY <1>3 DEF broadcast_legacy_message
  <2>2. Grown(legacy_events', legacy_events)
    BY <1>1, <2>1 DEF Grown
  <2>3. \A m \in Message :
          Holds(legacy_events', m) \/ Due(m)' => Holds(session', m)
    BY <2>1 DEF LegacyInv
  <2> QED
    BY <1>2, <1>3, <2>1, <2>2, <2>3, LegacyStep
<1>4. CASE Receiving(listener, Listeners)
  <2>1. /\ Len(legacy_events') = n + 1
        /\ \A i \in 1..n : legacy_events'[i] = legacy_events[i]
        /\ legacy_events'[n + 1] = m0
    BY <1>1, <1>4, AppendProperties DEF broadcast_legacy_message
  <2>2. Grown(legacy_events', legacy_events)
    BY <1>1, <2>1 DEF Grown
  <2>3. ASSUME NEW m \in Message, Holds(legacy_events', m)
        PROVE  Holds(session', m)
    <3>1. PICK i \in 1..(n + 1) : legacy_events'[i] = m
      BY <2>1, <2>3 DEF Holds
    <3>2. CASE i = n + 1
      BY <2>1, <3>1, <3>2 DEF LegacyInv
    <3>3. CASE i # n + 1
      <4>1. i \in 1..n
        BY <1>1, <3>1, <3>3
      <4>2. Holds(legacy_events, m)
        BY <2>1, <3>1, <4>1 DEF Holds
      <4> QED
        BY <4>2 DEF LegacyInv
    <3> QED
      BY <3>2, <3>3
  <2>4. \A m \in Message : Due(m)' => Holds(session', m)
    BY DEF LegacyInv
  <2>5. \E i \in (n + 1)..Len(legacy_events') : legacy_events'[i] = m0
    <3>1. n + 1 \in (n + 1)..Len(legacy_events')
      BY <1>1, <2>1
    <3> QED
      BY <2>1, <3>1
  <2> QED
    BY <1>2, <2>2, <2>3, <2>4, <2>5, LegacyStep
<1> QED
  BY <1>3, <1>4

LEMMA BroadcastLegacy ==
  ASSUME TypeOK, TypeOK', ServerInv, InputInv, LegacyInv, NEW r \in Requests,
         BroadcastOptimistic(r) \/ BroadcastNew(r)
  PROVE  LegacyInv'
<1>1. pc[r] \in {"accepted", "appended", "legacy"}
      /\ UNCHANGED <<up, session, listener, answers, messages>>
  BY DEF BroadcastOptimistic, BroadcastNew, inner, invocation, readers,
         replay
<1>2. up /\ \A o \in Requests : o # r => Over(o)
  BY <1>1, BusyIsUp, Alone DEF Over
<1>3. \A o \in Requests : o # r => pc'[o] = pc[o]
  BY DEF BroadcastOptimistic, BroadcastNew, TypeOK, RequestTypeOK
<1>4. \A m \in Message : /\ Due(m) <=> DueFrom(r, m)
                         /\ Due(m)' <=> DueFrom(r, m)'
  BY <1>2, <1>3 DEF Due, DueFrom, Over
<1>5. CASE BroadcastOptimistic(r)
  <2>1. /\ pc[r] \in {"accepted", "appended"}
        /\ pc'[r] \in {"announcing", "done"}
    BY <1>5 DEF BroadcastOptimistic, TypeOK, RequestTypeOK
  <2>2. \A m \in Message : /\ DueFrom(r, m) <=> m = optimistic_message(r)
                           /\ ~DueFrom(r, m)'
    BY <2>1 DEF DueFrom
  <2>3. optimistic_message(r) \in Message
    BY OptimisticType
  <2>4. broadcast_legacy_message(optimistic_message(r))
    BY <1>5 DEF BroadcastOptimistic
  <2>5. Due(optimistic_message(r))
    BY <1>4, <2>2, <2>3
  <2>6. \A m \in Message :
          /\ Due(m)' => Due(m)
          /\ Due(m) => Due(m)' \/ m = optimistic_message(r)
    BY <1>4, <2>2
  <2> QED
    BY <1>1, <1>2, <2>3, <2>4, <2>5, <2>6, LegacyBroadcast
<1>6. CASE BroadcastNew(r)
  <2> DEFINE k == cursor[r]
             n == Len(messages[r])
             m0 == messages[r][k + 1]
  <2>1. /\ pc[r] = "legacy" /\ k + 1 <= n
        /\ broadcast_legacy_message(m0)
        /\ cursor'[r] = IF k + 1 = n THEN 0 ELSE k + 1
        /\ pc'[r] = IF k + 1 = n THEN ReplayPC(batches[r]) ELSE "legacy"
    BY <1>6 DEF BroadcastNew, TypeOK, RequestTypeOK, ReplayTypeOK
  <2>2. messages[r] \in Seq(Message) /\ k \in Nat /\ n \in Nat
    BY LenProperties DEF TypeOK, ReplayTypeOK
  <2>3. m0 \in Message /\ k + 1 \in (k + 1)..n
    <3>1. k + 1 \in 1..n /\ k + 1 \in (k + 1)..n
      BY <2>1, <2>2
    <3> QED
      BY <2>2, <3>1, ElementOfSeq
  <2>4. \A m \in Message :
          DueFrom(r, m) <=> \E i \in (k + 1)..n : messages[r][i] = m
    BY <2>1 DEF DueFrom
  <2>5. \A m \in Message :
          DueFrom(r, m)' <=> /\ k + 1 # n
                            /\ \E i \in (k + 2)..n : messages[r][i] = m
    <3> TAKE m \in Message
    <3>1. CASE k + 1 = n
      BY <2>1, <3>1 DEF DueFrom, ReplayPC
    <3>2. CASE k + 1 # n
      <4>1. pc'[r] = "legacy" /\ cursor'[r] = k + 1
            /\ messages'[r] = messages[r]
            /\ k + 1 + 1 = k + 2
        BY <1>1, <2>1, <2>2, <3>2
      <4> HIDE DEF k, n
      <4> QED
        BY <3>2, <4>1 DEF DueFrom, n
    <3> QED
      BY <3>1, <3>2
  <2>6. \A i \in (k + 1)..n : i = k + 1 \/ (k + 1 # n /\ i \in (k + 2)..n)
    BY <2>1, <2>2
  <2>7. \A i \in (k + 2)..n : i \in (k + 1)..n
    BY <2>1, <2>2
  <2>8. Due(m0)
    BY <1>4, <2>3, <2>4
  <2>9. \A m \in Message : /\ Due(m)' => Due(m)
                           /\ Due(m) => Due(m)' \/ m = m0
    <3> HIDE DEF k, n
    <3> QED
      BY <1>4, <2>4, <2>5, <2>6, <2>7
  <2> QED
    BY <1>1, <1>2, <2>1, <2>3, <2>8, <2>9, LegacyBroadcast
<1> QED
  BY <1>5, <1>6

(* The other steps of a run, past its broadcasts.                          *)
LEMMA EmitLegacy ==
  ASSUME TypeOK, TypeOK', ServerInv, InputInv, LegacyInv, NEW r \in Requests,
         \/ Announce(r) \/ ReplayBatch(r) \/ ReplayBlocks(r)
         \/ EmitTerminal(r) \/ send(r)
  PROVE  LegacyInv'
<1>1. UNCHANGED <<up, session, legacy_events, listener>>
  BY DEF Announce, ReplayBatch, ReplayBlocks, EmitTerminal, send, inner,
         channels, readers
<1>2. CASE send(r)
  <2>1. \A m \in Message : Due(m)' <=> Due(m)
    BY <1>2
    DEF send, Due, DueFrom, replay, invocation, optimistic_message
  <2> QED
    BY <1>1, <2>1, LegacyFrame
<1>3. CASE ~send(r)
  <2>1. pc[r] \in {"announcing", "replay", "blocks", "terminal"}
    BY <1>3 DEF Announce, ReplayBatch, ReplayBlocks, EmitTerminal
  <2>2. \A o \in Requests : o # r => Over(o) /\ pc'[o] = pc[o]
    BY <1>3, <2>1, Alone
    DEF Announce, ReplayBatch, ReplayBlocks, EmitTerminal, Over, TypeOK,
        RequestTypeOK
  <2>3. pc'[r] \in {"working", "blocks", "done"}
    BY <1>3
    DEF Announce, ReplayBatch, ReplayBlocks, EmitTerminal, TypeOK,
        RequestTypeOK
  <2> QED
    BY <1>1, <2>1, <2>2, <2>3, LegacyAside
<1> QED
  BY <1>2, <1>3

(* A new legacy stream starts at the end of the channel and opens with the *)
(* session; from then on it takes what the channel holds.                  *)
LEMMA SubscribeCovers ==
  ASSUME TypeOK, NEW l \in Listeners, subscribe_legacy(l)
  PROVE  Covers(l)'
<1>1. /\ up' /\ listener'[l].phase = "subscribed"
      /\ listener'[l].pos = Len(legacy_events)
      /\ legacy_events' = legacy_events
  BY DEF subscribe_legacy, channels, TypeOK, ReaderTypeOK, ListenerStates
<1>2. Len(legacy_events) \in Nat
  BY LenProperties DEF TypeOK, ReaderTypeOK
<1> QED
  BY <1>1, <1>2 DEF Covers

LEMMA SnapshotCovers ==
  ASSUME TypeOK, NEW l \in Listeners, Covers(l), current_session_snapshot(l)
  PROVE  Covers(l)'
<1>1. /\ listener[l].phase = "subscribed"
      /\ listener'[l].phase = "live"
      /\ listener'[l].pos = listener[l].pos
      /\ listener'[l].got = session
      /\ UNCHANGED <<up, session, legacy_events>>
  BY DEF current_session_snapshot, channels, inner, TypeOK, ReaderTypeOK,
         ListenerStates
<1>2. up' /\ listener'[l].pos <= Len(legacy_events')
  BY <1>1 DEF Covers
<1> QED
  BY <1>1, <1>2 DEF Covers, Shows

LEMMA ReceiveCovers ==
  ASSUME TypeOK, LegacyInv, NEW l \in Listeners,
         recv_legacy_session_event(l)
  PROVE  Covers(l)'
<1> DEFINE p == listener[l].pos
           n == Len(legacy_events)
           got == listener[l].got
           m0 == legacy_events[p + 1]
<1>1. /\ listener[l].phase = "live" /\ p < n
      /\ UNCHANGED <<up, session, legacy_events>>
      /\ UNCHANGED <<pc, cursor, messages, answers>>
  BY DEF recv_legacy_session_event, channels, inner, replay, invocation
<1>2. /\ p \in Nat /\ n \in Nat /\ p + 1 \in 1..n
      /\ got \in Seq(Message) /\ Covers(l) /\ up /\ p <= n
      /\ listener \in [Listeners -> ListenerStates]
  BY <1>1, LenProperties
  DEF LegacyInv, Covers, TypeOK, ReaderTypeOK, ListenerStates
<1>3. m0 \in Message /\ Holds(legacy_events, m0)
  BY <1>2, ElementOfSeq DEF Holds, TypeOK, ReaderTypeOK
<1>4. CASE Lagged(listener[l].pos, legacy_events)
  <2>1. listener'[l].phase = "closed"
    BY <1>2, <1>4 DEF recv_legacy_session_event, ListenerStates
  <2> QED
    BY <2>1 DEF Covers
<1>5. CASE ~Lagged(listener[l].pos, legacy_events)
  <2>1. listener' = [listener EXCEPT ![l].pos = @ + 1,
                                     ![l].got = Append(@, m0)]
    BY <1>5 DEF recv_legacy_session_event
  <2>2. /\ listener'[l].phase = "live" /\ listener'[l].pos = p + 1
        /\ listener'[l].got = Append(got, m0)
    BY <1>1, <1>2, <2>1 DEF ListenerStates
  <2> HIDE DEF got
  <2>3. /\ Len(got) \in Nat /\ Len(Append(got, m0)) = Len(got) + 1
        /\ \A i \in 1..Len(got) : Append(got, m0)[i] = got[i]
        /\ Append(got, m0)[Len(got) + 1] = m0
    BY <1>2, <1>3, AppendProperties, LenProperties
  <2>4. \A m : Holds(Append(got, m0), m) <=> Holds(got, m) \/ m = m0
    <3> TAKE m
    <3>1. /\ Len(got) + 1 \in 1..(Len(got) + 1)
          /\ \A i \in 1..Len(got) : i \in 1..(Len(got) + 1)
          /\ \A i \in 1..(Len(got) + 1) : i \in 1..Len(got) \/ i = Len(got) + 1
      BY <2>3
    <3> QED
      BY <2>3, <3>1 DEF Holds
  <2>5. ASSUME NEW m \in Message, Holds(listener'[l].got, m)
        PROVE  Holds(session', m)
    <3>1. Holds(got, m) \/ m = m0
      BY <2>2, <2>4, <2>5
    <3>2. Holds(got, m) => Holds(session, m)
      BY <1>1, <1>2 DEF Covers, got
    <3>3. Holds(session, m0)
      BY <1>3 DEF LegacyInv
    <3> QED
      BY <1>1, <3>1, <3>2, <3>3
  <2>6. ASSUME NEW m \in Message, Holds(session', m)
        PROVE  Shows(l, m)'
    <3>1. Shows(l, m)
      BY <1>1, <1>2, <2>6 DEF Covers
    <3>2. CASE Holds(got, m)
      BY <2>2, <2>4, <3>2 DEF Shows
    <3>3. ASSUME NEW i \in (p + 1)..n, legacy_events[i] = m
          PROVE  Shows(l, m)'
      <4>1. CASE i = p + 1
        BY <2>2, <2>4, <3>3, <4>1 DEF Shows
      <4>2. CASE i # p + 1
        <5>1. i \in (p + 1 + 1)..n
          BY <1>2, <4>2
        <5> QED
          BY <1>1, <2>2, <3>3, <5>1 DEF Shows
      <4> QED
        BY <4>1, <4>2
    <3>4. CASE Due(m)
      <4>1. Due(m)'
        BY <1>1, <3>4 DEF Due, DueFrom, optimistic_message
      <4> QED
        BY <4>1 DEF Shows
    <3> QED
      BY <3>1, <3>2, <3>3, <3>4 DEF Shows, got
  <2>7. up' /\ p + 1 <= Len(legacy_events')
    BY <1>1, <1>2
  <2> QED
    BY <2>2, <2>5, <2>6, <2>7 DEF Covers
<1> QED
  BY <1>4, <1>5

LEMMA ListenLegacy ==
  ASSUME TypeOK, LegacyInv, NEW l \in Listeners,
         subscribe_legacy(l) \/ ListenerStep(l)
  PROVE  LegacyInv'
<1>1. /\ UNCHANGED <<up, session, legacy_events>>
      /\ UNCHANGED <<pc, cursor, messages, answers>>
      /\ \E x : listener' = [listener EXCEPT ![l] = x]
  BY DEF subscribe_legacy, ListenerStep, current_session_snapshot,
         recv_legacy_session_event, inner, channels, invocation, replay
<1>2. \A o \in Listeners : o # l => listener'[o] = listener[o]
  BY <1>1 DEF TypeOK, ReaderTypeOK
<1>3. \A m \in Message : Due(m)' <=> Due(m)
  BY <1>1 DEF Due, DueFrom, optimistic_message
<1>4. Covers(l)'
  BY SubscribeCovers, SnapshotCovers, ReceiveCovers
  DEF LegacyInv, ListenerStep
<1>5. ASSUME NEW o \in Listeners, o # l PROVE Covers(o)'
  BY <1>1, <1>2, <1>3, <1>5 DEF LegacyInv, Covers, Shows
<1> QED
  BY <1>1, <1>3, <1>4, <1>5 DEF LegacyInv

(* A crash closes the legacy streams and empties their channel.            *)
LEMMA RestartLegacy ==
  ASSUME TypeOK, ServerInv, LegacyInv, Crash \/ load_for_cwd
  PROVE  LegacyInv'
<1>1. legacy_events' = <<>>
  BY DEF Crash, load_for_cwd, channels, LegacyInv
<1>2. \A l \in Listeners : listener'[l].phase \notin {"subscribed", "live"}
  <2>1. CASE Crash
    BY <2>1 DEF Crash, TypeOK, ReaderTypeOK, ListenerStates
  <2>2. CASE load_for_cwd
    BY <2>2 DEF load_for_cwd, readers, LegacyInv, Covers
  <2> QED
    BY <2>1, <2>2
<1>3. \A r \in Requests : pc'[r] \in {"new", "refused", "done"}
  <2>1. CASE Crash
    BY <2>1 DEF Crash
  <2>2. CASE load_for_cwd
    BY <2>2, ServerInvParts DEF load_for_cwd, DownIsQuiet
  <2> QED
    BY <2>1, <2>2
<1>4. \A m \in Message : ~Due(m)' /\ ~Holds(legacy_events', m)
  BY <1>1, <1>3 DEF Due, DueFrom, Holds
<1> QED
  BY <1>1, <1>2, <1>4 DEF LegacyInv, Covers

(* The steps that have nothing to do with legacy streams.                  *)
LEMMA QuietLegacy ==
  ASSUME TypeOK, TypeOK', LegacyInv,
         \/ \E s \in Streams : subscribe_protocol(s) \/ StreamStep(s)
         \/ load_fails \/ UNCHANGED vars
  PROVE  LegacyInv'
<1>1. /\ UNCHANGED <<up, session, legacy_events, listener>>
      /\ UNCHANGED <<pc, cursor, messages, answers>>
  BY DEF subscribe_protocol, StreamStep, snapshot_event,
         recv_thread_stream_event, load_fails, upsert_fails, vars, inner,
         channels, invocation, replay, readers
<1>2. \A m \in Message : Due(m)' <=> Due(m)
  BY <1>1 DEF Due, DueFrom, optimistic_message
<1> QED
  BY <1>1, <1>2, LegacyFrame

(* No step breaks LegacyInv.                                               *)
LEMMA StepLegacy ==
  ASSUME TypeOK, TypeOK', ServerInv, InputInv, LegacyInv, Serial,
         MaxStoreFaults = 0, [Next]_vars
  PROVE  LegacyInv'
<1>1. ASSUME NEW t \in Turns, start_thread_turn(t) PROVE LegacyInv'
  BY <1>1, BeginLegacy DEF Requests
<1>2. ASSUME NEW r \in Replies, submit_thread_user_input(r) PROVE LegacyInv'
  BY <1>2, BeginLegacy DEF Requests
<1>3. ASSUME NEW a \in Appends, append_session_message(a) PROVE LegacyInv'
  BY <1>3, AcceptLegacy DEF Requests
<1>4. ASSUME NEW r \in Requests, Proceed(r) PROVE LegacyInv'
  BY <1>4, AcceptLegacy, BroadcastLegacy, CompleteLegacy, EmitLegacy
  DEF Proceed
<1> QED
  BY <1>1, <1>2, <1>3, <1>4, ListenLegacy, RestartLegacy, QuietLegacy
  DEF Next, Waiting

(* A new thread has nothing to show.                                       *)
LEMMA InitLegacy == Init => LegacyInv
<1> SUFFICES ASSUME Init PROVE LegacyInv
  OBVIOUS
<1>1. /\ legacy_events = <<>> /\ \A r \in Requests : pc[r] = "new"
      /\ \A l \in Listeners : listener[l].phase = "off"
  BY DEF Init
<1>2. \A m \in Message : ~Due(m) /\ ~Holds(legacy_events, m)
  BY <1>1 DEF Due, DueFrom, Holds
<1> QED
  BY <1>1, <1>2 DEF LegacyInv, Covers

(* A live legacy stream that has caught up with a thread at rest has shown *)
(* exactly the messages of its session, while every upsert succeeds: after *)
(* one that fails, complete_run broadcasts nothing of the new session.     *)
THEOREM LegacyStreamsComplete ==
  ASSUME Serial, MaxStoreFaults = 0
  PROVE  Spec => []LegacyStreamComplete
<1>1. TypeOK /\ TypeOK' /\ ServerInv /\ InputInv /\ LegacyInv /\ [Next]_vars
        => LegacyInv'
  BY StepLegacy
<1>2. TypeOK /\ LegacyInv => LegacyStreamComplete
  <2> SUFFICES ASSUME TypeOK, LegacyInv, NEW l \in Listeners,
                      listener[l].phase = "live",
                      listener[l].pos = Len(legacy_events),
                      \A r \in Requests : Over(r)
               PROVE  {listener[l].got[i] : i \in 1..Len(listener[l].got)}
                        = {session[i] : i \in 1..Len(session)}
    BY DEF LegacyStreamComplete
  <2> DEFINE got == listener[l].got
  <2>1. /\ got \in Seq(Message) /\ session \in Seq(Message)
        /\ Len(legacy_events) \in Nat
    BY LenProperties
    DEF TypeOK, ServerTypeOK, ReaderTypeOK, ListenerStates
  <2>2. \A m \in Message : ~Due(m)
    BY OverOwesNothing DEF Due
  <2>3. ~\E i \in (listener[l].pos + 1)..Len(legacy_events) :
           i \in Nat
    BY <2>1
  <2>4. \A m \in Message : Holds(got, m) <=> Holds(session, m)
    <3>1. Covers(l)
      BY DEF LegacyInv
    <3>2. \A m \in Message : Shows(l, m) => Holds(got, m)
      BY <2>1, <2>2, <2>3 DEF Shows
    <3> QED
      BY <3>1, <3>2 DEF Covers
  <2> HIDE DEF got
  <2>5. \A i \in 1..Len(got) : got[i] \in Message
    BY <2>1, ElementOfSeq
  <2>6. \A i \in 1..Len(session) : session[i] \in Message
    BY <2>1, ElementOfSeq
  <2>7. \A i \in 1..Len(got) : \E j \in 1..Len(session) : session[j] = got[i]
    BY <2>4, <2>5 DEF Holds
  <2>8. \A i \in 1..Len(session) : \E j \in 1..Len(got) : got[j] = session[i]
    BY <2>4, <2>6 DEF Holds
  <2>9. {got[i] : i \in 1..Len(got)} = {session[i] : i \in 1..Len(session)}
    <3>1. ASSUME NEW x \in {got[i] : i \in 1..Len(got)}
          PROVE  x \in {session[i] : i \in 1..Len(session)}
      BY <2>7
    <3>2. ASSUME NEW x \in {session[i] : i \in 1..Len(session)}
          PROVE  x \in {got[i] : i \in 1..Len(got)}
      BY <2>8
    <3> QED
      BY <3>1, <3>2
  <2> QED
    BY <2>9 DEF got
<1> QED
  BY <1>1, <1>2, InitLegacy, TypeCorrect, ServerSafe, InputSafe, PTL
  DEF Spec
=============================================================================
