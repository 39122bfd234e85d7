----------------------------- MODULE LocalProofs -----------------------------
(***************************************************************************)
(* The parts of MCLocal, proved for all values of their constants. A step  *)
(* of a behaviour is one of the part it is of, so that each property needs *)
(* the invariant of that part alone.                                       *)
(* The parts behind the command line are in CommandLineProofs.             *)
(*                                                                         *)
(* The conversation loop: calls run once and in order (TurnsInv), and the  *)
(* model is never called with one of its calls open (AnsweredInv).         *)
(***************************************************************************)
EXTENDS MCLocal, FiniteSetTheorems, SequenceTheorems, WellFoundedInduction, TLAPS

(* What comes behind a pushed element, and what stays.                     *)
LEMMA Pushed ==
  ASSUME NEW Elem, NEW q \in Seq(Elem), NEW x \in Elem
  PROVE  /\ Append(q, x) \in Seq(Elem) /\ Len(q) \in Nat
         /\ Len(Append(q, x)) = Len(q) + 1
         /\ Append(q, x)[Len(q) + 1] = x
         /\ \A i \in 1..Len(q) : Append(q, x)[i] = q[i]
OBVIOUS

LEMMA MessageFields ==
  ASSUME NEW m \in Message
  PROVE  /\ m.role \in Roles /\ m.usage \in {0, 1} /\ m.blocks \in Seq(Block)
         /\ Len(m.blocks) \in Nat
         /\ \A j \in 1..Len(m.blocks) : m.blocks[j] \in Block
BY DEF Message

(* A message of one block: what answers, and what the user says.           *)
LEMMA OneBlock ==
  ASSUME NEW b \in Block, NEW role \in Roles
  PROVE  /\ message(role, <<b>>) \in Message /\ message(role, <<b>>).role = role
         /\ message(role, <<b>>).usage = 0 /\ message(role, <<b>>).blocks = <<b>>
         /\ Len(<<b>>) = 1 /\ <<b>>[1] = b
<1>1. ASSUME NEW q \in Seq(Block)
      PROVE  /\ message(role, q) \in Message /\ message(role, q).role = role
             /\ message(role, q).usage = 0 /\ message(role, q).blocks = q
  BY DEF Message, message
<1>2. <<b>> \in Seq(Block) /\ Len(<<b>>) = 1 /\ <<b>>[1] = b
  OBVIOUS
<1> QED
  BY <1>1, <1>2, Zenon

LEMMA Answering ==
  ASSUME NEW id \in 0..MaxIds, NEW type \in {"tool_result", "response", "text"}
  PROVE  /\ [type |-> type, id |-> id] \in Block
         /\ [type |-> type, id |-> id].type = type
         /\ [type |-> type, id |-> id].id = id
BY DEF Block, BlockTypes

(* The newest assistant message is the one that is read.                   *)
Read(ms) == ms[CHOOSE i \in 1..Len(ms) :
                 /\ ms[i].role = "assistant"
                 /\ \A j \in (i + 1)..Len(ms) : ms[j].role # "assistant"].blocks

LEMMA ReadNewest ==
  ASSUME NEW ms \in Seq(Message), NEW k \in 1..Len(ms), Newest(ms, k)
  PROVE  Read(ms) = ms[k].blocks
<1> DEFINE P(i) == /\ ms[i].role = "assistant"
                   /\ \A j \in (i + 1)..Len(ms) : ms[j].role # "assistant"
           i0 == CHOOSE i \in 1..Len(ms) : P(i)
<1>1. P(k)
  BY DEF Newest
<1>2. i0 \in 1..Len(ms) /\ P(i0)
  <2> HIDE DEF P
  <2> QED BY <1>1
<1>3. Len(ms) \in Nat
  OBVIOUS
<1>4. i0 = k
  <2> HIDE DEF i0
  <2>1. ~(i0 < k)
    <3>1. i0 < k => k \in (i0 + 1)..Len(ms)
      BY <1>2, <1>3
    <3> QED BY <3>1, <1>1, <1>2
  <2>2. ~(k < i0)
    <3>1. k < i0 => i0 \in (k + 1)..Len(ms)
      BY <1>2, <1>3
    <3> QED BY <3>1, <1>1, <1>2
  <2> QED BY <2>1, <2>2, <1>2, <1>3
<1>5. Read(ms) = ms[i0].blocks
  BY DEF Read
<1> QED
  BY <1>4, <1>5

(* What is pushed behind it leaves it the newest, unless the model sent it. *)
LEMMA NewestPushed ==
  ASSUME NEW ms \in Seq(Message), NEW m \in Message
  PROVE  /\ m.role = "assistant" =>
              /\ Newest(Append(ms, m), Len(ms) + 1)
              /\ Read(Append(ms, m)) = m.blocks
         /\ m.role # "assistant" =>
              \A k \in 1..Len(ms) : Newest(ms, k) =>
                /\ Newest(Append(ms, m), k)
                /\ Read(Append(ms, m)) = Read(ms)
<1> DEFINE ns == Append(ms, m)
<1>1. /\ ns \in Seq(Message) /\ Len(ms) \in Nat /\ Len(ns) = Len(ms) + 1
      /\ ns[Len(ms) + 1] = m /\ \A i \in 1..Len(ms) : ns[i] = ms[i]
  BY Pushed
<1>0. SUFFICES
        /\ m.role = "assistant" =>
             Newest(ns, Len(ms) + 1) /\ Read(ns) = m.blocks
        /\ m.role # "assistant" =>
             \A k \in 1..Len(ms) : Newest(ms, k) =>
               Newest(ns, k) /\ Read(ns) = Read(ms)
  OBVIOUS
<1> HIDE DEF ns
<1>2. ASSUME m.role = "assistant"
      PROVE  Newest(ns, Len(ms) + 1) /\ Read(ns) = m.blocks
  <2>1. Newest(ns, Len(ms) + 1)
    BY <1>1, <1>2 DEF Newest
  <2> QED BY <2>1, <1>1, ReadNewest
<1>3. ASSUME m.role # "assistant", NEW k \in 1..Len(ms), Newest(ms, k)
      PROVE  Newest(ns, k) /\ Read(ns) = Read(ms)
  <2>1. Newest(ns, k)
    BY <1>1, <1>3 DEF Newest
  <2>2. k \in 1..Len(ns) /\ ns[k] = ms[k]
    BY <1>1
  <2>3. Read(ns) = ns[k].blocks
    BY <2>1, <2>2, <1>1, ReadNewest
  <2>4. Read(ms) = ms[k].blocks
    BY <1>3, ReadNewest
  <2> QED BY <2>1, <2>2, <2>3, <2>4
<1> QED
  BY <1>2, <1>3

-----------------------------------------------------------------------------
(* What the messages are made of.                                          *)
LEMMA MessagesTyped ==
  ASSUME NEW ms \in Seq(Message)
  PROVE  \A i \in 1..Len(ms) :
           /\ ms[i].role \in Roles
           /\ ms[i].usage \in {0, 1}
           /\ \A j \in 1..Len(ms[i].blocks) : ms[i].blocks[j] \in Block
<1> SUFFICES ASSUME NEW i \in 1..Len(ms)
             PROVE  /\ ms[i].role \in Roles /\ ms[i].usage \in {0, 1}
                    /\ \A j \in 1..Len(ms[i].blocks) : ms[i].blocks[j] \in Block
  OBVIOUS
<1>1. ms[i] \in Message
  OBVIOUS
<1> QED
  BY <1>1, MessageFields

(* The control state: all of TypeOK that is not the messages.              *)
Control ==
  /\ compacted_turns \in Nat /\ turns \in Nat
  /\ pc \in {"idle", "pending", "stream", "blocks"}
  /\ block \in Nat /\ iterations \in 0..(max_iterations + 1)
  /\ responder \in {"none", "interactive", "submitted", "spent"}
  /\ result \in Results
  /\ next_id \in 0..MaxIds
  /\ pc = "idle" => iterations = 0
  /\ pc \in {"pending", "blocks"} => iterations <= max_iterations

Done == /\ executed \in Seq(1..MaxIds)
        /\ \A i \in 1..Len(executed) : executed[i] <= Handled
        /\ ExecutedOnceInOrder

LEMMA TurnsParts ==
  ASSUME TurnsInv
  PROVE  /\ messages \in Seq(Message) /\ Control /\ Done
         /\ pc = "blocks" => InHand
BY DEF TurnsInv, Control, Done, TypeOK

LEMMA TurnsMade ==
  ASSUME messages' \in Seq(Message), Control', Done', pc' = "blocks" => InHand'
  PROVE  TurnsInv'
<1>1. TypeOK'
  BY MessagesTyped DEF Control, Done, TypeOK
<1> QED
  BY <1>1 DEF TurnsInv, Control, Done

(* The message in hand.                                                    *)
LEMMA HandTyped ==
  ASSUME messages \in Seq(Message), InHand
  PROVE  /\ assistant_message = Read(messages)
         /\ assistant_message \in Seq(Block) /\ Len(assistant_message) \in Nat
         /\ \E k \in 1..Len(messages) :
              Newest(messages, k) /\ assistant_message = messages[k].blocks
<1>1. PICK k \in 1..Len(messages) : Newest(messages, k)
  BY DEF InHand
<1>2. assistant_message = Read(messages)
  BY DEF assistant_message, Read
<1>3. Read(messages) = messages[k].blocks /\ messages[k] \in Message
  BY <1>1, ReadNewest
<1> QED
  BY <1>1, <1>2, <1>3, MessageFields

(* It stays in hand when something else is pushed behind it.               *)
LEMMA HandKept ==
  ASSUME messages \in Seq(Message), InHand, NEW m \in Message,
         m.role # "assistant", messages' = Append(messages, m)
  PROVE  /\ messages' \in Seq(Message) /\ assistant_message' = assistant_message
         /\ \E k \in 1..Len(messages') : Newest(messages', k)
<1>1. PICK k \in 1..Len(messages) : Newest(messages, k)
  BY DEF InHand
<1>2. Newest(messages', k) /\ Read(messages') = Read(messages)
  BY <1>1, NewestPushed
<1>3. messages' \in Seq(Message) /\ k \in 1..Len(messages')
  BY Pushed
<1>4. assistant_message' = Read(messages') /\ assistant_message = Read(messages)
  BY DEF assistant_message, Read
<1> QED
  BY <1>2, <1>3, <1>4

(* How far the calls are handled.                                          *)
LEMMA HandledBound ==
  ASSUME TurnsInv
  PROVE  Handled \in Nat /\ Handled <= next_id /\ next_id \in Nat
<1>1. next_id \in Nat
  BY ConversationAssumption DEF TurnsInv, TypeOK
<1>2. CASE pc = "blocks"
  <2>1. InHand /\ messages \in Seq(Message)
    BY <1>2 DEF TurnsInv
  <2>2. Len(assistant_message) \in Nat
    BY <2>1, HandTyped
  <2> QED BY <2>1, <2>2, <1>1, <1>2 DEF InHand, Handled
<1> QED
  BY <1>1, <1>2 DEF Handled

(* What was done stays done, if no handled call is taken back.             *)
LEMMA DoneKept ==
  ASSUME TurnsInv, executed' = executed, Handled' \in Nat, Handled <= Handled'
  PROVE  Done'
<1>1. Handled \in Nat
  BY HandledBound
<1>2. \A i \in 1..Len(executed) : executed[i] \in Nat /\ executed[i] <= Handled
  BY ConversationAssumption DEF TurnsInv, TypeOK
<1>3. \A i \in 1..Len(executed) : executed[i] <= Handled'
  BY <1>1, <1>2
<1> QED
  BY <1>3 DEF Done, TurnsInv, TypeOK, ExecutedOnceInOrder

-----------------------------------------------------------------------------
(* How a turn ends, wherever it ends.                                      *)
LEMMA ReturnTurns ==
  ASSUME TurnsInv, NEW r \in Results, Return(r), messages' = messages,
         compacted_turns' = compacted_turns, turns' = turns,
         next_id' = next_id, executed' = executed
  PROVE  TurnsInv'
<1>1. Control'
  BY ConversationAssumption DEF Control, TurnsInv, TypeOK, Return
<1>2. Handled' = next_id
  BY DEF Return, Handled
<1>3. Done'
  BY <1>2, HandledBound, DoneKept
<1>4. messages' \in Seq(Message) /\ pc' # "blocks"
  BY DEF TurnsInv, Return
<1> QED
  BY <1>1, <1>3, <1>4, TurnsMade

(* The messages that the loop pushes.                                      *)
LEMMA PushedTyped ==
  ASSUME NEW id \in 0..MaxIds
  PROVE  /\ user_input_response(id) \in Message /\ tool_result(id) \in Message
         /\ user_input_response(id).role # "assistant"
         /\ tool_result(id).role # "assistant"
         /\ user_text \in Message
         /\ \A j \in 1..Len(user_input_response(id).blocks) :
              /\ user_input_response(id).blocks[j].type = "response"
              /\ user_input_response(id).blocks[j].id = id
         /\ \A j \in 1..Len(tool_result(id).blocks) :
              /\ tool_result(id).blocks[j].type = "tool_result"
              /\ tool_result(id).blocks[j].id = id
         /\ \A j \in 1..Len(user_text.blocks) :
              /\ user_text.blocks[j].type = "text"
              /\ user_text.blocks[j].id = 0
         /\ Len(user_input_response(id).blocks) = 1 /\ Len(tool_result(id).blocks) = 1
<1>1. /\ [type |-> "response", id |-> id] \in Block
      /\ [type |-> "tool_result", id |-> id] \in Block
      /\ [type |-> "text", id |-> 0] \in Block
  <2>1. 0 \in 0..MaxIds
    BY ConversationAssumption
  <2> QED BY <2>1, Answering, Zenon
<1>2. ASSUME NEW b \in Block, NEW role \in Roles
      PROVE  /\ message(role, <<b>>) \in Message /\ message(role, <<b>>).role = role
             /\ Len(message(role, <<b>>).blocks) = 1
             /\ \A j \in 1..Len(message(role, <<b>>).blocks) :
                  message(role, <<b>>).blocks[j] = b
  BY OneBlock
<1>3. {"user", "tool"} \subseteq Roles
  BY DEF Roles
<1>4. /\ user_input_response(id) \in Message /\ user_input_response(id).role = "user"
      /\ Len(user_input_response(id).blocks) = 1
      /\ \A j \in 1..Len(user_input_response(id).blocks) :
           user_input_response(id).blocks[j] = [type |-> "response", id |-> id]
  BY <1>1, <1>2, <1>3, Zenon DEF user_input_response
<1>5. /\ tool_result(id) \in Message /\ tool_result(id).role = "tool"
      /\ Len(tool_result(id).blocks) = 1
      /\ \A j \in 1..Len(tool_result(id).blocks) :
           tool_result(id).blocks[j] = [type |-> "tool_result", id |-> id]
  BY <1>1, <1>2, <1>3, Zenon DEF tool_result
<1>6. /\ user_text \in Message
      /\ \A j \in 1..Len(user_text.blocks) : user_text.blocks[j] = [type |-> "text", id |-> 0]
  <2> DEFINE b == [type |-> "text", id |-> 0]
  <2>1. "user" \in Roles /\ b \in Block
    BY <1>1, <1>3
  <2>2. user_text = message("user", <<b>>)
    BY DEF user_text
  <2>3. /\ user_text \in Message
        /\ \A j \in 1..Len(user_text.blocks) : user_text.blocks[j] = b
    <3> HIDE DEF b
    <3> QED BY <1>2, <2>1, <2>2
  <2> QED BY <2>3
<1>7. /\ [type |-> "response", id |-> id].type = "response"
      /\ [type |-> "response", id |-> id].id = id
      /\ [type |-> "tool_result", id |-> id].type = "tool_result"
      /\ [type |-> "tool_result", id |-> id].id = id
      /\ [type |-> "text", id |-> 0].type = "text" /\ [type |-> "text", id |-> 0].id = 0
  OBVIOUS
<1> QED
  BY <1>7, <1>4, <1>5, <1>6

LEMMA RunTurns ==
  ASSUME TurnsInv, NEW p \in TurnResponders, run_turn(p)
  PROVE  TurnsInv'
<1>1. user_text \in Message
  <2>1. 0 \in 0..MaxIds
    BY ConversationAssumption
  <2> QED BY <2>1, PushedTyped
<1>2. messages' \in Seq(Message)
  BY <1>1, TurnsParts, Pushed DEF run_turn, push
<1>3. Control'
  BY TurnsParts, ConversationAssumption DEF Control, run_turn, TurnResponders
<1>4. Handled' = next_id /\ executed' = executed
  BY DEF run_turn, Handled
<1>5. Done'
  BY <1>4, HandledBound, DoneKept
<1> QED
  BY <1>2, <1>3, <1>5, TurnsMade DEF run_turn

LEMMA ResumeTurns ==
  ASSUME TurnsInv, NEW p \in ResumeResponders, resume_pending_turn(p)
  PROVE  TurnsInv'
<1>1. CASE Return("error")
  BY <1>1, ReturnTurns DEF resume_pending_turn, session, Results
<1>2. CASE pc' = "pending" /\ responder' = p
           /\ UNCHANGED <<block, iterations, result>>
  <2>1. Control' /\ messages' \in Seq(Message)
    BY <1>2, TurnsParts, ConversationAssumption
       DEF Control, resume_pending_turn, ResumeResponders, session
  <2>2. Handled' = next_id /\ executed' = executed
    BY <1>2 DEF resume_pending_turn, Handled
  <2>3. Done'
    BY <2>2, HandledBound, DoneKept
  <2> QED BY <1>2, <2>1, <2>3, TurnsMade
<1> QED
  BY <1>1, <1>2 DEF resume_pending_turn


(* The pending question is one that is open.                               *)
LEMMA LeastOf ==
  ASSUME NEW T, T \subseteq Nat, T # {}
  PROVE  \E i \in T : \A j \in T : i <= j
<1>1. PICK x \in T : \A y \in T : ~(<<y, x>> \in OpToRel(<, Nat))
  BY NatLessThanWellFounded, WFMin
<1>2. \A y \in T : ~(y < x)
  BY <1>1 DEF OpToRel
<1> QED
  BY <1>2

LEMMA BlocksTyped ==
  ASSUME NEW ms \in Seq(Message), NEW b \in Blocks(ms)
  PROVE  /\ b = <<b[1], b[2]>> /\ b[1] \in 1..Len(ms) /\ b[2] \in Block
         /\ \E j \in 1..Len(ms[b[1]].blocks) : b[2] = ms[b[1]].blocks[j]
<1>1. PICK i \in 1..Len(ms) :
        \E j \in 1..Len(ms[i].blocks) : b = <<i, ms[i].blocks[j]>>
  BY DEF Blocks
<1>2. \A j \in 1..Len(ms[i].blocks) : ms[i].blocks[j] \in Block
  BY MessagesTyped
<1> QED
  BY <1>1, <1>2

LEMMA PendingOpen ==
  ASSUME messages \in Seq(Message), Open(messages, {"ask"}) # {}
  PROVE  \E b \in Open(messages, {"ask"}) : pending_user_input_request = b[2].id
<1> DEFINE T == {b[2].id : b \in Open(messages, {"ask"})}
<1>1. T \subseteq Nat
  <2>1. \A b \in Open(messages, {"ask"}) : b[2] \in Block
    BY BlocksTyped DEF Open
  <2> QED BY <2>1, ConversationAssumption DEF Block
<1>2. T # {}
  OBVIOUS
<1>3. pending_user_input_request = CHOOSE i \in T : \A j \in T : i <= j
  BY <1>2 DEF pending_user_input_request
<1>4. pending_user_input_request \in T
  <2> HIDE DEF T
  <2> QED BY <1>1, <1>2, <1>3, LeastOf
<1> QED
  BY <1>4

LEMMA PendingTyped ==
  ASSUME messages \in Seq(Message)
  PROVE  pending_user_input_request \in 0..MaxIds
<1>1. CASE Open(messages, {"ask"}) = {}
  BY <1>1, ConversationAssumption DEF pending_user_input_request
<1>2. CASE Open(messages, {"ask"}) # {}
  <2>1. PICK b \in Open(messages, {"ask"}) : pending_user_input_request = b[2].id
    BY <1>2, PendingOpen
  <2>2. b[2] \in Block
    BY BlocksTyped DEF Open
  <2> QED BY <2>1, <2>2 DEF Block
<1> QED
  BY <1>1, <1>2

-----------------------------------------------------------------------------
(* The steps of a turn.                                                    *)
LEMMA PendingTurns ==
  ASSUME TurnsInv, resolve_pending
  PROVE  TurnsInv'
<1>1. CASE Return("pending") /\ UNCHANGED session
  BY <1>1, ReturnTurns DEF resolve_pending, session, Results
<1>2. ASSUME pc' = "stream" /\ iterations' = iterations + 1,
             block' \in Nat, compacted_turns' = compacted_turns,
             responder' \in {"none", "interactive", "submitted", "spent"},
             result' = result, messages' \in Seq(Message)
      PROVE  TurnsInv'
  <2>1. Control'
    BY <1>2, TurnsParts, ConversationAssumption DEF Control, resolve_pending
  <2>2. Handled' = next_id /\ executed' = executed
    BY <1>2 DEF resolve_pending, Handled
  <2>3. Done'
    BY <2>2, HandledBound, DoneKept
  <2> QED BY <1>2, <2>1, <2>3, TurnsMade
<1>3. CASE /\ push(user_input_response(pending_user_input_request))
           /\ responder' = IF responder = "submitted" THEN "spent" ELSE responder
           /\ pc' = "stream" /\ iterations' = iterations + 1 /\ block' = 0
           /\ UNCHANGED <<compacted_turns, result>>
  <2>1. messages' \in Seq(Message)
    BY <1>3, TurnsParts, PendingTyped, PushedTyped, Pushed DEF push
  <2>2. responder' \in {"none", "interactive", "submitted", "spent"}
    BY <1>3, TurnsParts DEF Control
  <2> QED BY <1>2, <1>3, <2>1, <2>2
<1>4. CASE /\ pc' = "stream" /\ iterations' = iterations + 1
           /\ UNCHANGED <<session, block, responder, result>>
  BY <1>2, <1>4, TurnsParts DEF Control, session
<1> QED
  BY <1>1, <1>3, <1>4 DEF resolve_pending, resolve_user_input_request

LEMMA Streamed ==
  ASSUME TurnsInv, NEW reply \in Replies, NEW usage \in {0, 1}, stream(reply, usage)
  PROVE  /\ reply \in Seq(Tools \cup {"text", "ask"}) /\ Len(reply) \in Nat
         /\ next_id \in Nat /\ next_id' = next_id + Len(reply) /\ next_id' \in 0..MaxIds
         /\ Handled' = next_id /\ pc' = "blocks" /\ block' = 1
         /\ \E m \in Message :
              /\ m.role = "assistant" /\ messages' = Append(messages, m)
              /\ Len(m.blocks) = Len(reply) /\ assistant_message' = m.blocks
              /\ \A j \in 1..Len(reply) :
                   /\ m.blocks[j].type = reply[j]
                   /\ m.blocks[j].id = IF reply[j] = "text" THEN 0 ELSE next_id + j
         /\ messages' \in Seq(Message)
         /\ \E k \in 1..Len(messages') : Newest(messages', k)
<1> DEFINE m == build_assistant_message(reply, usage)
           bs == [i \in 1..Len(reply) |->
                    [type |-> reply[i],
                     id |-> IF reply[i] = "text" THEN 0 ELSE next_id + i]]
<1>1. /\ reply \in Seq(Tools \cup {"text", "ask"}) /\ Len(reply) \in Nat
      /\ \A i \in 1..Len(reply) : reply[i] \in Tools \cup {"text", "ask"}
  BY ConversationAssumption
<1>2. next_id \in 0..MaxIds /\ MaxIds \in Nat /\ next_id + Len(reply) <= MaxIds
  BY TurnsParts, ConversationAssumption DEF Control, stream
<1>3. bs \in Seq(Block) /\ Len(bs) = Len(reply)
  <2>1. \A i \in 1..Len(reply) :
          [type |-> reply[i],
           id |-> IF reply[i] = "text" THEN 0 ELSE next_id + i] \in Block
    BY <1>1, <1>2 DEF Block, BlockTypes
  <2>2. bs \in [1..Len(reply) -> Block]
    BY <2>1
  <2> QED BY <2>2, <1>1
<1>4. m = [role |-> "assistant", blocks |-> bs, usage |-> usage]
  BY DEF build_assistant_message
<1>5. m \in Message /\ m.role = "assistant" /\ m.blocks = bs
  <2> HIDE DEF bs, m
  <2> QED BY <1>3, <1>4 DEF Message, Roles
<1>6. messages \in Seq(Message) /\ messages' = Append(messages, m)
  BY TurnsParts DEF stream, push
<1>7. /\ messages' \in Seq(Message) /\ assistant_message' = bs
      /\ \E k \in 1..Len(messages') : Newest(messages', k)
  <2> HIDE DEF bs, m
  <2>1. Read(messages') = m.blocks /\ Newest(messages', Len(messages) + 1)
    BY <1>5, <1>6, NewestPushed
  <2>2. /\ messages' \in Seq(Message)
        /\ Len(messages') = Len(messages) + 1 /\ Len(messages) \in Nat
    BY <1>5, <1>6, Pushed
  <2>3. assistant_message' = Read(messages')
    BY DEF assistant_message, Read
  <2> QED BY <2>1, <2>2, <2>3, <1>5
<1>8. /\ \A j \in 1..Len(reply) :
           /\ bs[j].type = reply[j]
           /\ bs[j].id = IF reply[j] = "text" THEN 0 ELSE next_id + j
      /\ next_id' = next_id + Len(reply) /\ pc' = "blocks" /\ block' = 1
  BY DEF stream
<1> HIDE DEF m, bs
<1>9. Handled' = next_id
  BY <1>1, <1>2, <1>3, <1>7, <1>8 DEF Handled
<1>10. Len(m.blocks) = Len(reply) /\ assistant_message' = m.blocks
       /\ \A j \in 1..Len(reply) :
            /\ m.blocks[j].type = reply[j]
            /\ m.blocks[j].id = IF reply[j] = "text" THEN 0 ELSE next_id + j
  BY <1>3, <1>5, <1>7, <1>8
<1> QED
  BY <1>1, <1>2, <1>5, <1>6, <1>7, <1>8, <1>9, <1>10

LEMMA StreamTurns ==
  ASSUME TurnsInv, NEW reply \in Replies, NEW usage \in {0, 1}, stream(reply, usage)
  PROVE  TurnsInv'
<1>1. /\ reply \in Seq(Tools \cup {"text", "ask"}) /\ Len(reply) \in Nat
      /\ next_id \in Nat /\ next_id' = next_id + Len(reply) /\ next_id' \in 0..MaxIds
      /\ Handled' = next_id /\ pc' = "blocks" /\ block' = 1
      /\ messages' \in Seq(Message) /\ \E k \in 1..Len(messages') : Newest(messages', k)
  BY Streamed
<1>2. PICK m \in Message :
        /\ Len(m.blocks) = Len(reply) /\ assistant_message' = m.blocks
        /\ \A j \in 1..Len(reply) :
             /\ m.blocks[j].type = reply[j]
             /\ m.blocks[j].id = IF reply[j] = "text" THEN 0 ELSE next_id + j
  BY Streamed
<1>3. InHand'
  <2>1. /\ block' \in 1..(Len(assistant_message') + 1)
        /\ Len(assistant_message') <= next_id'
    BY <1>1, <1>2
  <2>2. ASSUME NEW j \in 1..Len(reply)
        PROVE  /\ m.blocks[j].type \in Tools \cup {"text", "ask"}
               /\ m.blocks[j].type # "text" =>
                    m.blocks[j].id = next_id' - Len(reply) + j
    <3>1. reply[j] \in Tools \cup {"text", "ask"}
      BY <1>1
    <3>2. m.blocks[j].type # "text" => m.blocks[j].id = next_id + j
      BY <1>2
    <3> QED BY <1>1, <1>2, <3>1, <3>2
  <2> QED BY <1>1, <1>2, <2>1, <2>2 DEF InHand
<1>4. Control'
  <2>1. iterations <= max_iterations /\ iterations \in Nat
    BY TurnsParts, ConversationAssumption DEF Control, stream, Exhausted
  <2> QED BY <2>1, <1>1, TurnsParts DEF Control, stream
<1>5. Done'
  <2>1. executed' = executed
    BY DEF stream
  <2> QED BY <2>1, <1>1, HandledBound, DoneKept
<1> QED
  BY <1>1, <1>3, <1>4, <1>5, TurnsMade

(* A block that is handled: the loop goes on to the next one.              *)
LEMMA NextBlock ==
  ASSUME TurnsInv, InBlocks, block' = block + 1, pc' = pc, next_id' = next_id,
         \/ messages' = messages
         \/ \E m \in Message : m.role # "assistant" /\ messages' = Append(messages, m)
  PROVE  /\ messages' \in Seq(Message) /\ InHand'
         /\ assistant_message' = assistant_message
         /\ Handled' = Handled + 1 /\ Handled' \in Nat /\ Handled <= Handled'
<1>1. messages \in Seq(Message) /\ InHand /\ pc = "blocks" /\ Handled \in Nat
  BY TurnsParts, HandledBound DEF InBlocks
<1>2. Len(assistant_message) \in Nat /\ next_id \in Nat
  BY <1>1, HandTyped, HandledBound
<1>3. /\ messages' \in Seq(Message) /\ assistant_message' = assistant_message
      /\ \E k \in 1..Len(messages') : Newest(messages', k)
  <2>1. CASE messages' = messages
    BY <2>1, <1>1 DEF InHand, assistant_message
  <2>2. CASE \E m \in Message : m.role # "assistant" /\ messages' = Append(messages, m)
    BY <2>2, <1>1, HandKept
  <2> QED BY <2>1, <2>2
<1>4. block' \in 1..(Len(assistant_message) + 1)
  BY <1>1, <1>2 DEF InBlocks, InHand
<1>5. InHand'
  BY <1>1, <1>3, <1>4 DEF InHand
<1>6. Handled' = Handled + 1
  BY <1>1, <1>2, <1>3 DEF Handled, InHand
<1> QED
  BY <1>1, <1>3, <1>5, <1>6

(* A call or a question in hand has a name, the one after those handled.   *)
LEMMA HandNamed ==
  ASSUME TurnsInv, InBlocks, assistant_message[block].type # "text"
  PROVE  /\ assistant_message[block].id = Handled + 1
         /\ assistant_message[block].id \in 1..MaxIds
<1>1. InHand /\ Len(assistant_message) \in Nat /\ pc = "blocks"
  BY TurnsParts, HandTyped DEF InBlocks
<1>2. next_id \in 0..MaxIds /\ MaxIds \in Nat
  BY TurnsParts, ConversationAssumption DEF Control
<1>3. block \in 1..Len(assistant_message)
  BY <1>1 DEF InHand, InBlocks
<1>4. assistant_message[block].id = next_id - Len(assistant_message) + block
  BY <1>1, <1>3 DEF InHand
<1>5. Len(assistant_message) <= next_id
  BY <1>1 DEF InHand
<1> QED
  BY <1>1, <1>2, <1>3, <1>4, <1>5 DEF Handled

LEMMA ToolTurns ==
  ASSUME TurnsInv, handle_tool_use
  PROVE  TurnsInv'
<1> DEFINE b == assistant_message[block]
<1>1. InBlocks /\ b.type \in Tools
  BY DEF handle_tool_use
<1>2. b.type # "text" /\ b.type # "ask"
  BY <1>1 DEF Tools
<1>3. b.id = Handled + 1 /\ b.id \in 1..MaxIds /\ Handled \in Nat
  BY <1>1, <1>2, HandNamed, HandledBound
<1>4. tool_result(b.id) \in Message /\ tool_result(b.id).role # "assistant"
  <2>1. b.id \in 0..MaxIds
    BY <1>3
  <2> HIDE DEF b
  <2> QED BY <2>1, PushedTyped
<1>5. messages' = Append(messages, tool_result(b.id)) /\ block' = block + 1
      /\ pc' = pc /\ next_id' = next_id
  BY DEF handle_tool_use, push
<1>6. messages' \in Seq(Message) /\ InHand' /\ Handled' = Handled + 1
      /\ Handled' \in Nat /\ Handled <= Handled'
  BY <1>1, <1>4, <1>5, NextBlock
<1>7. Control'
  BY TurnsParts DEF Control, handle_tool_use
<1>8. executed \in Seq(1..MaxIds) /\ MaxIds \in Nat
      /\ \A i \in 1..Len(executed) : executed[i] <= Handled
  BY TurnsParts, ConversationAssumption DEF Done
<1>9. CASE executed' = executed
  <2>1. Done'
    BY <1>6, <1>9, DoneKept
  <2> QED BY <1>6, <1>7, <2>1, TurnsMade
<1>10. CASE executed' = Append(executed, b.id)
  <2> HIDE DEF b
  <2>1. /\ executed' \in Seq(1..MaxIds) /\ Len(executed) \in Nat
        /\ Len(executed') = Len(executed) + 1 /\ executed'[Len(executed) + 1] = b.id
        /\ \A i \in 1..Len(executed) : executed'[i] = executed[i]
    BY <1>3, <1>8, <1>10, Pushed
  <2>2. \A i \in 1..Len(executed) : executed[i] \in Nat /\ executed[i] <= Handled
    BY <1>8
  <2>3. ASSUME NEW i \in 1..Len(executed') PROVE executed'[i] <= Handled'
    BY <1>3, <1>6, <2>1, <2>2
  <2>4. ASSUME NEW i \in 1..Len(executed'), NEW j \in 1..Len(executed'), i < j
        PROVE  executed'[i] < executed'[j]
    <3>1. CASE j \in 1..Len(executed)
      <4>1. i \in 1..Len(executed)
        BY <2>1, <2>4, <3>1
      <4>2. executed[i] < executed[j]
        BY <2>4, <3>1, <4>1, TurnsParts DEF Done, ExecutedOnceInOrder
      <4> QED BY <2>1, <3>1, <4>1, <4>2
    <3>2. CASE j = Len(executed) + 1
      <4>1. i \in 1..Len(executed)
        BY <2>1, <2>4, <3>2
      <4> QED BY <1>3, <2>1, <2>2, <3>2, <4>1
    <3> QED BY <2>1, <2>4, <3>1, <3>2
  <2>5. Done'
    BY <2>1, <2>3, <2>4 DEF Done, ExecutedOnceInOrder
  <2> QED BY <1>6, <1>7, <2>5, TurnsMade
<1> QED
  BY <1>9, <1>10 DEF handle_tool_use

LEMMA QuestionTurns ==
  ASSUME TurnsInv, handle_user_input_request
  PROVE  TurnsInv'
<1> DEFINE b == assistant_message[block]
<1>1. InBlocks /\ b.type = "ask"
  BY DEF handle_user_input_request
<1>2. CASE Return("pending") /\ UNCHANGED session
  BY <1>2, ReturnTurns DEF handle_user_input_request, session, Results
<1>3. CASE /\ push(user_input_response(b.id))
           /\ responder' = IF responder = "submitted" THEN "spent" ELSE responder
           /\ block' = block + 1 /\ UNCHANGED <<pc, iterations>>
           /\ UNCHANGED <<compacted_turns, result>>
  <2>1. b.id \in 0..MaxIds
    BY <1>1, HandNamed, ConversationAssumption
  <2>2. /\ user_input_response(b.id) \in Message
        /\ user_input_response(b.id).role # "assistant"
    BY <2>1, PushedTyped
  <2>3. messages' = Append(messages, user_input_response(b.id))
    BY <1>3 DEF push
  <2>4. next_id' = next_id /\ executed' = executed /\ turns' = turns
    BY DEF handle_user_input_request
  <2>5. messages' \in Seq(Message) /\ InHand' /\ Handled' \in Nat /\ Handled <= Handled'
    BY <1>1, <1>3, <2>2, <2>3, <2>4, NextBlock
  <2>6. Control'
    BY <1>3, <2>4, TurnsParts DEF Control
  <2>7. Done'
    BY <2>4, <2>5, DoneKept
  <2> QED BY <2>5, <2>6, <2>7, TurnsMade
<1> QED
  BY <1>2, <1>3 DEF handle_user_input_request, resolve_user_input_request

LEMMA TextTurns ==
  ASSUME TurnsInv, skip_text
  PROVE  TurnsInv'
<1>1. /\ InBlocks /\ messages' = messages /\ block' = block + 1 /\ pc' = pc
      /\ next_id' = next_id /\ executed' = executed
  BY DEF skip_text, session
<1>2. messages' \in Seq(Message) /\ InHand' /\ Handled' \in Nat /\ Handled <= Handled'
  BY <1>1, NextBlock
<1>3. Control'
  BY <1>1, TurnsParts DEF Control, skip_text, session
<1>4. Done'
  BY <1>1, <1>2, DoneKept
<1> QED
  BY <1>2, <1>3, <1>4, TurnsMade

LEMMA BlocksOverTurns ==
  ASSUME TurnsInv, end_of_blocks
  PROVE  TurnsInv'
<1>1. CASE Return("ok")
  BY <1>1, ReturnTurns DEF end_of_blocks, session, Results
<1>2. CASE pc' = "pending" /\ block' = 0 /\ UNCHANGED <<iterations, responder, result>>
  <2>1. Control' /\ messages' \in Seq(Message) /\ executed' = executed
    BY <1>2, TurnsParts DEF Control, end_of_blocks, session
  <2>2. Handled' = next_id
    BY <1>2 DEF end_of_blocks, Handled
  <2>3. Done'
    BY <2>1, <2>2, HandledBound, DoneKept
  <2> QED BY <1>2, <2>1, <2>3, TurnsMade
<1> QED
  BY <1>1, <1>2 DEF end_of_blocks

(* What the messages cost is a number.                                     *)
LEMMA UsageTyped ==
  ASSUME NEW ms \in Seq(Message)
  PROVE  usage_of(ms) \in Nat
<1>1. Len(ms) \in Nat
  OBVIOUS
<1>2. IsFiniteSet(1..Len(ms))
  BY <1>1, FS_Interval
<1>3. IsFiniteSet({i \in 1..Len(ms) : ms[i].usage = 1})
  BY <1>2, FS_Subset
<1> QED
  BY <1>3, FS_CardinalityType DEF usage_of

LEMMA CompactTurns ==
  ASSUME TurnsInv, compact_session
  PROVE  TurnsInv'
<1> DEFINE prefix == compacted_summary_prefix_len
           keep_from == Len(messages) - preserve_recent
           head == <<message("system", <<[type |-> "text", id |-> 0]>>)>>
           kept == SubSeq(messages, keep_from + 1, Len(messages))
<1>1. messages \in Seq(Message) /\ Len(messages) \in Nat /\ preserve_recent \in Nat
  BY TurnsParts, ConversationAssumption
<1>2. prefix \in {0, 1}
  BY DEF compacted_summary_prefix_len
<1>3. Len(messages) - prefix > preserve_recent
  BY DEF compact_session
<1>4. keep_from \in 1..Len(messages)
  BY <1>1, <1>2, <1>3
<1>5. kept \in Seq(Message)
  BY <1>1, <1>4, SubSeqProperties
<1>6. head \in Seq(Message)
  <2>1. [type |-> "text", id |-> 0] \in Block
    BY Answering, ConversationAssumption, 0 \in 0..MaxIds
  <2>2. message("system", <<[type |-> "text", id |-> 0]>>) \in Message
    BY <2>1, OneBlock DEF Roles
  <2> QED BY <2>2
<1>7. messages' \in Seq(Message)
  <2>1. messages' = head \o kept
    BY DEF compact_session
  <2> HIDE DEF head, kept
  <2> QED BY <1>5, <1>6, <2>1
<1>8. compacted_turns' \in Nat /\ turns' \in Nat
  <2>1. SubSeq(messages, prefix + 1, keep_from) \in Seq(Message)
    BY <1>1, <1>2, <1>4, SubSeqProperties
  <2>2. removed_turns(prefix, keep_from) \in Nat
    BY <2>1, UsageTyped DEF removed_turns
  <2>3. usage_of(messages') \in Nat
    BY <1>7, UsageTyped
  <2>4. /\ compacted_turns' = compacted_turns + removed_turns(prefix, keep_from)
        /\ turns' = compacted_turns' + usage_of(messages')
    BY DEF compact_session
  <2> HIDE DEF prefix, keep_from
  <2> QED BY <2>2, <2>3, <2>4, TurnsParts DEF Control
<1>9. Control' /\ pc' # "blocks" /\ executed' = executed /\ Handled' = next_id
  BY <1>8, TurnsParts DEF Control, compact_session, turn, Handled
<1>10. Done'
  BY <1>9, HandledBound, DoneKept
<1> QED
  BY <1>7, <1>9, <1>10, TurnsMade

LEMMA TurnsStep ==
  ASSUME TurnsInv, Next
  PROVE  TurnsInv'
<1>1. CASE \E p \in TurnResponders : run_turn(p)
  BY <1>1, RunTurns
<1>2. CASE \E p \in ResumeResponders : resume_pending_turn(p)
  BY <1>2, ResumeTurns
<1>3. CASE resolve_pending
  BY <1>3, PendingTurns
<1>4. CASE give_up
  BY <1>4, ReturnTurns DEF give_up, session, Results
<1>5. CASE stream_fails
  BY <1>5, ReturnTurns DEF stream_fails, session, Results
<1>6. CASE \E reply \in Replies, usage \in {0, 1} : stream(reply, usage)
  BY <1>6, StreamTurns
<1>7. CASE handle_tool_use
  BY <1>7, ToolTurns
<1>8. CASE handle_user_input_request
  BY <1>8, QuestionTurns
<1>9. CASE skip_text
  BY <1>9, TextTurns
<1>10. CASE end_of_blocks
  BY <1>10, BlocksOverTurns
<1>11. CASE compact_session
  BY <1>11, CompactTurns
<1> QED
  BY <1>1, <1>2, <1>3, <1>4, <1>5, <1>6, <1>7, <1>8, <1>9, <1>10, <1>11
     DEF Next, Step

LEMMA TurnsStutter ==
  ASSUME TurnsInv, UNCHANGED vars
  PROVE  TurnsInv'
BY DEF vars, session, turn, TurnsInv, TypeOK, InHand, Handled, ExecutedOnceInOrder,
       assistant_message

LEMMA TurnsStart ==
  ASSUME Init
  PROVE  TurnsInv
<1>1. messages \in Seq(Message)
  BY DEF Init
<1>2. TypeOK
  BY ConversationAssumption DEF Init, TypeOK, Results
<1> QED
  BY <1>1, <1>2, ConversationAssumption DEF Init, TurnsInv, ExecutedOnceInOrder

(* TurnsInv is inductive, whatever the model replies.                      *)
LEMMA TurnsHold == MCSpec => [](part = "turns" => TurnsInv)
<1>1. MCInit => (part = "turns" => TurnsInv)
  BY TurnsStart DEF MCInit
<1>2. (part = "turns" => TurnsInv) /\
      [MCNext]_<<part, vars, filesVars, bashVars, toolsVars, browserVars, agentVars, lspVars,
                 argsVars, editorVars, installVars, onboardVars, configVars>>
        => (part = "turns" => TurnsInv)'
  BY TurnsStep, TurnsStutter DEF MCNext
<1> QED
  BY <1>1, <1>2, PTL DEF MCSpec

-----------------------------------------------------------------------------
(* The blocks of a session to which a message is added, and which of them  *)
(* are open.                                                               *)
LEMMA BlocksPushed ==
  ASSUME NEW ms \in Seq(Message), NEW m \in Message
  PROVE  /\ Blocks(ms) \subseteq Blocks(Append(ms, m))
         /\ \A j \in 1..Len(m.blocks) : <<Len(ms) + 1, m.blocks[j]>> \in Blocks(Append(ms, m))
         /\ \A b \in Blocks(Append(ms, m)) :
              \/ b \in Blocks(ms)
              \/ b[1] = Len(ms) + 1 /\ \E j \in 1..Len(m.blocks) : b[2] = m.blocks[j]
<1> DEFINE ns == Append(ms, m)
<1>0. /\ ns \in Seq(Message) /\ Len(ms) \in Nat /\ Len(ns) = Len(ms) + 1
      /\ ns[Len(ms) + 1] = m /\ \A i \in 1..Len(ms) : ns[i] = ms[i]
  BY Pushed
<1>1. SUFFICES /\ Blocks(ms) \subseteq Blocks(ns)
               /\ \A j \in 1..Len(m.blocks) : <<Len(ms) + 1, m.blocks[j]>> \in Blocks(ns)
               /\ \A b \in Blocks(ns) :
                    \/ b \in Blocks(ms)
                    \/ b[1] = Len(ms) + 1 /\ \E j \in 1..Len(m.blocks) : b[2] = m.blocks[j]
  OBVIOUS
<1> HIDE DEF ns
<1>2. Len(ms) + 1 \in 1..Len(ns) /\ \A i \in 1..Len(ms) : i \in 1..Len(ns)
  BY <1>0
<1>3. ASSUME NEW b \in Blocks(ms) PROVE b \in Blocks(ns)
  <2>1. PICK i \in 1..Len(ms) : \E j \in 1..Len(ms[i].blocks) : b = <<i, ms[i].blocks[j]>>
    BY DEF Blocks
  <2>2. ns[i] = ms[i] /\ i \in 1..Len(ns)
    BY <1>0, <1>2
  <2> QED BY <2>1, <2>2 DEF Blocks
<1>4. ASSUME NEW j \in 1..Len(m.blocks)
      PROVE  <<Len(ms) + 1, m.blocks[j]>> \in Blocks(ns)
  BY <1>0, <1>2 DEF Blocks
<1>5. ASSUME NEW b \in Blocks(ns)
      PROVE  \/ b \in Blocks(ms)
             \/ b[1] = Len(ms) + 1 /\ \E j \in 1..Len(m.blocks) : b[2] = m.blocks[j]
  <2>1. PICK i \in 1..Len(ns) : \E j \in 1..Len(ns[i].blocks) : b = <<i, ns[i].blocks[j]>>
    BY DEF Blocks
  <2>2. CASE i = Len(ms) + 1
    BY <2>1, <2>2, <1>0
  <2>3. CASE i \in 1..Len(ms)
    <3>1. ns[i] = ms[i]
      BY <2>3, <1>0
    <3> QED BY <2>1, <2>3, <3>1 DEF Blocks
  <2> QED BY <2>2, <2>3, <1>0
<1> QED
  BY <1>3, <1>4, <1>5

LEMMA OpenPushed ==
  ASSUME NEW ms \in Seq(Message), NEW m \in Message, NEW T,
         NEW b \in Open(Append(ms, m), T)
  PROVE  /\ b[2].type \in T
         /\ \/ /\ b \in Open(ms, T)
               /\ \A j \in 1..Len(m.blocks) :
                    ~ /\ m.blocks[j].id = b[2].id
                      /\ m.blocks[j].type = (IF b[2].type = "ask" THEN "response" ELSE "tool_result")
            \/ \E j \in 1..Len(m.blocks) : b[2] = m.blocks[j]
<1> DEFINE ns == Append(ms, m)
<1>1. /\ Blocks(ms) \subseteq Blocks(ns)
      /\ \A j \in 1..Len(m.blocks) : <<Len(ms) + 1, m.blocks[j]>> \in Blocks(ns)
      /\ \A c \in Blocks(ns) :
           \/ c \in Blocks(ms)
           \/ c[1] = Len(ms) + 1 /\ \E j \in 1..Len(m.blocks) : c[2] = m.blocks[j]
  BY BlocksPushed
<1>2. b \in Open(ns, T)
  OBVIOUS
<1> HIDE DEF ns
<1>3. b \in Blocks(ns) /\ b[2].type \in T /\ \A a \in Blocks(ns) : ~Answers(b, a)
  BY <1>2 DEF Open
<1>4. CASE b \in Blocks(ms)
  <2>1. b \in Open(ms, T)
    BY <1>1, <1>3, <1>4 DEF Open
  <2>2. ASSUME NEW j \in 1..Len(m.blocks), m.blocks[j].id = b[2].id,
               m.blocks[j].type = (IF b[2].type = "ask" THEN "response" ELSE "tool_result")
        PROVE  FALSE
    <3> DEFINE a == <<Len(ms) + 1, m.blocks[j]>>
    <3>1. a \in Blocks(ns) /\ a[1] = Len(ms) + 1 /\ a[2] = m.blocks[j]
      BY <1>1
    <3>2. b[1] \in 1..Len(ms) /\ Len(ms) \in Nat
      BY <1>4, BlocksTyped
    <3> HIDE DEF a
    <3>3. a[1] > b[1]
      BY <3>1, <3>2
    <3>4. Answers(b, a)
      BY <2>2, <3>1, <3>3 DEF Answers
    <3> QED BY <1>3, <3>1, <3>4
  <2> QED BY <1>3, <2>1, <2>2
<1> QED
  BY <1>1, <1>3, <1>4

(* What a compaction keeps was there, and what it leaves open was open.    *)
LEMMA BlocksCompacted ==
  ASSUME TurnsInv, compact_session, NEW b \in Blocks(messages')
  PROVE  \/ b[2] = [type |-> "text", id |-> 0]
         \/ \E c \in Blocks(messages) :
              /\ c[2] = b[2]
              /\ \A T : b \in Open(messages', T) => c \in Open(messages, T)
<1> DEFINE keep_from == Len(messages) - preserve_recent
           text == message("system", <<[type |-> "text", id |-> 0]>>)
           kept == SubSeq(messages, keep_from + 1, Len(messages))
<1>1. messages \in Seq(Message) /\ Len(messages) \in Nat /\ preserve_recent \in Nat
  BY TurnsParts, ConversationAssumption
<1>2. keep_from \in 1..Len(messages)
  <2>1. compacted_summary_prefix_len \in {0, 1}
    BY DEF compacted_summary_prefix_len
  <2>2. Len(messages) - compacted_summary_prefix_len > preserve_recent
    BY DEF compact_session
  <2> QED BY <1>1, <2>1, <2>2
<1>3. /\ kept \in Seq(Message) /\ Len(kept) = preserve_recent
      /\ \A i \in 1..preserve_recent : kept[i] = messages[keep_from + i]
  BY <1>1, <1>2, SubSeqProperties
<1>4. /\ text.blocks = <<[type |-> "text", id |-> 0]>> /\ text \in Message
      /\ Len(text.blocks) = 1 /\ text.blocks[1] = [type |-> "text", id |-> 0]
  <2>1. 0 \in 0..MaxIds
    BY ConversationAssumption
  <2>2. [type |-> "text", id |-> 0] \in Block
    BY <2>1, Answering
  <2>3. "system" \in Roles
    BY DEF Roles
  <2> QED BY <2>2, <2>3, OneBlock, Zenon
<1>5. messages' = <<text>> \o kept
  BY DEF compact_session
<1> HIDE DEF text, kept
<1>6. /\ Len(messages') = 1 + preserve_recent /\ messages'[1] = text
      /\ \A i \in 1..preserve_recent : messages'[1 + i] = messages[keep_from + i]
  <2>1. /\ Len(messages') = 1 + preserve_recent /\ messages'[1] = text
        /\ \A i \in 1..preserve_recent : messages'[1 + i] = kept[i]
    BY <1>1, <1>3, <1>4, <1>5
  <2> QED BY <2>1, <1>3
<1>7. PICK i \in 1..Len(messages') :
        \E j \in 1..Len(messages'[i].blocks) : b = <<i, messages'[i].blocks[j]>>
  BY DEF Blocks
<1>8. CASE i = 1
  BY <1>4, <1>6, <1>7, <1>8
<1>9. CASE i > 1
  <2> DEFINE k == keep_from + (i - 1)
             c == <<k, b[2]>>
  <2>1. i - 1 \in 1..preserve_recent /\ k \in 1..Len(messages) /\ k = keep_from + i - 1
    BY <1>1, <1>2, <1>6, <1>7, <1>9
  <2>2. messages'[i] = messages[k]
    BY <1>6, <2>1, i = 1 + (i - 1)
  <2>3. c \in Blocks(messages)
    BY <1>7, <2>1, <2>2 DEF Blocks
  <2>4. c[1] = k /\ c[2] = b[2] /\ b[1] = i
    BY <1>7
  <2> HIDE DEF c, k
  <2>5. ASSUME NEW T, b \in Open(messages', T), c \notin Open(messages, T)
        PROVE  FALSE
    <3>1. PICK a \in Blocks(messages) : Answers(c, a)
      BY <2>3, <2>4, <2>5 DEF Open
    <3>2. /\ a = <<a[1], a[2]>> /\ a[1] \in 1..Len(messages)
          /\ \E j \in 1..Len(messages[a[1]].blocks) : a[2] = messages[a[1]].blocks[j]
      BY <1>1, BlocksTyped
    <3> DEFINE n == a[1] - keep_from
               d == <<1 + n, a[2]>>
    <3>3. a[1] > k
      BY <3>1, <2>4 DEF Answers
    <3>4. n \in 1..preserve_recent /\ 1 + n > i /\ a[1] = keep_from + n
      <4>1. /\ i \in Int /\ i > 1 /\ a[1] \in Int /\ a[1] <= Len(messages)
            /\ a[1] > keep_from + i - 1 /\ keep_from \in Int
        BY <1>1, <1>2, <1>6, <1>7, <1>9, <2>1, <3>2, <3>3
      <4> QED BY <4>1, <1>1
    <3>5. 1 + n \in 1..Len(messages') /\ messages'[1 + n] = messages[a[1]]
      BY <1>1, <1>6, <3>4
    <3>6. d \in Blocks(messages')
      BY <3>2, <3>5 DEF Blocks
    <3>7. d[1] > b[1] /\ d[2] = a[2]
      BY <2>4, <3>4
    <3> HIDE DEF d
    <3>8. Answers(b, d)
      BY <2>4, <3>1, <3>7 DEF Answers
    <3> QED BY <2>5, <3>6, <3>8 DEF Open
  <2> QED BY <2>3, <2>4, <2>5
<1>10. i = 1 \/ i > 1
  BY <1>1, <1>6
<1> QED
  BY <1>8, <1>9, <1>10

-----------------------------------------------------------------------------
(* What may be pushed without an unknown name.                             *)
LEMMA NamedPushed ==
  ASSUME TurnsInv, NamedInv, NEW m \in Message, messages' = Append(messages, m),
         next_id' \in Nat, Handled' \in Nat, next_id <= next_id', Handled <= Handled',
         \A j \in 1..Len(m.blocks) :
           /\ m.blocks[j].id <= next_id'
           /\ m.blocks[j].type \in {"tool_result", "response"} => m.blocks[j].id <= Handled'
  PROVE  NamedInv'
<1>1. messages \in Seq(Message) /\ next_id \in Nat /\ Handled \in Nat
  BY TurnsParts, HandledBound
<1>2. ASSUME NEW b \in Blocks(messages')
      PROVE  /\ b[2].id <= next_id'
             /\ b[2].type \in {"tool_result", "response"} => b[2].id <= Handled'
  <2>1. CASE b \in Blocks(messages)
    <3>1. b[2] \in Block
      BY <2>1, <1>1, BlocksTyped
    <3>2. b[2].id \in Nat
      BY <3>1, ConversationAssumption DEF Block
    <3> QED BY <2>1, <3>2, <1>1 DEF NamedInv
  <2>2. CASE \E j \in 1..Len(m.blocks) : b[2] = m.blocks[j]
    BY <2>2
  <2> QED BY <2>1, <2>2, <1>1, <1>2, BlocksPushed
<1> QED
  BY <1>2 DEF NamedInv

LEMMA NamedSame ==
  ASSUME TurnsInv, NamedInv, messages' = messages, next_id' = next_id,
         Handled' \in Nat, Handled <= Handled'
  PROVE  NamedInv'
<1>1. messages \in Seq(Message) /\ next_id \in Nat /\ Handled \in Nat
  BY TurnsParts, HandledBound
<1>2. ASSUME NEW b \in Blocks(messages)
      PROVE  /\ b[2].id <= next_id
             /\ b[2].type \in {"tool_result", "response"} => b[2].id <= Handled'
  <2>1. b[2] \in Block
    BY <1>1, BlocksTyped
  <2>2. b[2].id \in Nat
    BY <2>1, ConversationAssumption DEF Block
  <2> QED BY <2>2, <1>1 DEF NamedInv
<1> QED
  BY <1>2 DEF NamedInv

LEMMA PendingNamed ==
  ASSUME TurnsInv, NamedInv
  PROVE  pending_user_input_request <= next_id
<1>1. messages \in Seq(Message) /\ next_id \in Nat
  BY TurnsParts, HandledBound
<1>2. CASE Open(messages, {"ask"}) = {}
  BY <1>1, <1>2 DEF pending_user_input_request
<1>3. CASE Open(messages, {"ask"}) # {}
  BY <1>1, <1>3, PendingOpen DEF Open, NamedInv
<1> QED
  BY <1>2, <1>3

(* Where the names stand after a turn that returns.                        *)
LEMMA ReturnNamed ==
  ASSUME TurnsInv, NamedInv, messages' = messages, next_id' = next_id, pc' # "blocks"
  PROVE  NamedInv'
<1>1. Handled' = next_id
  BY DEF Handled
<1> QED
  BY <1>1, HandledBound, NamedSame

LEMMA NamedStep ==
  ASSUME TurnsInv, NamedInv, Next
  PROVE  NamedInv'
<1>0. /\ messages \in Seq(Message) /\ next_id \in Nat /\ Handled \in Nat
      /\ Handled <= next_id /\ MaxIds \in Nat /\ 0 \in 0..MaxIds
  BY TurnsParts, HandledBound, ConversationAssumption
<1>1. ASSUME NEW p \in TurnResponders, run_turn(p)
      PROVE  NamedInv'
  <2>1. /\ messages' = Append(messages, user_text) /\ user_text \in Message
        /\ \A j \in 1..Len(user_text.blocks) :
             user_text.blocks[j].type = "text" /\ user_text.blocks[j].id = 0
    BY <1>0, <1>1, PushedTyped DEF run_turn, push
  <2>2. Handled' = next_id /\ next_id' = next_id
    BY <1>1 DEF run_turn, Handled
  <2>3. \A j \in 1..Len(user_text.blocks) :
          user_text.blocks[j].id <= next_id' /\ user_text.blocks[j].type = "text"
    BY <1>0, <2>1, <2>2
  <2> QED BY <1>0, <2>1, <2>2, <2>3, NamedPushed
<1>2. ASSUME NEW p \in ResumeResponders, resume_pending_turn(p)
      PROVE  NamedInv'
  BY <1>2, ReturnNamed DEF resume_pending_turn, session, Return
<1>3. CASE resolve_pending
  <2> DEFINE id == pending_user_input_request
             m == user_input_response(id)
  <2>1. CASE messages' = messages
    BY <1>3, <2>1, ReturnNamed
       DEF resolve_pending, resolve_user_input_request, session, Return
  <2>2. CASE messages' = Append(messages, m)
    <3>1. id \in 0..MaxIds /\ id <= next_id
      BY <1>0, PendingTyped, PendingNamed
    <3>2. Handled' = next_id /\ next_id' = next_id
      BY <1>3 DEF resolve_pending, resolve_user_input_request, Return, Handled
    <3> HIDE DEF id
    <3>3. m \in Message /\ \A j \in 1..Len(m.blocks) :
            m.blocks[j].id = id /\ m.blocks[j].type = "response"
      BY <3>1, PushedTyped
    <3> HIDE DEF m
    <3> QED BY <1>0, <2>2, <3>1, <3>2, <3>3, NamedPushed
  <2> QED
    BY <1>3, <2>1, <2>2 DEF resolve_pending, resolve_user_input_request, push, session
<1>4. CASE give_up \/ stream_fails
  BY <1>4, ReturnNamed DEF give_up, stream_fails, session, Return
<1>5. ASSUME NEW reply \in Replies, NEW usage \in {0, 1}, stream(reply, usage)
      PROVE  NamedInv'
  <2>1. /\ reply \in Seq(Tools \cup {"text", "ask"}) /\ Len(reply) \in Nat
        /\ next_id' = next_id + Len(reply) /\ Handled' = next_id
    BY <1>5, Streamed
  <2>2. PICK m \in Message :
          /\ messages' = Append(messages, m) /\ Len(m.blocks) = Len(reply)
          /\ \A j \in 1..Len(reply) :
               /\ m.blocks[j].type = reply[j]
               /\ m.blocks[j].id = IF reply[j] = "text" THEN 0 ELSE next_id + j
    BY <1>5, Streamed
  <2>3. ASSUME NEW j \in 1..Len(reply)
        PROVE  /\ m.blocks[j].id <= next_id'
               /\ m.blocks[j].type \notin {"tool_result", "response"}
    <3>1. reply[j] \in Tools \cup {"text", "ask"}
      BY <2>1
    <3>2. m.blocks[j].type \notin {"tool_result", "response"}
      BY <2>2, <3>1 DEF Tools
    <3>3. m.blocks[j].id <= next_id'
      BY <1>0, <2>1, <2>2
    <3> QED BY <3>2, <3>3
  <2> QED BY <1>0, <2>1, <2>2, <2>3, NamedPushed
<1>6. ASSUME NEW m \in Message, InBlocks, messages' = Append(messages, m),
             m.role # "assistant", next_id' = next_id, block' = block + 1, pc' = pc,
             assistant_message[block].type # "text",
             \A j \in 1..Len(m.blocks) : m.blocks[j].id = assistant_message[block].id
      PROVE  NamedInv'
  <2>1. assistant_message[block].id = Handled + 1
    BY <1>6, HandNamed
  <2>2. Handled' = Handled + 1
    BY <1>6, NextBlock
  <2>3. Handled + 1 <= next_id
    <3>1. InHand /\ Len(assistant_message) \in Nat
      BY <1>6, TurnsParts, HandTyped DEF InBlocks
    <3> QED BY <1>0, <1>6, <3>1 DEF InHand, InBlocks, Handled
  <2> QED BY <1>0, <1>6, <2>1, <2>2, <2>3, NamedPushed
<1>7. CASE handle_tool_use
  <2> DEFINE id == assistant_message[block].id
             m == tool_result(id)
  <2>1. /\ InBlocks /\ assistant_message[block].type # "text"
        /\ messages' = Append(messages, m)
        /\ next_id' = next_id /\ block' = block + 1 /\ pc' = pc
    BY <1>7 DEF handle_tool_use, Tools, push
  <2>2. id \in 0..MaxIds
    BY <1>0, <2>1, HandNamed
  <2>3. m \in Message /\ m.role # "assistant" /\ \A j \in 1..Len(m.blocks) : m.blocks[j].id = id
    <3> HIDE DEF id
    <3> QED BY <2>2, PushedTyped
  <2> HIDE DEF m
  <2> QED BY <2>1, <2>3, <1>6
<1>8. CASE handle_user_input_request
  <2> DEFINE id == assistant_message[block].id
             m == user_input_response(id)
  <2>1. CASE Return("pending") /\ UNCHANGED session
    BY <1>8, <2>1, ReturnNamed DEF handle_user_input_request, session, Return
  <2>2. CASE messages' = Append(messages, m) /\ block' = block + 1 /\ pc' = pc
    <3>1. /\ InBlocks /\ assistant_message[block].type # "text" /\ next_id' = next_id
      BY <1>8 DEF handle_user_input_request
    <3>2. id \in 0..MaxIds
      BY <1>0, <3>1, HandNamed
    <3>3. m \in Message /\ m.role # "assistant" /\ \A j \in 1..Len(m.blocks) : m.blocks[j].id = id
      <4> HIDE DEF id
      <4> QED BY <3>2, PushedTyped
    <3> HIDE DEF m
    <3> QED BY <2>2, <3>1, <3>3, <1>6
  <2> QED
    BY <1>8, <2>1, <2>2 DEF handle_user_input_request, resolve_user_input_request, push
<1>9. CASE skip_text
  <2>1. InBlocks /\ messages' = messages /\ next_id' = next_id /\ block' = block + 1 /\ pc' = pc
    BY <1>9 DEF skip_text, session
  <2>2. Handled' \in Nat /\ Handled <= Handled'
    BY <2>1, NextBlock
  <2> QED BY <2>1, <2>2, NamedSame
<1>10. CASE end_of_blocks
  BY <1>10, ReturnNamed DEF end_of_blocks, session, Return
<1>11. CASE compact_session
  <2>1. next_id' = next_id /\ Handled' = next_id
    BY <1>11 DEF compact_session, turn, Handled
  <2>2. ASSUME NEW b \in Blocks(messages')
        PROVE  b[2].id <= next_id
    <3>1. CASE b[2] = [type |-> "text", id |-> 0]
      BY <1>0, <3>1
    <3>2. CASE \E c \in Blocks(messages) : c[2] = b[2]
      BY <3>2 DEF NamedInv
    <3> QED BY <1>11, <3>1, <3>2, BlocksCompacted
  <2> QED BY <2>1, <2>2 DEF NamedInv
<1> QED
  BY <1>1, <1>2, <1>3, <1>4, <1>5, <1>7, <1>8, <1>9, <1>10, <1>11 DEF Next, Step

LEMMA NamedStutter ==
  ASSUME NamedInv, UNCHANGED vars
  PROVE  NamedInv'
BY DEF vars, session, turn, NamedInv, Handled, assistant_message

-----------------------------------------------------------------------------
(* What is open.                                                           *)
Calls == Tools \cup {"ask"}
OneQuestion == \A a, b \in Unanswered : /\ a[2].type = "ask" /\ a[2].id > 0
                                        /\ a[2].id = b[2].id

LEMMA AnsweredParts ==
  ASSUME AnsweredInv
  PROVE  /\ pc = "stream" => Unanswered = {}
         /\ pc \in {"idle", "pending"} => OneQuestion
         /\ pc = "blocks" =>
              /\ \A j \in 1..(Len(assistant_message) - 1) :
                   assistant_message[j].type # "ask"
              /\ \A b \in Unanswered : \E j \in block..Len(assistant_message) :
                   b[2] = assistant_message[j]
BY DEF AnsweredInv, OneQuestion

(* A turn that stops, or goes back to the top, with one question open.     *)
LEMMA StopAnswered ==
  ASSUME messages' = messages, pc' \in {"idle", "pending"}, OneQuestion
  PROVE  AnsweredInv'
BY DEF AnsweredInv, Unanswered, OneQuestion

LEMMA NothingOpen ==
  ASSUME Unanswered = {}
  PROVE  OneQuestion /\ pending_user_input_request = 0
<1>1. Open(messages, {"ask"}) = {}
  BY DEF Unanswered, Open
<1> QED
  BY <1>1 DEF OneQuestion, pending_user_input_request

(* Without a pending question nothing is open at the top of the loop.      *)
LEMMA NonePending ==
  ASSUME TurnsInv, OneQuestion
  PROVE  /\ pending_user_input_request = 0 => Unanswered = {}
         /\ \A b \in Unanswered : b[2].id = pending_user_input_request
                                  /\ b[2].type = "ask"
<1>1. messages \in Seq(Message)
  BY TurnsParts
<1>2. \A b \in Unanswered : b \in Open(messages, {"ask"})
  BY DEF Unanswered, Open, OneQuestion
<1>3. \A b \in Open(messages, {"ask"}) : b \in Unanswered
  BY DEF Unanswered, Open
<1>4. ASSUME NEW b \in Unanswered
      PROVE  b[2].id = pending_user_input_request /\ b[2].id > 0 /\ b[2].type = "ask"
  <2>1. PICK c \in Open(messages, {"ask"}) : pending_user_input_request = c[2].id
    BY <1>1, <1>2, PendingOpen
  <2> QED BY <2>1, <1>3 DEF OneQuestion
<1> QED
  BY <1>4

(* Among the blocks: a question comes last, so that it alone is open.      *)
LEMMA QuestionLeft ==
  ASSUME TurnsInv, NamedInv, AnsweredInv, InBlocks, assistant_message[block].type = "ask"
  PROVE  OneQuestion /\ pending_user_input_request # 0
<1>1. /\ InHand /\ Len(assistant_message) \in Nat /\ pc = "blocks"
      /\ messages \in Seq(Message)
  BY TurnsParts, HandTyped DEF InBlocks
<1>2. block \in 1..Len(assistant_message)
  BY <1>1 DEF InHand, InBlocks
<1>3. block = Len(assistant_message)
  <2>1. block \in 1..(Len(assistant_message) - 1) => FALSE
    BY <1>1, AnsweredParts
  <2> QED BY <2>1, <1>1, <1>2
<1>4. \A b \in Unanswered : b[2] = assistant_message[block]
  BY <1>1, <1>3, AnsweredParts
<1>5. assistant_message[block].id = Handled + 1 /\ Handled \in Nat
  BY HandNamed, HandledBound
<1>6. OneQuestion
  BY <1>4, <1>5 DEF OneQuestion
<1>7. PICK k \in 1..Len(messages) : assistant_message = messages[k].blocks
  BY <1>1, HandTyped
<1> DEFINE q == <<k, assistant_message[block]>>
<1>8. q \in Blocks(messages) /\ q[2] = assistant_message[block]
  BY <1>2, <1>7 DEF Blocks
<1>9. \A a \in Blocks(messages) : ~Answers(q, a)
  <2> SUFFICES ASSUME NEW a \in Blocks(messages), Answers(q, a) PROVE FALSE
    OBVIOUS
  <2>1. a[2].id = Handled + 1 /\ a[2].type = "response"
    BY <1>5, <1>8 DEF Answers
  <2> QED BY <2>1, <1>5 DEF NamedInv
<1>10. q \in Open(messages, {"ask"}) /\ q \in Unanswered
  <2> HIDE DEF q
  <2> QED BY <1>8, <1>9 DEF Open, Unanswered
<1>11. q[2].id = pending_user_input_request
  BY <1>6, <1>10, NonePending
<1> QED
  BY <1>5, <1>6, <1>8, <1>11

(* After the last block nothing is open.                                   *)
LEMMA BlocksOver ==
  ASSUME TurnsInv, AnsweredInv, pc = "blocks", ~InBlocks
  PROVE  Unanswered = {}
<1>1. InHand /\ Len(assistant_message) \in Nat
  BY TurnsParts, HandTyped
<1>2. block > Len(assistant_message) /\ block \in Nat
  BY <1>1 DEF InBlocks, InHand
<1>3. \A b \in Unanswered : \E j \in block..Len(assistant_message) :
         b[2] = assistant_message[j]
  BY AnsweredParts
<1> QED
  BY <1>1, <1>2, <1>3

(* A block that was handled is no longer open.                             *)
LEMMA BlockAnswered ==
  ASSUME TurnsInv, AnsweredInv, InBlocks, block' = block + 1, pc' = pc,
         assistant_message' = assistant_message,
         \A b \in Unanswered' : b \in Unanswered /\ b[2] # assistant_message[block]
  PROVE  AnsweredInv'
<1>1. pc = "blocks" /\ InHand /\ Len(assistant_message) \in Nat /\ block \in Nat
  BY TurnsParts, HandTyped DEF InBlocks, InHand
<1>2. /\ \A j \in 1..(Len(assistant_message) - 1) : assistant_message[j].type # "ask"
      /\ \A b \in Unanswered : \E j \in block..Len(assistant_message) :
           b[2] = assistant_message[j]
  BY <1>1, AnsweredParts
<1>3. ASSUME NEW b \in Unanswered'
      PROVE  \E j \in block'..Len(assistant_message) : b[2] = assistant_message[j]
  <2>1. PICK j \in block..Len(assistant_message) : b[2] = assistant_message[j]
    BY <1>2
  <2>2. j # block
    BY <2>1
  <2> QED BY <2>1, <2>2, <1>1
<1> QED
  BY <1>1, <1>2, <1>3 DEF AnsweredInv

(* A block in hand that is answered by what is pushed.                     *)
LEMMA AnswerPushed ==
  ASSUME TurnsInv, AnsweredInv, InBlocks, NEW m \in Message,
         messages' = Append(messages, m), m.role # "assistant",
         block' = block + 1, pc' = pc, next_id' = next_id, Len(m.blocks) = 1,
         m.blocks[1].id = assistant_message[block].id,
         m.blocks[1].type \notin Calls,
         m.blocks[1].type = (IF assistant_message[block].type = "ask"
                             THEN "response" ELSE "tool_result")
  PROVE  AnsweredInv'
<1>1. messages \in Seq(Message) /\ assistant_message' = assistant_message
  BY TurnsParts, NextBlock
<1>2. ASSUME NEW b \in Unanswered'
      PROVE  b \in Unanswered /\ b[2] # assistant_message[block]
  <2>1. b \in Open(Append(messages, m), Calls)
    BY DEF Unanswered, Calls
  <2>2. /\ b[2].type \in Calls
        /\ \/ /\ b \in Open(messages, Calls)
              /\ ~ /\ m.blocks[1].id = b[2].id
                   /\ m.blocks[1].type =
                        (IF b[2].type = "ask" THEN "response" ELSE "tool_result")
           \/ b[2] = m.blocks[1]
    BY <1>1, <2>1, OpenPushed
  <2> QED BY <2>2 DEF Unanswered, Calls
<1> QED
  BY <1>1, <1>2, BlockAnswered

LEMMA AnsweredStep ==
  ASSUME AskLast, TurnsInv, NamedInv, AnsweredInv, Next
  PROVE  AnsweredInv'
<1>0. /\ messages \in Seq(Message) /\ MaxIds \in Nat /\ 0 \in 0..MaxIds
  BY TurnsParts, ConversationAssumption
<1>1. ASSUME NEW p \in TurnResponders, run_turn(p)
      PROVE  AnsweredInv'
  <2>1. /\ pc = "idle" /\ pc' = "pending" /\ messages' = Append(messages, user_text)
        /\ user_text \in Message
        /\ \A j \in 1..Len(user_text.blocks) : user_text.blocks[j].type = "text"
    BY <1>0, <1>1, PushedTyped DEF run_turn, push
  <2>2. OneQuestion
    BY <2>1, AnsweredParts
  <2>3. ASSUME NEW b \in Unanswered' PROVE b \in Unanswered
    <3>1. b \in Open(Append(messages, user_text), Calls)
      BY <2>1, <2>3 DEF Unanswered, Calls
    <3>2. b[2].type \in Calls /\ (b \in Open(messages, Calls) \/ b[2].type = "text")
      BY <1>0, <2>1, <3>1, OpenPushed
    <3> QED BY <3>2 DEF Unanswered, Calls, Tools
  <2> QED BY <2>1, <2>2, <2>3 DEF AnsweredInv, OneQuestion
<1>2. ASSUME NEW p \in ResumeResponders, resume_pending_turn(p)
      PROVE  AnsweredInv'
  <2>1. OneQuestion /\ messages' = messages /\ pc' \in {"idle", "pending"}
    BY <1>2, AnsweredParts DEF resume_pending_turn, session, Return
  <2> QED BY <2>1, StopAnswered
<1>3. CASE resolve_pending
  <2> DEFINE id == pending_user_input_request
             m == user_input_response(id)
  <2>1. OneQuestion
    BY <1>3, AnsweredParts DEF resolve_pending
  <2>2. CASE Return("pending") /\ UNCHANGED session
    BY <2>1, <2>2, StopAnswered DEF Return, session
  <2>3. CASE id # 0 /\ messages' = Append(messages, m) /\ pc' = "stream"
    <3>1. id \in 0..MaxIds /\ \A b \in Unanswered : b[2].id = id /\ b[2].type = "ask"
      BY <1>0, <2>1, PendingTyped, NonePending
    <3> HIDE DEF id
    <3>2. m \in Message /\ Len(m.blocks) = 1 /\ m.blocks[1].id = id
          /\ m.blocks[1].type = "response"
      BY <3>1, PushedTyped
    <3> HIDE DEF m
    <3>3. ASSUME NEW b \in Unanswered' PROVE FALSE
      <4>1. b \in Open(Append(messages, m), Calls)
        BY <2>3, <3>3 DEF Unanswered, Calls
      <4>2. /\ b[2].type \in Calls
            /\ \/ /\ b \in Open(messages, Calls)
                  /\ ~ /\ m.blocks[1].id = b[2].id
                       /\ m.blocks[1].type =
                            (IF b[2].type = "ask" THEN "response" ELSE "tool_result")
               \/ b[2] = m.blocks[1]
        BY <1>0, <3>2, <4>1, OpenPushed
      <4>3. b[2] # m.blocks[1]
        BY <3>2, <4>2 DEF Calls, Tools
      <4>4. b \in Unanswered
        BY <4>2, <4>3 DEF Unanswered, Calls
      <4> QED BY <3>1, <3>2, <4>2, <4>3, <4>4
    <3> QED BY <2>3, <3>3 DEF AnsweredInv
  <2>4. CASE id = 0 /\ messages' = messages /\ pc' = "stream"
    <3>1. Unanswered = {}
      BY <2>1, <2>4, NonePending
    <3> QED BY <2>4, <3>1 DEF AnsweredInv, Unanswered
  <2> QED
    BY <1>3, <2>2, <2>3, <2>4
       DEF resolve_pending, resolve_user_input_request, push, session
<1>4. CASE give_up \/ stream_fails
  <2>1. pc = "stream" /\ pc' = "idle" /\ messages' = messages
    BY <1>4 DEF give_up, stream_fails, session, Return
  <2> QED BY <2>1, AnsweredParts, NothingOpen, StopAnswered
<1>5. ASSUME NEW reply \in Replies, NEW usage \in {0, 1}, stream(reply, usage)
      PROVE  AnsweredInv'
  <2>1. Len(reply) \in Nat /\ pc' = "blocks" /\ block' = 1
    BY <1>5, Streamed
  <2>2. PICK m \in Message :
          /\ messages' = Append(messages, m) /\ Len(m.blocks) = Len(reply)
          /\ assistant_message' = m.blocks
          /\ \A j \in 1..Len(reply) : m.blocks[j].type = reply[j]
    BY <1>5, Streamed
  <2>3. Unanswered = {}
    BY <1>5, AnsweredParts DEF stream
  <2>4. ASSUME NEW b \in Unanswered'
        PROVE  \E j \in 1..Len(m.blocks) : b[2] = m.blocks[j]
    <3>1. b \in Open(Append(messages, m), Calls)
      BY <2>2, <2>4 DEF Unanswered, Calls
    <3>2. \/ b \in Open(messages, Calls)
          \/ \E j \in 1..Len(m.blocks) : b[2] = m.blocks[j]
      BY <1>0, <3>1, OpenPushed
    <3> QED BY <2>3, <3>2 DEF Unanswered, Calls
  <2>5. \A j \in 1..(Len(m.blocks) - 1) : m.blocks[j].type # "ask"
    BY <2>1, <2>2 DEF AskLast
  <2> QED BY <2>1, <2>2, <2>4, <2>5 DEF AnsweredInv
<1>6. CASE handle_tool_use
  <2> DEFINE id == assistant_message[block].id
             m == tool_result(id)
  <2>1. /\ InBlocks /\ assistant_message[block].type # "text"
        /\ assistant_message[block].type # "ask" /\ messages' = Append(messages, m)
        /\ next_id' = next_id /\ block' = block + 1 /\ pc' = pc
    BY <1>6 DEF handle_tool_use, Tools, push
  <2>2. id \in 0..MaxIds
    BY <1>0, <2>1, HandNamed
  <2>3. /\ m \in Message /\ m.role # "assistant" /\ Len(m.blocks) = 1
        /\ m.blocks[1].id = id /\ m.blocks[1].type = "tool_result"
    <3> HIDE DEF id
    <3> QED BY <2>2, PushedTyped
  <2> HIDE DEF m
  <2>4. m.blocks[1].type \notin Calls
    BY <2>3 DEF Calls, Tools
  <2> QED BY <2>1, <2>3, <2>4, AnswerPushed
<1>7. CASE handle_user_input_request
  <2> DEFINE id == assistant_message[block].id
             m == user_input_response(id)
  <2>1. InBlocks /\ assistant_message[block].type = "ask" /\ next_id' = next_id
    BY <1>7 DEF handle_user_input_request
  <2>2. CASE Return("pending") /\ UNCHANGED session
    BY <2>1, <2>2, QuestionLeft, StopAnswered DEF Return, session
  <2>3. CASE messages' = Append(messages, m) /\ block' = block + 1 /\ pc' = pc
    <3>1. id \in 0..MaxIds
      BY <1>0, <2>1, HandNamed
    <3>2. /\ m \in Message /\ m.role # "assistant" /\ Len(m.blocks) = 1
          /\ m.blocks[1].id = id /\ m.blocks[1].type = "response"
      <4> HIDE DEF id
      <4> QED BY <3>1, PushedTyped
    <3> HIDE DEF m
    <3>3. m.blocks[1].type \notin Calls
      BY <3>2 DEF Calls, Tools
    <3> QED BY <2>1, <2>3, <3>2, <3>3, AnswerPushed
  <2> QED
    BY <1>7, <2>2, <2>3 DEF handle_user_input_request, resolve_user_input_request, push
<1>8. CASE skip_text
  <2>1. /\ InBlocks /\ messages' = messages /\ next_id' = next_id /\ block' = block + 1
        /\ pc' = pc /\ assistant_message[block].type = "text"
    BY <1>8 DEF skip_text, session
  <2>2. \A b \in Unanswered : b[2].type \in Calls
    BY DEF Unanswered, Open, Calls
  <2>3. \A b \in Unanswered' : b \in Unanswered /\ b[2] # assistant_message[block]
    BY <2>1, <2>2 DEF Unanswered, Calls, Tools
  <2>4. assistant_message' = assistant_message
    BY <2>1 DEF assistant_message
  <2> QED BY <2>1, <2>3, <2>4, BlockAnswered
<1>9. CASE end_of_blocks
  <2>1. pc = "blocks" /\ ~InBlocks /\ messages' = messages /\ pc' \in {"idle", "pending"}
    BY <1>9 DEF end_of_blocks, session, Return
  <2> QED BY <2>1, BlocksOver, NothingOpen, StopAnswered
<1>10. CASE compact_session
  <2>1. pc = "idle" /\ pc' = "idle"
    BY <1>10 DEF compact_session, turn
  <2>2. OneQuestion
    BY <2>1, AnsweredParts
  <2>3. ASSUME NEW b \in Unanswered'
        PROVE  \E c \in Unanswered : c[2] = b[2]
    <3>1. b \in Blocks(messages') /\ b[2].type \in Calls /\ b \in Open(messages', Calls)
      BY <2>3 DEF Unanswered, Open, Calls
    <3>2. b[2] # [type |-> "text", id |-> 0]
      BY <3>1 DEF Calls, Tools
    <3>3. PICK c \in Blocks(messages) :
            c[2] = b[2] /\ (b \in Open(messages', Calls) => c \in Open(messages, Calls))
      BY <1>10, <3>1, <3>2, BlocksCompacted
    <3> QED BY <3>1, <3>3 DEF Unanswered, Calls
  <2> QED BY <2>1, <2>2, <2>3 DEF AnsweredInv, OneQuestion
<1> QED
  BY <1>1, <1>2, <1>3, <1>4, <1>5, <1>6, <1>7, <1>8, <1>9, <1>10 DEF Next, Step

LEMMA AnsweredStutter ==
  ASSUME AnsweredInv, UNCHANGED vars
  PROVE  AnsweredInv'
<1>1. /\ pc' = pc /\ block' = block /\ Unanswered' = Unanswered
      /\ assistant_message' = assistant_message
  BY DEF vars, session, turn, Unanswered, assistant_message
<1> QED
  BY <1>1 DEF AnsweredInv

(* What a turn that ends says of the question it leaves.                   *)
LEMMA OutcomeStep ==
  ASSUME TurnsInv, NamedInv, AnsweredInv, Next,
         pc' = "idle", pc # "idle" \/ result' # result
  PROVE  result' = "pending" <=> pending_user_input_request' # 0
<1>0. messages' = messages =>
        pending_user_input_request' = pending_user_input_request
  BY DEF pending_user_input_request
<1>1. CASE \E p \in TurnResponders : run_turn(p)
  BY <1>1 DEF run_turn
<1>2. CASE \E p \in ResumeResponders : resume_pending_turn(p)
  BY <1>0, <1>2 DEF resume_pending_turn, session, Return
<1>3. CASE resolve_pending
  BY <1>0, <1>3 DEF resolve_pending, resolve_user_input_request, session, Return
<1>4. CASE give_up \/ stream_fails
  <2>1. pc = "stream" /\ messages' = messages /\ result' = "error"
    BY <1>4 DEF give_up, stream_fails, session, Return
  <2> QED BY <1>0, <2>1, AnsweredParts, NothingOpen
<1>5. CASE \E reply \in Replies, usage \in {0, 1} : stream(reply, usage)
  BY <1>5 DEF stream
<1>6. CASE handle_tool_use
  BY <1>6 DEF handle_tool_use, InBlocks
<1>7. CASE handle_user_input_request
  <2>1. InBlocks /\ pc = "blocks" /\ assistant_message[block].type = "ask"
    BY <1>7 DEF handle_user_input_request, InBlocks
  <2>2. messages' = messages /\ result' = "pending"
    BY <1>7, <2>1 DEF handle_user_input_request, resolve_user_input_request, session, Return
  <2> QED BY <1>0, <2>1, <2>2, QuestionLeft
<1>8. CASE skip_text
  BY <1>8 DEF skip_text, InBlocks
<1>9. CASE end_of_blocks
  <2>1. pc = "blocks" /\ ~InBlocks /\ messages' = messages /\ result' = "ok"
    BY <1>9 DEF end_of_blocks, session, Return
  <2> QED BY <1>0, <2>1, BlocksOver, NothingOpen
<1>10. CASE compact_session
  BY <1>10 DEF compact_session, turn
<1> QED
  BY <1>1, <1>2, <1>3, <1>4, <1>5, <1>6, <1>7, <1>8, <1>9, <1>10 DEF Next, Step

-----------------------------------------------------------------------------
(* The calls of a conversation run at most once and in the order in which  *)
(* the model made them, whatever it replies, across failed, resumed and    *)
(* compacted turns (ConversationRuntime::continue_turn).                   *)
THEOREM CallsRunOnce == MCSpec => [](part = "turns" => TypeOK /\ ExecutedOnceInOrder)
<1>1. (part = "turns" => TurnsInv) => (part = "turns" => TypeOK /\ ExecutedOnceInOrder)
  BY DEF TurnsInv
<1> QED
  BY <1>1, TurnsHold, PTL

ConversationInv == TurnsInv /\ NamedInv /\ AnsweredInv

LEMMA ConversationHolds ==
  ASSUME AskLast
  PROVE  MCSpec => [](part = "turns" => ConversationInv)
<1>1. MCInit => (part = "turns" => ConversationInv)
  <2> SUFFICES ASSUME MCInit, part = "turns" PROVE ConversationInv
    OBVIOUS
  <2>1. Init
    BY DEF MCInit
  <2>2. Blocks(messages) = {}
    BY <2>1 DEF Init, Blocks
  <2>3. AnsweredInv
    BY <2>1, <2>2 DEF Init, AnsweredInv, Unanswered, Open
  <2> QED BY <2>1, <2>2, <2>3, TurnsStart DEF ConversationInv, NamedInv
<1>2. (part = "turns" => ConversationInv) /\
      [MCNext]_<<part, vars, filesVars, bashVars, toolsVars, browserVars, agentVars, lspVars,
                 argsVars, editorVars, installVars, onboardVars, configVars>>
        => (part = "turns" => ConversationInv)'
  <2> SUFFICES ASSUME part = "turns" => ConversationInv,
                      [MCNext]_<<part, vars, filesVars, bashVars, toolsVars, browserVars,
                                 agentVars, lspVars, argsVars, editorVars, installVars,
                                 onboardVars, configVars>>,
                      part' = "turns"
               PROVE  ConversationInv'
    OBVIOUS
  <2>1. part = "turns" /\ (Next \/ UNCHANGED vars)
    BY DEF MCNext
  <2>2. TurnsInv /\ NamedInv /\ AnsweredInv
    BY <2>1 DEF ConversationInv
  <2>3. CASE Next
    BY <2>2, <2>3, TurnsStep, NamedStep, AnsweredStep DEF ConversationInv
  <2>4. CASE UNCHANGED vars
    BY <2>2, <2>4, TurnsStutter, NamedStutter, AnsweredStutter DEF ConversationInv
  <2> QED BY <2>1, <2>3, <2>4
<1> QED
  BY <1>1, <1>2, PTL DEF MCSpec

(* If the model asks at the end of a reply only: whenever it is called,    *)
(* all its calls and questions were answered, and no call runs twice or    *)
(* out of order (ConversationRuntime::continue_turn, Session).             *)
THEOREM ConversationSafe ==
  ASSUME AskLast
  PROVE  MCSpec => []ConversationSound
<1>1. (part = "turns" => ConversationInv) => ConversationSound
  BY DEF ConversationInv, TurnsInv, AnsweredInv, ConversationSound, CallsAnswered, Unanswered
<1> QED
  BY <1>1, ConversationHolds, PTL

(* Then, too, a turn reports a pending question exactly when it leaves     *)
(* one (the thread server derives the status from the session and the      *)
(* event from the result).                                                 *)
THEOREM OutcomesAgree ==
  ASSUME AskLast
  PROVE  MCSpec => OutcomeAgrees
<1> DEFINE Agrees == pc' = "idle" /\ (pc # "idle" \/ result' # result) =>
                       (result' = "pending" <=> pending_user_input_request' # 0)
<1>1. (part = "turns" => ConversationInv) /\
      [MCNext]_<<part, vars, filesVars, bashVars, toolsVars, browserVars, agentVars, lspVars,
                 argsVars, editorVars, installVars, onboardVars, configVars>>
        => [Agrees]_vars
  BY OutcomeStep DEF MCNext, ConversationInv
<1> QED
  BY <1>1, ConversationHolds, PTL DEF MCSpec, OutcomeAgrees

-----------------------------------------------------------------------------
(***************************************************************************)
(* Sub-agents and the Session tools.                                       *)
(***************************************************************************)
(* What holds of one agent.                                                *)
AgentOK(a) ==
  /\ FilesFollow(a)
  /\ manifest[a] = "completed" => job[a].outcome \in {"text", "question"}
  /\ manifest[a] = "failed" => job[a].outcome \notin {"text", "question"} \/ botched[a]
  /\ manifest[a] = "running" => job[a].at # "over" \/ botched[a]
  /\ changed[a] => job[a].type \notin {"Explore", "Plan", "openyak-guide"}

LEMMA AgentsParts ==
  ASSUME AgentsInv
  PROVE  /\ AgentTypeOK /\ \A a \in Agents : AgentOK(a)
         /\ Starting /\ RecordsRead /\ RunStops /\ EndComesWithResult /\ WaitFollowsSend
BY DEF AgentsInv, AgentsSound, AgentOK, ManifestTruthful, ReadersDoNotWrite

LEMMA AgentsMade ==
  ASSUME AgentTypeOK', \A a \in Agents : AgentOK(a)', Starting', RecordsRead', RunStops',
         EndComesWithResult', WaitFollowsSend'
  PROVE  AgentsInv'
BY DEF AgentsInv, AgentsSound, AgentOK, ManifestTruthful, ReadersDoNotWrite

(* The types of a step that leaves the agents alone, and of one of them.   *)
Records == [at : {"none", "truncate", "write", "spawn", "run", "append", "over", "dead"},
            type : {"none"} \cup {normalize_subagent_type(t) : t \in UNION {z.types : z \in Scopes}},
            status : {"none", "completed", "failed"},
            outcome : {"none", "spawn", "text", "question", "error", "panic"}]

(* Another agent's step changes nothing here.                              *)
LEMMA OthersOK ==
  ASSUME AgentsInv, NEW a \in Agents,
         \A q \in Agents \ {a} : /\ manifest'[q] = manifest[q] /\ output'[q] = output[q]
                                 /\ job'[q] = job[q] /\ changed'[q] = changed[q]
                                 /\ botched'[q] = botched[q],
         AgentOK(a)'
  PROVE  \A q \in Agents : AgentOK(q)'
<1>1. ASSUME NEW q \in Agents \ {a} PROVE AgentOK(q)'
  BY AgentsParts DEF AgentOK, FilesFollow, Ended
<1> QED
  BY <1>1

(* The records read so far, when an agent takes a step.                    *)
LEMMA RecordsKept ==
  ASSUME AgentsInv,
         \/ op'.seen = {} /\ op'.left = {}
         \/ /\ op' = op \/ (op'.seen = op.seen /\ op'.left = op.left /\ op.at # "output")
            /\ \A a \in Agents : /\ job[a] # NoJob => job'[a] # NoJob
                                 /\ Ended(a) => manifest'[a] = manifest[a]
                                 /\ manifest[a] # "absent" => manifest'[a] # "absent"
  PROVE  RecordsRead'
<1>1. CASE op'.seen = {} /\ op'.left = {}
  BY <1>1 DEF RecordsRead
<1>2. CASE /\ op' = op \/ (op'.seen = op.seen /\ op'.left = op.left /\ op.at # "output")
           /\ \A a \in Agents : /\ job[a] # NoJob => job'[a] # NoJob
                                /\ Ended(a) => manifest'[a] = manifest[a]
                                /\ manifest[a] # "absent" => manifest'[a] # "absent"
  <2>1. \A r \in op.seen : r.id \in Agents
    BY AgentsParts DEF AgentTypeOK, AgentRecord
  <2>2. \A r \in op.seen : job'[r.id] # NoJob
    BY <1>2, <2>1, AgentsParts DEF RecordsRead
  <2>3. ASSUME NEW r \in op.seen, r.output = <<>>, r.status \in {"completed", "failed"}
        PROVE  manifest'[r.id] = r.status
    <3>1. manifest[r.id] = r.status
      BY <2>3, AgentsParts DEF RecordsRead
    <3> QED BY <1>2, <2>1, <2>3, <3>1 DEF Ended
  <2>4. \A a \in op'.left : manifest'[a] # "absent"
    BY <1>2, AgentsParts DEF RecordsRead, AgentTypeOK
  <2> QED BY <1>2, <2>2, <2>3, <2>4, AgentsParts DEF RecordsRead
<1> QED
  BY <1>1, <1>2

(* What was answered stays, or says neither of ended records nor of a      *)
(* thread.                                                                 *)
LEMMA AnswerKept ==
  ASSUME AgentsInv, own' = own, stopped' = stopped,
         \/ replied' = replied
         \/ replied'.is \notin {"listed", "waited"}
  PROVE  EndComesWithResult' /\ WaitFollowsSend'
BY AgentsParts DEF EndComesWithResult, WaitFollowsSend

LEMMA AgentTypes ==
  ASSUME AgentsInv
  PROVE  /\ manifest \in [Agents -> AgentStatuses \cup {"absent", "torn"}]
         /\ output \in [Agents -> Seq(Sections)] /\ job \in [Agents -> Records]
         /\ changed \in [Agents -> BOOLEAN] /\ botched \in [Agents -> BOOLEAN]
         /\ scope \in Scopes /\ scope.agents \subseteq Agents
         /\ DOMAIN op = DOMAIN NoOp
BY AgentsAssumption, AgentsParts DEF AgentTypeOK, Records

(* Appending the end to an output says it last.                            *)
LEMMA SaidLast ==
  ASSUME NEW out \in Seq(Sections), NEW end \in {"completed", "failed"}
  PROVE  Append(out, end) \in Seq(Sections) /\ SaysLast(Append(out, end), end)
<1>1. end \in Sections
  BY DEF Sections
<1>2. /\ Append(out, end) \in Seq(Sections) /\ Len(Append(out, end)) = Len(out) + 1
      /\ Append(out, end)[Len(out) + 1] = end /\ Len(out) \in Nat
  BY <1>1, Pushed
<1> QED
  BY <1>2 DEF SaysLast

LEMMA StartAgent ==
  ASSUME AgentsInv, NEW a \in scope.agents, NEW t \in scope.types, execute_agent_start(a, t),
         UNCHANGED scope
  PROVE  AgentsInv'
<1>0. /\ a \in Agents /\ job[a] = NoJob /\ op = NoOp
      /\ UNCHANGED <<manifest, changed, botched, filesOnly>>
  BY AgentTypes DEF execute_agent_start
<1>1. CASE ends(error("store")) /\ UNCHANGED <<output, job>>
  <2>1. op' = op /\ replied'.is = "error"
    BY <1>0, <1>1 DEF ends, error
  <2>2. AgentTypeOK' /\ (\A q \in Agents : AgentOK(q)') /\ Starting' /\ RunStops'
    BY <1>0, <1>1, <2>1, AgentsParts
       DEF AgentTypeOK, AgentOK, FilesFollow, Ended, Starting, RunStops, filesOnly
  <2>3. RecordsRead' /\ EndComesWithResult' /\ WaitFollowsSend'
    BY <1>0, <1>1, <2>1, RecordsKept, AnswerKept DEF filesOnly
  <2> QED BY <2>2, <2>3, AgentsMade
<1>2. CASE /\ output' = [output EXCEPT ![a] = <<"task">>]
           /\ job' = [job EXCEPT ![a] = [NoJob EXCEPT !.at = "truncate",
                                                      !.type = normalize_subagent_type(t)]]
           /\ op' = [NoOp EXCEPT !.tool = "Agent", !.id = a, !.at = "starting"]
           /\ UNCHANGED replied
  <2> DEFINE jb == [NoJob EXCEPT !.at = "truncate", !.type = normalize_subagent_type(t)]
  <2>1. /\ job' = [job EXCEPT ![a] = jb] /\ op'.seen = {} /\ op'.left = {} /\ op'.id = a
        /\ DOMAIN op' = DOMAIN NoOp /\ op'.at = "starting"
    <3>1. /\ op'.seen = {} /\ op'.left = {} /\ op'.id = a
          /\ DOMAIN op' = DOMAIN NoOp /\ op'.at = "starting"
      BY <1>2 DEF NoOp
    <3> QED BY <1>2, <3>1
  <2>2. t \in UNION {z.types : z \in Scopes}
    BY AgentTypes
  <2>3. jb \in Records /\ jb.status = "none" /\ jb.at = "truncate" /\ jb # NoJob
    <3>1. NoJob \in Records
      BY DEF Records, NoJob
    <3>2. normalize_subagent_type(t) \in
            {"none"} \cup {normalize_subagent_type(u) : u \in UNION {z.types : z \in Scopes}}
      BY <2>2
    <3>3. jb \in Records
      BY <3>1, <3>2 DEF Records
    <3> QED BY <3>3 DEF NoJob
  <2> HIDE DEF jb
  <2>4. job' \in [Agents -> Records] /\ job'[a] = jb
        /\ \A q \in Agents \ {a} : job'[q] = job[q]
    BY <2>1, <2>3, <1>0, AgentTypes
  <2>5. output' \in [Agents -> Seq(Sections)] /\ output'[a] # <<>>
        /\ \A q \in Agents \ {a} : output'[q] = output[q]
    <3>1. <<"task">> \in Seq(Sections) /\ <<"task">> # <<>>
      BY DEF Sections
    <3> QED BY <3>1, <1>0, <1>2, AgentTypes
  <2>6. AgentTypeOK'
    BY <1>0, <2>1, <2>4, <2>5, AgentsParts DEF AgentTypeOK, Records, filesOnly
  <2>7. AgentOK(a)'
    BY <1>0, <2>3, <2>4, <2>5, AgentsParts DEF AgentOK, FilesFollow, Ended
  <2>8. \A q \in Agents : AgentOK(q)'
    BY <1>0, <2>4, <2>5, <2>7, OthersOK
  <2>9. Starting' /\ RunStops'
    BY <1>0, <2>1, <2>3, <2>4, AgentsParts DEF Starting, RunStops, filesOnly
  <2>10. RecordsRead' /\ EndComesWithResult' /\ WaitFollowsSend'
    BY <1>0, <1>2, <2>1, RecordsKept, AnswerKept DEF filesOnly
  <2> QED BY <2>6, <2>8, <2>9, <2>10, AgentsMade
<1> QED
  BY <1>1, <1>2 DEF execute_agent_start

(* A step of one agent: what it has to show.                               *)
LEMMA AgentMoves ==
  ASSUME AgentsInv, NEW a \in Agents, UNCHANGED <<scope, filesOnly>>,
         NEW jb \in Records, job[a] # NoJob, jb # NoJob, job' = [job EXCEPT ![a] = jb],
         manifest' \in [Agents -> AgentStatuses \cup {"absent", "torn"}],
         output' \in [Agents -> Seq(Sections)],
         changed' \in [Agents -> BOOLEAN], botched' \in [Agents -> BOOLEAN],
         \A q \in Agents \ {a} : /\ manifest'[q] = manifest[q] /\ output'[q] = output[q]
                                 /\ changed'[q] = changed[q] /\ botched'[q] = botched[q],
         AgentOK(a)', Ended(a) => manifest'[a] = manifest[a],
         manifest[a] # "absent" => manifest'[a] # "absent", Starting',
         \/ op' = op
         \/ op'.seen = op.seen /\ op.at # "output" /\ op'.left = op.left
              /\ DOMAIN op' = DOMAIN NoOp
         \/ op'.seen = {} /\ op'.left = {} /\ DOMAIN op' = DOMAIN NoOp,
         replied' = replied \/ replied'.is \notin {"listed", "waited"}
  PROVE  AgentsInv'
<1>1. job' \in [Agents -> Records] /\ job'[a] = jb /\ \A q \in Agents \ {a} : job'[q] = job[q]
  BY AgentTypes
<1>2. AgentTypeOK'
  BY <1>1, AgentsParts DEF AgentTypeOK, Records, filesOnly
<1>3. \A q \in Agents : AgentOK(q)'
  BY <1>1, OthersOK
<1>4. RecordsRead'
  <2>1. \A q \in Agents : /\ job[q] # NoJob => job'[q] # NoJob
                          /\ Ended(q) => manifest'[q] = manifest[q]
                          /\ manifest[q] # "absent" => manifest'[q] # "absent"
    BY <1>1
  <2> QED BY <2>1, RecordsKept
<1>5. EndComesWithResult' /\ WaitFollowsSend' /\ RunStops'
  BY AgentsParts, AnswerKept DEF filesOnly, RunStops
<1> QED
  BY <1>2, <1>3, <1>4, <1>5, AgentsMade

(* A job that goes on, or ends with a status.                              *)
LEMMA JobTyped ==
  ASSUME AgentsInv, NEW a \in Agents, NEW jb,
         \/ \E p \in {"truncate", "write", "spawn", "run", "append", "over", "dead"} :
              jb = [job[a] EXCEPT !.at = p]
         \/ \E st \in {"completed", "failed"} :
              jb = [job[a] EXCEPT !.at = "append", !.status = st]
         \/ \E st \in {"completed", "failed"}, o \in {"spawn", "text", "question", "error", "panic"} :
              jb = [job[a] EXCEPT !.at = "append", !.status = st, !.outcome = o]
  PROVE  jb \in Records /\ jb # NoJob
<1>1. job[a] \in Records /\ NoJob.at = "none"
  BY AgentTypes DEF NoJob
<1>2. ASSUME NEW p \in {"truncate", "write", "spawn", "run", "append", "over", "dead"},
             jb = [job[a] EXCEPT !.at = p]
      PROVE  jb \in Records /\ jb # NoJob
  <2>1. jb \in Records
    BY <1>1, <1>2 DEF Records
  <2>2. jb.at = p
    BY <1>1, <1>2 DEF Records
  <2> QED BY <1>1, <2>1, <2>2
<1>3. ASSUME NEW st \in {"completed", "failed"},
             jb = [job[a] EXCEPT !.at = "append", !.status = st]
      PROVE  jb \in Records /\ jb # NoJob
  <2>1. jb \in Records
    BY <1>1, <1>3 DEF Records
  <2>2. jb.at = "append"
    BY <1>1, <1>3 DEF Records
  <2> QED BY <1>1, <2>1, <2>2
<1>4. ASSUME NEW st \in {"completed", "failed"},
             NEW o \in {"spawn", "text", "question", "error", "panic"},
             jb = [job[a] EXCEPT !.at = "append", !.status = st, !.outcome = o]
      PROVE  jb \in Records /\ jb # NoJob
  <2>1. jb \in Records
    BY <1>1, <1>4 DEF Records
  <2>2. jb.at = "append"
    BY <1>1, <1>4 DEF Records
  <2> QED BY <1>1, <2>1, <2>2
<1> QED
  BY <1>2, <1>3, <1>4

LEMMA ManifestAgent ==
  ASSUME AgentsInv, NEW a \in scope.agents, execute_agent_manifest(a), UNCHANGED scope
  PROVE  AgentsInv'
<1>a. /\ a \in Agents /\ op.at = "starting" /\ op.id = a /\ job[a] \in Records
  BY AgentTypes DEF execute_agent_manifest
<1>b. job[a].status = "none" /\ job[a].at \in {"truncate", "write", "spawn"}
  BY <1>a, AgentsParts DEF Starting
<1>c. job[a] # NoJob
  BY <1>b DEF NoJob
<1>d. AgentOK(a) /\ ~Ended(a)
  BY <1>a, <1>b, AgentsParts DEF AgentOK, FilesFollow
<1>e. UNCHANGED <<output, changed, botched, filesOnly>>
  BY DEF execute_agent_manifest
<1>0. /\ a \in Agents /\ op.at = "starting" /\ op.id = a /\ job[a] \in Records
      /\ job[a].status = "none" /\ job[a].at \in {"truncate", "write", "spawn"}
      /\ job[a] # NoJob /\ AgentOK(a) /\ ~Ended(a)
      /\ UNCHANGED <<output, changed, botched, filesOnly>>
  BY <1>a, <1>b, <1>c, <1>d, <1>e
<1>1. ASSUME NEW jb, jb # NoJob, jb \in Records, job' = [job EXCEPT ![a] = jb],
             NEW m \in {manifest[a], "torn", "running"}, manifest' = [manifest EXCEPT ![a] = m],
             AgentOK(a)', Starting',
             \/ op' = op
             \/ op'.seen = {} /\ op'.left = {} /\ DOMAIN op' = DOMAIN NoOp,
             replied' = replied \/ replied'.is \notin {"listed", "waited"}
      PROVE  AgentsInv'
  <2>1. /\ manifest' \in [Agents -> AgentStatuses \cup {"absent", "torn"}]
        /\ \A q \in Agents \ {a} : manifest'[q] = manifest[q]
        /\ manifest[a] # "absent" => manifest'[a] # "absent"
    BY <1>0, <1>1, AgentTypes DEF AgentStatuses
  <2> QED BY <1>0, <1>1, <2>1, AgentMoves, AgentTypes
<1>2. ASSUME NEW p \in {"write", "spawn", "over", "run"}, NEW m,
             job' = [job EXCEPT ![a].at = p], manifest' = [manifest EXCEPT ![a] = m],
             \/ p \in {"write", "over"} /\ m \in {"torn", manifest[a]}
                  /\ manifest[a] \in {"absent", "torn"}
             \/ p = "spawn" /\ m = "running"
             \/ p = "run" /\ m = manifest[a]
      PROVE  /\ AgentOK(a)' /\ job' = [job EXCEPT ![a] = [job[a] EXCEPT !.at = p]]
             /\ [job[a] EXCEPT !.at = p] \in Records /\ [job[a] EXCEPT !.at = p] # NoJob
             /\ job'[a].at = p /\ job'[a].status = "none"
             /\ (p = "write" => m \in {"absent", "torn"}) /\ m \in {manifest[a], "torn", "running"}
  <2> DEFINE jb == [job[a] EXCEPT !.at = p]
  <2>1. jb \in Records /\ jb # NoJob /\ job' = [job EXCEPT ![a] = jb]
    BY <1>0, <1>2, JobTyped
  <2>2. jb.at = p /\ jb.status = "none" /\ jb.type = job[a].type /\ jb.outcome = job[a].outcome
    BY <1>0 DEF Records
  <2> HIDE DEF jb
  <2>3. /\ job'[a] = jb /\ manifest'[a] = m /\ output'[a] = output[a]
        /\ changed'[a] = changed[a] /\ botched'[a] = botched[a]
    BY <1>0, <1>2, <2>1, AgentTypes
  <2>4. AgentOK(a)'
    BY <1>0, <1>2, <2>1, <2>2, <2>3 DEF AgentOK, FilesFollow, Ended
  <2> QED BY <1>2, <2>1, <2>2, <2>3, <2>4 DEF jb
<1>3. manifest = [manifest EXCEPT ![a] = manifest[a]]
  BY <1>0, AgentTypes
<1>4. ASSUME NEW r, ends(r), r.is \notin {"listed", "waited"}
      PROVE  /\ op'.seen = {} /\ op'.left = {} /\ DOMAIN op' = DOMAIN NoOp
             /\ op'.at # "starting" /\ replied'.is \notin {"listed", "waited"}
  BY <1>4 DEF ends, NoOp
<1>5. CASE job[a].at \in {"truncate", "write"}
  <2>1. manifest[a] \in {"absent", "torn"}
    BY <1>0, <1>5 DEF AgentOK, FilesFollow
  <2>2. CASE /\ job[a].at = "truncate" /\ manifest' = [manifest EXCEPT ![a] = "torn"]
             /\ job' = [job EXCEPT ![a].at = "write"] /\ UNCHANGED <<op, replied>>
    <3>1. Starting'
      BY <1>0, <1>2, <2>1, <2>2 DEF Starting
    <3> QED BY <1>1, <1>2, <2>1, <2>2, <3>1
  <2>3. CASE /\ job[a].at = "write" /\ manifest' = [manifest EXCEPT ![a] = "running"]
             /\ job' = [job EXCEPT ![a].at = "spawn"] /\ UNCHANGED <<op, replied>>
    <3>1. Starting'
      BY <1>0, <1>2, <2>3 DEF Starting
    <3> QED BY <1>1, <1>2, <2>3, <3>1
  <2>4. CASE UNCHANGED manifest /\ job' = [job EXCEPT ![a].at = "over"]
             /\ ends(error("manifest"))
    <3>1. manifest' = [manifest EXCEPT ![a] = manifest[a]]
      BY <1>3, <2>4
    <3>2. /\ op'.seen = {} /\ op'.left = {} /\ DOMAIN op' = DOMAIN NoOp /\ Starting'
          /\ replied'.is \notin {"listed", "waited"}
      BY <1>4, <2>4 DEF error, Starting
    <3> QED BY <1>1, <1>2, <2>1, <2>4, <3>1, <3>2
  <2> QED BY <1>5, <2>2, <2>3, <2>4 DEF execute_agent_manifest
<1>6. CASE job[a].at = "spawn"
  <2>0. manifest' = [manifest EXCEPT ![a] = manifest[a]] /\ manifest' = manifest
    BY <1>3, <1>6 DEF execute_agent_manifest
  <2>1. CASE job' = [job EXCEPT ![a].at = "run"] /\ ends([is |-> "started", id |-> a])
    <3>1. /\ op'.seen = {} /\ op'.left = {} /\ DOMAIN op' = DOMAIN NoOp /\ Starting'
          /\ replied'.is \notin {"listed", "waited"}
      BY <1>4, <2>1 DEF Starting
    <3> QED BY <1>1, <1>2, <2>0, <2>1, <3>1
  <2>2. CASE /\ job' = [job EXCEPT ![a].at = "append", ![a].status = "failed",
                                   ![a].outcome = "spawn"]
             /\ op' = [op EXCEPT !.at = "spawn failed"] /\ UNCHANGED replied
    <3> DEFINE jb == [job[a] EXCEPT !.at = "append", !.status = "failed", !.outcome = "spawn"]
    <3>1. jb \in Records /\ jb # NoJob
      BY <1>0, JobTyped
    <3>2. jb.at = "append" /\ jb.status = "failed" /\ jb.outcome = "spawn"
          /\ jb.type = job[a].type
      BY <1>0 DEF Records
    <3>3. job' = [job EXCEPT ![a] = jb]
      BY <1>0, <2>2, AgentTypes DEF Records
    <3> HIDE DEF jb
    <3>4. job'[a] = jb /\ manifest'[a] = manifest[a] /\ output'[a] = output[a]
          /\ changed'[a] = changed[a] /\ botched'[a] = botched[a]
      BY <1>0, <2>0, <3>3, AgentTypes
    <3>5. AgentOK(a)'
      BY <1>0, <3>1, <3>2, <3>4 DEF AgentOK, FilesFollow, Ended
    <3>6. /\ op'.at = "spawn failed" /\ op'.seen = op.seen /\ op'.left = op.left
          /\ DOMAIN op' = DOMAIN NoOp
      BY <2>2, AgentTypes DEF NoOp
    <3>7. Starting' /\ op.at # "output"
      BY <1>0, <3>6 DEF Starting
    <3>8. manifest' \in [Agents -> AgentStatuses \cup {"absent", "torn"}]
      BY <2>0, AgentTypes
    <3>9. /\ output' = output /\ changed' = changed /\ botched' = botched
          /\ replied' = replied /\ UNCHANGED <<scope, filesOnly>>
      BY <1>0, <2>2
    <3> QED BY <1>0, <2>0, <3>1, <3>3, <3>5, <3>6, <3>7, <3>8, <3>9, AgentTypes, AgentMoves
  <2> QED BY <1>6, <2>1, <2>2 DEF execute_agent_manifest
<1> QED
  BY <1>0, <1>5, <1>6

(* An agent that runs or ends is not the one a call is starting.           *)
LEMMA NotStarting ==
  ASSUME AgentsInv, NEW a \in Agents, job[a].at = "run" \/ job[a].status # "none",
         op' = op, \A q \in Agents \ {a} : job'[q] = job[q]
  PROVE  Starting' /\ job[a] # NoJob
<1>1. job[a] # NoJob
  BY DEF NoJob
<1>2. op.at = "starting" => op.id \in Agents \ {a}
  BY AgentsParts DEF Starting
<1> QED
  BY <1>1, <1>2, AgentsParts DEF Starting

LEMMA AgentRuns ==
  ASSUME AgentsInv, NEW a \in scope.agents, subagent_execute(a), UNCHANGED scope
  PROVE  AgentsInv'
<1>1. /\ a \in Agents /\ job[a].at = "run" /\ job[a] \in Records
      /\ UNCHANGED <<manifest, output, job, botched, op, replied, filesOnly>>
      /\ changed' = [changed EXCEPT ![a] = TRUE]
  BY AgentTypes DEF subagent_execute
<1>2. job[a].type \notin {"Explore", "Plan", "openyak-guide"}
  BY DEF subagent_execute, allowed_tools_for_subagent
<1>3. Starting' /\ job[a] # NoJob
  BY <1>1, NotStarting
<1>4. job' = [job EXCEPT ![a] = job[a]]
  BY <1>1, AgentTypes
<1>5. AgentOK(a)'
  BY <1>1, <1>2, <1>3, AgentTypes, AgentsParts DEF AgentOK, FilesFollow, Ended
<1>6. /\ manifest' = manifest /\ output' = output /\ botched' = botched /\ op' = op
      /\ replied' = replied
  BY <1>1
<1>7. /\ changed' \in [Agents -> BOOLEAN] /\ botched' \in [Agents -> BOOLEAN]
      /\ \A q \in Agents \ {a} : changed'[q] = changed[q]
      /\ manifest' \in [Agents -> AgentStatuses \cup {"absent", "torn"}]
      /\ output' \in [Agents -> Seq(Sections)]
  BY <1>1, <1>6, AgentTypes
<1> QED
  BY <1>1, <1>3, <1>4, <1>5, <1>6, <1>7, AgentMoves

LEMMA AgentEnds ==
  ASSUME AgentsInv, NEW a \in scope.agents, run_agent_job(a), UNCHANGED scope
  PROVE  AgentsInv'
<1>1. /\ a \in Agents /\ job[a].at = "run" /\ job[a] \in Records
      /\ UNCHANGED <<manifest, output, changed, botched, op, replied, filesOnly>>
  BY AgentTypes DEF run_agent_job
<1>2. PICK o \in {"text", "question", "error", "panic"} :
        job' = [job EXCEPT ![a].at = "append", ![a].outcome = o,
                           ![a].status = IF o \in {"text", "question"} THEN "completed" ELSE "failed"]
  BY DEF run_agent_job
<1> DEFINE st == IF o \in {"text", "question"} THEN "completed" ELSE "failed"
           jb == [job[a] EXCEPT !.at = "append", !.status = st, !.outcome = o]
<1>3. jb \in Records /\ jb # NoJob
  BY <1>1, JobTyped
<1>4. jb.at = "append" /\ jb.status = st /\ jb.outcome = o /\ jb.type = job[a].type
  BY <1>1 DEF Records
<1>5. job' = [job EXCEPT ![a] = jb]
  BY <1>1, <1>2, AgentTypes DEF Records
<1> HIDE DEF jb
<1>6. /\ manifest' = manifest /\ output' = output /\ botched' = botched /\ op' = op
      /\ replied' = replied /\ changed' = changed
  BY <1>1
<1>7. job'[a] = jb /\ \A q \in Agents \ {a} : job'[q] = job[q]
  BY <1>5, <1>1, AgentTypes
<1>8. Starting' /\ job[a] # NoJob
  BY <1>1, <1>6, <1>7, NotStarting
<1>9. AgentOK(a)'
  BY <1>1, <1>3, <1>4, <1>6, <1>7, <1>8, AgentsParts DEF AgentOK, FilesFollow, Ended
<1>10. /\ changed' \in [Agents -> BOOLEAN] /\ botched' \in [Agents -> BOOLEAN]
       /\ manifest' \in [Agents -> AgentStatuses \cup {"absent", "torn"}]
       /\ output' \in [Agents -> Seq(Sections)]
  BY <1>6, AgentTypes
<1> QED
  BY <1>1, <1>3, <1>5, <1>6, <1>8, <1>9, <1>10, AgentMoves

LEMMA AgentPersists ==
  ASSUME AgentsInv, NEW a \in scope.agents, persist_agent_terminal_state(a), UNCHANGED scope
  PROVE  AgentsInv'
<1>1. /\ a \in Agents /\ job[a].status \in {"completed", "failed"} /\ job[a] \in Records
      /\ UNCHANGED <<changed, op, replied, filesOnly>>
      /\ job[a].at \in {"append", "truncate", "write"} /\ ~Ended(a) /\ AgentOK(a)
      /\ job[a] # NoJob
  <2>1. a \in Agents /\ job[a] \in Records /\ job[a].status # "none"
        /\ job[a].at \in {"append", "truncate", "write"}
        /\ UNCHANGED <<changed, op, replied, filesOnly>>
    BY AgentTypes DEF persist_agent_terminal_state
  <2>2. AgentOK(a) /\ ~Ended(a)
    BY <2>1, AgentsParts DEF AgentOK, FilesFollow, Ended
  <2> QED BY <2>1, <2>2 DEF Records, NoJob
<1> DEFINE end == job[a].status
(* What the four ways to go on have in common.                             *)
<1>2. ASSUME NEW jb \in Records, jb # NoJob, job' = [job EXCEPT ![a] = jb],
             NEW m \in AgentStatuses \cup {"torn"}, NEW out \in Seq(Sections), NEW b \in BOOLEAN,
             \/ manifest' = [manifest EXCEPT ![a] = m]
             \/ manifest' = manifest,
             \/ output' = [output EXCEPT ![a] = out]
             \/ output' = output,
             \/ botched' = [botched EXCEPT ![a] = b]
             \/ botched' = botched,
             AgentOK(a)'
      PROVE  AgentsInv'
  <2>1. /\ manifest' \in [Agents -> AgentStatuses \cup {"absent", "torn"}]
        /\ \A q \in Agents \ {a} : manifest'[q] = manifest[q]
        /\ manifest[a] # "absent" => manifest'[a] # "absent"
    BY <1>1, <1>2, AgentTypes DEF AgentStatuses
  <2>2. output' \in [Agents -> Seq(Sections)] /\ \A q \in Agents \ {a} : output'[q] = output[q]
    BY <1>2, AgentTypes
  <2>3. botched' \in [Agents -> BOOLEAN] /\ \A q \in Agents \ {a} : botched'[q] = botched[q]
    BY <1>2, AgentTypes
  <2>4. op' = op /\ replied' = replied /\ changed' = changed /\ changed' \in [Agents -> BOOLEAN]
    BY <1>1, AgentTypes
  <2>5. \A q \in Agents \ {a} : job'[q] = job[q]
    BY <1>2, AgentTypes
  <2>6. Starting' /\ job[a] # NoJob
    BY <1>1, <2>4, <2>5, NotStarting
  <2> QED BY <1>1, <1>2, <2>1, <2>2, <2>3, <2>4, <2>6, AgentMoves
<1>3. ASSUME NEW p \in {"append", "truncate", "write", "over"}, job' = [job EXCEPT ![a].at = p]
      PROVE  /\ job' = [job EXCEPT ![a] = [job[a] EXCEPT !.at = p]]
             /\ [job[a] EXCEPT !.at = p] \in Records /\ [job[a] EXCEPT !.at = p] # NoJob
             /\ job'[a].at = p /\ job'[a].status = end /\ job'[a].outcome = job[a].outcome
             /\ job'[a].type = job[a].type /\ job'[a] # NoJob
  <2> DEFINE jb == [job[a] EXCEPT !.at = p]
  <2>1. jb \in Records /\ jb # NoJob /\ job' = [job EXCEPT ![a] = jb]
    BY <1>1, <1>3, JobTyped
  <2>2. jb.at = p /\ jb.status = end /\ jb.type = job[a].type /\ jb.outcome = job[a].outcome
    BY <1>1 DEF Records
  <2> HIDE DEF jb
  <2>3. job'[a] = jb
    BY <1>1, <2>1, AgentTypes
  <2> QED BY <2>1, <2>2, <2>3 DEF jb
<1>4. /\ manifest[a] \in AgentStatuses \cup {"absent", "torn"} /\ output[a] \in Seq(Sections)
      /\ changed'[a] = changed[a] /\ end \in AgentStatuses /\ "torn" \in AgentStatuses \cup {"torn"}
  BY <1>1, AgentTypes DEF AgentStatuses
<1>5. CASE /\ job[a].at = "append" /\ output' = [output EXCEPT ![a] = Append(@, end)]
           /\ job' = [job EXCEPT ![a].at = "truncate"] /\ UNCHANGED <<manifest, botched>>
  <2>1. Append(output[a], end) \in Seq(Sections) /\ SaysLast(Append(output[a], end), end)
    BY <1>1, <1>4, SaidLast
  <2>2. output'[a] = Append(output[a], end) /\ manifest'[a] = manifest[a] /\ botched'[a] = botched[a]
    BY <1>1, <1>5, AgentTypes
  <2>3. output'[a] # <<>> /\ SaysLast(output'[a], end)
    BY <2>1, <2>2 DEF SaysLast
  <2>4. AgentOK(a)'
    BY <1>1, <1>3, <1>4, <1>5, <2>2, <2>3 DEF AgentOK, FilesFollow, Ended
  <2> QED BY <1>2, <1>3, <1>4, <1>5, <2>1, <2>4
<1>6. CASE /\ job[a].at = "truncate" /\ manifest' = [manifest EXCEPT ![a] = "torn"]
           /\ job' = [job EXCEPT ![a].at = "write"] /\ UNCHANGED <<output, botched>>
  <2>1. manifest'[a] = "torn" /\ output'[a] = output[a] /\ botched'[a] = botched[a]
    BY <1>1, <1>6, AgentTypes
  <2>2. SaysLast(output'[a], end) /\ output'[a] # <<>>
    BY <1>1, <1>6, <2>1 DEF AgentOK, FilesFollow
  <2>3. AgentOK(a)'
    BY <1>1, <1>3, <1>4, <1>6, <2>1, <2>2 DEF AgentOK, FilesFollow, Ended
  <2> QED BY <1>2, <1>3, <1>4, <1>6, <2>3
<1>7. CASE /\ job[a].at = "write" /\ manifest' = [manifest EXCEPT ![a] = end]
           /\ job' = [job EXCEPT ![a].at = "over"] /\ UNCHANGED <<output, botched>>
  <2>1. manifest'[a] = end /\ output'[a] = output[a] /\ botched'[a] = botched[a]
    BY <1>1, <1>7, AgentTypes
  <2>2. SaysLast(output'[a], end) /\ output'[a] # <<>>
    BY <1>1, <1>7, <2>1 DEF AgentOK, FilesFollow
  <2>3. AgentOK(a)'
    BY <1>1, <1>3, <1>4, <1>7, <2>1, <2>2 DEF AgentOK, FilesFollow, Ended
  <2> QED BY <1>2, <1>3, <1>4, <1>7, <2>3
<1>8. CASE persist_failed(a) /\ UNCHANGED <<manifest, output>>
  <2>1. /\ manifest'[a] = manifest[a] /\ output'[a] = output[a] /\ botched'[a]
        /\ botched' = [botched EXCEPT ![a] = TRUE]
    BY <1>1, <1>8, AgentTypes DEF persist_failed
  <2>2. CASE end = "completed"
    <3> DEFINE jb == [job[a] EXCEPT !.at = "append", !.status = "failed"]
    <3>1. jb \in Records /\ jb # NoJob
      BY <1>1, JobTyped
    <3>2. jb.at = "append" /\ jb.status = "failed" /\ jb.outcome = job[a].outcome
          /\ jb.type = job[a].type
      BY <1>1 DEF Records
    <3>3. job' = [job EXCEPT ![a] = jb]
      BY <1>1, <1>8, <2>2, AgentTypes DEF Records, persist_failed
    <3> HIDE DEF jb
    <3>4. job'[a] = jb
      BY <1>1, <3>3, AgentTypes
    <3>5. AgentOK(a)'
      BY <1>1, <1>4, <2>1, <3>1, <3>2, <3>4 DEF AgentOK, FilesFollow, Ended
    <3> QED BY <1>2, <1>4, <1>8, <2>1, <3>1, <3>3, <3>5
  <2>3. CASE end = "failed"
    <3>1. job' = [job EXCEPT ![a].at = "over"]
      BY <1>8, <2>3 DEF persist_failed
    <3>2. AgentOK(a)'
      BY <1>1, <1>3, <1>4, <2>1, <3>1 DEF AgentOK, FilesFollow, Ended
    <3> QED BY <1>2, <1>3, <1>4, <1>8, <2>1, <3>1, <3>2
  <2> QED BY <1>1, <2>2, <2>3
<1> QED
  BY <1>1, <1>5, <1>6, <1>7, <1>8 DEF persist_agent_terminal_state

(* A step of a call, or of the server: the agents stay as they are.        *)
LEMMA CallMoves ==
  ASSUME AgentsInv, UNCHANGED <<scope, manifest, output, job, changed, botched>>,
         DOMAIN op' = DOMAIN NoOp, op'.left \subseteq Agents, op'.seen \subseteq AgentRecord,
         op' = op \/ op'.at # "starting",
         thread' \in [status : {"idle", "running", "awaiting_user_input", "interrupted"}, run : Nat],
         own' \in Nat, RecordsRead', RunStops', EndComesWithResult', WaitFollowsSend'
  PROVE  AgentsInv'
<1>1. AgentTypeOK'
  BY AgentsParts DEF AgentTypeOK
<1>2. \A a \in Agents : AgentOK(a)'
  BY AgentsParts DEF AgentOK, FilesFollow, Ended
<1>3. Starting'
  BY AgentsParts DEF Starting
<1> QED
  BY <1>1, <1>2, <1>3, AgentsMade

LEMMA CallTypes ==
  ASSUME AgentsInv
  PROVE  /\ DOMAIN op = DOMAIN NoOp /\ op.left \subseteq Agents /\ op.seen \subseteq AgentRecord
         /\ thread \in [status : {"idle", "running", "awaiting_user_input", "interrupted"}, run : Nat]
         /\ own \in Nat /\ RecordsRead /\ RunStops
BY AgentsParts DEF AgentTypeOK

(* A call that ends, or begins, or goes on with the records it has read,   *)
(* says nothing of ended records nor of a terminal thread.                 *)
LEMMA CallGoesOn ==
  ASSUME AgentsInv, UNCHANGED <<scope, manifest, output, job, changed, botched>>,
         stopped' = stopped, own' = own,
         thread' = thread,
         \/ op' = op
         \/ op' = NoOp
         \/ /\ op.at # "output" /\ op'.at # "starting" /\ DOMAIN op' = DOMAIN NoOp
            /\ op'.left = op.left /\ op'.seen = op.seen
         \/ /\ op'.at # "starting" /\ DOMAIN op' = DOMAIN NoOp
            /\ op'.left = {} /\ op'.seen = {},
         replied' = replied \/ replied'.is \notin {"listed", "waited"}
  PROVE  AgentsInv'
<1>1. NoOp.left = {} /\ NoOp.seen = {} /\ NoOp.at # "starting"
  BY DEF NoOp
<1>2. RecordsRead'
  BY <1>1, RecordsKept
<1>3. EndComesWithResult' /\ WaitFollowsSend'
  BY AnswerKept
<1>4. RunStops'
  BY CallTypes DEF RunStops
<1> QED
  BY <1>1, <1>2, <1>3, <1>4, CallTypes, CallMoves

LEMMA CallEnds ==
  ASSUME NEW r, ends(r)
  PROVE  op' = NoOp /\ replied' = r
BY DEF ends

LEMMA StartFails ==
  ASSUME AgentsInv, NEW a, execute_agent_failed(a), UNCHANGED scope
  PROVE  AgentsInv'
<1>1. /\ ends(error("spawn"))
      /\ UNCHANGED <<manifest, output, job, changed, botched, thread, stopped, own>>
  BY DEF execute_agent_failed, filesOnly
<1>2. op' = NoOp /\ replied'.is = "error"
  BY <1>1 DEF ends, error
<1> QED
  BY <1>1, <1>2, CallGoesOn

LEMMA Killed ==
  ASSUME AgentsInv, kill, UNCHANGED scope
  PROVE  AgentsInv'
<1>1. /\ op' = NoOp /\ replied' = [is |-> "none"] /\ own' = 0
      /\ UNCHANGED <<manifest, output, changed, botched, thread, stopped>>
      /\ NoOp.left = {} /\ NoOp.seen = {} /\ NoOp.at # "starting"
  BY DEF kill, NoOp
<1>2. ASSUME NEW a \in Agents
      PROVE  job'[a] \in Records /\ AgentOK(a)'
  <2>1. CASE job[a].at \in {"none", "over"}
    <3>1. job'[a] = job[a]
      BY <2>1 DEF kill
    <3> QED BY <1>1, <3>1, AgentTypes, AgentsParts DEF AgentOK, FilesFollow, Ended
  <2>2. CASE job[a].at \notin {"none", "over"}
    <3> DEFINE jb == [job[a] EXCEPT !.at = "dead"]
    <3>1. job'[a] = jb
      BY <2>2 DEF kill
    <3>2. jb \in Records /\ jb # NoJob
      BY JobTyped
    <3>3. jb.at = "dead" /\ jb.status = job[a].status /\ jb.outcome = job[a].outcome
          /\ jb.type = job[a].type
      BY AgentTypes DEF Records
    <3>4. job[a] # NoJob
      BY <2>2 DEF NoJob
    <3> HIDE DEF jb
    <3> QED BY <1>1, <2>2, <3>1, <3>2, <3>3, <3>4, AgentTypes, AgentsParts
            DEF AgentOK, FilesFollow, Ended
  <2> QED BY <2>1, <2>2
<1>3. job' \in [Agents -> Records]
  BY <1>2 DEF kill
<1>4. AgentTypeOK'
  BY <1>1, <1>3, AgentsParts DEF AgentTypeOK, Records
<1>5. Starting' /\ RecordsRead' /\ RunStops' /\ EndComesWithResult' /\ WaitFollowsSend'
  BY <1>1 DEF Starting, RecordsRead, RunStops, EndComesWithResult, WaitFollowsSend
<1> QED
  BY <1>2, <1>4, <1>5, AgentsMade

LEMMA SessionSaved ==
  ASSUME AgentsInv, save_session, UNCHANGED scope
  PROVE  AgentsInv'
<1>1. /\ op' = op /\ replied' = replied /\ thread' = thread /\ stopped' = stopped /\ own' = own
      /\ UNCHANGED <<manifest, output, job, changed, botched>>
  BY DEF save_session
<1> QED
  BY <1>1, CallGoesOn

LEMMA CallBegins ==
  ASSUME AgentsInv, NEW tool, NEW kind, NEW id, run_session_tool(tool, kind, id), UNCHANGED scope
  PROVE  AgentsInv'
<1>1. UNCHANGED <<manifest, output, job, changed, botched, thread, stopped, own>>
  BY DEF run_session_tool
<1>2. CASE ends(error("unsupported"))
  BY <1>1, <1>2, CallEnds, CallGoesOn DEF error
<1>3. CASE /\ op' = [NoOp EXCEPT !.tool = tool, !.kind = kind, !.id = id, !.at = first_step(kind)]
           /\ replied' = [is |-> "none"]
  <2>1. /\ op'.at = first_step(kind) /\ op'.left = {} /\ op'.seen = {} /\ DOMAIN op' = DOMAIN NoOp
        /\ replied'.is = "none"
    BY <1>3 DEF NoOp
  <2>2. first_step(kind) # "starting"
    BY DEF first_step
  <2> QED BY <1>1, <2>1, <2>2, CallGoesOn
<1> QED
  BY <1>2, <1>3 DEF run_session_tool

(* A step of a call that has read no record without its output.            *)
LEMMA StepsOn ==
  ASSUME AgentsInv, UNCHANGED <<scope, manifest, output, job, changed, botched>>,
         stopped' = stopped, own' = own, thread' = thread, op.at # "output",
         \/ \E p \in {"request", "managed", "agents"} : op' = [op EXCEPT !.at = p] /\ UNCHANGED replied
         \/ \E r : ends(r) /\ r.is \notin {"listed", "waited"}
         \/ ends([is |-> "listed"])
  PROVE  AgentsInv'
<1>1. ASSUME NEW p \in {"request", "managed", "agents"}, op' = [op EXCEPT !.at = p], UNCHANGED replied
      PROVE  AgentsInv'
  <2>1. op'.at = p /\ op'.left = op.left /\ op'.seen = op.seen /\ DOMAIN op' = DOMAIN NoOp
    BY <1>1, CallTypes DEF NoOp
  <2> QED BY <1>1, <2>1, CallGoesOn
<1>2. ASSUME NEW r, ends(r), r.is \notin {"listed", "waited"}
      PROVE  AgentsInv'
  BY <1>2, CallEnds, CallGoesOn
<1>3. CASE ends([is |-> "listed"])
  <2>1. op' = NoOp /\ replied' = [is |-> "listed"]
    BY <1>3, CallEnds
  <2>2. EndComesWithResult' /\ WaitFollowsSend'
    BY <2>1 DEF EndComesWithResult, WaitFollowsSend
  <2>3. NoOp.left = {} /\ NoOp.seen = {} /\ NoOp.at # "starting"
    BY DEF NoOp
  <2>4. RecordsRead' /\ RunStops'
    BY <2>1, <2>3, CallTypes DEF RecordsRead, RunStops
  <2> QED BY <2>1, <2>2, <2>3, <2>4, CallTypes, CallMoves
<1> QED
  BY <1>1, <1>2, <1>3

LEMMA ServerFound ==
  ASSUME AgentsInv, discover_session_server_url, UNCHANGED scope
  PROVE  AgentsInv'
<1>1. /\ op.at # "output"
      /\ UNCHANGED <<manifest, output, job, changed, botched, located, thread, stopped, own>>
  BY DEF discover_session_server_url, readOnly
<1>2. error(located).is = "error"
  BY DEF error
<1> QED
  BY <1>1, <1>2, StepsOn DEF discover_session_server_url, thread_step_fails

LEMMA RequestTimesOut ==
  ASSUME AgentsInv, request_times_out, UNCHANGED scope
  PROVE  AgentsInv'
<1>1. /\ op.at # "output" /\ thread_step_fails("timeout")
      /\ UNCHANGED <<manifest, output, job, changed, botched, thread, stopped, own>>
  BY DEF request_times_out, readOnly
<1>2. error("timeout").is = "error"
  BY DEF error
<1> QED
  BY <1>1, <1>2, StepsOn DEF thread_step_fails

(* A run that is accepted is the one the thread is running.                *)
LEMMA RunStarts ==
  ASSUME AgentsInv, NEW tool, start_run(tool)
  PROVE  /\ thread' \in [status : {"idle", "running", "awaiting_user_input", "interrupted"}, run : Nat]
         /\ thread'.status = "running" /\ thread.status # "running" /\ thread'.run \in Nat
BY CallTypes DEF start_run, takes

LEMMA Served ==
  ASSUME AgentsInv, serve, UNCHANGED scope
  PROVE  AgentsInv'
<1>1. /\ UNCHANGED <<manifest, output, job, changed, botched, stopped>> /\ op.at = "request"
  BY DEF serve, readOnly
<1>2. NoOp.left = {} /\ NoOp.seen = {} /\ NoOp.at # "starting"
  BY DEF NoOp
<1>3. CASE /\ op.tool \notin {"SessionSend", "SessionResume"}
           /\ IF op.tool = "SessionCreate" THEN ends([is |-> "created"]) ELSE snapshot
           /\ UNCHANGED <<thread, own>>
  <2>1. CASE ends([is |-> "created"])
    BY <1>1, <1>3, <2>1, StepsOn
  <2>2. CASE snapshot
    <3>1. CASE op' = [op EXCEPT !.at = "managed"] /\ UNCHANGED replied
      BY <1>1, <1>3, <3>1, StepsOn
    <3>2. CASE op' = [op EXCEPT !.at = "discover", !.polls = @ + 1] /\ UNCHANGED replied
      <4>1. op'.at = "discover" /\ op'.left = op.left /\ op'.seen = op.seen /\ DOMAIN op' = DOMAIN NoOp
        BY <3>2, CallTypes DEF NoOp
      <4> QED BY <1>1, <1>3, <3>2, <4>1, CallGoesOn
    <3>3. ASSUME NEW st, ends([is |-> "shown", status |-> st])
          PROVE  AgentsInv'
      <4>1. op' = NoOp /\ replied'.is = "shown"
        BY <3>3 DEF ends
      <4> QED BY <1>1, <1>3, <4>1, CallGoesOn
    <3>4. ASSUME NEW end \in BOOLEAN, end => terminal(thread.status),
                 ends([is |-> "waited", status |-> thread.status, terminal |-> end])
          PROVE  AgentsInv'
      <4>1. op' = NoOp /\ replied' = [is |-> "waited", status |-> thread.status, terminal |-> end]
        BY <3>4 DEF ends
      <4>2. terminal(thread.status) => thread.status # "running"
        BY DEF terminal
      <4>3. WaitFollowsSend' /\ EndComesWithResult' /\ RunStops'
        BY <1>1, <1>3, <3>4, <4>1, <4>2, CallTypes
           DEF WaitFollowsSend, EndComesWithResult, RunStops
      <4>4. RecordsRead'
        BY <1>2, <4>1 DEF RecordsRead
      <4> QED BY <1>1, <1>2, <1>3, <4>1, <4>3, <4>4, CallTypes, CallMoves
    <3> QED BY <2>2, <3>1, <3>2, <3>3, <3>4 DEF snapshot
  <2> QED BY <1>3, <2>1, <2>2
<1>4. CASE /\ start_run(op.tool) /\ own' = thread'.run /\ ends(accepted(thread'.run))
  <2>1. op' = NoOp /\ replied'.is = "accepted"
    BY <1>4 DEF ends, accepted
  <2>2. /\ thread' \in [status : {"idle", "running", "awaiting_user_input", "interrupted"}, run : Nat]
        /\ thread'.status = "running" /\ thread'.run = own' /\ own' \in Nat
    BY <1>4, RunStarts
  <2>3. RunStops' /\ WaitFollowsSend' /\ EndComesWithResult' /\ RecordsRead'
    BY <1>2, <2>1, <2>2 DEF RunStops, WaitFollowsSend, EndComesWithResult, RecordsRead
  <2> QED BY <1>1, <1>2, <2>1, <2>2, <2>3, CallTypes, CallMoves
<1>5. CASE ends(error("conflict")) /\ UNCHANGED <<thread, own>>
  <2>1. error("conflict").is = "error"
    BY DEF error
  <2> QED BY <1>1, <1>5, <2>1, StepsOn
<1> QED
  BY <1>3, <1>4, <1>5 DEF serve

(* The thread moves: a run that was running stops first.                   *)
LEMMA ThreadMoves ==
  ASSUME AgentsInv, UNCHANGED <<scope, manifest, output, job, changed, botched, op, own, replied>>,
         thread' \in [status : {"idle", "running", "awaiting_user_input", "interrupted"}, run : Nat],
         \/ thread' = thread /\ stopped' = stopped
         \/ thread.status # "running" /\ stopped' = stopped
         \/ stopped' = stopped \cup {thread.run}
  PROVE  AgentsInv'
<1>1. RunStops'
  BY CallTypes DEF RunStops
<1>2. RecordsRead'
  BY RecordsKept
<1>3. EndComesWithResult' /\ WaitFollowsSend'
  BY AgentsParts DEF EndComesWithResult, WaitFollowsSend
<1> QED
  BY <1>1, <1>2, <1>3, CallTypes, CallMoves

LEMMA ServedLate ==
  ASSUME AgentsInv, serve_late, UNCHANGED scope
  PROVE  AgentsInv'
<1>1. UNCHANGED <<manifest, output, job, changed, botched, op, own, replied, stopped>>
  BY DEF serve_late, readOnly
<1>2. start_run(late) \/ thread' = thread
  BY DEF serve_late
<1> QED
  BY <1>1, <1>2, RunStarts, CallTypes, ThreadMoves

LEMMA ServerAdvances ==
  ASSUME AgentsInv, server_advances, UNCHANGED scope
  PROVE  AgentsInv'
<1>1. UNCHANGED <<manifest, output, job, changed, botched, op, own, replied>>
  BY DEF server_advances, readOnly
<1>2. /\ thread' \in [status : {"idle", "running", "awaiting_user_input", "interrupted"}, run : Nat]
      /\ \/ thread.status # "running" /\ stopped' = stopped
         \/ stopped' = stopped \cup {thread.run}
  BY CallTypes DEF server_advances
<1> QED
  BY <1>1, <1>2, ThreadMoves

LEMMA FilesListed ==
  ASSUME AgentsInv, list_managed_session_records, UNCHANGED scope
  PROVE  AgentsInv'
<1>1. /\ op.at # "output"
      /\ UNCHANGED <<manifest, output, job, changed, botched, thread, stopped, own>>
  BY DEF list_managed_session_records, readOnly
<1>2. ASSUME NEW r, ends(r), r.is \in {"error", "shown"}
      PROVE  AgentsInv'
  BY <1>1, <1>2, StepsOn
<1>3. CASE ends(error("session file")) \/ ends(error("not found"))
  BY <1>2, <1>3 DEF error
<1>4. CASE ends([is |-> "shown", status |-> saved])
  BY <1>2, <1>4
<1>5. CASE ends([is |-> "listed"])
  BY <1>1, <1>5, StepsOn
<1>6. CASE op' = [op EXCEPT !.at = "agents"] /\ UNCHANGED replied
  BY <1>1, <1>6, StepsOn
<1> QED
  BY <1>3, <1>4, <1>5, <1>6 DEF list_managed_session_records

(* The records are read from the start.                                    *)
LEMMA AgentsListed ==
  ASSUME AgentsInv, list_agent_run_records, UNCHANGED scope
  PROVE  AgentsInv'
<1>1. UNCHANGED <<manifest, output, job, changed, botched, thread, stopped, own, replied>>
  BY DEF list_agent_run_records, readOnly
<1>2. /\ op'.at = "load" /\ op'.left = {a \in Agents : manifest[a] # "absent"} /\ op'.seen = {}
      /\ DOMAIN op' = DOMAIN NoOp
  BY CallTypes DEF list_agent_run_records, NoOp
<1>3. RecordsRead'
  BY <1>1, <1>2 DEF RecordsRead
<1>4. RunStops' /\ EndComesWithResult' /\ WaitFollowsSend'
  BY <1>1, CallTypes, AnswerKept DEF RunStops
<1> QED
  BY <1>1, <1>2, <1>3, <1>4, CallTypes, CallMoves

(* The manifest is read: if it names an end, the output has it already.    *)
LEMMA RecordLoaded ==
  ASSUME AgentsInv, NEW a \in scope.agents, load_agent_run_record(a), UNCHANGED scope
  PROVE  AgentsInv'
<1>1. /\ UNCHANGED <<manifest, output, job, changed, botched, thread, stopped, own>>
      /\ op.at = "load" /\ a \in op.left /\ a \in Agents /\ manifest[a] # "absent"
  BY AgentTypes, CallTypes DEF load_agent_run_record, readOnly, RecordsRead
<1>2. CASE ends(error("manifest file"))
  <2>1. error("manifest file").is = "error"
    BY DEF error
  <2> QED BY <1>1, <1>2, <2>1, StepsOn
<1> DEFINE rec == [id |-> a, status |-> manifest[a], output |-> <<>>]
<1>3. CASE /\ manifest[a] # "torn" /\ UNCHANGED replied
           /\ op' = [op EXCEPT !.at = "output", !.left = @ \ {a}, !.seen = @ \cup {rec}]
  <2>1. /\ op'.at = "output" /\ op'.left = op.left \ {a} /\ op'.seen = op.seen \cup {rec}
        /\ DOMAIN op' = DOMAIN NoOp
    BY <1>3, CallTypes DEF NoOp
  <2>2. rec \in AgentRecord /\ rec.output = <<>> /\ rec.id = a /\ rec.status = manifest[a]
    BY <1>1, <1>3, AgentTypes DEF AgentRecord
  <2>3. job[a] # NoJob
    BY <1>1, AgentsParts DEF AgentOK, FilesFollow
  <2> HIDE DEF rec
  <2>4. \A r \in op.seen : r.output # <<>>
    BY <1>1, CallTypes DEF RecordsRead
  <2>5. RecordsRead'
    BY <1>1, <2>1, <2>2, <2>3, <2>4, CallTypes DEF RecordsRead
  <2>6. RunStops' /\ EndComesWithResult' /\ WaitFollowsSend'
    BY <1>1, <1>3, CallTypes, AnswerKept DEF RunStops
  <2>7. op'.left \subseteq Agents /\ op'.seen \subseteq AgentRecord
    BY <2>1, <2>2, CallTypes
  <2> QED BY <1>1, <2>1, <2>5, <2>6, <2>7, CallTypes, CallMoves
<1> QED
  BY <1>2, <1>3 DEF load_agent_run_record

LEMMA OutputLoaded ==
  ASSUME AgentsInv, NEW r \in op.seen, load_agent_output(r), UNCHANGED scope
  PROVE  AgentsInv'
<1>1. /\ UNCHANGED <<manifest, output, job, changed, botched, thread, stopped, own, replied>>
      /\ op.at = "output" /\ r \in AgentRecord /\ r.output = <<>>
  BY CallTypes DEF load_agent_output, readOnly
<1> DEFINE rec == [r EXCEPT !.output = output[r.id]]
<1>2. /\ op'.at = "load" /\ op'.left = op.left /\ op'.seen = (op.seen \ {r}) \cup {rec}
      /\ DOMAIN op' = DOMAIN NoOp
  BY CallTypes DEF load_agent_output, NoOp
<1>3. r.id \in Agents /\ r.status \in AgentStatuses /\ job[r.id] # NoJob
  BY <1>1, CallTypes DEF AgentRecord, RecordsRead
<1>4. rec \in AgentRecord /\ rec.output = output[r.id] /\ rec.id = r.id /\ rec.status = r.status
  BY <1>1, <1>3, AgentTypes DEF AgentRecord
<1>5. output[r.id] # <<>>
  BY <1>3, AgentsParts DEF AgentOK, FilesFollow
<1>6. r.status \in {"completed", "failed"} => SaysLast(output[r.id], r.status)
  <2>1. r.status \in {"completed", "failed"} => manifest[r.id] = r.status
    BY <1>1, CallTypes DEF RecordsRead
  <2> QED BY <1>3, <2>1, AgentsParts DEF AgentOK, FilesFollow, Ended
<1> HIDE DEF rec
<1>7. \A q \in op.seen \ {r} : q.output # <<>>
  BY <1>1, CallTypes DEF RecordsRead
<1>8. RecordsRead'
  BY <1>1, <1>2, <1>3, <1>4, <1>5, <1>6, <1>7, CallTypes DEF RecordsRead
<1>9. RunStops' /\ EndComesWithResult' /\ WaitFollowsSend'
  BY <1>1, CallTypes, AnswerKept DEF RunStops
<1>10. op'.left \subseteq Agents /\ op'.seen \subseteq AgentRecord
  BY <1>2, <1>4, CallTypes
<1> QED
  BY <1>1, <1>2, <1>8, <1>9, <1>10, CallTypes, CallMoves

(* What a call answers has been read to the end.                           *)
LEMMA RecordFound ==
  ASSUME AgentsInv, find_agent_run_record, UNCHANGED scope
  PROVE  AgentsInv'
<1>1. /\ UNCHANGED <<manifest, output, job, changed, botched, thread, stopped, own>>
      /\ op.at = "load"
  BY DEF find_agent_run_record, readOnly
<1>2. ASSUME NEW rs \in SUBSET op.seen, ends([is |-> "listed", records |-> rs])
      PROVE  AgentsInv'
  <2>1. op' = NoOp /\ replied' = [is |-> "listed", records |-> rs]
    BY <1>2 DEF ends
  <2>2. NoOp.left = {} /\ NoOp.seen = {} /\ NoOp.at # "starting"
    BY DEF NoOp
  <2>3. ASSUME NEW q \in rs, q.status \in {"completed", "failed"}
        PROVE  q.output[Len(q.output)] = q.status
    BY <1>1, <2>3, CallTypes DEF RecordsRead, SaysLast
  <2>4. EndComesWithResult' /\ WaitFollowsSend'
    BY <2>1, <2>3 DEF EndComesWithResult, WaitFollowsSend
  <2>5. RecordsRead' /\ RunStops'
    BY <1>1, <2>1, <2>2, CallTypes DEF RecordsRead, RunStops
  <2> QED BY <1>1, <2>1, <2>2, <2>4, <2>5, CallTypes, CallMoves
<1>3. CASE ends(error("not found"))
  <2>1. error("not found").is = "error"
    BY DEF error
  <2> QED BY <1>1, <1>3, <2>1, StepsOn
<1>4. CASE op' = [op EXCEPT !.at = "agents", !.polls = @ + 1] /\ UNCHANGED replied
  <2>1. op'.at = "agents" /\ op'.left = op.left /\ op'.seen = op.seen /\ DOMAIN op' = DOMAIN NoOp
    BY <1>4, CallTypes DEF NoOp
  <2> QED BY <1>1, <1>4, <2>1, CallGoesOn
<1> QED
  BY <1>2, <1>3, <1>4 DEF find_agent_run_record

LEMMA AgentsMove ==
  ASSUME AgentsInv, AgentsNext
  PROVE  AgentsInv'
<1>0. UNCHANGED scope
  BY DEF AgentsNext
<1>1. ASSUME NEW a \in scope.agents, NEW t \in scope.types, execute_agent_start(a, t)
      PROVE  AgentsInv'
  BY <1>0, <1>1, StartAgent
<1>2. ASSUME NEW a \in scope.agents,
             \/ execute_agent_manifest(a) \/ execute_agent_failed(a) \/ subagent_execute(a)
             \/ run_agent_job(a) \/ persist_agent_terminal_state(a) \/ load_agent_run_record(a)
      PROVE  AgentsInv'
  BY <1>0, <1>2, ManifestAgent, StartFails, AgentRuns, AgentEnds, AgentPersists, RecordLoaded
<1>3. CASE \/ kill \/ save_session \/ discover_session_server_url \/ request_times_out
           \/ serve \/ serve_late \/ server_advances
  BY <1>0, <1>3, Killed, SessionSaved, ServerFound, RequestTimesOut, Served, ServedLate,
     ServerAdvances
<1>4. CASE \/ list_managed_session_records \/ list_agent_run_records \/ find_agent_run_record
           \/ \E r \in op.seen : load_agent_output(r)
  BY <1>0, <1>4, FilesListed, AgentsListed, RecordFound, OutputLoaded
<1>5. ASSUME NEW tool, NEW kind, NEW id, run_session_tool(tool, kind, id)
      PROVE  AgentsInv'
  BY <1>0, <1>5, CallBegins
<1> QED
  BY <1>1, <1>2, <1>3, <1>4, <1>5 DEF AgentsNext, AgentsStep

LEMMA AgentsStart ==
  ASSUME AgentsInit
  PROVE  AgentsInv
<1>1. /\ NoJob \in Records /\ NoJob.status = "none" /\ NoJob.at = "none"
      /\ NoOp.left = {} /\ NoOp.seen = {} /\ NoOp.at = "idle"
  BY DEF Records, NoJob, NoOp
<1>2. /\ manifest \in [Agents -> AgentStatuses \cup {"absent", "torn"}]
      /\ output \in [Agents -> Seq(Sections)] /\ job \in [Agents -> Records]
      /\ changed \in [Agents -> BOOLEAN] /\ botched \in [Agents -> BOOLEAN]
  BY <1>1 DEF AgentsInit
<1>3. AgentTypeOK
  BY <1>1, <1>2 DEF AgentsInit, AgentTypeOK, Records
<1>4. \A a \in Agents : FilesFollow(a)
  BY <1>1 DEF AgentsInit, FilesFollow, Ended
<1>5. Starting /\ RecordsRead /\ RunStops
  BY <1>1 DEF AgentsInit, Starting, RecordsRead, RunStops
<1>6. EndComesWithResult /\ WaitFollowsSend
  BY DEF AgentsInit, EndComesWithResult, WaitFollowsSend
<1>7. ManifestTruthful /\ ReadersDoNotWrite
  BY DEF AgentsInit, ManifestTruthful, ReadersDoNotWrite
<1> QED
  BY <1>3, <1>4, <1>5, <1>6, <1>7 DEF AgentsInv, AgentsSound

LEMMA AgentsIdle ==
  ASSUME AgentsInv, UNCHANGED agentVars
  PROVE  AgentsInv'
<1>1. /\ op' = op /\ replied' = replied /\ own' = own /\ stopped' = stopped /\ thread' = thread
      /\ UNCHANGED <<scope, manifest, output, job, changed, botched>>
  BY DEF agentVars
<1> QED
  BY <1>1, CallGoesOn

(* What a reader is told of a sub-agent is so (MCLocal.AgentRecordsSound): *)
(* persist_agent_terminal_state appends the end to the output before the   *)
(* manifest names it, and the Session tools read the manifest before the   *)
(* output, so a record shown as ended has the output that says so last,    *)
(* whatever fails, is torn or is killed in between; "completed" is a turn  *)
(* that ended, a type with reading tools only has changed nothing, and a   *)
(* SessionWait after an accepted send or resume that reports the thread    *)
(* terminal has seen that run stop.                                        *)
THEOREM AgentsSafe == MCSpec => []AgentRecordsSound
<1>1. MCInit => (part = "agents" => AgentsInv)
  BY AgentsStart DEF MCInit
<1>2. (part = "agents" => AgentsInv) /\
      [MCNext]_<<part, vars, filesVars, bashVars, toolsVars, browserVars, agentVars, lspVars,
                 argsVars, editorVars, installVars, onboardVars, configVars>>
        => (part = "agents" => AgentsInv)'
  BY AgentsMove, AgentsIdle DEF MCNext
<1>3. (part = "agents" => AgentsInv) => AgentRecordsSound
  BY DEF AgentRecordsSound, AgentsInv
<1> QED
  BY <1>1, <1>2, <1>3, PTL DEF MCSpec


-----------------------------------------------------------------------------
(***************************************************************************)
(* The file tools and the bash tool.                                       *)
(***************************************************************************)
LEMMA SmallestElement ==
  ASSUME NEW T, T \subseteq Nat, T # {}
  PROVE  Min(T) \in T
<1>1. PICK x \in T : \A y \in T : ~(<<y, x>> \in OpToRel(<, Nat))
  BY NatLessThanWellFounded, WFMin
<1>a. \A y \in T : ~(y < x)
  BY <1>1 DEF OpToRel
<1>2. \A y \in T : x <= y
  BY <1>a
<1> QED
  BY <1>2 DEF Min

(* replaced changes the first occurrence, or all of them.                  *)
LEMMA ReplacedRight ==
  ASSUME NEW old \in Seq(Tokens), Contains(old, "x"), NEW all \in BOOLEAN,
         NEW out, out = replaced(old, "x", "y", all)
  PROVE  /\ out \in Seq(Tokens) /\ Len(out) = Len(old)
         /\ all => ~Contains(out, "x")
         /\ ~all => \E i \in DOMAIN out : {j \in DOMAIN out : out[j] # old[j]} = {i}
<1> DEFINE first == FirstOf(old, "x")
<1>1. first \in 1..Len(old) /\ old[first] = "x"
  <2> DEFINE T == {i \in 1..Len(old) : old[i] = "x"}
  <2>1. T # {} /\ T \subseteq Nat
    BY DEF Contains
  <2>2. first = Min(T)
    BY <2>1 DEF FirstOf, SelectInSeq
  <2> QED BY <2>1, <2>2, SmallestElement
<1>2. /\ DOMAIN out = 1..Len(old)
      /\ \A i \in 1..Len(old) :
           out[i] = IF old[i] = "x" /\ (all \/ i = first) THEN "y" ELSE old[i]
  BY DEF replaced
<1> HIDE DEF first
<1>3. out = [i \in 1..Len(old) |-> out[i]]
  BY DEF replaced
<1>4. \A i \in 1..Len(old) : out[i] \in Tokens
  BY <1>2 DEF Tokens
<1>5. out \in Seq(Tokens) /\ Len(out) = Len(old)
  <2>1. out \in [1..Len(old) -> Tokens]
    BY <1>3, <1>4
  <2>2. Len(old) \in Nat
    OBVIOUS
  <2> QED BY <2>1, <2>2
<1>6. all => ~Contains(out, "x")
  BY <1>2, <1>5 DEF Contains
<1>7. ASSUME ~all
      PROVE  {j \in DOMAIN out : out[j] # old[j]} = {first}
  BY <1>1, <1>2, <1>7
<1> QED
  BY <1>1, <1>2, <1>5, <1>6, <1>7

LEMMA FilesTypes ==
  ASSUME FilesInv
  PROVE  /\ contents \in [Places -> Seq(Tokens)] /\ link \in {"in", "out"}
         /\ worker \in [Workers -> {IdleWorker} \cup FileCall]
         /\ pager \in [items : Seq(Nat), limit : Nat, offset : Nat, got : Seq(Nat), done : BOOLEAN]
BY DEF FilesInv, FilesTypeOK

(* The places a path may mean, wherever the link points.                   *)
LEMMA Meant ==
  ASSUME NEW p \in ToolPaths
  PROVE  /\ canonicalize(p) \in Places
         /\ canonicalize(p) \in (CASE p = "plain" -> {"root/a"} [] p = "fresh" -> {"root/n/a"}
                                   [] p = "linked" -> {"root/dir/a", "other/a"}
                                   [] p = "up" -> {"parent/a"} [] OTHER -> {"other/a"})
BY DEF canonicalize, Places, ToolPaths

LEMMA JudgedRight ==
  ASSUME NEW p \in ToolPaths, is_within_workspace(p)
  PROVE  p \in {"plain", "linked", "fresh"} /\ (Exists(p) => canonicalize(p) \in Inside)
BY Meant DEF is_within_workspace, resolve_write_target_path, relative_path_within_root, Inside,
             ToolPaths

(* One worker's step.                                                      *)
LEMMA WorkerMoves ==
  ASSUME FilesInv, NEW w \in Workers, NEW c \in FileCall \cup {IdleWorker},
         worker' = [worker EXCEPT ![w] = c], pager' = pager, link' \in {"in", "out"},
         contents' \in [Places -> Seq(Tokens)],
         c # IdleWorker => Judged(c) /\ Resolved(c)
  PROVE  FilesInv'
<1>1. worker' \in [Workers -> {IdleWorker} \cup FileCall] /\ worker'[w] = c
      /\ \A v \in Workers \ {w} : worker'[v] = worker[v]
  BY FilesTypes
<1>2. FilesTypeOK'
  BY <1>1, FilesTypes DEF FilesTypeOK
<1>3. PagesSeen'
  BY DEF FilesInv, PagesSeen
<1>4. ASSUME NEW v \in Workers, worker'[v] # IdleWorker
      PROVE  Judged(worker'[v]) /\ Resolved(worker'[v])
  BY <1>1, <1>4 DEF FilesInv
<1> QED
  BY <1>2, <1>3, <1>4 DEF FilesInv

LEMMA CheckedWrite ==
  ASSUME FilesInv, NEW w \in Workers, check_write(w)
  PROVE  FilesInv'
<1>1. PICK p \in ToolPaths, tool \in {"write", "edit"}, all \in BOOLEAN, c \in Contents :
        worker' = [worker EXCEPT ![w] =
          [step |-> IF is_within_workspace(p) THEN "load" ELSE "refused",
           op |-> tool, path |-> p, all |-> all, content |-> c, at |-> "",
           original |-> Missing, judged |-> canonicalize(p), existed |-> Exists(p)]]
  BY DEF check_write
<1> DEFINE fc == [step |-> IF is_within_workspace(p) THEN "load" ELSE "refused",
                    op |-> tool, path |-> p, all |-> all, content |-> c, at |-> "",
                    original |-> Missing, judged |-> canonicalize(p), existed |-> Exists(p)]
<1>2. c \in Seq(Tokens) /\ Missing \in Seq(Tokens)
  <2>1. "x" \in Tokens /\ "missing" \in Tokens
    BY DEF Tokens
  <2>2. <<"x", "x">> \in Seq(Tokens) /\ <<>> \in Seq(Tokens) /\ <<"missing">> \in Seq(Tokens)
    BY <2>1
  <2>3. c = <<"x", "x">> \/ c = <<>>
    BY DEF Contents
  <2> QED BY <2>2, <2>3 DEF Missing
<1>3. fc \in FileCall
  BY <1>2, Meant DEF FileCall, Exists
<1>4. Judged(fc) /\ Resolved(fc)
  BY JudgedRight DEF Judged, Resolved
<1>5. pager' = pager /\ link' = link /\ contents' = contents
  BY DEF check_write
<1> HIDE DEF fc
<1> QED
  BY <1>1, <1>3, <1>4, <1>5, FilesTypes, WorkerMoves DEF fc

LEMMA LoadedWrite ==
  ASSUME FilesInv, NEW w \in Workers, write_load(w)
  PROVE  FilesInv'
<1>1. worker[w] \in FileCall /\ worker[w].step = "load" /\ worker[w].op = "write"
      /\ worker[w] # IdleWorker
  BY FilesTypes DEF write_load, IdleWorker
<1> DEFINE here == canonicalize(worker[w].path)
           fc == [worker[w] EXCEPT !.step = "store", !.at = here, !.original = contents[here]]
<1>2. Judged(worker[w]) /\ here \in Places
  BY <1>1, Meant DEF FilesInv, FileCall
<1>3. worker' = [worker EXCEPT ![w] = fc]
  BY <1>1, FilesTypes DEF write_load, FileCall
<1>4. fc \in FileCall
  BY <1>1, <1>2, FilesTypes DEF FileCall
<1>5. /\ fc.step = "store" /\ fc.at = here /\ fc.op = "write" /\ fc.path = worker[w].path
      /\ fc.existed = worker[w].existed /\ fc.judged = worker[w].judged
  BY <1>1 DEF FileCall
<1>6. pager' = pager /\ link' = link /\ contents' = contents
  BY DEF write_load
<1> HIDE DEF fc
<1>7. Judged(fc) /\ Resolved(fc)
  <2>1. worker[w].path \in ToolPaths /\ worker[w].path \in {"plain", "linked", "fresh"}
    BY <1>1, <1>2 DEF FileCall, Judged
  <2>2. Judged(fc)
    BY <1>1, <1>2, <1>5 DEF Judged
  <2>3. Resolved(fc)
    BY <1>5, <2>1, Meant DEF Resolved
  <2> QED BY <2>2, <2>3
<1> QED
  BY <1>3, <1>4, <1>6, <1>7, FilesTypes, WorkerMoves

LEMMA LoadedEdit ==
  ASSUME FilesInv, NEW w \in Workers, edit_load(w)
  PROVE  FilesInv'
<1>1. worker[w] \in FileCall /\ worker[w].step = "load" /\ worker[w].op = "edit"
      /\ worker[w] # IdleWorker
  BY FilesTypes DEF edit_load, IdleWorker
<1> DEFINE here == canonicalize(worker[w].path)
           there == contents[here]
           has == there # Missing /\ Contains(there, "x")
           stored == IF there # Missing THEN replaced(there, "x", "y", worker[w].all)
                     ELSE worker[w].content
           fc == [worker[w] EXCEPT !.step = IF has THEN "store" ELSE "failed", !.at = here,
                                     !.original = there, !.content = stored]
<1>2. Judged(worker[w]) /\ here \in Places /\ there \in Seq(Tokens) /\ worker[w].all \in BOOLEAN
  BY <1>1, Meant, FilesTypes DEF FilesInv, FileCall
<1>3. worker' = [worker EXCEPT ![w] = fc]
  BY <1>1, FilesTypes DEF edit_load, FileCall
<1>4. stored \in Seq(Tokens)
  <2>1. CASE has
    BY <1>2, <2>1, ReplacedRight
  <2>2. CASE there # Missing /\ ~Contains(there, "x")
    <3>1. replaced(there, "x", "y", worker[w].all) = [i \in 1..Len(there) |-> there[i]]
      BY <1>2, <2>2 DEF replaced, Contains
    <3>2. [i \in 1..Len(there) |-> there[i]] \in Seq(Tokens)
      BY <1>2
    <3> QED BY <2>2, <3>1, <3>2
  <2>3. CASE there = Missing
    BY <1>1, <2>3 DEF FileCall
  <2> QED BY <2>1, <2>2, <2>3
<1> HIDE DEF stored, there, here
<1>5. fc \in FileCall
  BY <1>1, <1>2, <1>4 DEF FileCall
<1>6. /\ fc.step = (IF has THEN "store" ELSE "failed") /\ fc.at = here /\ fc.op = "edit"
      /\ fc.path = worker[w].path /\ fc.all = worker[w].all
      /\ fc.original = there /\ fc.content = stored
      /\ fc.existed = worker[w].existed /\ fc.judged = worker[w].judged
  BY <1>1 DEF FileCall
<1>7. pager' = pager /\ link' = link /\ contents' = contents
  BY DEF edit_load
<1> HIDE DEF fc
<1>8. Judged(fc) /\ Resolved(fc)
  <2>1. worker[w].path \in ToolPaths /\ worker[w].path \in {"plain", "linked", "fresh"}
    BY <1>1, <1>2 DEF FileCall, Judged
  <2>2. Judged(fc)
    BY <1>1, <1>2, <1>6 DEF Judged
  <2>3. has => stored = replaced(there, "x", "y", worker[w].all)
    BY DEF stored
  <2>4. here \in (CASE worker[w].path = "plain" -> {"root/a"} [] worker[w].path = "fresh" -> {"root/n/a"}
                    [] OTHER -> {"root/dir/a", "other/a"})
    BY <2>1, Meant DEF here
  <2>5. Resolved(fc)
    BY <1>6, <2>3, <2>4 DEF Resolved
  <2> QED BY <2>2, <2>5
<1> QED
  BY <1>3, <1>5, <1>7, <1>8, FilesTypes, WorkerMoves

LEMMA Stored ==
  ASSUME FilesInv, NEW w \in Workers, store(w)
  PROVE  FilesInv'
<1>1. worker[w] \in FileCall /\ worker[w].step = "store" /\ worker[w] # IdleWorker
  BY FilesTypes DEF store, IdleWorker
<1> DEFINE fc == [worker[w] EXCEPT !.step = "done"]
<1>2. Judged(worker[w]) /\ Resolved(worker[w])
  BY <1>1 DEF FilesInv
<1>3. worker' = [worker EXCEPT ![w] = fc]
  BY <1>1, FilesTypes DEF store
<1>4. fc \in FileCall
  BY <1>1 DEF FileCall
<1>5. /\ fc.step = "done" /\ fc.at = worker[w].at /\ fc.op = worker[w].op
      /\ fc.path = worker[w].path /\ fc.all = worker[w].all
      /\ fc.original = worker[w].original /\ fc.content = worker[w].content
      /\ fc.existed = worker[w].existed /\ fc.judged = worker[w].judged
  BY <1>1 DEF FileCall
<1>6. pager' = pager /\ link' = link /\ contents' \in [Places -> Seq(Tokens)]
  BY <1>1, FilesTypes DEF store, FileCall
<1> HIDE DEF fc
<1>7. Judged(fc) /\ Resolved(fc)
  BY <1>1, <1>2, <1>5 DEF Judged, Resolved
<1> QED
  BY <1>3, <1>4, <1>6, <1>7, FilesTypes, WorkerMoves

(* Pages: what is read so far and one more.                                *)
LEMMA OneMore ==
  ASSUME NEW xs \in Seq(Nat), NEW n \in 0..Len(xs), NEW m \in n..Len(xs)
  PROVE  SubSeq(xs, 1, n) \o SubSeq(xs, n + 1, m) = SubSeq(xs, 1, m)
<1> DEFINE front == SubSeq(xs, 1, n)
           back == SubSeq(xs, n + 1, m)
           whole == SubSeq(xs, 1, m)
<1>0. Len(xs) \in Nat /\ n \in Nat /\ m \in Nat /\ n <= m /\ m <= Len(xs)
  OBVIOUS
<1>1. front \in Seq(Nat) /\ Len(front) = n /\ \A i \in 1..n : front[i] = xs[i]
  BY <1>0
<1>2. back \in Seq(Nat) /\ Len(back) = m - n /\ \A i \in 1..(m - n) : back[i] = xs[n + i]
  <2>1. n + 1 \in Int /\ m \in Int /\ \A i \in (n + 1)..m : xs[i] \in Nat
    BY <1>0
  <2>2. /\ back \in Seq(Nat) /\ Len(back) = IF n + 1 <= m THEN m - (n + 1) + 1 ELSE 0
        /\ \A i \in 1..(m - (n + 1) + 1) : back[i] = xs[(n + 1) + i - 1]
    BY <2>1, SubSeqProperties
  <2>3. m - (n + 1) + 1 = m - n /\ \A i \in 1..(m - n) : (n + 1) + i - 1 = n + i
    BY <1>0
  <2> HIDE DEF back
  <2>4. Len(back) = m - n
    BY <1>0, <2>2
  <2> QED BY <2>2, <2>3, <2>4
<1>3. whole \in Seq(Nat) /\ Len(whole) = m /\ \A i \in 1..m : whole[i] = xs[i]
  BY <1>0
<1> HIDE DEF front, back, whole
<1> DEFINE both == front \o back
<1>a. /\ both \in Seq(Nat) /\ Len(both) = Len(front) + Len(back)
      /\ \A i \in 1..(Len(front) + Len(back)) :
           both[i] = IF i <= Len(front) THEN front[i] ELSE back[i - Len(front)]
  BY <1>1, <1>2, ConcatProperties
<1> HIDE DEF both
<1>b. Len(front) + Len(back) = m
  BY <1>0, <1>1, <1>2
<1>4. \A i \in 1..m : both[i] = IF i <= n THEN front[i] ELSE back[i - n]
  BY <1>a, <1>b, <1>1
<1>5. both \in Seq(Nat) /\ Len(both) = m
  BY <1>a, <1>b
<1>6. ASSUME NEW i \in 1..m PROVE both[i] = whole[i]
  <2>1. CASE i <= n
    <3>1. both[i] = front[i] /\ i \in 1..n
      BY <1>4, <2>1, <1>0
    <3> QED BY <1>1, <1>3, <3>1
  <2>2. CASE ~(i <= n)
    <3>1. both[i] = back[i - n] /\ i - n \in 1..(m - n) /\ n + (i - n) = i
      BY <1>4, <2>2, <1>0
    <3> QED BY <1>2, <1>3, <3>1
  <2> QED BY <2>1, <2>2
<1>7. both = whole
  BY <1>3, <1>5, <1>6, SeqEqual
<1> QED
  BY <1>7 DEF front, back, whole, both

(* A page is the next limit items, or what is left of them.                *)
LEMMA PageTaken ==
  ASSUME NEW xs \in Seq(Nat), NEW n \in 0..Len(xs), NEW k \in Nat
  PROVE  /\ page_of(xs, k, n).more = (k # 0 /\ Len(xs) - n > k)
         /\ page_of(xs, k, n).items =
              SubSeq(xs, n + 1, IF k # 0 /\ Len(xs) - n > k THEN n + k ELSE Len(xs))
<1> DEFINE rest == SubSeq(xs, n + 1, Len(xs))
<1>0. Len(xs) \in Nat /\ n \in Nat /\ n <= Len(xs)
  OBVIOUS
<1>1. rest \in Seq(Nat) /\ Len(rest) = Len(xs) - n
  BY <1>0
<1>2. page_of(xs, k, n) =
        [items |-> IF k = 0 THEN rest ELSE SubSeq(rest, 1, IF k < Len(rest) THEN k ELSE Len(rest)),
         more |-> k # 0 /\ Len(rest) > k]
  BY DEF page_of
<1>3. page_of(xs, k, n).more = (k # 0 /\ Len(xs) - n > k)
  BY <1>1, <1>2
<1>4. page_of(xs, k, n).items =
        IF k = 0 THEN rest ELSE SubSeq(rest, 1, IF k < Len(rest) THEN k ELSE Len(rest))
  BY <1>2
<1>5. CASE k # 0 /\ Len(xs) - n > k
  <2>1. page_of(xs, k, n).items = SubSeq(rest, 1, k)
    BY <1>1, <1>4, <1>5
  <2>2. SubSeq(rest, 1, k) = SubSeq(xs, n + 1, n + k)
    <3> DEFINE a == n + 1
               b == Len(xs)
    <3>1. /\ a \in 1..Len(xs) /\ b \in 1..Len(xs) /\ 1 \in 1..(b - a + 1) /\ k \in 1..(b - a + 1)
          /\ a + 1 - 1 = n + 1 /\ a + k - 1 = n + k
      BY <1>0, <1>5
    <3> HIDE DEF a, b
    <3>2. SubSeq(SubSeq(xs, a, b), 1, k) = SubSeq(xs, a + 1 - 1, a + k - 1)
      BY <3>1, SubSeqOfSubSeq
    <3> QED BY <3>1, <3>2 DEF a, b
  <2> QED BY <1>3, <1>5, <2>1, <2>2
<1>6. CASE ~(k # 0 /\ Len(xs) - n > k)
  <2>1. SubSeq(rest, 1, Len(rest)) = rest
    BY <1>1, SubSeqFull
  <2>2. page_of(xs, k, n).items = rest
    BY <1>0, <1>1, <1>4, <1>6, <2>1
  <2> QED BY <1>3, <1>6, <2>2
<1> QED
  BY <1>5, <1>6

LEMMA PageRead ==
  ASSUME FilesInv, next_page
  PROVE  FilesInv'
<1> DEFINE xs == pager.items
           n == pager.offset
           k == pager.limit
           p == page_of(xs, k, n)
<1>1. /\ ~pager.done /\ xs \in Seq(Nat) /\ Len(xs) \in Nat /\ k \in Nat /\ n \in 0..Len(xs)
      /\ pager.got = SubSeq(xs, 1, n)
  BY FilesTypes DEF next_page, FilesInv, PagesSeen
<1>2. pager' = [pager EXCEPT !.got = @ \o p.items, !.offset = @ + pager.limit, !.done = ~p.more]
  BY DEF next_page, apply_limit
<1>3. /\ p.more = (k # 0 /\ Len(xs) - n > k)
      /\ p.items = SubSeq(xs, n + 1, IF k # 0 /\ Len(xs) - n > k THEN n + k ELSE Len(xs))
  BY <1>1, PageTaken
<1> HIDE DEF p
<1>4. /\ pager'.items = xs /\ pager'.limit = k /\ pager'.offset = n + k
      /\ pager'.got = pager.got \o p.items /\ pager'.done = ~p.more
      /\ pager' = [items |-> xs, limit |-> k, offset |-> n + k, got |-> pager.got \o p.items,
                   done |-> ~p.more]
  BY <1>2, FilesTypes
<1> HIDE DEF xs, n, k
<1>5. PagesSeen' /\ pager'.got \in Seq(Nat)
  <2>1. CASE k # 0 /\ Len(xs) - n > k
    <3>1. n + k \in n..Len(xs) /\ n + k <= Len(xs)
      BY <1>1, <2>1
    <3>2. p.items = SubSeq(xs, n + 1, n + k) /\ pager'.done = FALSE
      BY <1>3, <1>4, <2>1
    <3>3. pager'.got = SubSeq(xs, 1, n + k)
      BY <1>1, <1>4, <3>1, <3>2, OneMore
    <3>4. SubSeq(xs, 1, n + k) \in Seq(Nat)
      BY <1>1, <3>1
    <3> QED BY <1>4, <3>1, <3>2, <3>3, <3>4 DEF PagesSeen
  <2>2. CASE ~(k # 0 /\ Len(xs) - n > k)
    <3>1. Len(xs) \in n..Len(xs)
      BY <1>1
    <3>2. p.items = SubSeq(xs, n + 1, Len(xs)) /\ pager'.done = TRUE
      BY <1>3, <1>4, <2>2
    <3>3. pager'.got = SubSeq(xs, 1, Len(xs))
      BY <1>1, <1>4, <3>1, <3>2, OneMore
    <3>4. pager'.got = xs
      BY <1>1, <3>3, SubSeqFull
    <3> QED BY <1>1, <1>4, <3>2, <3>4 DEF PagesSeen
  <2> QED BY <2>1, <2>2
<1>6. pager' \in [items : Seq(Nat), limit : Nat, offset : Nat, got : Seq(Nat), done : BOOLEAN]
  <2>1. (~p.more) \in BOOLEAN /\ n + k \in Nat
    BY <1>1, <1>3
  <2> QED BY <1>1, <1>4, <1>5, <2>1
<1>7. UNCHANGED <<contents, link, worker>>
  BY DEF next_page
<1> QED
  BY <1>5, <1>6, <1>7, FilesTypes DEF FilesInv, FilesTypeOK

LEMMA FilesMove ==
  ASSUME FilesInv, FilesNext
  PROVE  FilesInv'
<1>1. ASSUME NEW w \in Workers, finish_call(w)
      PROVE  FilesInv'
  BY <1>1, FilesTypes, WorkerMoves DEF finish_call
<1>2. CASE relink
  <2>1. link' \in {"in", "out"} /\ UNCHANGED <<contents, worker, pager>>
    BY <1>2 DEF relink
  <2> QED BY <2>1, FilesTypes DEF FilesInv, FilesTypeOK, PagesSeen
<1> QED
  BY <1>1, <1>2, CheckedWrite, LoadedWrite, LoadedEdit, Stored, PageRead DEF FilesNext

LEMMA FilesStart ==
  ASSUME FilesInit
  PROVE  FilesInv
<1>1. <<"x", "x">> \in Seq(Tokens) /\ Missing \in Seq(Tokens)
  <2>1. "x" \in Tokens /\ "missing" \in Tokens
    BY DEF Tokens
  <2> QED BY <2>1 DEF Missing
<1>2. PICK xs \in Listings, n \in Limits :
        pager = [items |-> xs, limit |-> n, offset |-> 0, got |-> <<>>, done |-> FALSE]
  BY DEF FilesInit
<1>3. xs \in Seq(Nat) /\ n \in Nat
  BY FilesAssumption
<1>4. /\ pager \in [items : Seq(Nat), limit : Nat, offset : Nat, got : Seq(Nat), done : BOOLEAN]
      /\ PagesSeen
  <2>1. SubSeq(xs, 1, 0) = <<>> /\ Len(xs) \in Nat
    BY <1>3, SubSeqEmpty
  <2> QED BY <1>2, <1>3, <2>1 DEF PagesSeen
<1>5. FilesTypeOK
  BY <1>1, <1>4 DEF FilesInit, FilesTypeOK
<1> QED
  BY <1>4, <1>5 DEF FilesInit, FilesInv

LEMMA FilesIdle ==
  ASSUME FilesInv, UNCHANGED filesVars
  PROVE  FilesInv'
BY DEF filesVars, FilesInv, FilesTypeOK, PagesSeen

LEMMA FilesSound ==
  ASSUME FilesInv
  PROVE  WritesStayInside /\ EditsAreLocal /\ PagesComplete
<1>1. PagesComplete
  BY DEF FilesInv, PagesSeen, PagesComplete
<1>2. ASSUME NEW w \in Workers, worker[w].step \in {"store", "done"}
      PROVE  /\ worker[w] \in FileCall /\ Judged(worker[w]) /\ Resolved(worker[w])
  BY <1>2, FilesTypes DEF FilesInv, IdleWorker
<1>3. ASSUME NEW w \in Workers, worker[w].step \in {"store", "done"}
      PROVE  \/ worker[w].at \in Inside
             \/ worker[w].path = "linked" /\ (~worker[w].existed \/ worker[w].judged # worker[w].at)
  BY <1>2, <1>3 DEF Judged, Resolved, Inside
<1>4. ASSUME NEW w \in Workers, worker[w].step \in {"store", "done"}, worker[w].op = "edit"
      PROVE  /\ Len(worker[w].content) = Len(worker[w].original)
             /\ worker[w].all => ~Contains(worker[w].content, "x")
             /\ ~worker[w].all =>
                  \E i \in DOMAIN worker[w].content :
                    {j \in DOMAIN worker[w].content : worker[w].content[j] # worker[w].original[j]} = {i}
  <2>1. /\ worker[w].original \in Seq(Tokens) /\ worker[w].all \in BOOLEAN
        /\ Contains(worker[w].original, "x")
        /\ worker[w].content = replaced(worker[w].original, "x", "y", worker[w].all)
    BY <1>2, <1>4 DEF FileCall, Resolved
  <2> QED BY <2>1, ReplacedRight
<1>5. EditsAreLocal
  BY <1>4 DEF EditsAreLocal
<1> QED
  BY <1>1, <1>3, <1>5 DEF WritesStayInside

(* The bash tool.                                                          *)
LEMMA Submitted ==
  ASSUME BashInv, submit
  PROVE  BashInv'
<1>1. /\ bash.policy \in SandboxConfig /\ bash.may_disable \in BOOLEAN /\ bash.unshare \in BOOLEAN
      /\ process = NoProcess /\ process' = process
  BY DEF submit, BashInv
<1>2. PICK o \in Overrides :
        IF validate_override(bash.policy, bash.may_disable, o)
        THEN LET request_ == resolve_request(bash.policy, o) IN
             bash' = [stage |-> "accepted", policy |-> bash.policy,
                      may_disable |-> bash.may_disable,
                      request |-> request_, status |-> Status(request_, bash.unshare)]
        ELSE bash' = [stage |-> "refused"]
  BY DEF submit
<1>3. Confined'
  BY <1>1 DEF Confined, NoProcess
<1>4. CASE validate_override(bash.policy, bash.may_disable, o)
  <2> DEFINE asks == resolve_request(bash.policy, o)
             holds == Status(asks, bash.unshare)
  <2>1. /\ bash'.stage = "accepted" /\ bash'.policy = bash.policy
        /\ bash'.may_disable = bash.may_disable
        /\ bash'.request = asks /\ bash'.status = holds
    BY <1>2, <1>4
  <2>2. Accepted'
    BY <1>1, <1>4, <2>1 DEF Accepted
  <2> QED BY <1>3, <2>1, <2>2 DEF BashInv
<1>5. CASE ~validate_override(bash.policy, bash.may_disable, o)
  <2>1. bash'.stage = "refused"
    BY <1>2, <1>5
  <2> QED BY <1>3, <2>1 DEF BashInv, Accepted
<1> QED
  BY <1>4, <1>5

LEMMA BashMoves ==
  ASSUME BashInv, BashNext
  PROVE  BashInv'
<1>1. ASSUME bash' = bash, Confined', bash.stage # "new"
      PROVE  BashInv'
  BY <1>1 DEF BashInv, Accepted
<1>2. CASE spawn
  <2>1. bash.stage = "accepted" /\ bash' = bash
    BY <1>2 DEF spawn
  <2>2. Confined'
    <3>1. ASSUME NEW far \in BOOLEAN, NEW timed \in BOOLEAN,
                 process' = [state |-> "running", timeout |-> timed,
                             confined |-> build_linux_sandbox_command(bash.status),
                             answer |-> IF far THEN "background" ELSE "none"]
          PROVE  Confined'
      <4>1. /\ process'.state = "running" /\ process'.answer \in {"none", "background"}
            /\ process'.confined = build_linux_sandbox_command(bash.status)
            /\ DOMAIN process' = DOMAIN NoProcess
        BY <3>1 DEF NoProcess
      <4> QED BY <2>1, <4>1 DEF Confined
    <3>2. ASSUME process' = [NoProcess EXCEPT !.state = "failed", !.answer = "error"]
          PROVE  Confined'
      <4>1. process'.state = "failed"
        BY <3>2 DEF NoProcess
      <4> QED BY <3>2, <4>1 DEF Confined
    <3> QED BY <1>2, <3>1, <3>2 DEF spawn
  <2> QED BY <1>1, <2>1, <2>2
<1>3. CASE exit
  <2>1. /\ bash.stage = "accepted" /\ bash' = bash /\ process.state = "running"
        /\ process.confined = build_linux_sandbox_command(bash.status)
        /\ process.answer \in {"none", "background", "interrupted"}
        /\ DOMAIN process = DOMAIN NoProcess
    BY <1>3 DEF exit, BashInv, Confined
  <2>2. /\ process'.state = "exited" /\ process'.confined = process.confined
        /\ process'.answer \in {"none", "background", "interrupted", "output"}
        /\ DOMAIN process' = DOMAIN NoProcess
    BY <1>3, <2>1 DEF exit, NoProcess
  <2> QED BY <1>1, <2>1, <2>2 DEF Confined
<1>4. CASE time_out
  <2>1. /\ bash.stage = "accepted" /\ bash' = bash /\ process.state = "running"
        /\ process.confined = build_linux_sandbox_command(bash.status)
        /\ DOMAIN process = DOMAIN NoProcess
    BY <1>4 DEF time_out, BashInv, Confined
  <2>2. /\ process'.state = "running" /\ process'.confined = process.confined
        /\ process'.answer = "interrupted" /\ DOMAIN process' = DOMAIN NoProcess
    BY <1>4, <2>1 DEF time_out, NoProcess
  <2> QED BY <1>1, <2>1, <2>2 DEF Confined
<1> QED
  BY <1>2, <1>3, <1>4, Submitted DEF BashNext

LEMMA BashStart ==
  ASSUME BashInit
  PROVE  BashInv
<1>1. /\ bash.stage = "new" /\ bash.policy \in SandboxConfig /\ bash.may_disable \in BOOLEAN
      /\ bash.unshare \in BOOLEAN /\ process = NoProcess
  BY DEF BashInit
<1>2. NoProcess.state = "none"
  BY DEF NoProcess
<1> QED
  BY <1>1, <1>2 DEF BashInv, Accepted, Confined

LEMMA BashIdle ==
  ASSUME BashInv, UNCHANGED bashVars
  PROVE  BashInv'
BY DEF bashVars, BashInv, Accepted, Confined

(* A call that is let through is within the policy, field by field.        *)
WithinLimits(policy, may, bare, asks) ==
  /\ bare.enabled /\ ~may => asks.enabled
  /\ policy.namespace = "yes" => asks.namespace
  /\ policy.network = "yes" => asks.network
  /\ policy.filesystem # NotSet =>
       filesystem_mode_rank(asks.filesystem) >= filesystem_mode_rank(bare.filesystem)
  /\ asks.mounts \subseteq policy.mounts

NoOptions == [disable |-> NotSet, namespace |-> NotSet, network |-> NotSet, filesystem |-> NotSet,
              mounts |-> {NotSet}]

LEMMA WithinPolicy ==
  ASSUME NEW policy \in SandboxConfig, NEW may \in BOOLEAN, NEW o \in Overrides,
         validate_override(policy, may, o)
  PROVE  WithinLimits(policy, may, resolve_request(policy, NoOptions), resolve_request(policy, o))
<1> DEFINE plain == resolve_request(policy, NoOptions)
           asks == resolve_request(policy, o)
<1>1. policy.enabled # "no" /\ ~may => asks.enabled
  BY DEF validate_override, resolve_request, Overrides, Flags, NotSet
<1>2. plain.enabled = (policy.enabled # "no")
  BY DEF resolve_request, NotSet, NoOptions
<1>3. policy.namespace = "yes" => asks.namespace
  BY DEF validate_override, resolve_request, unwrap_or, Overrides, Flags, NotSet
<1>4. policy.network = "yes" => asks.network
  BY DEF validate_override, resolve_request, unwrap_or, Overrides, Flags, NotSet
<1>5. policy.filesystem # NotSet =>
        filesystem_mode_rank(asks.filesystem) >= filesystem_mode_rank(plain.filesystem)
  <2>1. SUFFICES ASSUME policy.filesystem # NotSet
                 PROVE  filesystem_mode_rank(asks.filesystem) >= filesystem_mode_rank(plain.filesystem)
    OBVIOUS
  <2>2. plain.filesystem = policy.filesystem
    BY <2>1 DEF resolve_request, unwrap_or, NoOptions
  <2>3. asks.filesystem = IF o.filesystem = NotSet THEN policy.filesystem ELSE o.filesystem
    BY <2>1 DEF resolve_request, unwrap_or
  <2>4. o.filesystem # NotSet =>
          filesystem_mode_rank(o.filesystem) >= filesystem_mode_rank(policy.filesystem)
    BY <2>1 DEF validate_override
  <2>5. filesystem_mode_rank(policy.filesystem) \in Nat
    BY DEF filesystem_mode_rank
  <2> QED BY <2>2, <2>3, <2>4, <2>5
<1>6. asks.mounts \subseteq policy.mounts
  BY DEF validate_override, resolve_request, SandboxConfig
<1> QED
  BY <1>1, <1>2, <1>3, <1>4, <1>5, <1>6 DEF WithinLimits

LEMMA BashSound ==
  ASSUME BashInv
  PROVE  ProfileIsCeiling /\ IsolationOrReason /\ OutputMeansExited
<1>1. ProfileIsCeiling
  <2>1. SUFFICES ASSUME bash.stage = "accepted"
                 PROVE  ProfileIsCeiling
    BY DEF ProfileIsCeiling
  <2>2. PICK o \in Overrides : /\ validate_override(bash.policy, bash.may_disable, o)
                               /\ bash.request = resolve_request(bash.policy, o)
    BY <2>1 DEF BashInv, Accepted
  <2>3. bash.policy \in SandboxConfig /\ bash.may_disable \in BOOLEAN
    BY <2>1 DEF BashInv, Accepted
  <2>4. WithinLimits(bash.policy, bash.may_disable, resolve_request(bash.policy, NoOptions),
                     resolve_request(bash.policy, o))
    BY <2>2, <2>3, WithinPolicy, Zenon
  <2>5. WithinLimits(bash.policy, bash.may_disable, resolve_request(bash.policy, NoOptions),
                     bash.request)
    BY <2>2, <2>4, Zenon
  <2> QED BY <2>5 DEF ProfileIsCeiling, WithinLimits, NoOptions
<1>2. IsolationOrReason
  <2>1. SUFFICES ASSUME process.state \in {"running", "exited"}, bash.request.enabled,
                        ~bash.status.fallback
                 PROVE  /\ bash.request.namespace => "namespaces" \in process.confined
                        /\ bash.request.network => "network" \in process.confined
                        /\ bash.request.filesystem # "off" => "home" \in process.confined
    BY DEF IsolationOrReason
  <2>2. bash.stage = "accepted" /\ process.confined = build_linux_sandbox_command(bash.status)
    BY <2>1 DEF BashInv, Confined
  <2>3. PICK u \in BOOLEAN : bash.status = Status(bash.request, u)
    BY <2>2 DEF BashInv, Accepted
  <2>4. /\ bash.status.namespace_active = (bash.request.enabled /\ bash.request.namespace /\ u)
        /\ bash.status.network_active = (bash.request.enabled /\ bash.request.network /\ u)
        /\ bash.status.filesystem_active = (bash.request.enabled /\ bash.request.filesystem # "off")
        /\ bash.status.fallback = fallback_reason(bash.request, u)
    BY <2>3 DEF Status
  <2>5. bash.request.namespace \/ bash.request.network => u
    BY <2>1, <2>4 DEF fallback_reason
  <2> QED BY <2>1, <2>2, <2>4, <2>5 DEF build_linux_sandbox_command
<1>3. OutputMeansExited
  <2>1. NoProcess.answer = "none" /\ [NoProcess EXCEPT !.state = "failed", !.answer = "error"].answer = "error"
    BY DEF NoProcess
  <2> QED BY <2>1 DEF BashInv, Confined, OutputMeansExited
<1> QED
  BY <1>1, <1>2, <1>3

(* What the file and shell tools promise (MCLocal.FilesAndShellSound).     *)
(* check_file_write judges a path and write_file and edit_file resolve it  *)
(* again: a write lands inside the workspace but for a link that was       *)
(* missing or moved in between; edit_file stores what it read with one, or *)
(* every, occurrence replaced; apply_limit's pages are all the matches.    *)
(* validate_override lets no call below the profile's sandbox,             *)
(* resolve_sandbox_status_for_request names what is not in force, and only *)
(* a process that is over answers with its output.                         *)
THEOREM FilesAndShellSafe == MCSpec => []FilesAndShellSound
<1>1. MCInit => (part = "files" => FilesInv) /\ (part = "bash" => BashInv)
  BY FilesStart, BashStart DEF MCInit
<1>2. (part = "files" => FilesInv) /\ (part = "bash" => BashInv) /\
      [MCNext]_<<part, vars, filesVars, bashVars, toolsVars, browserVars, agentVars, lspVars,
                 argsVars, editorVars, installVars, onboardVars, configVars>>
        => ((part = "files" => FilesInv) /\ (part = "bash" => BashInv))'
  BY FilesMove, FilesIdle, BashMoves, BashIdle DEF MCNext
<1>3. (part = "files" => FilesInv) /\ (part = "bash" => BashInv) => FilesAndShellSound
  BY FilesSound, BashSound DEF FilesAndShellSound
<1> QED
  BY <1>1, <1>2, <1>3, PTL DEF MCSpec


-----------------------------------------------------------------------------
(***************************************************************************)
(* The browser tools.                                                      *)
(***************************************************************************)
LEMMA BrowserParts ==
  ASSUME BrowserInv
  PROVE  /\ BrowserTypeOK /\ InputPassed /\ BrowserStarted /\ Wire /\ ClickedOnce /\ Reported
         /\ ValidatedIsHandled /\ ReportFollowsClick /\ BrowserGone /\ input \in AllInputs
BY BrowserAssumption DEF BrowserInv, BrowserSound, BrowserTypeOK

LEMMA BrowserMade ==
  ASSUME BrowserTypeOK', InputPassed', BrowserStarted', Wire', ClickedOnce', Reported',
         ValidatedIsHandled', ReportFollowsClick', BrowserGone'
  PROVE  BrowserInv'
BY DEF BrowserInv, BrowserSound

(* The phases are what they are called.                                    *)
LEMMA PhaseNames ==
  /\ Session = {"load", "probe", "click", "capture", "screenshot"}
  /\ Launching = {"port", "target", "connect"}
BY DEF Session, Launching

(* An input that passes names a wait that is supported, with its value.    *)
LEMMA PassedIsHandled ==
  ASSUME NEW i \in AllInputs,
         \/ i.tool = "observe" /\ validate_browser_observe_input(i)
         \/ i.tool = "interact" /\ validate_browser_interact_input(i)
  PROVE  /\ report_needs(i) # "unsupported"
         /\ report_needs(i) = "value" => i.value
BY DEF AllInputs, validate_browser_observe_input, validate_browser_interact_input, report_needs

LEMMA ValidatedHolds ==
  ASSUME InputPassed', input' \in AllInputs, BrowserTypeOK',
         report'.is = "error" => report'.why # "unsupported"
  PROVE  ValidatedIsHandled'
<1>1. ASSUME phase' \notin {"start", "done"}
      PROVE  \/ input'.tool = "observe" /\ validate_browser_observe_input(input')
             \/ input'.tool = "interact" /\ validate_browser_interact_input(input')
  BY <1>1 DEF InputPassed, BrowserTypeOK
<1>2. ASSUME phase' \notin {"start", "done"}
      PROVE  /\ report_needs(input') # "unsupported"
             /\ report_needs(input') = "value" => input'.value
  BY <1>1, <1>2, PassedIsHandled
<1> QED
  BY <1>2 DEF ValidatedIsHandled

(* A call that ends.                                                       *)
LEMMA CallOver ==
  ASSUME BrowserInv, phase' = "done", input' = input, page' \in BrowserPage, dir' \in BOOLEAN,
         child' \in {"none", "starting", "listening", "exited", "killed"},
         inbox' \in Seq(WireMessage), UNCHANGED <<asked, request_id, clicks>>, waiting' \in Nat,
         asked = <<>> \/ child' = "killed",
         report'.is = "error" => report'.why # "unsupported",
         report'.is = "ok" /\ input.tool = "interact" =>
           clicks = 1 /\ report'.clicks = 1 /\ Satisfied(report'.state),
         \/ child' \in {"none", "exited", "killed"} /\ ~dir'
         \/ report'.is = "error" /\
            report'.why \in {"spawn failed", "exited early", "port timeout", "no target", "handshake"}
  PROVE  BrowserInv'
<1>1. BrowserTypeOK'
  BY BrowserParts DEF BrowserTypeOK
<1>2. InputPassed' /\ BrowserStarted' /\ Reported'
  BY PhaseNames DEF InputPassed, BrowserStarted, Reported
<1>3. Wire'
  BY PhaseNames DEF Wire
<1>4. ClickedOnce'
  BY BrowserParts DEF ClickedOnce
<1>5. ValidatedIsHandled'
  BY <1>1, <1>2, BrowserParts, ValidatedHolds
<1>6. ReportFollowsClick'
  BY BrowserParts DEF ReportFollowsClick, Ok, Satisfied
<1>7. BrowserGone'
  BY DEF BrowserGone
<1> QED
  BY <1>1, <1>2, <1>3, <1>4, <1>5, <1>6, <1>7, BrowserMade

(* Before the session nothing has been sent or clicked, and nothing is     *)
(* reported.                                                               *)
LEMMA BeforeSession ==
  ASSUME BrowserInv, phase \notin Session \cup {"done"}
  PROVE  /\ inbox = <<>> /\ waiting = 0 /\ clicks = 0 /\ report.is = "none"
         /\ asked = <<>> \/ child = "killed"
BY BrowserParts, PhaseNames DEF Wire, ClickedOnce, Reported

(* A step of a call that has not reached its session.                      *)
LEMMA GoesAhead ==
  ASSUME BrowserInv, phase \notin Session \cup {"done"},
         phase' \in {"dump", "observe_shot"} \cup Launching \cup {"load"},
         input' = input, page' \in BrowserPage, dir' \in BOOLEAN,
         child' \in {"none", "starting", "listening", "exited", "killed"},
         UNCHANGED <<asked, inbox, request_id, waiting, clicks, report>>,
         asked = <<>>, InputPassed', BrowserStarted'
  PROVE  BrowserInv'
<1>1. BrowserTypeOK'
  BY BrowserParts, PhaseNames DEF BrowserTypeOK
<1>2. NoAnswer'
  BY BeforeSession DEF NoAnswer
<1>3. Wire'
  BY <1>2, BeforeSession, PhaseNames DEF Wire
<1>a. clicks' = 0 /\ report'.is = "none" /\ phase' \notin {"click", "capture", "screenshot", "done"}
  BY BeforeSession, PhaseNames
<1>b. ClickedOnce' /\ Reported' /\ BrowserGone'
  BY <1>a DEF ClickedOnce, Reported, BrowserGone
<1>c. ReportFollowsClick'
  BY <1>a DEF ReportFollowsClick, Ok
<1>4. ClickedOnce' /\ Reported' /\ ReportFollowsClick' /\ BrowserGone'
  BY <1>b, <1>c
<1>5. ValidatedIsHandled'
  BY <1>1, BeforeSession, BrowserParts, ValidatedHolds
<1> QED
  BY <1>1, <1>3, <1>4, <1>5, BrowserMade

LEMMA ObserveStarts ==
  ASSUME BrowserInv, run_browser_observe
  PROVE  BrowserInv'
<1>1. /\ phase = "start" /\ input.tool = "observe" /\ child = "none" /\ ~dir /\ dir \in BOOLEAN
      /\ phase \notin Session \cup {"done"} /\ asked = <<>> /\ page \in BrowserPage
      /\ inbox \in Seq(WireMessage) /\ waiting \in Nat
      /\ UNCHANGED <<input, dir, page, asked, inbox, request_id, waiting, clicks>>
  BY BrowserParts, BeforeSession, PhaseNames DEF run_browser_observe, BrowserStarted, BrowserTypeOK
<1>2. ASSUME NEW why \in {"input", "scheme", "no browser"}, fails(why), child' = child
      PROVE  BrowserInv'
  BY <1>1, <1>2, CallOver DEF fails, done
<1>3. CASE /\ validate_browser_observe_input(input) /\ phase' = "dump" /\ child' = "starting"
           /\ UNCHANGED report
  <2>1. InputPassed' /\ BrowserStarted'
    BY <1>1, <1>3, PhaseNames DEF InputPassed, BrowserStarted
  <2> QED BY <1>1, <1>3, <2>1, GoesAhead
<1> QED
  BY <1>2, <1>3 DEF run_browser_observe

LEMMA Observed ==
  ASSUME BrowserInv, observe_browser_page \/ observe_screenshot
  PROVE  BrowserInv'
<1>1. /\ phase \in {"dump", "observe_shot"} /\ input.tool = "observe"
      /\ validate_browser_observe_input(input) /\ ~dir /\ dir \in BOOLEAN
      /\ phase \notin Session \cup {"done"} /\ asked = <<>> /\ page \in BrowserPage
      /\ inbox \in Seq(WireMessage) /\ waiting \in Nat /\ child' = "exited"
      /\ UNCHANGED <<input, dir, asked, inbox, request_id, waiting, clicks>>
  <2>1. phase \in {"dump", "observe_shot"}
    BY DEF observe_browser_page, observe_screenshot
  <2>2. child \in {"starting", "exited"} /\ ~dir /\ (phase = "observe_shot" => child = "exited")
    BY <2>1, BrowserParts DEF BrowserStarted
  <2>3. asked = <<>> /\ phase \notin Session \cup {"done"}
    BY <2>1, <2>2, BeforeSession, PhaseNames
  <2>4. input.tool = "observe" /\ validate_browser_observe_input(input)
    BY <2>1, BrowserParts DEF InputPassed
  <2> QED BY <2>1, <2>2, <2>3, <2>4, BrowserParts
          DEF observe_browser_page, observe_screenshot, BrowserTypeOK
<1>2. report_needs(input) # "unsupported"
  BY <1>1, BrowserParts, PassedIsHandled
<1>3. page' \in BrowserPage
  <2>1. ASSUME NEW m \in BOOLEAN
        PROVE  [Blank EXCEPT !.v = 1, !.complete = TRUE, !.match = m] \in BrowserPage
    BY DEF Blank, BrowserPage
  <2> QED BY <1>1, <2>1 DEF observe_browser_page, observe_screenshot
<1>4. ASSUME NEW why \in {"browser status", "not observed"}, fails(why)
      PROVE  BrowserInv'
  BY <1>1, <1>3, <1>4, CallOver DEF fails, done
<1>5. ASSUME NEW st, NEW pic, done([is |-> "ok", state |-> st, shot |-> pic])
      PROVE  BrowserInv'
  BY <1>1, <1>3, <1>5, CallOver DEF done
<1>6. CASE phase' = "observe_shot" /\ UNCHANGED report
  <2>1. InputPassed' /\ BrowserStarted'
    BY <1>1, <1>6, PhaseNames DEF InputPassed, BrowserStarted
  <2> QED BY <1>1, <1>3, <1>6, <2>1, GoesAhead
<1>7. CASE observe_browser_page
  BY <1>2, <1>4, <1>5, <1>6, <1>7 DEF observe_browser_page
<1>8. CASE observe_screenshot
  BY <1>4, <1>5, <1>8 DEF observe_screenshot
<1> QED
  BY <1>7, <1>8

LEMMA InteractStarts ==
  ASSUME BrowserInv, run_browser_interact
  PROVE  BrowserInv'
<1>1. /\ phase = "start" /\ input.tool = "interact" /\ child = "none" /\ ~dir /\ dir \in BOOLEAN
      /\ phase \notin Session \cup {"done"} /\ asked = <<>> /\ page \in BrowserPage
      /\ inbox \in Seq(WireMessage) /\ waiting \in Nat /\ clicks = 0
      /\ UNCHANGED <<input, page, asked, inbox, request_id, waiting, clicks>>
  BY BrowserParts, BeforeSession, PhaseNames DEF run_browser_interact, BrowserStarted, BrowserTypeOK
<1>2. ASSUME NEW why \in {"input", "scheme", "no browser"}, fails(why), child' = child, dir' = dir
      PROVE  BrowserInv'
  BY <1>1, <1>2, CallOver DEF fails, done
<1>3. CASE fails("spawn failed") /\ dir' = TRUE /\ UNCHANGED child
  BY <1>1, <1>3, CallOver DEF fails, done
<1>4. CASE /\ validate_browser_interact_input(input) /\ phase' = "port" /\ child' = "starting"
           /\ dir' = TRUE /\ UNCHANGED report
  <2>1. InputPassed' /\ BrowserStarted'
    BY <1>1, <1>4, PhaseNames DEF InputPassed, BrowserStarted
  <2> QED BY <1>1, <1>4, <2>1, PhaseNames, GoesAhead
<1> QED
  BY <1>2, <1>3, <1>4 DEF run_browser_interact

LEMMA Launched ==
  ASSUME BrowserInv,
         wait_for_browser_devtools_port \/ discover_browser_devtools_target \/ connect
  PROVE  BrowserInv'
<1>1. /\ phase \in Launching /\ input.tool = "interact" /\ validate_browser_interact_input(input)
      /\ phase \notin Session \cup {"done"} /\ page \in BrowserPage /\ dir \in BOOLEAN
      /\ child \in {"none", "starting", "listening", "exited", "killed"}
      /\ asked = <<>> \/ child = "killed"
      /\ inbox \in Seq(WireMessage) /\ waiting \in Nat /\ report.is = "none"
      /\ UNCHANGED <<input, page, asked, inbox, request_id, waiting, clicks>>
  <2>1. phase \in Launching /\ phase \notin Session \cup {"done"}
    BY PhaseNames DEF wait_for_browser_devtools_port, discover_browser_devtools_target, connect
  <2> QED BY <2>1, BrowserParts, BeforeSession
          DEF wait_for_browser_devtools_port, discover_browser_devtools_target, connect,
              BrowserTypeOK, InputPassed
<1>2. ASSUME NEW why \in {"exited early", "port timeout", "no target", "handshake"},
             launch_failed(why)
      PROVE  BrowserInv'
  BY <1>1, <1>2, CallOver DEF launch_failed, fails, done
<1>3. CASE /\ child = "listening" /\ phase' \in {"target", "connect", "load"}
           /\ UNCHANGED <<child, dir, report>>
  <2>1. InputPassed' /\ BrowserStarted'
    BY <1>1, <1>3, PhaseNames DEF InputPassed, BrowserStarted
  <2> QED BY <1>1, <1>3, <2>1, PhaseNames, GoesAhead
<1> QED
  BY <1>2, <1>3
     DEF wait_for_browser_devtools_port, discover_browser_devtools_target, connect

(* A step of a session that goes on.                                       *)
LEMMA SessionMoves ==
  ASSUME BrowserInv, phase \in Session, phase' \in Session, input' = input,
         page' \in BrowserPage, dir' = dir,
         child' \in {"none", "starting", "listening", "exited", "killed"},
         inbox' \in Seq(WireMessage), request_id' \in Nat \ {0}, waiting' \in Nat, clicks' \in Nat,
         Wire', ClickedOnce', Reported'
  PROVE  BrowserInv'
<1>1. BrowserTypeOK'
  BY BrowserParts DEF BrowserTypeOK
<1>2. InputPassed' /\ BrowserStarted'
  BY BrowserParts, PhaseNames DEF InputPassed, BrowserStarted
<1>3. report'.is \in {"none", "captured"} /\ phase' # "done"
  BY PhaseNames DEF Reported
<1>4. ReportFollowsClick'
  BY <1>3 DEF ClickedOnce, ReportFollowsClick, Ok
<1>5. BrowserGone'
  BY <1>3 DEF BrowserGone
<1>6. ValidatedIsHandled'
  BY <1>1, <1>2, <1>3, BrowserParts, ValidatedHolds
<1> QED
  BY <1>1, <1>2, <1>4, <1>5, <1>6, BrowserMade

LEMMA BrowserTypes ==
  ASSUME BrowserInv
  PROVE  /\ input \in BrowserInputs /\ page \in BrowserPage /\ dir \in BOOLEAN
         /\ phase \in {"start", "dump", "observe_shot", "done"} \cup Launching \cup Session
         /\ child \in {"none", "starting", "listening", "exited", "killed"}
         /\ inbox \in Seq(WireMessage) /\ request_id \in Nat \ {0} /\ waiting \in Nat /\ clicks \in Nat
BY BrowserParts DEF BrowserTypeOK

(* An event, a ping or the end of the connection behind the rest.          *)
LEMMA InboxGrows ==
  ASSUME inbox \in Seq(WireMessage), NEW m \in WireMessage, m.kind # "answer",
         inbox' = Append(inbox, m)
  PROVE  /\ inbox' \in Seq(WireMessage)
         /\ NoAnswer => NoAnswer'
         /\ UNCHANGED <<waiting, clicks, phase>> /\ AnswerThere => AnswerThere'
<1>1. /\ inbox' \in Seq(WireMessage) /\ Len(inbox) \in Nat /\ Len(inbox') = Len(inbox) + 1
      /\ inbox'[Len(inbox) + 1] = m /\ \A i \in 1..Len(inbox) : inbox'[i] = inbox[i]
  BY Pushed
<1>2. NoAnswer => NoAnswer'
  BY <1>1 DEF NoAnswer
<1>3. ASSUME UNCHANGED <<waiting, clicks, phase>>, AnswerThere
      PROVE  AnswerThere'
  <2>1. PICK i \in 1..Len(inbox) :
          /\ inbox[i] \in Answer /\ inbox[i].id = waiting /\ inbox[i].clicks = clicks
          /\ phase = "click" => (inbox[i].clicked <=> clicks = 1)
          /\ \A j \in 1..Len(inbox) : inbox[j].kind = "answer" => j = i
    BY <1>3 DEF AnswerThere
  <2>2. i \in 1..Len(inbox') /\ inbox'[i] = inbox[i]
    BY <1>1
  <2>3. \A j \in 1..Len(inbox') : inbox'[j].kind = "answer" => j = i
    BY <1>1, <2>1
  <2> QED BY <1>3, <2>1, <2>2, <2>3 DEF AnswerThere
<1> QED
  BY <1>1, <1>2, <1>3

(* The answer behind the rest.                                             *)
LEMMA AnswerArrives ==
  ASSUME inbox \in Seq(WireMessage), NEW m \in Answer, inbox' = Append(inbox, m), NoAnswer,
         m.id = waiting', m.clicks = clicks', phase' = "click" => (m.clicked <=> clicks' = 1)
  PROVE  inbox' \in Seq(WireMessage) /\ AnswerThere'
<1>0. m \in WireMessage
  BY DEF WireMessage
<1>1. /\ inbox' \in Seq(WireMessage) /\ Len(inbox) \in Nat /\ Len(inbox') = Len(inbox) + 1
      /\ inbox'[Len(inbox) + 1] = m /\ \A i \in 1..Len(inbox) : inbox'[i] = inbox[i]
  BY <1>0, Pushed
<1>2. \A j \in 1..Len(inbox') : inbox'[j].kind = "answer" => j = Len(inbox) + 1
  BY <1>1 DEF NoAnswer
<1>3. Len(inbox) + 1 \in 1..Len(inbox')
  BY <1>1
<1> QED
  BY <1>1, <1>2, <1>3 DEF AnswerThere

(* The first message is taken.                                             *)
LEMMA InboxRead ==
  ASSUME inbox \in Seq(WireMessage), inbox # <<>>, inbox' = Tail(inbox)
  PROVE  /\ inbox' \in Seq(WireMessage) /\ Head(inbox) \in WireMessage
         /\ NoAnswer => NoAnswer' /\ Head(inbox).kind # "answer"
         /\ AnswerThere /\ Head(inbox).kind = "answer" =>
              /\ NoAnswer' /\ Head(inbox).clicks = clicks
              /\ phase = "click" => (Head(inbox).clicked <=> clicks = 1)
         /\ AnswerThere /\ Head(inbox).kind # "answer" /\ UNCHANGED <<waiting, clicks, phase>>
              => AnswerThere'
<1>1. /\ inbox' \in Seq(WireMessage) /\ Head(inbox) \in WireMessage /\ Head(inbox) = inbox[1]
      /\ Len(inbox) \in Nat /\ Len(inbox) >= 1 /\ Len(inbox') = Len(inbox) - 1
      /\ \A i \in 1..Len(inbox') : inbox'[i] = inbox[i + 1]
  BY HeadTailProperties
<1>2. \A i \in 1..Len(inbox') : i + 1 \in 1..Len(inbox) /\ i + 1 # 1
  BY <1>1
<1>3. NoAnswer => NoAnswer' /\ Head(inbox).kind # "answer"
  BY <1>1, <1>2 DEF NoAnswer
<1>4. ASSUME AnswerThere
      PROVE  /\ Head(inbox).kind = "answer" =>
                  /\ NoAnswer' /\ Head(inbox).clicks = clicks
                  /\ phase = "click" => (Head(inbox).clicked <=> clicks = 1)
             /\ Head(inbox).kind # "answer" /\ UNCHANGED <<waiting, clicks, phase>> => AnswerThere'
  <2>1. PICK i \in 1..Len(inbox) :
          /\ inbox[i] \in Answer /\ inbox[i].id = waiting /\ inbox[i].clicks = clicks
          /\ phase = "click" => (inbox[i].clicked <=> clicks = 1)
          /\ \A j \in 1..Len(inbox) : inbox[j].kind = "answer" => j = i
    BY <1>4 DEF AnswerThere
  <2>2. CASE i = 1
    <3>1. \A j \in 1..Len(inbox') : inbox'[j].kind # "answer"
      BY <1>1, <1>2, <2>1, <2>2
    <3>2. inbox[i].kind = "answer"
      BY <2>1 DEF Answer
    <3> QED BY <1>1, <2>1, <2>2, <3>1, <3>2 DEF NoAnswer
  <2>3. CASE i # 1
    <3>1. Head(inbox).kind # "answer"
      BY <1>1, <2>1, <2>3
    <3>2. i - 1 \in 1..Len(inbox') /\ inbox'[i - 1] = inbox[i]
      <4>1. i - 1 \in 1..Len(inbox') /\ (i - 1) + 1 = i
        BY <1>1, <2>3
      <4> QED BY <1>1, <4>1
    <3>3. \A j \in 1..Len(inbox') : inbox'[j].kind = "answer" => j = i - 1
      <4>1. ASSUME NEW j \in 1..Len(inbox'), inbox'[j].kind = "answer" PROVE j = i - 1
        <5>1. j + 1 = i
          BY <1>1, <1>2, <2>1, <4>1
        <5> QED BY <5>1
      <4> QED BY <4>1
    <3> QED BY <2>1, <3>1, <3>2, <3>3 DEF AnswerThere
  <2> QED BY <2>2, <2>3
<1> QED
  BY <1>1, <1>3, <1>4

LEMMA Called ==
  ASSUME BrowserInv, call
  PROVE  BrowserInv'
<1>1. /\ phase \in Session /\ waiting = 0 /\ waiting' = request_id /\ request_id' = request_id + 1
      /\ asked' = Append(asked, [id |-> request_id, what |-> phase])
      /\ UNCHANGED <<input, phase, child, dir, page, inbox, clicks, report>>
  BY DEF call
<1>2. asked = <<>> /\ NoAnswer
  BY <1>1, BrowserParts DEF Wire
<1>3. asked' = <<[id |-> waiting', what |-> phase']>> /\ waiting' # 0 /\ NoAnswer'
  BY <1>1, <1>2, BrowserTypes DEF NoAnswer
<1>4. Wire'
  BY <1>1, <1>3, PhaseNames DEF Wire
<1>5. ClickedOnce' /\ Reported'
  BY <1>1, BrowserParts DEF ClickedOnce, Reported, Satisfied
<1>6. request_id' \in Nat \ {0} /\ waiting' \in Nat
  BY <1>1, BrowserTypes
<1> QED
  BY <1>1, <1>4, <1>5, <1>6, BrowserTypes, SessionMoves

LEMMA GivenUp ==
  ASSUME BrowserInv, wait_for_page_condition \/ read_exact_until
  PROVE  BrowserInv'
<1>1. /\ phase' = "done" /\ child' = "killed" /\ dir' = FALSE
      /\ report'.is = "error" /\ report'.why \in {"not satisfied in time", "read"}
      /\ UNCHANGED <<input, page, asked, inbox, request_id, waiting, clicks>>
  <2>1. PICK why \in {"not satisfied in time", "read"} : quits([is |-> "error", why |-> why])
    BY DEF wait_for_page_condition, read_exact_until
  <2>2. /\ phase' = "done" /\ child' = "killed" /\ dir' = FALSE
        /\ report' = [is |-> "error", why |-> why]
    BY <2>1 DEF quits, done, drop
  <2>3. UNCHANGED <<input, page, asked, inbox, request_id, waiting, clicks>>
    BY DEF wait_for_page_condition, read_exact_until
  <2> QED BY <2>2, <2>3
<1> QED
  BY <1>1, BrowserTypes, CallOver

(* What a phase makes of the answer to its request.                        *)
LEMMA Took ==
  ASSUME BrowserInv, phase \in Session, NEW m \in Answer, took(m),
         waiting' = 0, asked = <<>>, inbox' \in Seq(WireMessage), NoAnswer',
         UNCHANGED <<input, page, asked, request_id, clicks>>,
         m.clicks = clicks, phase = "click" => (m.clicked <=> clicks = 1)
  PROVE  BrowserInv'
<1>0. /\ page' \in BrowserPage /\ request_id' \in Nat \ {0} /\ waiting' \in Nat /\ clicks' \in Nat
      /\ child \in {"none", "starting", "listening", "exited", "killed"} /\ dir \in BOOLEAN
  BY BrowserTypes
<1>1. ASSUME phase' \in Session, UNCHANGED <<child, dir>>, ClickedOnce', Reported'
      PROVE  BrowserInv'
  <2>1. Wire'
    BY <1>1, PhaseNames DEF Wire
  <2> QED BY <1>0, <1>1, <2>1, SessionMoves
<1>2. ASSUME NEW r, quits(r), r.is = "error" => r.why # "unsupported",
             r.is = "ok" => clicks = 1 /\ r.clicks = 1 /\ Satisfied(r.state)
      PROVE  BrowserInv'
  <2>1. phase' = "done" /\ report' = r /\ child' = "killed" /\ dir' = FALSE
    BY <1>2 DEF quits, done, drop
  <2> QED BY <1>0, <1>2, <2>1, CallOver
<1>3. CASE phase = "load"
  <2>1. phase' \in {"load", "probe"} /\ UNCHANGED <<child, dir, report>>
    BY <1>3 DEF took
  <2>2. ClickedOnce' /\ Reported'
    BY <1>3, <2>1, BrowserParts DEF ClickedOnce, Reported
  <2> QED BY <1>1, <2>1, <2>2, PhaseNames
<1>4. CASE phase = "probe"
  <2>1. phase' \in {"probe", "click"} /\ UNCHANGED <<child, dir, report>>
    BY <1>4 DEF took
  <2>2. ClickedOnce' /\ Reported'
    BY <1>4, <2>1, BrowserParts DEF ClickedOnce, Reported
  <2> QED BY <1>1, <2>1, <2>2, PhaseNames
<1>5. CASE phase = "click" /\ m.clicked
  <2>1. phase' = "capture" /\ UNCHANGED <<child, dir, report>>
    BY <1>5 DEF took
  <2>2. ClickedOnce' /\ Reported'
    BY <1>5, <2>1, BrowserParts DEF ClickedOnce, Reported
  <2> QED BY <1>1, <2>1, <2>2, PhaseNames
<1>6. CASE phase = "click" /\ ~m.clicked
  <2>1. quits([is |-> "error", why |-> "not clickable"])
    BY <1>6 DEF took
  <2> QED BY <1>2, <2>1
<1>7. CASE phase = "capture" /\ ~Satisfied(m.page)
  <2>1. phase' = "capture" /\ UNCHANGED <<child, dir, report>>
    BY <1>7 DEF took
  <2>2. ClickedOnce' /\ Reported'
    BY <1>7, <2>1, BrowserParts DEF ClickedOnce, Reported
  <2> QED BY <1>1, <2>1, <2>2, PhaseNames
<1>8. CASE phase = "capture" /\ Satisfied(m.page) /\ input.shot
  <2>1. /\ phase' = "screenshot" /\ UNCHANGED <<child, dir>>
        /\ report' = [is |-> "captured", state |-> m.page, clicks |-> m.clicks]
    BY <1>8 DEF took
  <2>2. clicks = 1
    BY <1>8, BrowserParts DEF ClickedOnce
  <2>3. ClickedOnce'
    BY <2>1, <2>2 DEF ClickedOnce
  <2>4. report'.state = m.page /\ report'.clicks = 1 /\ report'.is = "captured"
    BY <2>1, <2>2
  <2>5. Reported'
    BY <1>8, <2>1, <2>4 DEF Reported, Satisfied
  <2> QED BY <1>1, <2>1, <2>3, <2>5, PhaseNames
<1>9. CASE phase = "capture" /\ Satisfied(m.page) /\ ~input.shot
  <2>1. quits([is |-> "ok", state |-> m.page, clicks |-> m.clicks, shot |-> 0])
    BY <1>9 DEF took
  <2>2. clicks = 1
    BY <1>9, BrowserParts DEF ClickedOnce
  <2> QED BY <1>2, <1>9, <2>1, <2>2
<1>10. CASE phase = "screenshot"
  <2>1. quits([is |-> "ok", state |-> report.state, clicks |-> report.clicks, shot |-> m.page.v])
    BY <1>10 DEF took
  <2>2. clicks = 1 /\ report.clicks = 1 /\ Satisfied(report.state)
    BY <1>10, BrowserParts DEF ClickedOnce, Reported
  <2> QED BY <1>2, <2>1, <2>2
<1> QED
  BY <1>3, <1>4, <1>5, <1>6, <1>7, <1>8, <1>9, <1>10, PhaseNames

LEMMA TextRead ==
  ASSUME BrowserInv, read_text
  PROVE  BrowserInv'
<1> DEFINE m == Head(inbox)
<1>1. /\ phase \in Session /\ waiting # 0 /\ inbox # <<>> /\ inbox' = Tail(inbox)
      /\ UNCHANGED <<input, page, asked, request_id, clicks>>
  BY DEF read_text
<1>2. /\ inbox' \in Seq(WireMessage) /\ m \in WireMessage
      /\ NoAnswer => NoAnswer' /\ m.kind # "answer"
      /\ AnswerThere /\ m.kind = "answer" =>
           /\ NoAnswer' /\ m.clicks = clicks
           /\ phase = "click" => (m.clicked <=> clicks = 1)
      /\ AnswerThere /\ m.kind # "answer" /\ UNCHANGED <<waiting, clicks, phase>> => AnswerThere'
  BY <1>1, BrowserTypes, InboxRead
<1>3. \/ asked = <<[id |-> waiting, what |-> phase]>> /\ NoAnswer
      \/ asked = <<>> /\ AnswerThere
  BY <1>1, BrowserParts DEF Wire
<1>4. CASE m.kind = "close"
  <2>1. quits([is |-> "error", why |-> "closed"]) /\ UNCHANGED waiting
    BY <1>4 DEF read_text
  <2>2. /\ phase' = "done" /\ child' = "killed" /\ dir' = FALSE
        /\ report'.is = "error" /\ report'.why = "closed"
    BY <2>1 DEF quits, done, drop
  <2> QED BY <1>1, <1>2, <2>1, <2>2, BrowserTypes, CallOver
<1>5. CASE m.kind # "close" /\ answers(m)
  <2>1. waiting' = 0 /\ took(m) /\ m.kind = "answer"
    BY <1>5 DEF read_text, answers
  <2>2. m \in Answer
    BY <1>2, <2>1 DEF WireMessage
  <2>3. asked = <<>> /\ AnswerThere
    BY <1>2, <1>3, <2>1
  <2> HIDE DEF m
  <2> QED BY <1>1, <1>2, <2>1, <2>2, <2>3, Took
<1>6. CASE m.kind # "close" /\ ~answers(m)
  <2>1. UNCHANGED <<phase, child, dir, waiting, report>>
    BY <1>6 DEF read_text
  <2>2. m.kind # "answer"
    <3>1. SUFFICES ASSUME m.kind = "answer", AnswerThere PROVE FALSE
      BY <1>2, <1>3
    <3>2. m.id # waiting
      BY <1>6, <3>1 DEF answers
    <3>3. m = inbox[1] /\ 1 \in 1..Len(inbox)
      BY <1>1, BrowserTypes
    <3> HIDE DEF m
    <3> QED BY <3>1, <3>2, <3>3 DEF AnswerThere
  <2>3. Wire'
    BY <1>1, <1>2, <1>3, <2>1, <2>2, PhaseNames DEF Wire
  <2>4. ClickedOnce' /\ Reported'
    BY <1>1, <2>1, BrowserParts DEF ClickedOnce, Reported, Satisfied
  <2> QED BY <1>1, <1>2, <2>1, <2>3, <2>4, BrowserTypes, SessionMoves
<1> QED
  BY <1>4, <1>5, <1>6

(* The browser comes up, changes its page or goes away.                    *)
LEMMA BrowserAlone ==
  ASSUME BrowserInv, UNCHANGED <<input, phase, dir, asked, request_id, waiting, clicks, report>>,
         page' \in BrowserPage, child' = child \/ (Alive /\ child' \in {"listening", "exited"}),
         \/ inbox' = inbox
         \/ \E m \in WireMessage : m.kind # "answer" /\ phase \in Session /\ inbox' = Append(inbox, m)
  PROVE  BrowserInv'
<1>1. /\ inbox' \in Seq(WireMessage)
      /\ NoAnswer => NoAnswer'
      /\ AnswerThere => AnswerThere'
      /\ phase \notin Session => inbox' = inbox
  <2>1. CASE inbox' = inbox
    BY <2>1, BrowserTypes DEF NoAnswer, AnswerThere
  <2>2. CASE inbox' # inbox
    BY <2>2, BrowserTypes, InboxGrows
  <2> QED BY <2>1, <2>2
<1>2. BrowserTypeOK'
  BY <1>1, BrowserTypes DEF BrowserTypeOK
<1>3. Alive => input.tool = "interact" /\ child # "killed" /\ child # "exited" /\ child # "none"
  BY DEF Alive
<1>4. InputPassed' /\ ClickedOnce' /\ Reported'
  BY BrowserParts DEF InputPassed, ClickedOnce, Reported, Satisfied
<1>5. BrowserStarted'
  BY <1>3, BrowserParts DEF BrowserStarted, InputPassed
<1>6. Wire'
  <2>1. CASE phase \in Session
    <3>1. IF waiting' = 0 THEN asked' = <<>> /\ NoAnswer'
          ELSE \/ asked' = <<[id |-> waiting', what |-> phase']>> /\ NoAnswer'
               \/ asked' = <<>> /\ AnswerThere'
      BY <1>1, <2>1, BrowserParts DEF Wire
    <3> QED BY <2>1, <3>1 DEF Wire
  <2>2. CASE phase \notin Session
    <3>1. (asked = <<>> \/ child = "killed") /\ (phase # "done" => inbox = <<>> /\ waiting = 0)
      BY <2>2, BrowserParts DEF Wire
    <3>2. asked' = <<>> \/ child' = "killed"
      BY <1>3, <3>1
    <3> QED BY <1>1, <2>2, <3>1, <3>2 DEF Wire
  <2> QED BY <2>1, <2>2
<1>7. ReportFollowsClick'
  BY BrowserParts DEF ReportFollowsClick, Ok, Satisfied
<1>8. BrowserGone'
  BY <1>3, BrowserParts DEF BrowserGone
<1>9. ValidatedIsHandled'
  BY BrowserParts DEF ValidatedIsHandled
<1> QED
  BY <1>2, <1>4, <1>5, <1>6, <1>7, <1>8, <1>9, BrowserMade

LEMMA BrowserLives ==
  ASSUME BrowserInv, listens \/ exits \/ page_changes \/ chatters
  PROVE  BrowserInv'
<1>1. CASE listens
  <2>1. Alive
    BY <1>1 DEF listens, Alive
  <2> QED BY <1>1, <2>1, BrowserTypes, BrowserAlone DEF listens
<1>2. CASE exits
  <2>1. [kind |-> "close"] \in WireMessage /\ [kind |-> "close"].kind # "answer"
    BY DEF WireMessage
  <2>2. /\ Alive /\ child' = "exited"
        /\ UNCHANGED <<input, phase, dir, page, asked, request_id, waiting, clicks, report>>
        /\ inbox' = inbox \/ (phase \in Session /\ inbox' = Append(inbox, [kind |-> "close"]))
    BY <1>2 DEF exits
  <2> QED BY <2>1, <2>2, BrowserTypes, BrowserAlone
<1>3. CASE page_changes
  <2>1. page' \in BrowserPage
    <3>1. /\ [page EXCEPT !.match = TRUE] \in BrowserPage
          /\ \A b \in {"absent", "disabled", "ready"} : [page EXCEPT !.button = b] \in BrowserPage
      BY BrowserTypes DEF BrowserPage
    <3>2. [Blank EXCEPT !.v = 2] \in BrowserPage
      BY DEF Blank, BrowserPage
    <3>3. [page EXCEPT !.v = IF @ = 0 THEN 1 ELSE @, !.complete = TRUE] \in BrowserPage
      BY BrowserTypes DEF BrowserPage
    <3> QED BY <1>3, <3>1, <3>2, <3>3 DEF page_changes
  <2>2. UNCHANGED <<input, phase, child, dir, asked, inbox, request_id, waiting, clicks, report>>
    BY <1>3 DEF page_changes
  <2> QED BY <2>1, <2>2, BrowserAlone
<1>4. CASE chatters
  <2>1. PICK k \in {"event", "ping"} : inbox' = Append(inbox, [kind |-> k])
    BY <1>4 DEF chatters
  <2>2. [kind |-> k] \in WireMessage /\ [kind |-> k].kind # "answer"
    BY DEF WireMessage
  <2>3. /\ phase \in Session
        /\ UNCHANGED <<input, phase, child, dir, page, asked, request_id, waiting, clicks, report>>
    BY <1>4 DEF chatters
  <2> QED BY <2>1, <2>2, <2>3, BrowserTypes, BrowserAlone
<1> QED
  BY <1>1, <1>2, <1>3, <1>4

(* The request is carried out, and its answer sent.                        *)
LEMMA Evaluated ==
  ASSUME BrowserInv, evaluates
  PROVE  BrowserInv'
<1>1. /\ child = "listening" /\ asked # <<>> /\ asked' = Tail(asked)
      /\ UNCHANGED <<input, phase, child, dir, page, request_id, waiting, report>>
  BY DEF evaluates
<1>2. phase \in Session /\ asked = <<[id |-> waiting, what |-> phase]>> /\ NoAnswer /\ waiting # 0
  BY <1>1, BrowserParts DEF Wire
<1>3. Head(asked).id = waiting /\ Head(asked).what = phase /\ Tail(asked) = <<>>
  BY <1>2
<1> DEFINE hit == phase = "click" /\ page.button # "absent"
           m == [kind |-> "answer", id |-> waiting, page |-> page, clicked |-> hit,
                 clicks |-> clicks']
<1>4. /\ clicks' = IF hit THEN clicks + 1 ELSE clicks
      /\ inbox' = Append(inbox, m)
  BY <1>3 DEF evaluates
<1>5. phase = "click" => clicks = 0
  BY <1>2, BrowserParts DEF ClickedOnce
<1>6. clicks' \in Nat /\ (phase = "click" => (hit <=> clicks' = 1)) /\ clicks' <= 1
      /\ (phase # "click" => clicks' = clicks)
  BY <1>4, <1>5, BrowserParts, BrowserTypes DEF ClickedOnce
<1>7. m \in Answer /\ m.id = waiting /\ m.clicks = clicks' /\ m.clicked = hit
  BY <1>6, BrowserTypes DEF Answer
<1> HIDE DEF m, hit
<1>8. inbox' \in Seq(WireMessage) /\ AnswerThere'
  BY <1>1, <1>2, <1>4, <1>6, <1>7, BrowserTypes, AnswerArrives
<1>9. Wire'
  BY <1>1, <1>2, <1>3, <1>8, PhaseNames DEF Wire
<1>10. ClickedOnce'
  BY <1>1, <1>2, <1>3, <1>6, BrowserParts DEF ClickedOnce
<1>11. Reported'
  BY <1>1, BrowserParts DEF Reported, Satisfied
<1> QED
  BY <1>1, <1>2, <1>6, <1>8, <1>9, <1>10, <1>11, BrowserTypes, SessionMoves

LEMMA BrowserMoves ==
  ASSUME BrowserInv, BrowserNext
  PROVE  BrowserInv'
BY ObserveStarts, Observed, InteractStarts, Launched, Called, GivenUp, TextRead, BrowserLives,
   Evaluated DEF BrowserNext

LEMMA BrowserStart ==
  ASSUME BrowserInit
  PROVE  BrowserInv
<1>1. /\ input \in BrowserInputs /\ phase = "start" /\ child = "none" /\ dir = FALSE /\ page = Blank
      /\ asked = <<>> /\ inbox = <<>> /\ request_id = 1 /\ waiting = 0 /\ clicks = 0
      /\ report.is = "none"
  BY DEF BrowserInit
<1>2. Blank \in BrowserPage
  BY DEF Blank, BrowserPage
<1>3. BrowserTypeOK
  <2>a. <<>> \in Seq(WireMessage) /\ 1 \in Nat \ {0} /\ 0 \in Nat
    OBVIOUS
  <2>1. inbox \in Seq(WireMessage) /\ dir \in BOOLEAN /\ request_id \in Nat \ {0}
        /\ waiting \in Nat /\ clicks \in Nat
    BY <1>1, <2>a
  <2> QED BY <1>1, <1>2, <2>1 DEF BrowserTypeOK
<1>4. InputPassed /\ BrowserStarted /\ ClickedOnce /\ Reported
  BY <1>1, PhaseNames DEF InputPassed, BrowserStarted, ClickedOnce, Reported
<1>5. Wire
  BY <1>1, PhaseNames DEF Wire
<1>6. ValidatedIsHandled /\ ReportFollowsClick /\ BrowserGone
  BY <1>1 DEF ValidatedIsHandled, ReportFollowsClick, BrowserGone, Ok
<1> QED
  BY <1>3, <1>4, <1>5, <1>6 DEF BrowserInv, BrowserSound

LEMMA BrowserIdle ==
  ASSUME BrowserInv, UNCHANGED browserVars
  PROVE  BrowserInv'
<1>1. /\ UNCHANGED <<input, phase, dir, asked, request_id, waiting, clicks, report>>
      /\ page' = page /\ child' = child /\ inbox' = inbox
  BY DEF browserVars
<1> QED
  BY <1>1, BrowserTypes, BrowserAlone

(* What a browser call promises (MCLocal.BrowserCallsSound).  An input     *)
(* that passes validate_browser_interact_input or the observe tool's       *)
(* validation can be handled to the end; a session sends its next request  *)
(* when the last was answered, so BrowserInteract clicks once and captures *)
(* what was shown after the click; and however a call ends, Drop removes   *)
(* browser and directory, but for the launches that never reach a session. *)
THEOREM BrowserSafe == MCSpec => []BrowserCallsSound
<1>1. MCInit => (part = "browser" => BrowserInv)
  BY BrowserStart DEF MCInit
<1>2. (part = "browser" => BrowserInv) /\
      [MCNext]_<<part, vars, filesVars, bashVars, toolsVars, browserVars, agentVars, lspVars,
                 argsVars, editorVars, installVars, onboardVars, configVars>>
        => (part = "browser" => BrowserInv)'
  BY BrowserMoves, BrowserIdle DEF MCNext
<1>3. (part = "browser" => BrowserInv) => BrowserCallsSound
  BY DEF BrowserCallsSound, BrowserInv
<1> QED
  BY <1>1, <1>2, <1>3, PTL DEF MCSpec
=============================================================================
