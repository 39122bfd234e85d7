----------------------------- MODULE SessionLog -----------------------------
(***************************************************************************)
(* The conversation session of runtime/src/session.rs, abstracted to what  *)
(* the thread server tells apart: who produced a message and which         *)
(* request-user-input question it asks or answers.                         *)
(*                                                                         *)
(* A message is [kind, src, ask]:                                          *)
(*   "user"      ConversationMessage::user_text      (src = who sent it)   *)
(*   "assistant" an assistant message of text only                         *)
(*   "tool_use"  an assistant message that calls tools                     *)
(*   "tool"      ConversationMessage::tool_result                          *)
(*   "ask"       an assistant message with a UserInputRequest block; its   *)
(*               request_id is src                                         *)
(*   "response"  ConversationMessage::user_input_response to question ask  *)
(***************************************************************************)
EXTENDS Naturals, Sequences

CONSTANTS Writers,  \* everything that can author a message
          None      \* the Option::None of a request id

ASSUME NoneAssumption == None \notin Writers

Kinds == {"user", "assistant", "tool_use", "tool", "ask", "response"}

Message == [kind : Kinds, src : Writers, ask : Writers \cup {None}]

user_text(w) == [kind |-> "user", src |-> w, ask |-> None]
assistant_text(w) == [kind |-> "assistant", src |-> w, ask |-> None]
tool_use(w) == [kind |-> "tool_use", src |-> w, ask |-> None]
tool_result(w) == [kind |-> "tool", src |-> w, ask |-> None]
request_user_input(w) == [kind |-> "ask", src |-> w, ask |-> None]
user_input_response(w, q) == [kind |-> "response", src |-> w, ask |-> q]

IsAssistant(m) == m.kind \in {"assistant", "tool_use", "ask"}

(* Positions of the questions that no later response answers: what is left *)
(* in the `pending` vector after the scan of the whole session.            *)
Unanswered(session) ==
  {i \in 1..Len(session) :
     /\ session[i].kind = "ask"
     /\ \A j \in 1..Len(session) :
          ~ ( /\ i < j
              /\ session[j].kind = "response"
              /\ session[j].ask = session[i].src )}

(* The request id of the oldest question that is still pending.            *)
pending_user_input_request(session) ==
  IF Unanswered(session) = {}
  THEN None
  ELSE session[CHOOSE i \in Unanswered(session) :
                 \A j \in Unanswered(session) : i <= j].src

(* The questions a client can have learnt about from a session.            *)
Asked(session) ==
  {session[i].src : i \in {j \in 1..Len(session) : session[j].kind = "ask"}}

Holds(session, m) == \E i \in 1..Len(session) : session[i] = m
=============================================================================
