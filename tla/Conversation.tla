---------------------------- MODULE Conversation ----------------------------
(***************************************************************************)
(* ConversationRuntime (runtime/src/conversation.rs): the loop that calls  *)
(* the model, authorizes and runs the tools it asks for, puts its          *)
(* questions to the user, and stops when it asks for nothing more; with    *)
(* the permission policy, the hooks' verdicts, usage accounting and        *)
(* compaction (permissions.rs, hooks.rs, usage.rs, compact.rs).            *)
(*                                                                         *)
(* The runtime is owned by one caller at a time, so that each step is      *)
(* atomic; a turn is several steps because the model, the tools and the    *)
(* user answer in between. A block is [type, id]: a tool call or a         *)
(* question and what answers it carry the same id.                         *)
(***************************************************************************)
EXTENDS Integers, Sequences, FiniteSets

CONSTANTS Replies,         \* what the model may stream: sequences of block
                           \* types, tool names and "ask"
          active_mode,     \* PermissionPolicy.active_mode
          Prompting,       \* a PermissionPrompter is installed
          max_iterations,  \* model calls a turn may make
          preserve_recent, \* CompactionConfig.preserve_recent_messages
          MaxMessages,     \* bound on the session's length
          MaxIds           \* bound on the blocks that are ever named

ReadOnly == "read-only"
WorkspaceWrite == "workspace-write"
DangerFullAccess == "danger-full-access"
Modes == {ReadOnly, WorkspaceWrite, DangerFullAccess, "prompt", "allow"}

(* tool_requirements; a tool that is not registered is "unknown".          *)
Tools == {"read_file", "write_file", "bash", "unknown"}

ASSUME ConversationAssumption ==
  /\ Replies \subseteq Seq(Tools \cup {"text", "ask"})
  /\ active_mode \in Modes
  /\ Prompting \in BOOLEAN
  /\ {max_iterations, preserve_recent, MaxMessages, MaxIds} \subseteq Nat

VARIABLES messages,        \* Session.messages
          compacted_turns, \* SessionTelemetry.compacted_turns
          turns,           \* UsageTracker.turns
          pc,              \* where the loop is
          block,           \* position in the last assistant message
          iterations,      \* model calls of this turn
          responder,       \* the UserInputPrompter of this turn
          result,          \* how the last turn ended
          next_id,         \* names given so far
          executed         \* the tool calls that were executed, in order

session == <<messages, compacted_turns>>
turn == <<pc, block, iterations, responder, result>>
vars == <<session, turns, turn, next_id, executed>>

Roles == {"system", "user", "assistant", "tool"}
BlockTypes == Tools \cup {"text", "ask", "tool_result", "response"}
Block == [type : BlockTypes, id : 0..MaxIds]
Results == {"none", "ok", "error", "pending"}

TypeOK ==
  /\ \A i \in 1..Len(messages) :
       /\ messages[i].role \in Roles
       /\ messages[i].usage \in {0, 1}
       /\ \A j \in 1..Len(messages[i].blocks) :
            messages[i].blocks[j] \in Block
  /\ compacted_turns \in Nat /\ turns \in Nat
  /\ pc \in {"idle", "pending", "stream", "blocks"}
  /\ block \in Nat /\ iterations \in 0..(max_iterations + 1)
  /\ responder \in {"none", "interactive", "submitted", "spent"}
  /\ result \in Results
  /\ next_id \in 0..MaxIds
  /\ executed \in Seq(1..MaxIds)

Init ==
  /\ messages = <<>> /\ compacted_turns = 0 /\ turns = 0
  /\ pc = "idle" /\ block = 0 /\ iterations = 0
  /\ responder = "none" /\ result = "none"
  /\ next_id = 0 /\ executed = <<>>

-----------------------------------------------------------------------------
message(role, blocks) == [role |-> role, blocks |-> blocks, usage |-> 0]
user_text == message("user", <<[type |-> "text", id |-> 0]>>)
tool_result(id) == message("tool", <<[type |-> "tool_result", id |-> id]>>)
user_input_response(id) ==
  message("user", <<[type |-> "response", id |-> id]>>)

(* The blocks of a session, as (position of the message, block).           *)
Blocks(ms) ==
  UNION {{<<i, ms[i].blocks[j]>> : j \in 1..Len(ms[i].blocks)} :
         i \in 1..Len(ms)}

Answers(b, a) ==
  /\ a[1] > b[1]
  /\ a[2].id = b[2].id
  /\ a[2].type = (IF b[2].type = "ask" THEN "response" ELSE "tool_result")

Open(ms, type) ==
  {b \in Blocks(ms) : /\ b[2].type \in type
                      /\ ~ \E a \in Blocks(ms) : Answers(b, a)}

(* Session::pending_user_input_request: the oldest unanswered question, by *)
(* its id (0: none); ids grow along the session.                           *)
pending_user_input_request ==
  LET open == {b[2].id : b \in Open(messages, {"ask"})} IN
  IF open = {} THEN 0 ELSE CHOOSE i \in open : \A j \in open : i <= j

push(m) == messages' = Append(messages, m)

-----------------------------------------------------------------------------
(* permissions.rs *)
required_mode_for(tool) ==
  CASE tool = "read_file" -> ReadOnly
    [] tool = "write_file" -> WorkspaceWrite
    [] OTHER -> DangerFullAccess

auto_allows(mode, required) ==
  \/ mode = "allow"
  \/ mode \in {"prompt", ReadOnly} /\ required = ReadOnly
  \/ mode = DangerFullAccess
  \/ mode = WorkspaceWrite /\ required \in {ReadOnly, WorkspaceWrite}

(* The escalations that are put to the user.                               *)
may_ask(mode, required) ==
  \/ mode = "prompt"
  \/ mode = WorkspaceWrite /\ required = DangerFullAccess

(* PermissionPolicy::authorize: the set of outcomes the user's decision    *)
(* leaves open.                                                            *)
authorize(tool) ==
  LET required == required_mode_for(tool) IN
  IF auto_allows(active_mode, required) THEN {TRUE}
  ELSE IF may_ask(active_mode, required) /\ Prompting THEN BOOLEAN
  ELSE {FALSE}

-----------------------------------------------------------------------------
(* The prompters a turn is given: none, the CLI's, or the server's with    *)
(* the one reply that was submitted.                                       *)
TurnResponders == {"none", "interactive"}
ResumeResponders == {"none", "interactive", "submitted"}

Return(r) == /\ pc' = "idle"
             /\ result' = r
             /\ block' = 0 /\ iterations' = 0
             /\ responder' = "none"

run_turn(p) ==
  /\ pc = "idle" /\ Len(messages) < MaxMessages
  /\ push(user_text)
  /\ pc' = "pending"
  /\ responder' = p
  /\ UNCHANGED <<compacted_turns, turns, block, iterations, result, next_id,
                 executed>>

(* Mutant: a resumed turn handles the last message's blocks again.         *)
resume_pending_turn_replays(p) ==
  /\ pc = "idle" /\ pending_user_input_request # 0
  /\ pc' = "blocks" /\ block' = 1
  /\ responder' = p
  /\ UNCHANGED <<session, turns, iterations, result, next_id, executed>>

resume_pending_turn(p) ==
  /\ pc = "idle"
  /\ \/ /\ pending_user_input_request = 0
        /\ Return("error")
     \/ /\ pending_user_input_request # 0
        /\ pc' = "pending"
        /\ responder' = p
        /\ UNCHANGED <<block, iterations, result>>
  /\ UNCHANGED <<session, turns, next_id, executed>>

(* resolve_user_input_request: a reply (the submitted one is used once),   *)
(* or the turn returns with the question pending. A submitted reply was    *)
(* checked against the oldest pending question before; the CLI's user may  *)
(* always cancel.                                                          *)
answerable(id) ==
  \/ responder = "interactive"
  \/ responder = "submitted" /\ id = pending_user_input_request

resolve_user_input_request(id, goto) ==
  \/ /\ answerable(id)
     /\ push(user_input_response(id))
     /\ responder' = IF responder = "submitted" THEN "spent" ELSE responder
     /\ goto
     /\ UNCHANGED <<compacted_turns, result>>
  \/ /\ ~(answerable(id) /\ responder = "submitted")
     /\ Return("pending")
     /\ UNCHANGED session

(* Mutant: a resumed turn goes on without its question answered.           *)
resolve_pending_skipped ==
  /\ pc = "pending"
  /\ pc' = "stream"
  /\ iterations' = iterations + 1
  /\ UNCHANGED <<session, turns, block, responder, result, next_id, executed>>

(* The top of the loop: settle the oldest pending question, count.         *)
resolve_pending ==
  /\ pc = "pending"
  /\ \/ /\ pending_user_input_request # 0
        /\ resolve_user_input_request(pending_user_input_request,
             pc' = "stream" /\ iterations' = iterations + 1 /\ block' = 0)
     \/ /\ pending_user_input_request = 0
        /\ pc' = "stream"
        /\ iterations' = iterations + 1
        /\ UNCHANGED <<session, block, responder, result>>
  /\ UNCHANGED <<turns, next_id, executed>>

Exhausted == iterations > max_iterations

give_up ==
  /\ pc = "stream" /\ Exhausted
  /\ Return("error")
  /\ UNCHANGED <<session, turns, next_id, executed>>

(* ApiClient::stream and build_assistant_message: an error, a stream that  *)
(* does not finish or is empty, or an assistant message.                   *)
stream_fails ==
  /\ pc = "stream" /\ ~Exhausted
  /\ Return("error")
  /\ UNCHANGED <<session, turns, next_id, executed>>

build_assistant_message(reply, usage) ==
  [role |-> "assistant",
   blocks |-> [i \in 1..Len(reply) |->
                 [type |-> reply[i],
                  id |-> IF reply[i] = "text" THEN 0 ELSE next_id + i]],
   usage |-> usage]

(* The provider may report the usage (1) or not (0).                       *)
stream(reply, usage) ==
  /\ pc = "stream" /\ ~Exhausted
  /\ Len(messages) < MaxMessages /\ next_id + Len(reply) <= MaxIds
  /\ push(build_assistant_message(reply, usage))
  /\ turns' = turns + usage
  /\ next_id' = next_id + Len(reply)
  /\ pc' = "blocks" /\ block' = 1
  /\ UNCHANGED <<compacted_turns, iterations, responder, result, executed>>

-----------------------------------------------------------------------------
(* The assistant message whose blocks are being handled.                   *)
assistant_message ==
  messages[CHOOSE i \in 1..Len(messages) :
             /\ messages[i].role = "assistant"
             /\ \A j \in (i + 1)..Len(messages) :
                  messages[j].role # "assistant"].blocks

InBlocks == pc = "blocks" /\ block <= Len(assistant_message)

(* A tool call: refused by the policy or by a PreToolUse hook, or executed *)
(* (the hook's verdict after it only marks the result). Always answered.   *)
handle_tool_use ==
  LET b == assistant_message[block] IN
  /\ InBlocks /\ b.type \in Tools
  /\ \E allowed \in authorize(b.type), denied_by_hook \in BOOLEAN :
       executed' = IF allowed /\ ~denied_by_hook
                   THEN Append(executed, b.id) ELSE executed
  /\ push(tool_result(b.id))
  /\ block' = block + 1
  /\ UNCHANGED <<compacted_turns, turns, pc, iterations, responder, result,
                 next_id>>

handle_user_input_request ==
  LET b == assistant_message[block] IN
  /\ InBlocks /\ b.type = "ask"
  /\ resolve_user_input_request(b.id,
       block' = block + 1 /\ UNCHANGED <<pc, iterations>>)
  /\ UNCHANGED <<turns, next_id, executed>>

skip_text ==
  /\ InBlocks /\ assistant_message[block].type = "text"
  /\ block' = block + 1
  /\ UNCHANGED <<session, turns, pc, iterations, responder, result, next_id,
                 executed>>

handled_action ==
  \E i \in 1..Len(assistant_message) : assistant_message[i].type # "text"

end_of_blocks ==
  /\ pc = "blocks" /\ ~InBlocks
  /\ \/ /\ handled_action
        /\ pc' = "pending" /\ block' = 0
        /\ UNCHANGED <<iterations, responder, result>>
     \/ ~handled_action /\ Return("ok")
  /\ UNCHANGED <<session, turns, next_id, executed>>

-----------------------------------------------------------------------------
(* compact.rs: the messages before the recent ones become one system       *)
(* message; what they cost moves into the telemetry. Whether the estimate  *)
(* reaches the threshold is left open.                                     *)
compacted_summary_prefix_len ==
  IF messages # <<>> /\ messages[1].role = "system" THEN 1 ELSE 0

usage_of(ms) == Cardinality({i \in 1..Len(ms) : ms[i].usage = 1})

removed_turns(prefix, keep_from) ==
  usage_of(SubSeq(messages, prefix + 1, keep_from))

(* CLI /compact: the runtime is rebuilt from the compacted session, so     *)
(* that the tracker starts over from it (UsageTracker::from_session).      *)
compact_session ==
  LET prefix == compacted_summary_prefix_len
      keep_from == Len(messages) - preserve_recent
  IN /\ pc = "idle"
     /\ Len(messages) - prefix > preserve_recent
     /\ messages' = <<message("system", <<[type |-> "text", id |-> 0]>>)>>
                      \o SubSeq(messages, keep_from + 1, Len(messages))
     /\ compacted_turns' = compacted_turns
                             + removed_turns(prefix, keep_from)
     /\ turns' = compacted_turns' + usage_of(messages')
     /\ UNCHANGED <<turn, next_id, executed>>

Step == \/ resolve_pending \/ give_up \/ stream_fails
        \/ \E reply \in Replies, usage \in {0, 1} : stream(reply, usage)
        \/ handle_tool_use \/ handle_user_input_request \/ skip_text
        \/ end_of_blocks

Next == \/ \E p \in TurnResponders : run_turn(p)
        \/ \E p \in ResumeResponders : resume_pending_turn(p)
        \/ Step
        \/ compact_session

Spec == Init /\ [][Next]_vars

-----------------------------------------------------------------------------
(* Whenever the model is called, everything it asked for before has been   *)
(* answered: every tool call by a result and every question by the user's  *)
(* reply, whatever failed or was cancelled in earlier turns.               *)
CallsAnswered ==
  pc = "stream" => Open(messages, Tools \cup {"ask"}) = {}

(* The model is never called with one of its questions unanswered: asking  *)
(* pauses the turn (resolve_user_input_request, the top of the loop).      *)
QuestionsSettled == pc = "stream" => pending_user_input_request = 0

(* How a turn ends and what it leaves behind agree: it reports a pending   *)
(* question exactly when one is pending (the thread server derives the     *)
(* status from the session and the event from the result).                 *)
OutcomeAgrees ==
  [][pc' = "idle" /\ (pc # "idle" \/ result' # result) =>
       (result' = "pending" <=> pending_user_input_request' # 0)]_vars

(* A tool call is executed at most once and never out of the order of the  *)
(* calls, across failed turns, resumed turns and compactions.              *)
ExecutedOnceInOrder ==
  \A i, j \in 1..Len(executed) : i < j => executed[i] < executed[j]

-----------------------------------------------------------------------------
(* Why calls run once and in order: the blocks being handled are those of  *)
(* the newest assistant message and carry the newest names, and what was   *)
(* executed lies before the block at which the loop is.                    *)
Message == [role : Roles, blocks : Seq(Block), usage : {0, 1}]

Newest(ms, k) == /\ ms[k].role = "assistant"
                 /\ \A j \in (k + 1)..Len(ms) : ms[j].role # "assistant"

InHand ==
  /\ \E k \in 1..Len(messages) : Newest(messages, k)
  /\ block \in 1..(Len(assistant_message) + 1)
  /\ Len(assistant_message) <= next_id
  /\ \A j \in 1..Len(assistant_message) :
       /\ assistant_message[j].type \in Tools \cup {"text", "ask"}
       /\ assistant_message[j].type # "text" =>
            assistant_message[j].id = next_id - Len(assistant_message) + j

Handled == IF pc = "blocks"
           THEN next_id - Len(assistant_message) + block - 1 ELSE next_id

TurnsInv ==
  /\ messages \in Seq(Message) /\ TypeOK
  /\ pc = "idle" => iterations = 0
  /\ pc \in {"pending", "blocks"} => iterations <= max_iterations
  /\ pc = "blocks" => InHand
  /\ \A i \in 1..Len(executed) : executed[i] <= Handled
  /\ ExecutedOnceInOrder

(* Why the model is never called with a call or a question open, if a      *)
(* reply asks at its end only: between the calls of the model nothing is   *)
(* open but one question, and while blocks are handled those to come.      *)
AskLast == \A reply \in Replies :
             \A i \in 1..(Len(reply) - 1) : reply[i] # "ask"

Unanswered == Open(messages, Tools \cup {"ask"})

(* Every name in the session was given, and only what was handled is       *)
(* answered.                                                               *)
NamedInv ==
  \A b \in Blocks(messages) :
    /\ b[2].id <= next_id
    /\ b[2].type \in {"tool_result", "response"} => b[2].id <= Handled

AnsweredInv ==
  /\ pc = "stream" => Unanswered = {}
  /\ pc \in {"idle", "pending"} =>
       \A a, b \in Unanswered : a[2].type = "ask" /\ a[2].id > 0
                                 /\ a[2].id = b[2].id
  /\ pc = "blocks" =>
       /\ \A j \in 1..(Len(assistant_message) - 1) :
            assistant_message[j].type # "ask"
       /\ \A b \in Unanswered : \E j \in block..Len(assistant_message) :
            b[2] = assistant_message[j]

-----------------------------------------------------------------------------
(* Replies for TLC: those in which a question, if any, comes once and      *)
(* last, and those that ask twice, or go on after a question.              *)
QuestionLast ==
  {<<"text">>, <<"bash">>, <<"ask">>, <<"read_file", "write_file">>,
   <<"text", "unknown">>, <<"write_file", "ask">>}
AnyOrder == QuestionLast \cup {<<"ask", "ask">>, <<"ask", "bash">>}
=============================================================================
