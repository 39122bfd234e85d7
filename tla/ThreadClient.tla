---------------------------- MODULE ThreadClient ----------------------------
(***************************************************************************)
(* The SDKs' Thread.run() and Thread.resume_user_input(): attach to the    *)
(* thread's events, submit, follow the events of the accepted run, and     *)
(* fall back on the thread's snapshot when the stream is lost. The Python  *)
(* client (sync and async) and the TypeScript client share the protocol;   *)
(* the latter may repeat a submission whose answer was lost.               *)
(*                                                                         *)
(* The server side is what the clients can see of ThreadRecord: a run's    *)
(* state is committed before its events are sent, a stream may lag or      *)
(* break, a crash interrupts the run in progress.                          *)
(***************************************************************************)
EXTENDS Naturals, Sequences, SequencesExt

CONSTANTS TurnCalls, ReplyCalls,  \* calls of run() and resume_user_input()
          Scenarios,              \* which calls are made together
          SubmitAttempts,         \* 1 in Python, the retry policy's in TS
          ReadAttempts,           \* 10 in the code
          MaxRuns, MaxFaults      \* bounds on runs and on lost messages

ASSUME ClientAssumption ==
  /\ TurnCalls \cap ReplyCalls = {}
  /\ {SubmitAttempts, ReadAttempts, MaxRuns, MaxFaults} \subseteq Nat

Calls == TurnCalls \cup ReplyCalls
Ends == {"completed", "failed", "waiting"}

VARIABLES thread,   \* what the server holds: state and assistant messages
          truth,    \* truth[r]: how the segments of run r ended, in order
          due,      \* due[r]: events of run r that are not sent yet
          client,   \* the calls in progress
          faults

clientVars == <<thread, truth, due, client, faults>>

Event(type, run) == [type |-> type, run |-> run]
Events == [type : Ends \cup {"delta", "lost"}, run : Nat]
Results == Ends \cup {"none", "error", "interrupted"}
Session == [pc : {"new", "attached", "following", "reading", "done"}, run : Nat, from : Nat,
            stream : Seq(Events), text : Seq(Nat), tries : 0..(SubmitAttempts + ReadAttempts),
            result : Results, recovered : BOOLEAN, alone : BOOLEAN]

ClientTypeOK ==
  /\ thread \in [up : BOOLEAN, kind : {"idle", "running", "awaiting", "interrupted"},
                 run : Nat, log : Seq(Nat)]
  /\ truth \in Seq(Seq(Ends \cup {"interrupted"})) /\ Len(truth) <= MaxRuns
  /\ due \in Seq(Seq(Ends \cup {"delta"})) /\ Len(due) = Len(truth)
  /\ client \in [Calls -> Session]
  /\ \A c \in Calls : client[c].run <= Len(truth) /\ client[c].from <= Len(thread.log)
  /\ faults \in 0..MaxFaults

ClientInit ==
  /\ thread = [up |-> TRUE, kind |-> "idle", run |-> 0, log |-> <<>>]
  /\ truth = <<>> /\ due = <<>>
  /\ \E made \in Scenarios : client = [c \in Calls |->
       [pc |-> IF c \in made THEN "new" ELSE "done", run |-> 0, from |-> 0, stream |-> <<>>, text |-> <<>>,
        tries |-> 0, result |-> "none", recovered |-> FALSE, alone |-> TRUE]]
  /\ faults = 0

-----------------------------------------------------------------------------
(* The server.                                                             *)
Subscribed(c) == client[c].pc \in {"attached", "following"}
Lost(s) == s # <<>> /\ Last(s).type = "lost"

(* The clients' filter on the run id is applied here, where it is already  *)
(* decided: a turn's run has no events before the turn is submitted.       *)
Concerns(c, e) == \/ e.run \in {0, client[c].run}
                  \/ c \in ReplyCalls /\ client[c].pc = "attached"

deliver(e) ==
  [c \in Calls |->
     IF Subscribed(c) /\ ~Lost(client[c].stream) /\ Concerns(c, e)
     THEN [client[c] EXCEPT !.stream = Append(@, e)]
     ELSE client[c]]

(* The events of a run's segment: what it spoke, then its end.             *)
segment(end) == (IF end = "failed" THEN <<>> ELSE <<"delta", "delta">>) \o <<end>>

(* A run ends or asks: state and messages first, then its events.          *)
finish(end) ==
  LET r == thread.run
  IN /\ thread.up /\ thread.kind = "running"
     /\ thread' = [thread EXCEPT
          !.kind = IF end = "waiting" THEN "awaiting" ELSE "idle",
          !.run = IF end = "waiting" THEN r ELSE 0,
          !.log = IF end = "failed" THEN @ ELSE Append(@, r)]
     /\ truth' = [truth EXCEPT ![r] = Append(@, end)]
     /\ due' = [due EXCEPT ![r] = @ \o segment(end)]
     /\ UNCHANGED <<client, faults>>

(* One event goes out. (That a following client takes what it has been     *)
(* sent before more is sent loses no outcome: taking an event touches      *)
(* nothing but the call.)                                                  *)
send_event(r) ==
  /\ thread.up /\ due[r] # <<>>
  /\ \A c \in Calls : client[c].pc = "following" => client[c].stream = <<>>
  /\ due' = [due EXCEPT ![r] = Tail(@)]
  /\ client' = deliver(Event(Head(due[r]), r))
  /\ UNCHANGED <<thread, truth, faults>>

(* A stream breaks, or is told to resync because it lagged.                *)
lose_stream(c) ==
  /\ faults < MaxFaults /\ Subscribed(c) /\ ~Lost(client[c].stream)
  /\ faults' = faults + 1
  /\ client' = [client EXCEPT ![c].stream = Append(@, Event("lost", 0))]
  /\ UNCHANGED <<thread, truth, due>>

crash ==
  /\ thread.up /\ faults < MaxFaults
  /\ faults' = faults + 1
  /\ thread' = [thread EXCEPT !.up = FALSE,
                  !.kind = IF @ = "running" THEN "interrupted" ELSE @]
  /\ truth' = IF thread.kind = "running"
              THEN [truth EXCEPT ![thread.run] = Append(@, "interrupted")]
              ELSE truth
  /\ due' = [r \in DOMAIN due |-> <<>>]
  /\ client' = deliver(Event("lost", 0))

restart == /\ ~thread.up
           /\ thread' = [thread EXCEPT !.up = TRUE]
           /\ UNCHANGED <<truth, due, client, faults>>

-----------------------------------------------------------------------------
(* The clients.                                                            *)
answer(c, result) == [c EXCEPT !.pc = "done", !.result = result,
                               !.stream = <<>>, !.from = 0, !.tries = 0]

(* _open_event_stream and the first thread.snapshot of the stream.         *)
open_event_stream(c) ==
  /\ client[c].pc = "new"
  /\ client' = [client EXCEPT ![c] =
       IF thread.up THEN [@ EXCEPT !.pc = "attached",
                                   !.from = Len(thread.log),
                                   !.alone = thread.kind # "running"]
       ELSE answer(@, "error")]
  /\ UNCHANGED <<thread, truth, due, faults>>

(* What POST turns and POST user-input do to the thread.                   *)
CanSubmit(c) ==
  /\ thread.up
  /\ \/ c \in TurnCalls /\ thread.kind \in {"idle", "interrupted"}
                        /\ Len(truth) < MaxRuns
     \/ c \in ReplyCalls /\ thread.kind = "awaiting"

accept(c) ==
  LET r == IF c \in TurnCalls THEN Len(truth) + 1 ELSE thread.run
  IN /\ thread' = [thread EXCEPT !.kind = "running", !.run = r]
     /\ truth' = IF c \in TurnCalls THEN Append(truth, <<>>) ELSE truth
     /\ due' = IF c \in TurnCalls THEN Append(due, <<>>) ELSE due

(* Others that are under way are no longer the only writer.                *)
interfere(c, own) ==
  [d \in Calls |-> IF d = c THEN own
                   ELSE [client[d] EXCEPT !.alone =
                           @ /\ client[d].pc \in {"new", "done"}]]

(* requestJson of the TypeScript client: a transport error, and no other,  *)
(* is tried again, whatever the request did.                               *)
retried(s) == IF s.tries + 1 < SubmitAttempts
              THEN [s EXCEPT !.tries = @ + 1, !.alone = FALSE]
              ELSE answer(s, "error")

(* _prepare_run_stream: the submission is accepted, is refused, or its     *)
(* answer is lost.                                                         *)
submit(c) ==
  LET s == client[c]
      unanswered == retried(s)
  IN /\ s.pc = "attached"
     /\ \/ /\ CanSubmit(c) /\ accept(c)
           /\ client' = interfere(c, [s EXCEPT !.pc = "following",
                                               !.run = thread'.run,
                                               !.tries = 0])
           /\ UNCHANGED faults
        \/ /\ CanSubmit(c) /\ faults < MaxFaults /\ accept(c)
           /\ client' = interfere(c, unanswered)
           /\ faults' = faults + 1
        \/ /\ ~CanSubmit(c)
           /\ client' = [client EXCEPT ![c] =
                           IF thread.up THEN answer(@, "error")
                           ELSE unanswered]
           /\ UNCHANGED <<thread, truth, due, faults>>

(* _consume_buffered_run: collects text, returns at a terminal event.      *)
consume(s, e) ==
  IF e.run # s.run THEN s
  ELSE IF e.type = "delta" THEN [s EXCEPT !.text = Append(@, e.run)]
  ELSE answer(s, e.type)

(* _run_events: the events of the accepted run; a lost stream is an error  *)
(* that the buffered call recovers from.                                   *)
next_event(c) ==
  LET s == client[c]
      e == Head(s.stream)
  IN /\ s.pc = "following" /\ s.stream # <<>>
     /\ client' = [client EXCEPT ![c] =
          IF e.type = "lost"
          THEN [s EXCEPT !.pc = "reading", !.stream = <<>>]
          ELSE consume([s EXCEPT !.stream = Tail(@)], e)]
     /\ UNCHANGED <<thread, truth, due, faults>>

(* Mutant: the snapshot the call began with is taken for the latest one.   *)
recovered_status_stale(s) == "completed"

(* The status of a recovered result: another active run, or one that still *)
(* runs, is an error.                                                      *)
recovered_status(s) ==
  IF thread.run \notin {0, s.run} THEN "error"
  ELSE CASE thread.kind = "running" -> "error"
         [] thread.kind = "idle" -> "completed"
         [] thread.kind = "awaiting" -> "waiting"
         [] thread.kind = "interrupted" -> "interrupted"

(* messages_to_text over the messages behind the first snapshot's.         *)
appended_messages(s) == SubSeq(thread.log, s.from + 1, Len(thread.log))

(* The text of the deltas, if any came, or else of the new messages.       *)
reconcile_buffered_run(s) ==
  LET status == recovered_status(s) IN
  [answer(s, status) EXCEPT
     !.recovered = status # "error",
     !.text = IF @ = <<>> /\ status # "error" THEN appended_messages(s) ELSE @]

(* Mutant: reads without a bound.                                          *)
failed_read_forever(s) == s

(* _read_for_reconcile gives up with the stream's error.                   *)
failed_read(s) == IF s.tries + 1 < ReadAttempts
                  THEN [s EXCEPT !.tries = @ + 1] ELSE answer(s, "error")

(* _read_for_reconcile: a bounded number of reads, then the first error. A *)
(* read may fail on a server that runs: its token is another after a       *)
(* restart.                                                                *)
read_for_reconcile(c) ==
  LET s == client[c] IN
  /\ s.pc = "reading"
  /\ \E after \in {failed_read(s)}
                \cup (IF thread.up THEN {reconcile_buffered_run(s)} ELSE {}) :
       client' = [client EXCEPT ![c] = after]
  /\ UNCHANGED <<thread, truth, due, faults>>

-----------------------------------------------------------------------------
Call(c) == \/ open_event_stream(c) \/ submit(c)
           \/ next_event(c) \/ read_for_reconcile(c)
Server == \/ \E end \in Ends : finish(end)
          \/ \E r \in DOMAIN due : send_event(r)

ClientNext == \/ \E c \in Calls : Call(c) \/ lose_stream(c)
              \/ Server \/ crash \/ restart

(* A call goes on as soon as it can; a worker ends and sends its events.   *)
ClientFairness == /\ \A c \in Calls : WF_clientVars(Call(c))
                  /\ WF_clientVars(Server)

ClientSpec == ClientInit /\ [][ClientNext]_clientVars /\ ClientFairness

-----------------------------------------------------------------------------
(* A result taken from a terminal event is how the run ended, with the     *)
(* whole of its text: run() reports the first end of its run, a resumed    *)
(* call an end of the run that asked (its own question may still be on its *)
(* way when the reply is submitted, and carries the same run id).          *)
TerminalTruthful ==
  \A c \in Calls :
    LET s == client[c] IN
    s.pc = "done" /\ ~s.recovered /\ s.result \in Ends =>
      IF c \in TurnCalls
      THEN /\ s.result = truth[s.run][1]
           /\ s.text = IF s.result = "failed" THEN <<>> ELSE <<s.run, s.run>>
      ELSE s.result \in Range(truth[s.run])

(* A result recovered from a snapshot is never about a run that is still   *)
(* in its first segment, and a question or an interruption it reports is   *)
(* its own run's.                                                          *)
RecoveredTruthful ==
  \A c \in Calls :
    LET s == client[c] IN
    s.pc = "done" /\ s.recovered =>
      /\ truth[s.run] # <<>>
      /\ s.result # "completed" => s.result \in Range(truth[s.run])

(* For a single writer, the text of a result is its own run's, deltas and  *)
(* appended messages alike.                                                *)
OwnTextWhenAlone ==
  \A c \in Calls : client[c].pc = "done" /\ client[c].alone =>
    \A i \in DOMAIN client[c].text : client[c].text[i] = client[c].run

(* What run() and resume() of the thread client return is how their run    *)
(* ended, from an event or from a snapshot read after the stream was lost, *)
(* and, for a single writer, with that run's text.                         *)
ClientSound == ClientTypeOK /\ TerminalTruthful /\ RecoveredTruthful /\ OwnTextWhenAlone

(* Every call returns, whatever is lost: a broken stream is noticed, and   *)
(* reads are bounded.                                                      *)
CallsReturn == \A c \in Calls : client[c].pc # "new" ~> client[c].pc = "done"
-----------------------------------------------------------------------------
(* Why ClientSound holds. The server: a run without an end is the one that *)
(* runs, the thread's state is what its run was told, and so are the       *)
(* events that are due.                                                    *)
Told(r, end) == \E i \in 1..Len(truth[r]) : truth[r][i] = end

ServerInv ==
  /\ thread.run <= Len(truth) /\ (thread.kind = "idle" <=> thread.run = 0)
  /\ thread.kind = "awaiting" => Told(thread.run, "waiting")
  /\ thread.kind = "interrupted" => Told(thread.run, "interrupted")
  /\ \A r \in 1..Len(truth) :
       /\ truth[r] = <<>> => due[r] = <<>> /\ thread.kind = "running" /\ thread.run = r
       /\ \A i \in 1..Len(due[r]) : due[r][i] # "delta" => Told(r, due[r][i])

(* A call: it has a run from its submission on, and a stream while it is   *)
(* subscribed; the loss of the stream is the last thing that it brings,    *)
(* and an end that it brings is one.                                       *)
Begun(c) ==
  /\ client[c].pc \in {"new", "attached"} => client[c].run = 0 /\ client[c].text = <<>>
  /\ client[c].pc \in {"following", "reading"} => client[c].run > 0
  /\ client[c].pc \in {"new", "reading", "done"} => client[c].stream = <<>>
  /\ client[c].pc # "done" => ~client[c].recovered

Buffered(c) ==
  \A i \in 1..Len(client[c].stream) :
    /\ client[c].stream[i].type = "lost" <=> client[c].stream[i].run = 0
    /\ client[c].stream[i].type = "lost" => i = Len(client[c].stream)
    /\ client[c].stream[i].run <= Len(truth)
    /\ client[c].stream[i].type \in Ends => Told(client[c].stream[i].run, client[c].stream[i].type)

OnlyLost(c) == \A i \in 1..Len(client[c].stream) : client[c].stream[i].type = "lost"

(* A call of run() has seen the first deltas of its run; what is buffered  *)
(* or due next are the others and the end, unless the stream is lost.      *)
Deltas(end) == IF end = "failed" THEN 0 ELSE 2
Expected(end, n) == IF n = Deltas(end) THEN end ELSE "delta"

FirstSegment(c) ==
  LET r == client[c].run
      first == truth[r][1]
      seen == Len(client[c].text)
  IN client[c].pc = "following" =>
       /\ truth[r] = <<>> \/ first = "interrupted" => OnlyLost(c) /\ seen = 0
       /\ truth[r] # <<>> /\ first = "interrupted" => client[c].stream # <<>>
       /\ truth[r] # <<>> /\ first # "interrupted" =>
            /\ seen <= Deltas(first)
            /\ client[c].stream = <<>> => \A j \in 0..(Deltas(first) - seen) :
                 j < Len(due[r]) /\ due[r][j + 1] = Expected(first, seen + j)
            /\ ~OnlyLost(c) =>
                 /\ client[c].stream[1] = Event(Expected(first, seen), r)
                 /\ \A i \in 2..Len(client[c].stream) : client[c].stream[i].type = "lost"
                 /\ Len(client[c].stream) = 1 => \A j \in 1..(Deltas(first) - seen) :
                      j <= Len(due[r]) /\ due[r][j] = Expected(first, seen + j)

TurnInv(c) == /\ client[c].pc = "attached" => OnlyLost(c)
              /\ FirstSegment(c)

(* What was returned: TerminalTruthful and RecoveredTruthful, of a run     *)
(* that has an end.                                                        *)
Returned(c) ==
  /\ client[c].pc = "done" /\ ~client[c].recovered /\ client[c].result \in Ends =>
       /\ client[c].run > 0 /\ truth[client[c].run] # <<>>
       /\ IF c \in TurnCalls
          THEN /\ client[c].result = truth[client[c].run][1]
               /\ client[c].text = IF client[c].result = "failed" THEN <<>> ELSE <<client[c].run, client[c].run>>
          ELSE Told(client[c].run, client[c].result)
  /\ client[c].pc = "done" /\ client[c].recovered =>
       /\ client[c].run > 0 /\ truth[client[c].run] # <<>>
       /\ client[c].result # "completed" => Told(client[c].run, client[c].result)

(* The text, and the messages that would be its replacement.               *)
OwnText(c) ==
  client[c].pc # "done" \/ client[c].alone => \A i \in 1..Len(client[c].text) : client[c].text[i] = client[c].run

SingleWriter(c) ==
  /\ client[c].pc = "attached" /\ client[c].alone => thread.kind # "running" /\ client[c].from = Len(thread.log)
  /\ client[c].pc \in {"following", "reading"} /\ client[c].alone =>
       /\ \A j \in (client[c].from + 1)..Len(thread.log) : thread.log[j] = client[c].run
       /\ thread.kind = "running" => thread.run = client[c].run

CallInv(c) == /\ Begun(c) /\ Buffered(c) /\ (c \in TurnCalls => TurnInv(c))
              /\ Returned(c) /\ OwnText(c) /\ SingleWriter(c)

(* The inductive invariant behind ClientSound.                             *)
ClientInv == ClientTypeOK /\ ServerInv /\ \A c \in Calls : CallInv(c)
=============================================================================
