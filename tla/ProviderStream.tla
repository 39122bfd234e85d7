---------------------------- MODULE ProviderStream ----------------------------
(***************************************************************************)
(* One streamed model answer: the provider's server-sent events            *)
(* (OpenAI-compatible chunks or openyak events), the parser that cuts the  *)
(* bytes into frames, the state that turns chunks into block events        *)
(* (api openai_compat.rs, sse.rs), and the client that assembles text and  *)
(* tool calls from block events (tools lib.rs for sub-agents, CLI main.rs  *)
(* for the prompt).  The connection may end early or fail at any byte.     *)
(* A call's arguments come in Pieces pieces; a frame's body is one symbol  *)
(* on the wire, its line ends are symbols of their own.                    *)
(***************************************************************************)
EXTENDS Naturals, Sequences, SequencesExt

CONSTANTS Calls,      \* call indices the provider uses, 0..n
          AskCall,    \* the index whose tool is request_user_input
          Pieces,     \* pieces of each call's arguments
          Consumer,   \* "agent" or "cli"
          MaxWire     \* symbols in flight

VARIABLES dialect,    \* "openai" or "openyak", and the line ends in use
          said,       \* history: what the provider has written, in order
          wire,       \* symbols written and not yet received
          link,       \* "open", "ended", "cut", "failed"
          buffer,     \* the parser's unparsed symbols
          st,         \* StreamState: started flags and tool calls by index
          con,        \* the client's pending tools and events
          result      \* what the client returned

streamVars == <<dialect, said, wire, link, buffer, st, con, result>>

Sym(k) == [k |-> k]
Body(f) == [k |-> "body", f |-> f]
Separator == IF dialect.crlf THEN <<Sym("r"), Sym("n"), Sym("r"), Sym("n")>> ELSE <<Sym("n"), Sym("n")>>
NoToolCall == [named |-> FALSE, args |-> <<>>, emitted |-> 0, started |-> FALSE, stopped |-> FALSE]
SaidPieces(i) == SelectSeq(FlattenSeq([n \in 1..Len(said) |-> said[n].pieces]), LAMBDA p : p[1] = i)
SaidNamed(i) == \E n \in 1..Len(said) : i \in said[n].names

StreamInit ==
  /\ dialect \in [api : {"openai", "openyak"}, crlf : BOOLEAN]
  /\ said = <<>> /\ wire = <<>> /\ link = "open" /\ buffer = <<>>
  /\ st = [message |-> FALSE, text |-> FALSE, finished |-> FALSE, calls |-> [i \in Calls |-> NoToolCall]]
  /\ con = [pending |-> [i \in {} |-> <<>>], events |-> <<>>]
  /\ result = [is |-> "none"]

(***************************************************************************)
(* What a provider writes.  names and pieces record what the frame tells   *)
(* about each call; the chunk of an OpenAI provider may carry several      *)
(* calls and its finish reason, and a call may be named late.              *)
(***************************************************************************)
Frame(kind, names, pieces, reason) ==
  [kind |-> kind, names |-> names, pieces |-> pieces, reason |-> reason, index |-> 0]
Whole(i) == Len(SaidPieces(i)) = Pieces
StreamEnded == \E n \in 1..Len(said) : said[n].reason # "none" \/ said[n].kind = "error"

write(f) ==
  /\ link = "open" /\ Len(wire) < MaxWire
  /\ said' = Append(said, f)
  /\ wire' = wire \o <<Body(f)>> \o Separator
  /\ UNCHANGED <<dialect, link, buffer, st, con, result>>

Next1(i) == <<i, Len(SaidPieces(i)) + 1>>
AllWhole == \A i \in Calls : Len(SaidPieces(i)) \in {0, Pieces} /\ (Len(SaidPieces(i)) > 0 => SaidNamed(i))

chunk_written ==
  /\ dialect.api = "openai" /\ ~StreamEnded
  /\ \/ /\ \A n \in 1..Len(said) : said[n].kind # "text"
        /\ write(Frame("text", {}, <<>>, "none"))
     \/ \E i \in Calls, name \in BOOLEAN :
          /\ i > 0 => SaidNamed(i - 1)
          /\ ~Whole(i) /\ (name # SaidNamed(i) \/ ~name)
          /\ write(Frame("calls", IF name THEN {i} ELSE {}, <<Next1(i)>>, "none"))
     \/ /\ said = <<>>
        /\ write(Frame("calls", Calls, SetToSeq({Next1(i) : i \in Calls}), "none"))
     \/ /\ AllWhole
        /\ \E reason \in {"stop", "tool_calls"} : write(Frame("finish", {}, <<>>, reason))
     \/ write(Frame("error", {}, <<>>, "none"))

after_the_end ==
  /\ StreamEnded /\ said[Len(said)].kind # "ignored"
  /\ write(Frame("ignored", {}, <<>>, "none"))

\* An openyak provider writes block events, one block after the other.
LastSaid == IF said = <<>> THEN Frame("stop", {}, <<>>, "none") ELSE said[Len(said)]
event_written ==
  LET event(kind, i, names, pieces) == write([Frame(kind, names, pieces, IF kind = "mstop" THEN "end" ELSE "none") EXCEPT !.index = i])
      i == LastSaid.index IN
  /\ dialect.api = "openyak" /\ ~StreamEnded
  /\ \/ LastSaid.kind = "stop" /\ said = <<>> /\ event("text", 0, {}, <<>>)
     \/ \E j \in Calls : LastSaid.kind \in {"stop", "text"} /\ ~SaidNamed(j) /\ event("start", j, {j}, <<>>)
     \/ LastSaid.kind \in {"start", "delta"} /\ ~Whole(i) /\ event("delta", i, {}, <<Next1(i)>>)
     \/ LastSaid.kind = "delta" /\ Whole(i) /\ event("stop", i, {}, <<>>)
     \/ LastSaid.kind \in {"stop", "text"} /\ event("mstop", 0, {}, <<>>)

\* The provider closes after its answer; or the connection is cut, losing the
\* rest of what was written, perhaps in the middle of a frame; or it fails.
link_ends ==
  /\ link = "open" /\ link' \in {"ended", "cut", "failed"}
  /\ link' = "ended" => StreamEnded
  /\ \E k \in 0..Len(wire), partial \in BOOLEAN :
       /\ link' # "cut" => k = Len(wire)
       /\ partial => link' = "cut" /\ k < Len(wire) /\ wire[k + 1].k = "body"
       /\ wire' = SubSeq(wire, 1, k) \o (IF partial THEN <<Sym("partial")>> ELSE <<>>)
  /\ UNCHANGED <<dialect, said, buffer, st, con, result>>

(***************************************************************************)
(* Frames.                                                                 *)
(***************************************************************************)
At(b, sep) == {p \in 0..(Len(b) - Len(sep)) : \A j \in 1..Len(sep) : b[p + j].k = sep[j]}
First(S) == CHOOSE p \in S : \A q \in S : p <= q

\* Where the first frame ends, and the length of its separator (0: no frame).
next_sse_frame(b) ==
  LET lf == At(b, <<"n", "n">>)
      crlf == At(b, <<"r", "n", "r", "n">>) IN
  IF lf # {} THEN [at |-> First(lf), len |-> 2]
  ELSE IF crlf # {} THEN [at |-> First(crlf), len |-> 4] ELSE [at |-> 0, len |-> 0]

RECURSIVE next_frames(_, _)
next_frames(frames, b) ==
  LET next == next_sse_frame(b) IN
  IF next.len = 0 THEN [frames |-> frames, rest |-> b]
  ELSE next_frames(Append(frames, SubSeq(b, 1, next.at)), SubSeq(b, next.at + next.len + 1, Len(b)))

\* One body is a chunk; a comment, [DONE] or nothing is no event; an error
\* payload, half a body or two bodies fail.
parse_sse_frame(frame) ==
  LET bodies == SelectSeq(frame, LAMBDA s : s.k \notin {"r", "n"}) IN
  IF bodies = <<>> THEN [is |-> "nothing"]
  ELSE IF Len(bodies) > 1 \/ bodies[1].k = "partial" THEN [is |-> "error"]
  ELSE IF bodies[1].f.kind = "ignored" THEN [is |-> "nothing"]
  ELSE IF bodies[1].f.kind = "error" THEN [is |-> "error"]
  ELSE [is |-> "some", f |-> bodies[1].f]

(***************************************************************************)
(* From chunks to block events.                                            *)
(***************************************************************************)
Ev(e, i, args) == [e |-> e, i |-> i, args |-> args]

apply(call, name, pieces) == [call EXCEPT !.named = @ \/ name, !.args = @ \o pieces]

\* start_event (once the name is known) and delta_event (what is not yet sent).
stream_opened(i, call) ==
  IF ~call.started /\ ~call.named THEN [call |-> call, out |-> <<>>]
  ELSE [call |-> [call EXCEPT !.started = TRUE, !.emitted = Len(call.args)],
        out |-> (IF call.started THEN <<>> ELSE <<Ev("start", i, <<>>)>>)
                \o (IF call.emitted < Len(call.args)
                    THEN <<Ev("delta", i, SubSeq(call.args, call.emitted + 1, Len(call.args)))>> ELSE <<>>)]

\* Stop the block of every started call that has not been stopped.
stopped(s) ==
  LET S == {i \in Calls : s.calls[i].started /\ ~s.calls[i].stopped}
      order == SetToSortSeq(S, LAMBDA a, b : a < b) IN
  [s |-> [s EXCEPT !.calls = [i \in Calls |-> [s.calls[i] EXCEPT !.stopped = @ \/ i \in S]]],
   out |-> [n \in 1..Len(order) |-> Ev("stop", order[n], <<>>)]]

ingest_chunk(s0, f) ==
  LET s1 == [s0 EXCEPT !.message = TRUE, !.text = @ \/ f.kind = "text"]
      text == IF f.kind = "text" THEN <<Ev("text", 0, <<>>)>> ELSE <<>>
      touched == SetToSortSeq(f.names \cup {p[1] : p \in Range(f.pieces)}, LAMBDA a, b : a < b)
      new(i) == stream_opened(i, apply(s1.calls[i], i \in f.names, SelectSeq(f.pieces, LAMBDA p : p[1] = i)))
      s2 == [s1 EXCEPT !.calls = [i \in Calls |-> IF i \in Range(touched) THEN new(i).call ELSE @[i]]]
      out == text \o FlattenSeq([n \in 1..Len(touched) |-> new(touched[n]).out]) IN
  IF f.reason = "tool_calls" THEN [s |-> stopped(s2).s, out |-> out \o stopped(s2).out]
  ELSE [s |-> s2, out |-> out]

\* Mutant: what has not been opened by the end is dropped.
finish_open_only(s0) ==
  IF s0.finished \/ ~s0.message THEN [s |-> s0, out |-> <<>>]
  ELSE [s |-> [s0 EXCEPT !.finished = TRUE], out |-> <<Ev("mstop", 0, <<>>)>>]

\* The text block stops first, then each call is started if need be and
\* stopped; a stream that said anything ends with a message_stop.
finish(s0) ==
  LET order == SetToSortSeq(Calls, LAMBDA a, b : a < b)
      new(i) == stream_opened(i, s0.calls[i])
      late(i) == IF s0.calls[i].started THEN <<>> ELSE new(i).out
      each(i) == late(i) \o (IF new(i).call.started /\ ~new(i).call.stopped THEN <<Ev("stop", i, <<>>)>> ELSE <<>>)
      text == IF s0.text THEN <<Ev("stop", 99, <<>>)>> ELSE <<>> IN
  IF s0.finished THEN [s |-> s0, out |-> <<>>]
  ELSE [s |-> [s0 EXCEPT !.finished = TRUE],
        out |-> text \o FlattenSeq([n \in 1..Len(order) |-> each(order[n])])
                \o (IF s0.message THEN <<Ev("mstop", 0, <<>>)>> ELSE <<>>)]

(***************************************************************************)
(* The client.  The sub-agents' client keeps the pending tools by block    *)
(* index, the prompt's client keeps one.                                   *)
(***************************************************************************)
pending_tool == 0
Slot(i) == IF Consumer = "cli" THEN pending_tool ELSE i

\* A tool call becomes an event when its block stops; a question whose input
\* does not parse ends the turn with an error.
parse_pending_output_block(p) ==
  IF p.i # AskCall THEN [e |-> "tool", i |-> p.i, args |-> p.args]
  ELSE IF Len(p.args) = Pieces THEN [e |-> "question", i |-> p.i, args |-> p.args]
  ELSE [e |-> "error", i |-> p.i, args |-> p.args]

push_output_block(c, i) == [c EXCEPT !.pending = (Slot(i) :> [i |-> i, args |-> <<>>]) @@ @]

\* One block event, as the loop of the client's stream handles it.
consume(c, ev) ==
  LET slot == Slot(ev.i) IN
  CASE ev.e = "start" -> push_output_block(c, ev.i)
    [] ev.e = "text" -> [c EXCEPT !.events = Append(@, [e |-> "text", i |-> 0, args |-> <<>>])]
    [] ev.e = "delta" /\ slot \in DOMAIN c.pending -> [c EXCEPT !.pending[slot].args = @ \o ev.args]
    [] ev.e = "stop" /\ slot \in DOMAIN c.pending ->
         [pending |-> [k \in DOMAIN c.pending \ {slot} |-> c.pending[k]],
          events |-> Append(c.events, parse_pending_output_block(c.pending[slot]))]
    [] ev.e = "mstop" -> [c EXCEPT !.events = Append(@, [e |-> "mstop", i |-> 0, args |-> <<>>])]
    [] OTHER -> c

HasEvent(c, kinds) == \E n \in 1..Len(c.events) : c.events[n].e \in kinds

(***************************************************************************)
(* next_event: read bytes, parse the complete frames, hand the events on.  *)
(***************************************************************************)
Event(f) == Ev(f.kind, f.index, f.pieces)
taken(s, f) ==
  IF dialect.api = "openai" THEN ingest_chunk(s, f)
  ELSE [s |-> s, out |-> <<Event(f)>>]

\* Frames in order; the first that fails ends it.
RECURSIVE digest(_, _, _)
digest(s, c, frames) ==
  IF frames = <<>> THEN [s |-> s, c |-> c, ok |-> TRUE]
  ELSE LET parsed == parse_sse_frame(Head(frames))
           t == taken(s, parsed.f)
           fed == FoldLeft(consume, c, t.out) IN
       CASE parsed.is = "error" -> [s |-> s, c |-> c, ok |-> FALSE]
         [] parsed.is = "nothing" -> digest(s, c, Tail(frames))
         [] OTHER -> IF HasEvent(fed, {"error"}) THEN [s |-> t.s, c |-> fed, ok |-> FALSE]
                     ELSE digest(t.s, fed, Tail(frames))

push_chunk(k) ==
  LET all == next_frames(<<>>, buffer \o SubSeq(wire, 1, k))
      d == digest(st, con, all.frames) IN
  /\ result.is = "none"
  /\ wire' = SubSeq(wire, k + 1, Len(wire))
  /\ buffer' = all.rest
  /\ st' = d.s /\ con' = d.c
  /\ result' = IF d.ok THEN result ELSE [is |-> "error"]
  /\ UNCHANGED <<dialect, said, link>>

\* The link failed: chunk() returns its error.
read_fails ==
  /\ link = "failed" /\ result.is = "none"
  /\ result' = [is |-> "error"]
  /\ UNCHANGED <<dialect, said, wire, link, buffer, st, con>>

\* An answer without a message_stop counts as complete when it brought
\* anything, and is otherwise asked for again without streaming.
closing(c) ==
  LET kinds == IF Consumer = "cli" THEN {"text", "tool"} ELSE {"text", "tool", "question"} IN
  IF HasEvent(c, {"mstop"} \cup kinds) THEN [is |-> "ok", events |-> c.events]
  ELSE [is |-> "resend", lost |-> c.events]

\* The end of the stream: what is left in the buffer is parsed as a frame.
stream_ends ==
  LET d == digest(st, con, IF buffer = <<>> THEN <<>> ELSE <<buffer>>)
      f == IF dialect.api = "openai" THEN finish(d.s) ELSE [s |-> d.s, out |-> <<>>]
      c == FoldLeft(consume, d.c, f.out) IN
  /\ link \in {"ended", "cut"} /\ wire = <<>> /\ result.is = "none"
  /\ buffer' = <<>>
  /\ st' = f.s /\ con' = c
  /\ result' = IF ~d.ok \/ HasEvent(c, {"error"}) THEN [is |-> "error"] ELSE closing(c)
  /\ UNCHANGED <<dialect, said, wire, link>>

\* response_to_events: each block of a whole response is complete at once.
response_to_events(blocks) ==
  [n \in 1..Len(blocks) |->
     IF blocks[n] = "text" THEN [e |-> "text", i |-> 0, args |-> <<>>]
     ELSE parse_pending_output_block([i |-> IF blocks[n] = "ask" THEN AskCall ELSE AskCall + 1,
                                      args |-> [p \in 1..Pieces |-> <<"again", p>>]])]
  \o <<[e |-> "mstop", i |-> 0, args |-> <<>>]>>

send_message ==
  /\ result.is = "resend"
  /\ \/ result' = [is |-> "error"]
     \/ \E blocks \in {<<>>, <<"text">>, <<"tool">>, <<"text", "ask">>} :
          result' = [is |-> "again", events |-> response_to_events(blocks)]
  /\ UNCHANGED <<dialect, said, wire, link, buffer, st, con>>

StreamNext ==
  \/ chunk_written \/ after_the_end \/ event_written \/ link_ends
  \/ \E k \in 1..Len(wire) : push_chunk(k)
  \/ read_fails
  \/ stream_ends
  \/ send_message

----------------------------------------------------------------------------
(***************************************************************************)
(* Properties.                                                             *)
(***************************************************************************)
Delivered == SelectSeq(result.events, LAMBDA ev : ev.e \in {"tool", "question"})

\* Every call a complete answer names reaches the conversation, once, with
\* all of its own arguments and none of another call's, however the bytes
\* were cut into reads and whichever chunk named it.
CallsDelivered ==
  (result.is = "ok" /\ link = "ended")
    => /\ \A i \in Calls : SaidNamed(i) => \E n \in 1..Len(Delivered) : Delivered[n].i = i
       /\ \A m, n \in 1..Len(Delivered) : m # n => Delivered[m].i # Delivered[n].i
       /\ \A n \in 1..Len(Delivered) : Delivered[n].args = SaidPieces(Delivered[n].i)

\* Whatever happens to the stream, no call is delivered with arguments that
\* are not the beginning of its own, and no question with less than all of them.
CallsUnmixed ==
  result.is = "ok" =>
    \A n \in 1..Len(Delivered) :
      /\ IsPrefix(Delivered[n].args, SaidPieces(Delivered[n].i))
      /\ Delivered[n].e = "question" => Len(Delivered[n].args) = Pieces

\* The answer is asked for a second time only when the first one brought
\* nothing the conversation could have used.
ResentOnlyIfEmpty == result.is = "resend" => ~HasEvent([events |-> result.lost], {"text", "tool", "question"})

\* What a sub-agent's model call returns is what the provider said.
AnswerFaithful == CallsDelivered /\ CallsUnmixed /\ ResentOnlyIfEmpty
=============================================================================
