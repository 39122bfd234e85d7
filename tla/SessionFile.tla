----------------------------- MODULE SessionFile -----------------------------
(***************************************************************************)
(* A session on disk (runtime, session.rs and json.rs): the JSON text that *)
(* save_to_path writes and load_from_path parses, with a process that may  *)
(* die, or a disk that may fill up, in the middle of a write.  A text is a *)
(* sequence of characters; a word without any character that JSON treats   *)
(* specially counts as one character.                                      *)
(***************************************************************************)
EXTENDS Integers, Sequences, SequencesExt, TLC

CONSTANTS SavedMessages,    \* what a conversation may add to its session
          Telemetries, \* what compaction may have left in it
          Foreign,     \* JSON values that something else wrote to the file
          MaxSaved, \* bound on the messages of a session
          MaxFaults    \* bound on the writes that fail

VARIABLES memory,   \* the Session a process holds, NoSession without a process
          file,     \* the characters of the session file
          writing,  \* a save has truncated the file and not yet written it
          saved,    \* history: the session of the save that was last begun
          loaded,   \* the result of the last load
          faults    \* history: writes that failed

sessionVars == <<memory, file, writing, saved, loaded, faults>>

(***************************************************************************)
(* json.rs.  A value is a pair: its kind and what it holds.                *)
(***************************************************************************)
Str(s) == <<"string", s>>
Num(n) == <<"number", n>>
Bool(b) == <<"bool", b>>
Arr(s) == <<"array", s>>
Obj(f) == <<"object", f>>
Null == <<"null", 0>>

Quote == "\""
Backslash == "\\"
Newline == "\n"
Control == "U+0001"
HexDigits == <<"0", "1", "2", "3", "4", "5", "6", "7", "8", "9", "a", "b", "c", "d", "e", "f">>
Digits == SubSeq(HexDigits, 1, 10)
DigitOf(c) == SelectInSeq(HexDigits, LAMBDA d : d = c) - 1
Space == {" ", Newline, "\r", "\t"}

\* BTreeMap iterates in the order of its keys: the keys of a session, sorted.
KeyOrder == <<"accounting_status", "allow_freeform", "blocks", "cache_creation_input_tokens",
              "cache_read_input_tokens", "compacted_turns", "compacted_usage", "content", "id",
              "input", "input_tokens", "is_error", "messages", "name", "options", "output",
              "output_tokens", "prompt", "request_id", "role", "selected_option", "telemetry",
              "text", "tool_name", "tool_use_id", "type", "usage", "version">>

escaped(c) ==
  CASE c = Quote -> <<Backslash, Quote>>
    [] c = Backslash -> <<Backslash, Backslash>>
    [] c = Newline -> <<Backslash, "n">>
    [] c = Control -> <<Backslash, "u", "0", "0", "0", "1">>
    [] OTHER -> <<c>>

render_string(s) == <<Quote>> \o FlattenSeq([i \in DOMAIN s |-> escaped(s[i])]) \o <<Quote>>
decimal(n) == IF n < 10 THEN <<Digits[n + 1]>> ELSE <<Digits[(n \div 10) + 1], Digits[(n % 10) + 1]>>
separated(parts) ==
  FlattenSeq([i \in DOMAIN parts |-> IF i = 1 THEN parts[i] ELSE <<",">> \o parts[i]])

RECURSIVE render(_)
render(v) ==
  CASE v[1] = "null" -> <<"n", "u", "l", "l">>
    [] v[1] = "string" -> render_string(v[2])
    [] v[1] = "number" -> IF v[2] < 0 THEN <<"-">> \o decimal(- v[2]) ELSE decimal(v[2])
    [] v[1] = "bool" -> IF v[2] THEN <<"t", "r", "u", "e">> ELSE <<"f", "a", "l", "s", "e">>
    [] v[1] = "array" ->
         <<"[">> \o separated([i \in DOMAIN v[2] |-> render(v[2][i])]) \o <<"]">>
    [] v[1] = "object" ->
         LET keys == SelectSeq(KeyOrder, LAMBDA k : <<k>> \in DOMAIN v[2])
         IN  <<"{">> \o separated([i \in DOMAIN keys |->
               render_string(<<keys[i]>>) \o <<":">> \o render(v[2][<<keys[i]>>])]) \o <<"}">>

\* The parser.  Its operators take the text and a position, and return the
\* value with the position behind it, or Failed.
Failed == [ok |-> FALSE]
Done(v, i) == [ok |-> TRUE, v |-> v, i |-> i]
peek(s, i) == IF i <= Len(s) THEN s[i] ELSE "eof"

RECURSIVE skip_whitespace(_, _)
skip_whitespace(s, i) == IF peek(s, i) \in Space THEN skip_whitespace(s, i + 1) ELSE i

parse_literal(s, i, expected, v) ==
  IF \A k \in DOMAIN expected : peek(s, i + k - 1) = expected[k]
  THEN Done(v, i + Len(expected)) ELSE Failed

parse_unicode_escape(s, i) ==
  IF \A k \in 0..3 : DigitOf(peek(s, i + k)) >= 0
  THEN LET n == DigitOf(s[i]) * 4096 + DigitOf(s[i + 1]) * 256 + DigitOf(s[i + 2]) * 16
                + DigitOf(s[i + 3])
       IN  IF n = 1 THEN Done(Control, i + 4) ELSE Failed
  ELSE Failed

parse_escape(s, i) ==
  CASE peek(s, i) \in {Quote, Backslash, "/"} -> Done(s[i], i + 1)
    [] peek(s, i) = "n" -> Done(Newline, i + 1)
    [] peek(s, i) = "u" -> parse_unicode_escape(s, i + 1)
    [] OTHER -> Failed

RECURSIVE string_from(_, _, _)
string_from(s, i, value) ==
  IF i > Len(s) THEN Failed
  ELSE IF s[i] = Quote THEN Done(value, i + 1)
  ELSE IF s[i] # Backslash THEN string_from(s, i + 1, Append(value, s[i]))
  ELSE LET e == parse_escape(s, i + 1)
       IN  IF e.ok THEN string_from(s, e.i, Append(value, e.v)) ELSE Failed
parse_string(s, i) == IF peek(s, i) = Quote THEN string_from(s, i + 1, <<>>) ELSE Failed

RECURSIVE number_from(_, _, _)
number_from(s, i, n) ==
  IF peek(s, i) \in ToSet(Digits) THEN number_from(s, i + 1, 10 * n + DigitOf(s[i])) ELSE Done(Num(n), i)
parse_number(s, i) ==
  LET j == IF peek(s, i) = "-" THEN i + 1 ELSE i
      r == number_from(s, j, 0)
  IN  IF r.i = j THEN Failed ELSE IF j = i THEN r ELSE Done(Num(- r.v[2]), r.i)

\* The end of an array or object: at the closing bracket, or behind a comma
\* when another element may follow.
closed(s, i, bracket) == peek(s, skip_whitespace(s, i)) = bracket
put(f, k, v) == [x \in DOMAIN f \cup {k} |-> IF x = k THEN v ELSE f[x]]

as_value(string) == IF string.ok THEN Done(Str(string.v), string.i) ELSE Failed

\* parse_value is given the position behind the whitespace; an element, and
\* an entry with its key k, are followed by the end or by a comma.
RECURSIVE parse_value(_, _), parse_array(_, _, _), parse_object(_, _, _)
element(s, e, values) ==
  IF ~ e.ok THEN Failed
  ELSE IF closed(s, e.i, "]") THEN Done(Arr(Append(values, e.v)), skip_whitespace(s, e.i) + 1)
  ELSE IF closed(s, e.i, ",") THEN parse_array(s, skip_whitespace(s, e.i) + 1, Append(values, e.v))
  ELSE Failed
entry(s, k, e, entries) ==
  IF ~ e.ok THEN Failed
  ELSE IF closed(s, e.i, "}") THEN Done(Obj(put(entries, k, e.v)), skip_whitespace(s, e.i) + 1)
  ELSE IF closed(s, e.i, ",")
  THEN parse_object(s, skip_whitespace(s, e.i) + 1, put(entries, k, e.v))
  ELSE Failed
keyed(s, k, entries) ==
  IF ~ k.ok THEN Failed
  ELSE IF ~ closed(s, k.i, ":") THEN Failed
  ELSE entry(s, k.v, parse_value(s, skip_whitespace(s, skip_whitespace(s, k.i) + 1)), entries)

parse_value(s, i) ==
  CASE peek(s, i) = "n" -> parse_literal(s, i, <<"n", "u", "l", "l">>, Null)
    [] peek(s, i) = "t" -> parse_literal(s, i, <<"t", "r", "u", "e">>, Bool(TRUE))
    [] peek(s, i) = "f" -> parse_literal(s, i, <<"f", "a", "l", "s", "e">>, Bool(FALSE))
    [] peek(s, i) = Quote -> as_value(parse_string(s, i))
    [] peek(s, i) = "[" -> parse_array(s, i + 1, <<>>)
    [] peek(s, i) = "{" -> parse_object(s, i + 1, <<>>)
    [] peek(s, i) \in ToSet(Digits) \cup {"-"} -> parse_number(s, i)
    [] OTHER -> Failed

parse_array(s, i, values) ==
  IF closed(s, i, "]") THEN Done(Arr(values), skip_whitespace(s, i) + 1)
  ELSE element(s, parse_value(s, skip_whitespace(s, i)), values)

parse_object(s, i, entries) ==
  IF closed(s, i, "}") THEN Done(Obj(entries), skip_whitespace(s, i) + 1)
  ELSE keyed(s, parse_string(s, skip_whitespace(s, i)), entries)

whole(s, r) == IF r.ok /\ skip_whitespace(s, r.i) > Len(s) THEN r ELSE Failed
parse(s) == whole(s, parse_value(s, skip_whitespace(s, 1)))

(***************************************************************************)
(* session.rs.  The Rust types are records; a field that is an Option and  *)
(* None is not in the record.                                              *)
(***************************************************************************)
\* The entries of a record, with the kind of value that to_json gives each;
\* a value of another kind is one already.
Strings == {"text", "id", "name", "input", "tool_use_id", "tool_name", "output", "request_id",
            "prompt", "content", "selected_option", "role", "type", "accounting_status"}
Flags == {"is_error", "allow_freeform"}
Counts == {"version", "input_tokens", "output_tokens", "cache_creation_input_tokens",
           "cache_read_input_tokens", "compacted_turns"}
string_array(ss) == Arr([i \in DOMAIN ss |-> Str(ss[i])])
entries_of(r) ==
  [k \in {<<x>> : x \in DOMAIN r} |->
     LET v == r[k[1]] IN
     CASE k[1] \in Strings -> Str(v)
       [] k[1] \in Flags -> Bool(v)
       [] k[1] \in Counts -> Num(v)
       [] k[1] = "options" -> string_array(v)
       [] OTHER -> v]

usage_to_json(u) == Obj(entries_of(u))
block_to_json(b) == Obj(entries_of(b))
telemetry_to_json(t) ==
  Obj(entries_of([t EXCEPT !.compacted_usage = usage_to_json(@)]))
message_to_json(m) ==
  Obj(entries_of([k \in DOMAIN m |->
    CASE k = "usage" -> usage_to_json(m[k])
      [] k = "blocks" -> Arr([i \in DOMAIN m[k] |-> block_to_json(m[k][i])])
      [] OTHER -> m[k]]))
to_json(s) ==
  Obj(entries_of([k \in DOMAIN s |->
    CASE k = "telemetry" -> telemetry_to_json(s[k])
      [] k = "messages" -> Arr([i \in DOMAIN s[k] |-> message_to_json(s[k][i])])
      [] OTHER -> s[k]]))

\* Reading.  Width stands for 2^32.
NumberWidth == 100
Has(o, k) == <<k>> \in DOMAIN o
at(o, k) == o[<<k>>]
IsKind(o, k, kind) == Has(o, k) /\ at(o, k)[1] = kind
required_string(o, k) == IsKind(o, k, "string")
required_bool(o, k) == IsKind(o, k, "bool")
required_u32(o, k) == IsKind(o, k, "number") /\ at(o, k)[2] \in 0..(NumberWidth - 1)
optional_string(o, k) == Has(o, k) => required_string(o, k)
required_string_array(o, k) ==
  IsKind(o, k, "array") /\ \A i \in DOMAIN at(o, k)[2] : at(o, k)[2][i][1] = "string"

UsageKeys == {"input_tokens", "output_tokens", "cache_creation_input_tokens",
              "cache_read_input_tokens"}
only(o, keys) == [k \in keys |-> at(o, k)[2]]
usage_from_json(v) ==
  IF v[1] # "object" THEN Failed
  ELSE IF \A k \in UsageKeys : required_u32(v[2], k) THEN Done(only(v[2], UsageKeys), 0)
  ELSE Failed

BlockKeys == [text |-> {"text"}, tool_use |-> {"id", "name", "input"},
              tool_result |-> {"tool_use_id", "tool_name", "output", "is_error"},
              user_input_request |-> {"request_id", "prompt", "options", "allow_freeform"},
              user_input_response |-> {"request_id", "content"}]
readable(o, k) ==
  CASE k \in Flags -> required_bool(o, k)
    [] k = "options" -> required_string_array(o, k)
    [] OTHER -> required_string(o, k)

block_from_json(v) ==
  IF v[1] # "object" THEN Failed
  ELSE LET o == v[2]
           types == {t \in DOMAIN BlockKeys : IsKind(o, "type", "string") /\ at(o, "type")[2] = <<t>>}
           type == CHOOSE t \in types : TRUE
           options == IF type = "user_input_request"
                      THEN [options |-> LET a == at(o, "options")[2] IN [i \in DOMAIN a |-> a[i][2]]]
                      ELSE <<>>
           selected == IF type = "user_input_response" /\ Has(o, "selected_option")
                       THEN {"selected_option"} ELSE {}
       IN  IF types = {} THEN Failed
           ELSE IF /\ \A k \in BlockKeys[type] : readable(o, k)
                   /\ type = "user_input_response" => optional_string(o, "selected_option")
           THEN Done(options @@ only(o, BlockKeys[type] \cup selected \cup {"type"}), 0)
           ELSE Failed

all_ok(rs) ==
  IF \A i \in DOMAIN rs : rs[i].ok THEN Done([i \in DOMAIN rs |-> rs[i].v], 0) ELSE Failed

Roles == {<<"system">>, <<"user">>, <<"assistant">>, <<"tool">>}
message_of(o, blocks, usage) ==
  IF ~ (required_string(o, "role") /\ IsKind(o, "blocks", "array")) THEN Failed
  ELSE IF at(o, "role")[2] \notin Roles \/ ~ blocks.ok THEN Failed
  ELSE IF ~ Has(o, "usage") THEN Done([role |-> at(o, "role")[2], blocks |-> blocks.v], 0)
  ELSE IF usage.ok THEN Done([role |-> at(o, "role")[2], blocks |-> blocks.v, usage |-> usage.v], 0)
  ELSE Failed
message_from_json(v) ==
  IF v[1] # "object" THEN Failed
  ELSE LET vs == at(v[2], "blocks")[2]
       IN  message_of(v[2], all_ok([i \in DOMAIN vs |-> block_from_json(vs[i])]),
                      usage_from_json(at(v[2], "usage")))

Statuses == {<<"complete">>, <<"partial_legacy_compaction">>}
telemetry_of(o, status, usage) ==
  IF /\ status \in Statuses
     /\ usage.ok
     /\ Has(o, "compacted_turns") => required_u32(o, "compacted_turns")
  THEN Done([compacted_usage |-> usage.v,
             compacted_turns |-> IF Has(o, "compacted_turns") THEN at(o, "compacted_turns")[2] ELSE 0,
             accounting_status |-> status], 0)
  ELSE Failed
telemetry_from_json(v) ==
  IF v[1] # "object" THEN Failed
  ELSE telemetry_of(v[2],
         IF required_string(v[2], "accounting_status") THEN at(v[2], "accounting_status")[2]
         ELSE <<"complete">>,
         IF Has(v[2], "compacted_usage") THEN usage_from_json(at(v[2], "compacted_usage"))
         ELSE Done([k \in UsageKeys |-> 0], 0))

session_of(o, messages, telemetry) ==
  LET session == [version |-> at(o, "version")[2], messages |-> messages.v]
  IN  IF ~ (required_u32(o, "version") /\ IsKind(o, "messages", "array")) THEN Failed
      ELSE IF ~ messages.ok THEN Failed
      ELSE IF ~ Has(o, "telemetry") THEN Done(session, 0)
      ELSE IF telemetry.ok THEN Done(session @@ [telemetry |-> telemetry.v], 0)
      ELSE Failed
from_json(v) ==
  IF v[1] # "object" THEN Failed
  ELSE LET vs == at(v[2], "messages")[2]
       IN  session_of(v[2], all_ok([i \in DOMAIN vs |-> message_from_json(vs[i])]),
                      telemetry_from_json(at(v[2], "telemetry")))
read(p) == IF p.ok THEN from_json(p.v) ELSE Failed

(***************************************************************************)
(* The processes.                                                          *)
(***************************************************************************)
NoSession == [version |-> 0, messages |-> <<>>]
new == [version |-> 1, messages |-> <<>>]
NotLoaded == [ok |-> FALSE, from |-> "none"]

SessionInit ==
  /\ \E v \in Foreign : file = render(v)
  /\ memory = NoSession
  /\ writing = FALSE
  /\ saved = NoSession
  /\ loaded = NotLoaded
  /\ faults = 0

start ==
  /\ memory = NoSession
  /\ memory' = new
  /\ UNCHANGED <<file, writing, saved, loaded, faults>>

load_from_path ==
  /\ memory = NoSession
  /\ \E r \in {read(parse(file))} :
       /\ memory' = IF r.ok THEN r.v ELSE NoSession
       /\ loaded' = [ok |-> r.ok, from |-> IF saved = NoSession THEN "foreign" ELSE "saved",
                     session |-> memory']
  /\ UNCHANGED <<file, writing, saved, faults>>

\* A turn, and a compaction.
push_message(m) ==
  /\ memory # NoSession
  /\ ~ writing
  /\ Len(memory.messages) < MaxSaved
  /\ memory' = [memory EXCEPT !.messages = Append(@, m)]
  /\ loaded' = NotLoaded
  /\ UNCHANGED <<file, writing, saved, faults>>

compact(t) ==
  /\ memory # NoSession
  /\ ~ writing
  /\ memory' = [telemetry |-> t] @@ memory
  /\ loaded' = NotLoaded
  /\ UNCHANGED <<file, writing, saved, faults>>

\* fs::write truncates the file when it opens it; the text follows.
save_to_path ==
  \/ /\ memory # NoSession
     /\ ~ writing
     /\ file' = <<>>
     /\ writing' = TRUE
     /\ saved' = memory
     /\ loaded' = NotLoaded
     /\ UNCHANGED <<memory, faults>>
  \/ /\ writing
     /\ file' = render(to_json(memory))
     /\ writing' = FALSE
     /\ UNCHANGED <<memory, saved, loaded, faults>>

\* The write ends early: the process dies with it, or the disk is full and
\* the process goes on with what it has in memory.
write_fails ==
  /\ writing
  /\ faults < MaxFaults
  /\ \E text \in {render(to_json(memory))} :
       \E n \in 0..Len(text) : file' = SubSeq(text, 1, n)
  /\ memory' \in {memory, NoSession}
  /\ writing' = FALSE
  /\ faults' = faults + 1
  /\ UNCHANGED <<saved, loaded>>

process_exits ==
  /\ memory # NoSession
  /\ ~ writing
  /\ memory' = NoSession
  /\ loaded' = NotLoaded
  /\ UNCHANGED <<file, writing, saved, faults>>

SessionNext ==
  \/ start
  \/ load_from_path
  \/ \E m \in SavedMessages : push_message(m)
  \/ \E t \in Telemetries : compact(t)
  \/ save_to_path
  \/ write_fails
  \/ process_exits

SessionSpec == SessionInit /\ [][SessionNext]_sessionVars
-------------------------------------------------------------------------------
(***************************************************************************)
(* A write that ended early never passes for a session: what load_from_path*)
(* accepts is the whole session that the last save was given, message for  *)
(* message and count for count, whatever its texts contain.                *)
(***************************************************************************)
WholeOrRefused == loaded.ok /\ loaded.from = "saved" => loaded.session = saved

(***************************************************************************)
(* A save that completed can be loaded: between two saves the file is      *)
(* readable unless a write failed.                                         *)
(***************************************************************************)
CompletedIsReadable ==
  loaded.from = "saved" /\ ~ loaded.ok => faults > 0

(***************************************************************************)
(* A file that something else wrote is read to a session that the program  *)
(* can save: saving and loading it again changes nothing more.             *)
(***************************************************************************)
ReadingIsStable ==
  loaded.ok /\ loaded.from = "foreign" =>
    \E r \in {read(parse(render(to_json(loaded.session))))} : r.ok /\ r.v = loaded.session

SessionSound == WholeOrRefused /\ CompletedIsReadable /\ ReadingIsStable
=============================================================================
