---------------------------- MODULE CompactSummary ----------------------------
(***************************************************************************)
(* Compaction of a session (runtime, compact.rs) and the usage tracker     *)
(* that is rebuilt from what it leaves (usage.rs).  Compaction replaces    *)
(* the older messages by one system message with a summary; the next one   *)
(* parses that text again and merges it with a summary of what it removes. *)
(* A text is a sequence of lines, and a line is its indentation, the       *)
(* fixed words that head it and the words that vary.  The four token       *)
(* counts of a usage add up alike and are one number here.                 *)
(***************************************************************************)
EXTENDS Integers, Sequences, SequencesExt, TLC

CONSTANTS Messages,      \* what a conversation may add to its session
          Files,         \* words that name a file, in alphabetical order
          PendingWords,  \* "todo", "next", "pending", ...
          Configs,       \* CompactionConfigs in use: preserve, max
          Width,         \* of a counter: u32 holds less than Width
          Brief, Wide,   \* lines that truncate_summary keeps (160, 200 chars)
          MaxFiles,      \* files a summary names at most (8)
          MaxMessages    \* bound on the messages ever pushed

VARIABLES messages,    \* Session.messages
          telemetry,   \* Session.telemetry, NoTelemetry when None
          tracker,     \* the UsageTracker of the runtime
          pushed,      \* history: messages pushed so far
          spent,       \* history: the usages recorded, in order
          legacy,      \* history: the session came with an unaccounted summary
          noted,       \* history: user requests that a summary has listed
          last         \* history: the config of a compaction just done

compactVars == <<messages, telemetry, tracker, pushed, spent, legacy, noted, last>>

None == -1
NoTelemetry == [usage |-> None, turns |-> 0, status |-> "none"]
NoConfig == [preserve |-> None, max |-> 0]

\* Lines.
Line(label, words) == [ind |-> 0, label |-> label, words |-> words]
Raw(word) == Line("", IF word = "" THEN <<>> ELSE <<word>>)
Blank == Line("", <<>>)
Preamble == Line("This session is being continued", <<>>)
Note == Line("Recent messages are preserved verbatim.", <<>>)
Instruction == Line("Continue the conversation", <<>>)
Open == Line("<summary>", <<>>)
Close == Line("</summary>", <<>>)
Title == Line("Summary:", <<>>)
Heading == Line("Conversation summary:", <<>>)
Timeline == Line("- Key timeline:", <<>>)
Ellipsis == "..."

deeper(l) == [l EXCEPT !.ind = @ + 2]
indented(ls) == [i \in DOMAIN ls |-> deeper(ls[i])]
FirstOf(ls, line) == SelectInSeq(ls, LAMBDA l : l = line)
From(ls, i) == SubSeq(ls, i, Len(ls))

\* A multi-line text behind a label: only its first line carries the label.
item(label, ls) == <<[ind |-> 2, label |-> label, words |-> Head(ls).words]>> \o Tail(ls)
items(label, ts) == FlattenSeq([i \in DOMAIN ts |-> item(label, ts[i])])
truncate_summary(ls, n) ==
  IF Len(ls) <= n THEN ls
  ELSE [SubSeq(ls, 1, n) EXCEPT ![n].words = Append(@, Ellipsis)]

\* Blocks and messages.
text_block(ls) == [type |-> "text", text |-> ls, tool |-> ""]
message(role, blocks, usage) == [role |-> role, blocks |-> blocks, usage |-> usage]
IsBlank(ls) == \A i \in DOMAIN ls : ls[i] = Blank
NoText == <<>>

first_text_block(m) ==
  LET i == SelectInSeq(m.blocks, LAMBDA b : b.type \in {"text", "response"} /\ ~ IsBlank(b.text))
  IN  IF i = 0 THEN NoText ELSE m.blocks[i].text

first_texts(ms) == SelectSeq([i \in DOMAIN ms |-> first_text_block(ms[i])], LAMBDA t : t # NoText)
lastOf(s, n) == IF Len(s) <= n THEN s ELSE From(s, Len(s) - n + 1)
truncated(ts, n) == [i \in DOMAIN ts |-> truncate_summary(ts[i], n)]

\* Four characters are a token and a line is taken to have four.
estimate_message_tokens(m) == FoldSeq(LAMBDA b, n : n + Len(b.text) + 1, 0, m.blocks)
estimate_session_tokens(ms) == FoldSeq(LAMBDA m, n : n + estimate_message_tokens(m), 0, ms)

\* What was written before one summary and after another becomes one text; a
\* block of tool output or a question is shown with its kind in front.
summarize_block(b) ==
  truncate_summary(
    IF b.type \in {"text"} THEN b.text
    ELSE [b.text EXCEPT ![1].words = <<b.type>> \o (IF b.tool = "" THEN <<>> ELSE <<b.tool>>) \o @],
    Brief)
joined(a, b) ==
  SubSeq(a, 1, Len(a) - 1)
  \o <<[a[Len(a)] EXCEPT !.words = @ \o <<"|">> \o Head(b).words]>> \o Tail(b)
in_one_line(parts) == IF parts = <<>> THEN <<Blank>> ELSE FoldLeft(joined, Head(parts), Tail(parts))
content(m) == in_one_line([i \in DOMAIN m.blocks |-> summarize_block(m.blocks[i])])

collect_recent_role_summaries(ms, role, n) ==
  truncated(lastOf(first_texts(SelectSeq(ms, LAMBDA m : m.role = role)), n), Brief)

Mentions(ls, words) == \E i \in DOMAIN ls : \E j \in DOMAIN ls[i].words : ls[i].words[j] \in words
infer_pending_work(ms) ==
  truncated(lastOf(SelectSeq(first_texts(ms), LAMBDA t : Mentions(t, PendingWords)), 3), Brief)

collect_key_files(ms) ==
  LET named == SelectSeq(Files, LAMBDA f :
        \E i \in DOMAIN ms : \E k \in DOMAIN ms[i].blocks : Mentions(ms[i].blocks[k].text, {f}))
  IN  SubSeq(named, 1, IF Len(named) < MaxFiles THEN Len(named) ELSE MaxFiles)

infer_current_work(ms) == truncated(lastOf(first_texts(ms), 1), Wide)

Tools(ms) == {b.tool : b \in UNION {ToSet(ms[i].blocks) : i \in DOMAIN ms}} \ {""}
CountOf(ms, role) == ToString(Len(SelectSeq(ms, LAMBDA m : m.role = role)))
heads(ls, line) == IF ls = <<>> THEN <<>> ELSE <<line>> \o ls

summarize_messages(ms) ==
  LET requests == collect_recent_role_summaries(ms, "user", 3)
      files == collect_key_files(ms)
  IN  <<Open, Heading,
        Line("- Scope:", <<ToString(Len(ms)), CountOf(ms, "user"), CountOf(ms, "assistant"),
                           CountOf(ms, "tool")>>)>>
      \o (IF Tools(ms) = {} THEN <<>> ELSE <<Line("- Tools mentioned:", SetToSeq(Tools(ms)))>>)
      \o heads(items("-", requests), Line("- Recent user requests:", <<>>))
      \o heads(items("-", infer_pending_work(ms)), Line("- Pending work:", <<>>))
      \o (IF files = <<>> THEN <<>> ELSE <<Line("- Key files referenced:", files)>>)
      \o FlattenSeq([i \in DOMAIN infer_current_work(ms) |->
           LET t == infer_current_work(ms)[i]
           IN  <<Line("- Current work:", Head(t).words)>> \o Tail(t)])
      \o <<Timeline>>
      \o FlattenSeq([i \in DOMAIN ms |-> item(ms[i].role, content(ms[i]))])
      \o <<Close>>

\* The two searches of strip_tag_block start at the beginning both, so that a
\* closing tag in front of the opening one repeats what is between them.
strip_tag_block(ls, opening, closing) ==
  LET s == FirstOf(ls, opening)
      e == FirstOf(ls, closing)
  IN  IF s = 0 \/ e = 0 THEN ls ELSE SubSeq(ls, 1, s - 1) \o <<Blank>> \o From(ls, e + 1)

trim(ls) ==
  LET inked == {i \in DOMAIN ls : ls[i] # Blank}
  IN  IF inked = {} THEN <<>>
      ELSE LET a == CHOOSE i \in inked : \A j \in inked : i <= j
               z == CHOOSE i \in inked : \A j \in inked : j <= i
           IN  [SubSeq(ls, a, z) EXCEPT ![1].ind = 0]

collapse_blank_lines(ls) ==
  FoldLeft(LAMBDA r, l : IF l = Blank /\ r # <<>> /\ r[Len(r)] = Blank THEN r ELSE Append(r, l),
           <<>>, ls)

\* The lines between the tags, which stand at s and e lines behind it.
retitled(ls, s, e) ==
  IF e = 0 THEN ls
  ELSE SubSeq(ls, 1, s - 1) \o <<Title>> \o trim(SubSeq(ls, s + 1, s + e - 1)) \o From(ls, s + e + 1)
untagged(ls, s) == retitled(ls, s, IF s = 0 THEN 0 ELSE FirstOf(From(ls, s + 1), Close))
formatted(ls) == trim(collapse_blank_lines(untagged(ls, FirstOf(ls, Open))))
format_compact_summary(summary) ==
  formatted(strip_tag_block(summary, Line("<analysis>", <<>>), Line("</analysis>", <<>>)))

before(ls, i) == IF i = 0 THEN ls ELSE SubSeq(ls, 1, i - 1)
up_to(ls, line) == before(ls, FirstOf(ls, line))
behind(ls, line) == IF FirstOf(ls, line) = 0 THEN <<>> ELSE From(ls, FirstOf(ls, line) + 1)

\* The lines in front of the timeline, and the timeline up to a blank line.
extract_summary_highlights(summary) ==
  SelectSeq(up_to(format_compact_summary(summary), Timeline),
            LAMBDA l : l \notin {Blank, Title, Heading})
extract_summary_timeline(summary) ==
  up_to(SelectSeq(behind(format_compact_summary(summary), Timeline), LAMBDA l : l # Timeline), Blank)

NoSummary == <<>>

\* Mutant: the summary there was is replaced.
merge_compact_summaries_replacing(existing, new) == new

merge_compact_summaries(existing, new) ==
  IF existing = NoSummary THEN new
  ELSE <<Open, Heading>>
       \o heads(indented(extract_summary_highlights(existing)),
                Line("- Previously compacted context:", <<>>))
       \o heads(indented(extract_summary_highlights(format_compact_summary(new))),
                Line("- Newly compacted context:", <<>>))
       \o heads(indented(extract_summary_timeline(format_compact_summary(new))), Timeline)
       \o <<Close>>

get_compact_continuation_message(summary, recent) ==
  <<Preamble, Blank>> \o format_compact_summary(summary)
  \o (IF recent THEN <<Blank, Note>> ELSE <<>>) \o <<Instruction>>

up_to_note(ls) ==
  before(ls, SelectInSeq([i \in DOMAIN ls |-> IF i < Len(ls) THEN <<ls[i], ls[i + 1]>> ELSE <<ls[i], ls[i]>>],
                         LAMBDA p : p = <<Blank, Note>>))
without_preamble(ls) ==
  IF Len(ls) < 3 \/ SubSeq(ls, 1, 2) # <<Preamble, Blank>> THEN NoSummary
  ELSE trim(up_to(up_to_note(From(ls, 3)), Instruction))
extract_existing_compacted_summary(m) ==
  IF m.role # "system" THEN NoSummary ELSE without_preamble(first_text_block(m))

existing_summary(ms) == IF ms = <<>> THEN NoSummary ELSE extract_existing_compacted_summary(ms[1])
compacted_summary_prefix_len(ms) == IF existing_summary(ms) = NoSummary THEN 0 ELSE 1

worth_compacting(ms, config) ==
  Len(ms) > config.preserve /\ estimate_session_tokens(ms) >= config.max
should_compact(ms, config) == worth_compacting(From(ms, compacted_summary_prefix_len(ms) + 1), config)

\* Usage.  The tracker adds with +=, compaction with saturating_add.
saturating_add(a, b) == IF a + b < Width THEN a + b ELSE Width - 1
add_usage(ms, zero) ==
  FoldLeft(LAMBDA n, m : IF m.usage = None THEN n ELSE saturating_add(n, m.usage), zero, ms)
turns_for_messages(ms) == Len(SelectSeq(ms, LAMBDA m : m.usage # None))
unwrap_or_default(t) == IF t = NoTelemetry THEN [usage |-> 0, turns |-> 0, status |-> "complete"] ELSE t
effective_accounting_status(ms, t) ==
  IF t # NoTelemetry THEN t.status
  ELSE IF compacted_summary_prefix_len(ms) > 0 THEN "partial_legacy_compaction" ELSE "complete"

record(t, usage) ==
  [t EXCEPT !.latest = usage, !.cumulative = (@ + usage) % Width, !.turns = (@ + 1) % Width]
from_session(ms, t) ==
  FoldLeft(LAMBDA r, m : IF m.usage = None THEN r ELSE record(r, m.usage),
           [latest |-> 0, cumulative |-> unwrap_or_default(t).usage,
            turns |-> unwrap_or_default(t).turns, status |-> effective_accounting_status(ms, t)],
           ms)

\* A session is new, or it was compacted before there was any telemetry.
LegacySummary == message("system",
  <<text_block(<<Preamble, Blank, Title, Raw("legacy"), Instruction>>)>>, None)
CompactInit ==
  /\ legacy \in BOOLEAN
  /\ messages = (IF legacy THEN <<LegacySummary>> ELSE <<>>)
  /\ telemetry = NoTelemetry
  /\ tracker = from_session(messages, telemetry)
  /\ pushed = 0
  /\ spent = <<>>
  /\ noted = {}
  /\ last = NoConfig

\* A turn adds a message; the usage of a model call goes to the tracker too.
push(m) ==
  /\ pushed < MaxMessages
  /\ messages' = Append(messages, m)
  /\ tracker' = IF m.usage = None THEN tracker ELSE record(tracker, m.usage)
  /\ spent' = IF m.usage = None THEN spent ELSE Append(spent, m.usage)
  /\ pushed' = pushed + 1
  /\ last' = NoConfig
  /\ UNCHANGED <<telemetry, legacy, noted>>

\* compact_session, and the runtime that the caller builds around the result.
replaced(removed, preserved) ==
  /\ messages' = <<message("system", <<text_block(get_compact_continuation_message(
                     merge_compact_summaries(existing_summary(messages), summarize_messages(removed)),
                     preserved # <<>>))>>, None)>> \o preserved
  /\ telemetry' = [usage |-> add_usage(removed, unwrap_or_default(telemetry).usage),
                   turns |-> (unwrap_or_default(telemetry).turns + turns_for_messages(removed)) % Width,
                   status |-> effective_accounting_status(messages, telemetry)]
  /\ noted' = noted \cup ToSet(collect_recent_role_summaries(removed, "user", 3))

compact_session(config) ==
  LET keep_from == IF Len(messages) > config.preserve THEN Len(messages) - config.preserve ELSE 0
  IN  /\ IF ~ should_compact(messages, config)
         THEN UNCHANGED <<messages, telemetry, noted>>
         ELSE replaced(SubSeq(messages, compacted_summary_prefix_len(messages) + 1, keep_from),
                       From(messages, keep_from + 1))
      /\ tracker' = from_session(messages', telemetry')
      /\ last' = config
      /\ UNCHANGED <<pushed, spent, legacy>>

\* The session is loaded again by another process.
resume ==
  /\ tracker' = from_session(messages, telemetry)
  /\ last' = NoConfig
  /\ UNCHANGED <<messages, telemetry, pushed, spent, legacy, noted>>

CompactNext ==
  \/ \E m \in Messages : push(m)
  \/ \E config \in Configs : compact_session(config)
  \/ resume

CompactSpec == CompactInit /\ [][CompactNext]_compactVars
-------------------------------------------------------------------------------
Sum(s) == FoldSeq(LAMBDA a, b : a + b, 0, s)

(***************************************************************************)
(* What a session cost survives compaction and resumption: the tracker     *)
(* shows what the model calls added up to, whichever of them compaction    *)
(* removed, as long as the counters hold it.                               *)
(***************************************************************************)
UsageKept == Sum(spent) < Width =>
  tracker.cumulative = Sum(spent) /\ tracker.turns = Len(spent)

(***************************************************************************)
(* An account that misses the calls of a legacy summary says so, through   *)
(* every later compaction and resumption, and no other account does.       *)
(***************************************************************************)
StatusHonest == tracker.status = IF legacy THEN "partial_legacy_compaction" ELSE "complete"

(***************************************************************************)
(* A summary is recognised by the next compaction, whatever the texts it   *)
(* quotes: it is never taken for a message of the conversation, nor lost.  *)
(***************************************************************************)
SummaryRecognised == telemetry # NoTelemetry => compacted_summary_prefix_len(messages) = 1

(***************************************************************************)
(* Compaction settles: the one that was just done leaves nothing for       *)
(* another with the same configuration, so that a summary is not           *)
(* summarised over and over.                                               *)
(***************************************************************************)
CompactionSettles == last # NoConfig => ~ should_compact(messages, last)

(***************************************************************************)
(* The requests of the user that a compaction took note of are in every    *)
(* later summary, through all the merges and parses in between.            *)
(***************************************************************************)
RequestsKept ==
  \A t \in noted : \A i \in DOMAIN t : t[i] # Blank =>
     LET s == existing_summary(messages) IN \E j \in DOMAIN s : s[j].words = t[i].words

\* All of it.
CompactSound ==
  /\ UsageKept
  /\ StatusHonest
  /\ SummaryRecognised
  /\ CompactionSettles
  /\ RequestsKept
=============================================================================
