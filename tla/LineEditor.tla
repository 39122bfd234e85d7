------------------------------- MODULE LineEditor -------------------------------
(***************************************************************************)
(* The line editor of the REPL (openyak-cli, input.rs) with its vi modes.  *)
(* A text is its UTF-8 bytes: a character of two bytes is Wide followed by *)
(* Rest, and a position is an offset between two bytes, as in the code,    *)
(* which panics when it slices a text inside a character.  Every key press *)
(* is followed by a redraw.                                                *)
(***************************************************************************)
EXTENDS Integers, Sequences, SequencesExt, FiniteSetsExt

CONSTANTS History,      \* the lines entered before
          Completions,  \* the slash commands, in order
          VimLine,      \* the bytes of "/vim"
          Typed,        \* characters that are typed into a line
          MaxBytes      \* bound on the length of a line

VARIABLES s,           \* the EditSession
          yank_buffer, \* LineEditor.yank_buffer, always of whole lines
          vim_enabled,
          completion,  \* completion_state: prefix, matches and the one shown, by their places
          outcome,     \* "editing", what read_line returned, or "panic"
          draft,       \* history: the line that was left for the history
          cut          \* history: something was deleted in Visual mode

editorVars == <<s, yank_buffer, vim_enabled, completion, outcome, draft, cut>>

Wide == "E"
Rest == "~"
NL == "\n"
NoIndex == -1
NoAnchor == -1
NoText == <<"none">>
NoCompletion == [prefix |-> <<>>, matches |-> {}, shown |-> 0]
bytes(ch) == IF ch = Wide THEN <<Wide, Rest>> ELSE <<ch>>

\* A str is valid UTF-8: each Wide has its Rest, and there is no other.
Bytes == Typed \cup {Wide, Rest, NL, ":", "/"}
Utf8(t) ==
  \A i \in DOMAIN t :
    /\ t[i] = Rest => i > 1 /\ t[i - 1] = Wide
    /\ t[i] = Wide => i < Len(t) /\ t[i + 1] = Rest
Strs == {t \in Seq(Bytes) : Utf8(t)}
ASSUME EditorAssumption ==
  Rest \notin Typed /\ History \in Seq(Strs) /\ Completions \in Seq(Strs)

is_char_boundary(t, p) == p \in 0..Len(t) /\ (p < Len(t) => t[p + 1] # Rest)
slice(t, a, b) == SubSeq(t, a + 1, b)
drained(t, a, b) == slice(t, 0, a) \o slice(t, b, Len(t))
inserted(t, p, u) == slice(t, 0, p) \o u \o slice(t, p, Len(t))

previous_boundary(t, p) == IF p = 0 THEN 0 ELSE IF t[p] = Rest THEN p - 2 ELSE p - 1
next_boundary(t, p) == IF p >= Len(t) THEN Len(t) ELSE IF t[p + 1] = Wide THEN p + 2 ELSE p + 1
Newlines(t) == {i \in DOMAIN t : t[i] = NL}
line_start(t, p) == Max({i \in Newlines(t) : i <= p} \cup {0})
line_end(t, p) == Min({i - 1 : i \in {j \in Newlines(t) : j > p}} \cup {Len(t)})

\* The offset of a column, counted in characters, in the line [a, b).
Column(t, a, p) == Cardinality({i \in (a + 1)..p : t[i] # Rest})
byte_index_for_char_column(t, a, b, column) ==
  Min({p \in a..b : is_char_boundary(t, p) /\ Column(t, a, p) = column} \cup {b})
move_vertical(t, p, delta) ==
  LET start == line_start(t, p)
      column == Column(t, start, p)
      end == line_end(t, p)
      up == line_start(t, start - 1)
  IN  IF delta < 0
      THEN IF start = 0 THEN p ELSE byte_index_for_char_column(t, up, start - 1, column)
      ELSE IF end = Len(t) THEN p
      ELSE byte_index_for_char_column(t, end + 1, line_end(t, end + 1), column)

current_line_delete_range(t, p) ==
  LET start == line_start(t, p)
      core == line_end(t, p)
      end == IF core < Len(t) THEN core + 1 ELSE core
  IN  [start |-> start, end |-> end, from |-> IF end = Len(t) /\ start > 0 THEN start - 1 ELSE start]

new(vim) == [text |-> <<>>, cursor |-> 0, mode |-> IF vim THEN "Insert" ELSE "Plain", pending |-> "none",
             anchor |-> NoAnchor, command |-> <<>>, command_cursor |-> 0,
             history_index |-> NoIndex, backup |-> NoText]

EditorInit ==
  /\ vim_enabled \in BOOLEAN
  /\ s = new(vim_enabled)
  /\ yank_buffer = <<>>
  /\ completion = NoCompletion
  /\ outcome = "editing"
  /\ draft = NoText
  /\ cut = FALSE

\* Modes.
enters(e, mode) == [e EXCEPT !.mode = mode, !.pending = "none", !.anchor = NoAnchor]
enter_visual_mode(e) == [enters(e, "Visual") EXCEPT !.anchor = e.cursor]
enter_command_mode(e) == [enters(e, "Command") EXCEPT !.command = <<":">>, !.command_cursor = 1]
exit_command_mode(e) == [enters(e, "Normal") EXCEPT !.command = <<>>, !.command_cursor = 0]
active_text(e) == IF e.mode = "Command" THEN e.command ELSE e.text
InText(e) == e.mode \in {"Plain", "Insert", "Command"}

\* The redraw: the text up to the cursor and, in Visual mode, the character
\* behind the selection.
render_panics(e) ==
  \/ ~ is_char_boundary(active_text(e), IF e.mode = "Command" THEN e.command_cursor ELSE e.cursor)
  \/ /\ e.mode = "Visual"
     /\ e.cursor < e.anchor
     /\ e.anchor < Len(e.text)
     /\ ~ is_char_boundary(e.text, e.anchor)

\* A key was handled: its effect on the session, and the redraw.  A key other
\* than Tab ends a completion.
edits(e) ==
  /\ outcome = "editing"
  /\ Len(e.text) <= MaxBytes
  /\ Len(e.command) <= MaxBytes
  /\ s' = e
  /\ outcome' = IF render_panics(e) THEN "panic" ELSE "editing"
presses(e) == edits(e) /\ completion' = NoCompletion /\ UNCHANGED vim_enabled

insert_active_text(u) ==
  /\ InText(s)
  /\ presses(IF s.mode = "Command"
             THEN [s EXCEPT !.command = inserted(@, s.command_cursor, u), !.command_cursor = @ + Len(u)]
             ELSE [s EXCEPT !.text = inserted(@, s.cursor, u), !.cursor = @ + Len(u)])
  /\ UNCHANGED <<yank_buffer, draft, cut>>

\* A movement: to p in the text, or to q in the command line, whose colon
\* stays in front of the cursor.
moved(e, p, q) ==
  IF e.mode = "Command" THEN [e EXCEPT !.command_cursor = IF q = 0 THEN 1 ELSE q]
  ELSE [e EXCEPT !.cursor = p]
move_left(e) == moved(e, previous_boundary(e.text, e.cursor), previous_boundary(e.command, e.command_cursor))
move_right(e) == moved(e, next_boundary(e.text, e.cursor), next_boundary(e.command, e.command_cursor))
move_line_start(e) == moved(e, line_start(e.text, e.cursor), 0)
move_line_end(e) == moved(e, line_end(e.text, e.cursor), Len(e.command))

arrow ==
  /\ \E e \in {move_left(s), move_right(s), move_line_start(s), move_line_end(s)} : presses(e)
  /\ UNCHANGED <<yank_buffer, draft, cut>>

remove_previous_char(t, p) == drained(t, previous_boundary(t, p), p)
handle_backspace ==
  /\ presses(
       CASE s.mode \in {"Normal", "Visual"} -> move_left(s)
         [] s.mode = "Command" /\ s.command_cursor <= 1 -> exit_command_mode(s)
         [] s.mode = "Command" /\ s.command_cursor > 1 ->
              [s EXCEPT !.command = remove_previous_char(@, s.command_cursor),
                        !.command_cursor = previous_boundary(s.command, @)]
         [] OTHER -> [s EXCEPT !.text = remove_previous_char(@, s.cursor),
                               !.cursor = previous_boundary(s.text, @)])
  /\ UNCHANGED <<yank_buffer, draft, cut>>

\* Delete, and Ctrl-D on a line that is not empty, in every mode.
delete_char_under_cursor ==
  /\ presses(
       IF s.mode = "Command"
       THEN [s EXCEPT !.command = drained(@, s.command_cursor, next_boundary(@, s.command_cursor))]
       ELSE [s EXCEPT !.text = drained(@, s.cursor, next_boundary(@, s.cursor))])
  /\ cut' = (cut \/ s.mode = "Visual")
  /\ UNCHANGED <<yank_buffer, draft>>

handle_escape ==
  /\ presses(
       CASE s.mode \in {"Plain", "Normal"} -> s
         [] s.mode = "Insert" -> enters([s EXCEPT !.cursor = previous_boundary(s.text, @)], "Normal")
         [] s.mode = "Visual" -> enters(s, "Normal")
         [] s.mode = "Command" -> exit_command_mode(s))
  /\ cut' = (cut /\ s.mode # "Visual")
  /\ UNCHANGED <<yank_buffer, draft>>

\* handle_normal_char.  A pending operator is taken by any character; dd and
\* yy are the two that complete one.
taken == [s EXCEPT !.pending = "none"]
completes(ch) == s.pending = ch /\ ch \in {"d", "y"}
delete_current_line ==
  LET r == current_line_delete_range(s.text, s.cursor)
  IN  /\ yank_buffer' = slice(s.text, r.start, r.end)
      /\ presses([taken EXCEPT !.text = drained(@, r.from, r.end), !.cursor = r.from])
yank_current_line ==
  LET r == current_line_delete_range(s.text, s.cursor)
  IN  yank_buffer' = slice(s.text, r.start, r.end) /\ presses(taken)

paste_after(e) ==
  LET end == line_end(e.text, e.cursor)
      p == IF end < Len(e.text) THEN end + 1 ELSE Len(e.text)
      joins == p = Len(e.text) /\ e.text # <<>> /\ e.text[Len(e.text)] # NL
      front == IF joins THEN <<NL>> \o yank_buffer ELSE yank_buffer
      u == IF p < Len(e.text) /\ front[Len(front)] # NL THEN Append(front, NL) ELSE front
  IN  IF yank_buffer = <<>> THEN e
      ELSE [e EXCEPT !.text = inserted(@, p, u), !.cursor = IF u[1] = NL THEN p + 1 ELSE p]

handle_normal_char ==
  /\ s.mode = "Normal"
  /\ \/ completes("d") /\ delete_current_line
     \/ completes("y") /\ yank_current_line
     \/ /\ \/ \E ch \in {"d", "y"} : ~ completes(ch) /\ presses([taken EXCEPT !.pending = ch])
           \/ \E e \in {move_left(taken), move_right(taken),
                        [taken EXCEPT !.cursor = move_vertical(s.text, s.cursor, 1)],
                        [taken EXCEPT !.cursor = move_vertical(s.text, s.cursor, -1)],
                        paste_after(taken), enters(s, "Insert"), enter_visual_mode(s),
                        enter_command_mode(s), taken} : presses(e)
        /\ UNCHANGED yank_buffer
  /\ UNCHANGED <<draft, cut>>

handle_visual_char ==
  /\ s.mode = "Visual"
  /\ \/ \E e \in {move_left(s), move_right(s),
                  [s EXCEPT !.cursor = move_vertical(s.text, s.cursor, 1)],
                  [s EXCEPT !.cursor = move_vertical(s.text, s.cursor, -1)]} : presses(e) /\ UNCHANGED cut
     \/ presses(enters(s, "Normal")) /\ cut' = FALSE
  /\ UNCHANGED <<yank_buffer, draft>>

\* The history.  The draft is kept aside when the first line is fetched.
set_text_from_history(e, t) ==
  [e EXCEPT !.text = t, !.cursor = Len(t), !.pending = "none", !.anchor = NoAnchor,
            !.mode = IF @ \in {"Plain", "Insert"} THEN @ ELSE "Normal"]

\* Mutant: every line that is left is kept aside.
history_up_each ==
  LET i == IF s.history_index = NoIndex THEN Len(History) ELSE Max({1, s.history_index - 1})
  IN  /\ s.mode # "Command"
      /\ History # <<>>
      /\ presses(set_text_from_history([s EXCEPT !.history_index = i, !.backup = s.text], History[i]))
      /\ draft' = IF s.history_index = NoIndex THEN s.text ELSE draft
      /\ cut' = FALSE
      /\ UNCHANGED yank_buffer

history_up ==
  LET first == s.history_index = NoIndex
      i == IF first THEN Len(History) ELSE Max({1, s.history_index - 1})
  IN  /\ s.mode # "Command"
      /\ History # <<>>
      /\ presses(set_text_from_history(
           [s EXCEPT !.history_index = i, !.backup = IF first THEN s.text ELSE @], History[i]))
      /\ draft' = IF first THEN s.text ELSE draft
      /\ cut' = FALSE
      /\ UNCHANGED yank_buffer

history_down ==
  LET i == s.history_index + 1
      back == set_text_from_history([s EXCEPT !.history_index = NoIndex, !.backup = NoText],
                                    IF s.backup = NoText THEN <<>> ELSE s.backup)
  IN  /\ s.mode # "Command"
      /\ s.history_index # NoIndex
      /\ presses(IF i <= Len(History)
                 THEN set_text_from_history([s EXCEPT !.history_index = i], History[i])
                 ELSE enters(back, IF vim_enabled THEN "Insert" ELSE "Plain"))
      /\ cut' = FALSE
      /\ UNCHANGED <<yank_buffer, draft>>

\* Tab.  A line that is one of the matches of the completion under way makes
\* room for the next of them; another one is completed from the start.
completed(t) == [s EXCEPT !.text = t, !.cursor = Len(t)]
next_match(c) ==
  LET behind == {i \in c.matches : i > c.shown} IN Min(IF behind = {} THEN c.matches ELSE behind)
IsPrefixOf(p, t) == Len(p) <= Len(t) /\ SubSeq(t, 1, Len(p)) = p
complete_slash_command ==
  LET atEnd == s.cursor = Len(s.text)
      goes_on == atEnd /\ s.text \in {Completions[i] : i \in completion.matches}
      isPrefix == atEnd /\ s.text # <<>> /\ Head(s.text) = "/" /\ Newlines(s.text) = {}
      matches == {i \in DOMAIN Completions :
                    IsPrefixOf(s.text, Completions[i]) /\ Completions[i] # s.text}
      shows(c) == edits(completed(Completions[c.shown])) /\ completion' = c
  IN  /\ IF s.mode # "Command" /\ goes_on
         THEN shows([completion EXCEPT !.shown = next_match(completion)])
         ELSE IF s.mode # "Command" /\ isPrefix /\ matches # {}
         THEN shows([prefix |-> s.text, matches |-> matches, shown |-> Min(matches)])
         ELSE edits(s) /\ completion' = NoCompletion
      /\ UNCHANGED <<yank_buffer, vim_enabled, draft, cut>>

\* The session ends with its line; a new one starts with read_line.
starts_over(vim, result) ==
  /\ vim_enabled' = vim
  /\ s' = new(vim)
  /\ completion' = NoCompletion
  /\ draft' = NoText
  /\ cut' = FALSE
  /\ outcome' = result
  /\ UNCHANGED yank_buffer

\* Enter returns the line, or toggles the vi modes.
trims_to(t, u) == \E i \in 0..(Len(t) - Len(u)) :
  slice(t, i, i + Len(u)) = u /\ Newlines(t) = DOMAIN t \ ((i + 1)..(i + Len(u)))
submit_or_toggle ==
  /\ outcome = "editing"
  /\ IF trims_to(active_text(s), VimLine) THEN starts_over(~ vim_enabled, "editing")
     ELSE starts_over(vim_enabled, "submit")

\* Ctrl-C, and Ctrl-D on an empty line.
leave ==
  /\ outcome = "editing"
  /\ starts_over(vim_enabled, IF active_text(s) = <<>> THEN "exit" ELSE "cancel")

read_line == outcome \in {"submit", "cancel"} /\ starts_over(vim_enabled, "editing")

EditorNext ==
  \/ \E ch \in Typed : insert_active_text(bytes(ch))
  \/ insert_active_text(<<NL>>)
  \/ arrow
  \/ handle_backspace
  \/ delete_char_under_cursor
  \/ handle_escape
  \/ handle_normal_char
  \/ handle_visual_char
  \/ history_up
  \/ history_down
  \/ complete_slash_command
  \/ submit_or_toggle
  \/ leave
  \/ read_line

EditorSpec == EditorInit /\ [][EditorNext]_editorVars
-------------------------------------------------------------------------------
(***************************************************************************)
(* The cursors stay in their texts and between characters, in every mode   *)
(* and behind every edit, and the command line keeps its colon: no slice   *)
(* of the text panics.  The anchor of a selection is not moved by a        *)
(* deletion in Visual mode, and the claim leaves that case out.            *)
(***************************************************************************)
NeverPanics ==
  /\ ~ cut => outcome # "panic"
  /\ is_char_boundary(s.text, s.cursor)
  /\ s.mode = "Command" => /\ s.command # <<>>
                           /\ s.command[1] = ":"
                           /\ s.command_cursor > 0
                           /\ is_char_boundary(s.command, s.command_cursor)

(***************************************************************************)
(* A tour of the history gives the draft back: while an older line is      *)
(* shown the draft is kept aside, whatever is edited, yanked or completed  *)
(* meanwhile.                                                              *)
(***************************************************************************)
DraftKept == s.history_index # NoIndex => s.backup = draft

(***************************************************************************)
(* Completion never leaves what was typed: while one is under way, the     *)
(* line is one of the commands that start with the prefix it began with.   *)
(***************************************************************************)
CompletionExtends ==
  completion # NoCompletion =>
    /\ s.text \in {Completions[i] : i \in completion.matches}
    /\ IsPrefixOf(completion.prefix, s.text)

EditorSound == NeverPanics /\ DraftKept /\ CompletionExtends
=============================================================================
