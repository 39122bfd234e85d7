----------------------------- MODULE LocalTools -----------------------------
(***************************************************************************)
(* The tools that work in this process (tools lib.rs).  NotebookEdit and   *)
(* TodoWrite read a file, change it and write it back, while a sub-agent   *)
(* may do the same; REPL and PowerShell run a command under a timeout and  *)
(* collect its output through pipes of limited size; WebSearch reads links *)
(* from a page and filters them; ToolSearch ranks tools.  A behaviour is   *)
(* about one of them, its scene.                                           *)
(***************************************************************************)
EXTENDS Integers, Sequences, FiniteSets, SequencesExt

CONSTANTS Editors,   \* calls that edit the same file
          MaxEdits,  \* edits of the file
          PipeSize,  \* what a pipe holds before its writer waits
          MaxOutput, \* what a command writes
          MaxHits    \* search results that are kept

VARIABLES subject,
          file,      \* the notebook or todo store; "torn" while it is written
          progress, given, held,   \* of each editor: its step, its input, the file as it read it
          edit_count, deleted, edits_overlap,  \* history: edits made, a cell deleted, edits that overlapped
          proc,      \* the command and who reads its output
          query, answer

toolsVars == <<subject, file, progress, given, held, edit_count, deleted, edits_overlap, proc, query, answer>>
editVars == <<file, progress, given, held, edit_count, deleted, edits_overlap>>

NoEntry == [is |-> "none"]
Content(cells) == [torn |-> FALSE, is |-> cells]
Torn == [torn |-> TRUE, is |-> <<>>]

(***************************************************************************)
(* NotebookEdit.                                                           *)
(***************************************************************************)
Cell(id, kind, source) ==
  [id |-> id, kind |-> kind, source |-> source, outputs |-> kind = "code", count |-> kind = "code"]
NotebookInputs ==
  [mode : {"replace", "insert", "delete"}, cell : {0, 1, 2, 9}, kind : {"none", "code", "markdown"},
   source : {"none", "new"}]
Notebooks == {<<>>, <<Cell(1, "code", "old")>>, <<Cell(1, "code", "old"), Cell(2, "markdown", "old")>>}

make_cell_id(n) == n + 1
build_notebook_cell(id, kind, source) == Cell(id, kind, source)

\* 0: no such cell.  Without an id (0) the last cell, or position 1 of none.
resolve_cell_index(cells, id) ==
  IF id = 0 THEN (IF cells = <<>> THEN 1 ELSE Len(cells))
  ELSE IF \E i \in DOMAIN cells : cells[i].id = id
       THEN CHOOSE i \in DOMAIN cells : cells[i].id = id /\ \A j \in 1..(i - 1) : cells[j].id # id
       ELSE 0

needs_target(i) == i.cell # 0 \/ i.mode \in {"replace", "delete"}

notebook_error(cells, i) ==
  \/ needs_target(i) /\ cells = <<>> /\ i.mode # "insert"
  \/ needs_target(i) /\ resolve_cell_index(cells, i.cell) = 0
  \/ i.mode # "delete" /\ i.source = "none"

\* Mutant: a cell that becomes text keeps its outputs.
retyped_keeping_outputs(c, kind, source) ==
  [c EXCEPT !.source = source, !.kind = kind, !.outputs = @ \/ kind = "code", !.count = @ \/ kind = "code"]

retyped(c, kind, source) ==
  [c EXCEPT !.source = source, !.kind = kind, !.outputs = (kind = "code"), !.count = (kind = "code")]

execute_notebook_edit(cells, i) ==
  LET at == resolve_cell_index(cells, i.cell) IN
  CASE i.mode = "delete" -> RemoveAt(cells, at)
    [] i.mode = "insert" ->
         InsertAt(cells, IF needs_target(i) THEN at + 1 ELSE Len(cells) + 1,
                  build_notebook_cell(make_cell_id(Len(cells)), IF i.kind = "none" THEN "code" ELSE i.kind, i.source))
    [] OTHER -> [cells EXCEPT ![at] = retyped(@, IF i.kind = "none" THEN @.kind ELSE i.kind, i.source)]

(***************************************************************************)
(* TodoWrite.                                                              *)
(***************************************************************************)
TodoInputs == UNION {[1..n -> [status : {"pending", "completed"}, text : {"plain", "empty"}]] : n \in 0..2}

validate_todos(todos) == todos # <<>> /\ \A i \in DOMAIN todos : todos[i].text # "empty"
execute_todo_write(todos) == IF \A i \in DOMAIN todos : todos[i].status = "completed" THEN <<>> ELSE todos

(***************************************************************************)
(* Both: read the file, then truncate it, then write it.                   *)
(***************************************************************************)
step(e, l) == progress' = [progress EXCEPT ![e] = l]
alone(e) == \A d \in Editors \ {e} : progress[d] = "idle"

read_for_edit(e) ==
  /\ progress[e] = "idle" /\ edit_count < MaxEdits
  /\ edit_count' = edit_count + 1
  /\ \E i \in IF subject = "notebook" THEN NotebookInputs ELSE TodoInputs :
       IF IF subject = "notebook" THEN file.torn \/ notebook_error(file.is, i)
                                ELSE ~validate_todos(i) \/ file.torn
       THEN /\ answer' = [e |-> e, is |-> "error", torn |-> file.torn] /\ step(e, "idle")
            /\ UNCHANGED <<given, held>>
       ELSE /\ given' = [given EXCEPT ![e] = i] /\ held' = [held EXCEPT ![e] = file.is]
            /\ step(e, "truncate") /\ UNCHANGED answer
  /\ edits_overlap' = (edits_overlap \/ ~alone(e))
  /\ UNCHANGED <<subject, file, deleted, proc, query>>

truncate_file(e) ==
  /\ progress[e] = "truncate" /\ file' = Torn /\ step(e, "write")
  /\ UNCHANGED <<subject, given, held, edit_count, deleted, edits_overlap, proc, query, answer>>

\* The write, or the process is killed before it.
write_file(e) ==
  /\ progress[e] = "write"
  /\ \/ /\ file' = Content(IF subject = "notebook" THEN execute_notebook_edit(held[e], given[e])
                           ELSE execute_todo_write(given[e]))
        /\ answer' = [e |-> e, is |-> "edited", before |-> held[e], after |-> file'.is]
        /\ deleted' = (deleted \/ (subject = "notebook" /\ given[e].mode = "delete"))
        /\ step(e, "idle")
     \/ UNCHANGED <<file, answer, deleted>> /\ step(e, "killed")
  /\ given' = [given EXCEPT ![e] = NoEntry] /\ held' = [held EXCEPT ![e] = <<>>]
  /\ UNCHANGED <<subject, edit_count, edits_overlap, proc, query>>

(***************************************************************************)
(* REPL and PowerShell.  A child writes into a pipe and waits when it is   *)
(* full; a process it started may hold the pipe open after it.             *)
(***************************************************************************)
Commands == [tool : {"REPL", "PowerShell"}, timeout : BOOLEAN, background : BOOLEAN, output : 0..MaxOutput,
             heir : BOOLEAN]
Started(c) == [command |-> c, child |-> "running", pipe |-> 0, written |-> 0, got |-> 0, heir |-> c.heir,
               at |-> "new", timed_out |-> FALSE, starved |-> FALSE, result |-> "none"]

\* Without a timeout process.output() reads while it waits, and REPL has
\* reader threads; PowerShell with a timeout reads only when the child is gone.
reading == \/ proc.at = "collect"
           \/ proc.at = "wait" /\ (~proc.command.timeout \/ proc.command.tool = "REPL")

spawn_command ==
  /\ subject = "command" /\ proc.at = "new"
  /\ proc' = IF proc.command.background /\ proc.command.tool = "PowerShell"
             THEN [proc EXCEPT !.at = "done", !.result = "backgrounded"] ELSE [proc EXCEPT !.at = "wait"]
  /\ UNCHANGED <<subject, editVars, query, answer>>

child_step ==
  /\ subject = "command" /\ proc.child = "running" /\ proc.at # "new" /\ proc.result # "backgrounded"
  /\ \/ /\ proc.written < proc.command.output /\ proc.pipe < PipeSize
        /\ proc' = [proc EXCEPT !.written = @ + 1, !.pipe = @ + 1]
     \/ /\ proc.written = proc.command.output /\ proc' = [proc EXCEPT !.child = "exited"]
  /\ UNCHANGED <<subject, editVars, query, answer>>

heir_exits == /\ subject = "command" /\ proc.heir /\ proc.child # "running" /\ proc' = [proc EXCEPT !.heir = FALSE]
              /\ UNCHANGED <<subject, editVars, query, answer>>

read_pipe ==
  /\ subject = "command" /\ reading /\ proc.pipe > 0
  /\ proc' = [proc EXCEPT !.pipe = @ - 1, !.got = @ + 1]
  /\ UNCHANGED <<subject, editVars, query, answer>>

\* try_wait until the child is gone or the time is up.
run_command_with_optional_timeout ==
  /\ subject = "command" /\ proc.at = "wait"
  /\ \/ proc.child = "exited" /\ proc' = [proc EXCEPT !.at = "collect"]
     \/ /\ proc.command.timeout
        /\ proc' = [proc EXCEPT !.at = "collect", !.timed_out = TRUE,
                                !.child = IF @ = "running" THEN "killed" ELSE @,
                                !.starved = proc.child = "running" /\ proc.pipe = PipeSize /\ ~reading]
  /\ UNCHANGED <<subject, editVars, query, answer>>

\* The pipe ends when nobody holds it any more.
collect_output ==
  /\ subject = "command" /\ proc.at = "collect" /\ proc.pipe = 0 /\ proc.child # "running" /\ ~proc.heir
  /\ proc' = [proc EXCEPT !.at = "done", !.result = IF proc.timed_out THEN "timeout" ELSE "exited"]
  /\ UNCHANGED <<subject, editVars, query, answer>>

(***************************************************************************)
(* WebSearch.  A page is a sequence of tokens: "a" opens an anchor, "r" is *)
(* the class of a result, "h" is href=, u1, u2... are quoted addresses,    *)
(* ">" closes the tag, "t" is text, "c" is </a>.                           *)
(***************************************************************************)
Urls == {"u1", "u2", "v1", "rel"}
domain(u) == IF u \in {"u1", "u2"} THEN "u" ELSE "v"
ResultLink(u) == <<"a", "r", "h", u, ">", "t", "c">>
PlainLink(u) == <<"a", "h", u, ">", "t", "c">>
Whole == {ResultLink(u) : u \in Urls} \cup {PlainLink(u) : u \in Urls}
Damaged == {<<"a", "r">>, <<"a", "r", "h", "u1", ">">>, <<"a", "h", "v1", ">", "c">>, <<"a", "r", "h", "t", ">", "c">>}
Queries == [page : {<<f, g, h>> : f, g \in Whole, h \in Whole \cup Damaged},
            allowed : {{}, {"u"}}, blocked : {{}, {"u"}, {"v"}}]

next(p, i, tok) == IF \E j \in i..Len(p) : p[j] \in tok
                   THEN CHOOSE j \in i..Len(p) : p[j] \in tok /\ \A k \in i..(j - 1) : p[k] \notin tok ELSE 0

\* "//" and "/" addresses are made absolute, other schemes are dropped.
decode_duckduckgo_redirect(u) == u # "rel"

\* An anchor without an address takes the next one on the page; a page that
\* ends right behind an open tag leaves nothing to step over.
extract_search_hits(p) ==
  LET hits[i \in 1..(Len(p) + 1)] ==
        LET r == next(p, i, {"r"})
            h == IF r = 0 THEN 0 ELSE next(p, r, {"h"})
            g == IF h = 0 THEN 0 ELSE next(p, h + 2, {">"})
            c == IF g = 0 THEN 0 ELSE next(p, g + 1, {"c"})
        IN IF r = 0 THEN <<>>
           ELSE IF h = 0 \/ h = Len(p) \/ g = 0 THEN hits[r + 1]
           ELSE IF p[h + 1] \notin Urls THEN hits[r + 1]
           ELSE IF c = 0 THEN (IF g = Len(p) THEN <<"panic">> ELSE hits[g + 2])
           ELSE (IF decode_duckduckgo_redirect(p[h + 1]) THEN <<p[h + 1]>> ELSE <<>>) \o hits[c + 1]
  IN hits[1]

extract_search_hits_from_generic_links(p) ==
  LET hits[i \in 1..(Len(p) + 1)] ==
        LET a == next(p, i, {"a"})
            h == IF a = 0 THEN 0 ELSE next(p, a, {"h"})
            g == IF h = 0 THEN 0 ELSE next(p, h + 2, {">"})
            c == IF g = 0 THEN 0 ELSE next(p, g + 1, {"c"})
        IN IF a = 0 THEN <<>>
           ELSE IF h = 0 \/ h = Len(p) \/ g = 0 \/ c = 0 THEN hits[a + 1]
           ELSE IF p[h + 1] \notin Urls THEN hits[a + 1]
           ELSE (IF c > g + 1 /\ decode_duckduckgo_redirect(p[h + 1]) THEN <<p[h + 1]>> ELSE <<>>)
                  \o hits[c + 1]
  IN hits[1]

host_matches_list(u, domains) == domain(u) \in domains
dedupe_hits(s) == SelectSeq([i \in DOMAIN s |-> <<i, s[i]>>], LAMBDA x : \A j \in 1..(x[1] - 1) : s[j] # x[2])

execute_web_search(q) ==
  LET p == FlattenSeq(q.page)
      hits == IF extract_search_hits(p) = <<>> THEN extract_search_hits_from_generic_links(p)
              ELSE extract_search_hits(p)
      kept == SelectSeq(hits, LAMBDA u : (q.allowed # {} => host_matches_list(u, q.allowed))
                                          /\ ~host_matches_list(u, q.blocked))
      uniq == dedupe_hits(kept)
  IN [i \in 1..(IF Len(uniq) < MaxHits THEN Len(uniq) ELSE MaxHits) |-> uniq[i][2]]

run_web_search ==
  /\ subject = "search" /\ answer = NoEntry
  /\ answer' = IF "panic" \in Range(extract_search_hits(FlattenSeq(query.page))) THEN [is |-> "panic"]
               ELSE [is |-> "hits", hits |-> execute_web_search(query)]
  /\ UNCHANGED <<subject, editVars, proc, query>>

(***************************************************************************)
(* ToolSearch.  How a term relates to a tool: "none", "words" (in the      *)
(* description), "part" (of the name), "token" (the name but for case and  *)
(* punctuation), "name" (the name itself).                                 *)
(***************************************************************************)
Relations == {"none", "words", "part", "token", "name"}
Terms == [plus : BOOLEAN, rel : [{"t1", "t2"} -> Relations]]

term_score(r) == CASE r = "none" -> 0 [] r = "words" -> 2 + 3 [] r = "part" -> 2 + 4 + 3
                   [] r = "token" -> 12 + 3 [] OTHER -> 2 + 8 + 4 + 12 + 3

\* A required term must be in the name or the description as it is written.
in_haystack(r) == r \in {"words", "part", "name"}

search_tool_specs(terms) ==
  LET score(t) == FoldSet(LAMBDA i, s : s + term_score(terms[i].rel[t]), 0, DOMAIN terms)
      found == {t \in {"t1", "t2"} : /\ \A i \in DOMAIN terms : terms[i].plus => in_haystack(terms[i].rel[t])
                                     /\ score(t) > 0}
  IN IF found = {"t1", "t2"} THEN (IF score("t2") > score("t1") THEN <<"t2", "t1">> ELSE <<"t1", "t2">>)
     ELSE SetToSeq(found)

run_tool_search ==
  /\ subject = "tools" /\ answer = NoEntry
  /\ answer' = [is |-> "tools", tools |-> search_tool_specs(query.terms)]
  /\ UNCHANGED <<subject, editVars, proc, query>>

(***************************************************************************)
(* Scenes.                                                                 *)
(***************************************************************************)
NoCommand == Started([tool |-> "REPL", timeout |-> FALSE, background |-> FALSE, output |-> 0, heir |-> FALSE])

LocalInit ==
  /\ progress = [e \in Editors |-> "idle"] /\ given = [e \in Editors |-> NoEntry] /\ held = [e \in Editors |-> <<>>]
  /\ edit_count = 0 /\ deleted = FALSE /\ edits_overlap = FALSE /\ answer = NoEntry
  /\ \/ subject = "notebook" /\ file \in {Content(n) : n \in Notebooks} /\ proc = NoCommand /\ query = NoEntry
     \/ subject = "todo" /\ file = Content(<<>>) /\ proc = NoCommand /\ query = NoEntry
     \/ subject = "command" /\ file = Content(<<>>) /\ proc \in {Started(c) : c \in Commands} /\ query = NoEntry
     \/ subject = "search" /\ file = Content(<<>>) /\ proc = NoCommand /\ query \in Queries
     \/ subject = "tools" /\ file = Content(<<>>) /\ proc = NoCommand
        /\ query \in [terms : UNION {[1..n -> Terms] : n \in 1..2}]

LocalNext ==
  \/ \E e \in Editors : /\ subject \in {"notebook", "todo"}
                        /\ read_for_edit(e) \/ truncate_file(e) \/ write_file(e)
  \/ spawn_command \/ child_step \/ heir_exits \/ read_pipe \/ run_command_with_optional_timeout
  \/ collect_output \/ run_web_search \/ run_tool_search

(***************************************************************************)
(* Properties.                                                             *)
(***************************************************************************)
WellFormed(cells) == \A i \in DOMAIN cells : /\ cells[i].outputs = (cells[i].kind = "code")
                                             /\ cells[i].count = (cells[i].kind = "code")

\* Through any sequence of edits a notebook stays well formed (outputs and an
\* execution count in code cells and nowhere else), an edit changes one cell
\* of what it read, and while no cell was deleted the ids stay distinct, so
\* the id an insert answers names the cell it inserted.
NotebookSound ==
  subject = "notebook" =>
    /\ WellFormed(file.is)
    /\ deleted \/ edits_overlap \/ \A i, j \in DOMAIN file.is : file.is[i].id = file.is[j].id => i = j
    /\ answer.is = "edited" =>
         \E i \in 1..(Len(answer.before) + 1) :
           \/ answer.after = RemoveAt(answer.before, i)
           \/ i <= Len(answer.after) /\ answer.before = RemoveAt(answer.after, i)
           \/ \A j \in DOMAIN answer.before \ {i} : j \in DOMAIN answer.after /\ answer.after[j] = answer.before[j]

\* A command that ended by itself is answered with everything it wrote; one
\* is killed for want of a reader only under PowerShell with a timeout.
OutputCollected ==
  subject = "command" =>
    /\ proc.result = "exited" => proc.got = proc.command.output
    /\ proc.result = "timeout" => proc.got = proc.written
    /\ proc.starved => proc.command.tool = "PowerShell"

Links(q) == SelectSeq(q.page, LAMBDA f : f[2] = "r")
Reference(q) ==
  LET all == IF \E i \in DOMAIN q.page : q.page[i][2] = "r" /\ q.page[i][4] # "rel" THEN Links(q) ELSE q.page
      urls == [i \in DOMAIN all |-> IF all[i][2] = "r" THEN all[i][4] ELSE all[i][3]]
  IN {u \in Range(urls) : u # "rel" /\ domain(u) \notin q.blocked /\ (q.allowed # {} => domain(u) \in q.allowed)}

\* Search results are distinct addresses of the page that pass both filters;
\* of a page in order, all of them when there are no more than fit.  Only a
\* page that ends behind an open tag cannot be read.
SearchSound ==
  subject = "search" =>
    /\ answer.is = "panic" => query.page[3][Len(query.page[3])] = ">"
    /\ answer.is = "hits" =>
         /\ Cardinality(Range(answer.hits)) = Len(answer.hits) /\ Len(answer.hits) <= MaxHits
         /\ \A u \in Range(answer.hits) : domain(u) \notin query.blocked /\ (query.allowed # {} => domain(u) \in query.allowed)
         /\ (query.page[3] \in Whole /\ Cardinality(Reference(query)) <= MaxHits) => Range(answer.hits) = Reference(query)

\* A tool that is named exactly by one term, and by no worse in the others,
\* comes before one that is not; a required term is met by every tool found.
RankingSound ==
  (subject = "tools" /\ answer.is = "tools") =>
    /\ \A t \in Range(answer.tools), i \in DOMAIN query.terms : query.terms[i].plus => query.terms[i].rel[t] # "none"
    /\ (Len(answer.tools) = 2 /\ \E i \in DOMAIN query.terms :
           /\ query.terms[i].rel["t2"] \in {"name", "token"} /\ query.terms[i].rel["t1"] \notin {"name", "token"}
           /\ \A j \in DOMAIN query.terms \ {i} : query.terms[j].rel["t1"] \notin {"name", "token"}
           /\ \A j \in DOMAIN query.terms \ {i} : term_score(query.terms[j].rel["t2"]) >= term_score(query.terms[j].rel["t1"]))
         => answer.tools[1] = "t2"

LocalSound == NotebookSound /\ OutputCollected /\ SearchSound /\ RankingSound
=============================================================================
