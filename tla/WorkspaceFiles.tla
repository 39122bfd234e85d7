--------------------------- MODULE WorkspaceFiles ---------------------------
(***************************************************************************)
(* The file tools (runtime/src/file_ops.rs) behind the workspace boundary  *)
(* of PermissionEnforcer::check_file_write: the path is judged first, then *)
(* resolved again by the tool, then read, then written, while sub-agents   *)
(* and other programs change the same tree.                                *)
(***************************************************************************)
EXTENDS Naturals, Sequences, SequencesExt

CONSTANTS Workers,    \* threads that run a file tool: the CLI and its agents
          Listings,   \* search results to be paged: sequences
          Limits      \* head_limit values, 0 for no limit

ASSUME FilesAssumption ==
  (\A s \in Listings : s \in Seq(Nat)) /\ (\A n \in Limits : n \in Nat)

VARIABLES contents,      \* location -> its tokens, or Missing
          link,       \* where the directory link root/d points
          worker,         \* per worker: its tool call and how far it is
          pager       \* a reader that follows grep's pages

filesVars == <<contents, link, worker, pager>>

Missing == <<"missing">>
Places == {"root/a", "root/dir/a", "root/n/a", "parent/a", "other/a"}
Inside == {"root/a", "root/dir/a", "root/n/a"}

(* Spellings: root/a; root/d/a through the link; root/../a; /other/a; and  *)
(* root/n/a, whose directory does not exist yet.                           *)
ToolPaths == {"plain", "linked", "up", "outside", "fresh"}

canonicalize(p) ==
  CASE p = "plain" -> "root/a"
    [] p = "linked" -> IF link = "in" THEN "root/dir/a" ELSE "other/a"
    [] p = "up" -> "parent/a"
    [] p = "outside" -> "other/a"
    [] OTHER -> "root/n/a"

Exists(p) == contents[canonicalize(p)] # Missing

(* relative_path_within_root: below the root, by spelling, with no "..".   *)
relative_path_within_root(p) == p \in {"plain", "linked", "fresh"}

(* An existing target is where it really is; a missing one below the root  *)
(* is taken to be where it is spelled.                                     *)
resolve_write_target_path(p) ==
  IF ~Exists(p) /\ relative_path_within_root(p) THEN "root/n/a" ELSE canonicalize(p)

(* Mutant: a relative path is below the root.                              *)
is_within_workspace_spelled(p) == p # "outside"

is_within_workspace(p) == resolve_write_target_path(p) \in Inside

-----------------------------------------------------------------------------
Contents == {<<"x", "x">>, <<>>}

FirstOf(s, old) == SelectInSeq(s, LAMBDA t : t = old)

replaced(s, old, new, all) ==
  [i \in DOMAIN s |-> IF s[i] = old /\ (all \/ i = FirstOf(s, old)) THEN new ELSE s[i]]

IdleWorker == [step |-> "idle"]

FilesInit ==
  /\ contents \in [Places -> {Missing, <<"x", "x">>}]
  /\ contents["root/n/a"] = Missing
  /\ link \in {"in", "out"}
  /\ worker = [w \in Workers |-> IdleWorker]
  /\ \E s \in Listings, n \in Limits :
       pager = [items |-> s, limit |-> n, offset |-> 0, got |-> <<>>, done |-> FALSE]

(* The enforcer judges the path in workspace-write mode.                   *)
check_write(w) ==
  /\ worker[w] = IdleWorker /\ pager.done
  /\ \E p \in ToolPaths, op \in {"write", "edit"}, all \in BOOLEAN, c \in Contents :
       /\ op = "write" => ~all
       /\ op = "edit" => c = <<>>
       /\ worker' = [worker EXCEPT ![w] =
            [step |-> IF is_within_workspace(p) THEN "load" ELSE "refused",
             op |-> op, path |-> p, all |-> all, content |-> c, at |-> "",
             original |-> Missing, judged |-> canonicalize(p), existed |-> Exists(p)]]
  /\ UNCHANGED <<contents, link, pager>>

(* write_file: the path is resolved and the old content kept for the patch.*)
write_load(w) ==
  /\ worker[w].step = "load" /\ worker[w].op = "write"
  /\ worker' = [worker EXCEPT ![w].step = "store", ![w].at = canonicalize(worker[w].path),
                      ![w].original = contents[canonicalize(worker[w].path)]]
  /\ UNCHANGED <<contents, link, pager>>

(* edit_file: the file must exist and have the text to be replaced.        *)
edit_load(w) ==
  /\ worker[w].step = "load" /\ worker[w].op = "edit"
  /\ LET here == canonicalize(worker[w].path) IN
     worker' = [worker EXCEPT
       ![w].step = IF contents[here] # Missing /\ Contains(contents[here], "x") THEN "store" ELSE "failed",
       ![w].at = here, ![w].original = contents[here],
       ![w].content = IF contents[here] # Missing THEN replaced(contents[here], "x", "y", worker[w].all) ELSE @]
  /\ UNCHANGED <<contents, link, pager>>

(* fs::write, behind create_dir_all for a write.                           *)
store(w) ==
  /\ worker[w].step = "store"
  /\ contents' = [contents EXCEPT ![worker[w].at] = worker[w].content]
  /\ worker' = [worker EXCEPT ![w].step = "done"]
  /\ UNCHANGED <<link, pager>>

finish_call(w) ==
  /\ worker[w].step \in {"refused", "failed", "done"}
  /\ worker' = [worker EXCEPT ![w] = IdleWorker]
  /\ UNCHANGED <<contents, link, pager>>

(* Another program moves the link.                                         *)
relink ==
  /\ link' = IF link = "in" THEN "out" ELSE "in"
  /\ UNCHANGED <<contents, worker, pager>>

-----------------------------------------------------------------------------
(* apply_limit: one page, and whether more is behind it.                   *)
page_of(items, limit, offset) ==
  LET rest == SubSeq(items, offset + 1, Len(items)) IN
  [items |-> IF limit = 0 THEN rest ELSE SubSeq(rest, 1, IF limit < Len(rest) THEN limit ELSE Len(rest)),
   more |-> limit # 0 /\ Len(rest) > limit]

apply_limit(items, limit, offset) == page_of(items, limit, offset)

(* The model asks for the next page while appliedLimit is given; the tool  *)
(* calls of a turn run one after the other.                                *)
next_page ==
  /\ ~pager.done
  /\ LET p == apply_limit(pager.items, pager.limit, pager.offset) IN
     pager' = [pager EXCEPT !.got = @ \o p.items, !.offset = @ + pager.limit,
                            !.done = ~p.more]
  /\ UNCHANGED <<contents, link, worker>>

FilesNext ==
  \/ \E w \in Workers : check_write(w) \/ write_load(w) \/ edit_load(w)
                          \/ store(w) \/ finish_call(w)
  \/ relink
  \/ next_page

FilesSpec == FilesInit /\ [][FilesNext]_filesVars

-----------------------------------------------------------------------------
(* In workspace-write mode a write lands inside the workspace. The only    *)
(* exception is a path through a directory link that did not exist when it *)
(* was judged, or whose link was moved since: both steps resolve the path  *)
(* for themselves.                                                         *)
WritesStayInside ==
  \A w \in Workers :
    worker[w].step \in {"store", "done"} =>
      \/ worker[w].at \in Inside
      \/ worker[w].path = "linked" /\ (~worker[w].existed \/ worker[w].judged # worker[w].at)

(* An edit writes back what it read with the first, or every, occurrence   *)
(* of the old text replaced, and nothing else: unless replace_all was      *)
(* asked for, exactly one token differs.                                   *)
EditsAreLocal ==
  \A w \in Workers :
    worker[w].step \in {"store", "done"} /\ worker[w].op = "edit" =>
      /\ Len(worker[w].content) = Len(worker[w].original)
      /\ LET changed == {i \in DOMAIN worker[w].content : worker[w].content[i] # worker[w].original[i]} IN
         IF worker[w].all THEN ~Contains(worker[w].content, "x")
         ELSE \E i \in changed : changed = {i}

(* A reader that follows the pages until no limit was applied has seen     *)
(* every match once, in order; the announcement of more never ends early.  *)
PagesComplete ==
  pager.done => pager.got = pager.items
-----------------------------------------------------------------------------
(***************************************************************************)
(* Why.  A call that was not refused names a path below the root, and an   *)
(* existing target was inside when it was judged; what an edit will store  *)
(* is what it read, replaced.                                              *)
(***************************************************************************)
Tokens == {"x", "y", "missing"}

FileCall ==
  [step : {"load", "store", "done", "failed", "refused"}, op : {"write", "edit"}, path : ToolPaths,
   all : BOOLEAN, content : Seq(Tokens), at : Places \cup {""}, original : Seq(Tokens),
   judged : Places, existed : BOOLEAN]

FilesTypeOK ==
  /\ contents \in [Places -> Seq(Tokens)] /\ link \in {"in", "out"}
  /\ worker \in [Workers -> {IdleWorker} \cup FileCall]
  /\ pager \in [items : Seq(Nat), limit : Nat, offset : Nat, got : Seq(Nat), done : BOOLEAN]

Judged(c) ==
  c.step \in {"load", "store", "done"} =>
    c.path \in {"plain", "linked", "fresh"} /\ (c.existed => c.judged \in Inside)

Resolved(c) ==
  c.step \in {"store", "done"} =>
    /\ c.at \in (CASE c.path = "plain" -> {"root/a"} [] c.path = "fresh" -> {"root/n/a"}
                   [] OTHER -> {"root/dir/a", "other/a"})
    /\ c.op = "edit" => /\ c.content = replaced(c.original, "x", "y", c.all)
                        /\ Contains(c.original, "x")

\* The reader has the items up to its offset, or all of them.
PagesSeen ==
  IF pager.done THEN pager.got = pager.items
  ELSE pager.offset <= Len(pager.items) /\ pager.got = SubSeq(pager.items, 1, pager.offset)

FilesInv ==
  /\ FilesTypeOK /\ PagesSeen
  /\ \A w \in Workers : worker[w] # IdleWorker => Judged(worker[w]) /\ Resolved(worker[w])
=============================================================================
