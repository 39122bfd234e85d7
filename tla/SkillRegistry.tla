----------------------------- MODULE SkillRegistry -----------------------------
(***************************************************************************)
(* Registry-managed skills (runtime skill_registry.rs, and the /skills     *)
(* command of the commands crate): install, update and uninstall, each a   *)
(* chain of file-system steps that a kill can interrupt and another        *)
(* process can overlap.  The registry of installed skills is one JSON      *)
(* file, read at the start of a command and written at its end.            *)
(***************************************************************************)
EXTENDS Naturals, Sequences

CONSTANTS SkillCommands,    \* processes that may run a /skills command
          Skills,
          Versions,    \* version numbers the packages come in
          Offers,      \* registries the user may point at: [Skills -> SUBSET entries]
          MaxRuns      \* bound on the commands run

VARIABLES records,     \* installed-skills file: record of each skill, or Torn
          dirs,        \* version in each skill's directory; 0 when there is none
          backups,     \* a version moved aside by an update
          run,         \* the running commands
          begun,       \* how many were started
          cut,         \* history: skills some command was killed or failed on
          overlap      \* history: two commands were under way at once

skillVars == <<records, dirs, backups, run, begun, cut, overlap>>

NoRecord == [version |-> 0, pinned |-> FALSE]
Torn == [s \in {} |-> NoRecord]
IdleRun == [at |-> "idle"]

SkillsInit ==
  /\ records = [s \in Skills |-> NoRecord]
  /\ dirs = [s \in Skills |-> 0]
  /\ backups = [s \in Skills |-> 0]
  /\ run = [c \in SkillCommands |-> IdleRun]
  /\ begun = 0 /\ cut = {} /\ overlap = FALSE

\* The package is inside the registry's directory, has a SKILL.md and no link,
\* and its files have the digest the registry names.
sound_package(entry) == entry.package = "sound"

\* An entry load_skill_registry accepts: its fields are there and unique, and its
\* package is sound and has the id of the entry.
load_skill_registry(entry) == entry.fields = "complete" /\ sound_package(entry)

\* is_skill_version_compatible, against the version of this build.
compatible(entry) == entry.minimum <= 1

\* The version asked for, compatible or not; otherwise the newest compatible one.
select_registry_entry(offer, s, asked) ==
  IF asked # 0 THEN {e \in offer[s] : e.version = asked}
  ELSE {e \in offer[s] : compatible(e) /\ \A f \in offer[s] : compatible(f) => f.version <= e.version}

\* An unreadable entry refuses the whole registry; a selected one must have the
\* standard placement.
usable(offer, s, asked) ==
  IF \E t \in Skills : \E e \in offer[t] : ~ load_skill_registry(e) THEN {}
  ELSE {e \in select_registry_entry(offer, s, asked) : e.placement = "standard"}

\* A missing or empty file counts as no records.
load_installed_skill_registry(file) == IF file = Torn THEN [s \in Skills |-> NoRecord] ELSE file

begin(c, r) ==
  /\ begun < MaxRuns
  /\ begun' = begun + 1
  /\ overlap' = (overlap \/ \E d \in SkillCommands : run[d].at \notin {"idle", "reported"})
  /\ run' = [run EXCEPT ![c] = r]
  /\ UNCHANGED <<records, dirs, backups, cut>>

Ready(c) == run[c].at \in {"idle", "reported"}
report(status, s, v) == [at |-> "reported", status |-> status, skill |-> s, version |-> v]
work(step, s, e, pin, known) ==
  [at |-> step, skill |-> s, version |-> e.version, pinned |-> pin, known |-> known]

install_managed_skill(c, s, asked, offer) ==
  /\ Ready(c)
  /\ \E e \in usable(offer, s, asked) :
       LET known == load_installed_skill_registry(records) IN
       begin(c, IF known[s] = NoRecord THEN work("stage", s, e, asked # 0, known)
                ELSE IF known[s].version = e.version THEN report("unchanged", s, e.version)
                ELSE report("refused", s, 0))

update_managed_skill(c, s, asked, offer) ==
  /\ Ready(c)
  /\ LET known == load_installed_skill_registry(records) IN
     /\ known[s] # NoRecord
     /\ IF asked = 0 /\ known[s].pinned
        THEN begin(c, report("pinned", s, known[s].version))
        ELSE \E e \in usable(offer, s, asked) :
               begin(c, IF known[s].version = e.version
                        THEN report("unchanged", s, e.version)
                        ELSE work("stage", s, e, asked # 0 \/ known[s].pinned, known))

uninstall_managed_skill(c, s) ==
  /\ Ready(c)
  /\ LET known == load_installed_skill_registry(records) IN
     /\ known[s] # NoRecord
     /\ begin(c, work("remove", s, [version |-> 0], FALSE, known))

goes_on(c, step) == run' = [run EXCEPT ![c].at = step]
KeepsRest == UNCHANGED <<begun, overlap, cut>>

\* Copying may fail, and then nothing has changed.
stage_skill_package(c) ==
  /\ run[c].at = "stage"
  /\ goes_on(c, "commit") \/ run' = [run EXCEPT ![c] = report("failed", run[c].skill, 0)]
  /\ UNCHANGED <<records, dirs, backups>> /\ KeepsRest

\* Mutant: no backup is taken.
commit_staged_skill_in_place(c) ==
  LET s == run[c].skill IN
  /\ run[c].at = "commit"
  /\ \/ dirs' = [dirs EXCEPT ![s] = run[c].version] /\ goes_on(c, "truncate")
     \/ /\ dirs' = [dirs EXCEPT ![s] = 0]
        /\ run' = [run EXCEPT ![c] = report("failed", s, 0)]
  /\ UNCHANGED <<records, backups>> /\ KeepsRest

\* commit_staged_skill: rename into place; over an existing directory that one
\* is moved aside first, and moved back when the rename fails.
commit_staged_skill(c) ==
  LET s == run[c].skill IN
  \/ /\ run[c].at = "commit" /\ dirs[s] = 0
     /\ dirs' = [dirs EXCEPT ![s] = run[c].version]
     /\ goes_on(c, "truncate")
     /\ UNCHANGED <<records, backups>> /\ KeepsRest
  \/ /\ run[c].at = "commit" /\ dirs[s] # 0
     /\ backups' = [backups EXCEPT ![s] = dirs[s]]
     /\ dirs' = [dirs EXCEPT ![s] = 0]
     /\ goes_on(c, "rename")
     /\ UNCHANGED records /\ KeepsRest
  \/ /\ run[c].at = "rename"
     /\ \/ /\ dirs[s] = 0
           /\ dirs' = [dirs EXCEPT ![s] = run[c].version]
           /\ goes_on(c, "truncate")
        \/ /\ dirs' = [dirs EXCEPT ![s] = IF @ = 0 THEN backups[s] ELSE @]
           /\ run' = [run EXCEPT ![c] = report("failed", s, 0)]
     /\ backups' = [backups EXCEPT ![s] = 0]
     /\ UNCHANGED records /\ KeepsRest

remove_directory(c) ==
  /\ run[c].at = "remove"
  /\ dirs' = [dirs EXCEPT ![run[c].skill] = 0]
  /\ goes_on(c, "truncate")
  /\ UNCHANGED <<records, backups>> /\ KeepsRest

\* fs::write of all the records read at the start, with this one changed.
save_installed_skill_registry(c) ==
  \/ /\ run[c].at = "truncate"
     /\ records' = Torn
     /\ goes_on(c, "write")
     /\ UNCHANGED <<dirs, backups>> /\ KeepsRest
  \/ /\ run[c].at = "write"
     /\ LET s == run[c].skill v == run[c].version IN
        /\ records' = [run[c].known EXCEPT ![s] =
                         IF v = 0 THEN NoRecord ELSE [version |-> v, pinned |-> run[c].pinned]]
        /\ run' = [run EXCEPT ![c] = report("done", s, v)]
     /\ UNCHANGED <<dirs, backups>> /\ KeepsRest

\* The process is killed.  Inside the save every skill is concerned.
kill(c) ==
  /\ ~ Ready(c)
  /\ cut' = cut \cup (IF run[c].at = "write" THEN Skills ELSE {run[c].skill})
  /\ run' = [run EXCEPT ![c] = IdleRun]
  /\ UNCHANGED <<records, dirs, backups, begun, overlap>>

SkillsNext ==
  \E c \in SkillCommands :
    \/ stage_skill_package(c) \/ commit_staged_skill(c) \/ remove_directory(c)
    \/ save_installed_skill_registry(c) \/ kill(c)
    \/ \E s \in Skills :
         \/ uninstall_managed_skill(c, s)
         \/ \E offer \in Offers, asked \in {0} \cup Versions :
              install_managed_skill(c, s, asked, offer) \/ update_managed_skill(c, s, asked, offer)

--------------------------------------------------------------------------------
(* Properties *)

\* With one command at a time, a skill whose commands were never killed has in
\* its directory exactly the version its record names, also after a copy or a
\* rename failed; a kill between the directory and the record, or inside the
\* save, is what it takes to separate them.
RecordMatchesDirectory ==
  ~ overlap /\ (\A c \in SkillCommands : Ready(c)) =>
    \A s \in Skills \ cut : load_installed_skill_registry(records)[s].version = dirs[s]

\* Only versions this build can run are installed, unless the user named one.
InstalledIsCompatible ==
  \A s \in Skills : LET r == load_installed_skill_registry(records)[s] IN
    r # NoRecord /\ ~ r.pinned =>
      \E offer \in Offers : \E e \in offer[s] : e.version = r.version /\ compatible(e)

--------------------------------------------------------------------------------
(***************************************************************************)
(* Which file a skill's name stands for.  The /skills listing (commands    *)
(* crate) and the Skill tool (tools crate) each build their own list of    *)
(* directories and look a name up in it; the warning after an install uses *)
(* a third combination.  A layout says, for one name, what each directory  *)
(* holds: nothing, a skill whose directory and front matter have the name  *)
(* ("plain"), only whose directory has it ("dir"), or only whose front     *)
(* matter has it ("title").                                                *)
(***************************************************************************)
VARIABLES layout, env_home, asked

lookupVars == <<layout, env_home, asked>>

\* The project's directories; the ones in the user's home directory, which is
\* an ancestor of the project; the ones $CODEX_HOME names when it is set; and
\* two that belong to other tools.
Roots == {"project .codex", "project .openyak", "project .codex commands",
          "project .openyak commands", "home .codex", "home .codex commands",
          "home .openyak", "home .openyak commands",
          "env .codex", "env .codex commands", "agents", "opencode"}
Holdings == {"none", "plain", "dir", "title"}
Legacy == {r \in Roots : r \in {"project .codex commands", "project .openyak commands",
             "home .codex commands", "home .openyak commands", "env .codex commands"}}

Layouts == {[r \in Roots |-> "none"]}
           \cup {[r \in Roots |-> IF r = a THEN x ELSE "none"] : a \in Roots, x \in Holdings}
           \cup {[r \in Roots |-> IF r = a THEN x ELSE IF r = b THEN y ELSE "none"] :
                   a, b \in Roots, x, y \in Holdings}

LookupInit ==
  /\ layout \in Layouts
  /\ env_home \in BOOLEAN
  /\ ~ env_home => layout["env .codex"] = "none" /\ layout["env .codex commands"] = "none"
  /\ asked = [listed |-> "unasked"]

UserCodex == IF env_home THEN "env .codex" ELSE "home .codex"
UserCodexCommands == IF env_home THEN "env .codex commands" ELSE "home .codex commands"

\* discover_skill_roots: a directory of an ancestor that is the user's own, or
\* looks like a user's home, is left to the user's entries at the end.
discover_skill_roots ==
  <<"project .codex", "project .openyak", "project .codex commands", "project .openyak commands",
    UserCodex, UserCodexCommands, "home .openyak", "home .openyak commands">>

\* resolve_skill_path of the Skill tool: no legacy commands, every ancestor as
\* it is, and the directories of other tools at the end.
resolve_skill_path ==
  <<"project .codex", "project .openyak", "home .codex", "home .openyak">>
    \o (IF env_home THEN <<UserCodex>> ELSE <<>>) \o <<"agents", "opencode">>

\* load_skills_from_roots: by the front matter's name, else the directory's;
\* the first one found is active, the later ones are shadowed.
load_skills_from_roots(roots) ==
  {i \in DOMAIN roots : layout[roots[i]] \in {"plain", "title"}}

\* resolve_skill_path_from_roots: by the directory's name.
resolve_skill_path_from_roots(roots) ==
  {i \in DOMAIN roots : layout[roots[i]] \in {"plain", "dir"}}

first(roots, found) ==
  IF found = {} THEN "none" ELSE roots[CHOOSE i \in found : \A j \in found : i <= j]
Listed == first(discover_skill_roots, load_skills_from_roots(discover_skill_roots))
Used == first(resolve_skill_path, resolve_skill_path_from_roots(resolve_skill_path))

\* managed_skill_shadowing_warning, for a skill installed in the user's
\* directory: the tool's rule, over the listing's directories.
managed_skill_shadowing_warning ==
  LET found == first(discover_skill_roots, resolve_skill_path_from_roots(discover_skill_roots)) IN
  IF found \in {"none", "home .openyak"} THEN "none" ELSE found

execute_skill ==
  /\ asked = [listed |-> "unasked"]
  /\ asked' = [listed |-> Listed, used |-> Used, warned |-> managed_skill_shadowing_warning]
  /\ UNCHANGED <<layout, env_home>>

LookupNext == execute_skill

--------------------------------------------------------------------------------
(* Properties *)
\* The file the listing shows as active is the one the tool runs, when the name
\* stands in both the directory and the front matter, in a skills directory,
\* and $CODEX_HOME is not set: then the listing puts that directory before the
\* home directory's and leaves the latter's .codex out, the tool neither.
ListedIsUsed ==
  asked.listed # "unasked" /\ asked.listed # "none" /\ asked.used # "none" =>
    \/ asked.listed = asked.used
    \/ \E r \in Roots : layout[r] \in {"dir", "title"}
    \/ \E r \in Legacy : layout[r] # "none"
    \/ env_home

\* When an install warns of nothing, the tool runs the skill just installed,
\* with the same exception of $CODEX_HOME.
UnwarnedIsUsed ==
  asked.listed # "unasked" /\ layout["home .openyak"] \in {"plain", "dir"} /\ asked.warned = "none" =>
    \/ asked.used = "home .openyak"
    \/ env_home /\ layout["home .codex"] # "none"
================================================================================
