------------------------------ MODULE ReplSession ------------------------------
(***************************************************************************)
(* The interactive CLI (openyak-cli, LiveCli and run_repl): the session it *)
(* holds in memory, the file it keeps it in, the permission mode it shows  *)
(* and the one its runtime enforces.  Several CLIs may run in one          *)
(* workspace: they share the directory .openyak/sessions.  A session is    *)
(* the set of turns it has, and the question it waits on; compaction keeps *)
(* both (a summary stands for the turns it replaced).                      *)
(***************************************************************************)
EXTENDS Naturals

CONSTANTS Clis,       \* processes
          Ceilings,   \* ceilings of the tool profiles they may run under
          QuestionKinds,      \* of questions: "choice" takes an option, "free" any text
          MaxTurns,   \* bound on the turns of all processes together
          MaxClock    \* bound on the milliseconds that name session files

VARIABLES cli,        \* the processes: what LiveCli holds, and where it is
          disk,       \* the session files, by the millisecond in their name
          clock,      \* the current millisecond
          count,      \* turns started so far: names the next one
          saves,      \* history: <<turn, file>> of every turn a save completed
          contested   \* history: files two processes had open at once, or
                      \* that a confirmed clear emptied

replVars == <<cli, disk, clock, count, saves, contested>>

CliModes == {"read-only", "workspace-write", "danger-full-access"}
ASSUME ReplAssumption == Ceilings \subseteq CliModes /\ MaxClock \in Nat

rank(m) == CASE m = "read-only" -> 0 [] m = "workspace-write" -> 1 [] OTHER -> 2
Questions == {"none"} \cup QuestionKinds
SessionFiles == 0..MaxClock
NoFile == [kind |-> "absent"]
TornFile == [kind |-> "torn"]
NewSession == [kind |-> "session", turns |-> {}, question |-> "none"]
Off == [at |-> "off"]

Live == {c \in Clis : cli[c].at # "off"}
Holders(f) == {c \in Live : cli[c].file = f}

ReplInit ==
  /\ cli = [c \in Clis |-> Off]
  /\ disk = [f \in SessionFiles |-> NoFile]
  /\ clock = 0
  /\ count = 0
  /\ saves = {}
  /\ contested = {}

\* A session that another process holds is contested from the moment a second
\* process opens it.
opened(c, f) == contested' = IF Holders(f) \ {c} = {} THEN contested ELSE contested \cup {f}

\* The id of a new session is the current millisecond.  A turn takes longer
\* than a millisecond, and so does a command somebody types.
create_managed_session_handle(c) ==
  /\ \A e \in saves : e[2] # clock
  /\ c \in Live => cli[c].file # clock
  /\ opened(c, clock)

\* handle_repl_command: a command that changed something asks run_repl to save;
\* the process is back at `next' once the save is done.
saves_then(c, r, next) == cli' = [cli EXCEPT ![c] = [r EXCEPT !.at = "saving", !.next = next]]

\* persist_session: fs::write truncates the file, and then fills it.
persist_session(c) ==
  \/ /\ cli[c].at = "saving"
     /\ disk' = [disk EXCEPT ![cli[c].file] = TornFile]
     /\ cli' = [cli EXCEPT ![c].at = "truncated"]
     /\ UNCHANGED <<clock, count, saves, contested>>
  \/ /\ cli[c].at = "truncated"
     /\ disk' = [disk EXCEPT ![cli[c].file] = cli[c].session]
     /\ saves' = saves \cup {<<t, cli[c].file>> : t \in cli[c].session.turns}
     /\ cli' = [cli EXCEPT ![c] = IF @.next = "off" THEN Off ELSE [@ EXCEPT !.at = cli[c].next]]
     /\ UNCHANGED <<clock, count, contested>>

\* LiveCli::new: the mode comes within the ceiling of the tool profile.
new_cli(c) ==
  /\ cli[c].at = "off"
  /\ \E ceiling \in Ceilings : \E mode \in {m \in CliModes : rank(m) <= rank(ceiling)} :
       saves_then(c, [at |-> "new", next |-> "prompt", mode |-> mode, runtime |-> mode,
                ceiling |-> ceiling, restore |-> "none", session |-> NewSession,
                file |-> clock], "prompt")
  /\ create_managed_session_handle(c)
  /\ UNCHANGED <<disk, clock, count, saves>>

\* build_runtime reads the configuration and the plugins, which may have been
\* broken meanwhile: the error ends the REPL, and nothing is saved.
turn_ends(c) == cli' = [cli EXCEPT ![c] = Off]

build_runtime_fails(c) ==
  /\ cli[c].at = "prompt"
  /\ turn_ends(c)
  /\ UNCHANGED <<disk, clock, count, saves, contested>>

\* Whether a reply answers the question: a number picks an option (0 picks the
\* first), a label its option, and other text counts where it is allowed.
parse_user_input_submission(question, raw) ==
  \/ raw \in {"number", "zero", "label"}
  \/ raw = "text" /\ question = "free"

\* resolve_pending_user_input, at the start of a turn, of /resume and of
\* /session switch.  An answered turn goes on: it ends, or asks again.  An
\* unanswered question stays, and any other error ends the REPL after a save.
resolve_pending_user_input(c, then) ==
  LET s == cli[c].session IN
  /\ s.question # "none"
  /\ \/ /\ \E raw \in {"number", "zero", "label", "text"} :
             parse_user_input_submission(s.question, raw)
        /\ \E q \in Questions :
             saves_then(c, [cli[c] EXCEPT !.session.question = q],
                  IF q = "none" THEN then ELSE "prompt")
     \/ saves_then(c, cli[c], "prompt")
     \/ saves_then(c, cli[c], "off")
  /\ UNCHANGED <<disk, clock, count, saves, contested>>

\* run_turn: the question first; then the turn, which ends, asks, or fails
\* with what it has so far.
run_turn(c) ==
  \/ cli[c].at = "prompt" /\ resolve_pending_user_input(c, "turn")
  \/ /\ \/ cli[c].at = "turn"
        \/ cli[c].at = "prompt" /\ cli[c].session.question = "none"
     /\ count < MaxTurns
     /\ count' = count + 1
     /\ \E q \in Questions, next \in {"prompt", "off"} :
          /\ next = "off" => q = "none"
          /\ saves_then(c, [cli[c] EXCEPT !.session.turns = @ \cup {count'}, !.session.question = q], next)
     /\ UNCHANGED <<disk, clock, saves, contested>>

\* /exit, /quit and the end of input.
leave_repl(c) ==
  /\ cli[c].at = "prompt"
  /\ saves_then(c, cli[c], "off")
  /\ UNCHANGED <<disk, clock, count, saves, contested>>

\* A rebuild keeps the session and takes the mode.
rebuild_runtime_for_permission_mode(r, mode) == [r EXCEPT !.mode = mode, !.runtime = mode]

\* /permissions <mode>: refused in plan mode and above the ceiling.
set_permissions(c, mode) ==
  /\ cli[c].at = "prompt"
  /\ cli[c].restore = "none"
  /\ rank(mode) <= rank(cli[c].ceiling)
  /\ mode # cli[c].mode
  /\ saves_then(c, rebuild_runtime_for_permission_mode(cli[c], mode), "prompt")
  /\ UNCHANGED <<disk, clock, count, saves, contested>>

\* /plan and /plan exit.
enter_plan_mode(c) ==
  /\ cli[c].at = "prompt"
  /\ cli[c].restore = "none"
  /\ saves_then(c, [rebuild_runtime_for_permission_mode(cli[c], "read-only")
                EXCEPT !.restore = cli[c].mode], "prompt")
  /\ UNCHANGED <<disk, clock, count, saves, contested>>

exit_plan_mode(c) ==
  /\ cli[c].at = "prompt"
  /\ cli[c].restore # "none"
  /\ saves_then(c, [rebuild_runtime_for_permission_mode(cli[c], cli[c].restore)
                EXCEPT !.restore = "none"], "prompt")
  /\ UNCHANGED <<disk, clock, count, saves, contested>>

\* /model, /compact, /commit and a plugin change rebuild the runtime around
\* the session it has, and save it.
set_model(c) ==
  /\ cli[c].at = "prompt"
  /\ saves_then(c, [cli[c] EXCEPT !.runtime = cli[c].mode], "prompt")
  /\ UNCHANGED <<disk, clock, count, saves, contested>>

\* /clear --confirm: a fresh session in a file of its own.
clear_session(c) ==
  /\ cli[c].at = "prompt"
  /\ create_managed_session_handle(c)
  /\ saves_then(c, [cli[c] EXCEPT !.session = NewSession, !.file = clock,
                            !.runtime = cli[c].mode], "prompt")
  /\ UNCHANGED <<disk, clock, count, saves>>

\* Mutant: a file that does not parse counts as a fresh session.
switch_session_lenient(c, f) ==
  /\ cli[c].at = "prompt"
  /\ disk[f].kind # "absent"
  /\ opened(c, f)
  /\ cli' = [cli EXCEPT ![c].session = IF disk[f] = TornFile THEN NewSession ELSE disk[f],
                        ![c].file = f, ![c].at = "switched"]
  /\ UNCHANGED <<disk, clock, count, saves>>

\* /resume and /session switch: a file that is missing or does not parse ends
\* the REPL; otherwise its session replaces the one in memory, and a question
\* it waits on is put at once.
switch_session(c, f) ==
  /\ cli[c].at = "prompt"
  /\ IF disk[f].kind # "session"
     THEN turn_ends(c) /\ UNCHANGED contested
     ELSE /\ opened(c, f)
          /\ cli' = [cli EXCEPT ![c] = [@ EXCEPT !.session = disk[f], !.file = f, !.at = "switched",
                                                 !.runtime = cli[c].mode]]
  /\ UNCHANGED <<disk, clock, count, saves>>

after_switch(c) ==
  /\ cli[c].at = "switched"
  /\ \/ resolve_pending_user_input(c, "prompt")
     \/ /\ cli[c].session.question = "none"
        /\ saves_then(c, cli[c], "prompt")
        /\ UNCHANGED <<disk, clock, count, saves, contested>>

\* openyak --resume <file> <commands>: the file is loaded once; /compact writes
\* the session back, /clear --confirm an empty one, the other commands read.
resume_session(c, f) ==
  /\ cli[c].at = "off"
  /\ disk[f].kind = "session"
  /\ opened(c, f)
  /\ cli' = [cli EXCEPT ![c] = [at |-> "resumed", next |-> "off", mode |-> "read-only",
                                runtime |-> "read-only", ceiling |-> "read-only",
                                restore |-> "none", session |-> disk[f], file |-> f]]
  /\ UNCHANGED <<disk, clock, count, saves>>

run_resume_command(c) ==
  /\ cli[c].at = "resumed"
  /\ \/ saves_then(c, cli[c], "resumed") /\ UNCHANGED contested
     \/ /\ saves_then(c, [cli[c] EXCEPT !.session = NewSession], "resumed")
        /\ contested' = contested \cup {cli[c].file}
     \/ turn_ends(c) /\ UNCHANGED contested
  /\ UNCHANGED <<disk, clock, count, saves>>

\* A process may be killed at any point; inside a save it leaves a torn file.
crash(c) ==
  /\ c \in Live
  /\ turn_ends(c)
  /\ UNCHANGED <<disk, clock, count, saves, contested>>

tick ==
  /\ clock < MaxClock
  /\ clock' = clock + 1
  /\ UNCHANGED <<cli, disk, count, saves, contested>>

ReplNext ==
  \/ tick
  \/ \E c \in Clis :
       \/ new_cli(c) \/ persist_session(c) \/ build_runtime_fails(c) \/ run_turn(c) \/ leave_repl(c)
       \/ enter_plan_mode(c) \/ exit_plan_mode(c) \/ set_model(c) \/ clear_session(c)
       \/ after_switch(c) \/ run_resume_command(c) \/ crash(c)
       \/ \E mode \in CliModes : set_permissions(c, mode)
       \/ \E f \in SessionFiles : switch_session(c, f) \/ resume_session(c, f)

--------------------------------------------------------------------------------
(* Properties *)

\* The mode LiveCli shows is the one its runtime enforces and within the
\* profile's ceiling, whatever sequence of /permissions, /plan, /model and
\* session switches led here; in plan mode both are read-only, and the mode
\* /plan exit returns to is within the ceiling as well.
ModeInForce ==
  \A c \in Live :
    /\ cli[c].runtime = cli[c].mode
    /\ rank(cli[c].mode) <= rank(cli[c].ceiling)
    /\ cli[c].restore # "none" => /\ cli[c].mode = "read-only"
                                  /\ rank(cli[c].restore) <= rank(cli[c].ceiling)

\* No turn is lost.  A turn whose save completed is in the file of its session
\* and in the memory of the process that has it open, unless two processes had
\* the session open or somebody cleared the file.  A save that was killed
\* halfway leaves a torn file, which is refused and never resumed as an empty
\* session that the next save would make final.
TurnsKept ==
  \A e \in saves : e[2] \notin contested =>
    /\ disk[e[2]] = TornFile \/ (disk[e[2]].kind = "session" /\ e[1] \in disk[e[2]].turns)
    /\ \A c \in Holders(e[2]) : e[1] \in cli[c].session.turns

\* A turn starts only on a session that waits on no question.
NoTurnOverQuestion == \A c \in Live : cli[c].at = "turn" => cli[c].session.question = "none"
================================================================================
