----------------------------- MODULE HookRunner -----------------------------
(***************************************************************************)
(* HookRunner::run_commands (runtime/src/hooks.rs, plugins/src/hooks.rs):  *)
(* the commands configured for a PreToolUse or PostToolUse event run one   *)
(* after the other, each a child process that is handed a payload on its   *)
(* standard input; exit code 2 denies the tool and ends the sequence.      *)
(*                                                                         *)
(* The two crates differ in one line: what a broken pipe means while the   *)
(* payload is written.                                                     *)
(***************************************************************************)
EXTENDS Naturals, Sequences

CONSTANTS Commands,            \* how many commands are configured
          Children(_),         \* what a child may do, given whether the
                               \* payload is larger than a pipe holds
          BrokenPipeTolerated  \* TRUE: plugins, FALSE: runtime

(* A child may fail to start, ignore its input, or write more output than  *)
(* a pipe holds before it reads; then it exits with a code or by a signal  *)
(* (ExitStatus::code() is None then).                                      *)
Signal == 256
Codes == {0, 1, 2, Signal}
Behaviour == [starts : BOOLEAN, ignores_stdin : BOOLEAN,
              talks_first : BOOLEAN, code : Codes]

ASSUME HookAssumption ==
  /\ Commands \in Nat
  /\ \A l \in BOOLEAN : Children(l) \subseteq Behaviour
  /\ BrokenPipeTolerated \in BOOLEAN

VARIABLES at,        \* the command that runs
          parent,    \* where output_with_stdin is
          child,     \* where the child is
          behaviour, \* what the child does
          large,     \* the payload is larger than a pipe holds
          denied,    \* HookRunResult.denied
          codes      \* how the children ended, in order

vars == <<at, parent, child, behaviour, large, denied, codes>>

TypeOK ==
  /\ at \in 1..(Commands + 1)
  /\ parent \in {"spawn", "write", "wait", "done"}
  /\ child \in {"none", "started", "talking", "reading", "finishing",
                "exited"}
  /\ behaviour \in Behaviour
  /\ large \in BOOLEAN /\ denied \in BOOLEAN
  /\ codes \in Seq(Codes)

Init ==
  /\ at = 1
  /\ parent = "spawn"
  /\ child = "none"
  /\ behaviour = [starts |-> FALSE, ignores_stdin |-> FALSE,
                  talks_first |-> FALSE, code |-> 0]
  /\ large \in BOOLEAN
  /\ denied = FALSE
  /\ codes = <<>>

(* What run_commands does with a command's outcome.                        *)
conclude(outcome) ==
  /\ denied' = (outcome = "deny")
  /\ IF outcome = "deny"
     THEN parent' = "done" /\ UNCHANGED <<at, child>>
     ELSE parent' = "spawn" /\ at' = at + 1 /\ child' = "none"

more_commands == at <= Commands

spawn ==
  /\ parent = "spawn" /\ more_commands
  /\ \E b \in Children(large) :
       /\ behaviour' = b
       /\ IF b.starts
          THEN /\ parent' = "write" /\ child' = "started"
               /\ UNCHANGED <<at, denied>>
          ELSE conclude("warn")
  /\ UNCHANGED <<large, codes>>

(* All commands ran without a denial.                                      *)
run_commands_end ==
  /\ parent = "spawn" /\ ~more_commands
  /\ parent' = "done"
  /\ UNCHANGED <<at, child, behaviour, large, denied, codes>>

(* write_all: a small payload fits into the pipe, a large one needs a      *)
(* child that reads; both need a reading end that is still open.           *)
write_all ==
  /\ parent = "write"
  /\ child # "exited" /\ (large => child = "reading")
  /\ parent' = "wait"
  /\ UNCHANGED <<at, child, behaviour, large, denied, codes>>

write_all_broken_pipe ==
  /\ parent = "write" /\ child = "exited"
  /\ IF BrokenPipeTolerated
     THEN parent' = "wait" /\ UNCHANGED <<at, child, denied>>
     ELSE conclude("warn")
  /\ UNCHANGED <<behaviour, large, codes>>

(* Mutant: any exit but a clean one is a warning.                          *)
outcome_of_lenient(code) == IF code = 0 THEN "allow" ELSE "warn"

outcome_of(code) ==
  IF code = 0 THEN "allow" ELSE IF code = 2 THEN "deny" ELSE "warn"

wait_with_output ==
  /\ parent = "wait" /\ child = "exited"
  /\ conclude(outcome_of(behaviour.code))
  /\ UNCHANGED <<behaviour, large, codes>>

(* The child. Its input ends, because the parent drops its end, and its    *)
(* output is drained once the parent waits.                                *)
Drained == parent = "wait"

child_moves(from, to, when) ==
  /\ child = from /\ when
  /\ child' = to
  /\ UNCHANGED <<at, parent, behaviour, large, denied, codes>>

child_step ==
  LET b == behaviour IN
  \/ child_moves("started", "talking", b.talks_first)
  \/ child_moves("started", "finishing", ~b.talks_first /\ b.ignores_stdin)
  \/ child_moves("started", "reading", ~b.talks_first /\ ~b.ignores_stdin)
  \/ child_moves("talking", IF b.ignores_stdin THEN "finishing"
                            ELSE "reading", Drained)
  \/ child_moves("reading", "finishing", Drained)

child_exits ==
  /\ child = "finishing"
  /\ child' = "exited"
  /\ codes' = Append(codes, behaviour.code)
  /\ UNCHANGED <<at, parent, behaviour, large, denied>>

Finished == parent = "done" /\ UNCHANGED vars

Next == \/ spawn \/ write_all \/ write_all_broken_pipe \/ wait_with_output
        \/ run_commands_end
        \/ child_step \/ child_exits
        \/ Finished

Spec == Init /\ [][Next]_vars

(* Parent and child are scheduled; a hook command does not run for ever.   *)
FairSpec ==
  /\ Spec
  /\ WF_vars(spawn \/ write_all \/ write_all_broken_pipe
             \/ wait_with_output \/ run_commands_end)
  /\ WF_vars(child_step \/ child_exits)

-----------------------------------------------------------------------------
(* A hook that exits with code 2 denies the tool, however its exit and the *)
(* parent's write interleave, and no later command runs.                   *)
DenialHonoured ==
  /\ \A i \in 1..(Len(codes) - 1) : codes[i] # 2
  /\ parent = "done" =>
       (denied <=> codes # <<>> /\ codes[Len(codes)] = 2)

(* The inductive invariant behind it: what the parent believes is how the  *)
(* child that it looked at ended (output_with_stdin, run_commands).        *)
HookInv ==
  /\ TypeOK
  /\ parent = "spawn" => child = "none"
  /\ parent \in {"write", "wait"} => child # "none" /\ more_commands
  /\ parent = "done" => child = (IF denied THEN "exited" ELSE "none")
  /\ denied => parent = "done" /\ behaviour.code = 2
  /\ child = "exited" => codes # <<>> /\ codes[Len(codes)] = behaviour.code
  /\ \A i \in 1..Len(codes) :
       codes[i] = 2 => i = Len(codes) /\ child = "exited"

(* A hook that denies is honoured, and the state of the runner is sound.   *)
HooksSound == TypeOK /\ DenialHonoured

(* Running the hooks of an event comes to an end: parent and child never   *)
(* wait for each other.                                                    *)
HooksReturn == <>(parent = "done")
-----------------------------------------------------------------------------
(* Children for TLC: all but those that fill a pipe with their output      *)
(* before they take a payload that does not fit into one.                  *)
Orderly(large_payload) ==
  {b \in Behaviour : large_payload => ~b.talks_first}
=============================================================================
