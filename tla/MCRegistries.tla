---------------------------- MODULE MCRegistries ----------------------------
(***************************************************************************)
(* The task, team and cron registries for TLC, as two systems: the         *)
(* registries alone, under every call their users may make; and the tools  *)
(* on top of them, with what several callers are told.  The second is      *)
(* larger, and is given one task and one team creation.                    *)
(***************************************************************************)
EXTENDS WorkTools, TLC

VARIABLE through_tools

\* Up to two tasks, also one twice.
TwoTasks == {<<>>} \cup {<<s>> : s \in 1..MaxTasks} \cup {<<s, t>> : s, t \in 1..MaxTasks}

MCInit == through_tools \in BOOLEAN /\ ToolsInit

Small == /\ Len(tasks) <= 1
         /\ \A c, d \in Creators : pc[c] # "new" /\ pc[d] # "new" => c = d
         /\ \A c \in Creators : ids[c] \in {<<>>, <<1>>}

MCNext == \/ ~ through_tools /\ Next /\ UNCHANGED <<through_tools, local>>
          \/ through_tools /\ ToolsNext /\ Small' /\ UNCHANGED through_tools

\* Creations are interchangeable, and so are callers.
Symmetric == Permutations(Creators) \cup Permutations(Callers)
=============================================================================
