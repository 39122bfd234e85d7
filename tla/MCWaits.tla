------------------------------- MODULE MCWaits -------------------------------
(***************************************************************************)
(* Two places where a process waits for another, for TLC: the hook runner  *)
(* for its commands, and the SDK's thread client for the server.  They     *)
(* share no state: the variable part says which of them goes on.           *)
(***************************************************************************)
EXTENDS HookRunner, ThreadClient

VARIABLE part
all == <<part, vars, clientVars>>

MCInit == part \in {"hooks", "client"} /\ Init /\ ClientInit

Hooks(A) == part = "hooks" /\ A /\ UNCHANGED <<part, clientVars>>
Client(A) == part = "client" /\ A /\ UNCHANGED <<part, vars>>

MCNext == Hooks(Next) \/ Client(ClientNext)

\* The fairness of the two specifications.
MCSpec ==
  /\ MCInit /\ [][MCNext]_all
  /\ WF_all(Hooks(spawn \/ write_all \/ write_all_broken_pipe \/ wait_with_output \/ run_commands_end))
  /\ WF_all(Hooks(child_step \/ child_exits))
  /\ \A c \in Calls : WF_all(Client(Call(c)))
  /\ WF_all(Client(Server))
-----------------------------------------------------------------------------
\* The hooks of an event come to an end and every call of a client returns:
\* nobody waits for what cannot come.
EveryoneReturns == (part = "hooks" => HooksReturn) /\ CallsReturn
=============================================================================
