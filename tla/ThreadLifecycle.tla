--------------------------- MODULE ThreadLifecycle ---------------------------
(***************************************************************************)
(* What a thread promises its clients, without sessions, handlers, workers *)
(* or streams: the state every snapshot shows (ThreadStateSnapshot: status *)
(* and run id) and the state the thread would come back with if the server *)
(* died now.                                                               *)
(***************************************************************************)
EXTENDS Naturals

VARIABLES up,      \* the server runs
          now,     \* the state clients see
          durable  \* the state a restart shows

lifecycle == <<up, now, durable>>

State(kind, run) == [kind |-> kind, run |-> run]
idle == State("idle", 0)

Init == up = TRUE /\ now = idle /\ durable = idle

(* A turn is accepted on a thread at rest, under a run id of its own; a    *)
(* crash from here on shows that run as interrupted.                       *)
Start ==
  /\ up /\ now.kind \in {"idle", "interrupted"}
  /\ now'.run \in Nat \ {0}
  /\ now' = State("running", now'.run)
  /\ durable' = State("interrupted", now'.run)
  /\ UNCHANGED up

(* A reply goes on with the run that asked.                                *)
Resume ==
  /\ up /\ now.kind = "awaiting_user_input"
  /\ now' = State("running", now.run)
  /\ durable' = State("interrupted", now.run)
  /\ UNCHANGED up

(* The run in progress, and no other, ends or asks. If that cannot be      *)
(* stored, a crash still shows it as interrupted.                          *)
Finish ==
  /\ up /\ now.kind = "running"
  /\ now' \in {idle, State("awaiting_user_input", now.run)}
  /\ durable' \in {now', durable}
  /\ UNCHANGED up

(* A thread at rest is stored as it is.                                    *)
Save ==
  /\ up /\ now.kind \in {"idle", "interrupted"}
  /\ durable' = now
  /\ UNCHANGED <<up, now>>

Stop == up /\ up' = FALSE /\ now' = idle /\ UNCHANGED durable

Restart == ~up /\ up' = TRUE /\ now' = durable /\ UNCHANGED durable

Next == Start \/ Resume \/ Finish \/ Save \/ Stop \/ Restart

Spec == Init /\ [][Next]_lifecycle
=============================================================================
