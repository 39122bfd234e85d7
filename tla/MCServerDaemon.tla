--------------------------- MODULE MCServerDaemon ---------------------------
(* Scenes for model checking ServerDaemon.                                 *)
EXTENDS ServerDaemon

CONSTANTS start, recover, stop
Scene(cs, procs, killed, users_own, binds, serial) ==
  [commands |-> cs, servers |-> procs, crashes |-> killed,
   foreground |-> users_own, binds |-> binds, serial |-> serial]

(* A start and a stop beside a foreground server that may take their       *)
(* address, or beside a crash; and three commands one at a time, with two  *)
(* crashes.                                                                *)
Three ==
  {Scene({start, stop}, 2, 0, 1, {"fixed"}, FALSE),
   Scene({start, stop}, 2, 1, 1, {"default"}, FALSE),
   Scene({start, recover, stop}, 2, 2, 0, {"default"}, TRUE)}
=============================================================================
