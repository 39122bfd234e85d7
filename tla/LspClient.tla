------------------------------- MODULE LspClient -------------------------------
(***************************************************************************)
(* The language server client (crate lsp): LspManager, which starts one    *)
(* server for the paths of a language, and LspClient, which speaks JSON-RPC*)
(* with it over two pipes.  Several callers share both.  One language and  *)
(* one document stand for all: nothing relates two of them.  The server is *)
(* modelled from what the client expects of it; it sends no requests of    *)
(* its own (initialize announces no capability that would make it).        *)
(***************************************************************************)
EXTENDS Integers, Sequences, FiniteSets

CONSTANTS Callers,     \* tasks that share the manager
          Operations,  \* what they call: open, sync, save, close, define,
                       \* diagnostics, shutdown
          MaxCalls,    \* bound on the calls of all of them
          MaxClients,  \* bound on the servers started
          MaxFaults    \* bound on crashes and garbage of the servers

Nobody == "nobody"
ASSUME LspAssumption ==
  /\ Nobody \notin Callers
  /\ Operations \subseteq {"open", "sync", "save", "close", "define", "diagnostics", "shutdown"}

VARIABLES clients,  \* every LspClient there was, with its server and its pipes
          current,  \* LspManager.clients: the index of the one entry, or 0
          lock,     \* the caller that holds the lock of that map
          caller,   \* where each call is
          disk,     \* the text of the document on disk
          calls,    \* history: calls begun
          faults,   \* history: faults of the servers
          overlap   \* history: two calls were under way at once

lspVars == <<clients, current, lock, caller, disk, calls, faults, overlap>>

IdleCaller == [at |-> "idle", op |-> "none", k |-> 0, id |-> 0, text |-> 0, version |-> 0, reply |-> "none"]
BusyCallers == {c \in Callers : caller[c].at # "idle"}

\* A client that has just sent its initialize request, with id 1.
connected == [child |-> "up", reader |-> "on", stdin |-> "open", pending |-> {1}, next_request_id |-> 2,
            open_documents |-> 0, diagnostics |-> 0, exiting |-> FALSE,
            text |-> 0, to_server |-> <<[method |-> "initialize", id |-> 1]>>, to_client |-> <<>>,
            view |-> [version |-> 0, text |-> 0, wrong |-> FALSE]]

LspInit ==
  /\ clients = <<>>
  /\ current = 0
  /\ lock = Nobody
  /\ caller = [c \in Callers |-> IdleCaller]
  /\ disk = 1
  /\ calls = 0
  /\ faults = 0
  /\ overlap = FALSE

goes(c, r) == caller' = [caller EXCEPT ![c] = r]
goes_to(c, place) == goes(c, [caller[c] EXCEPT !.at = place])

\* The end of an operation; sync_document_from_disk saves behind the change.
next_of(r) == IF r.op = "sync" THEN [r EXCEPT !.op = "save", !.at = "start"] ELSE IdleCaller
finish(c) == goes(c, next_of(caller[c]))
fail(c) == goes(c, IdleCaller)

\* A call begins.  sync_document_from_disk reads the document first.
begin_call(c, op) ==
  /\ caller[c].at = "idle"
  /\ calls < MaxCalls
  /\ calls' = calls + 1
  /\ goes(c, [IdleCaller EXCEPT !.op = op, !.text = disk,
              !.at = IF op \in {"shutdown", "diagnostics"} THEN op ELSE "start"])
  /\ overlap' = (overlap \/ BusyCallers # {})
  /\ UNCHANGED <<clients, current, lock, disk, faults>>

\* Mutant: the map is looked up without waiting for who is connecting.
free_at_once(c) == TRUE

free(c) == lock = Nobody

\* client_for_path: the lock of the map is held until a new client has
\* initialized its server.
client_for_path(c) ==
  /\ caller[c].at = "start"
  /\ free(c)
  /\ \/ /\ current # 0
        /\ goes(c, [caller[c] EXCEPT !.at = "got", !.k = current])
        /\ UNCHANGED <<clients, lock>>
     \/ /\ current = 0
        /\ Len(clients) < MaxClients
        /\ clients' = Append(clients, connected)
        /\ lock' = c
        /\ goes(c, [caller[c] EXCEPT !.at = "initialize", !.k = Len(clients) + 1, !.id = 1])
  /\ UNCHANGED <<current, disk, calls, faults, overlap>>

\* The server could not be started; the caller has the error.
spawn_fails(c) ==
  /\ caller[c].at = "start"
  /\ free(c)
  /\ current = 0
  /\ faults < MaxFaults
  /\ faults' = faults + 1
  /\ fail(c)
  /\ UNCHANGED <<clients, current, lock, disk, calls, overlap>>

me(c) == clients[caller[c].k]
writable(c) == me(c).child = "up"
sent(c, m) == [clients EXCEPT ![caller[c].k].to_server = Append(@, m)]

\* The answer to initialize: the client enters the map, or is dropped, which
\* closes its end of the pipe and leaves the process alone.
initialized(c) ==
  /\ caller[c].at = "initialize"
  /\ caller[c].reply # "none"
  /\ lock' = Nobody
  /\ IF caller[c].reply = "ok" /\ writable(c)
     THEN /\ clients' = sent(c, [method |-> "initialized", id |-> 0])
          /\ current' = caller[c].k
          /\ goes(c, [caller[c] EXCEPT !.at = "got", !.reply = "none"])
     ELSE /\ clients' = [clients EXCEPT ![caller[c].k].stdin = "closed"]
          /\ fail(c)
          /\ UNCHANGED current
  /\ UNCHANGED <<disk, calls, faults, overlap>>

\* is_document_open, and what each operation does with it.
is_document_open(c) ==
  LET open == me(c).open_documents > 0
      op == caller[c].op
  IN  /\ caller[c].at = "got"
      /\ CASE op = "open" -> goes_to(c, "didOpen")
           [] op = "sync" -> goes_to(c, IF open THEN "version" ELSE "didOpen")
           [] op = "save" -> IF open THEN goes_to(c, "didSave") ELSE finish(c)
           [] op = "close" -> IF open THEN goes_to(c, "didClose") ELSE finish(c)
           [] op = "define" ->
                IF open THEN goes_to(c, "request")
                ELSE goes(c, [caller[c] EXCEPT !.at = "didOpen", !.text = disk])
      /\ UNCHANGED <<clients, current, lock, disk, calls, faults, overlap>>

\* change_document takes the next version under one lock and sends it later.
next_version(c) ==
  LET v == me(c).open_documents + 1
  IN  /\ caller[c].at = "version"
      /\ clients' = [clients EXCEPT ![caller[c].k].open_documents = v]
      /\ goes(c, [caller[c] EXCEPT !.at = "didChange", !.version = v])
      /\ UNCHANGED <<current, lock, disk, calls, faults, overlap>>

\* notify: one message under the lock of the writer; a server that is gone
\* fails the write.
notify(c) ==
  LET r == caller[c]
      m == [method |-> r.at, id |-> 0, text |-> r.text,
            version |-> IF r.at = "didOpen" THEN 1 ELSE r.version]
  IN  /\ r.at \in {"didOpen", "didChange", "didSave", "didClose"}
      /\ IF ~ writable(c) THEN fail(c) /\ UNCHANGED clients
         ELSE /\ clients' = IF r.at \in {"didOpen", "didChange"}
                            THEN [sent(c, m) EXCEPT ![r.k].text = r.text] ELSE sent(c, m)
              /\ CASE r.at = "didOpen" -> goes_to(c, "opened")
                   [] r.at = "didClose" -> goes_to(c, "closed")
                   [] OTHER -> finish(c)
      /\ UNCHANGED <<current, lock, disk, calls, faults, overlap>>

\* The second half of open_document and of close_document.
open_documents(c) ==
  /\ caller[c].at \in {"opened", "closed"}
  /\ clients' = [clients EXCEPT ![caller[c].k].open_documents = IF caller[c].at = "opened" THEN 1 ELSE 0]
  /\ IF caller[c].op = "define" THEN goes_to(c, "request") ELSE finish(c)
  /\ UNCHANGED <<current, lock, disk, calls, faults, overlap>>

\* request: the id is registered before the message is sent, and taken back
\* when it cannot be.
send_request(c) ==
  LET id == me(c).next_request_id
      method == IF caller[c].op = "shutdown" THEN "shutdown" ELSE "definition"
  IN  /\ caller[c].at = "request"
      /\ clients' = [clients EXCEPT
           ![caller[c].k].next_request_id = @ + 1,
           ![caller[c].k].pending = IF writable(c) THEN @ \cup {id} ELSE @,
           ![caller[c].k].to_server = IF writable(c) THEN Append(@, [method |-> method, id |-> id]) ELSE @]
      /\ IF writable(c) THEN goes(c, [caller[c] EXCEPT !.at = "wait", !.id = id])
         ELSE IF method = "shutdown" THEN goes_to(c, "exit") ELSE fail(c)
      /\ UNCHANGED <<current, lock, disk, calls, faults, overlap>>

receive(c) ==
  /\ caller[c].at = "wait"
  /\ caller[c].reply # "none"
  /\ IF caller[c].op = "shutdown" THEN goes_to(c, "exit") ELSE finish(c)
  /\ UNCHANGED <<clients, current, lock, disk, calls, faults, overlap>>

\* LspManager::shutdown empties the map first and then ends each client.
shutdown(c) ==
  /\ caller[c].at = "shutdown"
  /\ free(c)
  /\ current' = 0
  /\ IF current = 0 THEN finish(c) /\ UNCHANGED clients
     ELSE /\ goes(c, [caller[c] EXCEPT !.at = "request", !.k = current])
          /\ clients' = [clients EXCEPT ![current].exiting = TRUE]
  /\ UNCHANGED <<lock, disk, calls, faults, overlap>>

\* exit is sent if it can be, and the process is killed whether or not.
kill_server(c) ==
  /\ caller[c].at = "exit"
  /\ clients' = [clients EXCEPT ![caller[c].k].child = "dead", ![caller[c].k].to_server = <<>>]
  /\ finish(c)
  /\ UNCHANGED <<current, lock, disk, calls, faults, overlap>>

\* diagnostics_snapshot is a copy of what the reader has stored.
collect_workspace_diagnostics(c) ==
  /\ caller[c].at = "diagnostics"
  /\ free(c)
  /\ finish(c)
  /\ UNCHANGED <<clients, current, lock, disk, calls, faults, overlap>>

\* spawn_reader.  A response goes to the caller its id is registered for; a
\* message that cannot be read ends the reader and fails the requests it
\* knows of; the end of the output ends it alone.
delivered(k, ids, result) ==
  caller' = [c \in Callers |->
    IF caller[c].k = k /\ caller[c].at \in {"wait", "initialize"} /\ caller[c].id \in ids
    THEN [caller[c] EXCEPT !.reply = result] ELSE caller[c]]

reader(k) ==
  LET client == clients[k]
      m == Head(client.to_client)
      rest == [client EXCEPT !.to_client = Tail(@)]
  IN  /\ client.reader = "on"
      /\ \/ /\ client.to_client # <<>>
            /\ CASE m.method = "response" ->
                      /\ clients' = [clients EXCEPT ![k] = [rest EXCEPT !.pending = @ \ {m.id}]]
                      /\ delivered(k, client.pending \cap {m.id}, m.result)
                 [] m.method = "publishDiagnostics" ->
                      /\ clients' = [clients EXCEPT ![k] = [rest EXCEPT !.diagnostics = m.text]]
                      /\ UNCHANGED caller
                 [] m.method = "garbage" ->
                      /\ clients' = [clients EXCEPT ![k] = [rest EXCEPT !.reader = "error", !.pending = {}]]
                      /\ delivered(k, client.pending, "error")
         \/ /\ client.to_client = <<>>
            /\ client.child = "dead"
            /\ clients' = [clients EXCEPT ![k].reader = "eof"]
            /\ UNCHANGED caller
      /\ UNCHANGED <<current, lock, disk, calls, faults, overlap>>

(***************************************************************************)
(* The server, and the world around it.                                    *)
(***************************************************************************)
\* What a server knows of the document once it has read a message.
told(view, m) ==
  CASE m.method = "didOpen" -> [view EXCEPT !.version = m.version, !.text = m.text]
    [] m.method = "didChange" ->
         [version |-> m.version, text |-> m.text,
          wrong |-> view.wrong \/ view.version = 0 \/ m.version <= view.version]
    [] m.method = "didClose" -> [view EXCEPT !.version = 0, !.wrong = @ \/ view.version = 0]
    [] OTHER -> view

Response(m, result) == [method |-> "response", id |-> m.id, result |-> result]
server_answers(k) ==
  LET m == Head(clients[k].to_server)
      read == [clients[k] EXCEPT !.to_server = Tail(@), !.view = told(@, m)]
  IN  /\ clients[k].child = "up"
      /\ clients[k].to_server # <<>>
      /\ \E result \in IF m.method = "initialize" THEN {"ok", "error"} ELSE {"ok"} :
           clients' = [clients EXCEPT ![k] =
             IF m.id # 0 THEN [read EXCEPT !.to_client = Append(@, Response(m, result))]
             ELSE IF m.method \in {"didOpen", "didChange"}
             THEN [read EXCEPT !.to_client = Append(@, [method |-> "publishDiagnostics", text |-> m.text])]
             ELSE read]
      /\ UNCHANGED <<current, lock, caller, disk, calls, faults, overlap>>

server_fails(k) ==
  /\ clients[k].child = "up"
  /\ faults < MaxFaults
  /\ faults' = faults + 1
  /\ \/ clients' = [clients EXCEPT ![k].child = "dead", ![k].to_server = <<>>]
     \/ clients' = [clients EXCEPT ![k].to_client = Append(@, [method |-> "garbage"])]
  /\ UNCHANGED <<current, lock, caller, disk, calls, overlap>>

edit ==
  /\ disk < MaxCalls
  /\ disk' = disk + 1
  /\ UNCHANGED <<clients, current, lock, caller, calls, faults, overlap>>

LspNext ==
  \/ \E c \in Callers :
       \/ \E op \in Operations : begin_call(c, op)
       \/ client_for_path(c)
       \/ spawn_fails(c)
       \/ initialized(c)
       \/ is_document_open(c)
       \/ next_version(c)
       \/ notify(c)
       \/ open_documents(c)
       \/ send_request(c)
       \/ receive(c)
       \/ shutdown(c)
       \/ kill_server(c)
       \/ collect_workspace_diagnostics(c)
  \/ \E k \in DOMAIN clients : reader(k) \/ server_answers(k) \/ server_fails(k)
  \/ edit

LspSpec == LspInit /\ [][LspNext]_lspVars
-------------------------------------------------------------------------------
(***************************************************************************)
(* One server: a client outside the map is initializing, being shut down   *)
(* or was refused by its server, however the calls interleave, so that no  *)
(* two servers work on the same files and none is forgotten.               *)
(***************************************************************************)
OneServer ==
  \A k \in DOMAIN clients : clients[k].child = "up" /\ k # current =>
    \/ clients[k].stdin = "closed"
    \/ lock # Nobody /\ caller[lock].k = k
    \/ clients[k].exiting /\ \E c \in Callers : caller[c].op = "shutdown" /\ caller[c].k = k

(***************************************************************************)
(* No answer is lost: who waits for one has its request on the way, or the *)
(* answer on the way back, unless the reader of that server has ended.     *)
(***************************************************************************)
Carries(pipe, id) == \E i \in DOMAIN pipe : pipe[i].method # "garbage" /\
                       pipe[i].method # "publishDiagnostics" /\ pipe[i].id = id
WaitIsJustified ==
  \A c \in Callers : caller[c].at \in {"wait", "initialize"} /\ caller[c].reply = "none" =>
    LET client == me(c) IN
    \/ client.reader # "on"
    \/ client.child = "dead"
    \/ caller[c].id \in client.pending /\
       (Carries(client.to_server, caller[c].id) \/ Carries(client.to_client, caller[c].id))

(***************************************************************************)
(* As long as calls do not overlap, the server follows the document: it is *)
(* told of changes to open documents only, in the order of their versions, *)
(* and once it has read everything it has the text and the version that    *)
(* the client believes it has.                                             *)
(***************************************************************************)
ServerFollows ==
  ~ overlap =>
    \A k \in DOMAIN clients :
      LET view == clients[k].view
      IN  /\ ~ view.wrong
          /\ BusyCallers = {} /\ clients[k].child = "up" /\ clients[k].to_server = <<>> =>
               /\ view.version = clients[k].open_documents
               /\ view.version > 0 => view.text = clients[k].text

LspSound == OneServer /\ WaitIsJustified /\ ServerFollows
=============================================================================
