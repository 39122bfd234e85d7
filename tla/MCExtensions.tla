---------------------------- MODULE MCExtensions ----------------------------
(***************************************************************************)
(* The parts of Extensions for TLC, and three more, whose definitions      *)
(* recurse over data or whose answers only a run can enumerate: the        *)
(* streams of the model providers, the session file and compaction.        *)
(***************************************************************************)
EXTENDS Extensions, ProviderStream, SessionFile, CompactSummary, TLC

MCInit ==
  /\ part \in {"gate", "mcp", "stream", "auth", "repl", "git", "plugins", "manifest", "skills",
               "lookup", "session", "summary"}
  /\ PartsInit
  /\ IF part = "stream" THEN StreamInit
     ELSE /\ dialect = Unused /\ said = Unused /\ wire = Unused /\ link = Unused /\ buffer = Unused /\ st = Unused
          /\ con = Unused /\ result = Unused
  /\ IF part = "session" THEN SessionInit
     ELSE /\ memory = Unused /\ file = Unused /\ writing = Unused /\ saved = Unused /\ loaded = Unused /\ faults = Unused
  /\ IF part = "summary" THEN CompactInit
     ELSE /\ messages = Unused /\ telemetry = Unused /\ tracker = Unused /\ pushed = Unused /\ spent = Unused
          /\ legacy = Unused /\ noted = Unused /\ last = Unused

MCNext ==
  /\ PartsNext
  /\ IF part = "stream" THEN StreamNext ELSE UNCHANGED streamVars
  /\ IF part = "session" THEN SessionNext ELSE UNCHANGED sessionVars
  /\ IF part = "summary" THEN CompactNext ELSE UNCHANGED compactVars

(***************************************************************************)
(* The values of the constants.  First the gate: plugins whose tools clash *)
(* or not, --allowedTools lists, and command lines of one or two segments. *)
(***************************************************************************)
SomePlugins == {<<>>, <<"deploy">>, <<"deploy", "read">>, <<"deploy", "deploy">>, <<"bash">>,
                <<"BrowserObserve">>}
SomeTokens == {{}, {"read"}, {"bash", "write"}, {"BrowserInteract", "MCP"}, {"nonsense"}, {"deploy"}}
Segment(sudo, name, arg) == [sudo |-> sudo, name |-> name, arg |-> arg]
Plain(name) == Segment(FALSE, name, "")
Tricky == {Segment(FALSE, "sed", "-i"), Segment(FALSE, "rm", "-rf all"), Segment(TRUE, "ls", ""),
           Segment(FALSE, "git", "log"), Segment(FALSE, "git", "push"), Segment(FALSE, "git", "none"),
           Plain("ls"), Plain("apt"), Plain("cargo")}
OneWord == {Plain(n) : n \in READ_ONLY_COMMANDS \cup WORKSPACE_WRITE_MACHINE_COMMANDS
                             \cup {"cargo", "rm", "frobnicate"}}
SomeCommands ==
  {[segments |-> <<>>, redirect |-> "none"]}
  \cup [segments : {<<s>> : s \in OneWord} \cup {<<s, t>> : s, t \in Tricky}, redirect : {"none"}]
  \cup [segments : {<<s>> : s \in Tricky}, redirect : {"file", "device", "quoted"}]

\* Two stdio servers, and one of a kind that the bridge does not support.
ServerOrder == <<"s1", "s2">>
Transports == [s \in Servers |-> IF s = "s3" THEN "http+oauth" ELSE "stdio"]
Unchanged == [s \in Servers |-> s]

\* Manifests: every flaw that the validation knows, and tools that clash.
Sound == [named |-> TRUE, permissions |-> <<"read">>, hooks |-> <<"inside">>, tools |-> <<>>,
          commands |-> <<>>]
Tool(n, c, s, p) == [name |-> n, command |-> c, schema |-> s, permission |-> p]
SomeTools == {Tool("a", "inside", TRUE, TRUE), Tool("a", "bare", TRUE, TRUE), Tool("b", "inside", TRUE, FALSE),
              Tool("b", "inside", FALSE, TRUE), Tool("", "inside", TRUE, TRUE)}
             \cup {Tool("b", e, TRUE, TRUE) : e \in Entries}
Manifests ==
  {Sound, [Sound EXCEPT !.named = FALSE]}
  \cup {[Sound EXCEPT !.hooks = <<"bare", e>>] : e \in Entries}
  \cup {[Sound EXCEPT !.permissions = <<p, q>>] : p, q \in {"read", "blank", "unknown"}}
  \cup {[Sound EXCEPT !.tools = <<t>>] : t \in SomeTools}
  \cup {[Sound EXCEPT !.tools = <<t, u>>] : t, u \in SomeTools}
  \cup {[Sound EXCEPT !.commands = <<t, u>>] : t, u \in SomeTools}

\* Skills: one version, a history of which part is too new, a bad package.
Offered(v, m, p) == [version |-> v, minimum |-> m, fields |-> "complete", package |-> p,
                     placement |-> "standard"]
SomeOffers == {[s \in Skills |-> {Offered(1, 0, "sound")}],
               [s \in Skills |-> {Offered(1, 0, "sound"), Offered(2, 1, "sound"), Offered(3, 2, "sound")}],
               [s \in Skills |-> {Offered(2, 0, "altered")}]}

\* Sessions: each kind of block, with texts that JSON has to escape; and
\* files of other programs, some of them no session.
Of(type, fields) == [type |-> <<type>>] @@ fields
Tokens(n) == [k \in UsageKeys |-> n]
SomeMessages ==
  {[role |-> <<"user">>,
    blocks |-> <<Of("text", [text |-> <<Backslash, Quote, "x">>]),
                 Of("user_input_response", [request_id |-> <<"q">>, content |-> <<>>, selected_option |-> <<"yes">>]),
                 Of("user_input_response", [request_id |-> <<"q">>, content |-> <<",">>])>>],
   [role |-> <<"assistant">>, usage |-> Tokens(12),
    blocks |-> <<Of("tool_use", [id |-> <<"c1">>, name |-> <<"bash">>, input |-> <<"{", Quote, "}">>]),
                 Of("user_input_request", [request_id |-> <<"q">>, prompt |-> <<Newline, "]">>,
                                           options |-> <<<<"yes">>, <<>>>>, allow_freeform |-> TRUE])>>],
   [role |-> <<"tool">>,
    blocks |-> <<Of("tool_result", [tool_use_id |-> <<"c1">>, tool_name |-> <<"bash">>,
                                    output |-> <<Control, "}", Backslash>>, is_error |-> FALSE])>>]}
SomeTelemetry == {[compacted_usage |-> Tokens(3), compacted_turns |-> 2,
                   accounting_status |-> <<"partial_legacy_compaction">>]}
Object(r) == Obj([k \in {<<x>> : x \in DOMAIN r} |-> r[k[1]]])
Message(r) == [messages |-> Arr(<<Object(r)>>)]
Minimal == [version |-> Num(1), messages |-> Arr(<<>>)]
SomeFiles ==
  {Arr(<<>>)} \cup
  {Object(r @@ Minimal) : r \in {
     <<>>, [telemetry |-> Object([compacted_turns |-> Num(4)])],
     [telemetry |-> Object([accounting_status |-> Str(<<"other">>)])], [version |-> Num(-1)],
     Message([role |-> Str(<<"user">>), blocks |-> Arr(<<Object([type |-> Str(<<"text">>), text |-> Str(<<"x">>), id |-> Num(7)])>>)]),
     Message([role |-> Str(<<"owner">>), blocks |-> Arr(<<>>)]),
     Message([role |-> Str(<<"user">>), blocks |-> Arr(<<>>), usage |-> Null])}}

\* Conversations to compact: texts with blank lines, with the tags and the
\* words that the summary looks for, and the block kinds it shows.
Turns == {message("user", <<text_block(<<Raw("u2"), Blank, Raw("todo")>>)>>, None),
          message("user", <<[type |-> "response", text |-> <<Raw("a.rs"), Close>>, tool |-> ""]>>, None),
          message("assistant", <<text_block(<<Raw("next")>>),
                                 [type |-> "tool_use", text |-> <<Raw("b.rs")>>, tool |-> "tool"]>>, 9),
          message("tool", <<[type |-> "tool_result", text |-> <<Raw("out"), Blank>>, tool |-> "tool"]>>, None)}
KeyFiles == <<"a.rs", "b.rs">>
SomeConfigs == {[preserve |-> 0, max |-> 0], [preserve |-> 1, max |-> 6]}
-----------------------------------------------------------------------------
(***************************************************************************)
(* Properties of the parts that only TLC checks; those of the others are   *)
(* in Extensions.                                                          *)
(***************************************************************************)

\* A streamed answer reaches the session call by call with its own arguments,
\* however it was cut into reads, and is asked for twice only when it brought
\* nothing; a session file is read back whole or refused, whatever its texts
\* contain and wherever a write ended; and compaction keeps the usage, its own
\* summary and the user's requests, again and again.
SessionsSound == /\ part = "stream" => AnswerFaithful
                 /\ part = "session" => SessionSound
                 /\ part = "summary" => CompactSound
=============================================================================
