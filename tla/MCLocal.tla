------------------------------- MODULE MCLocal -------------------------------
(***************************************************************************)
(* The conversation loop, the tools that act on the machine and the ways a *)
(* user starts and sets up the program, for TLC.  The parts share no       *)
(* state: the variable part says which one a behaviour is of, and the      *)
(* variables of the others are Unused.                                     *)
(***************************************************************************)
EXTENDS Conversation, WorkspaceFiles, BashRun, LocalTools, BrowserTools, AgentSessions, LspClient,
        CliArgs, LineEditor, ServerInstall, Onboarding, ConfigFiles, TLC

VARIABLE part
Unused == "unused"

MCInit ==
  /\ part \in {"turns", "files", "bash", "tools", "browser", "agents", "lsp", "args", "editor",
               "install", "onboard", "config"}
  /\ IF part = "turns" THEN Init
     ELSE /\ messages = Unused /\ compacted_turns = Unused /\ turns = Unused /\ pc = Unused
          /\ block = Unused /\ iterations = Unused /\ responder = Unused /\ result = Unused
          /\ next_id = Unused /\ executed = Unused
  /\ IF part = "files" THEN FilesInit
     ELSE contents = Unused /\ link = Unused /\ worker = Unused /\ pager = Unused
  /\ IF part = "bash" THEN BashInit ELSE bash = Unused /\ process = Unused
  /\ IF part = "tools" THEN LocalInit
     ELSE /\ subject = Unused /\ file = Unused /\ progress = Unused /\ given = Unused /\ held = Unused
          /\ edit_count = Unused /\ deleted = Unused /\ edits_overlap = Unused /\ proc = Unused
          /\ query = Unused /\ answer = Unused
  /\ IF part = "browser" THEN BrowserInit
     ELSE /\ input = Unused /\ phase = Unused /\ child = Unused /\ dir = Unused /\ page = Unused
          /\ asked = Unused /\ inbox = Unused /\ request_id = Unused /\ waiting = Unused
          /\ polls = Unused /\ noise = Unused /\ clicks = Unused /\ report = Unused
  /\ IF part = "agents" THEN AgentsInit
     ELSE /\ scope = Unused /\ manifest = Unused /\ output = Unused /\ job = Unused
          /\ changed = Unused /\ botched = Unused /\ saved = Unused /\ process_killed = Unused
          /\ located = Unused /\ thread = Unused /\ stopped = Unused /\ op = Unused /\ late = Unused
          /\ own = Unused /\ replied = Unused
  /\ IF part = "lsp" THEN LspInit
     ELSE /\ clients = Unused /\ current = Unused /\ lock = Unused /\ caller = Unused /\ disk = Unused
          /\ calls = Unused /\ faults = Unused /\ overlap = Unused
  /\ IF part = "args" THEN ArgsInit ELSE argv = Unused /\ scan = Unused /\ action = Unused
  /\ IF part = "editor" THEN EditorInit
     ELSE /\ s = Unused /\ yank_buffer = Unused /\ vim_enabled = Unused /\ completion = Unused
          /\ outcome = Unused /\ draft = Unused /\ cut = Unused
  /\ IF part = "install" THEN InstallInit
     ELSE /\ platform = Unused /\ bundle = Unused /\ install = Unused /\ overlapped = Unused
          /\ begun = Unused
  /\ IF part = "onboard" THEN OnboardInit
     ELSE /\ scene = Unused /\ world = Unused /\ repo = Unused /\ stage = Unused /\ override = Unused
          /\ assessment = Unused /\ lines = Unused /\ verdict = Unused /\ changes = Unused
          /\ original = Unused /\ added = Unused /\ unseen = Unused /\ markers = Unused
          /\ daemon = Unused
  /\ IF part = "config" THEN ConfigInit
     ELSE /\ files = Unused /\ load = Unused /\ writer_pc = Unused /\ request = Unused
          /\ document = Unused /\ sets = Unused /\ answered = Unused /\ loadable = Unused
          /\ raced = Unused

MCNext ==
  /\ UNCHANGED part
  /\ IF part = "turns" THEN Next ELSE UNCHANGED vars
  /\ IF part = "files" THEN FilesNext ELSE UNCHANGED filesVars
  /\ IF part = "bash" THEN BashNext ELSE UNCHANGED bashVars
  /\ IF part = "tools" THEN LocalNext ELSE UNCHANGED toolsVars
  /\ IF part = "browser" THEN BrowserNext ELSE UNCHANGED browserVars
  /\ IF part = "agents" THEN AgentsNext ELSE UNCHANGED agentVars
  /\ IF part = "lsp" THEN LspNext ELSE UNCHANGED lspVars
  /\ IF part = "args" THEN ArgsNext ELSE UNCHANGED argsVars
  /\ IF part = "editor" THEN EditorNext ELSE UNCHANGED editorVars
  /\ IF part = "install" THEN InstallNext ELSE UNCHANGED installVars
  /\ IF part = "onboard" THEN OnboardNext ELSE UNCHANGED onboardVars
  /\ IF part = "config" THEN ConfigNext ELSE UNCHANGED configVars

MCSpec == MCInit /\ [][MCNext]_<<part, vars, filesVars, bashVars, toolsVars, browserVars, agentVars,
                                 lspVars, argsVars, editorVars, installVars, onboardVars, configVars>>

(***************************************************************************)
(* The values of the constants.                                            *)
(***************************************************************************)
SomeListings == {<<1, 2>>}

\* Browser calls: one thing wrong at a time, and every wait with a good page.
SomeInputs == {i \in AllInputs :
  /\ i.tool = "observe" => i.action = "click"
  /\ i.url # "http" \/ i.action # "click" => i.wait = "none" /\ i.timeout = "none"
  /\ i.timeout \in {"zero", "over"} \/ i.viewport = "bad" \/ i.shot => i.wait = "none"
  /\ i.timeout = "some" => i.wait \in {"load", "text"} /\ i.value
  /\ i.shot => i.timeout = "none" /\ i.viewport = "ok"}

\* Two agents side by side; the operations on a thread server; an agent of
\* each type, listed and resumed.
CONSTANTS a1, a2
Scope(agents, types, kinds, locations, polls_, runs) ==
  [agents |-> agents, types |-> types, kinds |-> kinds, locations |-> locations, polls |-> polls_,
   runs |-> runs]
SomeScopes ==
  {Scope({a1, a2}, {"explorer", "custom"}, {}, {"none"}, 0, 0),
   Scope({a1}, {}, {"thread", "all"}, {"url", "none", "torn", "remote"}, 1, 3),
   Scope({a1}, {"explorer", "guide", "custom"}, {"agent_run", "managed_session", "all"}, {"none"}, 1, 0)}

\* Command lines: up to three words of all, the words behind --resume, the
\* server commands, and the options of a profile.
AnyWords == {"--version", "--model", "--output-format", "json", "--permission-mode", "read-only",
             "danger-full-access", "--dangerously-skip-permissions", "--tool-profile", "safe", "-p",
             "--print", "--allowedTools", "bash", "grep", "--help", "prompt", "hi", "login", "server",
             "doctor", "/agents"}
ResumeWords == {"s", "/export", "/path", "/status", "x"}
ServerWords == {"server", "start", "status", "install", "--bind", "--detach", "addr", "--help"}
ProfileWords == {"--permission-mode", "danger-full-access", "read-only", "--allowedTools", "grep",
                 "bash", "hi"}
SomeLines == SeqOf(AnyWords, 3) \cup {<<"--resume">> \o t : t \in SeqOf(ResumeWords, 5)}
             \cup {<<"server">> \o t : t \in SeqOf(ServerWords, 4)}
             \cup {<<"--tool-profile", "safe">> \o t : t \in SeqOf(ProfileWords, 4)}
SomeNeeds == [bash |-> "danger-full-access", grep |-> "read-only", edit |-> "workspace-write"]
SomeProfiles == [safe |-> [mode |-> "read-only", tools |-> {"grep"}],
                 broken |-> [mode |-> "read-only", tools |-> {"bash"}]]

\* A line of a wide character and a newline in the history; "//" is /vim.
SomeHistory == <<<<"/">>, <<Wide, Rest, NL>>>>
SomeCompletions == <<<<"/", "/">>, <<"/", "/", "/">>>>
SlashVim == <<"/", "/">>

\* Workspaces before init, homes with every kind of credentials, and homes
\* whose settings cannot be parsed.
LinesOf(l) == [is |-> "file", lines |-> l]
Workspace(j, m, g) == [dir |-> "absent", json |-> j, md |-> m, ignore |-> g]
Ready(d) == [dir |-> d, json |-> "file", md |-> "file", ignore |-> LinesOf(IgnoreEntries)]
World(u, p, c, o, sv, a, x) ==
  [user |-> u, project |-> p, config |-> c, oauth |-> o, saved |-> sv, anthropic |-> a, xai |-> x]
SomeOnboardings ==
  {[world |-> World(Unset, Unset, "ok", "complete", "missing", Unset, Unset), repo |-> Workspace(j, m, g)] :
     j \in {"absent", "file", "dir"}, m \in {"absent", "dir"},
     g \in {[is |-> "absent", lines |-> <<>>], [is |-> "unreadable", lines |-> <<>>], LinesOf(<<"a">>),
            LinesOf(<<"a", IgnoreEntries[2]>>),
            LinesOf(<<Comment, IgnoreEntries[1], IgnoreEntries[2], "a">>)}}
  \cup {[world |-> World(u, p, "ok", o, sv, a, x), repo |-> Ready("dir")] :
     u \in {Unset, "opus"}, p \in {Unset, "grok"}, o \in {"absent", "partial", "complete"}, sv \in Saved,
     a \in Keys, x \in Keys}
  \cup {[world |-> World(u, Unset, "broken", "complete", "ready", a, Unset), repo |-> Ready(d)] :
     u \in {"opus", "unparsable"}, a \in Keys, d \in {"dir", "file"}}

\* Settings files: documents about the same settings in all five files.
With(k, v) == Obj(k :> v)
Stdio == With("command", Str("c"))
ModeDocs == {Absent, With("permissionMode", Str("read-only")),
             With("permissions", With("defaultMode", Str("dontAsk"))),
             With("permissions", Obj([allow |-> Str("a"), defaultMode |-> Str("plan")])),
             With("permissions", Str("x"))}
SectionDocs == {Empty, With("oauth", With("clientId", Str("c"))),
                With("oauth", Obj([authorizeUrl |-> Str("a"), tokenUrl |-> Str("t"), scopes |-> Arr(<<Str("s")>>)])),
                With("sandbox", With("enabled", Bool(TRUE))), With("sandbox", With("filesystemMode", Str("bogus")))}
ServerDocs == {Absent, With("mcpServers", With("a", Stdio)),
               With("mcpServers", With("a", Obj([type |-> Str("http"), url |-> Str("u"),
                                                 oauth |-> With("callbackPort", Num(1))]))),
               With("mcpServers", Obj([a |-> Obj([type |-> Str("ws"), url |-> Str("u")]), b |-> Stdio])),
               With("mcpServers", With("b", Obj([type |-> Str("sdk"), name |-> Str("n")])))}
PluginDocs == {Absent} \cup {With("plugins", With("installRoot", Str(p))) :
                               p \in {"x", "../up", "/home/x", "gone/../sub"}}
DiscoveryDocs == {Absent} \cup {With("plugins", Obj([externalDirectories |-> Arr(<<Str(p)>>),
                                                     enabled |-> With("q", Bool(TRUE))])) :
                                  p \in {"sub", "./sub", "link", "/else/x"}}
BrowserDocs == {Absent, With("enabledPlugins", With("q", Bool(FALSE)))}
               \cup {With("browserControl", With("artifactsDir", Str(p))) : p \in {"", "sub", "link", "gone/../sub"}}
ProfileDocs == {Absent, With("toolProfiles", With("p", Obj([permissionMode |-> Str("plan"), allowedTools |-> Arr(<<Str("r")>>)]))),
                With("toolProfiles", With("p", With("permissionMode", Str("auto")))),
                With("toolProfiles", With("p", With("bashPolicy", With("sandbox", EmptyObject)))),
                Obj([hooks |-> With("PreToolUse", Arr(<<Str("h")>>)), skills |-> With("registryPath", Str("r"))])}
\* The legacy files are absent, unparsable or like the others.
Mixed(docs) == {f \in [Entries -> docs \cup {Absent, Unparsable}] :
  f[1] \in {Absent, Unparsable} /\ f[3] \in {Absent, f[5]} /\ f[2] # Unparsable /\ f[4] # Unparsable}
Written(g, l) == [e \in Entries |-> IF e = Global THEN g ELSE IF e = Local THEN l ELSE Absent]
SomeSettings ==
  {[files |-> f, sets |-> 0] : f \in UNION {Mixed(d) : d \in
      {ModeDocs, SectionDocs, ServerDocs, PluginDocs, DiscoveryDocs, BrowserDocs, ProfileDocs}}}
  \cup {[files |-> Written(g, l), sets |-> 2] :
          g \in {Absent, Unparsable, Obj([model |-> Str("m0"), permissionMode |-> Str("plan")])},
          l \in {Absent, With("permissions", Obj([allow |-> Str("a"), defaultMode |-> Str("plan")])),
                 With("permissions", Str("x"))}}
SomeRequests == {[setting |-> "model", value |-> Str("m1")], [setting |-> "model", value |-> Num(5)],
                 [setting |-> "mode", value |-> Str("auto")], [setting |-> "mode", value |-> Str("bypass")],
                 [setting |-> "mode", value |-> Num(1)], [setting |-> "memory", value |-> Str("true")],
                 [setting |-> "memory", value |-> Num(1)], [setting |-> "editor", value |-> Bool(TRUE)],
                 [setting |-> "verbose", value |-> Bool(TRUE)]}
-----------------------------------------------------------------------------
(***************************************************************************)
(* Properties: those of the modules, for the part they are about.          *)
(***************************************************************************)

\* Whenever the model is called all it asked for was answered, and no call is
\* executed twice or out of order, across failed, resumed and compacted turns.
ConversationSound == part = "turns" => TypeOK /\ CallsAnswered /\ ExecutedOnceInOrder

\* A write lands inside the workspace, an edit changes what it was asked to,
\* pages are complete; a bash call runs under the profile's sandbox or says
\* why not, and output means that the process is over.
FilesAndShellSound ==
  /\ part = "files" => WritesStayInside /\ EditsAreLocal /\ PagesComplete
  /\ part = "bash" => ProfileIsCeiling /\ IsolationOrReason /\ OutputMeansExited

\* Notebooks stay well formed through any edits, a command's output is all
\* there, search results pass their filters, and exact tool names rank first;
\* a setting has the value of the last file that sets it, through the Config
\* tool's and the wizard's concurrent and interrupted writes.
LocalToolsSound ==
  /\ part = "tools" => LocalSound
  /\ part = "config" => ConfigSound

\* A browser call clicks once, reports what came after the click, and leaves
\* no browser behind.
BrowserCallsSound == part = "browser" => BrowserSound

\* A sub-agent's record says what happened to it, an end comes with its
\* result, read-only agents change nothing, and a wait follows its own send.
AgentRecordsSound == part = "agents" => AgentsSound

\* One language server at a time, no answer lost, and the server has the
\* document the client believes it has.
LanguageServerSound == part = "lsp" => LspSound

\* Options never widen the tool profile, no word of the command line is lost,
\* and the line editor keeps its cursor between characters and its draft.
CommandLineSound ==
  /\ part = "args" => PolicyWithinProfile /\ ArgumentsKept /\ ResumeWordsKept
  /\ part = "editor" => EditorSound

\* A staged server bundle is usable whenever it is shown as staged; and init,
\* the wizard and the doctor agree with each other.
SetupSound ==
  /\ part = "install" => StagedIsUsable /\ InstalledIsRecognised /\ NotStagedEarly
  /\ part = "onboard" => OnboardSound
=============================================================================
