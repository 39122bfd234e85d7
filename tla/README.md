# openyak: TLA+ models, checks and proofs

openyak is a local coding agent. Its core is a conversation loop (model, tools,
permissions, questions to the user) that runs in a CLI or, per thread, inside a
local *thread server* with an SQLite store and event streams that the Python
and TypeScript SDKs attach to. Around it are tools that act on files, shells,
browsers and sub-agents, clients of model providers, MCP servers and language
servers, plugins, skills, settings, credentials and the commands of the CLI.
This directory holds TLA+ models of these parts, TLC runs on small instances,
and TLAPS proofs for every instance of the thread record and what it delivers,
the thread server, the registries and their tools, the hook runner, the SDK
clients, the operator commands, the conversation loop and the gate in front of
its tools, sub-agents, the file, shell and browser tools, the MCP bridge, the
REPL's sessions, the git commands, plugins and skills.

Contents: inventory, plan, modules and how they correspond to the code, runs
and bounds, fairness, proofs, findings, what is only model-checked, what is not
modelled.

## 1. Inventory

Paths are below `rust/crates/` unless they start with `sdk/`.

| component | state | operations | interacts with | hard part | correct means |
|---|---|---|---|---|---|
| thread record (`server/src/lib.rs`) | status, session, last sequence behind a mutex; row in SQLite | start a turn, submit user input, append a legacy message, complete a run, emit events | handlers and workers on a multi-threaded runtime, store, two broadcast channels | lock released between steps; base session read before the lock; crash anywhere; upsert fails | one owner per run; accepted input durable; recovery consistent; runs end |
| server state (`AppState`) | map of threads, two counters | create, look up, load all rows | all handlers; store | counters derived from rows after a restart | ids in use never handed out again; acknowledged threads kept |
| event streams | position of each reader, snapshot sequence | subscribe, snapshot, receive | broadcast channels | sequence taken under the lock, sent outside; lag | nothing is dropped in silence; a watcher learns how a run ended |
| thread store (`server/src/state_store.rs`) | one row per thread | upsert, load | SQLite | failing write | row and memory agree or the row restarts as interrupted |
| SDK thread clients (`sdk/python`, `sdk/typescript`) | snapshot, event iterator | run, resume, reconcile | server streams | broken stream, lost answer, resumed run with the same run id | a result is that of the run asked for; every call returns |
| conversation loop (`runtime/src/conversation.rs`) | session, usage tracker | run_turn, resume_pending_turn, compact | model, tools, permission policy, hooks, prompters | early returns in the middle of a message | every call answered; no tool twice; result agrees with session |
| permission policy, enforcer, bash validation (`runtime/src/permissions.rs`, `permission_enforcer.rs`, `bash_validation.rs`) | mode, requirements | authorize, check | prompter, tools | two judges of one call | never above what mode and user allow |
| hook runner (`runtime/src/hooks.rs`, `plugins/src/hooks.rs`) | command list | run hooks of an event | child processes over pipes | parent and child race and block | a denial is honoured; the runner returns |
| session file (`runtime/src/session.rs`, `json.rs`) | messages, telemetry on disk | push, save, load | loop, CLI, server | a write that ends anywhere | a file is read back whole or refused |
| compaction, usage (`runtime/src/compact.rs`, `usage.rs`) | summary message, account | compact, rebuild | session | the summary is parsed and merged again | account, summary and requests survive any number of compactions |
| task, team, cron registries and tools (`runtime/src/task_registry.rs`, `team_cron_registry.rs`, `tools/src/lib.rs`) | three global maps, each with its lock | create, stop, assign, delete, enable, wait ... | tools of all threads of a server | several locks per operation, manual rollback | memberships agree on both sides; answers were true |
| file and shell tools (`runtime/src/file_ops.rs`, `bash.rs`, `sandbox.rs`) | workspace, process | read, write, edit, page, run | enforcer, other programs | a link that moves after it was judged; a sandbox that is not there | writes stay inside; isolation or a reason |
| notebook, to-do, search, REPL tools (`tools/src/lib.rs`) | files, pipes | edit, rank, filter, collect | sub-agents, child processes | two writers; full pipes; timeouts | files stay well formed, output complete |
| browser tools (`tools/src/lib.rs`) | browser process, websocket | observe, click, wait, capture | browser | late answers, timeouts | one click, report from behind it, no process left |
| sub-agents, session tools (`tools/src/lib.rs`) | task file, manifest, saved sessions | spawn, list, send, wait, resume | agent threads, CLI, server | end in two files, death of the process | an end comes with its result; a wait follows its send |
| MCP client (`runtime/src/mcp_stdio.rs`, `mcp_tool_bridge.rs`) | server processes, tool index, registry | spawn, initialise, discover, call, shut down | child processes, several callers | servers that exit or speak unasked | an answer belongs to its call; no process left |
| language server client (`lsp/src`) | pending requests, open documents | connect, open, change, request, shut down | child process, several callers | answers out of order, dead readers | one server; no justified wait is forgotten; server follows |
| provider clients (`api/src`) | SSE buffer, tool-call states, tokens | send, retry, stream, log in, refresh | HTTP, keyring, file | frames cut anywhere, failure half way | calls delivered once; a stored token is loaded |
| plugins, skills (`plugins/src/lib.rs`, `runtime/src/skill_registry.rs`) | registries and directories on disk | install, enable, update, remove, look up | file system, CLI | failure half way, two processes | registry and directory agree; what is listed is what runs |
| settings (`runtime/src/config.rs`) | five files | load, merge, set | CLI, tools, wizard | truncating writes, two writers | last file wins; a write keeps the rest |
| CLI server commands and installation (`openyak-cli/src/main.rs`) | discovery file, processes, install bundle | start, status, stop, recover, install | server process | stale file, reused pid, half a bundle | only the own server is stopped; staged means usable |
| CLI arguments, REPL, line editor (`openyak-cli/src`) | policy, session and its file, text and cursor | parse, turn, switch, resume, edit | terminal, files | several processes, wide characters | policy within profile; turns kept; no panic |
| onboarding, init, doctor (`openyak-cli/src/onboard.rs`, `init.rs`) | workspace files, credentials | assess, init, log in, advise | user, other processes | files that change meanwhile | advice fits what the next run does |
| git commands (`commands/src/lib.rs`) | repository | commit, push, open a PR, branch, worktree | git, gh, editor | failures and edits between steps | local files stay local; a commit is what was described |
| HTTP routing, rendering, prompts, test harnesses, the Python mirror under `src/` | - | - | - | - | - |

The hazards (what a test would hardly reach, each at its line) are listed in
`PROJECT.json` with the properties that watch over them. A hazard's note says
which case a property leaves out because the code does run into it.

## 2. Plan

Order: what other parts rest on and what has the most interleavings comes first.

1. `SessionLog`, `ThreadRecord` (done): one thread with its handlers, workers,
   row, streams, crash and restart; proofs of its inductive invariant and of
   what it delivers to clients that wait for each other.
2. `ThreadLifecycle` (done): what clients may rely on, as an abstract
   specification, and the proof that the record implements it under the
   mapping at the end of `ThreadRecord`.
3. `ThreadServer` (done): id counters and loading; proofs.
4. `ThreadClient` (done): the SDKs' calls over streams that break; proofs.
5. `Conversation`, `HookRunner` and `ToolGate` (done, with proofs): the loop and
   what stands in front of a tool.
6. `WorkRegistries`, `WorkTools` (done): tasks, teams and cron entries under
   separate locks; proofs of the membership invariant, of what the registries
   show and of what the tools answer.
7. `ServerDaemon`, `ServerInstall` (done, with proofs).
8. The tools of one machine: `WorkspaceFiles`, `BashRun`, `BrowserTools`,
   `AgentSessions`, `LspClient` (done, with proofs), `LocalTools` (done,
   checked).
9. What extends the loop: `McpBridge`, `Plugins`, `PluginManifest`,
   `SkillRegistry`, `GitWorkflow`, `ProviderAuth` (done, with proofs),
   `ProviderStream`, `SessionFile`, `CompactSummary` (done, checked).
10. The CLI: `ReplSession`, `CliArgs`, `LineEditor`, `Onboarding` (done, with
    proofs), `ConfigFiles` (done, checked).
11. Left: `LocalToolsSound` and `SessionsSound` are checked by TLC only; the end
    of section 6 says why.

## 3. Modules

| module | models | state | actions |
|---|---|---|---|
| `SessionLog` | `runtime/src/session.rs` as the server sees it | - (operators) | messages, `pending_user_input_request` |
| `ThreadRecord` | `ThreadRecord`, the turn, user-input and append handlers, the worker, both SSE streams, `load_for_cwd` on one row | `ThreadInner` (`status`, `session`, `last_sequence`), `row`, what each handler or worker holds locally, both channels, every reader | one per locked block, broadcast or send, see below |
| `ThreadLifecycle` | the promise: what a snapshot shows now, what it would show after a crash | `up`, `now`, `durable` | `Start`, `Resume`, `Finish`, `Save`, `Stop`, `Restart`; mapped at the end of `ThreadRecord`: `now` is the status, `durable` is what `load_for_cwd` makes of the row |
| `ThreadServer` | `AppState`: threads by number, counters, row-by-row load | `threads`, `store`, counters, load's maxima, requests | `allocate_thread_id`, `resolve_thread_config`, `new_thread`, `insert_thread`, `start_thread_turn`, `start_turn`, `submit_user_input`, `complete_run`, `load_row`, `load_fails`, `load_ends`, `Crash` |
| `Conversation` | `ConversationRuntime`, `PermissionPolicy`, compaction, usage | `messages`, telemetry, tracker, position in the loop | `run_turn`, `resume_pending_turn`, `resolve_pending`, `give_up`, `stream`, `stream_fails`, one per kind of block, `end_of_blocks`, `compact_session` |
| `WorkRegistries` | the three registries, `run_team_create` | `tasks`, `teams`, `crons`, counters; each creation's position | one per registry call; `check_task`, `create_team`, `assign_team`, `unassign_team`, `remove_team` of a creation |
| `ServerDaemon` | the operator commands of the CLI, the discovery file, server processes | `discovery`, processes and their sockets, each command's step and report | one per read, probe, signal, removal and launch of a command; the steps of a server's start; being killed; reuse of a pid |
| `HookRunner` | `run_commands` / `output_with_stdin` of both crates and a child | parent, child, verdict, exit codes so far | `spawn`, `write_all`, `write_all_broken_pipe`, `wait_with_output`, the child's steps |
| `ThreadClient` | `Thread.run()` and `resume_user_input()` of both SDKs | each call's step, stream and result; the thread as clients see it | open the stream, submit and its retries, events of a run, lost streams, snapshots; the server's commits, sends, crash and restart |
| `WorkTools` | the Task, Team and Cron tools | what each caller asked and was told | the tools' registry calls, the two halves of CronEnable and CronDisable, TaskWait's polls |
| `ToolGate` | `GlobalToolRegistry`, `PermissionPolicy` and `PermissionEnforcer` for one call | set-up, attempt | one per judge of a call |
| `WorkspaceFiles` | `file_ops.rs` behind `check_file_write` | files, links, the step of each editor | judge, resolve, read and write as separate steps; links and files that others change |
| `BashRun` | `bash.rs`, `sandbox.rs`, `tool_profile.rs` | options, host, process | submit, spawn, exit, time out |
| `LocalTools` | NotebookEdit, TodoWrite, REPL and PowerShell, WebSearch, ToolSearch | file and editors; pipes; hits | read and write of an edit, the child's output, timeout, filters |
| `BrowserTools` | BrowserObserve, BrowserInteract | call, browser, its queue of messages | validate, launch, connect, request and answer, wait, capture, close; the page's own changes |
| `AgentSessions` | Agent and the Session tools | manifests, task files, saved sessions, threads | spawn, end, append, list, send, wait, resume; kills |
| `McpBridge` | `McpServerManager`, the bridge, server reports | registry, processes and pipes, tool index, lock | spawn, initialise, list, route, call, shut down; replies, notifications, exits |
| `LspClient` | `LspManager`, `LspClient` | clients, pending requests, document, pipes | connect, open, change, close, request, reader task, shutdown; the server's answers and death |
| `ProviderStream` | one streamed answer in both dialects | wire, buffer, chunk state, consumer | reads of any size, frames, chunks, finish, early end |
| `ProviderAuth` | tokens in keyring and files, requests with them | four places, each command's step | login, logout, refresh and their single writes; attempts and back-off |
| `Plugins`, `PluginManifest` | `PluginManager`; manifests | directories, registry, flags; a manifest under validation | one per file operation of install, update, uninstall and sync; validate, resolve, initialise, shut down |
| `SkillRegistry` | managed skills; which file a name means | directories, record, each command's step; a layout | the renames and writes of install, update, uninstall; list, run, warn |
| `SessionFile` | `session.rs`, `json.rs` | session in memory, text on disk | push, compact, save, a write that fails anywhere, exit, load |
| `CompactSummary` | `compact.rs`, `usage.rs` | session, tracker, what was ever used | push, compact, resume |
| `ReplSession` | `LiveCli` | sessions in memory and on disk, modes | turn, `/permissions`, `/plan`, `/resume`, `/session`, `/clear`, kill |
| `GitWorkflow` | git slash commands | work tree, index, branches, remote, PR | one per git or gh process; the user's edits |
| `CliArgs` | `parse_args`, the execution policy | words, position, action | options with a value, switches, a prompt, the dispatch of subcommands, the policy |
| `LineEditor` | `input.rs` | text, cursor, mode, history, completions | one per key in each mode, followed by the redraw |
| `ConfigFiles` | `config.rs`, the Config tool | five files, readers and writers | read, merge, truncate, write |
| `Onboarding` | wizard, init, doctor | workspace, home, wizard's step | one per question and file |
| `ServerInstall` | install bundles and their inspection | files of a bundle, installs | one per file; inspection |

The operators keep the names of the functions they model. A behaviour of
`MCExtensions`, `MCLocal` or `MCWaits` is of one part, named by the variable
`part` (those of `MCExtensions` that are proved about are put together in
`Extensions`): the parts share no state, so nothing is lost by exploring them
beside each other rather than in a product, and the variables of the other parts
do not change (in the two larger modules they have the value `Unused`). In
`MCRegistries` `through_tools` says whether the registries are called directly,
by everything that may call them, or through the tools with what their callers
are told; `WorkTools` runs on the variables of `WorkRegistries`. `ThreadClient`
has a server of its own, reduced to what `ThreadRecord` lets its clients see.

### ThreadRecord in detail

A request is served once and the worker it spawns carries its name, so that
`pc[r]` follows a request from the handler to the last event of its run:

`new` → (`start_thread_turn` / `submit_thread_user_input`: clone the base
session, before the lock) → `begun` → (`start_turn` / `submit_user_input`: the
locked block with its upsert, or a refusal) → `accepted` → (legacy broadcast) →
`announcing` → (first event stamped) → `working` → (`complete_run`: the worker's
whole `execute_run` and the locked block, since the former touches nothing
shared) → `legacy` → `replay` / `blocks` (`emit_protocol_replay`) → terminal
event → `done`.

`stamp` and `send` are separate steps because `emit_protocol_event` takes the
sequence under the lock and sends after it. A stream subscribes, takes its
snapshot and receives in separate steps; a receiver more than `Capacity` sends
behind is told that it lagged. `Crash` drops everything but the row;
`load_for_cwd` brings the thread back, `load_fails` is a start that could not
write a recovered status back. What a run may produce is a set
(`execute_run`): a failed bootstrap, tool rounds, text, a failing stream, one
question. `Serial = TRUE` describes a client that waits for the last event of a
request before it sends another one; the runs say where it is assumed.

Reduced: timestamps, models, working directories and permission modes of a
thread do not influence the transitions and are left out. The events of one
recorded batch are one event. A run asks at most one question per message (more
are the subject of `Conversation`). Run ids are numbers; `saturating_add` does
not saturate below 2^64 requests.

### Conversation in detail

One step per place where model, tool or user answer. The blocks of an assistant
message are `[type, id]`; a tool type stands for a tool with that required mode.
`resolve_user_input_request` answers with the prompter of the turn (none, the
CLI's, which the user may cancel, or the server's, which has one reply) or
returns with the question pending. `compact_session` is the CLI's `/compact`,
after which the runtime, and with it the usage tracker, is rebuilt from the
session; whether the token estimate reaches the threshold is left open.

### HookRunner in detail

`BrokenPipeTolerated` is the one difference between the two crates. The child is
external: it may fail to start, ignore its input, write more than a pipe holds
before it reads, and exit with any of four kinds of status.

### WorkRegistries in detail

A registry call holds the lock of its registry from beginning to end and is one
step. Creating a team is not: it checks each task, creates the team, assigns
each task and, when one was taken meanwhile, unassigns those it had and removes
the team. Names, prompts, timestamps and outputs are left out; of an entry
remain what lists show (status, lifecycle with its guidance, whether there is a
last error) and who belongs to whom. `set_status` and `record_failure` have no
caller in the product yet and are modelled as calls a worker may make;
`TaskRegistry::remove` is called by tests only and is left out. Reading tools
(get, list, output, wait) change nothing.

### ServerDaemon in detail

`inspect_thread_server_status_for` is three steps, because file, socket and
process can change between them: `read_thread_server_info`, `probe`,
`validate_identity`; `goal` says where its report is used. `fs::write` is
truncation and writing; a file removed in between is written in vain, and two
writers may leave a mixture. A `"fixed"` bind is one address that servers use
one after the other, the `"default"` bind gets a port of its own. A server dies
of a signal without running its guard, since it has no handler; the guard runs
when its first line of output cannot be written. An identity request may time
out at any time; a connection to a listening loopback socket is taken to
succeed. The system does not hand out a pid while its parent has not waited for
it, or in the moment between the identity check of a stop and its signal.
`recover` does not know in the model whether the store has threads. Left out:
the text of the reports, install bundles, the capability report, and the refusal
to stop the own process (the validated pid belongs to a server).
`ServersReachable` and `LiveRecordKept` are stated under `Undisturbed`: commands
run one at a time and nobody runs a server by hand. Two starts at once launch
two servers of which the record names one, and a removal that has compared the
pid may take the record a server has just written; the code has no lock
against either.

### ThreadClient in detail

A call attaches to the event stream, submits, and follows events with the run
id it was given; a stream that ends, lags or cannot be attached sends it to the
snapshot. The server commits a run's state before it sends its events and drops
all streams when it crashes. The TypeScript client may repeat a submission
whose answer was lost, so that a turn may be started twice or be refused as a
conflict with itself. `OwnTextWhenAlone` holds for one writer: with two, a
snapshot read after a lost stream shows the last text of the thread, whoever
asked for it.

### Tools of one machine in detail

- `WorkspaceFiles`: a path is a chain of directories and links; what is judged
  is its spelling, what is written is where it leads at that moment.
  `WritesStayInside` leaves out a path through a directory link that did not
  exist when it was judged or was moved since.
- `BashRun`: the profile's policy, the options of the call and whether the
  machine has `unshare` decide what confines the process; an answer that gave
  up on its timeout leaves the process running.
- `LocalTools`: a pipe holds `PipeSize` lines, and a command with more output
  blocks until someone reads it. Two edits of a notebook that overlap can lose
  one of the two or give two cells one id; the cells stay well formed.
- `BrowserTools`: the browser answers in order with what the page shows then.
- `AgentSessions`: a sub-agent ends in two writes and its thread dies with the
  process; readers may come between.
- `LspClient`: the version of a document is taken under one lock and sent under
  another. `ServerFollows` is about calls that do not overlap: the server is
  never told what does not follow from what it knows, and is in step with the
  client once it has read everything. `WaitIsJustified` leaves out requests
  under way when the reader task ended.

### Extensions in detail

- `McpBridge`: a call locks the manager, discovers the tools of every server,
  calls one and shuts all down. A discovery that fails returns before the
  shutdown; `NoProcessLeftOver` leaves out what it abandons.
- `ProviderStream`: a frame's body is one symbol and its line ends symbols of
  their own, so that every cut between two symbols happens. `Consumer` is the
  one of sub-agents; the CLI's keeps a single pending call.
- `ProviderAuth`: a load is one step, a write takes the code's steps, and a
  keyring call may fail at any of them. `LoadsWhatWasStored` leaves out stores
  that two commands wrote at once, or whose keyring went away or came back
  (`muddled`). A repetition whose shift overflows a `u32` fails.
- `Plugins`, `SkillRegistry`: the process may die after each file operation.
  `RecordMatchesDirectory` leaves out skills on which two commands overlapped
  or one was killed.
- `SessionFile`: the JSON text is written out character by character over a
  small alphabet because the property is about its prefixes and escapes.
- `CompactSummary`: a text is a sequence of lines with fixed and free words,
  because the next compaction parses what the last one wrote.
- `ReplSession`: `TurnsKept` leaves out files that two processes write.
- `ConfigFiles`: `SetsKept` leaves out files that two writers raced for.
- `LineEditor`: positions are byte offsets. `NeverPanics` leaves out a
  selection whose anchor a deletion in Visual mode left behind the text.

## 4. Runs

| run | instance | shows |
|---|---|---|
| `thread_concurrent` | two turns and a reply in every interleaving, one crash, one failing upsert, no streams (0.8 M states) | `RunOwned`, `ActiveInputDurable`, `StaleRowInterrupts`, `RecoveryConsistent`, and `ImplementsLifecycle`: the record refines `ThreadLifecycle` |
| `thread_serial` | two turns, a reply and an append one after the other, a crash, a legacy listener on a two-slot channel (3.5 M states) | `AcceptedInputsKept`: nothing accepted is dropped if clients wait; `LegacyStreamComplete` |
| `thread_streams` | a stream that may subscribe anywhere in two turns and a reply, a failing upsert, a two-slot channel | `StreamFidelity`, `WatcherLearnsEnd`, `RunsEnd` |
| `server_ids` | two creations, three turns, two crashes, a failing upsert | `CreatedThreadsKept`, `RunsDistinct`, the inductive invariant `IdInv` |
| `registries` | two creations that want two tasks, a cron entry, all other calls; or two callers of the tools with one task and one creation (2.1 M states) | `MembershipAgrees`, `ShownTruthfully`, `ToolAnswersHold` |
| `daemon` | a start and a stop beside a foreground server on one address or beside a crash, reused pids; and start, recover and stop one at a time with two crashes | `CommandsSafe` (no stranger is signalled, reports are true), `ServersReachable`, `LiveRecordKept`, `CommandsEnd` |
| `waits` | the plugins crate's hook runner with three commands; two SDK calls, or one and its reply, with a fault | `HooksSound`, `ClientSound`, `EveryoneReturns` |
| `local` | twelve parts, see below | `ConversationSound`, `FilesAndShellSound`, `LocalToolsSound`, `BrowserCallsSound`, `AgentRecordsSound`, `LanguageServerSound`, `CommandLineSound`, `SetupSound`, `OutcomeAgrees` |
| `extensions` | twelve parts, see below | `ToolsGated`, `BridgeSound`, `ProvidersSound`, `ReplSound`, `GitSound`, `PluginsSound`, `SkillsSound`, `SessionsSound` |
| `thread_lost_input`, `conversation_two_questions`, `hooks_runtime` | the smallest instance that shows it | the findings of section 7 |

The properties of the last three passing runs are conjunctions of the
invariants of the modules, one conjunction for each part or pair of parts;
their definitions in `MCWaits`, `MCLocal`, `Extensions` and `MCExtensions` name
the conjuncts,
and the modules define and explain them.

Parts of `local`: `turns` (sessions of up to six messages, five named blocks,
two model calls a turn, compaction that keeps two messages), `files` (a tool
call beside links that move), `bash`, `tools` (two editors, three edits, a pipe
of one line), `browser` (two polls, one message of noise), `agents` (two agents; or
one and the threads of a server), `lsp` (two callers, two calls, two clients,
one fault), `args` (up to three words of any kind, up to five after
`--resume`), `editor` (three bytes with a character of two), `install` (two
installers, three platforms), `onboard`, `config` (documents about the same
settings in all five files; two writers).

Parts of `extensions`: `gate` (one- and two-segment commands with every listed
program), `mcp` (two callers, two stdio servers and an unsupported one),
`stream` (two calls of two pieces), `auth` (two of login, logout, prompt and
doctor, two tokens), `repl` (two processes), `git` (two branches), `plugins`
(an external and a bundled one, two versions, two faults), `manifest`,
`skills` (two commands, two skills), `lookup`, `session` (two messages, one
fault), `summary` (four messages, any number of compactions between them).

Why the bounds are enough. A thread distinguishes the run in charge, one that
has just ended and one that is about to start: two turns and a reply give all
three at once, and the reply needs a turn that asked. One crash suffices for
what a row can hold, since a restart leaves the row in the same form; the second
crash in `server_ids` makes a counter that was derived from rows be derived
again. Two slots make a reader lag within one turn. For the safety properties of
the three passing thread runs, `server_ids`, `registries` and `daemon`, for
`ClientSound` and `HooksSound`, and for seven of the eight invariants of `local`
and its action property and seven of the eight of `extensions`, the proofs remove
the bounds altogether; the hypotheses under which they do are in section 6. Six
messages hold a turn, its question, the reply, a compaction and the next turn;
two model calls exhaust the budget. Two creations and two tasks suffice for a
creation that fails after it has assigned a task, and a third creation would
meet the same states of a task. For the daemon two servers are the recorded one
and the one that takes its place. Wherever processes meet on a file, two are
enough for each to come between any two steps of the other; one fault puts a
kill between any two steps, and the second in `plugins` interrupts an operation
that meets what the first one left. Two interleaved calls of two pieces give
every order in which a stream can mix them.

`CHECK_DEADLOCK` is on wherever the models say when they may rest (`Waiting`,
`Quiet`, `Finished`: the program waits for a client or has returned). It is off
in `waits`, `local` and `extensions`: a part ends when its command has
returned, its process was killed or its bounds are used up. That nobody waits
for ever is stated there as `EveryoneReturns` and `WaitIsJustified` instead.

Symmetry (turns, replies, creations, callers) is used only in runs without
liveness properties; ids are only compared, and the refinement mapping does not
mention requests.

Each property has a mutant: a named variant of one mapped definition, next to
it in the module, with which TLC finds the property violated.

## 5. Fairness

`ThreadRecord!FairSpec`: weak fairness of each request's own steps, of each
stream and of each listener. A handler has no await point between its first
step and its answer, a worker is a blocking task of its own, and a live SSE
stream is polled by its connection. Nothing is assumed of clients, of the
moment of a crash, or of an operator who restarts the server: `RunsEnd` and
`WatcherLearnsEnd` allow the process to die. That a model call returns is
assumed (the HTTP client's concern).

`ServerDaemon!FairSpec`: a command that was started runs; nothing is assumed of
the servers, which may never become ready or never go away: the timeouts
(3 s, 2 s) end the waits, here after at most `MaxPolls` polls.

`MCWaits!MCSpec`: for hooks, the operating system runs parent and child, and a
hook command does not run for ever. There is no timeout in the code, so this is
an assumption on hooks, and so is `Orderly`: a child does not fill a pipe with
output before it takes a payload that does not fit into one. Without it parent
and child do wait for each other (hazard at `plugins/src/hooks.rs:288`). For
the clients, weak fairness of each call's own steps and of the server, which
while it is up finishes its runs and sends their events. Nothing is assumed of
its restart: a broken stream is noticed, and the calls on a server that stays
away are bounded by `SubmitAttempts` and `ReadAttempts`.

## 6. Proofs

All for every value of the constants: sets of requests, streams, listeners,
creations, callers, commands, calls, agents and inputs, every capacity and every
bound on crashes, faults, polls, servers, messages, turns and model calls.
Assumptions are the named `ASSUME`s of `SessionLog` (the absent id is not a
writer), `ThreadRecord`, `ThreadClient` and `ServerDaemon` (kinds of requests,
calls or commands are disjoint, bounds are numbers, a scene is a choice of
commands and counts), `ThreadServer` (a request creates or takes a turn, not
both), `WorkRegistries` (a request is a sequence of task numbers), `HookRunner`
(a child behaves in one of the ways listed), `Conversation` (replies are
sequences of kinds of blocks, bounds are numbers), `AgentSessions` (a scene
starts some of the agents, its bounds are numbers), `WorkspaceFiles` (a listing
is a sequence of numbers, a limit a number), `BrowserTools` (the inputs are
among those the schema admits), `McpBridge` (the servers are asked in some
order, an absent caller is nobody), `ProviderAuth` (retries and delays are
numbers; and powers of two grow, which is true of all of them but not known to
the provers), `ReplSession` (a ceiling is a mode), `GitWorkflow` (the default
and the new branch are branches), `Plugins` (an id is external or bundled, not
both), `PluginManifest` (what a manifest's fields may hold), `Onboarding` (a
world has each of its parts in one of the states listed, a file is lines),
`CliArgs` (a command line is words), `LineEditor` (a text is valid UTF-8, and no
key types half a character) and `LspClient` (nobody is no caller, and callers
use the operations listed). Hypotheses beyond them stand in the last column.

| module | theorem | statement | given |
|---|---|---|---|
| `ThreadRecordProofs` | `TypeCorrect` | `Spec => []TypeOK` | |
| | `ServerSafe` | `Spec => []ServerInv`, and from it `OwnedRuns`, `ConsistentRecovery`, `DurableActiveInput`, `StaleRowsInterrupt` | |
| | `Refines` | `Spec => ImplementsLifecycle` | |
| | `InputSafe` | `Spec => []InputInv`, and from it `InputsKept`: `Spec => []AcceptedInputsKept` | `Serial` |
| | `StreamsFaithful` | `Spec => []StreamFidelity` | `Serial` |
| | `LegacyStreamsComplete` | `Spec => []LegacyStreamComplete` | `Serial`, no upsert fails |
| `ThreadServerProofs` | `ServerTypeCorrect`, `IdsSafe` | `Spec => []TypeOK`, `Spec => []IdInv`, and from it `FreshCreations`, `KeptThreads`, `DistinctRuns` | |
| `WorkRegistriesProofs` | `MembershipInvHolds` | `Spec => []MembershipInv`, and from it `MembershipHolds`: `Spec => []MembershipAgrees` | |
| | `ShownTruthfullyHolds` | `Spec => []ShownTruthfully` | |
| | `ToolAnswers` | `ToolsSpec => []ToolAnswersHold` | |
| `WaitsProofs` | `DenialsHonoured` | `Spec => []HooksSound` | `BrokenPipeTolerated` |
| | `ClientResults` | `ClientSpec => []ClientSound` | |
| `DaemonProofs` | `CommandsAreSafe` | `Spec => []CommandsSafe` | |
| | `ServersReached`, `LiveRecords` | `Spec => []ServersReachable`, `Spec => LiveRecordKept` | (`Undisturbed` is part of both) |
| `LocalProofs` | `CallsRunOnce` | `MCSpec => [](part = "turns" => TypeOK /\ ExecutedOnceInOrder)` | |
| | `ConversationSafe` | `MCSpec => []ConversationSound` | `AskLast` |
| | `OutcomesAgree` | `MCSpec => OutcomeAgrees` | `AskLast` |
| | `AgentsSafe` | `MCSpec => []AgentRecordsSound` | |
| | `FilesAndShellSafe` | `MCSpec => []FilesAndShellSound` | |
| | `BrowserSafe` | `MCSpec => []BrowserCallsSound` | |
| `CommandLineProofs` | `SetupSafe` | `MCSpec => []SetupSound` | |
| | `CommandLineSafe` | `MCSpec => []CommandLineSound` | |
| | `LanguageServerSafe` | `MCSpec => []LanguageServerSound` | |
| `ExtensionsProofs` | `GateSafe` | `PartsSpec => []ToolsGated` | |
| | `BridgeSafe` | `PartsSpec => []BridgeSound` | |
| | `ProvidersSafe` | `PartsSpec => []ProvidersSound` | |
| | `ReplSafe` | `PartsSpec => []ReplSound` | |
| | `GitSafe` | `PartsSpec => []GitSound` | |
| | `PluginsSafe` | `PartsSpec => []PluginsSound` | |
| | `SkillsSafe` | `PartsSpec => []SkillsSound` | |

A hypothesis is a condition that the code meets in one of its uses. `Serial` is
a thread used by one client that waits for the end of each request, as an SDK
call does; `thread_lost_input` and the first note of section 7 show what happens
otherwise. `BrokenPipeTolerated` is true of the plugins crate and false
of the runtime crate (`hooks_runtime`). `AskLast` is a model that asks at the end
of a reply only; `conversation_two_questions` runs without it and finds what
`ConversationSafe` would forbid. Without the last hypothesis of
`LegacyStreamsComplete` the property is false: after an upsert that fails,
`complete_run` broadcasts no message of the session it has put in memory, and a
later run broadcasts from its own start on. `thread_serial` runs with an upsert
budget of zero for the same reason.

**ServerInv.** `RunOwned` alone is not inductive: after a restart one must know
that nobody is at work, and `start_turn` must know that its run id is not 0.
`RecoveryConsistent` talks of the row only; to keep it, the status in memory
must fit the session in memory (`Sound`), because that pair is what the next
upsert stores, and the stored pair must be `Sound` too, because a failed upsert
leaves it. `ActiveInputDurable` follows from the optimistic message being in the
session and `StaleRowInterrupts`: while the thread is Running the row is the
record. Every action that does not touch the record is handled by one lemma
that carries the invariant over unchanged variables.

**Refinement.** `now` and `durable` are functions of `status` and `row`. With
`ServerInv` each accepting action is `Start` or `Resume` (the row is the record,
and a "running" row restarts as interrupted), `complete_run` is `Finish` for the
run in the status because of `RunOwned`, an append is `Save` or nothing, and a
restart shows exactly `durable` because recovering a rewritten row gives the
same status again.

**InputInv.** An input is lost when a run completes with a session built on a
base that is no longer the thread's. So the invariant follows the base:
`OneAtATime` (nobody else is under way), and `OwnSession` (the base that a
request cloned before the lock is the session it was accepted into, and what is
in memory is that base and its own message). `execute_run` only extends the
base, hence `complete_run` only extends the session, and with `ServerInv` a row
that is behind still holds what was accepted.

**StreamInv.** `OrderInv` says that envelopes lie in the channel by sequence and
that the one under way is the newest; it needs `OneAtATime`, because stamp and
send are two steps. A stream filters by the last sequence it passed on, which
is that of its snapshot or of an event it took (`PassedOn`), and so older than
everything it has not taken yet: the filter never drops a new event.

**LegacyInv.** Every message of the session has been shown to a live listener,
is in the channel in front of it, or is due to be broadcast by the request that
is under way (`Covers`); and nothing that is not in the session is shown.

**IdInv.** Freshness needs `Counting` (while up, every id in memory, in the
store or taken by a request is below its counter), that needs `Loading` (during
a start the maxima cover what was read, and nobody is served), and `Known`
(memory is part of the store), which makes the maxima cover all rows at the end
of a start.

**MembershipInv.** `MembershipAgrees` says nothing of a creation in the middle.
`Assigned` does: a task is in a team exactly when the creation of that team
holds it, where `Held` follows the creation forward through the assignments and
backward through the rollback. A free task is then held by nobody and a task of
another team by exactly one other creation, because no two creations share a
number (`Prepared`, from the counter) and no list names a task twice. `Listed`
turns holding into being listed, and into nothing being left after a rollback.

**ToolInv.** What a tool calls final is final in the registry: a task in a
terminal status keeps it, a deleted team stays deleted, and a number at or below
a counter is not given out again (`FinalTold`), so that neither other callers nor
the rollback of a creation can take an answer back. Between the two calls of a
toggle the entry is as the first call left it unless somebody disturbed it
(`TogglePending`), and the answer carries over what the second call saw
(`ToggleTold`).

**HookInv.** The exit codes so far are those of commands that have ended, a
denial can only be the last of them, and while the parent is at work the child
it looks at is the one whose code comes next.

**ClientInv.** For `TerminalTruthful` an event in a call's stream must say what
the server recorded of that run (`Buffered`, `Told`), for the text of a turn the
stream and the events due must together still hold the deltas that are missing
(`FirstSegment`), and for a snapshot that replaces a lost stream the messages
behind the call's starting point must be those of its own run when nobody else
writes (`SingleWriter`).

**DaemonInv, SoloInv.** A process moves in one direction only, from its record
to its socket to its end, so that what an inspection has established of it
(`ReportInv`) stays so whoever acts in between; `Served`, `Announced` and `Gone`
are stated as what a process is for good. `ChildInv` says how long a command
watches its child. `SoloInv` adds what overlapping commands would break: one
command at a time, a record that names the server that is up, no server beside
it, and a launch only after an inspection that is still true.

**TurnsInv, NamedInv, AnsweredInv.** A call runs once because names are given
once: `InHand` places the blocks of the message under way at the end of the
names given, `Handled` is the last name whose turn has come, and what was
executed has names up to it. A new block is therefore new to the session, and
an answer answers the one block of its name (`NamedInv`), also after a
compaction, which keeps a part of the session. Between two calls of the model
nothing is open but one question, while blocks are handled those to come, and
when the model is called nothing (`AnsweredInv`); this needs `AskLast`, for a
question before another block would be left open behind it.

**AgentsInv.** The end of a sub-agent is two writes, so the invariant says for
each position of its thread what output and manifest hold (`FilesFollow`). A
reader takes the manifest first: what it saw there as ended was in the output
by then and stays there, because only the thread itself writes it once more
(`RecordsRead`). `RunStops` follows the run that a send or resume was accepted
for: until it stops the thread of the server is in that run.

**FilesInv, BashInv.** A worker carries what was judged and where it led
(`Judged`), what it resolved and read (`Resolved`), and a reader of pages has a
prefix of the listing (`PagesSeen`). A shell call is followed from the options
accepted (`Accepted`) to the process that runs with them (`Confined`).

**BrowserInv.** `Wire` relates the two ends of the socket: with a request
outstanding either it is still with the browser and no answer is on the way, or
exactly one is, behind any amount of noise, and it carries the page and the
number of clicks of the moment of its evaluation (`AnswerThere`). `ClickedOnce`
and `Reported` follow the phases of a call along it.

**GateInv.** A call under way remembers which judge it has passed
(`AttemptMade`) and the set-up is what `build_runtime` made of plugins and
`--allowedTools` (`SetupBuilt`). The rest follows from the tables: a command that
passes in the narrower mode is neither in the write table nor a machine command,
hence passes in the wider.

**BridgeInv.** `HolderWaits` says what the holder of the lock has asked of the
server it is at; `PipesQuiet` that, while no server has spoken unasked, the pipe
of a server that runs holds that request or its answer and nothing else, so
that the next message read is the answer. Discovery starts the servers in their
order and the shutdown ends them in it (`ServersStarted`, `ServersStopped`), and
the index sends the name of a tool back to a server with that name.

**AuthInv.** While one command writes at a time and the keyring stays as it is
(`Clear`), every place in front of which a load may look holds the token stored
last or nothing (`Held`), and `WriteFits` says for each step of a write what is
already in its place: the new token in the keyring before the file is removed,
in the temporary file before the old one is, and the file gone before the
keyring's entries are. A load that moves a token (`Migrated`) keeps all this
(`Moved`). `Tried` counts a command's requests by its delays, each of which is
the back-off of its number.

**ReplInv.** Two processes hold one file only if it is contested (`OneHolder`),
so that a save replaces what the same process loaded or saved there. `CliOK` says
of each process, at every step of a command, that its mode is the runtime's and
within the ceiling, and that what follows a save under way is no turn over a
question.

**GitInv.** The commands under way know the branch they are on (`OnBranch`),
that they have left the default one where they must (`OffDefault`), and that
what is changed or staged was described, was edited since, or is of a kind that
the description leaves out (`AllDescribed`).

**PluginsInv, ManifestInv.** `JobFits` says what an operation has established by
the step it is at; with it, an external plugin has a record exactly when its
directory loads, but for the operation under way (`ExternalAgree`), and a bundled
one goes from what was to what is shipped (`BundledGrow`, `BundledSynced`). A
manifest without errors has tools of distinct names with files inside, and the
lifecycle is some starts followed by some shutdowns in reverse (`Lifecycle`).

**SkillsInv, LookupInv.** As long as no two commands overlapped, the one at work
finds at each of its steps what it read at its beginning, but for the directory
it works on (`Alone`, `InStep`), and when nobody is at work records and
directories match, but for skills whose command was killed (`cut`). A version
under way is compatible or was named by the user (`Fitting`). For the lookup the
two lists of directories are compared, for every content of all of them: which
directory the first match lies in (`FirstFound`) decides both answers.

**InstallInv.** While no two installs overlap, the one under way has made the
files in front of its position and none behind it (`WrittenBy`), and between
installs the manifest is there only with every file in front of it (`InOrder`).
The order of each platform ends with the manifest and the README, which is what
the inspection relies on.

**OnboardInv.** An assessment is kept as what `assess_onboard` says of some
world and workspace (`Assessed`); init has done what its step says
(`InitProgress`), and the lines of `.gitignore` are those it began with and
those of others, in front of its own (`LinesKept`).

**ArgsInv.** Every step of the scanner reads one option, or one option and its
value (`ReadTo`), so that the words of an action are exactly those behind what
was read (`BehindOptions`), and the mode asked for is the one read last. The
policy lemmas compare it with the profile for each of the modes.

**EditorInv.** The session fits its texts (`Fits`): every cursor is in its text
and between characters, the command line begins with its colon, and the backup
is the draft. The slices of valid UTF-8 at such places are valid again, and so
are the texts put together from them; the lemmas say so once for insertion,
deletion, paste and history. The anchor of a selection is at such a place until
something is deleted in Visual mode (`cut`). Completion may replace the text
under an anchor, so the invariant keeps the prefix: the anchor lies in it, at one
of its boundaries.

**LspInv.** `client_for_path` keeps the lock until its server has answered, so
that while someone initialises a server the map is empty (`OneServer` from who
holds the lock). A call that waits has its request registered and on its way to
the server, or its answer on its way back, or the reader or the server is gone
(`Justified`); each step keeps that for all requests of a client (`Keeps`). What
`ServerFollows` says of a server that has read everything is extended to one
that has not: there is a trajectory of what it will know behind each message on
the way, no one of which is wrong (`Heard`), and its end is what the client
believes, up to the step that the one call under way has reached (`Knows`).

Out of the prover's reach and left to TLC: liveness (`RunsEnd`,
`WatcherLearnsEnd`, `EveryoneReturns`, `CommandsEnd`), and two invariants that
say what a recursive definition computes for every input, which takes an
induction over data. `SessionsSound` is about the parsing and rotation in
`ProviderStream`, `SessionFile` and `CompactSummary`; `MCExtensions` uses these
modules, which is why the other parts are put together in `Extensions`.
`LocalToolsSound` contains the ranking of ToolSearch, a fold over the terms of a
query, the filters of WebSearch over a page of any length, and the merge of
settings (`ConfigFiles`), which nests operators given as parameters five levels
deep; its other conjuncts, on notebooks and commands, are not proved on their
own.

## 7. Findings

- `thread_lost_input` (`server/src/lib.rs:1083`): the base session of a run is
  cloned before the lock. Two overlapping turn requests can both be accepted,
  one after the other, with the same base; the second run then ends with a
  session without the first turn. `thread_serial` shows that a single writer is
  safe, also across a crash.
- `conversation_two_questions` (`runtime/src/conversation.rs:244`): with two
  questions in one assistant message a resumed turn answers one and calls the
  model with the other open.
- `hooks_runtime` (`runtime/src/hooks.rs:299`): a hook that denies without
  reading its input may end as a warning, and the tool runs. The plugins crate
  tolerates the broken pipe; `waits` shows that this is enough.

Seen while modelling, without a run of their own (each is what a property above
assumes away):

- `StreamFidelity` needs clients that wait (`Serial`): a worker still emits its
  last events when its thread is Idle again (`server/src/lib.rs:624`), and the
  next turn's first event can overtake one of them, which the stream's filter
  then drops without ending the stream or asking for a resync.
- `LiveRecordKept` and `ServersReachable` need one command at a time and no
  server run by hand (`Undisturbed`):
  `remove_thread_server_info_if_matches_pid` compares and removes in two steps
  (`openyak-cli/src/main.rs:2818`), so that a stop or start that found a stale
  record can remove the record of a server registered meanwhile; and two starts
  can both launch a server, the first of which is then running without a record.
- An invalid record stays: the status report recommends to rewrite it with
  `server start --detach` (`openyak-cli/src/main.rs:920`), which refuses to act
  on an invalid record (`openyak-cli/src/main.rs:2934`).
- Two `server install`s at the same time can leave a bundle whose service files
  are of another install, or torn, and that is shown as staged; its launcher and
  manifest are whole and of one address all the same (`StagedIsUsable`).
- The cases that properties leave out (section 3, and the notes of the hazards)
  are what the code does run into: two processes that rewrite one file, a link
  that moves between check and use, a discovery that fails before the shutdown,
  a reader task that ended, a selection in Visual mode, the CLI's stream
  consumer with interleaved calls. No doc or test of the repository promises
  otherwise.

## 8. Not modelled

`PROJECT.json` lists every component. Left out: routing, operator token and
JSON of the HTTP surface, which keep no state beyond the thread records; paths,
prompt and bootstrap, which read and build text; terminal rendering; test
harnesses; the Python mirror, which does not run the product. Within the
modelled parts: SQL and SQLite, the matching of glob and grep patterns, prices
(arithmetic on floats), the line reader for a standard input that is no
terminal, the parsing and help text of slash commands, the wording of reports,
two server processes on one store, a worker that panics (its thread stays
Running until a restart), and the reuse of event sequences after a restart
(`last_sequence` is stored only with the next row).
