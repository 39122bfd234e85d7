------------------------------- MODULE CliArgs -------------------------------
(***************************************************************************)
(* The command line of openyak (openyak-cli/src/main.rs): parse_args reads *)
(* options up to the first other word, then a subcommand or a prompt;      *)
(* resolve_requested_execution_policy turns what was asked for, and the    *)
(* tool profile, into the policy a conversation runs under.                *)
(***************************************************************************)
EXTENDS Naturals, Sequences, SequencesExt

CONSTANTS CommandLines,  \* argument vectors to be parsed
          Profiles,      \* tool profile -> [mode, tools]
          ToolNeeds      \* tool -> the permission mode it requires

ASSUME ArgsAssumption == CommandLines \subseteq Seq(STRING)

VARIABLES argv,          \* the arguments
          scan,          \* the scanner: options seen, and where it is
          action         \* CliAction, or "none" while parsing

argsVars == <<argv, scan, action>>

Nothing == "nothing"
Rank(mode) == CASE mode = "read-only" -> 1 [] mode = "workspace-write" -> 2 [] OTHER -> 3
PermissionModes == {"read-only", "workspace-write", "danger-full-access"}

(* Options that take the next argument, whatever it is.                    *)
ValueOptions == {"--model", "--output-format", "--permission-mode",
                 "--tool-profile", "--allowedTools"}

Switches == {"--version", "--print", "--dangerously-skip-permissions"}

Slash == {"/help", "/agents", "/export", "/status", "/path"}

looks_like_cli_command_token(w) ==
  w \in {"login", "prompt"} \cup Slash

help == {"--help"}

ArgsInit ==
  /\ argv \in CommandLines
  /\ scan = [at |-> 1, model |-> Nothing, format |-> "text", mode |-> Nothing,
             version |-> FALSE, tools |-> {}, profile |-> Nothing]
  /\ action = [kind |-> "none"]

Here == argv[scan.at]
Left == Len(argv) - scan.at      \* arguments behind the current one
From(i) == SubSeq(argv, i, Len(argv))

Failed == action' = [kind |-> "error"] /\ UNCHANGED scan

(* The value of an option is legal, as far as the scanner can tell.        *)
accepts(option, value) ==
  CASE option = "--output-format" -> value \in {"text", "json"}
    [] option = "--permission-mode" -> value \in PermissionModes
    [] option = "--allowedTools" -> ~looks_like_cli_command_token(value)
    [] OTHER -> TRUE

takes_value(option, value) ==
  CASE option = "--output-format" -> [scan EXCEPT !.format = value]
    [] option = "--permission-mode" -> [scan EXCEPT !.mode = value]
    [] option = "--allowedTools" -> [scan EXCEPT !.tools = @ \cup {value}]
    [] option = "--tool-profile" -> [scan EXCEPT !.profile = value]
    [] OTHER -> [scan EXCEPT !.model = value]

Scanning == action.kind = "none" /\ scan.at <= Len(argv)

scan_value_option ==
  /\ Scanning /\ Here \in ValueOptions
  /\ IF Left = 0 \/ ~accepts(Here, argv[scan.at + 1]) THEN Failed
     ELSE /\ scan' = [takes_value(Here, argv[scan.at + 1]) EXCEPT !.at = scan.at + 2]
          /\ UNCHANGED action
  /\ UNCHANGED argv

switches(option) ==
  CASE option = "--version" -> [scan EXCEPT !.version = TRUE]
    [] option = "--print" -> [scan EXCEPT !.format = "text"]
    [] OTHER -> [scan EXCEPT !.mode = "danger-full-access"]

scan_switch ==
  /\ Scanning /\ Here \in Switches
  /\ scan' = [switches(Here) EXCEPT !.at = scan.at + 1]
  /\ UNCHANGED <<argv, action>>

Conversation(kind, words) ==
  [kind |-> kind, words |-> words, mode |-> scan.mode, tools |-> scan.tools,
   profile |-> scan.profile, format |-> scan.format, model |-> scan.model]

known_tools(tools) == tools \subseteq DOMAIN ToolNeeds

(* -p: everything behind it is the prompt.                                 *)
scan_prompt ==
  /\ Scanning /\ Here = "-p"
  /\ action' = IF Left = 1 /\ argv[scan.at + 1] \in help THEN [kind |-> "help"]
               ELSE IF Left = 0 \/ ~known_tools(scan.tools) THEN [kind |-> "error"]
               ELSE Conversation("prompt", From(scan.at + 1))
  /\ UNCHANGED <<argv, scan>>

(* resume_command_allows_slash_prefixed_args: /export keeps a path.        *)
starts_command(rest, i) ==
  /\ rest[i] \in Slash
  /\ \/ rest[i] # "/path"
     \/ LET heads == {j \in 1..(i - 1) : rest[j] \in Slash \ {"/path"}} IN
        heads = {} \/ rest[CHOOSE j \in heads : \A k \in heads : k <= j] # "/export"

(* The trailing words of --resume, cut into slash commands.                *)
group_resume_commands(rest) ==
  LET starts == {i \in DOMAIN rest : starts_command(rest, i)} IN
  {[from |-> i, to |-> CHOOSE e \in i..Len(rest) : (e + 1 \in starts \/ e = Len(rest)) /\ \A j \in (i + 1)..e : j \notin starts] : i \in starts}

parse_resume_args(rest) ==
  IF rest = <<>> \/ (Len(rest) > 1 /\ rest[2] \notin Slash) THEN [kind |-> "error"]
  ELSE [kind |-> "resume", session |-> rest[1], rest |-> Tail(rest),
        commands |-> group_resume_commands(Tail(rest))]

(* `server` and its subcommands: --bind takes the next argument, whatever  *)
(* it is; only `start` knows, and needs, --detach.                         *)
is_bind_value(rest) ==
  LET value[i \in 0..Len(rest)] == i > 1 /\ rest[i - 1] = "--bind" /\ ~value[i - 1]
  IN  value

server_options(rest, flags) ==
  LET value == is_bind_value(rest) IN
  /\ \A i \in DOMAIN rest : value[i] \/ rest[i] \in flags \cup {"--bind"}
  /\ rest # <<>> => value[Len(rest)] \/ Last(rest) # "--bind"

detached(rest) ==
  \E i \in DOMAIN rest : rest[i] = "--detach" /\ ~is_bind_value(rest)[i]

is_help_args(rest) == rest \in {<<h>> : h \in help}

parse_server_args(rest) ==
  LET sub == IF rest = <<>> THEN "" ELSE rest[1]
      ok(cond, kind) == IF cond THEN [kind |-> kind] ELSE [kind |-> "error"] IN
  IF \/ is_help_args(rest)
     \/ sub \in {"start", "status", "stop", "recover", "install"} /\ is_help_args(Tail(rest))
  THEN [kind |-> "help"]
  ELSE CASE sub \in {"status", "stop", "recover"} -> ok(Len(rest) = 1, sub)
         [] sub = "start" -> ok(server_options(Tail(rest), {"--detach"}) /\ detached(Tail(rest)), sub)
         [] sub = "install" -> ok(server_options(Tail(rest), {}), sub)
         [] OTHER -> ok(server_options(rest, {}), "server")

parse_direct_slash_cli_action(word) ==
  CASE word = "/help" -> [kind |-> "help"]
    [] word = "/agents" -> [kind |-> "agents"]
    [] OTHER -> [kind |-> "error"]

(* What the first word that is no option asks for.                         *)
first_word(word, rest) ==
  CASE word \in help -> [kind |-> "help"]
    [] word = "--resume" -> parse_resume_args(rest)
    [] word = "login" -> IF is_help_args(rest) THEN [kind |-> "help"] ELSE [kind |-> "login"]
    [] word = "doctor" -> IF rest = <<>> THEN [kind |-> "doctor"]
                          ELSE IF is_help_args(rest) THEN [kind |-> "help"] ELSE [kind |-> "error"]
    [] word = "server" -> parse_server_args(rest)
    [] word = "prompt" -> IF rest = <<>> THEN [kind |-> "error"]
                          ELSE IF is_help_args(rest) THEN [kind |-> "help"]
                          ELSE Conversation("prompt", rest)
    [] word \in Slash -> parse_direct_slash_cli_action(word)
    [] OTHER -> Conversation("prompt", From(scan.at))

(* The first word that is no option decides; --version decides before it,  *)
(* and an unknown tool is an error whatever follows.                       *)
dispatch ==
  /\ action.kind = "none"
  /\ scan.at <= Len(argv) => Here \notin ValueOptions \cup Switches \cup {"-p"}
  /\ action' = IF scan.version THEN [kind |-> "version"]
               ELSE IF ~known_tools(scan.tools) THEN [kind |-> "error"]
               ELSE IF scan.at > Len(argv) THEN Conversation("repl", <<>>)
               ELSE first_word(Here, From(scan.at + 1))
  /\ UNCHANGED <<argv, scan>>

(* The profile's mode bounds the requested one and all its own tools; its  *)
(* tools bound the requested ones.                                         *)
within_ceiling(p, mode, tools) ==
  /\ Rank(mode) <= Rank(p.mode)
  /\ \A t \in p.tools : Rank(ToolNeeds[t]) <= Rank(p.mode)
  /\ tools \subseteq p.tools

(* resolve_requested_execution_policy                                      *)
resolve_policy ==
  /\ action.kind \in {"prompt", "repl"}
  /\ \E default \in PermissionModes :       \* OPENYAK_PERMISSION_MODE, or the widest
       IF action.profile = Nothing
       THEN action' = [kind |-> "running", tools |-> action.tools, profile |-> Nothing,
                       words |-> action.words, asked |-> action.mode,
                       mode |-> IF action.mode = Nothing THEN default ELSE action.mode]
       ELSE IF action.profile \notin DOMAIN Profiles THEN action' = [kind |-> "error"]
       ELSE LET p == Profiles[action.profile]
                mode == IF action.mode = Nothing THEN p.mode ELSE action.mode IN
            action' = IF within_ceiling(p, mode, action.tools)
                      THEN [kind |-> "running", mode |-> mode, profile |-> action.profile,
                            words |-> action.words, asked |-> action.mode,
                            tools |-> IF action.tools = {} THEN p.tools ELSE action.tools]
                      ELSE [kind |-> "error"]
  /\ UNCHANGED <<argv, scan>>

ArgsNext == scan_value_option \/ scan_switch \/ scan_prompt \/ dispatch \/ resolve_policy

ArgsSpec == ArgsInit /\ [][ArgsNext]_argsVars

-----------------------------------------------------------------------------
(* A conversation never runs with more than its tool profile grants: the   *)
(* mode is within the profile's, every tool is the profile's and needs no  *)
(* more than its mode, however options were given or repeated.             *)
PolicyWithinProfile ==
  action.kind = "running" /\ action.profile # Nothing =>
    LET p == Profiles[action.profile] IN
    /\ Rank(action.mode) <= Rank(p.mode)
    /\ action.tools \subseteq p.tools
    /\ \A t \in action.tools : Rank(ToolNeeds[t]) <= Rank(p.mode)

(* No argument is lost: the words of a prompt are the end of the command   *)
(* line, behind options that all took effect. In particular a mode asked   *)
(* for before the prompt is the mode of the conversation unless a later    *)
(* option changed it, and one behind the first word is part of the prompt. *)
ArgumentsKept ==
  action.kind = "running" =>
    /\ IsSuffix(action.words, argv)
    /\ LET options == SubSeq(argv, 1, Len(argv) - Len(action.words)) IN
       /\ \A i \in DOMAIN options :
            \/ options[i] \in ValueOptions \cup Switches \cup {"-p", "prompt"}
            \/ i > 1 /\ options[i - 1] \in ValueOptions
       /\ action.asked # Nothing => Contains(options, action.asked)
                                      \/ Contains(options, "--dangerously-skip-permissions")
       /\ action.asked = Nothing =>
            \A i \in DOMAIN options : options[i] = "--permission-mode" =>
              i > 1 /\ options[i - 1] \in ValueOptions

(* The commands of --resume are the trailing words, cut without loss: the  *)
(* pieces cover every word once and each begins with a slash; a path stays *)
(* with the /export before it.                                             *)
ResumeWordsKept ==
  action.kind = "resume" =>
    /\ UNION {c.from..c.to : c \in action.commands} = DOMAIN action.rest
    /\ \A c, d \in action.commands : c = d \/ (c.from..c.to) \cap (d.from..d.to) = {}
    /\ \A c \in action.commands :
         /\ action.rest[c.from] \in Slash
         /\ action.rest[c.from] = "/path" =>
              c.from = 1 \/ action.rest[c.from - 1] # "/export"
=============================================================================
