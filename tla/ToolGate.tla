------------------------------ MODULE ToolGate ------------------------------
(***************************************************************************)
(* Which tool calls run: GlobalToolRegistry (tools/src/lib.rs), the        *)
(* allow-list of the command line, PermissionPolicy as the conversation    *)
(* asks it, and the PermissionEnforcer the registry asks a second time     *)
(* (runtime/src/permission_enforcer.rs, bash_validation.rs).               *)
(***************************************************************************)
EXTENDS Naturals, Sequences, FiniteSets

CONSTANTS PluginTools,  \* lists of plugin tools: sequences of names
          TokenLists,   \* what --allowedTools may say: sets of tokens
          BashCommands      \* bash commands: [segments, redirect]

VARIABLES setup,        \* "boot", "refused", or the registry that was built
          attempt          \* the tool call under way

gateVars == <<setup, attempt>>

-----------------------------------------------------------------------------
(* The tables of tools/src/lib.rs, by the permission a tool requires.      *)

FileTools == {"read_file", "write_file", "edit_file", "glob_search",
              "grep_search", "WebFetch", "WebSearch", "bash"}

HelperTools == {"TodoWrite", "Skill", "Agent", "ToolSearch", "NotebookEdit",
                "Sleep", "SendUserMessage", "Config"}

TaskTools == {"StructuredOutput", "REPL", "PowerShell", "TaskCreate",
              "TaskGet", "TaskList", "TaskStop", "TaskUpdate", "TaskOutput",
              "TaskWait"}

TeamTools == {"TeamCreate", "TeamGet", "TeamList", "TeamDelete",
              "CronCreate", "CronGet", "CronDisable", "CronEnable",
              "CronDelete", "CronList"}

SessionTools == {"SessionList", "SessionGet", "SessionCreate", "SessionSend",
                 "SessionResume", "SessionWait", "LSP", "ListMcpServers",
                 "ListMcpTools"}

McpTools == {"ListMcpResources", "ReadMcpResource", "McpAuth", "MCP",
             "TestingPermission"}

mvp_tool_specs ==
  FileTools \cup HelperTools \cup TaskTools \cup TeamTools \cup SessionTools
    \cup McpTools

browser_tool_specs == {"BrowserObserve", "BrowserInteract"}

WriteTools == {"write_file", "edit_file", "TodoWrite", "NotebookEdit", "Config"}

DangerTools ==
  {"bash", "Agent", "REPL", "PowerShell", "TaskCreate", "TaskStop",
   "TaskUpdate", "TeamCreate", "TeamDelete", "CronCreate", "CronDisable",
   "CronEnable", "CronDelete", "SessionCreate", "SessionSend",
   "SessionResume", "McpAuth", "MCP", "TestingPermission"}

(* A plugin tool with no declared permission has the widest (plugins/src). *)
required_permission(tool) ==
  IF tool \in WriteTools THEN "workspace-write"
  ELSE IF /\ tool \in mvp_tool_specs \cup browser_tool_specs
          /\ tool \notin DangerTools \cup {"BrowserInteract"}
  THEN "read-only" ELSE "danger-full-access"

(* The tools that execute_tool_with_enforcer checks again.                 *)
Enforced ==
  {"bash", "read_file", "write_file", "edit_file", "glob_search",
   "grep_search", "BrowserObserve", "BrowserInteract", "TaskCreate",
   "TaskStop", "TaskUpdate", "TeamCreate", "TeamDelete", "CronCreate",
   "CronDisable", "CronEnable", "CronDelete", "SessionCreate",
   "SessionSend", "SessionResume", "McpAuth", "MCP"}

-----------------------------------------------------------------------------
(* Building the registry                                                   *)

Modes == {"read-only", "workspace-write", "danger-full-access", "prompt", "allow"}

Unlisted == {"*"}         \* no --allowedTools: Option::None

Unsupported == {"?"}      \* a token that names no tool: an error

with_plugin_tools(names) ==
  /\ \A i \in DOMAIN names : names[i] \notin mvp_tool_specs
  /\ \A i, j \in DOMAIN names : names[i] = names[j] => i = j

with_browser_control(names, browser) ==
  browser => \A i \in DOMAIN names : names[i] \notin browser_tool_specs

enabled_optional_builtin_specs(browser) ==
  IF browser THEN browser_tool_specs ELSE {}

Names(s) == {s[i] : i \in DOMAIN s}

canonical_names(names, browser) ==
  mvp_tool_specs \cup enabled_optional_builtin_specs(browser) \cup Names(names)

Alias == [read |-> "read_file", write |-> "write_file", edit |-> "edit_file",
          glob |-> "glob_search", grep |-> "grep_search"]

(* The aliases are entered last, over a plugin tool of the same name.      *)
name_map(token) == IF token \in DOMAIN Alias THEN Alias[token] ELSE token

normalize_allowed_tools(names, browser, tokens) ==
  IF tokens = {} THEN Unlisted
  ELSE IF \E t \in tokens : name_map(t) \notin canonical_names(names, browser)
  THEN Unsupported ELSE {name_map(t) : t \in tokens}

definitions(names, browser, allowed) ==
  {t \in canonical_names(names, browser) :
     IF t \in browser_tool_specs /\ t \notin Names(names)
     THEN allowed # Unlisted /\ t \in allowed
     ELSE allowed = Unlisted \/ t \in allowed}

(* The CLI's policy: a tool that is not offered requires the most.         *)
permission_specs(names, browser, allowed) ==
  [t \in definitions(names, browser, allowed) |-> required_permission(t)]

-----------------------------------------------------------------------------
(* Bash commands (bash_validation.rs)                                      *)

READ_ONLY_COMMANDS ==
  {"awk", "basename", "b3sum", "cal", "cat", "cut", "date", "df", "diff",
   "dirname", "du", "echo", "env", "false", "file", "find", "free", "grep",
   "head", "hexdump", "jq", "less", "ls", "md5sum", "more", "od", "paste",
   "printenv", "printf", "pwd", "readlink", "realpath", "rg", "sed",
   "sha256sum", "sort", "stat", "strings", "tail", "test", "tree", "tr",
   "true", "type", "uname", "uniq", "uptime", "wc", "where", "which",
   "whoami", "xxd", "yq"}

READ_ONLY_GIT_SUBCOMMANDS ==
  {"blame", "cat-file", "describe", "diff", "log", "ls-files", "ls-tree",
   "reflog", "rev-parse", "shortlog", "show", "status"}

WORKSPACE_WRITE_MACHINE_COMMANDS ==
  {"apt", "apt-get", "brew", "chgrp", "choco", "chown", "crontab",
   "diskutil", "dnf", "fdisk", "format", "groupadd", "groupdel", "halt",
   "icacls", "launchctl", "mkfs", "mount", "netsh", "pacman", "parted",
   "poweroff", "reboot", "reg", "sc", "service", "shutdown", "scoop",
   "systemctl", "takeown", "umount", "useradd", "userdel", "usermod",
   "winget", "wipefs", "yum"}

(* A segment is [sudo, name, arg]: the arguments matter for sed ("-i"), git*)
(* (its subcommand, or "none") and rm ("-rf all": recursive, forced, of /, *)
(* ~ or .). A command's redirect is "none", "file", "device", or "quoted", *)
(* a device's name behind a quoted > sign.                                 *)
has_write_redirection(c) == c.redirect \in {"file", "device"}

raw_device_write_detected(c) == c.redirect \in {"device", "quoted"}

recursive_rm_reason(s) == s.name = "rm" /\ s.arg = "-rf all"

destructive_reason(c) == \E i \in DOMAIN c.segments : recursive_rm_reason(c.segments[i])

has_in_place_flag(s) == s.name = "sed" /\ s.arg = "-i"

git_subcommand(s) == s.arg = "none" \/ s.arg \in READ_ONLY_GIT_SUBCOMMANDS

read_only_segment(s) ==
  /\ ~s.sudo
  /\ ~has_in_place_flag(s)
  /\ IF s.name = "git" THEN git_subcommand(s) ELSE s.name \in READ_ONLY_COMMANDS

validate_read_only(c) ==
  /\ ~has_write_redirection(c)
  /\ \A i \in DOMAIN c.segments : read_only_segment(c.segments[i])

validate_workspace_write(c) ==
  /\ ~destructive_reason(c)
  /\ ~raw_device_write_detected(c)
  /\ \A i \in DOMAIN c.segments :
       /\ ~c.segments[i].sudo
       /\ c.segments[i].name \notin WORKSPACE_WRITE_MACHINE_COMMANDS

(* Mutant: prompt mode leaves the decision to the conversation's prompter. *)
validate_bash_command_deferred(c, mode) ==
  /\ c.segments # <<>>
  /\ mode = "read-only" => validate_read_only(c)
  /\ mode = "workspace-write" => validate_workspace_write(c)

validate_bash_command(c, mode) ==
  /\ c.segments # <<>>
  /\ mode = "read-only" => validate_read_only(c)
  /\ mode = "workspace-write" => validate_workspace_write(c)
  /\ mode # "prompt"

-----------------------------------------------------------------------------
(* Policy and enforcer                                                     *)

auto_allows(mode, required) ==
  CASE mode = "allow" -> TRUE
    [] mode \in {"prompt", "read-only"} -> required = "read-only"
    [] mode = "workspace-write" -> required \in {"read-only", "workspace-write"}
    [] OTHER -> TRUE

required_mode_for(tool) ==
  IF tool \in DOMAIN setup.policy THEN setup.policy[tool] ELSE "danger-full-access"

(* authorize asks the user only where an answer may change the outcome.    *)
asks_user(tool) ==
  /\ ~auto_allows(setup.mode, required_mode_for(tool))
  /\ \/ setup.mode = "prompt"
     \/ /\ setup.mode = "workspace-write"
        /\ required_mode_for(tool) = "danger-full-access"

check_file_write(mode, inside) ==
  CASE mode \in {"read-only", "prompt"} -> FALSE
    [] mode = "workspace-write" -> inside
    [] OTHER -> TRUE

(* The enforcer has no prompter: what would be asked is denied, except in  *)
(* prompt mode.                                                            *)
enforcer_check(tool) ==
  setup.mode = "prompt" \/ auto_allows(setup.mode, required_mode_for(tool))

maybe_enforce_permission_check(tool, input) ==
  CASE tool \in {"write_file", "edit_file"} -> check_file_write(setup.mode, input.inside)
    [] tool = "bash" -> validate_bash_command(input.command, setup.mode)
    [] OTHER -> enforcer_check(tool)

-----------------------------------------------------------------------------
NoCall == [stage |-> "none"]

GateInit == setup = [stage |-> "boot"] /\ attempt = NoCall

(* build_runtime: plugins, browser control, the allow-list, the policy.    *)
build_runtime ==
  /\ setup.stage = "boot"
  /\ \E names \in PluginTools, browser \in BOOLEAN, tokens \in TokenLists, mode \in Modes :
       LET allowed == normalize_allowed_tools(names, browser, tokens) IN
       setup' = IF /\ with_plugin_tools(names)
                   /\ with_browser_control(names, browser)
                   /\ allowed # Unsupported
                THEN [stage |-> "ready", names |-> names, browser |-> browser,
                      mode |-> mode, tokens |-> tokens, allowed |-> allowed,
                      policy |-> permission_specs(names, browser, allowed)]
                ELSE [stage |-> "refused"]
  /\ UNCHANGED attempt

NoBashCommand == [segments |-> <<>>, redirect |-> "none"]

ToolInputs(tool) ==
  CASE tool = "bash" -> [command : BashCommands, inside : {TRUE}]
    [] tool \in {"write_file", "edit_file"} -> [command : {NoBashCommand}, inside : BOOLEAN]
    [] OTHER -> [command : {NoBashCommand}, inside : {TRUE}]

(* The model may ask for any name, offered or not.                         *)
Asked == mvp_tool_specs \cup browser_tool_specs \cup {"ghost"}
           \cup UNION {Names(names) : names \in PluginTools}

(* run_turn: the policy decides, and asks the user where it must.          *)
authorize ==
  /\ setup.stage = "ready" /\ attempt.stage = "none"
  /\ \E tool \in Asked : \E input \in ToolInputs(tool), answer \in BOOLEAN :
       /\ ~asks_user(tool) => ~answer
       /\ attempt' = [stage |-> IF auto_allows(setup.mode, required_mode_for(tool)) \/ answer
                             THEN "allowed" ELSE "denied",
                   tool |-> tool, input |-> input, approved |-> answer,
                   by |-> "policy"]
  /\ UNCHANGED setup

GateAnswer(stage, by) ==
  /\ attempt' = [attempt EXCEPT !.stage = stage, !.by = by]
  /\ UNCHANGED setup

(* CliToolExecutor and GlobalToolRegistry::execute.                        *)
Known ==
  attempt.tool \in canonical_names(setup.names, setup.browser)

execute ==
  /\ attempt.stage = "allowed"
  /\ IF \/ setup.allowed # Unlisted /\ attempt.tool \notin setup.allowed
        \/ attempt.tool \in browser_tool_specs /\ ~setup.browser
        \/ ~Known
     THEN GateAnswer("denied", "registry")
     ELSE IF attempt.tool \in Enforced /\ ~maybe_enforce_permission_check(attempt.tool, attempt.input)
     THEN GateAnswer("denied", "enforcer")
     ELSE GateAnswer("ran", "tool")

next_call ==
  /\ attempt.stage \in {"denied", "ran"}
  /\ attempt' = NoCall
  /\ UNCHANGED setup

GateNext == build_runtime \/ authorize \/ execute \/ next_call

GateSpec == GateInit /\ [][GateNext]_gateVars

-----------------------------------------------------------------------------
(* A tool runs only if its own permission, whatever the policy was told    *)
(* about it, is within the mode, or the user approved this call; a file    *)
(* outside the workspace is written, and a machine-wide command run, in    *)
(* the two widest modes only, approved or not.                             *)
RunsOnlyPermitted ==
  attempt.stage = "ran" =>
    /\ auto_allows(setup.mode, required_permission(attempt.tool)) \/ attempt.approved
    /\ (~attempt.input.inside \/ (attempt.tool = "bash" /\ ~validate_workspace_write(attempt.input.command)))
         => setup.mode \in {"danger-full-access", "allow"}

(* The second gate never overrules the first without a reason in the       *)
(* input: what the policy allows unasked is refused only for the path or   *)
(* the command itself.                                                     *)
GatesAgree ==
  (attempt.stage = "denied" /\ attempt.by = "enforcer" /\ ~attempt.approved) =>
    \/ ~attempt.input.inside
    \/ attempt.tool = "bash" /\ ~validate_bash_command(attempt.input.command, setup.mode)

(* An approval has no effect on the tools the enforcer checks by itself:   *)
(* in workspace-write mode a machine-wide tool other than bash, in prompt  *)
(* mode a file write or bash, is refused after the user said yes; no other *)
(* approved call is, unless the command itself is refused.                 *)
ApprovalLostExactly ==
  attempt.stage \in {"ran", "denied"} /\ attempt.approved /\ attempt.by # "registry" =>
    (attempt.by = "enforcer" <=>
       CASE setup.mode = "prompt" -> attempt.tool \in {"bash", "write_file", "edit_file"}
         [] attempt.tool = "bash" -> ~validate_bash_command(attempt.input.command, setup.mode)
         [] OTHER -> attempt.tool \in Enforced)

(* What the model is offered it can call: the registry knows it, the       *)
(* allow-list has it and the policy holds its own permission. A browser    *)
(* tool is offered only if it is enabled and was named, and an alias       *)
(* always stands for the built-in tool.                                    *)
OfferedIsCallable ==
  setup.stage = "ready" =>
    LET offered == definitions(setup.names, setup.browser, setup.allowed) IN
    /\ \A t \in offered : t \in DOMAIN setup.policy
                            /\ setup.policy[t] = required_permission(t)
                            /\ setup.allowed # Unlisted => t \in setup.allowed
    /\ offered \cap browser_tool_specs \subseteq
         (setup.tokens \cap browser_tool_specs) \cup Names(setup.names)
    /\ \A t \in setup.tokens \cap DOMAIN Alias : Alias[t] \in offered

(* The modes are nested: a command read-only mode lets through is let      *)
(* through in workspace-write mode too, unless it mentions a raw device    *)
(* inside quotes, which only the latter's text search objects to.          *)
ModesNested ==
  attempt.stage # "none" /\ attempt.tool = "bash" =>
    LET c == attempt.input.command IN
    validate_bash_command(c, "read-only") /\ c.redirect # "quoted"
      => validate_bash_command(c, "workspace-write")
=============================================================================
