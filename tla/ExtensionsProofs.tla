-------------------------- MODULE ExtensionsProofs --------------------------
(***************************************************************************)
(* The parts of Extensions, proved for all values of their constants.  A   *)
(* step of a behaviour is one of the part it is of, so that each property  *)
(* needs the invariant of that part alone.  A section states one, shows    *)
(* that it holds at first, that the actions of the part keep it and that   *)
(* the steps of other parts do, and ends with the theorem about PartsSpec. *)
(***************************************************************************)
EXTENDS Extensions, FiniteSetTheorems, TLAPS
-----------------------------------------------------------------------------
(***************************************************************************)
(* The gate in front of the tools: what build_runtime left, and which      *)
(* check let the call under way through or refused it.                     *)
(***************************************************************************)

AttemptInputs == [command : BashCommands \cup {NoBashCommand}, inside : BOOLEAN]
Attempts == [stage : {"allowed", "denied", "ran"}, tool : Asked, input : AttemptInputs,
             approved : BOOLEAN, by : {"policy", "registry", "enforcer", "tool"}]

(* What build_runtime leaves.                                              *)
SetupBuilt ==
  setup.stage = "ready" =>
    /\ setup.mode \in Modes
    /\ setup.allowed = normalize_allowed_tools(setup.names, setup.browser, setup.tokens)
    /\ setup.allowed # Unsupported
    /\ setup.policy = permission_specs(setup.names, setup.browser, setup.allowed)

Stopped == \/ setup.allowed # Unlisted /\ attempt.tool \notin setup.allowed
           \/ attempt.tool \in browser_tool_specs /\ ~setup.browser
           \/ ~Known
Refuses == attempt.tool \in Enforced /\ ~maybe_enforce_permission_check(attempt.tool, attempt.input)
Allows == auto_allows(setup.mode, required_mode_for(attempt.tool))

(* How the call under way got where it is.                                 *)
AttemptMade ==
  attempt # NoCall =>
    /\ attempt \in Attempts /\ setup.stage = "ready"
    /\ attempt.input \in ToolInputs(attempt.tool)
    /\ attempt.approved => asks_user(attempt.tool)
    /\ (attempt.stage = "denied" /\ attempt.by = "policy") \/ Allows \/ attempt.approved
    /\ attempt.stage = "denied" /\ attempt.by = "policy" => ~attempt.approved
    /\ attempt.stage = "denied" => attempt.by \in {"policy", "registry", "enforcer"}
    /\ attempt.stage = "ran" => attempt.by = "tool"
    /\ attempt.by = "enforcer" => attempt.stage = "denied" /\ ~Stopped /\ Refuses
    /\ attempt.by = "tool" => ~Stopped /\ ~Refuses

GateInv == SetupBuilt /\ AttemptMade

LEMMA NoAttempt ==
  /\ NoCall.stage = "none"
  /\ \A a \in Attempts : a # NoCall /\ a.stage # "none"
BY DEF NoCall, Attempts

LEMMA GateStart ==
  ASSUME GateInit
  PROVE  GateInv
BY DEF GateInit, GateInv, SetupBuilt, AttemptMade

LEMMA GateRests ==
  ASSUME GateInv, UNCHANGED gateVars
  PROVE  GateInv'
<1>1. setup' = setup /\ attempt' = attempt
  BY DEF gateVars
<1>2. SetupBuilt'
  BY <1>1 DEF GateInv, SetupBuilt
<1>3. AttemptMade'
  BY <1>1 DEF GateInv, AttemptMade, Allows, Stopped, Refuses, Known, asks_user, required_mode_for,
     maybe_enforce_permission_check, enforcer_check
<1> QED
  BY <1>2, <1>3 DEF GateInv

LEMMA RuntimeBuilt ==
  ASSUME GateInv, build_runtime
  PROVE  GateInv'
<1>1. setup.stage = "boot" /\ attempt' = attempt
  BY DEF build_runtime
<1>2. attempt = NoCall
  BY <1>1 DEF GateInv, AttemptMade
<1>3. PICK names \in PluginTools, browser \in BOOLEAN, list \in TokenLists, mode \in Modes :
        LET allowed == normalize_allowed_tools(names, browser, list) IN
        setup' = IF /\ with_plugin_tools(names)
                    /\ with_browser_control(names, browser)
                    /\ allowed # Unsupported
                 THEN [stage |-> "ready", names |-> names, browser |-> browser,
                       mode |-> mode, tokens |-> list, allowed |-> allowed,
                       policy |-> permission_specs(names, browser, allowed)]
                 ELSE [stage |-> "refused"]
  BY DEF build_runtime
<1>4. SetupBuilt'
  BY <1>3 DEF SetupBuilt
<1> QED
  BY <1>1, <1>2, <1>4 DEF GateInv, AttemptMade

LEMMA Authorized ==
  ASSUME GateInv, authorize
  PROVE  GateInv'
<1>1. setup.stage = "ready" /\ setup' = setup
  BY DEF authorize
<1>2. PICK tool \in Asked : \E input \in ToolInputs(tool), answer \in BOOLEAN :
        /\ ~asks_user(tool) => ~answer
        /\ attempt' = [stage |-> IF auto_allows(setup.mode, required_mode_for(tool)) \/ answer
                              THEN "allowed" ELSE "denied",
                    tool |-> tool, input |-> input, approved |-> answer,
                    by |-> "policy"]
  BY DEF authorize
<1>3. PICK input \in ToolInputs(tool), answer \in BOOLEAN :
        /\ ~asks_user(tool) => ~answer
        /\ attempt' = [stage |-> IF auto_allows(setup.mode, required_mode_for(tool)) \/ answer
                              THEN "allowed" ELSE "denied",
                    tool |-> tool, input |-> input, approved |-> answer,
                    by |-> "policy"]
  BY <1>2
<1>4. input \in AttemptInputs
  BY DEF ToolInputs, AttemptInputs
<1>5. /\ attempt'.tool = tool /\ attempt'.input = input /\ attempt'.approved = answer /\ attempt'.by = "policy"
      /\ attempt'.stage = IF auto_allows(setup.mode, required_mode_for(tool)) \/ answer THEN "allowed" ELSE "denied"
  BY <1>3
<1>6. attempt' \in Attempts
  BY <1>3, <1>4 DEF Attempts
<1>7. asks_user(tool)' = asks_user(tool) /\ required_mode_for(tool)' = required_mode_for(tool)
  BY <1>1 DEF asks_user, required_mode_for
<1>8. AttemptMade'
  BY <1>1, <1>3, <1>5, <1>6, <1>7 DEF AttemptMade, Allows
<1>9. SetupBuilt'
  BY <1>1 DEF GateInv, SetupBuilt
<1> QED
  BY <1>8, <1>9 DEF GateInv

LEMMA Answered ==
  ASSUME GateInv, attempt.stage = "allowed", NEW outcome, NEW by, GateAnswer(outcome, by),
         \/ outcome = "denied" /\ by = "registry"
         \/ outcome = "denied" /\ by = "enforcer" /\ ~Stopped /\ Refuses
         \/ outcome = "ran" /\ by = "tool" /\ ~Stopped /\ ~Refuses
  PROVE  GateInv'
<1>1. attempt # NoCall /\ attempt \in Attempts
  BY NoAttempt DEF GateInv, AttemptMade
<1>2. attempt' = [attempt EXCEPT !.stage = outcome, !.by = by] /\ setup' = setup
  BY DEF GateAnswer
<1>3. /\ attempt'.tool = attempt.tool /\ attempt'.input = attempt.input /\ attempt'.approved = attempt.approved
      /\ attempt'.stage = outcome /\ attempt'.by = by
  BY <1>1, <1>2 DEF Attempts
<1>4. attempt' \in Attempts
  BY <1>1, <1>2 DEF Attempts
<1>5. Stopped' = Stopped
  BY <1>2, <1>3 DEF Stopped, Known
<1>6. Refuses' = Refuses
  BY <1>2, <1>3 DEF Refuses, maybe_enforce_permission_check, enforcer_check, required_mode_for
<1>7. Allows' = Allows /\ asks_user(attempt.tool)' = asks_user(attempt.tool)
  BY <1>2, <1>3 DEF Allows, asks_user, required_mode_for
<1>8. AttemptMade'
  BY <1>1, <1>2, <1>3, <1>4, <1>5, <1>6, <1>7 DEF GateInv, AttemptMade
<1>9. SetupBuilt'
  BY <1>2 DEF GateInv, SetupBuilt
<1> QED
  BY <1>8, <1>9 DEF GateInv

LEMMA GateMoves ==
  ASSUME GateInv, GateNext
  PROVE  GateInv'
<1>1. CASE execute
  <2>1. attempt.stage = "allowed"
    BY <1>1 DEF execute
  <2>2. CASE Stopped
    BY <1>1, <2>1, <2>2, Answered DEF execute, Stopped
  <2>3. CASE ~Stopped /\ Refuses
    BY <1>1, <2>1, <2>3, Answered DEF execute, Stopped, Refuses
  <2>4. CASE ~Stopped /\ ~Refuses
    BY <1>1, <2>1, <2>4, Answered DEF execute, Stopped, Refuses
  <2> QED
    BY <2>2, <2>3, <2>4
<1>2. CASE next_call
  BY <1>2 DEF next_call, GateInv, SetupBuilt, AttemptMade
<1> QED
  BY <1>1, <1>2, RuntimeBuilt, Authorized DEF GateNext

(* The tools the properties name.                                          *)
LEMMA ToolNames ==
  /\ {"bash", "write_file", "edit_file"} \subseteq mvp_tool_specs \cap Enforced
  /\ \A t \in {"bash", "write_file", "edit_file"} : t \notin browser_tool_specs
  /\ required_permission("bash") = "danger-full-access"
  /\ \A t \in {"write_file", "edit_file"} : required_permission(t) = "workspace-write"
<1>1. {"bash", "write_file", "edit_file"} \subseteq mvp_tool_specs
  BY DEF mvp_tool_specs, FileTools
<1>2. {"bash", "write_file", "edit_file"} \subseteq Enforced
  BY DEF Enforced
<1>3. \A t \in {"bash", "write_file", "edit_file"} : t \notin browser_tool_specs
  BY DEF browser_tool_specs
<1>4. "bash" \in DangerTools /\ "bash" \notin WriteTools
  BY DEF WriteTools, DangerTools
<1>5. "write_file" \in WriteTools /\ "edit_file" \in WriteTools
  BY DEF WriteTools
<1>6. required_permission("bash") = "danger-full-access"
  BY <1>4 DEF required_permission
<1>7. \A t \in {"write_file", "edit_file"} : required_permission(t) = "workspace-write"
  BY <1>5 DEF required_permission
<1> QED
  BY <1>1, <1>2, <1>3, <1>6, <1>7

LEMMA PolicyHolds ==
  ASSUME GateInv, setup.stage = "ready", NEW t
  PROVE  /\ t \in DOMAIN setup.policy <=> t \in definitions(setup.names, setup.browser, setup.allowed)
         /\ required_mode_for(t) = IF t \in definitions(setup.names, setup.browser, setup.allowed)
                                   THEN required_permission(t) ELSE "danger-full-access"
BY DEF GateInv, SetupBuilt, permission_specs, required_mode_for

LEMMA PermissionNames ==
  ASSUME NEW t
  PROVE  required_permission(t) \in {"read-only", "workspace-write", "danger-full-access"}
BY DEF required_permission

(* A tool of the files that got past the registry is in the policy.        *)
LEMMA WritersRequired ==
  ASSUME GateInv, attempt # NoCall, attempt.tool \in {"write_file", "edit_file"}, ~Stopped
  PROVE  required_mode_for(attempt.tool) = "workspace-write"
<1>1. setup.stage = "ready"
  BY DEF GateInv, AttemptMade
<1>2. attempt.tool \in definitions(setup.names, setup.browser, setup.allowed)
  BY ToolNames DEF Stopped, Known, definitions
<1> QED
  BY <1>1, <1>2, PolicyHolds, ToolNames

LEMMA BashRequired ==
  ASSUME GateInv, setup.stage = "ready"
  PROVE  required_mode_for("bash") = "danger-full-access"
BY PolicyHolds, ToolNames

LEMMA PermittedRuns ==
  ASSUME GateInv
  PROVE  RunsOnlyPermitted
<1>1. SUFFICES ASSUME attempt.stage = "ran" PROVE RunsOnlyPermitted
  BY DEF RunsOnlyPermitted
<1>2. /\ attempt # NoCall /\ setup.stage = "ready" /\ setup.mode \in Modes /\ attempt \in Attempts
      /\ attempt.input \in ToolInputs(attempt.tool) /\ ~Stopped /\ ~Refuses
      /\ Allows \/ attempt.approved
      /\ attempt.approved => asks_user(attempt.tool)
  BY <1>1, NoAttempt DEF GateInv, AttemptMade, SetupBuilt
<1>3. auto_allows(setup.mode, required_permission(attempt.tool)) \/ attempt.approved
  <2>1. CASE required_mode_for(attempt.tool) = required_permission(attempt.tool)
    BY <1>2, <2>1 DEF Allows
  <2>2. CASE required_mode_for(attempt.tool) = "danger-full-access"
    BY <1>2, <2>2 DEF Allows, auto_allows, Modes
  <2> QED
    BY <1>2, <2>1, <2>2, PolicyHolds
<1>4. ASSUME ~attempt.input.inside PROVE setup.mode \in {"danger-full-access", "allow"}
  <2>1. attempt.tool \in {"write_file", "edit_file"}
    BY <1>2, <1>4 DEF ToolInputs
  <2>2. check_file_write(setup.mode, attempt.input.inside)
    BY <1>2, <2>1, ToolNames DEF Refuses, maybe_enforce_permission_check
  <2> QED
    BY <1>2, <1>4, <2>2 DEF check_file_write, Modes
<1>5. ASSUME attempt.tool = "bash", ~validate_workspace_write(attempt.input.command)
      PROVE  setup.mode \in {"danger-full-access", "allow"}
  <2>1. validate_bash_command(attempt.input.command, setup.mode)
    BY <1>2, <1>5, ToolNames DEF Refuses, maybe_enforce_permission_check
  <2>2. setup.mode # "prompt" /\ setup.mode # "workspace-write"
    BY <1>5, <2>1 DEF validate_bash_command
  <2>3. setup.mode # "read-only"
    BY <1>2, <1>5, BashRequired DEF Allows, auto_allows, asks_user
  <2> QED
    BY <1>2, <2>2, <2>3 DEF Modes
<1> QED
  BY <1>3, <1>4, <1>5 DEF RunsOnlyPermitted

LEMMA EnforcerAgrees ==
  ASSUME GateInv
  PROVE  GatesAgree
<1>1. SUFFICES ASSUME attempt.stage = "denied", attempt.by = "enforcer", ~attempt.approved
               PROVE  \/ ~attempt.input.inside
                      \/ attempt.tool = "bash" /\ ~validate_bash_command(attempt.input.command, setup.mode)
  BY DEF GatesAgree
<1>2. /\ attempt # NoCall /\ setup.stage = "ready" /\ setup.mode \in Modes /\ attempt \in Attempts
      /\ ~Stopped /\ Refuses /\ Allows
  BY <1>1, NoAttempt DEF GateInv, AttemptMade, SetupBuilt
<1>3. CASE attempt.tool \in {"write_file", "edit_file"}
  <2>1. required_mode_for(attempt.tool) = "workspace-write"
    BY <1>2, <1>3, WritersRequired
  <2>2. setup.mode \in {"workspace-write", "danger-full-access", "allow"}
    BY <1>2, <2>1 DEF Allows, auto_allows, Modes
  <2>3. ~check_file_write(setup.mode, attempt.input.inside)
    BY <1>2, <1>3 DEF Refuses, maybe_enforce_permission_check
  <2> QED
    BY <2>2, <2>3 DEF check_file_write
<1>4. CASE attempt.tool = "bash"
  BY <1>2, <1>4 DEF Refuses, maybe_enforce_permission_check
<1>5. CASE attempt.tool \notin {"write_file", "edit_file", "bash"}
  BY <1>2, <1>5 DEF Refuses, maybe_enforce_permission_check, enforcer_check, Allows
<1> QED
  BY <1>3, <1>4, <1>5

LEMMA ApprovalLost ==
  ASSUME GateInv
  PROVE  ApprovalLostExactly
<1>1. SUFFICES ASSUME attempt.stage \in {"ran", "denied"}, attempt.approved, attempt.by # "registry"
               PROVE  attempt.by = "enforcer" <=>
                        CASE setup.mode = "prompt" -> attempt.tool \in {"bash", "write_file", "edit_file"}
                          [] attempt.tool = "bash" -> ~validate_bash_command(attempt.input.command, setup.mode)
                          [] OTHER -> attempt.tool \in Enforced
  BY DEF ApprovalLostExactly
<1>2. /\ attempt # NoCall /\ setup.stage = "ready" /\ setup.mode \in Modes /\ attempt \in Attempts
      /\ ~Stopped /\ asks_user(attempt.tool) /\ (attempt.by = "enforcer" <=> Refuses)
  BY <1>1, NoAttempt DEF GateInv, AttemptMade, SetupBuilt
<1>3. CASE setup.mode = "prompt"
  <2>1. CASE attempt.tool \in {"write_file", "edit_file"}
    BY <1>2, <1>3, <2>1, ToolNames DEF Refuses, maybe_enforce_permission_check, check_file_write
  <2>2. CASE attempt.tool = "bash"
    BY <1>2, <1>3, <2>2, ToolNames DEF Refuses, maybe_enforce_permission_check, validate_bash_command
  <2>3. CASE attempt.tool \notin {"write_file", "edit_file", "bash"}
    BY <1>2, <1>3, <2>3 DEF Refuses, maybe_enforce_permission_check, enforcer_check
  <2> QED
    BY <2>1, <2>2, <2>3
<1>4. CASE setup.mode # "prompt"
  <2>1. ~Allows /\ setup.mode = "workspace-write" /\ required_mode_for(attempt.tool) = "danger-full-access"
    BY <1>2, <1>4 DEF asks_user, Allows
  <2>2. attempt.tool \notin {"write_file", "edit_file"}
    BY <1>2, <2>1, WritersRequired
  <2>3. CASE attempt.tool = "bash"
    BY <1>2, <1>4, <2>3, ToolNames DEF Refuses, maybe_enforce_permission_check
  <2>4. CASE attempt.tool # "bash"
    BY <1>2, <1>4, <2>1, <2>2, <2>4 DEF Refuses, maybe_enforce_permission_check, enforcer_check, Allows
  <2> QED
    BY <2>3, <2>4
<1> QED
  BY <1>3, <1>4

LEMMA OfferedCallable ==
  ASSUME GateInv
  PROVE  OfferedIsCallable
<1>1. SUFFICES ASSUME setup.stage = "ready" PROVE OfferedIsCallable
  BY DEF OfferedIsCallable
<1> DEFINE shown == definitions(setup.names, setup.browser, setup.allowed)
<1>2. setup.allowed = normalize_allowed_tools(setup.names, setup.browser, setup.tokens)
  BY <1>1 DEF GateInv, SetupBuilt
<1>3. setup.policy = [t \in shown |-> required_permission(t)]
  BY <1>1 DEF GateInv, SetupBuilt, permission_specs
<1>4. \A t \in shown : setup.allowed # Unlisted => t \in setup.allowed
  BY DEF definitions
<1>5. \A t \in shown : t \in DOMAIN setup.policy /\ setup.policy[t] = required_permission(t)
  BY <1>3
<1>6. IF setup.tokens = {} THEN setup.allowed = Unlisted
      ELSE setup.allowed = {name_map(t) : t \in setup.tokens}
  BY <1>1, <1>2 DEF normalize_allowed_tools, GateInv, SetupBuilt
<1>7. ASSUME NEW t \in shown, t \in browser_tool_specs, t \notin Names(setup.names)
      PROVE  t \in setup.tokens
  <2>1. setup.allowed # Unlisted /\ t \in setup.allowed
    BY <1>7 DEF definitions
  <2>2. PICK u \in setup.tokens : t = name_map(u)
    BY <1>6, <2>1
  <2>3. u \notin DOMAIN Alias
    BY <1>7, <2>2 DEF name_map, Alias, browser_tool_specs
  <2> QED
    BY <2>2, <2>3 DEF name_map
<1>8. ASSUME NEW t \in setup.tokens, t \in DOMAIN Alias
      PROVE  Alias[t] \in shown
  <2>1. Alias[t] \in setup.allowed
    BY <1>6, <1>8 DEF name_map
  <2>2. Alias[t] \in {"read_file", "write_file", "edit_file", "glob_search", "grep_search"}
    BY <1>8 DEF Alias
  <2>3. Alias[t] \in mvp_tool_specs /\ Alias[t] \notin browser_tool_specs
    BY <2>2 DEF mvp_tool_specs, FileTools, browser_tool_specs
  <2> QED
    BY <2>1, <2>3 DEF definitions, canonical_names
<1> QED
  BY <1>1, <1>4, <1>5, <1>7, <1>8 DEF OfferedIsCallable

(* The tables do not overlap.                                              *)
LEMMA ReadOnlyIsHarmless ==
  \A n \in READ_ONLY_COMMANDS \cup {"git"} : n \notin WORKSPACE_WRITE_MACHINE_COMMANDS /\ n # "rm"
BY DEF READ_ONLY_COMMANDS, WORKSPACE_WRITE_MACHINE_COMMANDS

LEMMA ModesAreNested ==
  ModesNested
<1>1. SUFFICES ASSUME NEW c, validate_bash_command(c, "read-only"), c.redirect # "quoted"
               PROVE  validate_bash_command(c, "workspace-write")
  BY DEF ModesNested
<1>2. c.segments # <<>> /\ validate_read_only(c)
  BY <1>1 DEF validate_bash_command
<1>3. ~raw_device_write_detected(c)
  BY <1>1, <1>2 DEF validate_read_only, has_write_redirection, raw_device_write_detected
<1>4. ASSUME NEW i \in DOMAIN c.segments
      PROVE  /\ ~c.segments[i].sudo /\ c.segments[i].name \notin WORKSPACE_WRITE_MACHINE_COMMANDS
             /\ ~recursive_rm_reason(c.segments[i])
  <2>1. read_only_segment(c.segments[i])
    BY <1>2, <1>4 DEF validate_read_only
  <2>2. c.segments[i].name \in READ_ONLY_COMMANDS \cup {"git"}
    BY <2>1 DEF read_only_segment
  <2> QED
    BY <2>1, <2>2, ReadOnlyIsHarmless DEF read_only_segment, recursive_rm_reason
<1>5. validate_workspace_write(c)
  BY <1>3, <1>4 DEF validate_workspace_write, destructive_reason
<1> QED
  BY <1>2, <1>5 DEF validate_bash_command

LEMMA GateHolds ==
  ASSUME GateInv
  PROVE  RunsOnlyPermitted /\ GatesAgree /\ ApprovalLostExactly /\ OfferedIsCallable /\ ModesNested
BY PermittedRuns, EnforcerAgrees, ApprovalLost, OfferedCallable, ModesAreNested

(* What the gate promises (Extensions.ToolsGated), whatever plugins,       *)
(* --allowedTools lists and command lines there are: a tool that ran was   *)
(* allowed by its permission in the mode or by the user, policy and        *)
(* enforcer disagree only for the path or the command, an approval is      *)
(* overruled only there, the offered tools are the callable ones, and a    *)
(* wider mode refuses nothing that a narrower one allows.                  *)
THEOREM GateSafe == PartsSpec => []ToolsGated
<1>1. PartsInit => (part = "gate" => GateInv)
  BY GateStart DEF PartsInit
<1>2. (part = "gate" => GateInv) /\ [PartsNext]_partsVars => (part = "gate" => GateInv)'
  BY GateMoves, GateRests DEF PartsNext, partsVars
<1>3. (part = "gate" => GateInv) => ToolsGated
  BY GateHolds DEF ToolsGated
<1> QED
  BY <1>1, <1>2, <1>3, PTL DEF PartsSpec
-----------------------------------------------------------------------------
(***************************************************************************)
(* MCP servers: what is in the pipe of each process, which caller holds    *)
(* the lock at which request, and what the tool index has learnt.          *)
(***************************************************************************)

Requests == {"initialize", "list", "call"}
BridgeResults ==
  [kind : {"none", "unknown tool", "call failed", "refused", "discovery failed"}]
    \cup [kind : {"answer"}, of : Requests, from : Stdio, asked : Stdio]
BridgeHolds ==
  [holder : Callers, phase : {"ready", "initialize", "list", "route", "invoke", "shutdown"},
   i : 1..Len(Order), server : Stdio \cup {"none"}, result : BridgeResults]
BridgeCallers ==
  [at : {"idle"}] \cup [at : {"waiting"}, server : Stdio] \cup [at : {"told"}, result : BridgeResults]
Pipes == [state : {"none", "running", "exited"}, initialized : BOOLEAN,
          asked : Seq(Requests), out : Seq(Requests \cup {Notice})]

BridgeTypes ==
  /\ process \in [Stdio -> Pipes]
  /\ DOMAIN tool_index \in SUBSET {Normal[s] : s \in Stdio}
  /\ \A n \in DOMAIN tool_index : tool_index[n] \in Stdio /\ Normal[tool_index[n]] = n
  /\ lock \in {Free} \cup BridgeHolds
  /\ caller \in [Callers -> BridgeCallers]
  /\ notes \in Nat

(* Who holds the manager waits for it; a call goes to the route found.     *)
HolderWaits ==
  lock # Free =>
    /\ caller[lock.holder].at = "waiting"
    /\ lock.phase = "invoke" =>
         lock.server \in Stdio /\ Normal[lock.server] = Normal[caller[lock.holder].server]

(* What is asked of a server, and not yet read.                            *)
Awaited(s) ==
  IF lock = Free THEN <<>>
  ELSE IF lock.phase = "initialize" /\ Current = s THEN <<"initialize">>
  ELSE IF lock.phase = "list" /\ Current = s THEN <<"list">>
  ELSE IF lock.phase = "invoke" /\ lock.server = s THEN <<"call">>
  ELSE <<>>

(* As long as nothing was written unasked, nothing else is in the pipe; a  *)
(* server that exited leaves requests unread.                              *)
QuietPipe(p, awaited) ==
  /\ p.state = "none" => p.asked = <<>> /\ p.out = <<>>
  /\ p.state = "exited" => p.out \in {<<>>, awaited}
  /\ p.state = "running" => \/ p.out = <<>> /\ p.asked = awaited
                            \/ p.out = awaited /\ p.asked = <<>>
PipesQuiet == notes = 0 => \A s \in Stdio : QuietPipe(process[s], Awaited(s))

(* An answer, under way or told.                                           *)
ResultMatches(r) ==
  r.kind = "answer" =>
    /\ notes = 0 => r.of = "call"
    /\ (\A s, t \in Stdio : s # t => Normal[s] # Normal[t]) => r.from = r.asked
ResultsMatch ==
  /\ lock # Free => ResultMatches(lock.result)
  /\ \A c \in Callers : caller[c].at = "told" => ResultMatches(caller[c].result)

(* The shutdown goes through all servers.                                  *)
ServersStopped ==
  /\ lock = Free /\ ~abandoned => \A s \in Stdio : process[s].state = "none"
  /\ lock # Free => (lock.phase = "shutdown" =>
       \A j \in 1..(lock.i - 1) : process[Order[j]].state = "none")

(* The discovery starts all servers, one after the other.                  *)
Started(s) == process[s].state # "none"
ServersStarted ==
  lock # Free =>
    /\ lock.phase \in {"ready", "initialize", "list"} =>
         \A j \in 1..(lock.i - 1) : Started(Order[j])
    /\ lock.phase \in {"initialize", "list"} => Started(Current)
    /\ lock.phase \in {"route", "invoke"} => \A s \in Stdio : Started(s)

BridgeInv ==
  BridgeTypes /\ HolderWaits /\ PipesQuiet /\ ResultsMatch /\ ServersStopped /\ ServersStarted

(* The pipe of one server.                                                 *)
LEMMA PipeFields ==
  ASSUME NEW p \in Pipes
  PROVE  /\ p.state \in {"none", "running", "exited"} /\ p.initialized \in BOOLEAN
         /\ p.asked \in Seq(Requests) /\ p.out \in Seq(Requests \cup {Notice})
BY DEF Pipes

LEMMA FreshPipes ==
  /\ NoProcess \in Pipes /\ Spawned \in Pipes
  /\ NoProcess.state = "none" /\ Spawned.state = "running"
  /\ \A a : QuietPipe(NoProcess, a)
  /\ QuietPipe(Spawned, <<>>)
<1>1. <<>> \in Seq(Requests) /\ <<>> \in Seq(Requests \cup {Notice})
  OBVIOUS
<1> QED
  BY <1>1 DEF NoProcess, Spawned, Pipes, QuietPipe

LEMMA PipeAsked ==
  ASSUME NEW p \in Pipes, NEW r \in Requests, p.state # "none"
  PROVE  LET q == [p EXCEPT !.asked = Append(@, r)] IN
         /\ q \in Pipes /\ q.state # "none"
         /\ QuietPipe(p, <<>>) => QuietPipe(q, <<r>>)
<1> DEFINE q == [p EXCEPT !.asked = Append(@, r)]
<1>1. Append(p.asked, r) \in Seq(Requests)
  BY PipeFields
<1>2. q.state = p.state /\ q.initialized = p.initialized /\ q.asked = Append(p.asked, r) /\ q.out = p.out
  BY DEF Pipes
<1>3. q \in Pipes
  BY <1>1 DEF Pipes
<1>4. p.asked = <<>> => q.asked = <<r>>
  BY <1>2
<1>5. QuietPipe(p, <<>>) => QuietPipe(q, <<r>>)
  BY <1>2, <1>4 DEF QuietPipe
<1> QED
  BY <1>2, <1>3, <1>5

LEMMA PipeRead ==
  ASSUME NEW p \in Pipes, p.out # <<>>, NEW b \in BOOLEAN
  PROVE  LET q == [p EXCEPT !.out = Tail(@)]
             z == [p EXCEPT !.out = Tail(@), !.initialized = b] IN
         /\ q \in Pipes /\ z \in Pipes /\ Head(p.out) \in Requests \cup {Notice}
         /\ q.state = p.state /\ z.state = p.state
         /\ p.state # "none" => \A r \in Requests : QuietPipe(p, <<r>>) => Head(p.out) = r /\ QuietPipe(q, <<>>) /\ QuietPipe(z, <<>>)
<1> DEFINE q == [p EXCEPT !.out = Tail(@)]
           z == [p EXCEPT !.out = Tail(@), !.initialized = b]
<1>1. Tail(p.out) \in Seq(Requests \cup {Notice}) /\ Head(p.out) \in Requests \cup {Notice}
  BY PipeFields
<1>2. /\ q.state = p.state /\ q.asked = p.asked /\ q.out = Tail(p.out)
      /\ z.state = p.state /\ z.asked = p.asked /\ z.out = Tail(p.out)
  BY DEF Pipes
<1>3. q \in Pipes /\ z \in Pipes
  BY <1>1 DEF Pipes
<1>4. ASSUME NEW r \in Requests, QuietPipe(p, <<r>>), p.state # "none"
      PROVE  Head(p.out) = r /\ QuietPipe(q, <<>>) /\ QuietPipe(z, <<>>)
  <2>1. p.out = <<r>> /\ (p.state = "running" => p.asked = <<>>)
    BY <1>4, PipeFields DEF QuietPipe
  <2>2. Head(p.out) = r /\ Tail(p.out) = <<>>
    BY <2>1
  <2> HIDE DEF q, z
  <2>3. q.out = <<>> /\ z.out = <<>>
    BY <1>2, <2>2
  <2>4. QuietPipe(q, <<>>)
    BY <1>2, <1>4, <2>1, <2>3 DEF QuietPipe
  <2>5. QuietPipe(z, <<>>)
    BY <1>2, <1>4, <2>1, <2>3 DEF QuietPipe
  <2> QED
    BY <2>2, <2>4, <2>5
<1> QED
  BY <1>1, <1>2, <1>3, <1>4

LEMMA PipeReply ==
  ASSUME NEW p \in Pipes, p.state = "running", p.asked # <<>>
  PROVE  LET q == [p EXCEPT !.asked = Tail(@), !.out = Append(@, Head(p.asked))] IN
         /\ q \in Pipes /\ q.state = "running"
         /\ QuietPipe(p, <<>>) => QuietPipe(q, <<>>)
         /\ \A r \in Requests : QuietPipe(p, <<r>>) => QuietPipe(q, <<r>>)
<1> DEFINE q == [p EXCEPT !.asked = Tail(@), !.out = Append(@, Head(p.asked))]
<1>1. /\ Tail(p.asked) \in Seq(Requests) /\ Head(p.asked) \in Requests \cup {Notice}
      /\ p.out \in Seq(Requests \cup {Notice})
  BY PipeFields
<1>2. Append(p.out, Head(p.asked)) \in Seq(Requests \cup {Notice})
  BY <1>1
<1>3. q.state = "running" /\ q.asked = Tail(p.asked) /\ q.out = Append(p.out, Head(p.asked))
  BY DEF Pipes
<1>4. q \in Pipes
  BY <1>1, <1>2 DEF Pipes
<1>5. ASSUME NEW r \in Requests, QuietPipe(p, <<r>>)
      PROVE  QuietPipe(q, <<r>>)
  <2>1. p.asked = <<r>> /\ p.out = <<>>
    BY <1>5, <1>1 DEF QuietPipe
  <2>2. Tail(p.asked) = <<>> /\ Head(p.asked) = r /\ Append(p.out, Head(p.asked)) = <<r>>
    BY <2>1
  <2> QED
    BY <1>3, <2>2 DEF QuietPipe
<1>6. ~QuietPipe(p, <<>>)
  BY DEF QuietPipe
<1> QED
  BY <1>3, <1>4, <1>5, <1>6

LEMMA PipeNoted ==
  ASSUME NEW p \in Pipes, p.state = "running"
  PROVE  LET q == [p EXCEPT !.out = Append(@, Notice)] IN q \in Pipes /\ q.state = "running"
<1>1. Append(p.out, Notice) \in Seq(Requests \cup {Notice})
  BY PipeFields
<1> QED
  BY <1>1 DEF Pipes

LEMMA PipeClosed ==
  ASSUME NEW p \in Pipes, p.state = "running"
  PROVE  LET q == [p EXCEPT !.state = "exited"] IN
         /\ q \in Pipes /\ q.state = "exited"
         /\ \A a : QuietPipe(p, a) => QuietPipe(q, a)
<1> DEFINE q == [p EXCEPT !.state = "exited"]
<1>1. q \in Pipes /\ q.state = "exited" /\ q.asked = p.asked /\ q.out = p.out
  BY DEF Pipes
<1> QED
  BY <1>1 DEF QuietPipe

LEMMA OnePipe ==
  ASSUME process \in [Stdio -> Pipes], NEW s \in Stdio, NEW p \in Pipes,
         process' = [process EXCEPT ![s] = p]
  PROVE  /\ process' \in [Stdio -> Pipes]
         /\ process'[s] = p
         /\ \A t \in Stdio : t # s => process'[t] = process[t]
OBVIOUS

(* The lock: free, or held by a caller that works on a server.             *)
LEMMA HeldLock ==
  ASSUME BridgeTypes, lock.holder # "none"
  PROVE  /\ lock # Free /\ lock \in BridgeHolds
         /\ lock.holder \in Callers /\ lock.i \in 1..Len(Order) /\ Len(Order) \in Nat
         /\ lock.phase \in {"ready", "initialize", "list", "route", "invoke", "shutdown"}
         /\ Current \in Stdio /\ lock.result \in BridgeResults /\ process[Current] \in Pipes
<1>1. lock # Free /\ lock \in BridgeHolds
  BY DEF BridgeTypes, Free
<1>2. /\ lock.holder \in Callers /\ lock.i \in 1..Len(Order)
      /\ lock.phase \in {"ready", "initialize", "list", "route", "invoke", "shutdown"}
      /\ lock.result \in BridgeResults
  BY <1>1 DEF BridgeHolds
<1>3. Len(Order) \in Nat
  BY BridgeAssumption
<1>4. Current \in Stdio
  BY <1>2 DEF Current, Stdio
<1> QED
  BY <1>1, <1>2, <1>3, <1>4 DEF BridgeTypes

LEMMA HoldNotFree ==
  ASSUME NEW l \in BridgeHolds
  PROVE  l # Free /\ l.holder \in Callers /\ l.holder # "none"
BY BridgeAssumption DEF BridgeHolds, Free

LEMMA NothingAwaited ==
  ASSUME lock = Free \/ lock.phase \in {"ready", "route", "shutdown"}
  PROVE  \A s : Awaited(s) = <<>>
BY DEF Awaited

(* Most steps leave results, callers and routes alone.                     *)
LEMMA ResultsStay ==
  ASSUME BridgeInv, notes' = 0 => notes = 0, caller' = caller,
         lock' # Free => lock # Free /\ (lock'.result = lock.result \/ lock'.result.kind # "answer")
  PROVE  ResultsMatch'
BY DEF BridgeInv, ResultsMatch, ResultMatches

(* register_server, set_auth_status and disconnect touch the registry only. *)
LEMMA RegistryOnly ==
  ASSUME BridgeInv, UNCHANGED <<process, tool_index, lock, caller, abandoned, notes>>
  PROVE  BridgeInv'
<1>1. BridgeTypes'
  BY DEF BridgeInv, BridgeTypes
<1>2. HolderWaits'
  BY DEF BridgeInv, HolderWaits
<1>3. PipesQuiet'
  BY DEF BridgeInv, PipesQuiet, Awaited, Current
<1>4. ResultsMatch'
  BY DEF BridgeInv, ResultsMatch, ResultMatches
<1>5. ServersStopped'
  BY DEF BridgeInv, ServersStopped
<1>6. ServersStarted'
  BY DEF BridgeInv, ServersStarted, Started, Current
<1> QED
  BY <1>1, <1>2, <1>3, <1>4, <1>5, <1>6 DEF BridgeInv

LEMMA BridgeRests ==
  ASSUME BridgeInv, UNCHANGED mcpVars
  PROVE  BridgeInv'
BY RegistryOnly DEF mcpVars

LEMMA CallsMade ==
  ASSUME BridgeInv, NEW c \in Callers, NEW s \in Stdio, call_tool(c, s)
  PROVE  BridgeInv'
<1> DEFINE r == IF registry[s] = "connected" THEN [at |-> "waiting", server |-> s]
                ELSE Told([kind |-> "refused"])
<1>1. /\ caller' = [caller EXCEPT ![c] = r] /\ caller[c].at \in {"idle", "told"}
      /\ UNCHANGED <<process, tool_index, lock, abandoned, notes>>
  BY DEF call_tool
<1>2. r \in BridgeCallers /\ ~(r.at = "told" /\ r.result.kind = "answer")
  BY DEF BridgeCallers, Told, BridgeResults
<1> HIDE DEF r
<1>3. /\ caller' \in [Callers -> BridgeCallers] /\ caller'[c] = r
      /\ \A d \in Callers : d # c => caller'[d] = caller[d]
  BY <1>1, <1>2 DEF BridgeInv, BridgeTypes
<1>4. BridgeTypes'
  BY <1>1, <1>3 DEF BridgeInv, BridgeTypes
<1>5. lock # Free => lock.holder \in Callers /\ lock.holder # c
  BY <1>1, HoldNotFree DEF BridgeInv, BridgeTypes, HolderWaits
<1>6. HolderWaits'
  BY <1>1, <1>3, <1>5 DEF BridgeInv, HolderWaits
<1>7. PipesQuiet'
  BY <1>1 DEF BridgeInv, PipesQuiet, Awaited, Current
<1>8. ResultsMatch'
  <2>1. (lock # Free => ResultMatches(lock.result))'
    BY <1>1 DEF BridgeInv, ResultsMatch, ResultMatches
  <2>2. (\A d \in Callers : caller[d].at = "told" => ResultMatches(caller[d].result))'
    BY <1>1, <1>2, <1>3 DEF BridgeInv, ResultsMatch, ResultMatches
  <2> QED
    BY <2>1, <2>2 DEF ResultsMatch
<1>9. ServersStopped'
  BY <1>1 DEF BridgeInv, ServersStopped
<1>10. ServersStarted'
  BY <1>1 DEF BridgeInv, ServersStarted, Started, Current
<1> QED
  BY <1>4, <1>6, <1>7, <1>8, <1>9, <1>10 DEF BridgeInv

LEMMA LockTaken ==
  ASSUME BridgeInv, NEW c \in Callers, spawn_tool_call(c)
  PROVE  BridgeInv'
<1> DEFINE l == [holder |-> c, phase |-> "ready", i |-> 1, server |-> "none", result |-> [kind |-> "none"]]
<1>1. /\ caller[c].at = "waiting" /\ lock = Free /\ lock' = l
      /\ UNCHANGED <<process, tool_index, caller, abandoned, notes>>
  BY DEF spawn_tool_call
<1>2. 1 \in 1..Len(Order)
  <2>1. caller[c] \in BridgeCallers
    BY DEF BridgeInv, BridgeTypes
  <2>2. caller[c].server \in Stdio
    BY <1>1, <2>1 DEF BridgeCallers
  <2> QED
    BY <2>2, BridgeAssumption DEF Stdio
<1>3. l \in BridgeHolds
  BY <1>2 DEF BridgeHolds, BridgeResults
<1>4. l.holder = c /\ l.phase = "ready" /\ l.i = 1 /\ l.result.kind = "none"
  OBVIOUS
<1> HIDE DEF l
<1>5. BridgeTypes'
  BY <1>1, <1>3 DEF BridgeInv, BridgeTypes
<1>6. HolderWaits'
  BY <1>1, <1>4 DEF HolderWaits
<1>7. PipesQuiet'
  <2>1. \A s : Awaited(s) = <<>>
    BY <1>1 DEF Awaited
  <2>2. \A s : Awaited(s)' = <<>>
    BY <1>1, <1>4 DEF Awaited
  <2> QED
    BY <1>1, <2>1, <2>2 DEF BridgeInv, PipesQuiet
<1>8. ResultsMatch'
  BY <1>1, <1>4 DEF BridgeInv, ResultsMatch, ResultMatches
<1>9. ServersStopped'
  BY <1>1, <1>3, <1>4, HoldNotFree DEF ServersStopped
<1>10. ServersStarted'
  BY <1>1, <1>4 DEF ServersStarted
<1> QED
  BY <1>5, <1>6, <1>7, <1>8, <1>9, <1>10 DEF BridgeInv

(* Processes go on, except for a shutdown.                                 *)
LEMMA StartedStay ==
  ASSUME BridgeTypes, ServersStarted, lock # Free, \A t \in Stdio : Started(t) => Started(t)'
  PROVE  /\ lock.i \in 1..Len(Order) /\ Len(Order) \in Nat
         /\ lock.phase \in {"ready", "initialize", "list"} =>
              \A j \in 1..(lock.i - 1) : Started(Order[j])'
         /\ lock.phase \in {"initialize", "list"} => \A t \in Stdio : t = Current => Started(t)'
         /\ lock.phase \in {"route", "invoke"} => \A t \in Stdio : Started(t)'
<1>1. lock.i \in 1..Len(Order) /\ Len(Order) \in Nat
  BY BridgeAssumption DEF BridgeTypes, BridgeHolds
<1>2. \A j \in 1..(lock.i - 1) : Order[j] \in Stdio
  BY <1>1 DEF Stdio
<1> QED
  BY <1>1, <1>2 DEF ServersStarted

(* The steps of a server change its own pipe.                              *)
LEMMA ServerActs ==
  ASSUME BridgeInv, NEW s \in Stdio, NEW p \in Pipes, process[s].state = "running",
         process' = [process EXCEPT ![s] = p], p.state # "none",
         notes' = notes \/ notes' = notes + 1,
         UNCHANGED <<tool_index, lock, caller, abandoned>>,
         notes' = notes =>
           /\ QuietPipe(process[s], <<>>) => QuietPipe(p, <<>>)
           /\ \A r \in Requests : QuietPipe(process[s], <<r>>) => QuietPipe(p, <<r>>)
  PROVE  BridgeInv'
<1>1. process[s] \in Pipes /\ process \in [Stdio -> Pipes] /\ notes \in Nat
  BY DEF BridgeInv, BridgeTypes
<1>5. process' \in [Stdio -> Pipes] /\ process'[s] = p /\ \A t \in Stdio : t # s => process'[t] = process[t]
  BY <1>1
<1>6. notes' \in Nat /\ (notes' = 0 => notes = 0 /\ notes' = notes)
  BY <1>1
<1>7. BridgeTypes'
  BY <1>5, <1>6 DEF BridgeInv, BridgeTypes
<1>8. HolderWaits'
  BY DEF BridgeInv, HolderWaits
<1>9. PipesQuiet'
  <2>1. \A t \in Stdio : Awaited(t)' = Awaited(t)
    BY DEF Awaited, Current
  <2>2. Awaited(s) = <<>> \/ \E r \in Requests : Awaited(s) = <<r>>
    BY DEF Awaited, Requests
  <2>3. SUFFICES ASSUME notes' = 0, NEW t \in Stdio PROVE QuietPipe(process[t], Awaited(t))'
    BY DEF PipesQuiet
  <2>4. QuietPipe(process[t], Awaited(t))
    BY <1>6, <2>3 DEF BridgeInv, PipesQuiet
  <2>5. CASE t = s
    <3>1. QuietPipe(p, Awaited(s))
      BY <1>6, <2>2, <2>3, <2>4, <2>5
    <3> QED
      BY <3>1, <1>5, <2>1, <2>5 DEF QuietPipe
  <2>6. CASE t # s
    BY <1>5, <2>1, <2>4, <2>6 DEF QuietPipe
  <2> QED
    BY <2>5, <2>6
<1>10. ResultsMatch'
  BY <1>6, ResultsStay
<1>11. ServersStopped'
  <2>1. \A t \in Stdio : process[t].state = "none" => process'[t].state = "none"
    BY <1>1, <1>5
  <2>2. lock = Free /\ ~abandoned => \A t \in Stdio : process'[t].state = "none"
    BY <2>1 DEF BridgeInv, ServersStopped
  <2>3. ASSUME lock # Free, lock.phase = "shutdown", NEW j \in 1..(lock.i - 1)
        PROVE  process'[Order[j]].state = "none"
    <3>1. lock \in BridgeHolds
      BY <2>3 DEF BridgeInv, BridgeTypes
    <3>2. lock.i \in 1..Len(Order) /\ Len(Order) \in Nat
      BY <3>1, BridgeAssumption DEF BridgeHolds
    <3>3. Order[j] \in Stdio
      BY <3>2 DEF Stdio
    <3> QED
      BY <2>1, <2>3, <3>3 DEF BridgeInv, ServersStopped
  <2> QED
    BY <2>2, <2>3 DEF ServersStopped
<1>12. ServersStarted'
  <2>1. \A t \in Stdio : Started(t) => Started(t)'
    BY <1>5 DEF Started
  <2>2. lock # Free => Current \in Stdio
    <3>1. lock # Free => lock.i \in 1..Len(Order)
      BY DEF BridgeInv, BridgeTypes, BridgeHolds
    <3> QED
      BY <3>1 DEF Current, Stdio
  <2>3. lock' = lock /\ Current' = Current
    BY DEF Current
  <2>4. lock # Free /\ lock.phase \in {"initialize", "list"} => Started(Current)'
    <3>1. PICK c : c = Current
      OBVIOUS
    <3>2. lock # Free /\ lock.phase \in {"initialize", "list"} => Started(c)'
      BY <2>1, <2>2, <3>1, StartedStay DEF BridgeInv
    <3> QED
      BY <2>3, <3>1, <3>2 DEF Started
  <2> QED
    BY <2>1, <2>3, <2>4, StartedStay DEF BridgeInv, ServersStarted
<1> QED
  BY <1>7, <1>8, <1>9, <1>10, <1>11, <1>12 DEF BridgeInv

LEMMA ServerLives ==
  ASSUME BridgeInv, NEW s \in Stdio, reply(s) \/ notify(s) \/ server_exits(s)
  PROVE  BridgeInv'
<1>1. process[s].state = "running" /\ process[s] \in Pipes /\ process \in [Stdio -> Pipes] /\ notes \in Nat
  BY DEF BridgeInv, BridgeTypes, reply, notify, server_exits
<1>2. UNCHANGED <<tool_index, lock, caller, abandoned>>
  BY DEF reply, notify, server_exits
<1>3. CASE reply(s)
  <2> DEFINE q == [process[s] EXCEPT !.asked = Tail(@), !.out = Append(@, Head(process[s].asked))]
  <2>1. process' = [process EXCEPT ![s] = q] /\ process[s].asked # <<>> /\ notes' = notes
    BY <1>3 DEF reply
  <2> HIDE DEF q
  <2>2. /\ q \in Pipes /\ q.state = "running"
        /\ QuietPipe(process[s], <<>>) => QuietPipe(q, <<>>)
        /\ \A r \in Requests : QuietPipe(process[s], <<r>>) => QuietPipe(q, <<r>>)
    BY <1>1, <2>1, PipeReply DEF q
  <2> QED
    BY <1>1, <1>2, <2>1, <2>2, ServerActs
<1>4. CASE notify(s)
  <2> DEFINE q == [process[s] EXCEPT !.out = Append(@, Notice)]
  <2>1. process' = [process EXCEPT ![s] = q] /\ notes' = notes + 1 /\ notes' # notes
    BY <1>4, <1>1 DEF notify
  <2>2. q \in Pipes /\ q.state = "running"
    BY <1>1, PipeNoted
  <2> HIDE DEF q
  <2> QED
    BY <1>1, <1>2, <2>1, <2>2, ServerActs
<1>5. CASE server_exits(s)
  <2> DEFINE q == [process[s] EXCEPT !.state = "exited"]
  <2>1. process' = [process EXCEPT ![s] = q] /\ notes' = notes
    BY <1>5 DEF server_exits
  <2> HIDE DEF q
  <2>2. q \in Pipes /\ q.state = "exited" /\ \A a : QuietPipe(process[s], a) => QuietPipe(q, a)
    BY <1>1, PipeClosed DEF q
  <2> QED
    BY <1>1, <1>2, <2>1, <2>2, ServerActs
<1> QED
  BY <1>3, <1>4, <1>5

(* The routes, of which each leads to the server it is named for.          *)
Routes == /\ DOMAIN tool_index \in SUBSET {Normal[s] : s \in Stdio}
          /\ \A n \in DOMAIN tool_index : tool_index[n] \in Stdio /\ Normal[tool_index[n]] = n

(* A step of the call that keeps the lock and works on one pipe.           *)
LEMMA CallGoesOn ==
  ASSUME BridgeInv, lock.holder # "none", NEW s \in Stdio, NEW p \in Pipes,
         process' = [process EXCEPT ![s] = p],
         lock' \in BridgeHolds, lock'.holder = lock.holder, UNCHANGED <<caller, notes>>,
         Routes', ResultsMatch', ServersStarted',
         lock'.phase = "invoke" =>
           lock'.server \in Stdio /\ Normal[lock'.server] = Normal[caller[lock.holder].server],
         lock'.phase = "shutdown" => lock'.i = 1,
         notes = 0 => QuietPipe(p, Awaited(s)'),
         \A t \in Stdio : t # s => Awaited(t)' = Awaited(t)
  PROVE  BridgeInv'
<1>1. process \in [Stdio -> Pipes] /\ caller \in [Callers -> BridgeCallers] /\ notes \in Nat
  BY DEF BridgeInv, BridgeTypes
<1>2. process' \in [Stdio -> Pipes] /\ process'[s] = p /\ \A t \in Stdio : t # s => process'[t] = process[t]
  BY <1>1
<1>3. lock # Free /\ lock' # Free
  BY HoldNotFree DEF Free
<1>4. BridgeTypes'
  BY <1>1, <1>2 DEF BridgeTypes, Routes
<1>5. HolderWaits'
  BY <1>3 DEF BridgeInv, HolderWaits
<1>6. PipesQuiet'
  <2>1. SUFFICES ASSUME notes' = 0, NEW t \in Stdio PROVE QuietPipe(process[t], Awaited(t))'
    BY DEF PipesQuiet
  <2>2. CASE t = s
    BY <1>2, <2>1, <2>2 DEF QuietPipe
  <2>3. CASE t # s
    <3>1. QuietPipe(process[t], Awaited(t))
      BY <2>1 DEF BridgeInv, PipesQuiet
    <3> QED
      BY <1>2, <2>1, <2>3, <3>1 DEF QuietPipe
  <2> QED
    BY <2>2, <2>3
<1>7. ServersStopped'
  BY <1>3 DEF ServersStopped
<1> QED
  BY <1>4, <1>5, <1>6, <1>7 DEF BridgeInv

(* A step that gives the lock back with the error of the discovery.        *)
LEMMA CallBreaksOff ==
  ASSUME BridgeInv, lock.holder # "none", NEW s \in Stdio, NEW p \in Pipes,
         process' = [process EXCEPT ![s] = p], discovery_fails, UNCHANGED <<tool_index, notes>>,
         notes = 0 => QuietPipe(p, <<>>),
         \A t \in Stdio : t # s => Awaited(t) = <<>>
  PROVE  BridgeInv'
<1> DEFINE r == Told([kind |-> "discovery failed"])
<1>1. process \in [Stdio -> Pipes] /\ caller \in [Callers -> BridgeCallers] /\ notes \in Nat
      /\ lock.holder \in Callers
  BY HeldLock DEF BridgeInv, BridgeTypes
<1>2. process' \in [Stdio -> Pipes] /\ process'[s] = p /\ \A t \in Stdio : t # s => process'[t] = process[t]
  BY <1>1
<1>3. r \in BridgeCallers /\ ~(r.at = "told" /\ r.result.kind = "answer")
  BY DEF BridgeCallers, Told, BridgeResults
<1>4. caller' = [caller EXCEPT ![lock.holder] = r] /\ lock' = Free /\ abandoned' = TRUE
  BY DEF discovery_fails
<1> HIDE DEF r
<1>5. /\ caller' \in [Callers -> BridgeCallers] /\ caller'[lock.holder] = r
      /\ \A d \in Callers : d # lock.holder => caller'[d] = caller[d]
  BY <1>1, <1>3, <1>4
<1>6. BridgeTypes'
  BY <1>1, <1>2, <1>4, <1>5 DEF BridgeInv, BridgeTypes
<1>7. HolderWaits'
  BY <1>4 DEF HolderWaits
<1>8. PipesQuiet'
  <2>1. \A t : Awaited(t)' = <<>>
    BY <1>4 DEF Awaited
  <2>2. SUFFICES ASSUME notes' = 0, NEW t \in Stdio PROVE QuietPipe(process[t], Awaited(t))'
    BY DEF PipesQuiet
  <2>3. CASE t = s
    BY <1>2, <2>1, <2>2, <2>3 DEF QuietPipe
  <2>4. CASE t # s
    <3>1. QuietPipe(process[t], Awaited(t))
      BY <2>2 DEF BridgeInv, PipesQuiet
    <3> QED
      BY <1>2, <2>1, <2>2, <2>4, <3>1 DEF QuietPipe
  <2> QED
    BY <2>3, <2>4
<1>9. ResultsMatch'
  <2>1. (\A d \in Callers : caller[d].at = "told" => ResultMatches(caller[d].result))'
    BY <1>3, <1>5 DEF BridgeInv, ResultsMatch, ResultMatches
  <2> QED
    BY <1>4, <2>1 DEF ResultsMatch
<1>10. ServersStopped' /\ ServersStarted'
  BY <1>4 DEF ServersStopped, ServersStarted
<1> QED
  BY <1>6, <1>7, <1>8, <1>9, <1>10 DEF BridgeInv

LEMMA ServerReadied ==
  ASSUME BridgeInv, ensure_server_ready
  PROVE  BridgeInv'
<1>1. BridgeTypes /\ lock.holder # "none" /\ lock.phase = "ready" /\ UNCHANGED <<tool_index, notes>>
      /\ HolderWaits /\ ResultsMatch
  BY DEF ensure_server_ready, Holding, BridgeInv
<1>2. Current \in Stdio /\ lock \in BridgeHolds /\ lock # Free
  BY <1>1, HeldLock
<1>3. \A t \in Stdio : Awaited(t) = <<>>
  BY <1>1, NothingAwaited
<1>4. PICK s \in Stdio : s = Current
  BY <1>2
<1>5. process[s] \in Pipes /\ process \in [Stdio -> Pipes] /\ (notes = 0 => QuietPipe(process[s], <<>>))
  BY <1>3 DEF BridgeInv, BridgeTypes, PipesQuiet
<1>6. Routes /\ Routes'
  BY <1>1 DEF BridgeTypes, Routes
<1>7. CASE /\ process[s].state = "none" /\ process' = [process EXCEPT ![s] = Spawned]
           /\ UNCHANGED <<lock, caller, abandoned>>
  <2>1. \A t \in Stdio : Awaited(t)' = <<>>
    BY <1>1, <1>7 DEF Awaited
  <2>2. ResultsMatch'
    BY <1>1, <1>7, ResultsStay
  <2>3. \A t \in Stdio : Started(t) => Started(t)'
    BY <1>5, <1>7, FreshPipes DEF Started
  <2>4. ServersStarted'
    BY <1>1, <1>2, <1>7, <2>3, StartedStay DEF BridgeInv, ServersStarted
  <2> QED
    BY <1>1, <1>2, <1>3, <1>6, <1>7, <2>1, <2>2, <2>4, FreshPipes, CallGoesOn
<1>8. CASE process[s].state = "none" /\ discovery_fails /\ UNCHANGED process
  <2>1. process' = [process EXCEPT ![s] = process[s]]
    BY <1>5, <1>8
  <2> QED
    BY <1>1, <1>3, <1>5, <1>8, <2>1, CallBreaksOff
<1>9. ASSUME NEW r \in {"initialize", "list"}, process[s].state # "none",
             process' = [process EXCEPT ![s].asked = Append(@, r)],
             lock' = [lock EXCEPT !.phase = r], UNCHANGED <<caller, abandoned>>
      PROVE  BridgeInv'
  <2> DEFINE q == [process[s] EXCEPT !.asked = Append(@, r)]
  <2>1. process' = [process EXCEPT ![s] = q]
    BY <1>9
  <2>2. q \in Pipes /\ q.state # "none" /\ (QuietPipe(process[s], <<>>) => QuietPipe(q, <<r>>))
    BY <1>5, <1>9, PipeAsked DEF Requests
  <2> HIDE DEF q
  <2>3. /\ lock' \in BridgeHolds /\ lock'.holder = lock.holder /\ lock'.phase = r
        /\ lock'.i = lock.i /\ lock'.result = lock.result /\ lock' # Free
    BY <1>2, <1>9, HoldNotFree DEF BridgeHolds
  <2>4. Current' = s
    BY <1>4, <2>3 DEF Current
  <2>5. Awaited(s)' = <<r>> /\ \A t \in Stdio : t # s => Awaited(t)' = <<>>
    BY <1>9, <2>3, <2>4 DEF Awaited
  <2>6. ResultsMatch'
    BY <1>1, <1>2, <1>9, <2>3, ResultsStay
  <2>7. notes = 0 => QuietPipe(q, Awaited(s)')
    BY <1>5, <2>2, <2>5
  <2>8. \A t \in Stdio : t # s => Awaited(t)' = Awaited(t)
    BY <1>3, <2>5
  <2>9. lock'.phase # "invoke" /\ lock'.phase # "shutdown" /\ UNCHANGED <<caller, notes>> /\ q \in Pipes
    BY <1>1, <1>9, <2>2, <2>3
  <2>10. Started(s)' /\ \A t \in Stdio : Started(t) => Started(t)'
    BY <1>5, <2>1, <2>2 DEF Started
  <2>11. Started(Current)'
    BY <2>4, <2>10 DEF Started
  <2>12. ServersStarted'
    BY <1>1, <1>2, <2>3, <2>10, <2>11, StartedStay DEF BridgeInv, ServersStarted
  <2> QED
    BY <1>1, <1>6, <2>1, <2>3, <2>6, <2>7, <2>8, <2>9, <2>12, CallGoesOn
<1> QED
  BY <1>4, <1>7, <1>8, <1>9 DEF ensure_server_ready

(* Reading the next message of a pipe.                                     *)
LEMMA PipeTaken ==
  ASSUME BridgeInv, NEW s \in Stdio, read_response(s), notes' = notes,
         NEW r \in Requests, Awaited(s) = <<r>>
  PROVE  \E q \in Pipes :
           /\ process' = [process EXCEPT ![s] = q] /\ q.state = process[s].state
           /\ notes = 0 => QuietPipe(q, <<>>)
           /\ incoming(s) \in Requests \cup {Notice}
           /\ notes = 0 => incoming(s) \in {r, Notice}
<1>1. process[s] \in Pipes /\ (notes = 0 => QuietPipe(process[s], <<r>>))
  BY DEF BridgeInv, BridgeTypes, PipesQuiet
<1>2. CASE process[s].out = <<>>
  <2>1. process' = [process EXCEPT ![s] = [process[s] EXCEPT !.out = <<>>]] /\ process[s].state = "exited"
    BY <1>2 DEF read_response
  <2>2. [process[s] EXCEPT !.out = <<>>] = process[s]
    BY <1>1, <1>2 DEF Pipes
  <2>3. notes = 0 => QuietPipe(process[s], <<>>)
    BY <1>1, <1>2, <2>1 DEF QuietPipe
  <2>4. incoming(s) = Notice
    BY <1>2 DEF incoming
  <2> QED
    BY <1>1, <2>1, <2>2, <2>3, <2>4
<1>3. CASE process[s].out # <<>>
  <2> DEFINE q == [process[s] EXCEPT !.out = Tail(@)]
  <2>1. process' = [process EXCEPT ![s] = q]
    BY <1>3 DEF read_response
  <2>2. process[s].state # "none" \/ notes # 0
    BY <1>1, <1>3 DEF QuietPipe
  <2> HIDE DEF q
  <2>3. q \in Pipes /\ q.state = process[s].state /\ Head(process[s].out) \in Requests \cup {Notice}
        /\ (notes = 0 => Head(process[s].out) = r /\ QuietPipe(q, <<>>))
    BY <1>1, <1>3, <2>2, PipeRead DEF q
  <2>4. incoming(s) = Head(process[s].out)
    BY <1>3 DEF incoming
  <2> QED
    BY <2>1, <2>3, <2>4
<1> QED
  BY <1>2, <1>3

LEMMA ServerInitialized ==
  ASSUME BridgeInv, initialized
  PROVE  BridgeInv'
<1>1. BridgeTypes /\ lock.holder # "none" /\ lock.phase = "initialize" /\ UNCHANGED <<tool_index, notes>>
  BY DEF initialized, Holding, BridgeInv
<1>2. Current \in Stdio /\ lock \in BridgeHolds /\ lock # Free
  BY <1>1, HeldLock
<1>3. PICK s \in Stdio : s = Current
  BY <1>2
<1>4. Awaited(s) = <<"initialize">> /\ \A t \in Stdio : t # s => Awaited(t) = <<>>
  BY <1>1, <1>2, <1>3 DEF Awaited
<1>5. process[s] \in Pipes /\ (notes = 0 => QuietPipe(process[s], <<"initialize">>))
  BY <1>4 DEF BridgeInv, BridgeTypes, PipesQuiet
<1>6. Routes /\ Routes'
  BY <1>1 DEF BridgeTypes, Routes
<1>7. CASE /\ incoming(s) # Notice /\ UNCHANGED <<caller, abandoned>>
           /\ process' = [process EXCEPT ![s].out = Tail(@), ![s].initialized = TRUE]
           /\ lock' = [lock EXCEPT !.phase = "ready"]
  <2> DEFINE q == [process[s] EXCEPT !.out = Tail(@), !.initialized = TRUE]
  <2>1. process[s].out # <<>>
    BY <1>7 DEF incoming
  <2>2. process' = [process EXCEPT ![s] = q]
    BY <1>7 DEF BridgeInv, BridgeTypes
  <2> HIDE DEF q
  <2>3. process[s].state # "none" \/ notes # 0
    BY <1>5, <2>1 DEF QuietPipe
  <2>4. q \in Pipes /\ q.state = process[s].state /\ (notes = 0 => QuietPipe(q, <<>>))
    BY <1>5, <2>1, <2>3, PipeRead DEF q, Requests
  <2>5. /\ lock' \in BridgeHolds /\ lock'.holder = lock.holder /\ lock'.phase = "ready"
        /\ lock'.result = lock.result /\ lock'.i = lock.i
    BY <1>2, <1>7 DEF BridgeHolds
  <2>6. \A t \in Stdio : Awaited(t)' = <<>>
    BY <2>5 DEF Awaited
  <2>7. ResultsMatch'
    BY <1>1, <1>2, <1>7, <2>5, ResultsStay
  <2>8. \A t \in Stdio : Started(t) => Started(t)'
    BY <2>2, <2>4 DEF Started, BridgeInv, BridgeTypes
  <2>9. ServersStarted'
    BY <1>1, <1>2, <2>5, <2>8, StartedStay DEF BridgeInv, ServersStarted
  <2>10. lock'.phase # "invoke" /\ lock'.phase # "shutdown"
    BY <2>5
  <2>11. notes = 0 => QuietPipe(q, Awaited(s)')
    BY <2>4, <2>6
  <2>12. \A t \in Stdio : t # s => Awaited(t)' = Awaited(t)
    BY <1>4, <2>6
  <2> QED
    BY <1>1, <1>6, <1>7, <2>2, <2>4, <2>5, <2>7, <2>9, <2>10, <2>11, <2>12, CallGoesOn
<1>8. CASE read_response(s) /\ discovery_fails
  <2>1. PICK q \in Pipes : process' = [process EXCEPT ![s] = q] /\ (notes = 0 => QuietPipe(q, <<>>))
    BY <1>1, <1>4, <1>8, PipeTaken DEF Requests
  <2> QED
    BY <1>1, <1>4, <1>8, <2>1, CallBreaksOff
<1> QED
  BY <1>3, <1>7, <1>8 DEF initialized

LEMMA ToolsDiscovered ==
  ASSUME BridgeInv, discover_tools
  PROVE  BridgeInv'
<1>1. BridgeTypes /\ lock.holder # "none" /\ lock.phase = "list" /\ UNCHANGED notes
  BY DEF discover_tools, Holding, BridgeInv
<1>2. Current \in Stdio /\ lock \in BridgeHolds /\ lock # Free /\ lock.i \in 1..Len(Order) /\ Len(Order) \in Nat
  BY <1>1, HeldLock
<1>3. PICK s \in Stdio : s = Current
  BY <1>2
<1>4. Awaited(s) = <<"list">> /\ \A t \in Stdio : t # s => Awaited(t) = <<>>
  BY <1>1, <1>2, <1>3 DEF Awaited
<1>5. PICK q \in Pipes : process' = [process EXCEPT ![s] = q] /\ (notes = 0 => QuietPipe(q, <<>>))
                        /\ q.state = process[s].state
  BY <1>1, <1>3, <1>4, PipeTaken DEF Requests, discover_tools
<1>6. CASE incoming(s) = Notice
  <2>1. discovery_fails /\ UNCHANGED tool_index
    BY <1>3, <1>6 DEF discover_tools, listed
  <2> QED
    BY <1>1, <1>4, <1>5, <2>1, CallBreaksOff
<1>7. CASE incoming(s) # Notice
  <2> DEFINE kept == {n \in DOMAIN tool_index : tool_index[n] # s}
             n == mcp_tool_name(s)
  <2>1. /\ tool_index' = [x \in kept \cup {n} |-> IF x = n THEN s ELSE tool_index[x]]
        /\ lock' = IF lock.i < Len(Order)
                   THEN [lock EXCEPT !.phase = "ready", !.i = @ + 1]
                   ELSE [lock EXCEPT !.phase = "route"]
        /\ UNCHANGED <<caller, abandoned>>
    BY <1>3, <1>7 DEF discover_tools, listed
  <2>2. n = Normal[s] /\ kept \subseteq {Normal[t] : t \in Stdio}
    BY <1>1 DEF mcp_tool_name, BridgeTypes
  <2>3. \A x \in kept : tool_index[x] \in Stdio /\ Normal[tool_index[x]] = x
    BY <1>1 DEF BridgeTypes
  <2> HIDE DEF kept, n
  <2>4. Routes'
    BY <2>1, <2>2, <2>3 DEF Routes
  <2>5. /\ lock' \in BridgeHolds /\ lock'.holder = lock.holder /\ lock'.phase \in {"ready", "route"}
        /\ lock'.result = lock.result
        /\ lock'.phase = "ready" => lock'.i = lock.i + 1
        /\ lock'.phase = "route" => lock.i = Len(Order)
    <3>1. CASE lock.i < Len(Order)
      <4>1. lock.i + 1 \in 1..Len(Order) /\ lock' = [lock EXCEPT !.phase = "ready", !.i = @ + 1]
        BY <1>2, <2>1, <3>1
      <4>2. lock' \in BridgeHolds
        BY <1>2, <4>1 DEF BridgeHolds
      <4>3. lock'.holder = lock.holder /\ lock'.phase = "ready"
        BY <1>2, <4>1 DEF BridgeHolds
      <4>4. lock'.result = lock.result /\ lock'.i = lock.i + 1
        BY <1>2, <4>1 DEF BridgeHolds
      <4> QED
        BY <4>2, <4>3, <4>4
    <3>2. CASE ~(lock.i < Len(Order))
      <4>1. lock' = [lock EXCEPT !.phase = "route"]
        BY <2>1, <3>2
      <4>2. lock' \in BridgeHolds
        BY <1>2, <4>1 DEF BridgeHolds
      <4>3. lock'.holder = lock.holder /\ lock'.phase = "route"
        BY <1>2, <4>1 DEF BridgeHolds
      <4>4. lock'.result = lock.result /\ lock.i = Len(Order)
        BY <1>2, <3>2, <4>1 DEF BridgeHolds
      <4> QED
        BY <4>2, <4>3, <4>4
    <3> QED
      BY <3>1, <3>2
  <2>6. \A t \in Stdio : Awaited(t)' = <<>>
    BY <2>5 DEF Awaited
  <2>7. ResultsMatch'
    BY <1>1, <1>2, <2>1, <2>5, ResultsStay
  <2>8. lock'.phase # "invoke" /\ lock'.phase # "shutdown" /\ UNCHANGED <<caller, notes>>
    BY <1>1, <2>1, <2>5
  <2>9. \A t \in Stdio : Started(t) => Started(t)'
    BY <1>5 DEF Started, BridgeInv, BridgeTypes
  <2>10. \A j \in 1..lock.i : Started(Order[j])'
    <3>1. Order[lock.i] = s
      BY <1>3 DEF Current
    <3>2. Started(s)'
      BY <1>1, <1>2, <1>3, <2>9, StartedStay DEF BridgeInv
    <3>3. \A j \in 1..(lock.i - 1) : Started(Order[j])'
      BY <1>1, <1>2, <2>9, StartedStay DEF BridgeInv
    <3>4. \A j \in 1..lock.i : j = lock.i \/ j \in 1..(lock.i - 1)
      BY <1>2
    <3> QED
      BY <3>1, <3>2, <3>3, <3>4
  <2>11. ServersStarted'
    <3>1. CASE lock'.phase = "ready"
      <4>1. lock'.i - 1 = lock.i
        BY <1>2, <2>5, <3>1
      <4> QED
        BY <2>10, <3>1, <4>1 DEF ServersStarted
    <3>2. CASE lock'.phase = "route"
      <4>1. \A t \in Stdio : \E j \in 1..lock.i : t = Order[j]
        BY <2>5, <3>2 DEF Stdio
      <4>2. \A t \in Stdio : Started(t)'
        BY <2>10, <4>1
      <4> QED
        BY <3>2, <4>2 DEF ServersStarted
    <3> QED
      BY <2>5, <3>1, <3>2
  <2> QED
    BY <1>1, <1>4, <1>5, <2>4, <2>5, <2>6, <2>7, <2>8, <2>11, CallGoesOn
<1> QED
  BY <1>6, <1>7

LEMMA CallRouted ==
  ASSUME BridgeInv, route
  PROVE  BridgeInv'
<1>1. BridgeTypes /\ lock.holder # "none" /\ lock.phase = "route" /\ UNCHANGED <<tool_index, caller, abandoned, notes>>
  BY DEF route, Holding, BridgeInv
<1>2. Current \in Stdio /\ lock \in BridgeHolds /\ lock # Free /\ lock.i \in 1..Len(Order) /\ Len(Order) \in Nat
  BY <1>1, HeldLock
<1>3. \A t \in Stdio : Awaited(t) = <<>>
  BY <1>1, NothingAwaited
<1>4. process \in [Stdio -> Pipes] /\ (notes = 0 => \A t \in Stdio : QuietPipe(process[t], <<>>))
  BY <1>3 DEF BridgeInv, BridgeTypes, PipesQuiet
<1>5. Routes /\ Routes'
  BY <1>1 DEF BridgeTypes, Routes
<1> DEFINE n == mcp_tool_name(caller[lock.holder].server)
<1>6. n = Normal[caller[lock.holder].server]
  BY DEF mcp_tool_name
<1>a. n \notin DOMAIN tool_index =>
        lock' = [lock EXCEPT !.phase = "shutdown", !.i = 1, !.result = [kind |-> "unknown tool"]]
        /\ UNCHANGED process
  BY DEF route
<1>b. n \in DOMAIN tool_index =>
        /\ lock' = [lock EXCEPT !.phase = "invoke", !.server = tool_index[n]]
        /\ process' = [process EXCEPT ![tool_index[n]].asked = Append(@, "call")]
  BY DEF route
<1> HIDE DEF n
<1>7. CASE n \notin DOMAIN tool_index
  <2>1. PICK s \in Stdio : s = Current
    BY <1>2
  <2>2. process' = [process EXCEPT ![s] = process[s]] /\ process[s] \in Pipes
    BY <1>4, <1>7, <1>a
  <2>3. 1 \in 1..Len(Order) /\ [kind |-> "unknown tool"] \in BridgeResults
    BY <1>2 DEF BridgeResults
  <2>4. /\ lock' \in BridgeHolds /\ lock'.holder = lock.holder /\ lock'.phase = "shutdown" /\ lock'.i = 1
        /\ lock'.result.kind = "unknown tool"
    <3>1. lock' = [lock EXCEPT !.phase = "shutdown", !.i = 1, !.result = [kind |-> "unknown tool"]]
      BY <1>7, <1>a
    <3>2. lock' \in BridgeHolds
      BY <1>2, <2>3, <3>1 DEF BridgeHolds
    <3>3. lock'.holder = lock.holder /\ lock'.phase = "shutdown" /\ lock'.i = 1
      BY <1>2, <3>1 DEF BridgeHolds
    <3>4. lock'.result = [kind |-> "unknown tool"]
      BY <1>2, <3>1 DEF BridgeHolds
    <3>5. [kind |-> "unknown tool"] \in [kind : {"unknown tool"}]
      OBVIOUS
    <3>6. lock'.result.kind = "unknown tool"
      BY <3>4, <3>5
    <3> QED
      BY <3>2, <3>3, <3>6
  <2>5. \A t \in Stdio : Awaited(t)' = <<>>
    BY <2>4 DEF Awaited
  <2>6. ResultsMatch'
    BY <1>1, <1>2, <2>4, ResultsStay
  <2>7. lock'.phase # "invoke"
    BY <2>4
  <2>8. ServersStarted'
    BY <2>4 DEF ServersStarted
  <2> QED
    BY <1>1, <1>3, <1>4, <1>5, <2>2, <2>4, <2>5, <2>6, <2>7, <2>8, CallGoesOn
<1>8. CASE n \in DOMAIN tool_index
  <2>1. PICK s \in Stdio : s = tool_index[n] /\ Normal[s] = n
    BY <1>5, <1>8 DEF Routes
  <2>2. lock' = [lock EXCEPT !.phase = "invoke", !.server = s]
        /\ process' = [process EXCEPT ![s].asked = Append(@, "call")]
    BY <1>8, <1>b, <2>1
  <2> DEFINE q == [process[s] EXCEPT !.asked = Append(@, "call")]
  <2>3. process' = [process EXCEPT ![s] = q]
    BY <2>2
  <2>4. /\ lock' \in BridgeHolds /\ lock'.holder = lock.holder /\ lock'.phase = "invoke" /\ lock'.server = s
        /\ lock'.result = lock.result /\ lock' # Free
    <3>1. lock' \in BridgeHolds
      BY <1>2, <2>2 DEF BridgeHolds
    <3>2. lock'.holder = lock.holder /\ lock'.phase = "invoke" /\ lock'.server = s
      BY <1>2, <2>2 DEF BridgeHolds
    <3>3. lock'.result = lock.result
      BY <1>2, <2>2 DEF BridgeHolds
    <3> QED
      BY <3>1, <3>2, <3>3, HoldNotFree
  <2>5. process[s].state # "none" /\ process[s] \in Pipes
    BY <1>1, <1>2, <1>4 DEF BridgeInv, ServersStarted, Started
  <2>6. q \in Pipes /\ q.state # "none" /\ (QuietPipe(process[s], <<>>) => QuietPipe(q, <<"call">>))
    BY <2>5, PipeAsked DEF Requests
  <2> HIDE DEF q
  <2>7. Awaited(s)' = <<"call">> /\ \A t \in Stdio : t # s => Awaited(t)' = <<>>
    BY <2>4 DEF Awaited
  <2>8. ResultsMatch'
    BY <1>1, <1>2, <2>4, ResultsStay
  <2>9. \A t \in Stdio : Started(t)'
    BY <1>1, <1>2, <1>4, <2>3, <2>6 DEF BridgeInv, ServersStarted, Started
  <2>10. ServersStarted'
    BY <2>4, <2>9 DEF ServersStarted
  <2>11. notes = 0 => QuietPipe(q, Awaited(s)')
    BY <1>4, <2>6, <2>7
  <2>12. \A t \in Stdio : t # s => Awaited(t)' = Awaited(t)
    BY <1>3, <2>7
  <2>13. lock'.phase # "shutdown" /\ Normal[lock'.server] = Normal[caller[lock.holder].server] /\ lock'.server \in Stdio
    BY <1>6, <2>1, <2>4
  <2> QED
    BY <1>1, <1>5, <2>3, <2>4, <2>6, <2>8, <2>10, <2>11, <2>12, <2>13, CallGoesOn
<1> QED
  BY <1>7, <1>8

LEMMA CallAnswered ==
  ASSUME BridgeInv, invoke
  PROVE  BridgeInv'
<1>1. BridgeTypes /\ lock.holder # "none" /\ lock.phase = "invoke" /\ UNCHANGED <<tool_index, caller, abandoned, notes>>
  BY DEF invoke, Holding, BridgeInv
<1>2. /\ lock \in BridgeHolds /\ lock # Free /\ 1 \in 1..Len(Order) /\ lock.holder \in Callers
  BY <1>1, HeldLock
<1>3. lock.server \in Stdio /\ Normal[lock.server] = Normal[caller[lock.holder].server]
      /\ caller[lock.holder].at = "waiting"
  BY <1>1, <1>2 DEF BridgeInv, HolderWaits
<1>4. PICK s \in Stdio : s = lock.server
  BY <1>3
<1>5. PICK z \in Stdio : z = caller[lock.holder].server
  <2>1. caller[lock.holder] \in BridgeCallers
    BY <1>1, <1>2 DEF BridgeTypes
  <2>2. caller[lock.holder].server \in Stdio
    BY <1>3, <2>1 DEF BridgeCallers
  <2> QED
    BY <2>2
<1>6. Awaited(s) = <<"call">> /\ \A t \in Stdio : t # s => Awaited(t) = <<>>
  BY <1>1, <1>2, <1>4 DEF Awaited
<1>7. read_response(s) /\ answered(incoming(s))
  BY <1>4 DEF invoke
<1>8. PICK q \in Pipes : /\ process' = [process EXCEPT ![s] = q] /\ q.state = process[s].state
                         /\ notes = 0 => QuietPipe(q, <<>>)
                         /\ incoming(s) \in Requests \cup {Notice}
                         /\ notes = 0 => incoming(s) \in {"call", Notice}
  BY <1>1, <1>6, <1>7, PipeTaken DEF Requests
<1> DEFINE r == IF incoming(s) = Notice THEN [kind |-> "call failed"]
                ELSE [kind |-> "answer", of |-> incoming(s), from |-> s, asked |-> z]
<1>9. lock' = [lock EXCEPT !.phase = "shutdown", !.i = 1, !.result = r]
  BY <1>4, <1>5, <1>7 DEF answered
<1>10. r \in BridgeResults
  BY <1>8 DEF BridgeResults
<1>11. r.kind = "answer" => /\ notes = 0 => r.of = "call"
                            /\ r.from = s /\ r.asked = z
  BY <1>8
<1> HIDE DEF r
<1>12. /\ lock' \in BridgeHolds /\ lock'.holder = lock.holder /\ lock'.phase = "shutdown" /\ lock'.i = 1
       /\ lock'.result = r
  <2>1. lock' \in BridgeHolds
    BY <1>2, <1>9, <1>10 DEF BridgeHolds
  <2>2. lock'.holder = lock.holder /\ lock'.phase = "shutdown" /\ lock'.i = 1
    BY <1>2, <1>9 DEF BridgeHolds
  <2>3. lock'.result = r
    BY <1>2, <1>9 DEF BridgeHolds
  <2> QED
    BY <2>1, <2>2, <2>3
<1>13. ResultsMatch'
  <2>1. ResultMatches(lock.result)'
    BY <1>1, <1>3, <1>4, <1>5, <1>11, <1>12 DEF ResultMatches
  <2>2. (\A c \in Callers : caller[c].at = "told" => ResultMatches(caller[c].result))'
    BY <1>1 DEF BridgeInv, ResultsMatch, ResultMatches
  <2> QED
    BY <2>1, <2>2 DEF ResultsMatch
<1>14. \A t \in Stdio : Awaited(t)' = <<>>
  BY <1>12 DEF Awaited
<1>15. ServersStarted' /\ Routes'
  BY <1>1, <1>12 DEF ServersStarted, BridgeTypes, Routes
<1>16. notes = 0 => QuietPipe(q, Awaited(s)')
  BY <1>8, <1>14
<1>17. \A t \in Stdio : t # s => Awaited(t)' = Awaited(t)
  BY <1>6, <1>14
<1>18. lock'.phase # "invoke"
  BY <1>12
<1> QED
  BY <1>1, <1>8, <1>12, <1>13, <1>15, <1>16, <1>17, <1>18, CallGoesOn

LEMMA ServersShut ==
  ASSUME BridgeInv, shutdown
  PROVE  BridgeInv'
<1>1. BridgeTypes /\ lock.holder # "none" /\ lock.phase = "shutdown" /\ UNCHANGED <<tool_index, notes>>
  BY DEF shutdown, Holding, BridgeInv
<1>2. Current \in Stdio /\ lock \in BridgeHolds /\ lock # Free /\ lock.i \in 1..Len(Order) /\ Len(Order) \in Nat
      /\ lock.holder \in Callers /\ lock.result \in BridgeResults
  BY <1>1, HeldLock
<1>3. PICK s \in Stdio : s = Current
  BY <1>2
<1>4. /\ process' \in [Stdio -> Pipes] /\ process'[s] = NoProcess
      /\ \A t \in Stdio : t # s => process'[t] = process[t]
  <2>1. process' = [process EXCEPT ![s] = NoProcess]
    BY <1>3 DEF shutdown
  <2> QED
    BY <1>1, <2>1, FreshPipes DEF BridgeTypes
<1>5. \A j \in 1..lock.i : process'[Order[j]].state = "none"
  <2>1. Order[lock.i] = s
    BY <1>3 DEF Current
  <2>2. \A j \in 1..(lock.i - 1) : process[Order[j]].state = "none" /\ Order[j] \in Stdio
    BY <1>1, <1>2 DEF BridgeInv, ServersStopped, Stdio
  <2>3. \A j \in 1..lock.i : j = lock.i \/ j \in 1..(lock.i - 1)
    BY <1>2
  <2> QED
    BY <1>4, <2>1, <2>2, <2>3, FreshPipes
<1>6. PipesQuiet' /\ tool_index' = tool_index /\ notes' \in Nat
  <2>1. \A t \in Stdio : Awaited(t) = <<>>
    BY <1>1, NothingAwaited
  <2>2. lock' = Free \/ lock'.phase = "shutdown"
    BY <1>1, <1>2 DEF shutdown, BridgeHolds
  <2>3. \A t \in Stdio : Awaited(t)' = <<>>
    BY <2>2 DEF Awaited
  <2>4. SUFFICES ASSUME notes' = 0, NEW t \in Stdio PROVE QuietPipe(process[t], Awaited(t))'
    BY <1>1 DEF PipesQuiet, BridgeTypes
  <2>5. QuietPipe(process[t], <<>>)
    BY <1>1, <2>1, <2>4 DEF BridgeInv, PipesQuiet
  <2>6. CASE t = s
    <3>1. QuietPipe(NoProcess, <<>>)
      BY FreshPipes
    <3> QED
      BY <1>4, <2>3, <2>6, <3>1 DEF QuietPipe
  <2>7. CASE t # s
    BY <1>4, <2>3, <2>5, <2>7 DEF QuietPipe
  <2> QED
    BY <2>6, <2>7
<1>7. CASE lock.i < Len(Order)
  <2>1. lock' = [lock EXCEPT !.i = @ + 1] /\ UNCHANGED <<caller, abandoned>>
    BY <1>7 DEF shutdown
  <2>2. lock' \in BridgeHolds
    <3>1. lock.i + 1 \in 1..Len(Order)
      BY <1>2, <1>7
    <3> QED
      BY <1>2, <2>1, <3>1 DEF BridgeHolds
  <2>3. lock'.holder = lock.holder /\ lock'.phase = "shutdown" /\ lock'.i = lock.i + 1
    BY <1>1, <1>2, <2>1 DEF BridgeHolds
  <2>4. lock'.result = lock.result
    BY <1>2, <2>1 DEF BridgeHolds
  <2>5. BridgeTypes'
    BY <1>1, <1>4, <1>6, <2>1, <2>2 DEF BridgeTypes
  <2>6. HolderWaits'
    BY <1>2, <2>1, <2>3 DEF BridgeInv, HolderWaits
  <2>7. ResultsMatch'
    BY <1>1, <1>2, <2>1, <2>4, ResultsStay
  <2>8. ServersStopped'
    <3>1. lock' # Free /\ lock'.i - 1 = lock.i
      BY <1>2, <2>2, <2>3, HoldNotFree
    <3> QED
      BY <1>5, <3>1 DEF ServersStopped
  <2>9. ServersStarted'
    BY <2>3 DEF ServersStarted
  <2> QED
    BY <1>6, <2>5, <2>6, <2>7, <2>8, <2>9 DEF BridgeInv
<1>8. CASE ~(lock.i < Len(Order))
  <2> DEFINE r == Told(lock.result)
  <2>1. lock' = Free /\ abandoned' = FALSE /\ caller' = [caller EXCEPT ![lock.holder] = r]
    BY <1>8 DEF shutdown
  <2>2. r \in BridgeCallers /\ r.result = lock.result
    BY <1>2 DEF BridgeCallers, Told
  <2> HIDE DEF r
  <2>3. /\ caller' \in [Callers -> BridgeCallers] /\ caller'[lock.holder] = r
        /\ \A d \in Callers : d # lock.holder => caller'[d] = caller[d]
    BY <1>1, <1>2, <2>1, <2>2 DEF BridgeTypes
  <2>4. BridgeTypes'
    BY <1>1, <1>4, <1>6, <2>1, <2>3 DEF BridgeTypes
  <2>5. HolderWaits' /\ ServersStarted'
    BY <2>1 DEF HolderWaits, ServersStarted
  <2>6. ResultsMatch'
    <3>1. (\A d \in Callers : caller[d].at = "told" => ResultMatches(caller[d].result))'
      BY <1>1, <1>2, <2>2, <2>3 DEF BridgeInv, ResultsMatch, ResultMatches
    <3> QED
      BY <2>1, <3>1 DEF ResultsMatch
  <2>7. ServersStopped'
    <3>1. lock.i = Len(Order)
      BY <1>2, <1>8
    <3>2. \A t \in Stdio : process'[t].state = "none"
      BY <1>5, <3>1 DEF Stdio
    <3> QED
      BY <2>1, <3>2 DEF ServersStopped
  <2> QED
    BY <1>6, <2>4, <2>5, <2>6, <2>7 DEF BridgeInv
<1> QED
  BY <1>7, <1>8

LEMMA BridgeMoves ==
  ASSUME BridgeInv, McpNext
  PROVE  BridgeInv'
<1>1. ASSUME NEW s \in Servers, register_server(s) \/ set_auth_status(s) \/ disconnect(s)
      PROVE  BridgeInv'
  BY <1>1, RegistryOnly DEF register_server, set_auth_status, disconnect, changed
<1>2. ASSUME NEW c \in Callers, NEW s \in Stdio, call_tool(c, s)
      PROVE  BridgeInv'
  BY <1>2, CallsMade
<1>3. ASSUME NEW c \in Callers, spawn_tool_call(c)
      PROVE  BridgeInv'
  BY <1>3, LockTaken
<1> QED
  BY <1>1, <1>2, <1>3, ServerReadied, ServerInitialized, ToolsDiscovered, CallRouted, CallAnswered,
     ServersShut, ServerLives DEF McpNext

LEMMA BridgeStart ==
  ASSUME McpInit
  PROVE  BridgeInv
<1>1. /\ process = [s \in Stdio |-> NoProcess] /\ tool_index = [n \in {} |-> ""] /\ lock = Free
      /\ caller = [c \in Callers |-> [at |-> "idle"]] /\ notes = 0
  BY DEF McpInit
<1>2. BridgeTypes
  <2>1. DOMAIN tool_index = {}
    BY <1>1
  <2>2. [at |-> "idle"] \in BridgeCallers
    BY DEF BridgeCallers
  <2> QED
    BY <1>1, <2>1, <2>2, FreshPipes DEF BridgeTypes
<1>3. HolderWaits /\ ServersStarted
  BY <1>1 DEF HolderWaits, ServersStarted
<1>4. PipesQuiet
  BY <1>1, FreshPipes, NothingAwaited DEF PipesQuiet
<1>5. ResultsMatch
  BY <1>1 DEF ResultsMatch
<1>6. ServersStopped
  BY <1>1, FreshPipes DEF ServersStopped
<1> QED
  BY <1>2, <1>3, <1>4, <1>5, <1>6 DEF BridgeInv

LEMMA BridgeGood ==
  ASSUME BridgeInv
  PROVE  AnswersMatch /\ NoProcessLeftOver /\ ReportsAgree
<1>1. AnswersMatch
  BY DEF BridgeInv, ResultsMatch, ResultMatches, AnswersMatch
<1>2. NoProcessLeftOver
  BY DEF BridgeInv, ServersStopped, NoProcessLeftOver
<1>3. ReportsAgree
  BY DEF ReportsAgree, merged_mcp_server_states, effective_mcp_server_state
<1> QED
  BY <1>1, <1>2, <1>3

(* What the bridge to MCP servers promises (Extensions.BridgeSound), for   *)
(* any servers in any order and any number of callers: a caller gets the   *)
(* answer to its own call from the server it named, notifications apart;   *)
(* no process outlives the calls unless a discovery failed; and the two    *)
(* reports on the servers agree.                                           *)
THEOREM BridgeSafe == PartsSpec => []BridgeSound
<1>1. PartsInit => (part = "mcp" => BridgeInv)
  BY BridgeStart DEF PartsInit
<1>2. (part = "mcp" => BridgeInv) /\ [PartsNext]_partsVars => (part = "mcp" => BridgeInv)'
  BY BridgeMoves, BridgeRests DEF PartsNext, partsVars
<1>3. (part = "mcp" => BridgeInv) => BridgeSound
  BY BridgeGood DEF BridgeSound
<1> QED
  BY <1>1, <1>2, <1>3, PTL DEF PartsSpec
-----------------------------------------------------------------------------
(***************************************************************************)
(* Credentials: where the token last stored is at each step of a write, as *)
(* long as one command writes at a time, and how often each request was    *)
(* sent.                                                                   *)
(***************************************************************************)

(* What the places hold, and what a command is.                            *)
AuthPcs == {"idle", "waiting", "refreshing", "sending", "done"} \cup WritingPcs
AuthKinds == {"none", "login", "logout", "prompt", "doctor"}
AuthCommand(r) ==
  /\ r \in [pc : AuthPcs, kind : AuthKinds, tok : Nat, attempts : Nat, slept : Seq(Nat), stale : BOOLEAN,
            said : {r.said}]
  /\ ~ r.stale
  /\ r.pc \in {"unfile", "unring"} => r.kind = "logout"
  /\ r.pc \in {"ring", "tidy", "tmp", "remove", "rename", "waiting", "refreshing"} => r.kind # "logout"
  /\ r.pc \in {"ring", "tidy", "tmp", "remove", "rename"} => r.tok # 0
  /\ r.pc = "legacy" /\ r.kind # "logout" => r.tok # 0
AuthShape ==
  /\ keyring \in {"up", "down", "broken"}
  /\ ring \in [Paths -> [openyak : Nat, claw : Nat]]
  /\ token_file \in [Paths -> Nat]
  /\ tmp \in Nat /\ issued \in Nat /\ latest \in Nat /\ stored_before \in Nat
  /\ muddled \in BOOLEAN
  /\ \A c \in Commands : cmd[c].pc # "idle" \/ cmd[c] = Idle
  /\ DOMAIN cmd = Commands /\ \A c \in Commands : AuthCommand(cmd[c])

(* How often a command has sent its request.                               *)
Tried(r) ==
  /\ Len(r.slept) <= max_retries
  /\ \A i \in 1..Len(r.slept) : r.slept[i] = backoff_for_attempt(i)
  /\ r.pc \notin {"sending", "done"} => r.attempts = 0
  /\ r.pc = "sending" => r.attempts = Len(r.slept)
  /\ r.attempts = 0 \/ r.attempts \in {Len(r.slept), Len(r.slept) + 1}
  /\ r.attempts = 0 => Len(r.slept) = 0
  /\ r.said = "retries_exhausted" => r.pc = "done" /\ r.attempts = max_retries + 1

(* Undisturbed, a token is where the last one was stored, or under the old *)
(* names that a load looks at next.                                        *)
Held ==
  /\ ring["current"].openyak \in {0, latest}
  /\ ring["current"].openyak = 0 => ring["current"].claw \in {0, latest}
  /\ token_file["current"] \in {0, latest} /\ token_file["legacy"] \in {0, latest}
Settled == Held /\ load_oauth_credentials = latest

(* How far a write has come.                                               *)
WriteFits(r) ==
  /\ r.pc \in {"ring", "unfile"} => Settled
  /\ r.pc = "tidy" => keyring = "up" /\ ring["current"].openyak = r.tok /\ latest = r.tok
  /\ r.pc = "tmp" => keyring = "down" /\ Settled
  /\ r.pc = "remove" => keyring = "down" /\ Settled /\ tmp = r.tok
  /\ r.pc = "rename" => keyring = "down" /\ Held /\ token_file["current"] = 0 /\ tmp = r.tok
  /\ r.pc = "unring" => Held /\ token_file["current"] = 0
  /\ r.pc = "legacy" /\ r.kind = "logout" =>
       /\ token_file["current"] = 0 /\ token_file["legacy"] \in {0, latest}
       /\ ring["current"].openyak = 0 /\ ring["current"].claw = 0
  /\ r.pc = "legacy" /\ r.kind # "logout" =>
       /\ latest = r.tok
       /\ IF keyring = "up" THEN ring["current"].openyak = r.tok /\ token_file["current"] = 0
          ELSE token_file["current"] = r.tok
Clear ==
  /\ keyring # "broken"
  /\ ring["legacy"].openyak = 0 /\ ring["legacy"].claw = 0
  /\ keyring = "down" => ring["current"].openyak = 0 /\ ring["current"].claw = 0
  /\ \A c, d \in Commands : Writing(c) /\ Writing(d) => c = d
  /\ \A c \in Commands : WriteFits(cmd[c])
  /\ (\A c \in Commands : ~ Writing(c)) => Settled

AuthInv ==
  /\ AuthShape
  /\ \A c \in Commands : Tried(cmd[c])
  /\ ~ muddled => Clear

LEMMA Backoff ==
  ASSUME NEW n \in 1..max_retries
  PROVE  /\ backoff_for_attempt(n) \in Nat /\ backoff_for_attempt(n) <= max_backoff
         /\ n < max_retries => backoff_for_attempt(n) <= backoff_for_attempt(n + 1)
<1>1. /\ max_retries \in Nat /\ initial_backoff \in Nat /\ max_backoff \in Nat
      /\ multiplier(n) \in Nat /\ multiplier(n) <= multiplier(n + 1)
      /\ n < max_retries => multiplier(n + 1) \in Nat
  <2>1. max_retries \in Nat /\ initial_backoff \in Nat /\ max_backoff \in Nat
    BY AuthAssumption
  <2>2. n < max_retries => n + 1 \in 1..max_retries
    BY <2>1
  <2> QED BY <2>1, <2>2, DoublingAssumption
<1>2. \A a, x, y \in Nat : a * x \in Nat /\ (x <= y => a * x <= a * y)
  OBVIOUS
<1>3. initial_backoff * multiplier(n) \in Nat
  BY <1>1, <1>2
<1>4. backoff_for_attempt(n) \in Nat /\ backoff_for_attempt(n) <= max_backoff
  BY <1>1, <1>3 DEF backoff_for_attempt
<1>5. ASSUME n < max_retries
      PROVE  backoff_for_attempt(n) <= backoff_for_attempt(n + 1)
  <2>1. initial_backoff * multiplier(n + 1) \in Nat
        /\ initial_backoff * multiplier(n) <= initial_backoff * multiplier(n + 1)
    BY <1>1, <1>2, <1>5
  <2> QED BY <1>1, <1>3, <2>1 DEF backoff_for_attempt
<1> QED BY <1>4, <1>5

LEMMA AuthHolds == AuthInv => CredentialsSound
<1> SUFFICES ASSUME AuthInv PROVE CredentialsSound
  OBVIOUS
<1>1. LoadsWhatWasStored
  <2> SUFFICES ASSUME ~ muddled PROVE LoadsWhatWasStored
    BY DEF LoadsWhatWasStored
  <2>1. Clear
    BY DEF AuthInv
  <2>2. CASE \A c \in Commands : ~ Writing(c)
    BY <2>1, <2>2 DEF LoadsWhatWasStored, Clear, Settled
  <2>3. ASSUME NEW c \in Commands, Writing(c)
        PROVE  LoadsWhatWasStored
    <3>1. WriteFits(cmd[c]) /\ AuthCommand(cmd[c]) /\ keyring \in {"up", "down"} /\ cmd[c].pc \in WritingPcs
      BY <2>1, <2>3 DEF Clear, AuthInv, AuthShape, Writing
    <3>2. \/ load_oauth_credentials = latest
          \/ /\ cmd[c].pc \in {"rename", "unring", "legacy"}
             /\ load_oauth_credentials = 0
      <4>1. ring["legacy"].openyak = 0 /\ ring["legacy"].claw = 0
            /\ (keyring = "down" => ring["current"].openyak = 0 /\ ring["current"].claw = 0)
        BY <2>1 DEF Clear
      <4>2. CASE cmd[c].pc \in {"ring", "unfile", "tmp", "remove"}
        BY <3>1, <4>2 DEF WriteFits, Settled
      <4>3. CASE cmd[c].pc = "tidy"
        BY <3>1, <4>1, <4>3 DEF WriteFits, AuthCommand, load_oauth_credentials, load_token_file
      <4>4. CASE cmd[c].pc \in {"rename", "unring"}
        BY <3>1, <4>1, <4>4 DEF WriteFits, Held, load_oauth_credentials, load_token_file
      <4>5. CASE cmd[c].pc = "legacy"
        BY <3>1, <4>1, <4>5 DEF WriteFits, AuthCommand, load_oauth_credentials, load_token_file
      <4> QED BY <3>1, <4>2, <4>3, <4>4, <4>5 DEF WritingPcs
    <3> QED BY <2>3, <3>2 DEF LoadsWhatWasStored
  <2> QED BY <2>2, <2>3
<1>2. NeverSentExpired
  BY DEF NeverSentExpired, AuthInv, AuthShape, AuthCommand
<1>3. RetriesBounded
  <2> SUFFICES ASSUME NEW c \in Commands
               PROVE  LET s == cmd[c].slept IN
                      /\ cmd[c].attempts <= max_retries + 1
                      /\ cmd[c].attempts > 0 => Len(s) \in {cmd[c].attempts - 1, cmd[c].attempts}
                      /\ cmd[c].said = "retries_exhausted" => cmd[c].attempts = max_retries + 1
                      /\ \A i \in 1..Len(s) : s[i] <= max_backoff /\ (i > 1 => s[i - 1] <= s[i])
    BY DEF RetriesBounded
  <2> DEFINE s == cmd[c].slept
  <2>1. /\ s \in Seq(Nat) /\ cmd[c].attempts \in Nat /\ max_retries \in Nat
        /\ Len(s) \in Nat /\ Len(s) <= max_retries
        /\ cmd[c].attempts = 0 \/ cmd[c].attempts \in {Len(s), Len(s) + 1}
        /\ cmd[c].said = "retries_exhausted" => cmd[c].attempts = max_retries + 1
    <3>1. AuthCommand(cmd[c]) /\ Tried(cmd[c])
      BY DEF AuthInv, AuthShape
    <3>2. s \in Seq(Nat) /\ cmd[c].attempts \in Nat
      BY <3>1 DEF AuthCommand
    <3>3. Len(s) \in Nat
      BY <3>2
    <3> QED BY <3>1, <3>2, <3>3, AuthAssumption DEF Tried
  <2>0. \A i \in 1..Len(s) : s[i] = backoff_for_attempt(i)
    BY DEF AuthInv, Tried
  <2> HIDE DEF s
  <2>2. ASSUME NEW i \in 1..Len(s)
        PROVE  s[i] <= max_backoff /\ (i > 1 => s[i - 1] <= s[i])
    <3>0. i \in Nat /\ 1 <= i /\ i <= Len(s) /\ Len(s) \in Nat
      BY <2>1
    <3>1a. i \in 1..max_retries
      BY <2>1, <3>0
    <3>1. i \in 1..max_retries /\ s[i] = backoff_for_attempt(i)
      BY <2>0, <3>1a
    <3>2. ASSUME i > 1 PROVE s[i - 1] <= s[i]
      <4>0. i - 1 \in Nat /\ (i - 1) + 1 = i /\ 1 <= i - 1 /\ i - 1 <= Len(s) /\ i - 1 < max_retries
        BY <2>1, <3>0, <3>2
      <4>1. /\ i - 1 \in 1..max_retries /\ i - 1 \in 1..Len(s) /\ i - 1 < max_retries /\ (i - 1) + 1 = i
        BY <2>1, <3>0, <4>0
      <4>2. s[i - 1] = backoff_for_attempt(i - 1)
        BY <2>0, <4>1
      <4> QED BY <3>1, <4>1, <4>2, Backoff
    <3> QED BY <3>1, <3>2, Backoff
  <2> QED BY <2>1, <2>2 DEF s
<1> QED BY <1>1, <1>2, <1>3 DEF CredentialsSound

LEMMA AuthStart == AuthInit => AuthInv
<1> SUFFICES ASSUME AuthInit PROVE AuthInv
  OBVIOUS
<1>1. PICK at \in {"nowhere", "file", "legacy_file", "ring", "old_service"} :
        /\ ring = [p \in Paths |-> [openyak |-> IF at = "ring" /\ p = "current" THEN 1 ELSE 0,
                                    claw |-> IF at = "old_service" /\ p = "current" THEN 1 ELSE 0]]
        /\ token_file = [p \in Paths |-> IF at = (IF p = "current" THEN "file" ELSE "legacy_file") THEN 1 ELSE 0]
        /\ keyring = "down" => at \notin {"ring", "old_service"}
        /\ latest = (IF at = "nowhere" THEN 0 ELSE 1)
  BY DEF AuthInit
<1>2. cmd = [c \in Commands |-> Idle] /\ keyring \in {"up", "down"} /\ tmp = 0 /\ issued = 1
      /\ stored_before = latest /\ muddled = FALSE
  BY DEF AuthInit
<1>3. AuthCommand(Idle) /\ Tried(Idle) /\ Idle.pc = "idle"
  <2>0. max_retries \in Nat
    BY AuthAssumption
  <2>3. <<>> \in Seq(Nat) /\ Len(<<>>) = 0
    OBVIOUS
  <2>4. \A i \in 1..Len(<<>>) : FALSE
    BY <2>3
  <2>1. <<>> \in Seq(Nat) /\ Len(<<>>) = 0 /\ max_retries \in Nat
    BY <2>0, <2>3
  <2>2. AuthCommand(Idle)
    BY <2>1 DEF AuthCommand, Idle, AuthPcs, AuthKinds
  <2>5. Tried(Idle)
    BY <2>0, <2>3, <2>4 DEF Tried, Idle
  <2>6. Idle.pc = "idle"
    BY DEF Idle
  <2> QED BY <2>2, <2>5, <2>6
<1>4. AuthShape
  BY <1>1, <1>2, <1>3 DEF AuthShape, Paths
<1>5. Settled
  <2>1. /\ ring["current"].openyak = (IF at = "ring" THEN 1 ELSE 0)
        /\ ring["current"].claw = (IF at = "old_service" THEN 1 ELSE 0)
        /\ ring["legacy"].openyak = 0 /\ ring["legacy"].claw = 0
        /\ token_file["current"] = (IF at = "file" THEN 1 ELSE 0)
        /\ token_file["legacy"] = (IF at = "legacy_file" THEN 1 ELSE 0)
    BY <1>1 DEF Paths
  <2> QED BY <1>1, <1>2, <2>1 DEF Settled, Held, load_oauth_credentials, load_token_file
<1>6. Clear
  BY <1>1, <1>2, <1>3, <1>5 DEF Clear, WriteFits, Writing, WritingPcs, Paths
<1> QED BY <1>2, <1>3, <1>4, <1>6 DEF AuthInv

(* One command moves: the others stay as they are.                         *)
Moves(c) == DOMAIN cmd' = Commands /\ \A d \in Commands \ {c} : cmd'[d] = cmd[d]
Places == <<keyring, ring, token_file, tmp, latest>>

LEMMA AuthSteps ==
  ASSUME AuthInv, NEW c \in Commands, Moves(c), cmd'[c].pc # "idle",
         AuthCommand(cmd'[c]), Tried(cmd'[c]),
         keyring' \in {"up", "down", "broken"},
         ring' \in [Paths -> [openyak : Nat, claw : Nat]], token_file' \in [Paths -> Nat],
         tmp' \in Nat, issued' \in Nat, latest' \in Nat, stored_before' \in Nat, muddled' \in BOOLEAN,
         ~ muddled' => Clear'
  PROVE  AuthInv'
<1>1. \A d \in Commands : AuthCommand(cmd'[d]) /\ Tried(cmd'[d]) /\ (cmd'[d].pc # "idle" \/ cmd'[d] = Idle)
  BY DEF AuthInv, AuthShape, Moves
<1>2. AuthShape'
  BY <1>1 DEF AuthShape, Moves
<1> QED BY <1>1, <1>2 DEF AuthInv

(* The only command that writes moves, whatever it does to the store.      *)
LEMMA ClearAlone ==
  ASSUME NEW c \in Commands, Moves(c), \A d \in Commands \ {c} : ~ Writing(d),
         keyring' # "broken", ring'["legacy"].openyak = 0, ring'["legacy"].claw = 0,
         keyring' = "down" => ring'["current"].openyak = 0 /\ ring'["current"].claw = 0,
         WriteFits(cmd[c])', ~ Writing(c)' => Settled'
  PROVE  Clear'
<1>1. \A d \in Commands \ {c} : ~ Writing(d)'
  BY DEF Moves, Writing
<1>2. \A d \in Commands : WriteFits(cmd[d])'
  BY <1>1 DEF WriteFits, Writing, WritingPcs
<1> QED BY <1>1, <1>2 DEF Clear

(* A command that does not write leaves the store as it is.                *)
LEMMA ClearAside ==
  ASSUME Clear, NEW c \in Commands, Moves(c), UNCHANGED Places, ~ Writing(c), cmd'[c].pc \notin WritingPcs
  PROVE  Clear'
<1>1. \A d \in Commands : Writing(d)' <=> Writing(d)
  BY DEF Moves, Writing
<1>2. Settled' <=> Settled
  BY DEF Places, Settled, Held, load_oauth_credentials, load_token_file
<1>3. Held' <=> Held
  BY DEF Places, Held
<1>4. \A d \in Commands : WriteFits(cmd[d])'
  <2> SUFFICES ASSUME NEW d \in Commands PROVE WriteFits(cmd[d])'
    OBVIOUS
  <2>1. CASE d = c
    BY <2>1 DEF WriteFits, WritingPcs
  <2>2. CASE d # c
    <3>1. cmd'[d] = cmd[d] /\ WriteFits(cmd[d])
      BY <2>2 DEF Moves, Clear
    <3> QED BY <3>1, <1>2, <1>3 DEF WriteFits, Places
  <2> QED BY <2>1, <2>2
<1> QED BY <1>1, <1>2, <1>4 DEF Clear, Places

(* The parts of the invariant that a step of c starts from.                *)
LEMMA AuthFrom ==
  ASSUME AuthInv, NEW c \in Commands
  PROVE  /\ AuthCommand(cmd[c]) /\ Tried(cmd[c]) /\ DOMAIN cmd = Commands
         /\ keyring \in {"up", "down", "broken"}
         /\ ring \in [Paths -> [openyak : Nat, claw : Nat]] /\ token_file \in [Paths -> Nat]
         /\ tmp \in Nat /\ issued \in Nat /\ latest \in Nat /\ stored_before \in Nat /\ muddled \in BOOLEAN
         /\ cmd[c].pc = "idle" => cmd[c] = Idle
         /\ ~ muddled => Clear
         /\ ~ muddled /\ Writing(c) => \A d \in Commands \ {c} : ~ Writing(d)
  BY DEF AuthInv, AuthShape, Clear

(* A command that has sent nothing may go on to any step but the last.     *)
LEMMA NotSent ==
  ASSUME NEW r, Tried(r), r.pc \notin {"sending", "done"}, NEW q,
         q.attempts = r.attempts, q.slept = r.slept, q.said # "retries_exhausted"
  PROVE  Tried(q)
BY DEF Tried

(* What a command becomes that moves on, or ends.                          *)
LEMMA Goes ==
  ASSUME AuthInv, NEW c \in Commands, NEW p \in AuthPcs \ {"idle"}, goes(c, p), cmd[c].pc \notin {"sending", "done"},
         p \in {"unfile", "unring"} => cmd[c].kind = "logout",
         p \in {"ring", "tidy", "tmp", "remove", "rename", "waiting", "refreshing"} =>
           cmd[c].kind # "logout" /\ cmd[c].tok # 0,
         p = "legacy" /\ cmd[c].kind # "logout" => cmd[c].tok # 0
  PROVE  /\ Moves(c) /\ AuthCommand(cmd'[c]) /\ Tried(cmd'[c])
         /\ cmd'[c].pc = p /\ cmd'[c].tok = cmd[c].tok /\ cmd'[c].kind = cmd[c].kind
<1>1. cmd'[c] = [cmd[c] EXCEPT !.pc = p] /\ AuthCommand(cmd[c]) /\ Tried(cmd[c]) /\ Moves(c)
  BY AuthFrom DEF goes, Moves
<1>2. AuthCommand(cmd'[c]) /\ cmd'[c].pc = p /\ cmd'[c].tok = cmd[c].tok /\ cmd'[c].kind = cmd[c].kind
      /\ cmd'[c].attempts = cmd[c].attempts /\ cmd'[c].slept = cmd[c].slept /\ cmd'[c].said = cmd[c].said
  BY <1>1 DEF AuthCommand, AuthPcs
<1>3. cmd[c].said # "retries_exhausted"
  BY <1>1 DEF Tried
<1>4. Tried(cmd'[c])
  BY <1>1, <1>2, <1>3, NotSent
<1> QED BY <1>1, <1>2, <1>4

LEMMA Ends ==
  ASSUME AuthInv, NEW c \in Commands, NEW said, ends(c, said), said # "retries_exhausted",
         cmd[c].pc \notin {"sending", "done"}
  PROVE  /\ Moves(c) /\ AuthCommand(cmd'[c]) /\ Tried(cmd'[c]) /\ cmd'[c].pc = "done"
<1>1. cmd'[c] = [cmd[c] EXCEPT !.pc = "done", !.said = said] /\ AuthCommand(cmd[c]) /\ Tried(cmd[c]) /\ Moves(c)
  BY AuthFrom DEF ends, Moves
<1>2. AuthCommand(cmd'[c]) /\ cmd'[c].pc = "done"
      /\ cmd'[c].attempts = cmd[c].attempts /\ cmd'[c].slept = cmd[c].slept /\ cmd'[c].said = said
  BY <1>1 DEF AuthCommand, AuthPcs
<1>4. Tried(cmd'[c])
  BY <1>1, <1>2, NotSent
<1> QED BY <1>1, <1>2, <1>4

(* What a command becomes that starts.                                     *)
NewCommand(p, k, t, said) ==
  [pc |-> p, kind |-> k, tok |-> t, attempts |-> 0, slept |-> <<>>, stale |-> FALSE, said |-> said]
LEMMA NewlyStarted ==
  ASSUME AuthInv, NEW c \in Commands, NEW p \in AuthPcs, NEW k \in AuthKinds, NEW t \in Nat, NEW said,
         Moves(c), cmd'[c] = NewCommand(p, k, t, said),
         said # "retries_exhausted", p # "legacy",
         p \in {"unfile", "unring"} => k = "logout",
         p \in {"ring", "tidy", "tmp", "remove", "rename", "waiting", "refreshing"} => k # "logout",
         p \in {"ring", "tidy", "tmp", "remove", "rename"} => t # 0
  PROVE  /\ Moves(c) /\ AuthCommand(cmd'[c]) /\ Tried(cmd'[c]) /\ cmd'[c].pc = p
<1>2. <<>> \in Seq(Nat) /\ Len(<<>>) = 0
  OBVIOUS
<1>5. cmd'[c] = [pc |-> p, kind |-> k, tok |-> t, attempts |-> 0, slept |-> <<>>, stale |-> FALSE, said |-> said]
  BY DEF NewCommand
<1>3. AuthCommand(cmd'[c]) /\ cmd'[c].pc = p
      /\ cmd'[c].attempts = 0 /\ cmd'[c].slept = <<>> /\ cmd'[c].said = said
  <2> DEFINE q == cmd'[c]
  <2>1. q.pc = p /\ q.kind = k /\ q.tok = t /\ q.attempts = 0 /\ q.slept = <<>> /\ q.stale = FALSE /\ q.said = said
    BY <1>5
  <2>5. q = [pc |-> p, kind |-> k, tok |-> t, attempts |-> 0, slept |-> <<>>, stale |-> FALSE, said |-> said]
    BY <1>5
  <2> HIDE DEF q
  <2>2. q \in [pc : AuthPcs, kind : AuthKinds, tok : Nat, attempts : Nat, slept : Seq(Nat), stale : BOOLEAN,
               said : {q.said}]
    BY <1>2, <2>5
  <2>3. AuthCommand(q)
    BY <2>1, <2>2 DEF AuthCommand
  <2> QED BY <2>1, <2>3 DEF q
<1>4. Tried(cmd'[c])
  <2>1. max_retries \in Nat
    BY AuthAssumption
  <2>2. \A i \in 1..Len(<<>>) : FALSE
    BY <1>2
  <2> QED BY <1>2, <1>3, <2>1, <2>2 DEF Tried
<1> QED BY <1>3, <1>4

LEMMA Aside ==
  ASSUME AuthInv, NEW c \in Commands, Moves(c), AuthCommand(cmd'[c]), Tried(cmd'[c]),
         cmd'[c].pc \notin WritingPcs \cup {"idle"}, ~ Writing(c), UNCHANGED Places,
         issued' \in Nat, stored_before' = stored_before,
         muddled' \in BOOLEAN, ~ muddled' => ~ muddled
  PROVE  AuthInv'
<1>1. UNCHANGED <<keyring, ring, token_file, tmp, latest>>
  BY DEF Places
<1>2. ~ muddled' => Clear'
  BY AuthFrom, ClearAside
<1> QED BY <1>1, <1>2, AuthFrom, AuthSteps

LEMMA RunLogin ==
  ASSUME AuthInv, NEW c \in Commands, run_login(c)
  PROVE  AuthInv'
<1>1. Moves(c) /\ AuthCommand(cmd'[c]) /\ Tried(cmd'[c]) /\ cmd'[c].pc \in {"done", "waiting"}
  <2>1. CASE configured_oauth_config # "full"
    <3>1. cmd' = [cmd EXCEPT ![c] = [Idle EXCEPT !.pc = "done", !.kind = "login", !.said = "not_configured"]]
      BY <2>1 DEF run_login
    <3>4. Moves(c) /\ cmd'[c] = [Idle EXCEPT !.pc = "done", !.kind = "login", !.said = "not_configured"]
      BY <3>1, AuthFrom DEF Moves
    <3>2. cmd'[c] = NewCommand("done", "login", 0, "not_configured")
      BY <3>4 DEF Idle, NewCommand
    <3>3. "done" \in AuthPcs /\ "login" \in AuthKinds
      BY DEF AuthPcs, AuthKinds, WritingPcs
    <3> QED BY <3>2, <3>3, <3>4, NewlyStarted
  <2>2. CASE configured_oauth_config = "full" /\ \E d \in Commands : cmd[d].pc = "waiting"
    <3>1. cmd' = [cmd EXCEPT ![c] = [Idle EXCEPT !.pc = "done", !.kind = "login", !.said = "bind_failed"]]
      BY <2>2 DEF run_login
    <3>4. Moves(c) /\ cmd'[c] = [Idle EXCEPT !.pc = "done", !.kind = "login", !.said = "bind_failed"]
      BY <3>1, AuthFrom DEF Moves
    <3>2. cmd'[c] = NewCommand("done", "login", 0, "bind_failed")
      BY <3>4 DEF Idle, NewCommand
    <3>3. "done" \in AuthPcs /\ "login" \in AuthKinds
      BY DEF AuthPcs, AuthKinds, WritingPcs
    <3> QED BY <3>2, <3>3, <3>4, NewlyStarted
  <2>3. CASE configured_oauth_config = "full" /\ ~ \E d \in Commands : cmd[d].pc = "waiting"
    <3>1. cmd' = [cmd EXCEPT ![c] = [Idle EXCEPT !.pc = "waiting", !.kind = "login"]]
      BY <2>3 DEF run_login
    <3>4. Moves(c) /\ cmd'[c] = [Idle EXCEPT !.pc = "waiting", !.kind = "login"]
      BY <3>1, AuthFrom DEF Moves
    <3>2. cmd'[c] = NewCommand("waiting", "login", 0, "none")
      BY <3>4 DEF Idle, NewCommand
    <3>3. "waiting" \in AuthPcs /\ "login" \in AuthKinds
      BY DEF AuthPcs, AuthKinds, WritingPcs
    <3> QED BY <3>2, <3>3, <3>4, NewlyStarted
  <2> QED BY <2>1, <2>2, <2>3
<1>3. UNCHANGED Places /\ UNCHANGED <<issued, stored_before, muddled>>
  BY DEF run_login, Places, store, tokens, history
<1>4. ~ Writing(c) /\ cmd'[c].pc \notin WritingPcs \cup {"idle"}
  BY <1>1 DEF run_login, Writing, WritingPcs
<1> QED BY <1>1, <1>3, <1>4, AuthFrom, Aside

LEMMA Muddles ==
  ASSUME AuthInv, NEW P, muddled' = (muddled \/ P)
  PROVE  muddled' \in BOOLEAN /\ (~ muddled' => ~ muddled /\ ~ P)
  BY DEF AuthInv, AuthShape

LEMMA Undisturbed ==
  ASSUME AuthInv, NEW c \in Commands, Moves(c), AuthCommand(cmd'[c]), Tried(cmd'[c]), cmd'[c].pc # "idle",
         keyring' = keyring, ring' \in [Paths -> [openyak : Nat, claw : Nat]], token_file' \in [Paths -> Nat],
         tmp' \in Nat, issued' \in Nat, latest' \in Nat, stored_before' \in Nat, muddled' \in BOOLEAN,
         ~ muddled' => ~ muddled /\ \A d \in Commands \ {c} : ~ Writing(d),
         ~ muddled' /\ Clear =>
           /\ ring'["legacy"].openyak = 0 /\ ring'["legacy"].claw = 0
           /\ keyring = "down" => ring'["current"].openyak = 0 /\ ring'["current"].claw = 0
           /\ WriteFits(cmd[c])'
           /\ ~ Writing(c)' => Settled'
  PROVE  AuthInv'
<1>1. ~ muddled' => Clear'
  <2> SUFFICES ASSUME ~ muddled' PROVE Clear'
    OBVIOUS
  <2>1. Clear /\ keyring # "broken"
    BY AuthFrom DEF Clear
  <2> QED BY <2>1, ClearAlone
<1> QED BY <1>1, AuthFrom, AuthSteps

(* A new token is issued to a command, which goes on to store it.          *)
LEMMA Issued ==
  ASSUME AuthInv, NEW c \in Commands, cmd[c].pc \in {"waiting", "refreshing"},
         cmd' = [cmd EXCEPT ![c].pc = "ring", ![c].tok = issued + 1], issued' = issued + 1,
         UNCHANGED Places, stored_before' = stored_before,
         muddled' = (muddled \/ \E d \in Commands \ {c} : Writing(d))
  PROVE  AuthInv'
<1>0. ~ Writing(c) /\ issued \in Nat /\ AuthCommand(cmd[c]) /\ Tried(cmd[c]) /\ DOMAIN cmd = Commands
  BY AuthFrom DEF Writing, WritingPcs
<1>1. muddled' \in BOOLEAN /\ (~ muddled' => ~ muddled /\ \A d \in Commands \ {c} : ~ Writing(d))
  <2> DEFINE P == \E d \in Commands \ {c} : Writing(d)
  <2>1. muddled' = (muddled \/ P)
    OBVIOUS
  <2> HIDE DEF P
  <2>2. muddled' \in BOOLEAN /\ (~ muddled' => ~ muddled /\ ~ P)
    BY <2>1, Muddles
  <2> QED BY <2>2 DEF P
<1>2. cmd'[c] = [cmd[c] EXCEPT !.pc = "ring", !.tok = issued + 1] /\ Moves(c)
  BY <1>0 DEF Moves
<1>3. AuthCommand(cmd'[c]) /\ cmd'[c].pc = "ring"
      /\ cmd'[c].attempts = cmd[c].attempts /\ cmd'[c].slept = cmd[c].slept /\ cmd'[c].said = cmd[c].said
  <2> DEFINE q == cmd'[c]
             r == cmd[c]
  <2>0. issued + 1 \in Nat /\ issued + 1 # 0
    BY <1>0
  <2>1. r \in [pc : AuthPcs, kind : AuthKinds, tok : Nat, attempts : Nat, slept : Seq(Nat), stale : BOOLEAN,
               said : {r.said}] /\ ~ r.stale /\ r.kind # "logout"
    BY <1>0 DEF AuthCommand
  <2>2. q = [r EXCEPT !.pc = "ring", !.tok = issued + 1]
    BY <1>2
  <2> HIDE DEF q, r
  <2>3. q.pc = "ring" /\ q.tok = issued + 1 /\ q.kind = r.kind /\ q.attempts = r.attempts /\ q.slept = r.slept
        /\ q.stale = r.stale /\ q.said = r.said
    BY <2>1, <2>2
  <2>4. q \in [pc : AuthPcs, kind : AuthKinds, tok : Nat, attempts : Nat, slept : Seq(Nat), stale : BOOLEAN,
               said : {q.said}]
    BY <2>0, <2>1, <2>2 DEF AuthPcs, WritingPcs
  <2>5. AuthCommand(q)
    BY <2>0, <2>1, <2>3, <2>4 DEF AuthCommand
  <2> QED BY <2>3, <2>5 DEF q, r
<1>4. Tried(cmd'[c])
  <2>1. cmd[c].said # "retries_exhausted"
    BY <1>0 DEF Tried
  <2> QED BY <1>0, <1>3, <2>1, NotSent
<1>5. ~ muddled' /\ Clear => WriteFits(cmd[c])' /\ Writing(c)'
  <2> SUFFICES ASSUME ~ muddled', Clear PROVE WriteFits(cmd[c])' /\ Writing(c)'
    OBVIOUS
  <2>1. \A d \in Commands : ~ Writing(d)
    BY <1>0, <1>1
  <2>2. Settled
    BY <2>1 DEF Clear
  <2>3. Settled'
    BY <2>2 DEF Places, Settled, Held, load_oauth_credentials, load_token_file
  <2> QED BY <1>3, <2>3 DEF WriteFits, Writing, WritingPcs
<1>6. UNCHANGED <<keyring, ring, token_file, tmp, latest, stored_before>>
  BY DEF Places
<1>7. issued' \in Nat
  BY <1>0
<1> QED BY <1>1, <1>2, <1>3, <1>4, <1>5, <1>6, <1>7, AuthFrom, Undisturbed DEF Clear

(* A command that gives up before it wrote anything.                       *)
LEMMA GivesUp ==
  ASSUME AuthInv, NEW c \in Commands, NEW said, ends(c, said), said # "retries_exhausted",
         cmd[c].pc \in {"waiting", "refreshing"}, UNCHANGED Places, UNCHANGED <<issued, stored_before>>,
         muddled' \in BOOLEAN, ~ muddled' => ~ muddled
  PROVE  AuthInv'
<1>1. Moves(c) /\ AuthCommand(cmd'[c]) /\ Tried(cmd'[c]) /\ cmd'[c].pc = "done" /\ ~ Writing(c)
  BY Ends DEF Writing, WritingPcs
<1> QED BY <1>1, AuthFrom, Aside DEF WritingPcs

LEMMA Callback ==
  ASSUME AuthInv, NEW c \in Commands, NEW state \in Commands, wait_for_oauth_callback(c, state)
  PROVE  AuthInv'
<1> DEFINE P == \E d \in Commands \ {c} : Writing(d)
<1>0. cmd[c].pc = "waiting" /\ UNCHANGED Places /\ stored_before' = stored_before /\ muddled' = (muddled \/ P)
  BY DEF wait_for_oauth_callback, Places, store
<1>1. CASE issued' = issued + 1 /\ cmd' = [cmd EXCEPT ![c].pc = "ring", ![c].tok = issued + 1]
  BY <1>0, <1>1, Issued
<1>2. CASE (ends(c, "oauth_state_mismatch") \/ ends(c, "authorization_failed")) /\ UNCHANGED tokens
  <2> HIDE DEF P
  <2>1. muddled' \in BOOLEAN /\ (~ muddled' => ~ muddled)
    BY <1>0, Muddles
  <2> QED BY <1>0, <1>2, <2>1, GivesUp DEF tokens
<1> QED BY <1>1, <1>2 DEF wait_for_oauth_callback

LEMMA Refresh ==
  ASSUME AuthInv, NEW c \in Commands, resolve_saved_oauth_token_set(c)
  PROVE  AuthInv'
<1>0. cmd[c].pc = "refreshing" /\ UNCHANGED Places /\ stored_before' = stored_before
  BY DEF resolve_saved_oauth_token_set, Places, store
<1>1. CASE issued' = issued + 1 /\ cmd' = [cmd EXCEPT ![c].pc = "ring", ![c].tok = issued + 1]
           /\ muddled' = (muddled \/ \E d \in Commands \ {c} : Writing(d))
  BY <1>0, <1>1, Issued
<1>2. CASE ends(c, "refresh_failed") /\ UNCHANGED <<tokens, muddled>>
  BY <1>0, <1>2, AuthFrom, GivesUp DEF tokens
<1> QED BY <1>1, <1>2 DEF resolve_saved_oauth_token_set

LEMMA RunLogout ==
  ASSUME AuthInv, NEW c \in Commands, run_logout(c)
  PROVE  AuthInv'
<1> DEFINE P == \E d \in Commands : Writing(d) \/ cmd[d].pc = "refreshing"
<1>0. cmd[c].pc = "idle" /\ UNCHANGED Places /\ UNCHANGED <<stored_before, issued>> /\ muddled' = (muddled \/ P)
  BY DEF run_logout, Places, store, tokens
<1>1. muddled' \in BOOLEAN /\ (~ muddled' => ~ muddled /\ \A d \in Commands : ~ Writing(d))
  <2> HIDE DEF P
  <2>1. muddled' \in BOOLEAN /\ (~ muddled' => ~ muddled /\ ~ P)
    BY <1>0, Muddles
  <2> QED BY <2>1 DEF P
<1>2. Moves(c) /\ AuthCommand(cmd'[c]) /\ Tried(cmd'[c]) /\ cmd'[c].pc = "unfile"
  <2>1. cmd' = [cmd EXCEPT ![c] = [Idle EXCEPT !.pc = "unfile", !.kind = "logout"]]
    BY DEF run_logout
  <2>4. Moves(c) /\ cmd'[c] = [Idle EXCEPT !.pc = "unfile", !.kind = "logout"]
    BY <2>1, AuthFrom DEF Moves
  <2>2. cmd'[c] = NewCommand("unfile", "logout", 0, "none")
    BY <2>4 DEF Idle, NewCommand
  <2>3. "unfile" \in AuthPcs /\ "logout" \in AuthKinds
    BY DEF AuthPcs, AuthKinds, WritingPcs
  <2> QED BY <2>2, <2>3, <2>4, NewlyStarted
<1>3. ~ muddled' /\ Clear => WriteFits(cmd[c])' /\ Writing(c)'
  <2> SUFFICES ASSUME ~ muddled', Clear PROVE WriteFits(cmd[c])' /\ Writing(c)'
    OBVIOUS
  <2>2. Settled
    BY <1>1 DEF Clear
  <2>3. Settled'
    BY <1>0, <2>2 DEF Places, Settled, Held, load_oauth_credentials, load_token_file
  <2> QED BY <1>2, <2>3 DEF WriteFits, Writing, WritingPcs
<1>4. UNCHANGED <<keyring, ring, token_file, tmp, latest, stored_before>>
  BY <1>0 DEF Places
<1> QED BY <1>0, <1>1, <1>2, <1>3, <1>4, AuthFrom, Undisturbed DEF Clear

(* A command that writes, as a step of its own finds it.                   *)
LEMMA Writer ==
  ASSUME AuthInv, NEW c \in Commands, Writing(c)
  PROVE  /\ ~ muddled => \A d \in Commands \ {c} : ~ Writing(d)
         /\ ~ muddled => WriteFits(cmd[c])
         /\ ~ muddled => Clear
  BY AuthFrom DEF Clear

LEMMA SaveSecret ==
  ASSUME AuthInv, NEW c \in Commands, save_secret_to_system_store(c)
  PROVE  AuthInv'
<1>0. /\ cmd[c].pc = "ring" /\ Writing(c) /\ cmd[c].kind # "logout" /\ cmd[c].tok \in Nat /\ cmd[c].tok # 0
      /\ muddled' = muddled /\ UNCHANGED <<keyring, token_file, tmp, issued>>
  <2>1. cmd[c].pc = "ring" /\ UNCHANGED <<keyring, token_file, tmp, issued>>
    BY DEF save_secret_to_system_store, tokens
  <2>2. muddled' = muddled
    BY DEF save_secret_to_system_store, stored, history
  <2>3. cmd[c].kind # "logout" /\ cmd[c].tok \in Nat /\ cmd[c].tok # 0
    BY <2>1, AuthFrom DEF AuthCommand
  <2> QED BY <2>1, <2>2, <2>3 DEF Writing, WritingPcs
<1>1. CASE keyring = "up"
  <2>1. /\ ring' = [ring EXCEPT !["current"].openyak = cmd[c].tok]
        /\ goes(c, "tidy") /\ stored_before' = latest /\ latest' = cmd[c].tok
    BY <1>1 DEF save_secret_to_system_store, stored
  <2>2. Moves(c) /\ AuthCommand(cmd'[c]) /\ Tried(cmd'[c]) /\ cmd'[c].pc = "tidy" /\ cmd'[c].tok = cmd[c].tok
    BY <1>0, <2>1, Goes DEF AuthPcs, WritingPcs
  <2>3. /\ ring' \in [Paths -> [openyak : Nat, claw : Nat]] /\ ring'["legacy"] = ring["legacy"]
        /\ ring'["current"].openyak = cmd[c].tok
    BY <1>0, <2>1, AuthFrom DEF Paths
  <2>4. WriteFits(cmd[c])' /\ Writing(c)'
    BY <1>0, <1>1, <2>1, <2>2, <2>3 DEF WriteFits, Writing, WritingPcs
  <2> QED BY <1>0, <1>1, <2>1, <2>2, <2>3, <2>4, AuthFrom, Writer, Undisturbed DEF Clear
<1>2. CASE keyring = "down"
  <2>1. goes(c, "tmp") /\ UNCHANGED <<ring, latest, stored_before>>
    BY <1>2 DEF save_secret_to_system_store, history
  <2>2. Moves(c) /\ AuthCommand(cmd'[c]) /\ Tried(cmd'[c]) /\ cmd'[c].pc = "tmp"
    BY <1>0, <2>1, Goes DEF AuthPcs, WritingPcs
  <2>3. Settled' <=> Settled
    BY <1>0, <2>1 DEF Settled, Held, load_oauth_credentials, load_token_file
  <2>4. ~ muddled => WriteFits(cmd[c])'
    <3>1. ~ muddled => Settled
      BY <1>0, Writer DEF WriteFits
    <3> QED BY <1>0, <1>2, <2>2, <2>3, <3>1 DEF WriteFits
  <2> QED BY <1>0, <2>1, <2>2, <2>4, AuthFrom, Writer, Undisturbed DEF Clear, Writing, WritingPcs
<1>3. CASE keyring \notin {"up", "down"}
  <2>1. ends(c, "keyring_error") /\ UNCHANGED <<ring, latest, stored_before>>
    BY <1>3 DEF save_secret_to_system_store, history
  <2>2. Moves(c) /\ AuthCommand(cmd'[c]) /\ Tried(cmd'[c]) /\ cmd'[c].pc = "done"
    BY <1>0, <2>1, Ends
  <2>3. muddled
    BY <1>3, AuthFrom DEF Clear
  <2> QED BY <1>0, <2>1, <2>2, <2>3, AuthFrom, Undisturbed
<1> QED BY <1>1, <1>2, <1>3

LEMMA RemoveFromFile ==
  ASSUME AuthInv, NEW c \in Commands, remove_oauth_credentials_from_file(c)
  PROVE  AuthInv'
<1>0. /\ cmd[c].pc \in {"tidy", "unfile"} /\ Writing(c) /\ AuthCommand(cmd[c])
      /\ muddled' = muddled /\ UNCHANGED <<keyring, ring, tmp, issued, latest, stored_before>>
      /\ token_file' = [token_file EXCEPT !["current"] = 0]
  BY AuthFrom DEF remove_oauth_credentials_from_file, tokens, history, Writing, WritingPcs
<1>1. /\ token_file' \in [Paths -> Nat] /\ token_file'["current"] = 0 /\ token_file'["legacy"] = token_file["legacy"]
  BY <1>0, AuthFrom DEF Paths
<1>2. CASE cmd[c].pc = "tidy"
  <2>0. cmd[c].kind # "logout" /\ cmd[c].tok # 0 /\ goes(c, "legacy")
    BY <1>0, <1>2 DEF AuthCommand, remove_oauth_credentials_from_file
  <2>1. Moves(c) /\ AuthCommand(cmd'[c]) /\ Tried(cmd'[c]) /\ cmd'[c].pc = "legacy" /\ cmd'[c].tok = cmd[c].tok
        /\ cmd'[c].kind = cmd[c].kind
    BY <1>2, <2>0, Goes DEF AuthPcs, WritingPcs
  <2>2. ~ muddled => WriteFits(cmd[c])'
    <3>1. ~ muddled => keyring = "up" /\ ring["current"].openyak = cmd[c].tok /\ latest = cmd[c].tok
      BY <1>0, <1>2, Writer DEF WriteFits
    <3> QED BY <1>0, <1>1, <2>0, <2>1, <3>1 DEF WriteFits
  <2> QED BY <1>0, <1>1, <2>1, <2>2, AuthFrom, Writer, Undisturbed DEF Clear, Writing, WritingPcs
<1>3. CASE cmd[c].pc = "unfile"
  <2>0. cmd[c].kind = "logout" /\ goes(c, "unring")
    BY <1>0, <1>3 DEF AuthCommand, remove_oauth_credentials_from_file
  <2>1. Moves(c) /\ AuthCommand(cmd'[c]) /\ Tried(cmd'[c]) /\ cmd'[c].pc = "unring"
    BY <1>3, <2>0, Goes DEF AuthPcs, WritingPcs
  <2>2. ~ muddled => WriteFits(cmd[c])'
    <3>1. ~ muddled => Held
      BY <1>0, <1>3, Writer DEF WriteFits, Settled
    <3>2. Held => Held'
      BY <1>0, <1>1 DEF Held
    <3> QED BY <1>1, <2>1, <3>1, <3>2 DEF WriteFits
  <2> QED BY <1>0, <1>1, <2>1, <2>2, AuthFrom, Writer, Undisturbed DEF Clear, Writing, WritingPcs
<1> QED BY <1>0, <1>2, <1>3

LEMMA WriteRestricted ==
  ASSUME AuthInv, NEW c \in Commands, write_restricted_credentials_file(c)
  PROVE  AuthInv'
<1>0. /\ cmd[c].pc = "tmp" /\ Writing(c) /\ AuthCommand(cmd[c]) /\ goes(c, "remove") /\ tmp' = cmd[c].tok
      /\ muddled' = muddled /\ UNCHANGED <<keyring, ring, token_file, issued, latest, stored_before>>
  BY AuthFrom DEF write_restricted_credentials_file, tokens, history, Writing, WritingPcs
<1>1. cmd[c].kind # "logout" /\ cmd[c].tok \in Nat /\ cmd[c].tok # 0
  BY <1>0 DEF AuthCommand
<1>2. Moves(c) /\ AuthCommand(cmd'[c]) /\ Tried(cmd'[c]) /\ cmd'[c].pc = "remove" /\ cmd'[c].tok = cmd[c].tok
  BY <1>0, <1>1, Goes DEF AuthPcs, WritingPcs
<1>3. ~ muddled => WriteFits(cmd[c])'
  <2>1. ~ muddled => keyring = "down" /\ Settled
    BY <1>0, Writer DEF WriteFits
  <2>2. Settled => Settled'
    BY <1>0 DEF Settled, Held, load_oauth_credentials, load_token_file
  <2> QED BY <1>0, <1>2, <2>1, <2>2 DEF WriteFits
<1> QED BY <1>0, <1>1, <1>2, <1>3, AuthFrom, Writer, Undisturbed DEF Clear, Writing, WritingPcs

LEMMA RemoveOld ==
  ASSUME AuthInv, NEW c \in Commands, remove_old_file(c)
  PROVE  AuthInv'
<1>0. /\ cmd[c].pc = "remove" /\ Writing(c) /\ AuthCommand(cmd[c]) /\ goes(c, "rename")
      /\ muddled' = muddled /\ UNCHANGED <<keyring, ring, tmp, issued, latest, stored_before>>
      /\ token_file' = [token_file EXCEPT !["current"] = 0]
  BY AuthFrom DEF remove_old_file, tokens, history, Writing, WritingPcs
<1>1. /\ cmd[c].kind # "logout" /\ cmd[c].tok # 0
      /\ token_file' \in [Paths -> Nat] /\ token_file'["current"] = 0 /\ token_file'["legacy"] = token_file["legacy"]
  BY <1>0, AuthFrom DEF AuthCommand, Paths
<1>2. Moves(c) /\ AuthCommand(cmd'[c]) /\ Tried(cmd'[c]) /\ cmd'[c].pc = "rename" /\ cmd'[c].tok = cmd[c].tok
  BY <1>0, <1>1, Goes DEF AuthPcs, WritingPcs
<1>3. ~ muddled => WriteFits(cmd[c])'
  <2>1. ~ muddled => keyring = "down" /\ Held /\ tmp = cmd[c].tok
    BY <1>0, Writer DEF WriteFits, Settled
  <2>2. Held => Held'
    BY <1>0, <1>1 DEF Held
  <2> QED BY <1>0, <1>1, <1>2, <2>1, <2>2 DEF WriteFits
<1> QED BY <1>0, <1>1, <1>2, <1>3, AuthFrom, Writer, Undisturbed DEF Clear, Writing, WritingPcs

LEMMA RenameNew ==
  ASSUME AuthInv, NEW c \in Commands, rename_new_file(c)
  PROVE  AuthInv'
<1>0. /\ cmd[c].pc = "rename" /\ Writing(c) /\ AuthCommand(cmd[c])
      /\ UNCHANGED <<keyring, ring, issued>>
  BY AuthFrom DEF rename_new_file, tokens, Writing, WritingPcs
<1>1. cmd[c].kind # "logout" /\ cmd[c].tok \in Nat /\ cmd[c].tok # 0
  BY <1>0 DEF AuthCommand
<1>2. ~ muddled => keyring = "down" /\ tmp = cmd[c].tok
  BY <1>0, Writer DEF WriteFits
<1>3. CASE tmp = 0
  <2>1. ends(c, "rename_failed") /\ UNCHANGED <<token_file, tmp, latest, stored_before, muddled>>
    BY <1>3 DEF rename_new_file, history
  <2>2. Moves(c) /\ AuthCommand(cmd'[c]) /\ Tried(cmd'[c]) /\ cmd'[c].pc = "done"
    BY <1>0, <2>1, Ends
  <2>3. muddled
    BY <1>1, <1>2, <1>3
  <2> QED BY <1>0, <2>1, <2>2, <2>3, AuthFrom, Undisturbed
<1>4. CASE tmp # 0
  <2>1. /\ token_file' = [token_file EXCEPT !["current"] = tmp] /\ tmp' = 0 /\ goes(c, "legacy")
        /\ stored_before' = latest /\ latest' = cmd[c].tok /\ muddled' = muddled
    BY <1>4 DEF rename_new_file, stored
  <2>2. Moves(c) /\ AuthCommand(cmd'[c]) /\ Tried(cmd'[c]) /\ cmd'[c].pc = "legacy" /\ cmd'[c].tok = cmd[c].tok
        /\ cmd'[c].kind = cmd[c].kind
    BY <1>0, <1>1, <2>1, Goes DEF AuthPcs, WritingPcs
  <2>3. token_file' \in [Paths -> Nat] /\ token_file'["current"] = tmp
    BY <2>1, AuthFrom DEF Paths
  <2>4. ~ muddled => WriteFits(cmd[c])'
    BY <1>0, <1>1, <1>2, <2>1, <2>2, <2>3 DEF WriteFits
  <2> QED BY <1>0, <1>1, <2>1, <2>2, <2>3, <2>4, AuthFrom, Writer, Undisturbed DEF Clear, Writing, WritingPcs
<1> QED BY <1>3, <1>4

LEMMA Unring ==
  ASSUME AuthInv, NEW c \in Commands, unring(c)
  PROVE  AuthInv'
<1>0. /\ cmd[c].pc = "unring" /\ Writing(c) /\ cmd[c].kind = "logout"
      /\ UNCHANGED <<keyring, token_file, tmp, issued, latest, stored_before, muddled>>
  BY AuthFrom DEF unring, tokens, history, Writing, WritingPcs, AuthCommand
<1>1. CASE keyring = "broken"
  <2>1. ends(c, "keyring_error") /\ UNCHANGED ring
    BY <1>1 DEF unring
  <2>2. Moves(c) /\ AuthCommand(cmd'[c]) /\ Tried(cmd'[c]) /\ cmd'[c].pc = "done"
    BY <1>0, <2>1, Ends
  <2>3. muddled
    BY <1>1, AuthFrom DEF Clear
  <2> QED BY <1>0, <2>1, <2>2, <2>3, AuthFrom, Undisturbed
<1>2. CASE keyring # "broken"
  <2>1. ring' = (IF keyring = "up" THEN [ring EXCEPT !["current"] = NoSecrets] ELSE ring) /\ goes(c, "legacy")
    BY <1>2 DEF unring, clear_secret_from_system_store
  <2>2. Moves(c) /\ AuthCommand(cmd'[c]) /\ Tried(cmd'[c]) /\ cmd'[c].pc = "legacy" /\ cmd'[c].kind = "logout"
    BY <1>0, <2>1, Goes DEF AuthPcs, WritingPcs
  <2>3. /\ ring' \in [Paths -> [openyak : Nat, claw : Nat]] /\ ring'["legacy"] = ring["legacy"]
        /\ keyring = "up" => ring'["current"].openyak = 0 /\ ring'["current"].claw = 0
        /\ keyring # "up" => ring' = ring
    BY <2>1, AuthFrom DEF Paths, NoSecrets
  <2>4. ~ muddled => WriteFits(cmd[c])'
    <3>1. ~ muddled => /\ Held /\ token_file["current"] = 0
                       /\ keyring = "down" => ring["current"].openyak = 0 /\ ring["current"].claw = 0
      BY <1>0, Writer DEF WriteFits, Clear
    <3>2. keyring \in {"up", "down"}
      BY <1>2, AuthFrom
    <3> QED BY <1>0, <2>2, <2>3, <3>1, <3>2 DEF WriteFits, Held
  <2>5. keyring = "down" => ring' = ring
    BY <2>3
  <2> QED BY <1>0, <2>2, <2>3, <2>4, <2>5, AuthFrom, Writer, Undisturbed DEF Clear, Writing, WritingPcs
<1> QED BY <1>1, <1>2

LEMMA ClearLegacy ==
  ASSUME AuthInv, NEW c \in Commands, clear_legacy(c)
  PROVE  AuthInv'
<1>0. /\ cmd[c].pc = "legacy" /\ Writing(c) /\ AuthCommand(cmd[c])
      /\ UNCHANGED <<keyring, tmp, issued>>
      /\ token_file' = [token_file EXCEPT !["legacy"] = 0]
      /\ ring' = IF keyring = "up" THEN [ring EXCEPT !["legacy"] = NoSecrets] ELSE ring
  BY AuthFrom DEF clear_legacy, clear_secret_from_system_store, tokens, Writing, WritingPcs
<1>1. /\ muddled' = muddled
      /\ IF cmd[c].kind = "logout" THEN latest' = 0 /\ stored_before' = 0 ELSE UNCHANGED <<latest, stored_before>>
  BY DEF clear_legacy, history
<1>2. Moves(c) /\ AuthCommand(cmd'[c]) /\ Tried(cmd'[c]) /\ cmd'[c].pc \in {"sending", "done"}
  <2>1. CASE cmd[c].kind = "prompt"
    <3>1. goes(c, "sending")
      BY <2>1 DEF clear_legacy
    <3> QED BY <1>0, <3>1, Goes DEF AuthPcs
  <2>2. CASE cmd[c].kind # "prompt"
    <3>1. ends(c, "cleared") \/ ends(c, "ok")
      BY <2>2 DEF clear_legacy
    <3> QED BY <1>0, <3>1, Ends
  <2> QED BY <2>1, <2>2
<1>3. /\ ring' \in [Paths -> [openyak : Nat, claw : Nat]] /\ ring'["current"] = ring["current"]
      /\ keyring = "up" => ring'["legacy"].openyak = 0 /\ ring'["legacy"].claw = 0
      /\ keyring # "up" => ring' = ring
      /\ token_file' \in [Paths -> Nat] /\ token_file'["legacy"] = 0 /\ token_file'["current"] = token_file["current"]
  BY <1>0, AuthFrom DEF Paths, NoSecrets
<1>4. latest' \in Nat /\ stored_before' \in Nat /\ cmd'[c].pc \notin WritingPcs
  BY <1>1, <1>2, AuthFrom DEF WritingPcs
<1>5. ~ muddled => Settled'
  <2> SUFFICES ASSUME ~ muddled PROVE Settled'
    OBVIOUS
  <2>1. /\ keyring \in {"up", "down"}
        /\ ring["legacy"].openyak = 0 /\ ring["legacy"].claw = 0
        /\ keyring = "down" => ring["current"].openyak = 0 /\ ring["current"].claw = 0
    BY AuthFrom DEF Clear
  <2>2. ring'["legacy"].openyak = 0 /\ ring'["legacy"].claw = 0
    BY <1>3, <2>1
  <2>3. WriteFits(cmd[c])
    BY <1>0, Writer
  <2>4. CASE cmd[c].kind = "logout"
    <3>1. token_file["current"] = 0 /\ ring["current"].openyak = 0 /\ ring["current"].claw = 0 /\ latest' = 0
      BY <1>0, <1>1, <2>3, <2>4 DEF WriteFits
    <3> QED BY <1>0, <1>3, <2>2, <3>1 DEF Settled, Held, load_oauth_credentials, load_token_file
  <2>5. CASE cmd[c].kind # "logout"
    <3>1. /\ latest' = cmd[c].tok /\ cmd[c].tok # 0
          /\ IF keyring = "up" THEN ring["current"].openyak = cmd[c].tok /\ token_file["current"] = 0
             ELSE token_file["current"] = cmd[c].tok
      BY <1>0, <1>1, <2>3, <2>5 DEF WriteFits, AuthCommand
    <3> QED BY <1>0, <1>3, <2>1, <2>2, <3>1 DEF Settled, Held, load_oauth_credentials, load_token_file
  <2> QED BY <2>4, <2>5
<1>6. ~ muddled => WriteFits(cmd[c])'
  BY <1>4 DEF WriteFits, WritingPcs
<1>7. cmd'[c].pc # "idle"
  BY <1>2
<1>8. Clear => /\ ring'["legacy"].openyak = 0 /\ ring'["legacy"].claw = 0
               /\ keyring = "down" => ring'["current"].openyak = 0 /\ ring'["current"].claw = 0
  BY <1>3 DEF Clear
<1> QED BY <1>0, <1>1, <1>2, <1>3, <1>4, <1>5, <1>6, <1>7, <1>8, AuthFrom, Writer, Undisturbed

LEMMA SendWithRetry ==
  ASSUME AuthInv, NEW c \in Commands, send_with_retry(c)
  PROVE  AuthInv'
<1> DEFINE n == cmd[c].attempts + 1
           s == cmd[c].slept
<1>0. /\ cmd[c].pc = "sending" /\ ~ Writing(c) /\ AuthCommand(cmd[c]) /\ Tried(cmd[c]) /\ DOMAIN cmd = Commands
      /\ UNCHANGED Places /\ UNCHANGED <<issued, stored_before, muddled>>
  BY AuthFrom DEF send_with_retry, store, tokens, history, Places, Writing, WritingPcs
<1>1. /\ s \in Seq(Nat) /\ cmd[c].attempts \in Nat /\ n \in Nat /\ Len(s) \in Nat /\ n = Len(s) + 1 /\ Len(s) <= max_retries
      /\ max_retries \in Nat /\ \A i \in 1..Len(s) : s[i] = backoff_for_attempt(i)
      /\ cmd[c].said # "retries_exhausted"
  <2>1. cmd[c].slept \in Seq(Nat) /\ cmd[c].attempts \in Nat
    BY <1>0 DEF AuthCommand
  <2>2. max_retries \in Nat
    BY AuthAssumption
  <2>3. Len(cmd[c].slept) \in Nat
    BY <2>1
  <2> QED BY <1>0, <2>1, <2>2, <2>3 DEF Tried
<1>2. Moves(c) /\ cmd'[c].pc \in {"sending", "done"} /\ AuthCommand(cmd'[c]) /\ Tried(cmd'[c])
  <2>1. CASE \E said \in {"answered", "refused", "backoff_overflow"} : cmd' = [cmd EXCEPT ![c].attempts = n, ![c].pc = "done", ![c].said = said]
    <3>1. PICK said \in {"answered", "refused", "backoff_overflow"} : cmd'[c] = [cmd[c] EXCEPT !.attempts = n, !.pc = "done", !.said = said]
      BY <1>0, <2>1
    <3>2. Moves(c)
      BY <1>0, <2>1 DEF Moves
    <3>3. AuthCommand(cmd'[c]) /\ cmd'[c].pc = "done" /\ cmd'[c].said = said /\ cmd'[c].attempts = n
          /\ cmd'[c].slept = s
      BY <1>0, <1>1, <3>1 DEF AuthCommand, AuthPcs
    <3> HIDE DEF n, s
    <3>4. Tried(cmd'[c])
      BY <1>1, <3>1, <3>3 DEF Tried
    <3> QED BY <3>2, <3>3, <3>4
  <2>2. CASE exhausted(n) /\ cmd' = [cmd EXCEPT ![c].attempts = n, ![c].pc = "done", ![c].said = "retries_exhausted"]
    <3>1. cmd'[c] = [cmd[c] EXCEPT !.attempts = n, !.pc = "done", !.said = "retries_exhausted"] /\ Moves(c)
      BY <1>0, <2>2 DEF Moves
    <3>3. AuthCommand(cmd'[c]) /\ cmd'[c].pc = "done" /\ cmd'[c].attempts = n /\ cmd'[c].slept = s
      BY <1>0, <1>1, <3>1 DEF AuthCommand, AuthPcs
    <3> HIDE DEF n, s
    <3>4. n = max_retries + 1
      BY <1>1, <2>2 DEF exhausted
    <3>5. Tried(cmd'[c])
      BY <1>1, <3>3, <3>4 DEF Tried
    <3> QED BY <3>1, <3>3, <3>5
  <2>3. CASE ~ exhausted(n) /\ shifts(n)
             /\ cmd' = [cmd EXCEPT ![c].attempts = n, ![c].slept = Append(@, backoff_for_attempt(n))]
    <3>1. cmd'[c] = [cmd[c] EXCEPT !.attempts = n, !.slept = Append(s, backoff_for_attempt(n))] /\ Moves(c)
      BY <1>0, <2>3 DEF Moves
    <3>2. n \in 1..max_retries /\ backoff_for_attempt(n) \in Nat
      <4>1. n \in 1..max_retries
        BY <1>1, <2>3 DEF exhausted
      <4> QED BY <4>1, Backoff
    <3>3. Append(s, backoff_for_attempt(n)) \in Seq(Nat) /\ Len(Append(s, backoff_for_attempt(n))) = n
          /\ \A i \in 1..n : Append(s, backoff_for_attempt(n))[i] = backoff_for_attempt(i)
      <4> DEFINE b == backoff_for_attempt(n)
                 a == Append(s, b)
      <4> HIDE DEF n, s, b
      <4>1. a \in Seq(Nat) /\ Len(a) = n /\ a[n] = b /\ \A i \in 1..Len(s) : a[i] = s[i]
        BY <1>1, <3>2 DEF b
      <4>2. \A i \in 1..n : i = n \/ i \in 1..Len(s)
        BY <1>1
      <4> HIDE DEF a
      <4>3. \A i \in 1..n : a[i] = backoff_for_attempt(i)
        BY <1>1, <4>1, <4>2 DEF b
      <4> QED BY <4>1, <4>3 DEF a, b
    <3> DEFINE a == Append(s, backoff_for_attempt(n))
    <3> HIDE DEF a
    <3>4. AuthCommand(cmd'[c]) /\ cmd'[c].pc = "sending" /\ cmd'[c].attempts = n /\ cmd'[c].slept = a
          /\ cmd'[c].said = cmd[c].said
      <4>1. cmd'[c] = [cmd[c] EXCEPT !.attempts = n, !.slept = a] /\ a \in Seq(Nat)
        BY <3>1, <3>3 DEF a
      <4> QED BY <1>0, <1>1, <4>1 DEF AuthCommand, AuthPcs
    <3>5. Len(a) = n /\ \A i \in 1..n : a[i] = backoff_for_attempt(i)
      BY <3>3 DEF a
    <3> HIDE DEF n, s
    <3>6. Tried(cmd'[c])
      BY <1>1, <3>2, <3>4, <3>5 DEF Tried
    <3> QED BY <3>1, <3>4, <3>6
  <2> QED BY <2>1, <2>2, <2>3 DEF send_with_retry
<1>3. cmd'[c].pc \notin WritingPcs \cup {"idle"}
  BY <1>2 DEF WritingPcs
<1> QED BY <1>0, <1>2, <1>3, AuthFrom, Aside

(* A load that moves the token leaves it where it is found.                *)
LEMMA Moved ==
  ASSUME AuthInv, ~ muddled, Clear, Settled, Migrated, UNCHANGED <<keyring, tmp, latest>>
  PROVE  /\ Settled'
         /\ ring'["legacy"].openyak = 0 /\ ring'["legacy"].claw = 0
         /\ keyring = "down" => ring'["current"].openyak = 0 /\ ring'["current"].claw = 0
<1> DEFINE t == load_oauth_credentials
           here == load_token_file("current") # 0
           moves == ~ here \/ (ring["current"].openyak = 0 /\ ring["current"].claw = 0)
<1>0. /\ keyring \in {"up", "down"} /\ t = latest /\ latest \in Nat
      /\ ring \in [Paths -> [openyak : Nat, claw : Nat]] /\ token_file \in [Paths -> Nat]
      /\ ring["legacy"].openyak = 0 /\ ring["legacy"].claw = 0
      /\ keyring = "down" => ring["current"].openyak = 0 /\ ring["current"].claw = 0
  BY DEF AuthInv, AuthShape, Clear, Settled
<1>1. CASE UNCHANGED <<ring, token_file>>
  BY <1>0, <1>1 DEF Settled, Held, load_oauth_credentials, load_token_file
<1>2. CASE t # 0 /\ keyring = "up" /\ moves /\ here
  <2>1. /\ ring' = [p \in Paths |-> IF p = "current" THEN [ring[p] EXCEPT !.openyak = t] ELSE ring[p]]
        /\ token_file' = [p \in Paths |-> IF p = "legacy" THEN token_file[p] ELSE 0]
    BY <1>2 DEF Migrated
  <2>2. /\ ring'["current"].openyak = latest /\ ring'["legacy"] = ring["legacy"]
        /\ token_file'["current"] = 0 /\ token_file'["legacy"] = token_file["legacy"]
    BY <1>0, <2>1 DEF Paths
  <2> QED BY <1>0, <1>2, <2>2 DEF Settled, Held, load_oauth_credentials, load_token_file
<1>3. CASE t # 0 /\ keyring = "up" /\ moves /\ ~ here
  <2>1. /\ ring' = [p \in Paths |-> IF p = "current" THEN [ring[p] EXCEPT !.openyak = t] ELSE NoSecrets]
        /\ token_file' = [p \in Paths |-> 0]
    BY <1>3 DEF Migrated
  <2>2. /\ ring'["current"].openyak = latest /\ ring'["legacy"].openyak = 0 /\ ring'["legacy"].claw = 0
        /\ token_file'["current"] = 0 /\ token_file'["legacy"] = 0
    BY <1>0, <2>1 DEF Paths, NoSecrets
  <2> QED BY <1>0, <1>3, <2>2 DEF Settled, Held, load_oauth_credentials, load_token_file
<1>4. CASE t # 0 /\ keyring = "down" /\ ~ here
  <2>1. ring' = ring /\ token_file' = [p \in Paths |-> IF p = "current" THEN t ELSE 0]
    BY <1>4 DEF Migrated
  <2>2. token_file'["current"] = latest /\ token_file'["legacy"] = 0
    BY <1>0, <2>1 DEF Paths
  <2> QED BY <1>0, <1>4, <2>1, <2>2 DEF Settled, Held, load_oauth_credentials, load_token_file
<1>5. \/ UNCHANGED <<ring, token_file>>
      \/ t # 0 /\ keyring = "up" /\ moves
      \/ t # 0 /\ keyring = "down" /\ ~ here
  BY <1>0 DEF Migrated
<1> QED BY <1>1, <1>2, <1>3, <1>4, <1>5

LEMMA MovedTypes ==
  ASSUME AuthInv, Migrated \/ UNCHANGED <<ring, token_file>>
  PROVE  ring' \in [Paths -> [openyak : Nat, claw : Nat]] /\ token_file' \in [Paths -> Nat]
<1> DEFINE t == load_oauth_credentials
           here == load_token_file("current") # 0
           moves == ~ here \/ (ring["current"].openyak = 0 /\ ring["current"].claw = 0)
<1>1. ring \in [Paths -> [openyak : Nat, claw : Nat]] /\ token_file \in [Paths -> Nat]
  BY DEF AuthInv, AuthShape
<1>2. t \in Nat
  BY <1>1 DEF load_oauth_credentials, load_token_file, Paths
<1>3. NoSecrets \in [openyak : Nat, claw : Nat] /\ \A p \in Paths : [ring[p] EXCEPT !.openyak = t] \in [openyak : Nat, claw : Nat]
  BY <1>1, <1>2 DEF NoSecrets
<1>4. CASE UNCHANGED <<ring, token_file>>
  BY <1>1, <1>4
<1>5. CASE keyring = "up" /\ moves /\ t # 0 /\ Migrated
  <2>1. ring' = [p \in Paths |-> IF p = "current" THEN [ring[p] EXCEPT !.openyak = t] ELSE IF here THEN ring[p] ELSE NoSecrets]
        /\ token_file' = [p \in Paths |-> IF here /\ p = "legacy" THEN token_file[p] ELSE 0]
    BY <1>5 DEF Migrated
  <2> HIDE DEF t, here
  <2> QED BY <1>1, <1>3, <2>1
<1>6. CASE keyring # "up" /\ ~ here /\ t # 0 /\ Migrated
  <2>1. ring' = ring /\ token_file' = [p \in Paths |-> IF p = "current" THEN t ELSE 0]
    BY <1>6 DEF Migrated
  <2> HIDE DEF t
  <2> QED BY <1>1, <1>2, <2>1
<1> QED BY <1>4, <1>5, <1>6 DEF Migrated

LEMMA StartCommand ==
  ASSUME AuthInv, NEW c \in Commands, NEW kind \in {"prompt", "doctor"}, start_command(c, kind)
  PROVE  AuthInv'
<1> DEFINE t == load_oauth_credentials
           what == IF settings.env = "key" THEN "key"
                   ELSE IF keyring = "broken" THEN "keyring_error" ELSE resolve_startup_auth_source(t)
           P == (ring' # ring \/ token_file' # token_file) /\ \E d \in Commands : Writing(d)
<1>0. /\ cmd[c].pc = "idle" /\ ~ Writing(c) /\ muddled' = (muddled \/ P)
      /\ UNCHANGED <<keyring, tmp, issued, latest, stored_before>>
      /\ cmd' = [cmd EXCEPT ![c] =
           [Idle EXCEPT !.kind = kind, !.tok = IF what \in {"token", "refresh"} THEN t ELSE 0,
                        !.stale = what = "token" /\ oauth_token_is_expired(t),
                        !.pc = IF what = "refresh" THEN "refreshing"
                               ELSE IF what \in {"key", "token"} THEN (IF kind = "prompt" THEN "sending" ELSE "done")
                               ELSE "done",
                        !.said = IF kind = "doctor" THEN doctor_active_model_auth_check(what) ELSE what]]
      /\ Migrated \/ UNCHANGED <<ring, token_file>>
  BY DEF start_command, tokens, Writing, WritingPcs
<1>1. muddled' \in BOOLEAN /\ (~ muddled' => ~ muddled /\ ~ P)
  <2> HIDE DEF P
  <2> QED BY <1>0, Muddles
<1>2. t \in Nat
  BY AuthFrom DEF load_oauth_credentials, load_token_file, Paths
<1>3. /\ what = "token" => ~ oauth_token_is_expired(t)
      /\ what # "retries_exhausted" /\ doctor_active_model_auth_check(what) # "retries_exhausted"
  BY DEF resolve_startup_auth_source, doctor_active_model_auth_check
<1>4. Moves(c) /\ AuthCommand(cmd'[c]) /\ Tried(cmd'[c]) /\ cmd'[c].pc \in {"refreshing", "sending", "done"}
  <2> DEFINE pc == IF what = "refresh" THEN "refreshing"
                   ELSE IF what \in {"key", "token"} THEN (IF kind = "prompt" THEN "sending" ELSE "done")
                   ELSE "done"
             tok == IF what \in {"token", "refresh"} THEN t ELSE 0
             said == IF kind = "doctor" THEN doctor_active_model_auth_check(what) ELSE what
  <2>1. pc \in {"refreshing", "sending", "done"}
    OBVIOUS
  <2>2. tok \in Nat /\ said # "retries_exhausted"
    BY <1>2, <1>3
  <2>3. Moves(c) /\ cmd'[c] = [Idle EXCEPT !.kind = kind, !.tok = tok,
                                 !.stale = what = "token" /\ oauth_token_is_expired(t), !.pc = pc, !.said = said]
    BY <1>0, AuthFrom DEF Moves
  <2>4. (what = "token" /\ oauth_token_is_expired(t)) = FALSE
    BY <1>3
  <2> HIDE DEF pc, tok, said, what, t
  <2>5. cmd'[c] = [Idle EXCEPT !.kind = kind, !.tok = tok, !.stale = FALSE, !.pc = pc, !.said = said]
    BY <2>3, <2>4
  <2>6. cmd'[c] = NewCommand(pc, kind, tok, said)
    BY <2>5 DEF Idle, NewCommand
  <2>7. pc \in AuthPcs /\ kind \in AuthKinds
    BY <2>1 DEF AuthPcs, AuthKinds
  <2> QED BY <2>1, <2>2, <2>3, <2>6, <2>7, NewlyStarted
<1>5. cmd'[c].pc \notin WritingPcs \cup {"idle"}
  BY <1>4 DEF WritingPcs
<1>6. CASE UNCHANGED <<ring, token_file>>
  <2>1. UNCHANGED Places
    BY <1>0, <1>6 DEF Places
  <2> QED BY <1>0, <1>1, <1>4, <1>5, <2>1, AuthFrom, Aside
<1>7. CASE Migrated /\ (ring' # ring \/ token_file' # token_file)
  <2>1. ring' \in [Paths -> [openyak : Nat, claw : Nat]] /\ token_file' \in [Paths -> Nat]
    BY <1>7, MovedTypes
  <2>2. ~ muddled' => \A d \in Commands : ~ Writing(d)
    BY <1>1, <1>7
  <2>3. ~ muddled' /\ Clear =>
          /\ Settled'
          /\ ring'["legacy"].openyak = 0 /\ ring'["legacy"].claw = 0
          /\ keyring = "down" => ring'["current"].openyak = 0 /\ ring'["current"].claw = 0
    <3> SUFFICES ASSUME ~ muddled', Clear
                 PROVE  /\ Settled'
                        /\ ring'["legacy"].openyak = 0 /\ ring'["legacy"].claw = 0
                        /\ keyring = "down" => ring'["current"].openyak = 0 /\ ring'["current"].claw = 0
      OBVIOUS
    <3>1. Settled /\ ~ muddled
      BY <1>1, <2>2 DEF Clear
    <3> QED BY <1>0, <1>7, <3>1, Moved
  <2>4. WriteFits(cmd[c])'
    BY <1>5 DEF WriteFits, WritingPcs
  <2> QED BY <1>0, <1>1, <1>4, <1>5, <2>1, <2>2, <2>3, <2>4, AuthFrom, Undisturbed
<1> QED BY <1>0, <1>6, <1>7

LEMMA Expires ==
  ASSUME AuthInv, token_expires
  PROVE  AuthInv'
<1>1. UNCHANGED <<keyring, ring, token_file, tmp, issued, cmd, latest, stored_before, muddled>>
  BY DEF token_expires, store, history
<1>2. Clear <=> Clear'
  BY <1>1 DEF Clear, WriteFits, Settled, Held, Writing, load_oauth_credentials, load_token_file
<1> QED BY <1>1, <1>2 DEF AuthInv, AuthShape

LEMMA KeyringChanges ==
  ASSUME AuthInv, keyring_changes
  PROVE  AuthInv'
BY DEF AuthInv, AuthShape, keyring_changes, tokens

LEMMA AuthRests ==
  ASSUME AuthInv, UNCHANGED authVars
  PROVE  AuthInv'
<1>1. UNCHANGED <<keyring, ring, token_file, tmp, issued, cmd, latest, stored_before, muddled>>
  BY DEF authVars
<1>2. Clear <=> Clear'
  BY <1>1 DEF Clear, WriteFits, Settled, Held, Writing, load_oauth_credentials, load_token_file
<1> QED BY <1>1, <1>2 DEF AuthInv, AuthShape

LEMMA AuthMoves ==
  ASSUME AuthInv, AuthNext
  PROVE  AuthInv'
BY RunLogin, RunLogout, StartCommand, Callback, Refresh, SaveSecret, RemoveFromFile, WriteRestricted, RemoveOld,
   RenameNew, Unring, ClearLegacy, SendWithRetry, Expires, KeyringChanges DEF AuthNext

(* What credentials promise (Extensions.ProvidersSound), for any number of *)
(* commands, tokens and changes of the keyring: what is loaded is what was *)
(* stored last, and nothing once logged out, but between the two steps     *)
(* that replace the file; an expired token is not sent; and a request is   *)
(* repeated at most max_retries times, each delay as long as the one       *)
(* before or longer, up to max_backoff.                                    *)
THEOREM ProvidersSafe == PartsSpec => []ProvidersSound
<1>1. PartsInit => (part = "auth" => AuthInv)
  BY AuthStart DEF PartsInit
<1>2. (part = "auth" => AuthInv) /\ [PartsNext]_partsVars => (part = "auth" => AuthInv)'
  BY AuthMoves, AuthRests DEF PartsNext, partsVars
<1>3. (part = "auth" => AuthInv) => ProvidersSound
  BY AuthHolds DEF ProvidersSound
<1> QED
  BY <1>1, <1>2, <1>3, PTL DEF PartsSpec
-----------------------------------------------------------------------------
(***************************************************************************)
(* The REPL: which process holds a session file, and the mode of each.     *)
(***************************************************************************)

ReplFileSession == [kind : {"session"}, turns : SUBSET Nat, question : Questions]
LiveClis ==
  [at : {"saving", "truncated", "prompt", "turn", "switched", "resumed"},
   next : {"prompt", "turn", "resumed", "off"}, mode : CliModes, runtime : CliModes,
   ceiling : CliModes, restore : CliModes \cup {"none"}, session : ReplFileSession, file : SessionFiles]

(* A process that is up: its mode is in force, and it starts no turn over  *)
(* a question, now or after the save under way.                            *)
CliOK(r) ==
  /\ r \in LiveClis /\ r.runtime = r.mode /\ rank(r.mode) <= rank(r.ceiling)
  /\ r.restore # "none" => r.mode = "read-only" /\ rank(r.restore) <= rank(r.ceiling)
  /\ r.at = "turn" \/ (r.at \in {"saving", "truncated"} /\ r.next = "turn") => r.session.question = "none"

ReplTypes ==
  /\ \A c \in Clis : cli[c] = Off \/ CliOK(cli[c])
  /\ DOMAIN cli = Clis /\ cli = [c \in Clis |-> cli[c]]
  /\ disk \in [SessionFiles -> {NoFile, TornFile} \cup ReplFileSession]
  /\ clock \in SessionFiles /\ count \in Nat
  /\ saves \subseteq Nat \X SessionFiles /\ contested \subseteq SessionFiles

OneHolder ==
  \A f \in SessionFiles \ contested : \A c, d \in Clis :
    cli[c] # Off /\ cli[d] # Off /\ cli[c].file = f /\ cli[d].file = f => c = d

ReplInv == ReplTypes /\ OneHolder /\ TurnsKept

LEMMA LiveRecords ==
  ASSUME ReplTypes, NEW c \in Clis
  PROVE  /\ c \in Live <=> cli[c] # Off
         /\ cli[c].at # "off" => CliOK(cli[c])
<1>1. Off.at = "off"
  BY DEF Off
<1>2. CliOK(cli[c]) => cli[c].at # "off"
  BY DEF CliOK, LiveClis
<1> QED BY <1>1, <1>2 DEF ReplTypes, Live

LEMMA SessionKinds ==
  ASSUME ReplTypes, NEW f \in SessionFiles
  PROVE  /\ disk[f].kind = "session" => disk[f] \in ReplFileSession /\ disk[f] # TornFile
         /\ TornFile.kind = "torn"
BY DEF ReplTypes, NoFile, TornFile, ReplFileSession

(* A process goes on in the session that it has, or ends.                  *)
LEMMA CliGoesOn ==
  ASSUME ReplInv, NEW c \in Clis, NEW r, cli' = [cli EXCEPT ![c] = r],
         \/ r = Off
         \/ /\ CliOK(r) /\ cli[c] # Off /\ r.file = cli[c].file
            /\ (cli[c].session.turns \subseteq r.session.turns \/ cli[c].file \in contested'),
         contested \subseteq contested', contested' \subseteq SessionFiles,
         UNCHANGED <<disk, clock, saves>>, count' \in Nat
  PROVE  ReplInv'
<1>1. /\ cli'[c] = r /\ \A d \in Clis \ {c} : cli'[d] = cli[d]
      /\ DOMAIN cli' = Clis /\ cli' = [d \in Clis |-> cli'[d]]
  BY DEF ReplInv, ReplTypes
<1>2. ReplTypes'
  BY <1>1 DEF ReplInv, ReplTypes
<1>3. OneHolder'
  BY <1>1 DEF ReplInv, OneHolder
<1>4. TurnsKept'
  <2> SUFFICES ASSUME NEW e \in saves, e[2] \notin contested'
               PROVE  /\ disk[e[2]] = TornFile \/ (disk[e[2]].kind = "session" /\ e[1] \in disk[e[2]].turns)
                      /\ \A d \in Holders(e[2])' : e[1] \in cli'[d].session.turns
    BY DEF TurnsKept
  <2>1. /\ disk[e[2]] = TornFile \/ (disk[e[2]].kind = "session" /\ e[1] \in disk[e[2]].turns)
        /\ \A d \in Holders(e[2]) : e[1] \in cli[d].session.turns
    BY DEF ReplInv, TurnsKept
  <2>2. ASSUME NEW d \in Holders(e[2])'
        PROVE  e[1] \in cli'[d].session.turns
    <3>1. d \in Clis /\ cli'[d] # Off /\ cli'[d].file = e[2]
      BY <1>2, LiveRecords DEF Holders, Live, Off
    <3>2. CASE d = c
      <4>1. c \in Holders(e[2])
        BY <3>1, <3>2, <1>1, LiveRecords DEF Holders, ReplInv
      <4> QED BY <4>1, <2>1, <3>1, <3>2, <1>1
    <3>3. CASE d # c
      <4>1. cli'[d] = cli[d] /\ d \in Holders(e[2])
        BY <3>1, <3>3, <1>1, LiveRecords DEF Holders, ReplInv
      <4> QED BY <4>1, <2>1
    <3> QED BY <3>2, <3>3
  <2> QED BY <2>1, <2>2
<1> QED BY <1>2, <1>3, <1>4 DEF ReplInv

(* A process opens a session file, which has every turn saved in it.       *)
LEMMA CliOpens ==
  ASSUME ReplInv, NEW c \in Clis, NEW f \in SessionFiles, opened(c, f), NEW r, CliOK(r), r.file = f,
         cli' = [cli EXCEPT ![c] = r], UNCHANGED <<disk, clock, count, saves>>,
         \A e \in saves : e[2] = f /\ f \notin contested => e[1] \in r.session.turns
  PROVE  ReplInv'
<1>1. /\ cli'[c] = r /\ \A d \in Clis \ {c} : cli'[d] = cli[d]
      /\ DOMAIN cli' = Clis /\ cli' = [d \in Clis |-> cli'[d]]
  BY DEF ReplInv, ReplTypes
<1>2. contested \subseteq contested' /\ contested' \subseteq SessionFiles
  BY DEF opened, ReplInv, ReplTypes
<1>3. ReplTypes'
  BY <1>1, <1>2 DEF ReplInv, ReplTypes
<1>4. f \notin contested' => \A d \in Clis \ {c} : cli[d] = Off \/ cli[d].file # f
  BY LiveRecords DEF opened, Holders, ReplInv
<1>5. OneHolder'
  BY <1>1, <1>2, <1>4 DEF ReplInv, OneHolder
<1>6. TurnsKept'
  <2> SUFFICES ASSUME NEW e \in saves, e[2] \notin contested'
               PROVE  /\ disk[e[2]] = TornFile \/ (disk[e[2]].kind = "session" /\ e[1] \in disk[e[2]].turns)
                      /\ \A d \in Holders(e[2])' : e[1] \in cli'[d].session.turns
    BY DEF TurnsKept
  <2>1. /\ disk[e[2]] = TornFile \/ (disk[e[2]].kind = "session" /\ e[1] \in disk[e[2]].turns)
        /\ \A d \in Holders(e[2]) : e[1] \in cli[d].session.turns
    BY <1>2 DEF ReplInv, TurnsKept
  <2>2. ASSUME NEW d \in Holders(e[2])'
        PROVE  e[1] \in cli'[d].session.turns
    <3>1. d \in Clis /\ cli'[d] # Off /\ cli'[d].file = e[2]
      BY <1>3, LiveRecords DEF Holders, Live, Off
    <3>2. CASE d = c
      BY <3>1, <3>2, <1>1, <1>2
    <3>3. CASE d # c
      <4>1. cli'[d] = cli[d] /\ d \in Holders(e[2])
        BY <3>1, <3>3, <1>1, LiveRecords DEF Holders, ReplInv
      <4> QED BY <4>1, <2>1
    <3> QED BY <3>2, <3>3
  <2> QED BY <2>1, <2>2
<1> QED BY <1>3, <1>5, <1>6 DEF ReplInv

LEMMA ProcessStarts ==
  ASSUME ReplInv, NEW c \in Clis, new_cli(c)
  PROVE  ReplInv'
<1>1. PICK ceiling \in Ceilings : \E mode \in {m \in CliModes : rank(m) <= rank(ceiling)} :
        saves_then(c, [at |-> "new", next |-> "prompt", mode |-> mode, runtime |-> mode,
                ceiling |-> ceiling, restore |-> "none", session |-> NewSession,
                file |-> clock], "prompt")
  BY DEF new_cli
<1>2. PICK mode \in CliModes : rank(mode) <= rank(ceiling) /\
        saves_then(c, [at |-> "new", next |-> "prompt", mode |-> mode, runtime |-> mode,
                ceiling |-> ceiling, restore |-> "none", session |-> NewSession,
                file |-> clock], "prompt")
  BY <1>1
<1> DEFINE q == [at |-> "new", next |-> "prompt", mode |-> mode, runtime |-> mode,
                 ceiling |-> ceiling, restore |-> "none", session |-> NewSession, file |-> clock]
           r == [q EXCEPT !.at = "saving", !.next = "prompt"]
<1>3. cli' = [cli EXCEPT ![c] = r]
  BY <1>2 DEF saves_then
<1>4. CliOK(r) /\ r.file = clock
  <2>1. q \in [at : {"new"}, next : {"prompt"}, mode : CliModes, runtime : CliModes, ceiling : CliModes,
               restore : {"none"}, session : ReplFileSession, file : SessionFiles]
    BY ReplAssumption DEF NewSession, ReplFileSession, Questions, ReplInv, ReplTypes
  <2>2. q.runtime = q.mode /\ q.mode = mode /\ q.ceiling = ceiling /\ q.file = clock
    OBVIOUS
  <2> HIDE DEF q
  <2> QED BY <1>2, <2>1, <2>2 DEF CliOK, LiveClis
<1>5. opened(c, clock) /\ (\A e \in saves : e[2] # clock) /\ clock \in SessionFiles
      /\ UNCHANGED <<disk, clock, count, saves>>
  BY DEF new_cli, create_managed_session_handle, ReplInv, ReplTypes
<1> HIDE DEF r
<1> QED BY <1>3, <1>4, <1>5, CliOpens

(* A save is begun of what the process has.                                *)
LEMMA SaveBegins ==
  ASSUME ReplInv, NEW c \in Clis, cli[c].at # "off", NEW r, NEW next \in {"prompt", "turn", "resumed", "off"},
         saves_then(c, r, next), CliOK(r), r.file = cli[c].file,
         next = "turn" => r.session.question = "none",
         cli[c].session.turns \subseteq r.session.turns \/ cli[c].file \in contested',
         contested \subseteq contested', contested' \subseteq SessionFiles,
         UNCHANGED <<disk, clock, saves>>, count' \in Nat
  PROVE  ReplInv'
<1> DEFINE q == [r EXCEPT !.at = "saving", !.next = next]
<1>1. cli' = [cli EXCEPT ![c] = q]
  BY DEF saves_then
<1>2. CliOK(q) /\ q.file = r.file /\ q.session = r.session
  BY DEF CliOK, LiveClis
<1>3. cli[c] # Off
  BY DEF Off
<1> HIDE DEF q
<1> QED BY <1>1, <1>2, <1>3, CliGoesOn

LEMMA SessionPersisted ==
  ASSUME ReplInv, NEW c \in Clis, persist_session(c)
  PROVE  ReplInv'
<1>1. CliOK(cli[c]) /\ cli[c] # Off /\ cli[c].at \in {"saving", "truncated"}
      /\ cli[c].file \in SessionFiles /\ cli[c].session \in ReplFileSession
  <2>1. cli[c].at \in {"saving", "truncated"}
    BY DEF persist_session
  <2>2. CliOK(cli[c]) /\ cli[c] # Off
    BY <2>1, LiveRecords DEF ReplInv, Off
  <2> QED BY <2>1, <2>2 DEF CliOK, LiveClis
<1>2. CASE cli[c].at = "saving"
  <2> DEFINE r == [cli[c] EXCEPT !.at = "truncated"]
  <2>1. /\ disk' = [disk EXCEPT ![cli[c].file] = TornFile]
        /\ cli' = [cli EXCEPT ![c] = r] /\ UNCHANGED <<clock, count, saves, contested>>
    BY <1>2 DEF persist_session
  <2>2. CliOK(r) /\ r.file = cli[c].file /\ r.session = cli[c].session
    BY <1>1, <1>2 DEF CliOK, LiveClis
  <2> HIDE DEF r
  <2>3. /\ cli'[c] = r /\ \A d \in Clis \ {c} : cli'[d] = cli[d]
        /\ DOMAIN cli' = Clis /\ cli' = [d \in Clis |-> cli'[d]]
    BY <2>1 DEF ReplInv, ReplTypes
  <2>4. ReplTypes'
    BY <2>1, <2>2, <2>3, <1>1 DEF ReplInv, ReplTypes
  <2>5. OneHolder'
    BY <2>1, <2>2, <2>3, <1>1 DEF ReplInv, OneHolder
  <2>6. \A f \in SessionFiles : disk'[f] = IF f = cli[c].file THEN TornFile ELSE disk[f]
    BY <2>1 DEF ReplInv, ReplTypes
  <2>7. \A d \in Clis : cli'[d].session = cli[d].session /\ cli'[d].file = cli[d].file
                        /\ (cli'[d] = Off <=> cli[d] = Off)
    BY <2>2, <2>3, <1>1 DEF CliOK, LiveClis, Off
  <2>8. \A f : Holders(f)' = Holders(f)
    BY <2>4, <2>7, LiveRecords DEF Holders, ReplInv, Live, Off, ReplTypes, CliOK, LiveClis
  <2>9. TurnsKept'
    <3> SUFFICES ASSUME NEW e \in saves, e[2] \notin contested
                 PROVE  /\ disk'[e[2]] = TornFile \/ (disk'[e[2]].kind = "session" /\ e[1] \in disk'[e[2]].turns)
                        /\ \A d \in Holders(e[2]) : e[1] \in cli[d].session.turns
      BY <2>1, <2>7, <2>8 DEF TurnsKept, Holders, Live
    <3>1. e[2] \in SessionFiles
      BY DEF ReplInv, ReplTypes
    <3> QED BY <3>1, <2>6 DEF ReplInv, TurnsKept
  <2> QED BY <2>4, <2>5, <2>9 DEF ReplInv
<1>3. CASE cli[c].at = "truncated"
  <2> DEFINE r == IF cli[c].next = "off" THEN Off ELSE [cli[c] EXCEPT !.at = cli[c].next]
  <2>1. /\ disk' = [disk EXCEPT ![cli[c].file] = cli[c].session]
        /\ saves' = saves \cup {<<t, cli[c].file>> : t \in cli[c].session.turns}
        /\ cli' = [cli EXCEPT ![c] = r] /\ UNCHANGED <<clock, count, contested>>
    BY <1>3 DEF persist_session
  <2>2. r = Off \/ (CliOK(r) /\ r.file = cli[c].file /\ r.session = cli[c].session)
    BY <1>1, <1>3 DEF CliOK, LiveClis
  <2> HIDE DEF r
  <2>3. /\ cli'[c] = r /\ \A d \in Clis \ {c} : cli'[d] = cli[d]
        /\ DOMAIN cli' = Clis /\ cli' = [d \in Clis |-> cli'[d]]
    BY <2>1 DEF ReplInv, ReplTypes
  <2>4. ReplTypes'
    <3>1. saves' \subseteq Nat \X SessionFiles
      BY <2>1, <1>1 DEF ReplInv, ReplTypes, ReplFileSession
    <3>2. disk' \in [SessionFiles -> {NoFile, TornFile} \cup ReplFileSession]
      BY <2>1, <1>1 DEF ReplInv, ReplTypes
    <3> QED BY <2>1, <2>2, <2>3, <3>1, <3>2 DEF ReplInv, ReplTypes
  <2>5. OneHolder'
    BY <2>1, <2>2, <2>3, <1>1 DEF ReplInv, OneHolder
  <2>6. \A f \in SessionFiles : disk'[f] = IF f = cli[c].file THEN cli[c].session ELSE disk[f]
    BY <2>1 DEF ReplInv, ReplTypes
  <2>7. ASSUME NEW f \in SessionFiles, NEW d \in Holders(f)'
        PROVE  d \in Clis /\ d \in Holders(f) /\ cli'[d].session = cli[d].session
    <3>1. d \in Clis /\ cli'[d] # Off /\ cli'[d].file = f
      BY <2>4, <2>7, LiveRecords DEF Holders, Live, Off
    <3>2. cli[d] # Off /\ cli[d].file = f /\ cli'[d].session = cli[d].session
      BY <3>1, <2>2, <2>3, <1>1
    <3> QED BY <3>1, <3>2, LiveRecords DEF Holders, ReplInv
  <2>8. c \in Holders(cli[c].file)
    BY <1>1, LiveRecords DEF Holders, ReplInv
  <2>9. TurnsKept'
    <3> SUFFICES ASSUME NEW e \in saves', e[2] \notin contested
                 PROVE  /\ disk'[e[2]] = TornFile \/ (disk'[e[2]].kind = "session" /\ e[1] \in disk'[e[2]].turns)
                        /\ \A d \in Holders(e[2])' : e[1] \in cli'[d].session.turns
      BY <2>1 DEF TurnsKept
    <3>1. e[2] \in SessionFiles
      BY <2>4 DEF ReplTypes
    <3>2. CASE e \in saves
      <4>1. /\ disk[e[2]] = TornFile \/ (disk[e[2]].kind = "session" /\ e[1] \in disk[e[2]].turns)
            /\ \A d \in Holders(e[2]) : e[1] \in cli[d].session.turns
        BY <3>2 DEF ReplInv, TurnsKept
      <4>2. e[2] = cli[c].file => disk'[e[2]].kind = "session" /\ e[1] \in disk'[e[2]].turns
        BY <4>1, <3>1, <2>6, <2>8, <1>1 DEF ReplFileSession
      <4> QED BY <4>1, <4>2, <3>1, <2>6, <2>7
    <3>3. CASE e \notin saves
      <4>1. e[2] = cli[c].file /\ e[1] \in cli[c].session.turns
        BY <2>1, <3>3
      <4>2. disk'[e[2]].kind = "session" /\ e[1] \in disk'[e[2]].turns
        BY <4>1, <3>1, <2>6, <1>1 DEF ReplFileSession
      <4>3. ASSUME NEW d \in Holders(e[2])'
            PROVE  e[1] \in cli'[d].session.turns
        <5>1. d \in Clis /\ d \in Holders(e[2]) /\ cli'[d].session = cli[d].session
          BY <3>1, <2>7
        <5>2. d = c
          BY <5>1, <4>1, <3>1, <2>8, LiveRecords DEF ReplInv, OneHolder, Holders
        <5> QED BY <5>1, <5>2, <4>1
      <4> QED BY <4>2, <4>3
    <3> QED BY <3>2, <3>3
  <2> QED BY <2>4, <2>5, <2>9 DEF ReplInv
<1> QED BY <1>1, <1>2, <1>3

LEMMA CliFields ==
  ASSUME ReplInv, NEW c \in Clis, cli[c].at # "off"
  PROVE  /\ CliOK(cli[c]) /\ cli[c] # Off /\ c \in Live
         /\ cli[c].session \in ReplFileSession /\ cli[c].session.turns \subseteq Nat
         /\ cli[c].session.question \in Questions /\ cli[c].file \in SessionFiles
         /\ cli[c].mode \in CliModes /\ cli[c].ceiling \in CliModes
         /\ contested \subseteq SessionFiles /\ count \in Nat
<1>1. CliOK(cli[c]) /\ cli[c] # Off
  BY LiveRecords DEF ReplInv, Off
<1> QED BY <1>1, LiveRecords DEF CliOK, LiveClis, ReplFileSession, ReplInv, ReplTypes

LEMMA ProcessEnds ==
  ASSUME ReplInv, NEW c \in Clis, turn_ends(c), UNCHANGED <<disk, clock, count, saves, contested>>
  PROVE  ReplInv'
<1>1. cli' = [cli EXCEPT ![c] = Off]
  BY DEF turn_ends
<1>2. contested' \subseteq SessionFiles /\ count' \in Nat
  BY DEF ReplInv, ReplTypes
<1> QED BY <1>1, <1>2, CliGoesOn

(* The session as it is, or with an answer, is saved.                      *)
LEMMA SavesAsIs ==
  ASSUME ReplInv, NEW c \in Clis, cli[c].at # "off", NEW next \in {"prompt", "resumed", "off"},
         saves_then(c, cli[c], next), UNCHANGED <<disk, clock, count, saves, contested>>
  PROVE  ReplInv'
BY CliFields, SaveBegins

LEMMA InputResolved ==
  ASSUME ReplInv, NEW c \in Clis, cli[c].at # "off", NEW then \in {"turn", "prompt"},
         cli[c].at \in {"prompt", "switched"}, resolve_pending_user_input(c, then)
  PROVE  ReplInv'
<1>1. UNCHANGED <<disk, clock, count, saves, contested>>
  BY DEF resolve_pending_user_input
<1>2. ASSUME NEW q \in Questions,
             saves_then(c, [cli[c] EXCEPT !.session.question = q], IF q = "none" THEN then ELSE "prompt")
      PROVE  ReplInv'
  <2> DEFINE held == [cli[c].session EXCEPT !.question = q]
             r == [cli[c] EXCEPT !.session = held]
             next == IF q = "none" THEN then ELSE "prompt"
  <2>1. held \in ReplFileSession /\ held.turns = cli[c].session.turns /\ held.question = q
    BY CliFields DEF ReplFileSession
  <2>2. [cli[c] EXCEPT !.session.question = q] = r
    OBVIOUS
  <2>3. CliOK(r) /\ r.file = cli[c].file /\ r.session = held
    BY <2>1, CliFields DEF CliOK, LiveClis
  <2>4. next \in {"prompt", "turn", "resumed", "off"} /\ (next = "turn" => q = "none")
    OBVIOUS
  <2>5. saves_then(c, r, next)
    BY <1>2, <2>2
  <2> HIDE DEF r, held, next
  <2> QED BY <2>1, <2>3, <2>4, <2>5, <1>1, CliFields, SaveBegins
<1>3. CASE saves_then(c, cli[c], "prompt") \/ saves_then(c, cli[c], "off")
  BY <1>1, <1>3, SavesAsIs
<1> QED BY <1>2, <1>3 DEF resolve_pending_user_input

LEMMA TurnRuns ==
  ASSUME ReplInv, NEW c \in Clis, run_turn(c)
  PROVE  ReplInv'
<1>1. CASE cli[c].at = "prompt" /\ resolve_pending_user_input(c, "turn")
  BY <1>1, InputResolved
<1>2. CASE /\ cli[c].at \in {"turn", "prompt"} /\ count' = count + 1
           /\ \E q \in Questions, next \in {"prompt", "off"} :
               /\ next = "off" => q = "none"
               /\ saves_then(c, [cli[c] EXCEPT !.session.turns = @ \cup {count'}, !.session.question = q], next)
           /\ UNCHANGED <<disk, clock, saves, contested>>
  <2>1. PICK q \in Questions, next \in {"prompt", "off"} :
          saves_then(c, [cli[c] EXCEPT !.session.turns = @ \cup {count'}, !.session.question = q], next)
    BY <1>2
  <2> DEFINE held == [cli[c].session EXCEPT !.turns = @ \cup {count'}, !.question = q]
             r == [cli[c] EXCEPT !.session = held]
  <2>2. cli[c].at # "off" /\ count' \in Nat
    BY <1>2 DEF ReplInv, ReplTypes
  <2>3. held \in ReplFileSession /\ cli[c].session.turns \subseteq held.turns
    BY <2>2, CliFields DEF ReplFileSession
  <2>4. [cli[c] EXCEPT !.session.turns = @ \cup {count'}, !.session.question = q] = r
    BY <2>2, CliFields DEF CliOK, LiveClis, ReplFileSession
  <2>5. cli[c].at = "turn" => cli[c].session.question = "none"
    BY <2>2, CliFields DEF CliOK
  <2>6. saves_then(c, r, next)
    BY <2>1, <2>4
  <2> DEFINE asis == [r EXCEPT !.at = "prompt"]
  <2>7. CliOK(asis) /\ asis.file = cli[c].file /\ asis.session = held
    BY <2>2, <2>3, CliFields DEF CliOK, LiveClis
  <2>8. saves_then(c, asis, next)
    <3>1. [r EXCEPT !.at = "saving", !.next = next] = [asis EXCEPT !.at = "saving", !.next = next]
      BY <2>2, CliFields DEF CliOK, LiveClis
    <3> HIDE DEF r, asis
    <3> QED BY <3>1, <2>6 DEF saves_then
  <2> HIDE DEF r, held, asis
  <2> QED BY <1>2, <2>2, <2>3, <2>7, <2>8, CliFields, SaveBegins
<1> QED BY <1>1, <1>2 DEF run_turn

(* Every command that rebuilds the runtime gives it the mode that is shown.*)
LEMMA Rebuilt ==
  ASSUME ReplInv, NEW c \in Clis, cli[c].at = "prompt", NEW mode \in CliModes,
         NEW restore \in CliModes \cup {"none"}, rank(mode) <= rank(cli[c].ceiling),
         restore # "none" => mode = "read-only" /\ rank(restore) <= rank(cli[c].ceiling),
         NEW r, r = [cli[c] EXCEPT !.mode = mode, !.runtime = mode, !.restore = restore],
         saves_then(c, r, "prompt"), UNCHANGED <<disk, clock, count, saves, contested>>
  PROVE  ReplInv'
<1>1. CliOK(r) /\ r.file = cli[c].file /\ r.session = cli[c].session
  BY CliFields DEF CliOK, LiveClis
<1> QED BY <1>1, CliFields, SaveBegins

LEMMA Ranks ==
  rank("read-only") = 0 /\ \A m : rank(m) \in 0..2
BY DEF rank

LEMMA PermissionsSet ==
  ASSUME ReplInv, NEW c \in Clis, NEW mode \in CliModes, set_permissions(c, mode)
  PROVE  ReplInv'
<1> DEFINE r == rebuild_runtime_for_permission_mode(cli[c], mode)
<1>1. /\ cli[c].at = "prompt" /\ cli[c].restore = "none" /\ rank(mode) <= rank(cli[c].ceiling)
      /\ saves_then(c, r, "prompt") /\ UNCHANGED <<disk, clock, count, saves, contested>>
  BY DEF set_permissions
<1>2. r = [cli[c] EXCEPT !.mode = mode, !.runtime = mode, !.restore = "none"]
  BY <1>1, CliFields DEF rebuild_runtime_for_permission_mode, CliOK, LiveClis
<1> HIDE DEF r
<1> QED BY <1>1, <1>2, Rebuilt

LEMMA PlanModeEntered ==
  ASSUME ReplInv, NEW c \in Clis, enter_plan_mode(c)
  PROVE  ReplInv'
<1> DEFINE r == [rebuild_runtime_for_permission_mode(cli[c], "read-only") EXCEPT !.restore = cli[c].mode]
<1>1. /\ cli[c].at = "prompt" /\ saves_then(c, r, "prompt")
      /\ UNCHANGED <<disk, clock, count, saves, contested>>
  BY DEF enter_plan_mode
<1>2. r = [cli[c] EXCEPT !.mode = "read-only", !.runtime = "read-only", !.restore = cli[c].mode]
  BY <1>1, CliFields DEF rebuild_runtime_for_permission_mode, CliOK, LiveClis
<1>3. /\ cli[c].mode \in CliModes /\ rank(cli[c].mode) <= rank(cli[c].ceiling)
      /\ rank("read-only") <= rank(cli[c].ceiling) /\ "read-only" \in CliModes
  BY <1>1, CliFields, Ranks DEF CliOK, CliModes
<1> HIDE DEF r
<1> QED BY <1>1, <1>2, <1>3, Rebuilt

LEMMA PlanModeLeft ==
  ASSUME ReplInv, NEW c \in Clis, exit_plan_mode(c)
  PROVE  ReplInv'
<1> DEFINE r == [rebuild_runtime_for_permission_mode(cli[c], cli[c].restore) EXCEPT !.restore = "none"]
<1>1. /\ cli[c].at = "prompt" /\ cli[c].restore # "none" /\ saves_then(c, r, "prompt")
      /\ UNCHANGED <<disk, clock, count, saves, contested>>
  BY DEF exit_plan_mode
<1>2. r = [cli[c] EXCEPT !.mode = cli[c].restore, !.runtime = cli[c].restore, !.restore = "none"]
  BY <1>1, CliFields DEF rebuild_runtime_for_permission_mode, CliOK, LiveClis
<1>3. cli[c].restore \in CliModes /\ rank(cli[c].restore) <= rank(cli[c].ceiling)
  BY <1>1, CliFields DEF CliOK, LiveClis
<1> HIDE DEF r
<1> QED BY <1>1, <1>2, <1>3, Rebuilt

LEMMA ModelSet ==
  ASSUME ReplInv, NEW c \in Clis, set_model(c)
  PROVE  ReplInv'
<1> DEFINE r == [cli[c] EXCEPT !.runtime = cli[c].mode]
<1>1. /\ cli[c].at = "prompt" /\ saves_then(c, r, "prompt")
      /\ UNCHANGED <<disk, clock, count, saves, contested>>
  BY DEF set_model
<1>2. CliOK(r) /\ r.file = cli[c].file /\ r.session = cli[c].session
  BY <1>1, CliFields DEF CliOK, LiveClis
<1> HIDE DEF r
<1> QED BY <1>1, <1>2, CliFields, SaveBegins

LEMMA SessionCleared ==
  ASSUME ReplInv, NEW c \in Clis, clear_session(c)
  PROVE  ReplInv'
<1> DEFINE r == [cli[c] EXCEPT !.session = NewSession, !.file = clock, !.runtime = cli[c].mode]
           q == [r EXCEPT !.at = "saving", !.next = "prompt"]
<1>1. /\ cli[c].at = "prompt" /\ saves_then(c, r, "prompt") /\ clock \in SessionFiles
      /\ opened(c, clock) /\ (\A e \in saves : e[2] # clock) /\ UNCHANGED <<disk, clock, count, saves>>
  BY DEF clear_session, create_managed_session_handle, ReplInv, ReplTypes
<1>2. cli' = [cli EXCEPT ![c] = q]
  BY <1>1 DEF saves_then
<1>3. NewSession \in ReplFileSession
  BY DEF NewSession, ReplFileSession, Questions
<1>4. CliOK(q) /\ q.file = clock
  BY <1>1, <1>3, CliFields DEF CliOK, LiveClis
<1> HIDE DEF r, q
<1> QED BY <1>1, <1>2, <1>4, CliOpens

(* What another file holds of a session that nobody else has open.         *)
LEMMA FileHasSaved ==
  ASSUME ReplInv, NEW f \in SessionFiles, disk[f].kind = "session"
  PROVE  /\ disk[f] \in ReplFileSession
         /\ \A e \in saves : e[2] = f /\ f \notin contested => e[1] \in disk[f].turns
BY SessionKinds DEF ReplInv, TurnsKept

LEMMA SessionSwitched ==
  ASSUME ReplInv, NEW c \in Clis, NEW f \in SessionFiles, switch_session(c, f)
  PROVE  ReplInv'
<1>1. cli[c].at = "prompt" /\ UNCHANGED <<disk, clock, count, saves>>
  BY DEF switch_session
<1>2. CASE turn_ends(c) /\ UNCHANGED contested
  BY <1>1, <1>2, ProcessEnds
<1>3. CASE ~(turn_ends(c) /\ UNCHANGED contested)
  <2> DEFINE r == [cli[c] EXCEPT !.session = disk[f], !.file = f, !.at = "switched", !.runtime = cli[c].mode]
  <2>1. disk[f].kind = "session" /\ opened(c, f) /\ cli' = [cli EXCEPT ![c] = r]
    BY <1>3 DEF switch_session
  <2>2. /\ disk[f] \in ReplFileSession
        /\ \A e \in saves : e[2] = f /\ f \notin contested => e[1] \in disk[f].turns
    BY <2>1, FileHasSaved
  <2>3. CliOK(r) /\ r.file = f /\ r.session = disk[f]
    BY <1>1, <2>2, CliFields DEF CliOK, LiveClis
  <2> HIDE DEF r
  <2> QED BY <1>1, <2>1, <2>2, <2>3, CliOpens
<1> QED BY <1>2, <1>3

LEMMA SwitchSettled ==
  ASSUME ReplInv, NEW c \in Clis, after_switch(c)
  PROVE  ReplInv'
BY InputResolved, SavesAsIs DEF after_switch

LEMMA SessionResumed ==
  ASSUME ReplInv, NEW c \in Clis, NEW f \in SessionFiles, resume_session(c, f)
  PROVE  ReplInv'
<1> DEFINE r == [at |-> "resumed", next |-> "off", mode |-> "read-only", runtime |-> "read-only",
                 ceiling |-> "read-only", restore |-> "none", session |-> disk[f], file |-> f]
<1>1. /\ disk[f].kind = "session" /\ opened(c, f) /\ cli' = [cli EXCEPT ![c] = r]
      /\ UNCHANGED <<disk, clock, count, saves>>
  BY DEF resume_session
<1>2. /\ disk[f] \in ReplFileSession
      /\ \A e \in saves : e[2] = f /\ f \notin contested => e[1] \in disk[f].turns
  BY <1>1, FileHasSaved
<1>3. CliOK(r) /\ r.file = f /\ r.session = disk[f]
  BY <1>2, Ranks DEF CliOK, LiveClis, CliModes
<1> HIDE DEF r
<1> QED BY <1>1, <1>2, <1>3, CliOpens

LEMMA ResumeCommandRuns ==
  ASSUME ReplInv, NEW c \in Clis, run_resume_command(c)
  PROVE  ReplInv'
<1>1. cli[c].at = "resumed" /\ UNCHANGED <<disk, clock, count, saves>>
  BY DEF run_resume_command
<1>2. CASE saves_then(c, cli[c], "resumed") /\ UNCHANGED contested
  BY <1>1, <1>2, SavesAsIs
<1>3. CASE turn_ends(c) /\ UNCHANGED contested
  BY <1>1, <1>3, ProcessEnds
<1>4. CASE /\ saves_then(c, [cli[c] EXCEPT !.session = NewSession], "resumed")
           /\ contested' = contested \cup {cli[c].file}
  <2> DEFINE r == [cli[c] EXCEPT !.session = NewSession]
  <2>1. NewSession \in ReplFileSession
    BY DEF NewSession, ReplFileSession, Questions
  <2>2. CliOK(r) /\ r.file = cli[c].file
    BY <1>1, <2>1, CliFields DEF CliOK, LiveClis
  <2>3. contested \subseteq contested' /\ contested' \subseteq SessionFiles /\ cli[c].file \in contested'
    BY <1>1, <1>4, CliFields
  <2>4. saves_then(c, r, "resumed")
    BY <1>4
  <2> HIDE DEF r
  <2> QED BY <1>1, <2>2, <2>3, <2>4, CliFields, SaveBegins
<1> QED BY <1>2, <1>3, <1>4 DEF run_resume_command

LEMMA ClockTicks == ReplInv /\ tick => ReplInv'
<1> SUFFICES ASSUME ReplInv, tick PROVE ReplInv'
  OBVIOUS
<1>1. clock' \in SessionFiles /\ UNCHANGED <<cli, disk, count, saves, contested>>
  BY ReplAssumption DEF tick, ReplInv, ReplTypes, SessionFiles
<1> QED BY <1>1 DEF ReplInv, ReplTypes, OneHolder, TurnsKept, Holders, Live

LEMMA ReplStart == ReplInit => ReplInv
<1> SUFFICES ASSUME ReplInit PROVE ReplInv
  OBVIOUS
<1>1. ReplTypes
  BY ReplAssumption DEF ReplInit, ReplTypes, SessionFiles
<1>2. OneHolder /\ TurnsKept
  BY DEF ReplInit, OneHolder, TurnsKept
<1> QED BY <1>1, <1>2 DEF ReplInv

LEMMA ReplMoves == ReplInv /\ ReplNext => ReplInv'
<1> SUFFICES ASSUME ReplInv, ReplNext PROVE ReplInv'
  OBVIOUS
<1>1. CASE tick
  BY <1>1, ClockTicks
<1>2. ASSUME NEW c \in Clis, build_runtime_fails(c) \/ leave_repl(c) \/ crash(c)
      PROVE  ReplInv'
  BY <1>2, ProcessEnds, SavesAsIs DEF build_runtime_fails, leave_repl, crash
<1>3. ASSUME NEW c \in Clis,
             \/ new_cli(c) \/ persist_session(c) \/ run_turn(c) \/ enter_plan_mode(c)
             \/ exit_plan_mode(c) \/ set_model(c) \/ clear_session(c) \/ after_switch(c)
             \/ run_resume_command(c) \/ \E mode \in CliModes : set_permissions(c, mode)
             \/ \E f \in SessionFiles : switch_session(c, f) \/ resume_session(c, f)
      PROVE  ReplInv'
  BY <1>3, ProcessStarts, SessionPersisted, TurnRuns, PlanModeEntered, PlanModeLeft, ModelSet,
     SessionCleared, SwitchSettled, ResumeCommandRuns, PermissionsSet, SessionSwitched, SessionResumed
<1> QED BY <1>1, <1>2, <1>3 DEF ReplNext

LEMMA ReplRests == ReplInv /\ UNCHANGED replVars => ReplInv'
BY DEF replVars, ReplInv, ReplTypes, OneHolder, TurnsKept, Holders, Live

LEMMA ReplHolds == ReplInv => ModeInForce /\ TurnsKept /\ NoTurnOverQuestion
<1> SUFFICES ASSUME ReplInv, NEW c \in Live PROVE CliOK(cli[c])
  BY DEF ModeInForce, NoTurnOverQuestion, CliOK, ReplInv
<1> QED BY LiveRecords DEF Live, ReplInv

(* What the REPL promises (Extensions.ReplSound), for any number of        *)
(* processes on the same files: the mode shown is the mode in force, a     *)
(* completed turn is in the file that it was saved to unless two processes *)
(* wrote that file or a kill tore it, and no turn starts over an open      *)
(* question.                                                               *)
THEOREM ReplSafe == PartsSpec => []ReplSound
<1>1. PartsInit => (part = "repl" => ReplInv)
  BY ReplStart DEF PartsInit
<1>2. (part = "repl" => ReplInv) /\ [PartsNext]_partsVars => (part = "repl" => ReplInv)'
  BY ReplMoves, ReplRests DEF PartsNext, partsVars
<1>3. (part = "repl" => ReplInv) => ReplSound
  BY ReplHolds DEF ReplSound
<1> QED
  BY <1>1, <1>2, <1>3, PTL DEF PartsSpec
-----------------------------------------------------------------------------
(***************************************************************************)
(* The git commands: the branch that a command under way is on, and what   *)
(* its message describes.                                                  *)
(***************************************************************************)

GitRunning ==
  [cmd : {"commit", "publish", "pr"},
   step : {"generate", "status", "refuse", "branch", "add", "reset", "commit", "diff", "push", "create"},
   described : SUBSET FileKinds, late : SUBSET (FileKinds \cup {"unnamed"}),
   branch : Branches, created : BOOLEAN, changed : BOOLEAN]
GitCommitted ==
  [cmd : {"committed"}, of : SUBSET FileKinds, described : SUBSET FileKinds,
   late : SUBSET (FileKinds \cup {"unnamed"})]
GitEnded == [cmd : {"ended", "publish done", "pr done"}, branch : Branches,
             result : {"error", "skipped", "created", "existing"}]

Runs == flow.cmd \in {"commit", "publish", "pr"}

GitTypes ==
  /\ head \in Branches /\ dirty \subseteq FileKinds /\ index \subseteq FileKinds
  /\ commits \in [Branches -> SUBSET (FileKinds \cup Gone)]
  /\ remote \in [Branches -> SUBSET (FileKinds \cup Gone)]
  /\ pulls \in [Branches -> {"none", "open", "closed"}]
  /\ trees \in [Trees -> Branches \cup {"none"}]
  /\ flow \in {NoFlow} \cup GitRunning \cup GitCommitted \cup GitEnded

(* The branch checked out exists, as the default one does, and a command   *)
(* that runs stays on the branch it is about.                              *)
OnBranch ==
  /\ Exists(Default) /\ commits[head] \subseteq FileKinds
  /\ \A b \in Branches : Exists(b) => commits[b] \subseteq FileKinds
  /\ Runs => flow.branch = head

(* Whatever is changed was described, was edited since, or is of a kind    *)
(* that the description leaves out; and where a commit is next, the local  *)
(* files are out of the index.                                             *)
AllDescribed ==
  /\ flow.cmd \in {"commit", "publish"} =>
       dirty \cup index \subseteq flow.described \cup flow.late \cup {"omx", "local"}
  /\ Runs /\ flow.step = "commit" => "local" \notin index

(* /commit-push-pr is off the default branch from its second step on, and  *)
(* what it is about to report was pushed.                                  *)
OffDefault ==
  flow.cmd = "publish" =>
    /\ flow.step \notin {"generate", "branch"} => head # Default
    /\ flow.step = "create" => remote[head] = commits[head]

GitInv ==
  /\ GitTypes /\ OnBranch /\ AllDescribed /\ OffDefault
  /\ LocalFilesStayLocal /\ CommittedWasDescribed /\ PublishedTruthfully

LEMMA FlowKinds ==
  ASSUME GitTypes
  PROVE  /\ Runs => flow \in GitRunning
         /\ flow.cmd = "committed" => flow \in GitCommitted
         /\ flow.cmd \in {"ended", "publish done", "pr done"} => flow \in GitEnded
<1>1. CASE flow = NoFlow
  BY <1>1 DEF Runs, NoFlow
<1>2. CASE flow \in GitRunning
  <2>1. Runs
    BY <1>2 DEF GitRunning, Runs
  <2> QED BY <1>2, <2>1 DEF Runs
<1>3. CASE flow \in GitCommitted
  <2>1. flow.cmd = "committed"
    BY <1>3 DEF GitCommitted
  <2> QED BY <1>3, <2>1 DEF Runs
<1>4. CASE flow \in GitEnded
  <2>1. flow.cmd \in {"ended", "publish done", "pr done"}
    BY <1>4 DEF GitEnded
  <2> QED BY <1>4, <2>1 DEF Runs
<1> QED BY <1>1, <1>2, <1>3, <1>4 DEF GitTypes

(* A command that gives up, skips or is refused.                           *)
LEMMA FlowEnds ==
  ASSUME GitInv, NEW result \in {"error", "skipped", "created", "existing"}, flow' = Ended(result),
         UNCHANGED repository
  PROVE  GitInv'
<1>1. flow' \in GitEnded /\ flow'.cmd = "ended"
  BY DEF Ended, GitEnded, GitInv, GitTypes
<1>2. UNCHANGED <<head, commits, dirty, index, remote, pulls, trees>>
  BY DEF repository
<1>3. GitTypes'
  BY <1>1, <1>2 DEF GitInv, GitTypes
<1>4. OnBranch' /\ AllDescribed' /\ OffDefault'
  BY <1>1, <1>2 DEF GitInv, OnBranch, AllDescribed, OffDefault, Runs, Exists
<1>5. LocalFilesStayLocal' /\ CommittedWasDescribed' /\ PublishedTruthfully'
  BY <1>1, <1>2 DEF GitInv, LocalFilesStayLocal, CommittedWasDescribed, PublishedTruthfully
<1> QED BY <1>3, <1>4, <1>5 DEF GitInv

LEMMA FlowGivesUp ==
  ASSUME GitInv, gives_up \/ skips, UNCHANGED repository
  PROVE  GitInv'
BY FlowEnds DEF gives_up, skips

LEMMA FlowStarts ==
  ASSUME GitInv, flow = NoFlow, UNCHANGED repository, NEW command \in {"commit", "publish", "pr"},
         NEW described \in {{}, git_output_filtered}, start_flow(command, described),
         command # "pr" => described = git_output_filtered
  PROVE  GitInv'
<1>1. UNCHANGED <<head, commits, dirty, index, remote, pulls, trees>>
  BY DEF repository
<1>2. GitTypes
  BY DEF GitInv
<1>3. described \subseteq FileKinds
  BY <1>2 DEF GitTypes, git_output_filtered
<1>4. /\ flow' \in GitRunning /\ flow'.cmd = command /\ flow'.step = "generate" /\ flow'.branch = head
      /\ flow'.described = described /\ flow'.late = {}
  BY <1>2, <1>3 DEF start_flow, GitRunning, GitTypes
<1>5. GitTypes'
  BY <1>1, <1>2, <1>4 DEF GitTypes
<1>6. OnBranch' /\ OffDefault'
  BY <1>1, <1>4 DEF GitInv, OnBranch, OffDefault, Exists
<1>7. AllDescribed'
  BY <1>1, <1>2, <1>4 DEF AllDescribed, git_output_filtered, GitTypes
<1>8. LocalFilesStayLocal' /\ CommittedWasDescribed' /\ PublishedTruthfully'
  BY <1>1, <1>4 DEF GitInv, LocalFilesStayLocal, CommittedWasDescribed, PublishedTruthfully
<1> QED BY <1>5, <1>6, <1>7, <1>8 DEF GitInv

LEMMA CommandsStart ==
  ASSUME GitInv, run_commit \/ run_commit_push_pr \/ run_pr
  PROVE  GitInv'
<1>1. flow = NoFlow /\ UNCHANGED repository
  BY DEF run_commit, run_commit_push_pr, run_pr
<1>2. CASE gives_up \/ skips
  BY <1>1, <1>2, FlowGivesUp
<1>3. CASE \/ start_flow("commit", git_output_filtered) \/ start_flow("publish", git_output_filtered)
           \/ start_flow("pr", {})
  BY <1>1, <1>3, FlowStarts
<1> QED BY <1>2, <1>3 DEF run_commit, run_commit_push_pr, run_pr, ensure_github_cli_ready

(* From one step to the next, where nothing else changes.                  *)
LEMMA FlowGoes ==
  ASSUME GitInv, Runs, UNCHANGED repository, NEW step,
         flow' \in GitRunning, flow'.cmd = flow.cmd, flow'.step = step, flow'.branch = flow.branch,
         flow'.described = flow.described, flow.late \subseteq flow'.late,
         step = "commit" => "local" \notin index,
         flow.cmd = "publish" /\ step \notin {"generate", "branch"} => head # Default,
         flow.cmd = "publish" /\ step = "create" => remote[head] = commits[head]
  PROVE  GitInv'
<1>1. UNCHANGED <<head, commits, dirty, index, remote, pulls, trees>>
  BY DEF repository
<1>2. GitTypes' /\ Runs'
  BY <1>1 DEF GitInv, GitTypes, Runs
<1>3. OnBranch'
  BY <1>1 DEF GitInv, OnBranch, Exists
<1>4. AllDescribed'
  BY <1>1 DEF GitInv, AllDescribed
<1>5. OffDefault'
  BY <1>1 DEF OffDefault
<1>6. LocalFilesStayLocal' /\ CommittedWasDescribed' /\ PublishedTruthfully'
  BY <1>1 DEF GitInv, LocalFilesStayLocal, CommittedWasDescribed, PublishedTruthfully, Runs
<1> QED BY <1>2, <1>3, <1>4, <1>5, <1>6 DEF GitInv

LEMMA Generated ==
  ASSUME GitInv, generated
  PROVE  GitInv'
<1>1. Runs /\ flow.step = "generate" /\ UNCHANGED repository /\ flow \in GitRunning
  BY FlowKinds DEF generated, Runs, GitInv
<1>2. CASE gives_up \/ skips
  BY <1>1, <1>2, FlowGivesUp
<1>3. CASE flow.cmd = "commit" /\ flow_goes("status")
  BY <1>1, <1>3, FlowGoes DEF flow_goes, GitRunning
<1>4. CASE flow.cmd = "pr" /\ flow_goes("create")
  BY <1>1, <1>4, FlowGoes DEF flow_goes, GitRunning
<1>5. ASSUME flow.cmd = "publish", NEW message \in BOOLEAN,
             flow' = [flow EXCEPT !.step = "branch", !.changed = git_stdout_filtered # {},
                                  !.late = IF message THEN @ ELSE @ \cup {"unnamed"}]
      PROVE  GitInv'
  BY <1>1, <1>5, FlowGoes DEF GitRunning
<1> QED BY <1>2, <1>3, <1>4, <1>5 DEF generated

(* The new branch is off the default one because that exists.              *)
LEMMA BranchEnsured ==
  ASSUME GitInv, ensure_commit_push_pr_branch
  PROVE  GitInv'
<1> DEFINE next == IF ~ flow.changed THEN "diff"
                   ELSE IF "unnamed" \in flow.late THEN "refuse" ELSE "status"
<1>1. Runs /\ flow.cmd = "publish" /\ flow.step = "branch" /\ flow \in GitRunning /\ flow.branch = head
  BY FlowKinds DEF ensure_commit_push_pr_branch, Runs, GitInv, OnBranch
<1>2. next \in {"diff", "refuse", "status"}
  OBVIOUS
<1>3. CASE head # Default /\ flow' = [flow EXCEPT !.step = next, !.branch = head] /\ UNCHANGED repository
  <2>1. /\ flow' \in GitRunning /\ flow'.cmd = flow.cmd /\ flow'.step = next /\ flow'.branch = flow.branch
        /\ flow'.described = flow.described /\ flow'.late = flow.late
    BY <1>1, <1>2, <1>3 DEF GitRunning
  <2> QED BY <2>1, <1>1, <1>2, <1>3, FlowGoes
<1>4. CASE /\ head = Default /\ ~ Exists(NewBranch)
           /\ commits' = [commits EXCEPT ![NewBranch] = commits[head]]
           /\ head' = NewBranch
           /\ flow' = [flow EXCEPT !.step = next, !.branch = NewBranch, !.created = TRUE]
           /\ UNCHANGED <<dirty, index, remote, pulls, trees>>
  <2>1. NewBranch # Default /\ NewBranch \in Branches /\ Default \in Branches
    BY <1>4, GitAssumption DEF GitInv, OnBranch
  <2>2. /\ flow' \in GitRunning /\ flow'.cmd = "publish" /\ flow'.step = next /\ flow'.branch = NewBranch
        /\ flow'.described = flow.described /\ flow'.late = flow.late
    BY <1>1, <1>2, <1>4, <2>1 DEF GitRunning
  <2>3. commits'[NewBranch] = commits[head] /\ \A b \in Branches \ {NewBranch} : commits'[b] = commits[b]
    BY <1>4, <2>1 DEF GitInv, GitTypes
  <2>4. GitTypes'
    BY <1>4, <2>1, <2>2 DEF GitInv, GitTypes
  <2>5. OnBranch'
    <3>1. Exists(Default)' /\ commits'[head'] \subseteq FileKinds
      BY <1>4, <2>1, <2>3 DEF GitInv, OnBranch, Exists
    <3>2. \A b \in Branches : Exists(b)' => commits'[b] \subseteq FileKinds
      BY <2>3, <1>4, <2>1 DEF GitInv, OnBranch, Exists
    <3> QED BY <3>1, <3>2, <2>2, <1>4 DEF OnBranch
  <2>6. AllDescribed'
    BY <1>1, <1>2, <1>4, <2>2 DEF GitInv, AllDescribed
  <2>7. OffDefault'
    BY <1>2, <1>4, <2>1, <2>2 DEF OffDefault
  <2>8. LocalFilesStayLocal'
    BY <2>1, <2>3 DEF GitInv, GitTypes, LocalFilesStayLocal
  <2>9. CommittedWasDescribed' /\ PublishedTruthfully'
    BY <1>2, <1>4, <2>2 DEF GitInv, CommittedWasDescribed, PublishedTruthfully
  <2> QED BY <2>4, <2>5, <2>6, <2>7, <2>8, <2>9 DEF GitInv
<1>5. CASE head = Default /\ gives_up /\ UNCHANGED repository
  BY <1>5, FlowGivesUp
<1> QED BY <1>3, <1>4, <1>5 DEF ensure_commit_push_pr_branch

LEMMA CommitHandled ==
  ASSUME GitInv, handle_commit_slash_command
  PROVE  GitInv'
<1>1. /\ Runs /\ flow.cmd \in {"commit", "publish"} /\ flow.step \in {"status", "refuse"}
      /\ UNCHANGED repository /\ flow \in GitRunning
  BY FlowKinds DEF handle_commit_slash_command, Runs, GitInv
<1>2. flow.cmd = "publish" => head # Default
  BY <1>1 DEF GitInv, OffDefault
<1>3. CASE gives_up \/ skips
  BY <1>1, <1>3, FlowGivesUp
<1>4. ASSUME NEW step \in {"diff", "add"}, flow_goes(step)
      PROVE  GitInv'
  <2>1. /\ flow' \in GitRunning /\ flow'.cmd = flow.cmd /\ flow'.step = step /\ flow'.branch = flow.branch
        /\ flow'.described = flow.described /\ flow'.late = flow.late
    BY <1>1, <1>4 DEF flow_goes, GitRunning
  <2> QED BY <2>1, <1>1, <1>2, FlowGoes
<1> QED BY <1>3, <1>4 DEF handle_commit_slash_command

LEMMA ChangesStaged ==
  ASSUME GitInv, git_stage_workspace_changes
  PROVE  GitInv'
<1>1. Runs /\ flow.cmd \in {"commit", "publish"} /\ flow.step \in {"add", "reset"} /\ flow \in GitRunning
  BY FlowKinds DEF git_stage_workspace_changes, Runs, GitInv
<1>2. CASE gives_up /\ UNCHANGED repository
  BY <1>2, FlowGivesUp
<1>3. ASSUME NEW step \in {"reset", "commit"}, flow_goes(step), dirty' \cup index' = dirty \cup index,
             step = "commit" => "local" \notin index', UNCHANGED <<head, commits, remote, pulls, trees>>
      PROVE  GitInv'
  <2>1. /\ flow' \in GitRunning /\ flow'.cmd = flow.cmd /\ flow'.step = step /\ flow'.branch = flow.branch
        /\ flow'.described = flow.described /\ flow'.late = flow.late
    BY <1>1, <1>3 DEF flow_goes, GitRunning
  <2>2. GitTypes'
    BY <1>3, <2>1 DEF GitInv, GitTypes
  <2>3. OnBranch' /\ OffDefault'
    BY <1>1, <1>3, <2>1 DEF GitInv, OnBranch, OffDefault, Exists, Runs
  <2>4. AllDescribed'
    BY <1>1, <1>3, <2>1 DEF GitInv, AllDescribed
  <2>5. LocalFilesStayLocal' /\ CommittedWasDescribed'
    BY <1>1, <1>3, <2>1 DEF GitInv, LocalFilesStayLocal, CommittedWasDescribed
  <2>6. PublishedTruthfully'
    BY <1>1, <1>3, <2>1 DEF GitInv, OffDefault, PublishedTruthfully
  <2> QED BY <2>2, <2>3, <2>4, <2>5, <2>6 DEF GitInv
<1>4. CASE index' = index \cup dirty /\ dirty' = {} /\ flow_goes("reset")
           /\ UNCHANGED <<head, commits, remote, pulls, trees>>
  BY <1>3, <1>4
<1>5. CASE index' = index \ {"local"} /\ dirty' = dirty \cup (index \cap {"local"}) /\ flow_goes("commit")
           /\ UNCHANGED <<head, commits, remote, pulls, trees>>
  BY <1>3, <1>5
<1> QED BY <1>2, <1>4, <1>5 DEF git_stage_workspace_changes

LEMMA Committed ==
  ASSUME GitInv, git_commit
  PROVE  GitInv'
<1>1. Runs /\ flow.cmd \in {"commit", "publish"} /\ flow.step = "commit" /\ flow \in GitRunning
  BY FlowKinds DEF git_commit, Runs, GitInv
<1>2. CASE gives_up /\ UNCHANGED repository
  BY <1>2, FlowGivesUp
<1>3. CASE ~(gives_up /\ UNCHANGED repository)
  <2>1. /\ commits' = [commits EXCEPT ![head] = @ \cup index] /\ index' = {}
        /\ flow' = IF flow.cmd = "commit"
                   THEN [cmd |-> "committed", of |-> index, described |-> flow.described, late |-> flow.late]
                   ELSE [flow EXCEPT !.step = "diff"]
        /\ UNCHANGED <<head, dirty, remote, pulls, trees>>
    BY <1>3 DEF git_commit
  <2>2. /\ GitTypes /\ "local" \notin index /\ index \subseteq flow.described \cup flow.late \cup {"omx"}
        /\ dirty \cup index \subseteq flow.described \cup flow.late \cup {"omx", "local"}
    BY <1>1 DEF GitInv, AllDescribed
  <2>3. /\ commits'[head] = commits[head] \cup index
        /\ \A b \in Branches \ {head} : commits'[b] = commits[b]
        /\ index \subseteq FileKinds /\ commits[head] \subseteq FileKinds /\ head \in Branches
    BY <2>1, <2>2 DEF GitInv, OnBranch, GitTypes
  <2>4. /\ flow' \in GitRunning \cup GitCommitted
        /\ flow.cmd = "commit" => /\ flow'.cmd = "committed" /\ flow'.of = index
                                  /\ flow'.described = flow.described /\ flow'.late = flow.late
        /\ flow.cmd = "publish" => /\ flow' \in GitRunning /\ flow'.cmd = "publish" /\ flow'.step = "diff"
                                   /\ flow'.branch = flow.branch
                                   /\ flow'.described = flow.described /\ flow'.late = flow.late
    BY <1>1, <2>1, <2>3 DEF GitRunning, GitCommitted
  <2>5. GitTypes'
    BY <2>1, <2>2, <2>3, <2>4 DEF GitTypes
  <2>6. OnBranch'
    <3>1. Exists(Default)'
      <4>1. CASE Default = head
        BY <4>1, <2>3 DEF Exists, Gone, FileKinds
      <4>2. CASE Default # head
        BY <4>2, <2>3, GitAssumption DEF Exists, GitInv, OnBranch
      <4> QED BY <4>1, <4>2
    <3>2. \A b \in Branches : Exists(b)' => commits'[b] \subseteq FileKinds
      BY <2>3 DEF GitInv, OnBranch, Exists
    <3>3. commits'[head'] \subseteq FileKinds
      BY <2>1, <2>3
    <3>4. Runs' => flow'.branch = head'
      BY <1>1, <2>1, <2>4 DEF GitInv, OnBranch, Runs
    <3> QED BY <3>1, <3>2, <3>3, <3>4 DEF OnBranch
  <2>7. AllDescribed' /\ CommittedWasDescribed'
    BY <1>1, <2>1, <2>2, <2>4 DEF AllDescribed, CommittedWasDescribed, Runs
  <2>8. OffDefault' /\ PublishedTruthfully'
    BY <1>1, <2>1, <2>4 DEF GitInv, OffDefault, PublishedTruthfully
  <2>9. LocalFilesStayLocal'
    BY <2>2, <2>3 DEF GitInv, LocalFilesStayLocal
  <2> QED BY <2>5, <2>6, <2>7, <2>8, <2>9 DEF GitInv
<1> QED BY <1>2, <1>3

LEMMA Diffed ==
  ASSUME GitInv, git_diff
  PROVE  GitInv'
<1>1. Runs /\ flow.cmd = "publish" /\ flow.step = "diff" /\ UNCHANGED repository /\ flow \in GitRunning
  BY FlowKinds DEF git_diff, Runs, GitInv
<1>2. head # Default
  BY <1>1 DEF GitInv, OffDefault
<1>3. CASE skips
  BY <1>1, <1>3, FlowGivesUp
<1>4. CASE flow_goes("push")
  <2>1. /\ flow' \in GitRunning /\ flow'.cmd = flow.cmd /\ flow'.step = "push" /\ flow'.branch = flow.branch
        /\ flow'.described = flow.described /\ flow'.late = flow.late
    BY <1>1, <1>4 DEF flow_goes, GitRunning
  <2> QED BY <2>1, <1>1, <1>2, FlowGoes
<1> QED BY <1>3, <1>4 DEF git_diff

LEMMA Pushed ==
  ASSUME GitInv, git_push
  PROVE  GitInv'
<1>1. /\ Runs /\ flow.cmd = "publish" /\ flow.step = "push" /\ flow \in GitRunning
      /\ flow.branch = head /\ head # Default
  BY FlowKinds DEF git_push, Runs, GitInv, OnBranch, OffDefault
<1>2. CASE gives_up /\ UNCHANGED repository
  BY <1>2, FlowGivesUp
<1>3. CASE /\ remote' = [remote EXCEPT ![flow.branch] = commits[flow.branch]] /\ flow_goes("create")
           /\ UNCHANGED <<head, commits, dirty, index, pulls, trees>>
  <2>1. /\ flow' \in GitRunning /\ flow'.cmd = flow.cmd /\ flow'.step = "create" /\ flow'.branch = flow.branch
        /\ flow'.described = flow.described /\ flow'.late = flow.late
    BY <1>1, <1>3 DEF flow_goes, GitRunning
  <2>2. GitTypes'
    BY <1>1, <1>3, <2>1 DEF GitInv, GitTypes
  <2>3. remote'[head] = commits[head] /\ remote'[Default] = remote[Default]
    BY <1>1, <1>3, GitAssumption DEF GitInv, GitTypes
  <2>4. OnBranch'
    BY <1>1, <1>3, <2>1 DEF GitInv, OnBranch, Exists
  <2>5. AllDescribed' /\ OffDefault'
    BY <1>1, <1>3, <2>1, <2>3 DEF GitInv, AllDescribed, OffDefault, Runs
  <2>6. LocalFilesStayLocal' /\ CommittedWasDescribed' /\ PublishedTruthfully'
    BY <1>1, <1>3, <2>1, <2>3 DEF GitInv, LocalFilesStayLocal, CommittedWasDescribed, PublishedTruthfully
  <2> QED BY <2>2, <2>4, <2>5, <2>6 DEF GitInv
<1> QED BY <1>2, <1>3 DEF git_push

LEMMA RequestCreated ==
  ASSUME GitInv, gh_pr_create
  PROVE  GitInv'
<1>1. /\ Runs /\ flow.cmd \in {"publish", "pr"} /\ flow.step = "create" /\ flow \in GitRunning
      /\ UNCHANGED <<head, commits, dirty, index, remote, trees>>
      /\ flow.cmd = "publish" => remote[head] = commits[head]
  BY FlowKinds DEF gh_pr_create, Runs, GitInv, OffDefault
<1>2. CASE gives_up /\ UNCHANGED pulls
  BY <1>1, <1>2, FlowGivesUp DEF repository
<1>3. ASSUME NEW result \in {"created", "existing"}, NEW command \in {"publish done", "pr done"},
             flow' = [Ended(result) EXCEPT !.cmd = command], command = "publish done" => flow.cmd = "publish",
             pulls' \in [Branches -> {"none", "open", "closed"}], pulls'[head] # "none"
      PROVE  GitInv'
  <2>1. flow' \in GitEnded /\ flow'.cmd = command /\ flow'.branch = head
    BY <1>3 DEF Ended, GitEnded, GitInv, GitTypes
  <2>2. GitTypes'
    BY <1>1, <1>3, <2>1 DEF GitInv, GitTypes
  <2>3. OnBranch' /\ AllDescribed' /\ OffDefault'
    BY <1>1, <2>1 DEF GitInv, OnBranch, AllDescribed, OffDefault, Exists, Runs
  <2>4. LocalFilesStayLocal' /\ CommittedWasDescribed'
    BY <1>1, <2>1 DEF GitInv, LocalFilesStayLocal, CommittedWasDescribed
  <2>5. PublishedTruthfully'
    BY <1>1, <1>3, <2>1 DEF GitInv, PublishedTruthfully
  <2> QED BY <2>2, <2>3, <2>4, <2>5 DEF GitInv
<1>4. CASE /\ pulls' = [pulls EXCEPT ![head] = "open"]
           /\ flow' = [Ended("created") EXCEPT !.cmd = IF flow.cmd = "publish" THEN "publish done" ELSE "pr done"]
  <2>1. pulls' \in [Branches -> {"none", "open", "closed"}] /\ pulls'[head] # "none"
    BY <1>4 DEF GitInv, GitTypes
  <2> QED BY <2>1, <1>3, <1>4
<1>5. CASE /\ flow.cmd = "publish" /\ pulls[head] # "none" /\ UNCHANGED pulls
           /\ flow' = [Ended("existing") EXCEPT !.cmd = "publish done"]
  <2>1. pulls' \in [Branches -> {"none", "open", "closed"}] /\ pulls'[head] # "none"
    BY <1>5 DEF GitInv, GitTypes
  <2> QED BY <2>1, <1>3, <1>5
<1> QED BY <1>2, <1>4, <1>5 DEF gh_pr_create

LEMMA ReportRead ==
  ASSUME GitInv, read_report
  PROVE  GitInv'
<1>1. UNCHANGED <<head, commits, dirty, index, remote, pulls, trees>> /\ flow' = NoFlow /\ flow'.cmd = "idle"
  BY DEF read_report, repository, NoFlow
<1>2. GitTypes'
  BY <1>1 DEF GitInv, GitTypes
<1>3. OnBranch' /\ AllDescribed' /\ OffDefault'
  BY <1>1 DEF GitInv, OnBranch, AllDescribed, OffDefault, Exists, Runs
<1>4. LocalFilesStayLocal' /\ CommittedWasDescribed' /\ PublishedTruthfully'
  BY <1>1 DEF GitInv, LocalFilesStayLocal, CommittedWasDescribed, PublishedTruthfully
<1> QED BY <1>2, <1>3, <1>4 DEF GitInv

(* A branch that did not exist starts with what the one checked out has.   *)
LEMMA BranchMade ==
  ASSUME GitInv, NEW b \in Branches,
         commits' = IF Exists(b) THEN commits ELSE [commits EXCEPT ![b] = commits[head]]
  PROVE  /\ commits' \in [Branches -> SUBSET (FileKinds \cup Gone)] /\ LocalFilesStayLocal'
         /\ Exists(Default)' /\ commits'[b] \subseteq FileKinds /\ commits'[head] \subseteq FileKinds
         /\ \A c \in Branches : Exists(c)' => commits'[c] \subseteq FileKinds
<1>1. GitTypes /\ OnBranch /\ LocalFilesStayLocal
  BY DEF GitInv
<1>2. \A c \in Branches : commits'[c] = commits[c] \/ commits'[c] = commits[head]
  BY <1>1 DEF GitTypes
<1>3. commits' \in [Branches -> SUBSET (FileKinds \cup Gone)]
  BY <1>1 DEF GitTypes
<1>4. commits[head] \subseteq FileKinds /\ commits[head] # Gone /\ head \in Branches
  BY <1>1 DEF OnBranch, FileKinds, Gone, GitTypes
<1>5. commits'[b] \subseteq FileKinds
  BY <1>1, <1>4 DEF OnBranch, GitTypes
<1>6. commits'[head] = commits[head]
  BY <1>2, <1>4
<1>7. Exists(Default)'
  BY <1>1, <1>2, <1>4, GitAssumption DEF Exists, OnBranch
<1>8. \A c \in Branches : Exists(c)' => commits'[c] \subseteq FileKinds
  BY <1>1, <1>2, <1>4 DEF Exists, OnBranch
<1>9. LocalFilesStayLocal'
  BY <1>1, <1>2, <1>4 DEF LocalFilesStayLocal
<1> QED BY <1>3, <1>4, <1>5, <1>6, <1>7, <1>8, <1>9

LEMMA BranchHandled ==
  ASSUME GitInv, handle_branch_slash_command
  PROVE  GitInv'
<1>1. flow = NoFlow /\ flow.cmd = "idle" /\ UNCHANGED <<dirty, index, remote, pulls, trees, flow>>
  BY DEF handle_branch_slash_command, NoFlow
<1>2. PICK b \in Branches :
        head' = b /\ commits' = IF Exists(b) THEN commits ELSE [commits EXCEPT ![b] = commits[head]]
  BY DEF handle_branch_slash_command
<1>3. GitTypes'
  BY <1>1, <1>2, BranchMade DEF GitInv, GitTypes
<1>4. OnBranch' /\ AllDescribed' /\ OffDefault'
  BY <1>1, <1>2, BranchMade DEF OnBranch, AllDescribed, OffDefault, Runs
<1>5. LocalFilesStayLocal' /\ CommittedWasDescribed' /\ PublishedTruthfully'
  BY <1>1, <1>2, BranchMade DEF GitInv, CommittedWasDescribed, PublishedTruthfully
<1> QED BY <1>3, <1>4, <1>5 DEF GitInv

LEMMA WorktreeHandled ==
  ASSUME GitInv, handle_worktree_slash_command
  PROVE  GitInv'
<1>1. flow = NoFlow /\ flow.cmd = "idle" /\ UNCHANGED <<head, dirty, index, remote, pulls, flow>>
  BY DEF handle_worktree_slash_command, NoFlow
<1>2. /\ trees' \in [Trees -> Branches \cup {"none"}]
      /\ \/ commits' = commits
         \/ \E b \in Branches :
              commits' = IF Exists(b) THEN commits ELSE [commits EXCEPT ![b] = commits[head]]
  <2>1. PICK p \in Trees :
       \/ \E b \in Branches :
            /\ commits' = IF Exists(b) THEN commits ELSE [commits EXCEPT ![b] = commits[head]]
            /\ trees' = [trees EXCEPT ![p] = b]
       \/ trees' = [trees EXCEPT ![p] = "none"] /\ UNCHANGED commits
    BY DEF handle_worktree_slash_command
  <2> QED BY <2>1 DEF GitInv, GitTypes
<1>3. /\ commits' \in [Branches -> SUBSET (FileKinds \cup Gone)] /\ LocalFilesStayLocal'
      /\ Exists(Default)' /\ commits'[head] \subseteq FileKinds
      /\ \A c \in Branches : Exists(c)' => commits'[c] \subseteq FileKinds
  <2>1. CASE commits' = commits
    BY <2>1 DEF GitInv, GitTypes, OnBranch, LocalFilesStayLocal, Exists
  <2> QED BY <2>1, <1>2, BranchMade
<1>4. GitTypes'
  BY <1>1, <1>2, <1>3 DEF GitInv, GitTypes
<1>5. OnBranch' /\ AllDescribed' /\ OffDefault'
  BY <1>1, <1>3 DEF OnBranch, AllDescribed, OffDefault, Runs
<1>6. CommittedWasDescribed' /\ PublishedTruthfully'
  BY <1>1 DEF GitInv, CommittedWasDescribed, PublishedTruthfully
<1> QED BY <1>3, <1>4, <1>5, <1>6 DEF GitInv

LEMMA Edited ==
  ASSUME GitInv, edit
  PROVE  GitInv'
<1>1. PICK k \in FileKinds \ dirty :
       /\ dirty' = dirty \cup {k}
       /\ flow' = IF "late" \in DOMAIN flow /\ flow.cmd # "committed"
                  THEN [flow EXCEPT !.late = @ \cup {k}] ELSE flow
  BY DEF edit
<1>2. UNCHANGED <<head, commits, index, remote, pulls, trees>>
  BY DEF edit
<1>3. /\ Runs => /\ flow' \in GitRunning /\ flow'.cmd = flow.cmd /\ flow'.step = flow.step
                 /\ flow'.branch = flow.branch /\ flow'.described = flow.described
                 /\ flow'.late = flow.late \cup {k}
      /\ ~Runs => flow' = flow
  <2>1. ASSUME Runs
        PROVE  flow \in GitRunning
    BY <2>1, FlowKinds DEF GitInv
  <2>2. ASSUME ~Runs
        PROVE  "late" \notin DOMAIN flow \/ flow.cmd = "committed"
    <3>1. CASE flow = NoFlow
      BY <3>1 DEF NoFlow
    <3>2. CASE flow \in GitRunning
      BY <2>2, <3>2 DEF Runs, GitRunning
    <3>3. CASE flow \in GitCommitted
      BY <3>3 DEF GitCommitted
    <3>4. CASE flow \in GitEnded
      BY <3>4 DEF GitEnded
    <3> QED BY <3>1, <3>2, <3>3, <3>4 DEF GitInv, GitTypes
  <2> QED BY <1>1, <2>1, <2>2 DEF Runs, GitRunning
<1>4. GitTypes'
  BY <1>1, <1>2, <1>3 DEF GitInv, GitTypes
<1>5. flow'.cmd = flow.cmd
  BY <1>3
<1>6. OnBranch' /\ OffDefault'
  BY <1>2, <1>3, <1>5 DEF GitInv, OnBranch, OffDefault, Exists, Runs
<1>7. AllDescribed'
  BY <1>1, <1>2, <1>3, <1>5 DEF GitInv, AllDescribed, Runs
<1>8. LocalFilesStayLocal' /\ CommittedWasDescribed' /\ PublishedTruthfully'
  BY <1>2, <1>3, <1>5 DEF GitInv, LocalFilesStayLocal, CommittedWasDescribed, PublishedTruthfully, Runs
<1> QED BY <1>4, <1>6, <1>7, <1>8 DEF GitInv

LEMMA StagedByHand ==
  ASSUME GitInv, stage
  PROVE  GitInv'
<1>1. flow.cmd = "idle" /\ UNCHANGED <<head, commits, remote, pulls, trees, flow>>
      /\ dirty' \subseteq FileKinds /\ index' \subseteq FileKinds
  BY DEF stage, NoFlow, GitInv, GitTypes
<1> QED BY <1>1 DEF GitInv, GitTypes, OnBranch, AllDescribed, OffDefault, Exists, Runs, LocalFilesStayLocal,
                    CommittedWasDescribed, PublishedTruthfully

LEMMA RequestClosed ==
  ASSUME GitInv, close
  PROVE  GitInv'
<1>1. /\ UNCHANGED <<head, commits, dirty, index, remote, trees, flow>>
      /\ pulls' \in [Branches -> {"none", "open", "closed"}]
      /\ \A b \in Branches : pulls[b] # "none" => pulls'[b] # "none"
  BY DEF close, GitInv, GitTypes
<1>2. GitTypes'
  BY <1>1 DEF GitInv, GitTypes
<1>3. flow.cmd = "publish done" => flow.branch \in Branches
  BY FlowKinds DEF GitInv, GitEnded
<1>4. PublishedTruthfully'
  BY <1>1, <1>3 DEF GitInv, PublishedTruthfully
<1> QED BY <1>1, <1>2, <1>4 DEF GitInv, OnBranch, AllDescribed, OffDefault, Exists, Runs, LocalFilesStayLocal,
                    CommittedWasDescribed

LEMMA GitStart == GitInit => GitInv
<1> SUFFICES ASSUME GitInit PROVE GitInv
  OBVIOUS
<1>1. flow.cmd = "idle" /\ head = Default /\ commits[Default] = {} /\ remote[Default] = {}
  BY GitAssumption DEF GitInit, NoFlow
<1>2. GitTypes
  BY GitAssumption DEF GitInit, GitTypes, Gone
<1>3. OnBranch /\ AllDescribed /\ OffDefault
  BY <1>1 DEF GitInit, OnBranch, AllDescribed, OffDefault, Runs, Exists, Gone
<1>4. LocalFilesStayLocal /\ CommittedWasDescribed /\ PublishedTruthfully
  BY <1>1 DEF GitInit, LocalFilesStayLocal, CommittedWasDescribed, PublishedTruthfully, Gone
<1> QED BY <1>2, <1>3, <1>4 DEF GitInv

LEMMA GitMoves == GitInv /\ GitNext => GitInv'
BY CommandsStart, Generated, BranchEnsured, CommitHandled, ChangesStaged, Committed, Diffed, Pushed,
   RequestCreated, ReportRead, BranchHandled, WorktreeHandled, Edited, StagedByHand, RequestClosed
DEF GitNext

LEMMA GitRests == GitInv /\ UNCHANGED gitVars => GitInv'
BY DEF gitVars, GitInv, GitTypes, OnBranch, AllDescribed, OffDefault, Exists, Runs, LocalFilesStayLocal,
       CommittedWasDescribed, PublishedTruthfully

(* What the git commands promise (Extensions.GitSound), for any branches,  *)
(* trees, failures and edits between their steps: local files are never    *)
(* committed, a commit holds what its message describes but for what came  *)
(* later, and what is reported as published is.                            *)
THEOREM GitSafe == PartsSpec => []GitSound
<1>1. PartsInit => (part = "git" => GitInv)
  BY GitStart DEF PartsInit
<1>2. (part = "git" => GitInv) /\ [PartsNext]_partsVars => (part = "git" => GitInv)'
  BY GitMoves, GitRests DEF PartsNext, partsVars
<1>3. (part = "git" => GitInv) => GitSound
  BY DEF GitSound, GitInv
<1> QED
  BY <1>1, <1>2, <1>3, PTL DEF PartsSpec
-----------------------------------------------------------------------------
(***************************************************************************)
(* Plugins: what an operation has established by its step, and what the    *)
(* registry, the directories and the flags of the others agree on.         *)
(***************************************************************************)

Jobs == [op : Ops, id : PluginIds, step : Steps, loaded : [PluginIds -> 0..MaxVersion],
         before : Contents, answer : {"none", "ok", "error"}]

PluginTypes ==
  /\ plugin_dirs \in [PluginIds -> Contents]
  /\ plugin_records \in [PluginIds -> 0..MaxVersion]
  /\ enabled \in [PluginIds -> {"unset", "on", "off"}]
  /\ shipped \in [Bundled -> 0..MaxVersion]
  /\ offered \in [External -> 1..MaxVersion \cup {Broken}]
  /\ job \in Jobs
  /\ wanted \subseteq PluginIds
  /\ plugin_faults \in Nat

(* What an operation has established by the step it is at.                 *)
JobFits ==
  /\ job.op = "install" => job.id \in External
  /\ job.step # "idle" =>
       /\ job.op = "uninstall" => job.id \in External
       /\ job.op \in {"install", "update"} => Loads(Source(job.id))
       /\ job.op \in {"install", "enable"} => job.id \in wanted
  /\ job.step \in {"sync", "copy", "discover"} => job.op \notin {"update", "uninstall"}
  /\ job.step \in {"retire", "swap"} => job.op \in {"install", "update"}
  /\ job.step = "remove" => job.op = "uninstall"
  /\ job.step = "record" => job.op \in {"install", "update", "uninstall"}
  /\ job.step = "settings" => job.op # "update"

(* External plugins, as long as nothing failed: the record follows the     *)
(* directory but between the two writes, and what was loaded is the record.*)
ExternalAgree ==
  plugin_faults = 0 => \A p \in External :
    /\ (job.step \in {"swap", "record"} => p # job.id) => plugin_records[p] = plugin_dirs[p]
    /\ job.step \notin {"idle", "settings"} => job.loaded[p] = plugin_records[p]
    /\ job.step = "record" /\ p = job.id =>
         plugin_dirs[p] = IF job.op = "uninstall" THEN Missing ELSE Source(p)

(* A bundled copy that loads is no older than its record and no newer than *)
(* what is shipped.                                                        *)
Between(b, d) ==
  Loads(d) /\ shipped[b] # Missing =>
    plugin_records[b] <= d /\ d <= shipped[b] /\ (job.step # "idle" => job.loaded[b] <= d)
BundledGrow ==
  /\ \A b \in Bundled : Between(b, plugin_dirs[b])
  /\ \A b \in Bundled : shipped[b] # Missing =>
       plugin_records[b] <= shipped[b] /\ (job.step # "idle" => job.loaded[b] <= shipped[b])
  /\ job.step = "swap" /\ job.id \in Bundled => Between(job.id, job.before)
  /\ job.step = "record" /\ job.id \in Bundled => plugin_dirs[job.id] = shipped[job.id]

BundledSynced ==
  job.step \in {"discover", "retire", "swap", "record", "settings"}
      /\ job.op \notin {"update", "uninstall"} =>
    \A b \in Bundled : shipped[b] # Missing => plugin_dirs[b] = shipped[b]

PluginsInv ==
  /\ PluginTypes /\ JobFits /\ ExternalAgree /\ BundledGrow /\ BundledSynced
  /\ UpdateKeepsInstall /\ EnabledIsWanted

LEMMA PluginKinds ==
  /\ MaxVersion \in Nat \ {0} /\ External \cap Bundled = {}
  /\ Missing \in Contents /\ Hollow \in Contents /\ Broken \in Contents
  /\ 1..MaxVersion \subseteq Contents /\ 0..MaxVersion \subseteq Contents
  /\ Contents \subseteq Nat
  /\ ~Loads(Missing) /\ ~Loads(Hollow) /\ ~Loads(Broken)
  /\ ~HasManifest(Missing) /\ \A v \in 1..MaxVersion : HasManifest(v) /\ Loads(v)
  /\ ~HasManifest(Hollow)
BY PluginsAssumption DEF Missing, Hollow, Broken, Contents, Loads, HasManifest

LEMMA OperationBegins ==
  ASSUME PluginsInv, NEW op \in Ops, NEW p \in PluginIds, begin_operation(op, p)
  PROVE  PluginsInv'
<1> DEFINE refused == \/ Refused(op, p)
                      \/ op \in {"install", "update"} /\ ~prepare_plugin_source(p)
           begins == CASE op = "uninstall" -> "remove" [] op = "update" -> "retire" [] OTHER -> "sync"
<1>1. /\ UNCHANGED <<plugin_dirs, plugin_records, enabled, shipped, offered, plugin_faults>>
      /\ job.step = "idle" /\ (op = "install" => p \in External)
      /\ wanted' = IF op \in {"install", "enable"} THEN wanted \cup {p} ELSE wanted
      /\ job' = [op |-> op, id |-> p, loaded |-> plugin_records, before |-> plugin_dirs[p],
                 step |-> IF refused THEN "idle" ELSE begins,
                 answer |-> IF refused THEN "error" ELSE "none"]
  BY DEF begin_operation
<1>2. /\ job'.op = op /\ job'.id = p /\ job'.loaded = plugin_records /\ job'.before = plugin_dirs[p]
      /\ job'.step \in {"idle", "remove", "retire", "sync"}
      /\ job'.step = "remove" => op = "uninstall"
      /\ job'.step = "retire" => op = "update"
      /\ job'.step = "sync" => op \notin {"update", "uninstall"}
      /\ job'.step # "idle" => ~refused
      /\ job'.answer \in {"none", "error"}
  BY <1>1
<1>3. PluginTypes'
  BY <1>1, <1>2 DEF PluginsInv, PluginTypes, Jobs, Steps
<1>4. JobFits'
  BY <1>1, <1>2 DEF JobFits, Refused, prepare_plugin_source, Source, PluginIds
<1>5. ExternalAgree'
  BY <1>1, <1>2 DEF PluginsInv, ExternalAgree
<1>6. BundledGrow'
  BY <1>1, <1>2 DEF PluginsInv, BundledGrow, Between
<1>7. BundledSynced'
  BY <1>1, <1>2 DEF BundledSynced
<1>8. UpdateKeepsInstall' /\ EnabledIsWanted'
  BY <1>1, <1>2 DEF PluginsInv, UpdateKeepsInstall, EnabledIsWanted
<1> QED BY <1>3, <1>4, <1>5, <1>6, <1>7, <1>8 DEF PluginsInv

LEMMA PluginJob ==
  ASSUME PluginTypes
  PROVE  /\ job.op \in Ops /\ job.id \in PluginIds /\ job.step \in Steps /\ job.before \in Contents
         /\ job.loaded \in [PluginIds -> 0..MaxVersion] /\ job.answer \in {"none", "ok", "error"}
         /\ DOMAIN job = {"op", "id", "step", "loaded", "before", "answer"}
BY DEF PluginTypes, Jobs

LEMMA JobGoes ==
  ASSUME PluginTypes, NEW step \in Steps
  PROVE  /\ Go(step) \in Jobs /\ Go(step).step = step /\ Go(step).op = job.op /\ Go(step).id = job.id
         /\ Go(step).loaded = job.loaded /\ Go(step).before = job.before
         /\ Go(step).answer = IF step = "idle" THEN "ok" ELSE job.answer
BY DEF PluginTypes, Jobs, Go

(* What is next on the way of each operation.                              *)
LEMMA JobAdvances ==
  ASSUME PluginTypes, Advance
  PROVE  /\ job' \in Jobs /\ job'.op = job.op /\ job'.id = job.id /\ job'.loaded = job.loaded
         /\ job'.before = job.before /\ job'.step = After(job.op, job.step)
         /\ job'.answer = IF job'.step = "idle" THEN "ok" ELSE job.answer
<1>1. After(job.op, job.step) \in Steps
  BY DEF After, Steps
<1> QED BY <1>1, JobGoes DEF Advance

LEMMA JobFails ==
  ASSUME PluginTypes, Fail
  PROVE  /\ job' \in Jobs /\ job'.op = job.op /\ job'.id = job.id /\ job'.loaded = job.loaded
         /\ job'.before = job.before /\ job'.step = "idle" /\ job'.answer = "error"
BY DEF PluginTypes, Jobs, Fail, Steps

LEMMA SyncBegins ==
  ASSUME PluginsInv, NEW b \in Bundled, sync_begin(b)
  PROVE  PluginsInv'
<1>1. PICK partial \in {Missing, Hollow, Broken} :
        plugin_dirs' = [plugin_dirs EXCEPT ![b] = partial]
  BY DEF sync_begin
<1>2. /\ UNCHANGED <<plugin_records, enabled, shipped, offered, wanted, plugin_faults>>
      /\ job.step = "sync" /\ job' = [job EXCEPT !.step = "copy", !.loaded[b] = Missing]
      /\ b \in PluginIds
  BY DEF sync_begin, PluginIds
<1>3. /\ job' \in Jobs /\ job'.op = job.op /\ job'.id = job.id /\ job'.step = "copy"
      /\ job'.loaded = [job.loaded EXCEPT ![b] = Missing]
      /\ job'.before = job.before /\ job'.answer = job.answer
  <2>1. job \in Jobs /\ Missing \in 0..MaxVersion
    BY PluginsAssumption DEF PluginsInv, PluginTypes, Missing
  <2>2. [job.loaded EXCEPT ![b] = Missing] \in [PluginIds -> 0..MaxVersion]
    BY <1>2, <2>1 DEF Jobs
  <2>3. job' = [job EXCEPT !.step = "copy", !.loaded = [job.loaded EXCEPT ![b] = Missing]]
    BY <1>2, <2>1 DEF Jobs
  <2> QED BY <2>1, <2>2, <2>3 DEF Jobs, Steps
<1>4. PluginTypes'
  BY <1>1, <1>2, <1>3, PluginKinds DEF PluginsInv, PluginTypes
<1>5. JobFits'
  BY <1>2, <1>3 DEF PluginsInv, JobFits, Source
<1>6. ExternalAgree'
  <2>1. ASSUME NEW p \in External
        PROVE  p # b /\ plugin_dirs'[p] = plugin_dirs[p] /\ job'.loaded[p] = job.loaded[p]
    BY <1>1, <1>3, PluginKinds, PluginJob DEF PluginsInv, PluginTypes, PluginIds
  <2> QED BY <1>2, <1>3, <2>1 DEF PluginsInv, ExternalAgree
<1>7. BundledGrow'
  <2>1. ASSUME NEW c \in Bundled, Between(c, plugin_dirs[c])
        PROVE  Between(c, plugin_dirs[c])'
    <3>1. CASE c = b
      BY <3>1, <1>1, PluginKinds, <1>2 DEF PluginsInv, PluginTypes, Between
    <3>2. CASE c # b
      <4>1. plugin_dirs'[c] = plugin_dirs[c] /\ job'.loaded[c] = job.loaded[c]
        BY <3>2, <1>1, <1>3, PluginJob DEF PluginsInv, PluginTypes, PluginIds
      <4> QED BY <4>1, <2>1, <1>2, <1>3 DEF Between
    <3> QED BY <3>1, <3>2
  <2>2. ASSUME NEW c \in Bundled, shipped[c] # Missing
        PROVE  job'.loaded[c] <= shipped[c]
    BY <2>2, <1>2, <1>3, PluginJob DEF PluginsInv, PluginTypes, BundledGrow, PluginIds, Missing
  <2> QED BY <2>1, <2>2, <1>2, <1>3 DEF PluginsInv, BundledGrow
<1>8. BundledSynced' /\ UpdateKeepsInstall' /\ EnabledIsWanted'
  BY <1>2, <1>3 DEF PluginsInv, BundledSynced, UpdateKeepsInstall, EnabledIsWanted
<1> QED BY <1>4, <1>5, <1>6, <1>7, <1>8 DEF PluginsInv

LEMMA BundledCopied ==
  ASSUME PluginsInv, NEW b \in Bundled, copy_dir_all(b)
  PROVE  PluginsInv'
<1>1. /\ UNCHANGED <<plugin_records, enabled, shipped, offered, wanted, plugin_faults>>
      /\ job.step = "copy" /\ shipped[b] # Missing
      /\ plugin_dirs' = [plugin_dirs EXCEPT ![b] = shipped[b]]
      /\ job' = [job EXCEPT !.step = "sync", !.loaded[b] = shipped[b]]
      /\ b \in PluginIds /\ shipped[b] \in 0..MaxVersion
  BY DEF copy_dir_all, PluginIds, PluginsInv, PluginTypes
<1>3. /\ job' \in Jobs /\ job'.op = job.op /\ job'.id = job.id /\ job'.step = "sync"
      /\ job'.loaded = [job.loaded EXCEPT ![b] = shipped[b]]
      /\ job'.before = job.before /\ job'.answer = job.answer
  BY <1>1 DEF PluginsInv, PluginTypes, Jobs, Steps
<1>4. PluginTypes'
  BY <1>1, <1>3, PluginKinds DEF PluginsInv, PluginTypes
<1>5. JobFits'
  BY <1>1, <1>3 DEF PluginsInv, JobFits, Source
<1>6. ExternalAgree'
  <2>1. ASSUME NEW p \in External
        PROVE  p # b /\ plugin_dirs'[p] = plugin_dirs[p] /\ job'.loaded[p] = job.loaded[p]
    BY <1>1, <1>3, PluginKinds, PluginJob DEF PluginsInv, PluginTypes, PluginIds
  <2> QED BY <1>1, <1>3, <2>1 DEF PluginsInv, ExternalAgree
<1>7. BundledGrow'
  <2>1. ASSUME NEW c \in Bundled
        PROVE  Between(c, plugin_dirs[c])'
    <3>1. CASE c = b
      BY <3>1, <1>1, <1>3, PluginKinds, PluginJob DEF PluginsInv, PluginTypes, Between, BundledGrow
    <3>2. CASE c # b
      <4>1. plugin_dirs'[c] = plugin_dirs[c] /\ job'.loaded[c] = job.loaded[c]
        BY <3>2, <1>1, <1>3, PluginJob DEF PluginsInv, PluginTypes, PluginIds
      <4> QED BY <4>1, <1>1, <1>3 DEF Between, PluginsInv, BundledGrow
    <3> QED BY <3>1, <3>2
  <2>2. ASSUME NEW c \in Bundled, shipped[c] # Missing
        PROVE  job'.loaded[c] <= shipped[c]
    BY <2>2, <1>1, <1>3, PluginJob DEF PluginsInv, PluginTypes, BundledGrow, PluginIds
  <2> QED BY <2>1, <2>2, <1>1, <1>3 DEF PluginsInv, BundledGrow
<1>8. BundledSynced' /\ UpdateKeepsInstall' /\ EnabledIsWanted'
  BY <1>1, <1>3 DEF PluginsInv, BundledSynced, UpdateKeepsInstall, EnabledIsWanted
<1> QED BY <1>4, <1>5, <1>6, <1>7, <1>8 DEF PluginsInv

LEMMA SyncEnds ==
  ASSUME PluginsInv, sync_end
  PROVE  PluginsInv'
<1> DEFINE stale == {b \in Bundled : shipped[b] = Missing /\ job.loaded[b] # Missing}
           kept == [p \in PluginIds |-> IF p \in stale THEN Missing ELSE job.loaded[p]]
<1>1. /\ UNCHANGED <<enabled, shipped, offered, wanted, plugin_faults>>
      /\ job.step = "sync" /\ \A b \in Bundled : ~needs_sync(b)
      /\ plugin_dirs' = [p \in PluginIds |-> IF p \in stale THEN Missing ELSE plugin_dirs[p]]
      /\ plugin_records' = kept /\ job' = [Go("discover") EXCEPT !.loaded = kept]
  BY DEF sync_end
<1>2. kept \in [PluginIds -> 0..MaxVersion]
  BY PluginJob, PluginsAssumption DEF PluginsInv, Missing
<1>3. /\ job' \in Jobs /\ job'.op = job.op /\ job'.id = job.id /\ job'.step = "discover"
      /\ job'.loaded = kept /\ job'.before = job.before
  BY <1>1, <1>2, JobGoes DEF PluginsInv, Jobs, Steps
<1>4. PluginTypes'
  BY <1>1, <1>2, <1>3, PluginKinds DEF PluginsInv, PluginTypes
<1>5. JobFits'
  BY <1>1, <1>3 DEF PluginsInv, JobFits, Source
<1>6. ASSUME NEW b \in Bundled, shipped[b] # Missing
      PROVE  /\ plugin_dirs'[b] = shipped[b] /\ plugin_records'[b] = shipped[b]
             /\ job'.loaded[b] = shipped[b]
  <2>1. job.loaded[b] = shipped[b] /\ Loads(plugin_dirs[b])
    BY <1>1, <1>6 DEF needs_sync
  <2>2. plugin_dirs[b] = shipped[b]
    BY <2>1, <1>1, <1>6, PluginJob DEF PluginsInv, PluginTypes, BundledGrow, Between, Contents, PluginIds, Broken
  <2> QED BY <2>1, <2>2, <1>1, <1>3, <1>6 DEF PluginIds
<1>7. ExternalAgree'
  <2>1. ASSUME NEW p \in External
        PROVE  /\ plugin_dirs'[p] = plugin_dirs[p] /\ plugin_records'[p] = job.loaded[p]
               /\ job'.loaded[p] = job.loaded[p]
    BY <1>1, <1>3, PluginKinds DEF PluginIds
  <2> QED BY <1>1, <1>3, <2>1 DEF PluginsInv, ExternalAgree
<1>8. BundledGrow' /\ BundledSynced'
  <2>1. ASSUME NEW b \in Bundled
        PROVE  Between(b, plugin_dirs[b])' /\ shipped[b] \in Nat /\ shipped'[b] = shipped[b]
    <3>1. shipped[b] \in Nat /\ shipped'[b] = shipped[b]
      BY <1>1 DEF PluginsInv, PluginTypes
    <3>2. CASE shipped[b] = Missing
      BY <3>1, <3>2 DEF Between
    <3>3. CASE shipped[b] # Missing
      BY <3>1, <3>3, <1>3, <1>6 DEF Between
    <3> QED BY <3>1, <3>2, <3>3
  <2>2. BundledGrow'
    BY <2>1, <1>3, <1>6 DEF BundledGrow
  <2>3. BundledSynced'
    BY <2>1, <1>6 DEF BundledSynced
  <2> QED BY <2>2, <2>3
<1>9. UpdateKeepsInstall' /\ EnabledIsWanted'
  BY <1>1, <1>3 DEF PluginsInv, UpdateKeepsInstall, EnabledIsWanted
<1> QED BY <1>4, <1>5, <1>7, <1>8, <1>9 DEF PluginsInv

LEMMA PluginsDiscovered ==
  ASSUME PluginsInv, discover_installed_plugins
  PROVE  PluginsInv'
<1> DEFINE stale == {p \in PluginIds : ~HasManifest(plugin_dirs[p])}
<1>1. /\ UNCHANGED <<plugin_dirs, enabled, shipped, offered, wanted, plugin_faults>>
      /\ job.step = "discover"
      /\ \/ plugin_records' = plugin_records
         \/ plugin_records' = [p \in PluginIds |-> IF p \in stale THEN Missing ELSE plugin_records[p]]
      /\ Fail \/ Advance
  BY DEF discover_installed_plugins
<1>2. job.op \notin {"update", "uninstall"} /\ PluginTypes
  BY <1>1 DEF PluginsInv, JobFits
<1>3. /\ job' \in Jobs /\ job'.op = job.op /\ job'.id = job.id /\ job'.loaded = job.loaded
      /\ job'.step \in {"idle", "retire", "settings"} /\ (job'.step = "retire" => job.op = "install")
      /\ job'.before = job.before
  BY <1>1, <1>2, JobAdvances, JobFails, PluginJob DEF After
<1>4. /\ plugin_records' \in [PluginIds -> 0..MaxVersion]
      /\ \A p \in PluginIds : plugin_records'[p] <= plugin_records[p]
      /\ \A p \in PluginIds : plugin_records'[p] # plugin_records[p] =>
           plugin_records'[p] = Missing /\ ~HasManifest(plugin_dirs[p])
  BY <1>1, <1>2, PluginsAssumption DEF PluginTypes, Missing
<1>5. PluginTypes'
  BY <1>1, <1>2, <1>3, <1>4 DEF PluginTypes
<1>6. JobFits'
  BY <1>1, <1>2, <1>3 DEF PluginsInv, JobFits, Source
<1>7. ExternalAgree'
  <2>1. ASSUME NEW p \in External, plugin_faults = 0
        PROVE  plugin_records'[p] = plugin_records[p]
    <3>1. p \in PluginIds /\ plugin_records[p] = plugin_dirs[p]
      BY <2>1, <1>1 DEF PluginsInv, ExternalAgree, PluginIds
    <3>2. plugin_records[p] \in 0..MaxVersion
      BY <3>1, <1>2 DEF PluginTypes
    <3>3. CASE plugin_records[p] = Missing
      BY <3>1, <3>3, <1>4, PluginKinds
    <3>4. CASE plugin_records[p] \in 1..MaxVersion
      BY <3>1, <3>4, <1>4, PluginKinds
    <3> QED BY <3>2, <3>3, <3>4, PluginsAssumption DEF Missing
  <2> QED BY <1>1, <1>3, <2>1 DEF PluginsInv, ExternalAgree
<1>8. BundledGrow'
  <2>1. ASSUME NEW b \in Bundled
        PROVE  plugin_records'[b] <= plugin_records[b] /\ plugin_records'[b] \in Nat /\ plugin_records[b] \in Nat
               /\ plugin_dirs[b] \in Nat /\ shipped[b] \in Nat
    BY <1>4, <1>2 DEF PluginIds, PluginTypes, Contents, Broken
  <2>2. ASSUME NEW b \in Bundled
        PROVE  Between(b, plugin_dirs[b])'
    BY <2>1, <2>2, <1>1, <1>3 DEF PluginsInv, BundledGrow, Between
  <2>3. ASSUME NEW b \in Bundled, shipped[b] # Missing
        PROVE  plugin_records'[b] <= shipped[b] /\ job'.loaded[b] <= shipped[b]
    BY <2>1, <2>3, <1>1, <1>3 DEF PluginsInv, BundledGrow
  <2> QED BY <2>2, <2>3, <1>1, <1>3 DEF BundledGrow
<1>9. BundledSynced' /\ UpdateKeepsInstall' /\ EnabledIsWanted'
  BY <1>1, <1>2, <1>3 DEF PluginsInv, BundledSynced, UpdateKeepsInstall, EnabledIsWanted
<1> QED BY <1>5, <1>6, <1>7, <1>8, <1>9 DEF PluginsInv

(* commit_prepared_install, of an install or an update.                    *)
LEMMA Retired ==
  ASSUME PluginsInv, retire
  PROVE  PluginsInv'
<1>1. /\ UNCHANGED <<plugin_records, enabled, shipped, offered, wanted, plugin_faults>>
      /\ job.step = "retire" /\ plugin_dirs' = [plugin_dirs EXCEPT ![job.id] = Missing]
      /\ job' = [Go("swap") EXCEPT !.before = plugin_dirs[job.id]]
  BY DEF retire
<1>2. PluginTypes /\ job.op \in {"install", "update"} /\ (job.op = "install" => job.id \in External)
  BY <1>1 DEF PluginsInv, JobFits
<1>3. /\ job' \in Jobs /\ job'.op = job.op /\ job'.id = job.id /\ job'.loaded = job.loaded
      /\ job'.step = "swap" /\ job'.before = plugin_dirs[job.id]
  BY <1>1, <1>2, JobGoes, PluginJob DEF Jobs, Steps, PluginTypes
<1>4. PluginTypes'
  BY <1>1, <1>2, <1>3, PluginKinds DEF PluginTypes
<1>5. JobFits'
  BY <1>1, <1>2, <1>3 DEF PluginsInv, JobFits, Source
<1>6. \A p \in PluginIds : plugin_dirs'[p] = IF p = job.id THEN Missing ELSE plugin_dirs[p]
  BY <1>1, <1>2 DEF PluginTypes
<1>7. ExternalAgree'
  BY <1>1, <1>3, <1>6 DEF PluginsInv, ExternalAgree, PluginIds
<1>8. BundledGrow'
  <2>1. ASSUME NEW b \in Bundled
        PROVE  Between(b, plugin_dirs[b])' /\ (b = job.id => Between(b, job.before)')
    <3>1. Between(b, plugin_dirs[b]) /\ b \in PluginIds
      BY DEF PluginsInv, BundledGrow, PluginIds
    <3>2. CASE b = job.id
      <4>1. plugin_dirs'[b] = Missing /\ (job.before)' = plugin_dirs[b]
        BY <3>1, <3>2, <1>3, <1>6
      <4> QED BY <4>1, <3>1, <1>1, <1>3, PluginKinds DEF Between
    <3>3. CASE b # job.id
      BY <3>1, <3>3, <1>1, <1>3, <1>6 DEF Between
    <3> QED BY <3>2, <3>3
  <2>2. job.id \in Bundled => Between(job.id, job.before)'
    <3> SUFFICES ASSUME job.id \in Bundled PROVE Between(job.id, job.before)'
      OBVIOUS
    <3>1. Between(job.id, plugin_dirs[job.id])
      BY DEF PluginsInv, BundledGrow
    <3> QED BY <3>1, <1>1, <1>3 DEF Between
  <2> QED BY <2>1, <2>2, <1>1, <1>3 DEF PluginsInv, BundledGrow
<1>9. BundledSynced' /\ UpdateKeepsInstall' /\ EnabledIsWanted'
  BY <1>1, <1>2, <1>3, <1>6, PluginKinds DEF PluginsInv, BundledSynced, UpdateKeepsInstall, EnabledIsWanted, PluginIds
<1> QED BY <1>4, <1>5, <1>7, <1>8, <1>9 DEF PluginsInv

LEMMA Swapped ==
  ASSUME PluginsInv, swap
  PROVE  PluginsInv'
<1>1. /\ UNCHANGED <<plugin_records, enabled, shipped, offered, wanted, plugin_faults>>
      /\ job.step = "swap" /\ plugin_dirs' = [plugin_dirs EXCEPT ![job.id] = Source(job.id)]
      /\ Advance
  BY DEF swap
<1>2. /\ PluginTypes /\ job.op \in {"install", "update"} /\ (job.op = "install" => job.id \in External)
      /\ Loads(Source(job.id)) /\ job.id \in PluginIds
  BY <1>1, PluginJob DEF PluginsInv, JobFits
<1>3. /\ job' \in Jobs /\ job'.op = job.op /\ job'.id = job.id /\ job'.loaded = job.loaded
      /\ job'.step = "record" /\ job'.before = job.before
  BY <1>1, <1>2, JobAdvances DEF After
<1>4. PluginTypes'
  BY <1>1, <1>2, <1>3, PluginKinds DEF PluginTypes, Loads
<1>5. JobFits'
  BY <1>1, <1>2, <1>3 DEF PluginsInv, JobFits, Source
<1>6. \A p \in PluginIds : plugin_dirs'[p] = IF p = job.id THEN Source(p) ELSE plugin_dirs[p]
  BY <1>1, <1>2 DEF PluginTypes
<1>7. ExternalAgree'
  BY <1>1, <1>2, <1>3, <1>6 DEF PluginsInv, ExternalAgree, PluginIds, Source
<1>8. BundledGrow'
  <2>1. ASSUME NEW b \in Bundled
        PROVE  Between(b, plugin_dirs[b])'
    <3>1. CASE b = job.id
      <4>1. plugin_dirs'[b] = shipped[b]
        BY <3>1, <1>2, <1>6, PluginKinds DEF Source
      <4> QED BY <4>1, <1>1, <1>2, <1>3 DEF PluginsInv, BundledGrow, Between, PluginTypes
    <3>2. CASE b # job.id
      BY <3>2, <1>1, <1>3, <1>6 DEF PluginsInv, BundledGrow, Between, PluginIds
    <3> QED BY <3>1, <3>2
  <2>2. job.id \in Bundled => plugin_dirs'[job.id] = shipped[job.id]
    BY <1>2, <1>6, PluginKinds DEF Source
  <2> QED BY <2>1, <2>2, <1>1, <1>3 DEF PluginsInv, BundledGrow
<1>9. BundledSynced' /\ UpdateKeepsInstall' /\ EnabledIsWanted'
  BY <1>1, <1>2, <1>3, <1>6, PluginKinds DEF PluginsInv, BundledSynced, UpdateKeepsInstall, EnabledIsWanted, PluginIds
<1> QED BY <1>4, <1>5, <1>7, <1>8, <1>9 DEF PluginsInv

LEMMA SwapFails ==
  ASSUME PluginsInv, swap_fails
  PROVE  PluginsInv'
<1>1. /\ UNCHANGED <<plugin_records, enabled, shipped, offered, wanted>>
      /\ job.step = "swap" /\ plugin_dirs' = [plugin_dirs EXCEPT ![job.id] = job.before]
      /\ plugin_faults' = plugin_faults + 1 /\ Fail
  BY DEF swap_fails
<1>2. PluginTypes /\ job.id \in PluginIds /\ job.before \in Contents
  BY PluginJob DEF PluginsInv
<1>3. /\ job' \in Jobs /\ job'.op = job.op /\ job'.id = job.id /\ job'.loaded = job.loaded
      /\ job'.step = "idle" /\ job'.before = job.before
  BY <1>1, <1>2, JobFails
<1>4. PluginTypes' /\ plugin_faults' # 0
  BY <1>1, <1>2, <1>3, PluginKinds DEF PluginTypes
<1>5. JobFits'
  BY <1>1, <1>3 DEF PluginsInv, JobFits
<1>6. \A p \in PluginIds : plugin_dirs'[p] = IF p = job.id THEN job.before ELSE plugin_dirs[p]
  BY <1>1, <1>2 DEF PluginTypes
<1>7. ExternalAgree'
  BY <1>4 DEF ExternalAgree
<1>8. BundledGrow'
  <2>1. ASSUME NEW b \in Bundled
        PROVE  Between(b, plugin_dirs[b])'
    BY <1>1, <1>3, <1>6 DEF PluginsInv, BundledGrow, Between, PluginIds
  <2> QED BY <2>1, <1>1, <1>3 DEF PluginsInv, BundledGrow
<1>9. BundledSynced' /\ UpdateKeepsInstall' /\ EnabledIsWanted'
  BY <1>1, <1>2, <1>3, <1>6 DEF PluginsInv, BundledSynced, UpdateKeepsInstall, EnabledIsWanted
<1> QED BY <1>4, <1>5, <1>7, <1>8, <1>9 DEF PluginsInv

(* uninstall is of an external plugin.                                     *)
LEMMA DirectoryRemoved ==
  ASSUME PluginsInv, remove_dir_all
  PROVE  PluginsInv'
<1>1. /\ UNCHANGED <<plugin_records, enabled, shipped, offered, wanted, plugin_faults>>
      /\ job.step = "remove" /\ plugin_dirs' = [plugin_dirs EXCEPT ![job.id] = Missing]
      /\ Advance
  BY DEF remove_dir_all
<1>2. /\ PluginTypes /\ job.op = "uninstall" /\ job.id \in External
      /\ job.id \in PluginIds /\ job.id \notin Bundled
  BY <1>1, PluginJob, PluginKinds DEF PluginsInv, JobFits
<1>3. /\ job' \in Jobs /\ job'.op = job.op /\ job'.id = job.id /\ job'.loaded = job.loaded
      /\ job'.step = "record" /\ job'.before = job.before
  BY <1>1, <1>2, JobAdvances DEF After
<1>4. PluginTypes'
  BY <1>1, <1>2, <1>3, PluginKinds DEF PluginTypes
<1>5. JobFits'
  BY <1>1, <1>2, <1>3 DEF PluginsInv, JobFits, Source
<1>6. \A p \in PluginIds : plugin_dirs'[p] = IF p = job.id THEN Missing ELSE plugin_dirs[p]
  BY <1>1, <1>2 DEF PluginTypes
<1>7. ExternalAgree'
  BY <1>1, <1>2, <1>3, <1>6 DEF PluginsInv, ExternalAgree, PluginIds
<1>8. BundledGrow'
  <2>1. ASSUME NEW b \in Bundled
        PROVE  plugin_dirs'[b] = plugin_dirs[b]
    BY <1>2, <1>6 DEF PluginIds
  <2> QED BY <2>1, <1>1, <1>2, <1>3 DEF PluginsInv, BundledGrow, Between
<1>9. BundledSynced' /\ UpdateKeepsInstall' /\ EnabledIsWanted'
  BY <1>1, <1>2, <1>3 DEF PluginsInv, BundledSynced, UpdateKeepsInstall, EnabledIsWanted
<1> QED BY <1>4, <1>5, <1>7, <1>8, <1>9 DEF PluginsInv

LEMMA RegistryStored ==
  ASSUME PluginsInv, store_registry
  PROVE  PluginsInv'
<1> DEFINE base == IF job.op = "install" THEN plugin_records ELSE job.loaded
           version == IF job.op = "uninstall" THEN Missing ELSE Source(job.id)
<1>1. /\ UNCHANGED <<plugin_dirs, enabled, shipped, offered, wanted, plugin_faults>>
      /\ job.step = "record" /\ plugin_records' = [base EXCEPT ![job.id] = version]
      /\ Advance
  BY DEF store_registry
<1>2. /\ PluginTypes /\ job.op \in {"install", "update", "uninstall"} /\ job.id \in PluginIds
      /\ job.op \in {"install", "uninstall"} => job.id \in External
      /\ job.op \in {"install", "update"} => Loads(Source(job.id))
  BY <1>1, PluginJob DEF PluginsInv, JobFits
<1>3. /\ job' \in Jobs /\ job'.op = job.op /\ job'.id = job.id /\ job'.loaded = job.loaded
      /\ job'.step \in {"idle", "settings"} /\ (job'.step = "settings" <=> job.op # "update")
      /\ (job'.step = "idle" => job'.answer = "ok") /\ job'.before = job.before
  BY <1>1, <1>2, JobAdvances DEF After
<1>4. base \in [PluginIds -> 0..MaxVersion] /\ version \in 0..MaxVersion
  BY <1>2, PluginJob, PluginsAssumption DEF PluginTypes, Missing, Loads
<1>5. PluginTypes'
  BY <1>1, <1>2, <1>3, <1>4 DEF PluginTypes
<1>6. JobFits'
  BY <1>1, <1>2, <1>3 DEF PluginsInv, JobFits, Source
<1>7. \A p \in PluginIds : plugin_records'[p] = IF p = job.id THEN version ELSE base[p]
  BY <1>1, <1>2, <1>4
<1>8. ExternalAgree'
  <2>1. ASSUME NEW p \in External, plugin_faults = 0
        PROVE  plugin_records'[p] = plugin_dirs[p]
    <3>1. p \in PluginIds /\ job.loaded[p] = plugin_records[p]
      BY <2>1, <1>1 DEF PluginsInv, ExternalAgree, PluginIds
    <3>2. CASE p = job.id
      BY <2>1, <3>1, <3>2, <1>1, <1>7 DEF PluginsInv, ExternalAgree
    <3>3. CASE p # job.id
      <4>1. plugin_records[p] = plugin_dirs[p]
        BY <2>1, <3>3 DEF PluginsInv, ExternalAgree
      <4> QED BY <4>1, <3>1, <3>3, <1>7
    <3> QED BY <3>2, <3>3
  <2> QED BY <2>1, <1>1, <1>3 DEF ExternalAgree
<1>9. BundledGrow'
  <2>1. ASSUME NEW b \in Bundled, shipped[b] # Missing
        PROVE  /\ plugin_records'[b] <= shipped[b] /\ job'.loaded[b] <= shipped[b]
               /\ Between(b, plugin_dirs[b])'
    <3>1. /\ plugin_records[b] <= shipped[b] /\ job.loaded[b] <= shipped[b]
          /\ Between(b, plugin_dirs[b]) /\ b \in PluginIds /\ shipped[b] \in Nat
      BY <2>1, <1>1, <1>2 DEF PluginsInv, BundledGrow, PluginIds, PluginTypes
    <3>2. CASE b = job.id
      <4>1. plugin_records'[b] = shipped[b] /\ plugin_dirs[b] = shipped[b]
        BY <3>1, <3>2, <1>1, <1>2, <1>7, PluginKinds DEF Source, PluginsInv, BundledGrow
      <4> QED BY <4>1, <3>1, <1>1, <1>3 DEF Between
    <3>3. CASE b # job.id
      <4>1. plugin_records'[b] = base[b]
        BY <3>1, <3>3, <1>7
      <4> QED BY <4>1, <3>1, <2>1, <1>1, <1>3 DEF Between
    <3> QED BY <3>2, <3>3
  <2>2. \A b \in Bundled : shipped'[b] = shipped[b] /\ (shipped[b] = Missing => Between(b, plugin_dirs[b])')
    BY <1>1 DEF Between
  <2> QED BY <2>1, <2>2, <1>3 DEF BundledGrow
<1>10. BundledSynced' /\ UpdateKeepsInstall' /\ EnabledIsWanted'
  BY <1>1, <1>2, <1>3 DEF PluginsInv, BundledSynced, UpdateKeepsInstall, EnabledIsWanted
<1> QED BY <1>5, <1>6, <1>8, <1>9, <1>10 DEF PluginsInv

LEMMA EnabledStateWritten ==
  ASSUME PluginsInv, write_enabled_state
  PROVE  PluginsInv'
<1>1. /\ UNCHANGED <<plugin_dirs, plugin_records, shipped, offered, plugin_faults>>
      /\ job.step = "settings" /\ Advance
      /\ \E flag \in {"unset", "on", "off"} :
           /\ enabled' = [enabled EXCEPT ![job.id] = flag]
           /\ flag = "on" => job.op \in {"install", "enable"}
      /\ wanted' = IF job.op \in {"disable", "uninstall"} THEN wanted \ {job.id} ELSE wanted
  BY DEF write_enabled_state
<1>2. /\ PluginTypes /\ job.op # "update" /\ job.id \in PluginIds
      /\ job.op \in {"install", "enable"} => job.id \in wanted
  BY <1>1, PluginJob DEF PluginsInv, JobFits
<1>3. /\ job' \in Jobs /\ job'.op = job.op /\ job'.id = job.id /\ job'.loaded = job.loaded
      /\ job'.step = "idle" /\ job'.before = job.before
  BY <1>1, <1>2, JobAdvances DEF After
<1>4. PluginTypes'
  BY <1>1, <1>2, <1>3 DEF PluginTypes
<1>5. JobFits'
  BY <1>1, <1>2, <1>3 DEF PluginsInv, JobFits
<1>6. ExternalAgree'
  BY <1>1, <1>3 DEF PluginsInv, ExternalAgree
<1>7. BundledGrow'
  BY <1>1, <1>3 DEF PluginsInv, BundledGrow, Between
<1>8. EnabledIsWanted'
  <2> SUFFICES ASSUME NEW p \in PluginIds, enabled'[p] = "on" PROVE p \in wanted'
    BY DEF EnabledIsWanted
  <2>1. CASE p = job.id
    BY <2>1, <1>1, <1>2 DEF PluginTypes
  <2>2. CASE p # job.id
    BY <2>2, <1>1, <1>2 DEF PluginTypes, PluginsInv, EnabledIsWanted
  <2> QED BY <2>1, <2>2
<1>9. BundledSynced' /\ UpdateKeepsInstall'
  BY <1>1, <1>2, <1>3 DEF BundledSynced, UpdateKeepsInstall
<1> QED BY <1>4, <1>5, <1>6, <1>7, <1>8, <1>9 DEF PluginsInv

LEMMA OperationInterrupted ==
  ASSUME PluginsInv, interrupt
  PROVE  PluginsInv'
<1>1. PICK rest \in {plugin_dirs[job.id]} \cup
                    (IF job.step = "remove" THEN {Missing, Hollow, Broken} ELSE {}) :
        plugin_dirs' = [plugin_dirs EXCEPT ![job.id] = rest]
  BY DEF interrupt
<1>2. /\ UNCHANGED <<plugin_records, enabled, shipped, offered, wanted>>
      /\ job.step # "idle" /\ plugin_faults' = plugin_faults + 1
      /\ job' = [job EXCEPT !.step = "idle", !.answer = "none"]
  BY DEF interrupt
<1>3. PluginTypes /\ job.id \in PluginIds /\ (job.step = "remove" => job.id \notin Bundled)
  BY PluginJob, <1>2, PluginKinds DEF PluginsInv, JobFits
<1>4. /\ job' \in Jobs /\ job'.op = job.op /\ job'.id = job.id /\ job'.loaded = job.loaded
      /\ job'.step = "idle" /\ job'.before = job.before /\ job'.answer = "none"
  BY <1>2, <1>3 DEF PluginTypes, Jobs, Steps
<1>5. PluginTypes' /\ plugin_faults' # 0
  BY <1>1, <1>2, <1>3, <1>4, PluginKinds DEF PluginTypes
<1>6. JobFits'
  BY <1>2, <1>4 DEF PluginsInv, JobFits
<1>7. ExternalAgree'
  BY <1>5 DEF ExternalAgree
<1>8. BundledGrow'
  <2>1. ASSUME NEW b \in Bundled
        PROVE  plugin_dirs'[b] = plugin_dirs[b]
    BY <1>1, <1>3 DEF PluginTypes, PluginIds
  <2> QED BY <2>1, <1>2, <1>4 DEF PluginsInv, BundledGrow, Between
<1>9. BundledSynced' /\ UpdateKeepsInstall' /\ EnabledIsWanted'
  BY <1>2, <1>4 DEF PluginsInv, BundledSynced, UpdateKeepsInstall, EnabledIsWanted
<1> QED BY <1>5, <1>6, <1>7, <1>8, <1>9 DEF PluginsInv

LEMMA BuildUpgraded ==
  ASSUME PluginsInv, NEW b \in Bundled, NEW v \in 0..MaxVersion, upgrade(b, v)
  PROVE  PluginsInv'
<1>1. /\ UNCHANGED <<plugin_dirs, plugin_records, enabled, offered, job, wanted, plugin_faults>>
      /\ job.step = "idle" /\ shipped[b] # Missing /\ (v > shipped[b] \/ v = Missing)
      /\ shipped' = [shipped EXCEPT ![b] = v]
  BY DEF upgrade
<1>2. PluginTypes'
  BY <1>1 DEF PluginsInv, PluginTypes
<1>3. JobFits' /\ ExternalAgree' /\ BundledSynced' /\ UpdateKeepsInstall' /\ EnabledIsWanted'
  BY <1>1 DEF PluginsInv, JobFits, ExternalAgree, BundledSynced, UpdateKeepsInstall, EnabledIsWanted
<1>4. BundledGrow'
  <2>1. ASSUME NEW c \in Bundled, shipped'[c] # Missing
        PROVE  /\ shipped[c] # Missing /\ shipped[c] <= shipped'[c]
               /\ shipped[c] \in Nat /\ shipped'[c] \in Nat
    BY <2>1, <1>1 DEF PluginsInv, PluginTypes
  <2>2. ASSUME NEW c \in Bundled, shipped'[c] # Missing
        PROVE  Between(c, plugin_dirs[c])' /\ plugin_records'[c] <= shipped'[c]
    <3>1. plugin_records[c] <= shipped[c] /\ Between(c, plugin_dirs[c])
      BY <2>1, <2>2 DEF PluginsInv, BundledGrow
    <3>2. plugin_records[c] \in Nat /\ plugin_dirs[c] \in Nat
      BY PluginKinds DEF PluginsInv, PluginTypes, PluginIds
    <3> QED BY <3>1, <3>2, <2>1, <2>2, <1>1 DEF Between
  <2>3. \A c \in Bundled : shipped'[c] = Missing => Between(c, plugin_dirs[c])'
    BY DEF Between
  <2> QED BY <2>2, <2>3, <1>1 DEF BundledGrow
<1> QED BY <1>2, <1>3, <1>4 DEF PluginsInv

LEMMA SourcePublished ==
  ASSUME PluginsInv, NEW p \in External, NEW v \in (1..MaxVersion) \cup {Broken}, publish(p, v)
  PROVE  PluginsInv'
<1>1. /\ UNCHANGED <<plugin_dirs, plugin_records, enabled, shipped, job, wanted, plugin_faults>>
      /\ job.step = "idle" /\ offered' = [offered EXCEPT ![p] = v]
  BY DEF publish
<1>2. PluginTypes'
  BY <1>1 DEF PluginsInv, PluginTypes
<1> QED BY <1>1, <1>2 DEF PluginsInv, JobFits, ExternalAgree, BundledGrow, Between, BundledSynced,
                         UpdateKeepsInstall, EnabledIsWanted

LEMMA PluginsStart == PluginsInit => PluginsInv
<1> SUFFICES ASSUME PluginsInit PROVE PluginsInv
  OBVIOUS
<1>1. PluginTypes
  <2>1. (CHOOSE p \in PluginIds : TRUE) \in PluginIds
    BY PluginsAssumption DEF PluginIds
  <2> QED BY <2>1, PluginKinds, PluginsAssumption
          DEF PluginsInit, PluginTypes, Jobs, Ops, Steps, Missing, Contents, Broken
<1>2. JobFits /\ BundledSynced
  BY DEF PluginsInit, JobFits, BundledSynced
<1>3. ExternalAgree
  BY DEF PluginsInit, ExternalAgree, PluginIds
<1>4. BundledGrow
  BY PluginKinds DEF PluginsInit, BundledGrow, Between, PluginIds, Missing
<1>5. UpdateKeepsInstall /\ EnabledIsWanted
  BY DEF PluginsInit, UpdateKeepsInstall, EnabledIsWanted
<1> QED BY <1>1, <1>2, <1>3, <1>4, <1>5 DEF PluginsInv

LEMMA PluginsMove == PluginsInv /\ PluginsNext => PluginsInv'
BY OperationBegins, SyncBegins, BundledCopied, SyncEnds, PluginsDiscovered, Retired, Swapped,
   SwapFails, DirectoryRemoved, RegistryStored, EnabledStateWritten, OperationInterrupted,
   BuildUpgraded, SourcePublished
DEF PluginsNext

LEMMA PluginsRest == PluginsInv /\ UNCHANGED pluginVars => PluginsInv'
BY DEF pluginVars, PluginsInv, PluginTypes, JobFits, ExternalAgree, BundledGrow, Between,
       BundledSynced, Source, UpdateKeepsInstall, EnabledIsWanted

LEMMA PluginsHold ==
  PluginsInv => PluginsTypeOK /\ RegistryAgrees /\ BundledCurrent /\ UpdateKeepsInstall /\ EnabledIsWanted
<1> SUFFICES ASSUME PluginsInv
             PROVE  PluginsTypeOK /\ RegistryAgrees /\ BundledCurrent
  BY DEF PluginsInv
<1>1. PluginsTypeOK
  BY PluginJob DEF PluginsInv, PluginTypes, PluginsTypeOK
<1>2. RegistryAgrees
  BY DEF PluginsInv, ExternalAgree, RegistryAgrees
<1>3. BundledCurrent
  BY DEF PluginsInv, BundledSynced, BundledCurrent
<1> QED BY <1>1, <1>2, <1>3
-----------------------------------------------------------------------------
(***************************************************************************)
(* Plugin manifests: the lifecycle commands of the plugins that were       *)
(* accepted, in order and in reverse.                                      *)
(***************************************************************************)

(* Every manifest that got past the load has no errors; the lifecycle      *)
(* commands ran are the first k of the starts and then, in reverse, some   *)
(* of the shutdowns.                                                       *)
Lifecycle ==
  \E k, j \in 0..2 :
    /\ j > 0 => k = 2
    /\ Len(ran) = k + j
    /\ \A i \in 1..k : ran[i] = <<"init", i>>
    /\ \A i \in 1..j : ran[k + i] = <<"shutdown", 3 - i>>

ManifestInv ==
  /\ candidates \in Seq(RawManifests) /\ Len(candidates) = 2
  /\ ran \in Seq({"init", "shutdown"} \X Nat)
  /\ phase \in {"loaded", "ready", "unusable", "stopping"} =>
       \A i \in DOMAIN candidates : build_plugin_manifest(candidates[i]) = {}
  /\ AcceptedIsUsable /\ ReadyIsContained /\ Lifecycle

(* The tools and commands of a manifest without errors have distinct names *)
(* and lead to a file of the plugin, or name a program.                    *)
LEMMA SoundEntry ==
  ASSUME NEW e, validate_command_entry(e) = {}
  PROVE  e \in {"bare", "inside"}
BY DEF validate_command_entry, is_literal_command, validate_manifest_command_path

LEMMA SoundManifest ==
  ASSUME NEW m \in RawManifests, build_plugin_manifest(m) = {}
  PROVE  /\ \A e \in Range(m.hooks) \cup Range(ToolEntries(m)) : e \in {"bare", "inside"}
         /\ validate(m)
         /\ \A x, y \in DOMAIN m.tools : m.tools[x].name = m.tools[y].name => x = y
<1>1. m.hooks \in Seq(Entries) /\ m.tools \in Seq(ManifestTools)
  BY ManifestsAssumption
<1>2. validate_command_entries(m.hooks) = {} /\ build_manifest_tools(m.tools) = {}
  BY DEF build_plugin_manifest
<1>3. ASSUME NEW e \in Range(m.hooks)
      PROVE  e \in {"bare", "inside"}
  <2>1. PICK i \in DOMAIN m.hooks : e = m.hooks[i]
    BY DEF Range
  <2>2. validate_command_entry(m.hooks[i]) = {}
    BY <1>2 DEF validate_command_entries
  <2> QED BY <2>1, <2>2, SoundEntry
<1>4. ASSUME NEW i \in DOMAIN m.tools
      PROVE  ~Duplicate(m.tools, i) /\ validate_command_entry(m.tools[i].command) = {}
  <2> DEFINE of == CASE m.tools[i].name = "" -> {"empty"}
                     [] Duplicate(m.tools, i) -> {"duplicate"}
                     [] OTHER -> validate_command_entry(m.tools[i].command)
                                 \cup (IF m.tools[i].schema THEN {} ELSE {"schema"})
                                 \cup (IF m.tools[i].permission THEN {} ELSE {"permission"})
  <2>1. of \subseteq build_manifest_tools(m.tools)
    BY DEF build_manifest_tools
  <2>2. of = {}
    BY <2>1, <1>2
  <2>3. m.tools[i].name # "" /\ ~Duplicate(m.tools, i)
    BY <2>2
  <2> QED BY <2>2, <2>3
<1>5. ASSUME NEW e \in Range(ToolEntries(m))
      PROVE  e \in {"bare", "inside"}
  <2>1. PICK i \in DOMAIN m.tools : e = m.tools[i].command
    BY DEF Range, ToolEntries
  <2> QED BY <2>1, <1>4, SoundEntry
<1>6. validate(m)
  BY <1>3, <1>5 DEF validate, validate_resolved_command_path, resolve_hook_entry, is_literal_command
<1>7. ASSUME NEW x \in DOMAIN m.tools, NEW y \in DOMAIN m.tools, m.tools[x].name = m.tools[y].name
      PROVE  x = y
  BY <1>1, <1>4, <1>7 DEF Duplicate
<1> QED BY <1>3, <1>5, <1>6, <1>7

(* How many of each kind ran.                                              *)
LEMMA LifecycleCounts ==
  ASSUME ran \in Seq({"init", "shutdown"} \X Nat), NEW k \in 0..2, NEW j \in 0..2,
         Len(ran) = k + j, \A i \in 1..k : ran[i] = <<"init", i>>,
         \A i \in 1..j : ran[k + i] = <<"shutdown", 3 - i>>
  PROVE  Ran("init") = k /\ Ran("shutdown") = j
<1>1. ASSUME NEW i \in (k + 1)..(k + j) PROVE ran[i] = <<"shutdown", 3 - (i - k)>>
  <2>1. i - k \in 1..j /\ k + (i - k) = i
    OBVIOUS
  <2> QED BY <2>1
<1>a. /\ \A i \in 1..k : ran[i][1] = "init"
      /\ \A i \in (k + 1)..(k + j) : ran[i][1] = "shutdown"
  BY <1>1
<1>b. DOMAIN ran = 1..k \cup (k + 1)..(k + j)
  OBVIOUS
<1>2. {i \in DOMAIN ran : ran[i][1] = "init"} = 1..k
  BY <1>a, <1>b
<1>3. {i \in DOMAIN ran : ran[i][1] = "shutdown"} = (k + 1)..(k + j)
  BY <1>a, <1>b
<1>4. Cardinality(1..k) = k /\ Cardinality((k + 1)..(k + j)) = j
  <2>1. k \in Int /\ j \in Int /\ 1 \in Int /\ k + 1 \in Int /\ k + j \in Int
    OBVIOUS
  <2>2. Cardinality(1..k) = IF 1 > k THEN 0 ELSE k - 1 + 1
    BY <2>1, FS_Interval
  <2>3. Cardinality((k + 1)..(k + j)) = IF k + 1 > k + j THEN 0 ELSE k + j - (k + 1) + 1
    BY <2>1, FS_Interval
  <2> QED BY <2>2, <2>3
<1> QED BY <1>2, <1>3, <1>4 DEF Ran

LEMMA ManifestsLoaded ==
  ASSUME ManifestInv, load_plugin_definition
  PROVE  ManifestInv'
<1>1. /\ UNCHANGED <<candidates, ran>> /\ phase' \in {"loaded", "rejected"}
      /\ phase' = "loaded" => \A i \in DOMAIN candidates : build_plugin_manifest(candidates[i]) = {}
  BY DEF load_plugin_definition
<1>2. Lifecycle'
  BY <1>1 DEF ManifestInv, Lifecycle
<1>3. AcceptedIsUsable' /\ ReadyIsContained'
  BY <1>1 DEF AcceptedIsUsable, ReadyIsContained
<1> QED BY <1>1, <1>2, <1>3 DEF ManifestInv

LEMMA ToolsAggregated ==
  ASSUME ManifestInv, aggregated_tools
  PROVE  ManifestInv'
<1>1. /\ phase = "loaded" /\ UNCHANGED <<candidates, ran>>
      /\ phase' = IF (\A i \in DOMAIN candidates : validate(candidates[i])) /\ ~clash(candidates)
                  THEN "ready" ELSE "unusable"
  BY DEF aggregated_tools
<1>2. \A i \in DOMAIN candidates : candidates[i] \in RawManifests /\ build_plugin_manifest(candidates[i]) = {}
  BY <1>1 DEF ManifestInv
<1>3. ASSUME NEW i \in DOMAIN candidates
      PROVE  /\ \A e \in Range(candidates[i].hooks) \cup Range(ToolEntries(candidates[i])) : e \in {"bare", "inside"}
             /\ validate(candidates[i])
             /\ \A x, y \in DOMAIN candidates[i].tools :
                  candidates[i].tools[x].name = candidates[i].tools[y].name => x = y
  BY <1>2, SoundManifest
<1>4. CASE clash(candidates)
  <2>1. phase' = "unusable"
    BY <1>1, <1>4
  <2>2. PICK i \in DOMAIN candidates, j \in DOMAIN candidates : i < j /\
          \E x \in DOMAIN candidates[i].tools, y \in DOMAIN candidates[j].tools :
            candidates[i].tools[x].name = candidates[j].tools[y].name
    BY <1>4 DEF clash
  <2>3. i # j /\ \E x \in Range(candidates[i].tools), y \in Range(candidates[j].tools) : x.name = y.name
    BY <2>2 DEF ManifestInv, Range
  <2>4. AcceptedIsUsable' /\ ReadyIsContained'
    BY <2>1, <2>3, <1>1 DEF AcceptedIsUsable, ReadyIsContained
  <2> QED BY <2>4, <1>1, <1>2 DEF ManifestInv, Lifecycle
<1>5. CASE ~clash(candidates)
  <2>1. phase' = "ready"
    BY <1>1, <1>3, <1>5
  <2>2. ASSUME NEW i \in DOMAIN candidates, NEW j \in DOMAIN candidates,
               NEW x \in DOMAIN candidates[i].tools, NEW y \in DOMAIN candidates[j].tools,
               candidates[i].tools[x].name = candidates[j].tools[y].name
        PROVE  i = j
    BY <2>2, <1>5 DEF clash, ManifestInv
  <2>3. ReadyIsContained'
    BY <2>1, <2>2, <1>1, <1>3 DEF ReadyIsContained
  <2>4. AcceptedIsUsable'
    BY <2>1 DEF AcceptedIsUsable
  <2> QED BY <2>1, <2>3, <2>4, <1>1, <1>2 DEF ManifestInv, Lifecycle
<1> QED BY <1>4, <1>5

LEMMA PluginInitialized ==
  ASSUME ManifestInv, initialize
  PROVE  ManifestInv'
<1>1. /\ phase = "ready" /\ Ran("init") < 2 /\ ran' = Append(ran, <<"init", Ran("init") + 1>>)
      /\ phase' \in {"ready", "failed"} /\ candidates' = candidates
      /\ ran \in Seq({"init", "shutdown"} \X Nat)
  BY DEF initialize, ManifestInv
<1>2. PICK k \in 0..2, j \in 0..2 :
        /\ j > 0 => k = 2
        /\ Len(ran) = k + j
        /\ \A i \in 1..k : ran[i] = <<"init", i>>
        /\ \A i \in 1..j : ran[k + i] = <<"shutdown", 3 - i>>
  BY DEF ManifestInv, Lifecycle
<1>3. Ran("init") = k
  BY <1>1, <1>2, LifecycleCounts
<1>4. j = 0 /\ k + 1 \in 0..2 /\ ran' = Append(ran, <<"init", k + 1>>)
  BY <1>1, <1>2, <1>3
<1>5. ran' \in Seq({"init", "shutdown"} \X Nat) /\ Len(ran') = k + 1
      /\ \A i \in 1..(k + 1) : ran'[i] = <<"init", i>>
  BY <1>1, <1>2, <1>4
<1>6. Lifecycle'
  BY <1>4, <1>5 DEF Lifecycle
<1> QED BY <1>1, <1>5, <1>6 DEF ManifestInv, AcceptedIsUsable, ReadyIsContained

LEMMA PluginShutDown ==
  ASSUME ManifestInv, shutdown_plugins
  PROVE  ManifestInv'
<1>1. /\ phase \in {"ready", "stopping"} /\ Ran("init") = 2 /\ Ran("shutdown") < 2
      /\ ran' = Append(ran, <<"shutdown", 2 - Ran("shutdown")>>)
      /\ phase' \in {"stopping", "failed"} /\ candidates' = candidates
      /\ ran \in Seq({"init", "shutdown"} \X Nat)
  BY DEF shutdown_plugins, ManifestInv
<1>2. PICK k \in 0..2, j \in 0..2 :
        /\ j > 0 => k = 2
        /\ Len(ran) = k + j
        /\ \A i \in 1..k : ran[i] = <<"init", i>>
        /\ \A i \in 1..j : ran[k + i] = <<"shutdown", 3 - i>>
  BY DEF ManifestInv, Lifecycle
<1>3. Ran("init") = k /\ Ran("shutdown") = j
  BY <1>1, <1>2, LifecycleCounts
<1>4. k = 2 /\ j + 1 \in 0..2 /\ ran' = Append(ran, <<"shutdown", 3 - (j + 1)>>) /\ 3 - (j + 1) \in Nat
  BY <1>1, <1>3
<1>5. ran' \in Seq({"init", "shutdown"} \X Nat) /\ Len(ran') = k + (j + 1)
      /\ (\A i \in 1..k : ran'[i] = <<"init", i>>)
      /\ \A i \in 1..(j + 1) : ran'[k + i] = <<"shutdown", 3 - i>>
  BY <1>1, <1>2, <1>4
<1>6. Lifecycle'
  BY <1>4, <1>5 DEF Lifecycle
<1> QED BY <1>1, <1>5, <1>6 DEF ManifestInv, AcceptedIsUsable, ReadyIsContained

LEMMA ManifestStart == ManifestInit => ManifestInv
<1> SUFFICES ASSUME ManifestInit PROVE ManifestInv
  OBVIOUS
<1>1. ran = <<>> /\ phase = "new" /\ candidates \in Seq(RawManifests) /\ Len(candidates) = 2
  <2>1. PICK a \in RawManifests, b \in RawManifests : candidates = <<a, b>>
    BY DEF ManifestInit
  <2> QED BY <2>1 DEF ManifestInit
<1>2. Lifecycle
  <2>1. 0 \in 0..2 /\ Len(ran) = 0 + 0 /\ 1..0 = {}
    BY <1>1
  <2> QED BY <2>1 DEF Lifecycle
<1> QED BY <1>1, <1>2 DEF ManifestInv, AcceptedIsUsable, ReadyIsContained

LEMMA ManifestMoves == ManifestInv /\ ManifestNext => ManifestInv'
BY ManifestsLoaded, ToolsAggregated, PluginInitialized, PluginShutDown DEF ManifestNext

LEMMA ManifestRests == ManifestInv /\ UNCHANGED manifestVars => ManifestInv'
<1> SUFFICES ASSUME ManifestInv, UNCHANGED manifestVars PROVE ManifestInv'
  OBVIOUS
<1>1. UNCHANGED <<candidates, phase, ran>>
  BY DEF manifestVars
<1>2. Lifecycle'
  BY <1>1 DEF ManifestInv, Lifecycle
<1>3. AcceptedIsUsable' /\ ReadyIsContained'
  BY <1>1 DEF ManifestInv, AcceptedIsUsable, ReadyIsContained
<1> QED BY <1>1, <1>2, <1>3 DEF ManifestInv

LEMMA ManifestHolds == ManifestInv => AcceptedIsUsable /\ ReadyIsContained /\ ShutdownMirrorsInit
<1> SUFFICES ASSUME ManifestInv PROVE ShutdownMirrorsInit
  BY DEF ManifestInv
<1>1. PICK k \in 0..2, j \in 0..2 :
        /\ j > 0 => k = 2
        /\ Len(ran) = k + j
        /\ \A i \in 1..k : ran[i] = <<"init", i>>
        /\ \A i \in 1..j : ran[k + i] = <<"shutdown", 3 - i>>
  BY DEF ManifestInv, Lifecycle
<1>2. ASSUME NEW i \in (k + 1)..(k + j) PROVE ran[i] = <<"shutdown", 3 - (i - k)>>
  <2>1. i - k \in 1..j /\ k + (i - k) = i
    OBVIOUS
  <2> QED BY <2>1, <1>1
<1>3. DOMAIN ran = 1..k \cup (k + 1)..(k + j)
  BY <1>1 DEF ManifestInv
<1>4. \A i \in 1..k : ran[i][1] = "init" /\ ran[i][2] = i
  BY <1>1
<1>5. \A i \in (k + 1)..(k + j) : ran[i][1] = "shutdown" /\ ran[i][2] = 3 - (i - k)
  BY <1>2
<1>6. SUFFICES ASSUME NEW h \in DOMAIN ran, NEW i \in DOMAIN ran, h < i, ran[h][1] = ran[i][1]
               PROVE  IF ran[h][1] = "init" THEN ran[h][2] < ran[i][2] ELSE ran[h][2] > ran[i][2]
  BY DEF ShutdownMirrorsInit
<1>7. CASE h \in 1..k /\ i \in 1..k
  BY <1>4, <1>6, <1>7
<1>8. CASE h \in (k + 1)..(k + j) /\ i \in (k + 1)..(k + j)
  BY <1>5, <1>6, <1>8
<1> QED BY <1>3, <1>4, <1>5, <1>6, <1>7, <1>8

(* What plugins promise (Extensions.PluginsSound), for any plugins,        *)
(* versions, manifests and interruptions: the registry names what is       *)
(* installed, bundled plugins are those of the build, an update that fails *)
(* keeps the installed version, the enabled flags are what the user asked  *)
(* for; and an accepted manifest leads to files of the plugin and is shut  *)
(* down in reverse.                                                        *)
THEOREM PluginsSafe == PartsSpec => []PluginsSound
<1>1. PartsInit => (part = "plugins" => PluginsInv)
  BY PluginsStart DEF PartsInit
<1>2. (part = "plugins" => PluginsInv) /\ [PartsNext]_partsVars => (part = "plugins" => PluginsInv)'
  BY PluginsMove, PluginsRest DEF PartsNext, partsVars
<1>3. PartsInit => (part = "manifest" => ManifestInv)
  BY ManifestStart DEF PartsInit
<1>4. (part = "manifest" => ManifestInv) /\ [PartsNext]_partsVars => (part = "manifest" => ManifestInv)'
  BY ManifestMoves, ManifestRests DEF PartsNext, partsVars
<1>5. (part = "plugins" => PluginsInv) /\ (part = "manifest" => ManifestInv) => PluginsSound
  BY PluginsHold, ManifestHolds DEF PluginsSound
<1> QED
  BY <1>1, <1>2, <1>3, <1>4, <1>5, PTL DEF PartsSpec
-----------------------------------------------------------------------------
(***************************************************************************)
(* Skills: what the commands under way hold while others may write the     *)
(* registry, and which root the lookup of a skill ends in.                 *)
(***************************************************************************)

Numbers == {0} \cup UNION {{e.version : e \in offer[s]} : offer \in Offers, s \in Skills}
SkillRecords == [version : Numbers, pinned : BOOLEAN]
WorkSteps == {"stage", "commit", "rename", "remove", "truncate", "write"}
Works == [at : WorkSteps, skill : Skills, version : Numbers, pinned : BOOLEAN,
          known : [Skills -> SkillRecords]]
Reports == [at : {"reported"}, status : {"unchanged", "refused", "pinned", "failed", "done"},
            skill : Skills, version : Numbers]
RunStates == {IdleRun} \cup Reports \cup Works

SkillTypes ==
  /\ records = Torn \/ records \in [Skills -> SkillRecords]
  /\ dirs \in [Skills -> Numbers] /\ backups \in [Skills -> Numbers]
  /\ run \in [SkillCommands -> RunStates]

(* A record is of a compatible version, unless the user named the version. *)
Fits(s, version, pinned) ==
  pinned \/ \E offer \in Offers : \E e \in offer[s] : e.version = version /\ compatible(e)
RecordFits(s, r) == r # NoRecord => Fits(s, r.version, r.pinned)
Fitting ==
  /\ \A s \in Skills : RecordFits(s, load_installed_skill_registry(records)[s])
  /\ \A c \in SkillCommands : run[c].at \in WorkSteps =>
       /\ \A s \in Skills : RecordFits(s, run[c].known[s])
       /\ run[c].version = 0 \/ Fits(run[c].skill, run[c].version, run[c].pinned)
       /\ run[c].at = "remove" => run[c].version = 0

(* Where a command that runs alone stands: what it read is still true of   *)
(* every skill, but for the directory it works on.                         *)
InStep(c) ==
  LET s == run[c].skill IN
  /\ run[c].at # "write" => load_installed_skill_registry(records) = run[c].known
  /\ \A t \in Skills \ cut : t # s => run[c].known[t].version = dirs[t]
  /\ s \notin cut =>
       /\ run[c].at \in {"stage", "commit", "remove"} => run[c].known[s].version = dirs[s]
       /\ run[c].at = "rename" => dirs[s] = 0 /\ backups[s] = run[c].known[s].version
       /\ run[c].at \in {"truncate", "write"} => dirs[s] = run[c].version
Matching == \A s \in Skills \ cut : load_installed_skill_registry(records)[s].version = dirs[s]

Alone ==
  ~overlap =>
    /\ \A c, d \in SkillCommands : run[c].at \in WorkSteps /\ run[d].at \in WorkSteps => c = d
    /\ \A c \in SkillCommands : run[c].at \in WorkSteps => InStep(c)
    /\ (\A c \in SkillCommands : run[c].at \notin WorkSteps) => Matching

SkillsInv == SkillTypes /\ Fitting /\ Alone

LEMMA RunStatesAt ==
  ASSUME NEW r \in RunStates
  PROVE  /\ r.at \in {"idle", "reported"} \cup WorkSteps
         /\ (r.at \in WorkSteps <=> r.at \notin {"idle", "reported"})
         /\ r.at \in WorkSteps => /\ r \in Works /\ r.skill \in Skills /\ r.version \in Numbers
                                  /\ r.pinned \in BOOLEAN /\ r.known \in [Skills -> SkillRecords]
BY DEF RunStates, IdleRun, Reports, Works, WorkSteps

LEMMA NothingRecorded ==
  NoRecord \in SkillRecords /\ NoRecord.version = 0 /\ 0 \in Numbers
BY DEF NoRecord, SkillRecords, Numbers

LEMMA RegistryRead ==
  /\ \A file : file = Torn \/ file \in [Skills -> SkillRecords]
       => load_installed_skill_registry(file) \in [Skills -> SkillRecords]
  /\ \A s \in Skills : load_installed_skill_registry(Torn)[s] = NoRecord
  /\ \A file \in [Skills -> SkillRecords] : \A s \in Skills : load_installed_skill_registry(file)[s] = file[s]
<1>1. \A file \in [Skills -> SkillRecords] : \A s \in Skills : load_installed_skill_registry(file)[s] = file[s]
  <2>1. SUFFICES ASSUME NEW file \in [Skills -> SkillRecords], NEW s \in Skills
                 PROVE  load_installed_skill_registry(file)[s] = file[s]
    OBVIOUS
  <2>2. file # Torn
    <3>1. DOMAIN file = Skills /\ DOMAIN Torn = {}
      BY DEF Torn
    <3> QED
      BY <3>1
  <2> QED
    BY <2>2 DEF load_installed_skill_registry
<1>2. [s \in Skills |-> NoRecord] \in [Skills -> SkillRecords]
  BY NothingRecorded
<1> QED
  BY <1>1, <1>2 DEF load_installed_skill_registry

LEMMA ReportMade ==
  ASSUME NEW status \in {"unchanged", "refused", "pinned", "failed", "done"}, NEW s \in Skills, NEW v \in Numbers
  PROVE  report(status, s, v) \in RunStates /\ report(status, s, v).at \notin WorkSteps
BY DEF report, RunStates, Reports, WorkSteps

LEMMA OneRun ==
  ASSUME SkillTypes, NEW c \in SkillCommands, NEW r \in RunStates, run' = [run EXCEPT ![c] = r]
  PROVE  /\ run' \in [SkillCommands -> RunStates] /\ run'[c] = r
         /\ \A d \in SkillCommands : d # c => run'[d] = run[d]
BY DEF SkillTypes

(* The entries a command may choose.                                       *)
LEMMA EntryChosen ==
  ASSUME NEW offer \in Offers, NEW s \in Skills, NEW asked_for, NEW e \in usable(offer, s, asked_for)
  PROVE  e.version \in Numbers /\ Fits(s, e.version, asked_for # 0)
<1>1. e \in select_registry_entry(offer, s, asked_for)
  BY DEF usable
<1>2. e \in offer[s] /\ (asked_for = 0 => compatible(e))
  BY <1>1 DEF select_registry_entry
<1>3. e.version \in {f.version : f \in offer[s]}
  BY <1>2
<1> DEFINE all == {{f.version : f \in o[t]} : o \in Offers, t \in Skills}
<1>4. {f.version : f \in offer[s]} \in all
  OBVIOUS
<1>5. e.version \in Numbers
  <2>1. Numbers = {0} \cup UNION all
    BY DEF Numbers
  <2> HIDE DEF all
  <2> QED
    BY <1>3, <1>4, <2>1
<1>6. Fits(s, e.version, asked_for # 0)
  BY <1>2 DEF Fits
<1> QED
  BY <1>5, <1>6

(* A command begins: with nothing to do, or on what it read.               *)
LEMMA Begun ==
  ASSUME SkillsInv, NEW c \in SkillCommands, Ready(c), NEW r \in RunStates, begin(c, r),
         r.at \in WorkSteps =>
           /\ r.at \in {"stage", "remove"}
           /\ r.known = load_installed_skill_registry(records)
           /\ r.version = 0 \/ Fits(r.skill, r.version, r.pinned)
           /\ r.at = "remove" => r.version = 0
  PROVE  SkillsInv'
<1>1. /\ overlap' = (overlap \/ \E d \in SkillCommands : run[d].at \notin {"idle", "reported"})
      /\ run' = [run EXCEPT ![c] = r] /\ UNCHANGED <<records, dirs, backups, cut>>
  BY DEF begin
<1>2. /\ run' \in [SkillCommands -> RunStates] /\ run'[c] = r
      /\ \A d \in SkillCommands : d # c => run'[d] = run[d]
  BY <1>1, OneRun DEF SkillsInv
<1>3. SkillTypes'
  BY <1>1, <1>2 DEF SkillsInv, SkillTypes
<1>4. Fitting'
  <2>1. (\A s \in Skills : RecordFits(s, load_installed_skill_registry(records)[s]))'
    BY <1>1 DEF SkillsInv, Fitting
  <2>2. ASSUME NEW d \in SkillCommands, run'[d].at \in WorkSteps
        PROVE  /\ \A s \in Skills : RecordFits(s, run'[d].known[s])
               /\ run'[d].version = 0 \/ Fits(run'[d].skill, run'[d].version, run'[d].pinned)
               /\ run'[d].at = "remove" => run'[d].version = 0
    <3>1. CASE d = c
      BY <1>2, <2>2, <3>1 DEF SkillsInv, Fitting
    <3>2. CASE d # c
      BY <1>2, <2>2, <3>2 DEF SkillsInv, Fitting
    <3> QED
      BY <3>1, <3>2
  <2> QED
    BY <2>1, <2>2 DEF Fitting
<1>5. Alone'
  <2>1. SUFFICES ASSUME ~overlap' PROVE Alone'
    BY DEF Alone
  <2>2. ~overlap /\ \A d \in SkillCommands : run[d].at \notin WorkSteps
    BY <1>1, <2>1, RunStatesAt DEF SkillsInv, SkillTypes
  <2>3. Matching
    BY <2>2 DEF SkillsInv, Alone
  <2>4. \A d \in SkillCommands : run'[d].at \in WorkSteps => d = c
    BY <1>2, <2>2
  <2>5. run'[c].at \in WorkSteps => InStep(c)'
    BY <1>1, <1>2, <2>3, RunStatesAt DEF InStep, Matching, WorkSteps
  <2>6. Matching'
    BY <1>1, <2>3 DEF Matching
  <2> QED
    BY <2>4, <2>5, <2>6 DEF Alone
<1> QED
  BY <1>3, <1>4, <1>5 DEF SkillsInv

(* The work a command begins with.                                         *)
LEMMA WorkBegins ==
  ASSUME SkillsInv, NEW s \in Skills, NEW e, e.version \in Numbers, NEW pin \in BOOLEAN, NEW step \in WorkSteps
  PROVE  LET known == load_installed_skill_registry(records)
             r == work(step, s, e, pin, known) IN
         /\ r \in RunStates /\ r.at = step /\ r.known = known
         /\ r.version = e.version /\ r.pinned = pin /\ r.skill = s
<1> DEFINE known == load_installed_skill_registry(records)
<1>1. known \in [Skills -> SkillRecords]
  BY RegistryRead DEF SkillsInv, SkillTypes
<1> HIDE DEF known
<1>2. work(step, s, e, pin, known) \in Works
  BY <1>1 DEF work, Works
<1> QED
  BY <1>1, <1>2 DEF work, RunStates, known

LEMMA InstallBegins ==
  ASSUME SkillsInv, NEW c \in SkillCommands, NEW s \in Skills, NEW offer \in Offers, NEW asked_for,
         install_managed_skill(c, s, asked_for, offer)
  PROVE  SkillsInv'
<1> DEFINE known == load_installed_skill_registry(records)
<1>1. PICK e \in usable(offer, s, asked_for) :
        begin(c, IF known[s] = NoRecord THEN work("stage", s, e, asked_for # 0, known)
                 ELSE IF known[s].version = e.version THEN report("unchanged", s, e.version)
                 ELSE report("refused", s, 0))
  BY DEF install_managed_skill
<1>2. Ready(c) /\ e.version \in Numbers /\ Fits(s, e.version, asked_for # 0) /\ (asked_for # 0) \in BOOLEAN
  BY EntryChosen DEF install_managed_skill
<1>3. CASE known[s] = NoRecord
  <2> DEFINE pin == asked_for # 0
             r == work("stage", s, e, pin, known)
  <2>1. begin(c, r) /\ pin \in BOOLEAN /\ Fits(s, e.version, pin)
    BY <1>1, <1>2, <1>3
  <2> HIDE DEF pin
  <2>2. /\ r \in RunStates /\ r.at = "stage" /\ r.known = known
        /\ r.version = e.version /\ r.pinned = pin /\ r.skill = s
    BY <1>2, <2>1, WorkBegins DEF WorkSteps
  <2> HIDE DEF r
  <2> QED
    BY <1>2, <2>1, <2>2, Begun
<1>4. CASE known[s] # NoRecord
  <2>1. PICK r : r \in RunStates /\ r.at \notin WorkSteps /\ begin(c, r)
    BY <1>1, <1>2, <1>4, ReportMade, NothingRecorded
  <2> QED
    BY <1>2, <2>1, Begun
<1> QED
  BY <1>3, <1>4

LEMMA UpdateBegins ==
  ASSUME SkillsInv, NEW c \in SkillCommands, NEW s \in Skills, NEW offer \in Offers, NEW asked_for,
         update_managed_skill(c, s, asked_for, offer)
  PROVE  SkillsInv'
<1> DEFINE known == load_installed_skill_registry(records)
<1>1. Ready(c)
  BY DEF update_managed_skill
<1>2. known[s].version \in Numbers /\ known[s].pinned \in BOOLEAN
  <2>1. known \in [Skills -> SkillRecords]
    BY RegistryRead DEF SkillsInv, SkillTypes
  <2> HIDE DEF known
  <2> QED
    BY <2>1 DEF SkillRecords
<1>3. CASE asked_for = 0 /\ known[s].pinned
  <2>1. begin(c, report("pinned", s, known[s].version))
    BY <1>3 DEF update_managed_skill
  <2> HIDE DEF known
  <2> QED
    BY <1>1, <1>2, <2>1, ReportMade, Begun
<1>4. CASE ~(asked_for = 0 /\ known[s].pinned)
  <2>1. PICK e \in usable(offer, s, asked_for) :
          begin(c, IF known[s].version = e.version THEN report("unchanged", s, e.version)
                   ELSE work("stage", s, e, asked_for # 0 \/ known[s].pinned, known))
    BY <1>4 DEF update_managed_skill
  <2> DEFINE pin == asked_for # 0 \/ known[s].pinned
             r == work("stage", s, e, pin, known)
  <2>2. e.version \in Numbers /\ Fits(s, e.version, asked_for # 0) /\ pin \in BOOLEAN
    BY <1>2, EntryChosen
  <2>3. Fits(s, e.version, pin)
    BY <2>2 DEF Fits
  <2>4. CASE known[s].version = e.version
    <3>1. begin(c, report("unchanged", s, e.version))
      BY <2>1, <2>4
    <3> QED
      BY <1>1, <2>2, <3>1, ReportMade, Begun
  <2>5. CASE known[s].version # e.version
    <3>1. begin(c, r)
      BY <2>1, <2>5
    <3> HIDE DEF pin
    <3>2. /\ r \in RunStates /\ r.at = "stage" /\ r.known = known
          /\ r.version = e.version /\ r.pinned = pin /\ r.skill = s
      BY <2>2, WorkBegins DEF WorkSteps
    <3> HIDE DEF r
    <3> QED
      BY <1>1, <2>3, <3>1, <3>2, Begun
  <2> QED
    BY <2>4, <2>5
<1> QED
  BY <1>3, <1>4

LEMMA UninstallBegins ==
  ASSUME SkillsInv, NEW c \in SkillCommands, NEW s \in Skills, uninstall_managed_skill(c, s)
  PROVE  SkillsInv'
<1> DEFINE known == load_installed_skill_registry(records)
           e == [version |-> 0]
           pin == FALSE
           r == work("remove", s, e, pin, known)
<1>1. Ready(c) /\ begin(c, r)
  BY DEF uninstall_managed_skill
<1>2. e.version = 0 /\ pin \in BOOLEAN
  OBVIOUS
<1> HIDE DEF e, pin
<1>3. /\ r \in RunStates /\ r.at = "remove" /\ r.known = known /\ r.version = 0
  BY <1>2, WorkBegins, NothingRecorded DEF WorkSteps
<1> HIDE DEF r
<1> QED
  BY <1>1, <1>3, Begun

(* A step of the work under way: the run that makes it goes on, or ends.   *)
LEMMA WorkStep ==
  ASSUME SkillsInv, NEW c \in SkillCommands, run[c].at \in WorkSteps, NEW r \in RunStates,
         run' = [run EXCEPT ![c] = r], UNCHANGED overlap,
         r.at \in WorkSteps => r.at # "remove" /\ r.skill = run[c].skill /\ r.version = run[c].version
                                /\ r.pinned = run[c].pinned /\ r.known = run[c].known,
         records' = Torn \/ records' \in [Skills -> SkillRecords],
         dirs' \in [Skills -> Numbers], backups' \in [Skills -> Numbers],
         \A s \in Skills : RecordFits(s, load_installed_skill_registry(records')[s]),
         ~overlap => IF r.at \in WorkSteps THEN InStep(c)' ELSE Matching'
  PROVE  SkillsInv'
<1>1. /\ run' \in [SkillCommands -> RunStates] /\ run'[c] = r
      /\ \A d \in SkillCommands : d # c => run'[d] = run[d]
  BY OneRun DEF SkillsInv
<1>2. SkillTypes'
  BY <1>1 DEF SkillTypes
<1>3. Fitting'
  <2>1. ASSUME NEW d \in SkillCommands, run'[d].at \in WorkSteps
        PROVE  /\ \A s \in Skills : RecordFits(s, run'[d].known[s])
               /\ run'[d].version = 0 \/ Fits(run'[d].skill, run'[d].version, run'[d].pinned)
               /\ run'[d].at = "remove" => run'[d].version = 0
    <3>1. CASE d = c
      BY <1>1, <2>1, <3>1 DEF SkillsInv, Fitting
    <3>2. CASE d # c
      BY <1>1, <2>1, <3>2 DEF SkillsInv, Fitting
    <3> QED
      BY <3>1, <3>2
  <2>2. (\A s \in Skills : RecordFits(s, load_installed_skill_registry(records)[s]))'
    OBVIOUS
  <2> QED
    BY <2>1, <2>2 DEF Fitting
<1>4. Alone'
  <2>1. SUFFICES ASSUME ~overlap' PROVE Alone'
    BY DEF Alone
  <2>2. \A d \in SkillCommands : d # c => run'[d].at \notin WorkSteps
    BY <1>1, <2>1 DEF SkillsInv, Alone
  <2>3. CASE r.at \in WorkSteps
    <3>1. InStep(c)'
      BY <2>1, <2>3
    <3> QED
      BY <1>1, <2>2, <2>3, <3>1 DEF Alone
  <2>4. CASE r.at \notin WorkSteps
    <3>1. Matching'
      BY <2>1, <2>4
    <3> QED
      BY <1>1, <2>2, <2>4, <3>1 DEF Alone
  <2> QED
    BY <2>3, <2>4
<1> QED
  BY <1>2, <1>3, <1>4 DEF SkillsInv

LEMMA GoesOn ==
  ASSUME NEW w \in Works, NEW step \in WorkSteps
  PROVE  LET r == [w EXCEPT !.at = step] IN
         /\ r \in RunStates /\ r.at = step /\ r.skill = w.skill /\ r.version = w.version
         /\ r.pinned = w.pinned /\ r.known = w.known
<1>1. [w EXCEPT !.at = step] \in Works
  BY DEF Works
<1> QED
  BY <1>1 DEF RunStates, Works

(* The facts about a command at work.                                      *)
LEMMA AtWork ==
  ASSUME SkillsInv, NEW c \in SkillCommands, run[c].at \in WorkSteps
  PROVE  /\ run[c] \in Works /\ run[c].skill \in Skills /\ run[c].version \in Numbers
         /\ run[c].pinned \in BOOLEAN /\ run[c].known \in [Skills -> SkillRecords]
         /\ \A s \in Skills : RecordFits(s, load_installed_skill_registry(records)[s])
         /\ records = Torn \/ records \in [Skills -> SkillRecords]
         /\ dirs \in [Skills -> Numbers] /\ backups \in [Skills -> Numbers]
         /\ ~overlap => InStep(c)
<1>1. run[c] \in RunStates
  BY DEF SkillsInv, SkillTypes
<1>2. run[c] \in Works /\ run[c].skill \in Skills /\ run[c].version \in Numbers
      /\ run[c].pinned \in BOOLEAN /\ run[c].known \in [Skills -> SkillRecords]
  BY <1>1, RunStatesAt
<1> QED
  BY <1>2 DEF SkillsInv, SkillTypes, Fitting, Alone

LEMMA Staged ==
  ASSUME SkillsInv, NEW c \in SkillCommands, stage_skill_package(c)
  PROVE  SkillsInv'
<1>1. run[c].at = "stage" /\ run[c].at \in WorkSteps /\ UNCHANGED <<records, dirs, backups, overlap, cut>>
  BY DEF stage_skill_package, KeepsRest, WorkSteps
<1>2. CASE goes_on(c, "commit")
  <2> DEFINE r == [run[c] EXCEPT !.at = "commit"]
  <2>1. run' = [run EXCEPT ![c] = r]
    BY <1>2 DEF goes_on
  <2>2. /\ r \in RunStates /\ r.at = "commit" /\ r.skill = run[c].skill /\ r.version = run[c].version
        /\ r.pinned = run[c].pinned /\ r.known = run[c].known
    BY <1>1, AtWork, GoesOn DEF WorkSteps
  <2> HIDE DEF r
  <2>3. run'[c] = r
    BY <2>1, <2>2, OneRun DEF SkillsInv
  <2>4. ~overlap => InStep(c)'
    BY <1>1, <2>2, <2>3, AtWork DEF InStep
  <2>5. r.at \in WorkSteps
    BY <2>2 DEF WorkSteps
  <2> QED
    BY <1>1, <2>1, <2>2, <2>4, <2>5, AtWork, WorkStep
<1>3. CASE run' = [run EXCEPT ![c] = report("failed", run[c].skill, 0)]
  <2>1. ~overlap => Matching'
    BY <1>1, AtWork DEF InStep, Matching
  <2> QED
    BY <1>1, <1>3, <2>1, AtWork, ReportMade, NothingRecorded, WorkStep
<1> QED
  BY <1>2, <1>3 DEF stage_skill_package

(* One skill's directory changes, and the command goes on or fails.        *)
LEMMA DirectoryChanged ==
  ASSUME SkillsInv, NEW c \in SkillCommands, run[c].at \in WorkSteps, NEW v \in Numbers,
         dirs' = [dirs EXCEPT ![run[c].skill] = v]
  PROVE  /\ dirs' \in [Skills -> Numbers] /\ dirs'[run[c].skill] = v
         /\ \A t \in Skills : t # run[c].skill => dirs'[t] = dirs[t]
BY AtWork

LEMMA WorkGoesOn ==
  ASSUME SkillsInv, NEW c \in SkillCommands, run[c].at \in WorkSteps, run[c].at # "write",
         NEW step \in WorkSteps, step # "remove", goes_on(c, step), NEW v \in Numbers,
         dirs' = [dirs EXCEPT ![run[c].skill] = v], backups' \in [Skills -> Numbers],
         UNCHANGED <<overlap, cut>>,
         \/ records' = records /\ step # "write"
         \/ records' = Torn /\ step = "write",
         run[c].skill \notin cut /\ ~overlap =>
           /\ step \in {"stage", "commit", "remove"} => run[c].known[run[c].skill].version = v
           /\ step = "rename" => v = 0 /\ backups'[run[c].skill] = run[c].known[run[c].skill].version
           /\ step \in {"truncate", "write"} => v = run[c].version
  PROVE  SkillsInv'
<1> DEFINE r == [run[c] EXCEPT !.at = step]
<1>1. run' = [run EXCEPT ![c] = r]
  BY DEF goes_on
<1>2. /\ r \in RunStates /\ r.at = step /\ r.skill = run[c].skill /\ r.version = run[c].version
      /\ r.pinned = run[c].pinned /\ r.known = run[c].known
  BY AtWork, GoesOn
<1> HIDE DEF r
<1>3. run'[c] = r
  BY <1>1, <1>2, OneRun DEF SkillsInv
<1>4. /\ dirs' \in [Skills -> Numbers] /\ dirs'[run[c].skill] = v
      /\ \A t \in Skills : t # run[c].skill => dirs'[t] = dirs[t]
  BY DirectoryChanged
<1>5. ~overlap => InStep(c)'
  <2>1. SUFFICES ASSUME ~overlap PROVE InStep(c)'
    OBVIOUS
  <2>2. InStep(c) /\ run[c].skill \in Skills
    BY <2>1, AtWork
  <2>3. step # "write" => load_installed_skill_registry(records') = run[c].known
    BY <2>2 DEF InStep
  <2>4. \A t \in Skills \ cut : t # run[c].skill => run[c].known[t].version = dirs'[t]
    BY <1>4, <2>2 DEF InStep
  <2> QED
    BY <1>2, <1>3, <1>4, <2>1, <2>3, <2>4 DEF InStep
<1>6. \A s \in Skills : RecordFits(s, load_installed_skill_registry(records')[s])
  BY AtWork, RegistryRead DEF RecordFits
<1>7. records' = Torn \/ records' \in [Skills -> SkillRecords]
  BY AtWork
<1> QED
  BY <1>1, <1>2, <1>4, <1>5, <1>6, <1>7, WorkStep

LEMMA WorkFails ==
  ASSUME SkillsInv, NEW c \in SkillCommands, run[c].at \in {"stage", "commit", "rename", "remove"},
         run' = [run EXCEPT ![c] = report("failed", run[c].skill, 0)], NEW v \in Numbers,
         dirs' = [dirs EXCEPT ![run[c].skill] = v], backups' \in [Skills -> Numbers],
         UNCHANGED <<records, overlap, cut>>,
         run[c].skill \notin cut /\ ~overlap => run[c].known[run[c].skill].version = v
  PROVE  SkillsInv'
<1>1. run[c].at \in WorkSteps /\ run[c].at # "write"
  BY DEF WorkSteps
<1>2. /\ dirs' \in [Skills -> Numbers] /\ dirs'[run[c].skill] = v
      /\ \A t \in Skills : t # run[c].skill => dirs'[t] = dirs[t]
  BY <1>1, DirectoryChanged
<1>3. ~overlap => Matching'
  BY <1>1, <1>2, AtWork DEF InStep, Matching
<1>4. report("failed", run[c].skill, 0) \in RunStates /\ report("failed", run[c].skill, 0).at \notin WorkSteps
  BY <1>1, AtWork, ReportMade, NothingRecorded
<1> QED
  BY <1>1, <1>2, <1>3, <1>4, AtWork, WorkStep

LEMMA Renamed ==
  ASSUME SkillsInv, NEW c \in SkillCommands, commit_staged_skill(c)
  PROVE  SkillsInv'
<1> DEFINE s == run[c].skill
<1>1. run[c].at \in {"commit", "rename"} /\ run[c].at \in WorkSteps /\ run[c].at # "write"
      /\ UNCHANGED <<records, overlap, cut>>
  BY DEF commit_staged_skill, KeepsRest, WorkSteps
<1>2. /\ s \in Skills /\ run[c].version \in Numbers /\ dirs[s] \in Numbers /\ backups[s] \in Numbers
      /\ dirs \in [Skills -> Numbers] /\ backups \in [Skills -> Numbers] /\ 0 \in Numbers
  BY <1>1, AtWork, NothingRecorded
<1>3. s \notin cut /\ ~overlap =>
        /\ run[c].at = "commit" => run[c].known[s].version = dirs[s]
        /\ run[c].at = "rename" => dirs[s] = 0 /\ backups[s] = run[c].known[s].version
  BY <1>1, AtWork DEF InStep
<1>4. CASE run[c].at = "commit" /\ dirs[s] = 0
  BY <1>1, <1>2, <1>4, WorkGoesOn DEF commit_staged_skill, WorkSteps
<1>5. CASE run[c].at = "commit" /\ dirs[s] # 0
  <2>1. backups' = [backups EXCEPT ![s] = dirs[s]] /\ dirs' = [dirs EXCEPT ![s] = 0] /\ goes_on(c, "rename")
    BY <1>5 DEF commit_staged_skill
  <2>2. backups' \in [Skills -> Numbers] /\ backups'[s] = dirs[s]
    BY <1>2, <2>1
  <2> QED
    BY <1>1, <1>2, <1>3, <1>5, <2>1, <2>2, WorkGoesOn DEF WorkSteps
<1>6. CASE run[c].at = "rename"
  <2>1. backups' = [backups EXCEPT ![s] = 0] /\ backups' \in [Skills -> Numbers]
    BY <1>2, <1>6 DEF commit_staged_skill
  <2>2. CASE dirs' = [dirs EXCEPT ![s] = run[c].version] /\ goes_on(c, "truncate")
    BY <1>1, <1>2, <2>1, <2>2, WorkGoesOn DEF WorkSteps
  <2>3. CASE /\ dirs' = [dirs EXCEPT ![s] = IF @ = 0 THEN backups[s] ELSE @]
             /\ run' = [run EXCEPT ![c] = report("failed", s, 0)]
    <3> DEFINE v == IF dirs[s] = 0 THEN backups[s] ELSE dirs[s]
    <3>1. v \in Numbers /\ dirs' = [dirs EXCEPT ![s] = v]
      BY <1>2, <2>3
    <3>2. s \notin cut /\ ~overlap => run[c].known[s].version = v
      BY <1>3, <1>6
    <3> HIDE DEF v
    <3> QED
      BY <1>1, <2>1, <2>3, <3>1, <3>2, WorkFails
  <2> QED
    BY <1>6, <2>2, <2>3 DEF commit_staged_skill
<1> QED
  BY <1>1, <1>4, <1>5, <1>6

LEMMA SkillRemoved ==
  ASSUME SkillsInv, NEW c \in SkillCommands, remove_directory(c)
  PROVE  SkillsInv'
<1>1. /\ run[c].at = "remove" /\ run[c].at \in WorkSteps /\ UNCHANGED <<records, backups, overlap, cut>>
      /\ dirs' = [dirs EXCEPT ![run[c].skill] = 0] /\ goes_on(c, "truncate")
  BY DEF remove_directory, KeepsRest, WorkSteps
<1>2. run[c].version = 0
  BY <1>1 DEF SkillsInv, Fitting
<1>3. backups' \in [Skills -> Numbers]
  BY <1>1, AtWork
<1> QED
  BY <1>1, <1>2, <1>3, NothingRecorded, WorkGoesOn DEF WorkSteps

LEMMA RegistrySaved ==
  ASSUME SkillsInv, NEW c \in SkillCommands, save_installed_skill_registry(c)
  PROVE  SkillsInv'
<1> DEFINE s == run[c].skill
<1>1. run[c].at \in {"truncate", "write"} /\ run[c].at \in WorkSteps /\ UNCHANGED <<dirs, backups, overlap, cut>>
  BY DEF save_installed_skill_registry, KeepsRest, WorkSteps
<1>2. /\ s \in Skills /\ run[c].version \in Numbers /\ run[c].pinned \in BOOLEAN
      /\ dirs \in [Skills -> Numbers] /\ backups \in [Skills -> Numbers]
      /\ run[c].known \in [Skills -> SkillRecords]
  BY <1>1, AtWork
<1>3. CASE run[c].at = "truncate"
  <2>1. records' = Torn /\ goes_on(c, "write")
    BY <1>3 DEF save_installed_skill_registry
  <2>2. dirs' = [dirs EXCEPT ![s] = dirs[s]] /\ dirs[s] \in Numbers
    BY <1>1, <1>2
  <2>3. s \notin cut /\ ~overlap => dirs[s] = run[c].version
    BY <1>1, <1>3, AtWork DEF InStep
  <2> QED
    BY <1>1, <1>2, <1>3, <2>1, <2>2, <2>3, WorkGoesOn DEF WorkSteps
<1>4. CASE run[c].at = "write"
  <2> DEFINE v == run[c].version
             q == IF v = 0 THEN NoRecord ELSE [version |-> v, pinned |-> run[c].pinned]
  <2>1. records' = [run[c].known EXCEPT ![s] = q] /\ run' = [run EXCEPT ![c] = report("done", s, v)]
    BY <1>4 DEF save_installed_skill_registry
  <2>2. q \in SkillRecords /\ q.version = v /\ RecordFits(s, q)
    <3>1. v = 0 \/ Fits(s, v, run[c].pinned)
      BY <1>1 DEF SkillsInv, Fitting
    <3> QED
      BY <1>2, <3>1, NothingRecorded DEF SkillRecords, RecordFits
  <2> HIDE DEF q
  <2>3. /\ records' \in [Skills -> SkillRecords] /\ records'[s] = q
        /\ \A t \in Skills : t # s => records'[t] = run[c].known[t]
    BY <1>2, <2>1, <2>2
  <2>4. \A t \in Skills : load_installed_skill_registry(records')[t] = records'[t]
    BY <2>3, RegistryRead
  <2>5. \A t \in Skills : RecordFits(t, load_installed_skill_registry(records')[t])
    BY <1>1, <2>2, <2>3, <2>4 DEF SkillsInv, Fitting, RecordFits
  <2>6. ~overlap => Matching'
    <3>1. SUFFICES ASSUME ~overlap, NEW t \in Skills \ cut
                   PROVE  load_installed_skill_registry(records')[t].version = dirs[t]
      BY <1>1 DEF Matching
    <3>2. InStep(c)
      BY <1>1, <3>1, AtWork
    <3>3. CASE t = s
      BY <1>4, <2>2, <2>3, <2>4, <3>1, <3>2, <3>3 DEF InStep
    <3>4. CASE t # s
      BY <2>3, <2>4, <3>1, <3>2, <3>4 DEF InStep
    <3> QED
      BY <3>3, <3>4
  <2>7. report("done", s, v) \in RunStates /\ report("done", s, v).at \notin WorkSteps
    BY <1>2, ReportMade
  <2> QED
    BY <1>1, <1>2, <2>1, <2>3, <2>5, <2>6, <2>7, WorkStep
<1> QED
  BY <1>1, <1>3, <1>4

LEMMA Killed ==
  ASSUME SkillsInv, NEW c \in SkillCommands, kill(c)
  PROVE  SkillsInv'
<1>1. /\ run' = [run EXCEPT ![c] = IdleRun] /\ UNCHANGED <<records, dirs, backups, overlap>>
      /\ cut' = cut \cup (IF run[c].at = "write" THEN Skills ELSE {run[c].skill})
  BY DEF kill
<1>2. run[c].at \in WorkSteps
  BY RunStatesAt DEF kill, Ready, SkillsInv, SkillTypes
<1>3. IdleRun \in RunStates /\ IdleRun.at \notin WorkSteps
  BY DEF IdleRun, RunStates, WorkSteps
<1>4. ~overlap => Matching'
  BY <1>1, <1>2, AtWork DEF InStep, Matching
<1> QED
  BY <1>1, <1>2, <1>3, <1>4, AtWork, WorkStep

LEMMA SkillsMove ==
  ASSUME SkillsInv, SkillsNext
  PROVE  SkillsInv'
<1>1. PICK c \in SkillCommands :
        \/ stage_skill_package(c) \/ commit_staged_skill(c) \/ remove_directory(c)
        \/ save_installed_skill_registry(c) \/ kill(c)
        \/ \E s \in Skills :
             \/ uninstall_managed_skill(c, s)
             \/ \E offer \in Offers, asked_for \in {0} \cup Versions :
                  install_managed_skill(c, s, asked_for, offer) \/ update_managed_skill(c, s, asked_for, offer)
  BY DEF SkillsNext
<1> QED
  BY <1>1, Staged, Renamed, SkillRemoved, RegistrySaved, Killed, UninstallBegins, InstallBegins,
     UpdateBegins

LEMMA SkillsRest ==
  ASSUME SkillsInv, UNCHANGED skillVars
  PROVE  SkillsInv'
<1>1. UNCHANGED <<records, dirs, backups, run, cut, overlap>>
  BY DEF skillVars
<1>2. SkillTypes'
  BY <1>1 DEF SkillsInv, SkillTypes
<1>3. Fitting'
  BY <1>1 DEF SkillsInv, Fitting
<1>4. Alone'
  BY <1>1 DEF SkillsInv, Alone, InStep, Matching
<1> QED
  BY <1>2, <1>3, <1>4 DEF SkillsInv

LEMMA SkillsStart ==
  ASSUME SkillsInit
  PROVE  SkillsInv
<1>1. /\ records = [s \in Skills |-> NoRecord] /\ dirs = [s \in Skills |-> 0] /\ backups = [s \in Skills |-> 0]
      /\ run = [c \in SkillCommands |-> IdleRun]
  BY DEF SkillsInit
<1>2. SkillTypes
  BY <1>1, NothingRecorded DEF SkillTypes, RunStates
<1>3. \A s \in Skills : load_installed_skill_registry(records)[s] = NoRecord
  BY <1>1 DEF load_installed_skill_registry
<1>4. \A c \in SkillCommands : run[c].at \notin WorkSteps
  BY <1>1 DEF IdleRun, WorkSteps
<1>5. Fitting
  BY <1>3, <1>4 DEF Fitting, RecordFits
<1>6. Alone
  BY <1>1, <1>3, <1>4, NothingRecorded DEF Alone, Matching
<1> QED
  BY <1>2, <1>5, <1>6 DEF SkillsInv

LEMMA SkillsHold ==
  ASSUME SkillsInv
  PROVE  RecordMatchesDirectory /\ InstalledIsCompatible
<1>1. RecordMatchesDirectory
  BY RunStatesAt DEF SkillsInv, SkillTypes, Alone, Matching, Ready, RecordMatchesDirectory
<1>2. InstalledIsCompatible
  BY DEF SkillsInv, Fitting, RecordFits, Fits, InstalledIsCompatible
<1> QED
  BY <1>1, <1>2

--------------------------------------------------------------------------------
(* Which skill a name stands for.                                          *)
LookupInv ==
  /\ layout \in [Roots -> Holdings] /\ env_home \in BOOLEAN
  /\ asked.listed # "unasked" =>
       asked.listed = Listed /\ asked.used = Used /\ asked.warned = managed_skill_shadowing_warning

LEMMA LookupStart ==
  ASSUME LookupInit
  PROVE  LookupInv
<1>1. Layouts \subseteq [Roots -> Holdings]
  BY DEF Layouts, Holdings
<1> QED
  BY <1>1 DEF LookupInit, LookupInv

LEMMA LookupMoves ==
  ASSUME LookupInv, LookupNext
  PROVE  LookupInv'
<1>1. UNCHANGED <<layout, env_home>>
      /\ asked' = [listed |-> Listed, used |-> Used, warned |-> managed_skill_shadowing_warning]
  BY DEF LookupNext, execute_skill
<1>2. /\ Listed' = Listed /\ Used' = Used
      /\ managed_skill_shadowing_warning' = managed_skill_shadowing_warning
  BY <1>1 DEF Listed, Used, managed_skill_shadowing_warning, load_skills_from_roots, UserCodex,
     UserCodexCommands, discover_skill_roots, resolve_skill_path, resolve_skill_path_from_roots
<1> QED
  BY <1>1, <1>2 DEF LookupInv

LEMMA LookupRests ==
  ASSUME LookupInv, UNCHANGED lookupVars
  PROVE  LookupInv'
<1>1. UNCHANGED <<layout, env_home, asked>>
  BY DEF lookupVars
<1>2. /\ Listed' = Listed /\ Used' = Used
      /\ managed_skill_shadowing_warning' = managed_skill_shadowing_warning
  BY <1>1 DEF Listed, Used, managed_skill_shadowing_warning, load_skills_from_roots, UserCodex,
     UserCodexCommands, discover_skill_roots, resolve_skill_path, resolve_skill_path_from_roots
<1> QED
  BY <1>1, <1>2 DEF LookupInv

LEMMA FirstFound ==
  ASSUME NEW roots, NEW found \in SUBSET Nat, NEW k \in found, \A j \in found : k <= j
  PROVE  first(roots, found) = roots[k]
<1>1. \A i \in found : (\A j \in found : i <= j) => i = k
  OBVIOUS
<1> QED
  BY <1>1 DEF first

LEMMA ListingRoots ==
  LET roots == discover_skill_roots IN
  /\ DOMAIN roots = 1..8
  /\ roots[1] = "project .codex" /\ roots[2] = "project .openyak" /\ roots[3] = "project .codex commands"
  /\ roots[4] = "project .openyak commands" /\ roots[5] = UserCodex /\ roots[6] = UserCodexCommands
  /\ roots[7] = "home .openyak" /\ roots[8] = "home .openyak commands"
BY DEF discover_skill_roots

LEMMA ToolRoots ==
  LET roots == resolve_skill_path IN
  /\ 1..4 \subseteq DOMAIN roots /\ DOMAIN roots \subseteq Nat \ {0}
  /\ roots[1] = "project .codex" /\ roots[2] = "project .openyak" /\ roots[3] = "home .codex"
  /\ roots[4] = "home .openyak"
<1> DEFINE a == <<"project .codex", "project .openyak", "home .codex", "home .openyak">>
           b == IF env_home THEN <<UserCodex>> ELSE <<>>
           d == <<"agents", "opencode">>
<1>1. a \in Seq(Roots) /\ d \in Seq(Roots) /\ Len(a) = 4
  BY DEF Roots
<1>2. a[1] = "project .codex" /\ a[2] = "project .openyak" /\ a[3] = "home .codex" /\ a[4] = "home .openyak"
  OBVIOUS
<1>3. b \in Seq(Roots)
  <2>1. <<>> \in Seq(Roots)
    OBVIOUS
  <2>2. UserCodex \in Roots
    BY DEF UserCodex, Roots
  <2>3. <<UserCodex>> \in Seq(Roots)
    BY <2>2
  <2> QED
    BY <2>1, <2>3
<1>4. resolve_skill_path = (a \o b) \o d
  BY DEF resolve_skill_path
<1> HIDE DEF a, b, d
<1>5. ASSUME NEW x \in Seq(Roots), NEW y \in Seq(Roots)
      PROVE  /\ x \o y \in Seq(Roots) /\ Len(x \o y) = Len(x) + Len(y) /\ Len(x) \in Nat /\ Len(y) \in Nat
             /\ \A i \in 1..Len(x) : (x \o y)[i] = x[i]
  OBVIOUS
<1> DEFINE ab == a \o b
<1>6. ab \in Seq(Roots) /\ Len(ab) >= 4 /\ \A i \in 1..4 : ab[i] = a[i]
  <2>1. ab \in Seq(Roots) /\ Len(ab) = Len(a) + Len(b) /\ Len(b) \in Nat /\ \A i \in 1..Len(a) : ab[i] = a[i]
    BY <1>1, <1>3, <1>5
  <2> HIDE DEF ab
  <2> QED
    BY <1>1, <2>1
<1> DEFINE all == ab \o d
<1>7. all = resolve_skill_path
  BY <1>4
<1> HIDE DEF ab
<1>8. all \in Seq(Roots) /\ Len(all) >= 4 /\ \A i \in 1..4 : all[i] = a[i]
  <2>1. all \in Seq(Roots) /\ Len(all) = Len(ab) + Len(d) /\ Len(ab) \in Nat /\ Len(d) \in Nat
        /\ \A i \in 1..Len(ab) : all[i] = ab[i]
    BY <1>1, <1>5, <1>6
  <2> HIDE DEF all
  <2> QED
    BY <1>6, <2>1
<1> HIDE DEF all
<1>9. 1..4 \subseteq DOMAIN all /\ DOMAIN all \subseteq Nat \ {0}
  BY <1>8
<1>a. all[1] = a[1] /\ all[2] = a[2] /\ all[3] = a[3] /\ all[4] = a[4]
  BY <1>8
<1>10. all[1] = "project .codex" /\ all[2] = "project .openyak" /\ all[3] = "home .codex"
       /\ all[4] = "home .openyak"
  BY <1>2, <1>a
<1> QED
  BY <1>7, <1>9, <1>10

(* The first of a list of directories that holds something of a kind.      *)
LEMMA FirstHeld ==
  ASSUME NEW roots, NEW held, DOMAIN roots \subseteq Nat, NEW k \in DOMAIN roots,
         layout[roots[k]] \in held, \A j \in DOMAIN roots : j < k => layout[roots[j]] \notin held
  PROVE  first(roots, {i \in DOMAIN roots : layout[roots[i]] \in held}) = roots[k]
<1> DEFINE found == {i \in DOMAIN roots : layout[roots[i]] \in held}
<1>1. found \in SUBSET Nat /\ k \in found
  OBVIOUS
<1>2. \A j \in found : k <= j
  OBVIOUS
<1> HIDE DEF found
<1>3. first(roots, found) = roots[k]
  BY <1>1, <1>2, FirstFound
<1> QED
  BY <1>3 DEF found

LEMMA FirstOfListing ==
  ASSUME NEW held
  PROVE  LET f == first(discover_skill_roots, {i \in DOMAIN discover_skill_roots : layout[discover_skill_roots[i]] \in held})
             p == layout["project .codex"] \in held
             q == layout["project .openyak"] \in held
             pc == layout["project .codex commands"] \in held
             qc == layout["project .openyak commands"] \in held IN
         /\ p => f = "project .codex"
         /\ ~p /\ q => f = "project .openyak"
         /\ ~p /\ ~q /\ pc => f = "project .codex commands"
         /\ ~p /\ ~q /\ ~pc /\ qc => f = "project .openyak commands"
         /\ ~p /\ ~q /\ ~pc /\ ~qc /\ layout[UserCodex] \in held => f = UserCodex
         /\ ~p /\ ~q /\ ~pc /\ ~qc /\ layout[UserCodex] \notin held /\ layout[UserCodexCommands] \in held
              => f = UserCodexCommands
         /\ ~p /\ ~q /\ ~pc /\ ~qc /\ layout[UserCodex] \notin held /\ layout[UserCodexCommands] \notin held
              /\ layout["home .openyak"] \in held => f = "home .openyak"
<1> PICK roots : roots = discover_skill_roots
  OBVIOUS
<1>1. /\ DOMAIN roots = 1..8
      /\ roots[1] = "project .codex" /\ roots[2] = "project .openyak" /\ roots[3] = "project .codex commands"
      /\ roots[4] = "project .openyak commands" /\ roots[5] = UserCodex /\ roots[6] = UserCodexCommands
      /\ roots[7] = "home .openyak" /\ roots[8] = "home .openyak commands"
  BY ListingRoots
<1> DEFINE f == first(roots, {i \in DOMAIN roots : layout[roots[i]] \in held})
           H(k) == layout[roots[k]] \in held
<1>2. ASSUME NEW k \in 1..8, H(k), \A j \in 1..8 : j < k => ~H(j)
      PROVE  f = roots[k]
  <2>a. DOMAIN roots = 1..8
    BY <1>1
  <2>1. DOMAIN roots \subseteq Nat /\ k \in DOMAIN roots
    BY <2>a
  <2>2. \A j \in DOMAIN roots : j < k => layout[roots[j]] \notin held
    BY <1>1, <1>2
  <2> QED
    BY <1>2, <2>1, <2>2, FirstHeld
<1> HIDE DEF f, H
<1>3. H(1) => f = roots[1]
  BY <1>2
<1>4. ~H(1) /\ H(2) => f = roots[2]
  BY <1>2, \A j \in 1..8 : j < 2 => j = 1
<1>5. ~H(1) /\ ~H(2) /\ H(3) => f = roots[3]
  BY <1>2, \A j \in 1..8 : j < 3 => j = 1 \/ j = 2
<1>6. ~H(1) /\ ~H(2) /\ ~H(3) /\ H(4) => f = roots[4]
  BY <1>2, \A j \in 1..8 : j < 4 => j = 1 \/ j = 2 \/ j = 3
<1>7. ~H(1) /\ ~H(2) /\ ~H(3) /\ ~H(4) /\ H(5) => f = roots[5]
  BY <1>2, \A j \in 1..8 : j < 5 => j = 1 \/ j = 2 \/ j = 3 \/ j = 4
<1>8. ~H(1) /\ ~H(2) /\ ~H(3) /\ ~H(4) /\ ~H(5) /\ H(6) => f = roots[6]
  BY <1>2, \A j \in 1..8 : j < 6 => j = 1 \/ j = 2 \/ j = 3 \/ j = 4 \/ j = 5
<1>9. ~H(1) /\ ~H(2) /\ ~H(3) /\ ~H(4) /\ ~H(5) /\ ~H(6) /\ H(7) => f = roots[7]
  BY <1>2, \A j \in 1..8 : j < 7 => j = 1 \/ j = 2 \/ j = 3 \/ j = 4 \/ j = 5 \/ j = 6
<1>10. /\ H(1) <=> layout["project .codex"] \in held
       /\ H(2) <=> layout["project .openyak"] \in held
       /\ H(3) <=> layout["project .codex commands"] \in held
       /\ H(4) <=> layout["project .openyak commands"] \in held
       /\ H(5) <=> layout[UserCodex] \in held
       /\ H(6) <=> layout[UserCodexCommands] \in held
       /\ H(7) <=> layout["home .openyak"] \in held
  BY <1>1 DEF H
<1>11. f = first(discover_skill_roots, {i \in DOMAIN discover_skill_roots : layout[discover_skill_roots[i]] \in held})
  BY DEF f
<1> QED
  BY <1>1, <1>3, <1>4, <1>5, <1>6, <1>7, <1>8, <1>9, <1>10, <1>11

LEMMA FirstOfTool ==
  LET d == {"plain", "dir"} IN
  /\ layout["project .codex"] \in d => Used = "project .codex"
  /\ layout["project .codex"] \notin d /\ layout["project .openyak"] \in d => Used = "project .openyak"
  /\ layout["project .codex"] \notin d /\ layout["project .openyak"] \notin d /\ layout["home .codex"] \in d
       => Used = "home .codex"
  /\ layout["project .codex"] \notin d /\ layout["project .openyak"] \notin d /\ layout["home .codex"] \notin d
       /\ layout["home .openyak"] \in d => Used = "home .openyak"
<1> PICK roots : roots = resolve_skill_path
  OBVIOUS
<1> DEFINE held == {"plain", "dir"}
<1>1. /\ 1..4 \subseteq DOMAIN roots /\ DOMAIN roots \subseteq Nat \ {0}
      /\ roots[1] = "project .codex" /\ roots[2] = "project .openyak" /\ roots[3] = "home .codex"
      /\ roots[4] = "home .openyak"
  BY ToolRoots
<1>2. Used = first(roots, {i \in DOMAIN roots : layout[roots[i]] \in held})
  BY DEF Used, resolve_skill_path_from_roots
<1> HIDE DEF held
<1> DEFINE H(k) == layout[roots[k]] \in held
<1>3. ASSUME NEW k \in 1..4, H(k), \A j \in 1..4 : j < k => ~H(j)
      PROVE  Used = roots[k]
  <2>1. k \in DOMAIN roots /\ DOMAIN roots \subseteq Nat
    BY <1>1
  <2>2. \A j \in DOMAIN roots : j < k => layout[roots[j]] \notin held
    <3>1. \A j \in DOMAIN roots : j < k => j \in 1..4
      <4>1. \A j \in Nat \ {0} : j < k => j \in 1..4
        OBVIOUS
      <4> QED
        BY <1>1, <4>1
    <3> HIDE DEF held
    <3> QED
      BY <1>3, <3>1
  <2> QED
    BY <1>2, <1>3, <2>1, <2>2, FirstHeld
<1> HIDE DEF H
<1>4. H(1) => Used = roots[1]
  BY <1>3
<1>5. ~H(1) /\ H(2) => Used = roots[2]
  BY <1>3, \A j \in 1..4 : j < 2 => j = 1
<1>6. ~H(1) /\ ~H(2) /\ H(3) => Used = roots[3]
  BY <1>3, \A j \in 1..4 : j < 3 => j = 1 \/ j = 2
<1>7. ~H(1) /\ ~H(2) /\ ~H(3) /\ H(4) => Used = roots[4]
  BY <1>3, \A j \in 1..4 : j < 4 => j = 1 \/ j = 2 \/ j = 3
<1>8. /\ H(1) <=> layout["project .codex"] \in held
      /\ H(2) <=> layout["project .openyak"] \in held
      /\ H(3) <=> layout["home .codex"] \in held
      /\ H(4) <=> layout["home .openyak"] \in held
  BY <1>1 DEF H
<1> QED
  BY <1>1, <1>4, <1>5, <1>6, <1>7, <1>8 DEF held

(* The directories of the skills come in the same order in both lists, but *)
(* for the one that $CODEX_HOME names.                                     *)
LEMMA ListingUsed ==
  ASSUME LookupInv
  PROVE  ListedIsUsed
<1>1. SUFFICES ASSUME asked.listed # "unasked", asked.listed # "none",
                      \A r \in Roots : layout[r] \notin {"dir", "title"},
                      \A r \in Legacy : layout[r] = "none", ~env_home
               PROVE  asked.listed = asked.used
  BY DEF ListedIsUsed
<1> DEFINE roots == discover_skill_roots
           held == {"plain", "title"}
           found == {i \in DOMAIN roots : layout[roots[i]] \in held}
<1>2. asked.listed = first(roots, found) /\ asked.used = Used /\ Listed = first(roots, found)
  BY <1>1 DEF LookupInv, Listed, load_skills_from_roots
<1>3. UserCodex = "home .codex" /\ UserCodexCommands = "home .codex commands"
  BY <1>1 DEF UserCodex, UserCodexCommands
<1>4. \A r \in Roots : layout[r] \in {"none", "plain"}
  BY <1>1 DEF LookupInv, Holdings
<1>5. /\ layout["project .codex commands"] = "none" /\ layout["project .openyak commands"] = "none"
      /\ layout["home .codex commands"] = "none" /\ layout["home .openyak commands"] = "none"
  BY <1>1 DEF Legacy, Roots
<1>6. /\ layout["project .codex"] \in {"none", "plain"} /\ layout["project .openyak"] \in {"none", "plain"}
      /\ layout["home .codex"] \in {"none", "plain"} /\ layout["home .openyak"] \in {"none", "plain"}
  BY <1>4 DEF Roots
<1>7. found # {}
  BY <1>1, <1>2 DEF first
<1>8. PICK i \in 1..8 : layout[roots[i]] \in held
  BY <1>7, ListingRoots
<1> HIDE DEF roots, found
<1>9. \/ layout["project .codex"] \in held \/ layout["project .openyak"] \in held
      \/ layout["home .codex"] \in held \/ layout["home .openyak"] \in held
  <2>1. i = 1 \/ i = 2 \/ i = 3 \/ i = 4 \/ i = 5 \/ i = 6 \/ i = 7 \/ i = 8
    OBVIOUS
  <2> QED
    BY <1>3, <1>5, <1>8, <2>1, ListingRoots DEF roots
<1>10. first(roots, found) = Used
  <2>1. first(roots, found) =
         IF layout["project .codex"] \in held THEN "project .codex"
         ELSE IF layout["project .openyak"] \in held THEN "project .openyak"
         ELSE IF layout["home .codex"] \in held THEN "home .codex" ELSE "home .openyak"
    BY <1>3, <1>5, <1>9, FirstOfListing DEF roots, found
  <2>2. Used =
         IF layout["project .codex"] \in held THEN "project .codex"
         ELSE IF layout["project .openyak"] \in held THEN "project .openyak"
         ELSE IF layout["home .codex"] \in held THEN "home .codex" ELSE "home .openyak"
    BY <1>6, <1>9, FirstOfTool
  <2> QED
    BY <2>1, <2>2
<1> QED
  BY <1>2, <1>10

LEMMA UnwarnedUsed ==
  ASSUME LookupInv
  PROVE  UnwarnedIsUsed
<1>1. SUFFICES ASSUME asked.listed # "unasked", layout["home .openyak"] \in {"plain", "dir"},
                      asked.warned = "none", ~(env_home /\ layout["home .codex"] # "none")
               PROVE  asked.used = "home .openyak"
  BY DEF UnwarnedIsUsed
<1> DEFINE roots == discover_skill_roots
           held == {"plain", "dir"}
           found == {i \in DOMAIN roots : layout[roots[i]] \in held}
           f == first(roots, found)
<1>2. asked.used = Used /\ f \in {"none", "home .openyak"}
  <2>1. asked.used = Used /\ managed_skill_shadowing_warning = "none"
    BY <1>1 DEF LookupInv
  <2>2. managed_skill_shadowing_warning = IF f \in {"none", "home .openyak"} THEN "none" ELSE f
    BY DEF managed_skill_shadowing_warning, resolve_skill_path_from_roots
  <2> HIDE DEF f
  <2> QED
    BY <2>1, <2>2
<1>3. UserCodex \notin {"none", "home .openyak"}
  BY DEF UserCodex
<1>4. /\ layout["project .codex"] \in held => f = "project .codex"
      /\ layout["project .codex"] \notin held /\ layout["project .openyak"] \in held => f = "project .openyak"
      /\ layout["project .codex"] \notin held /\ layout["project .openyak"] \notin held
           /\ layout["project .codex commands"] \in held => f = "project .codex commands"
      /\ layout["project .codex"] \notin held /\ layout["project .openyak"] \notin held
           /\ layout["project .codex commands"] \notin held
           /\ layout["project .openyak commands"] \in held => f = "project .openyak commands"
      /\ layout["project .codex"] \notin held /\ layout["project .openyak"] \notin held
           /\ layout["project .codex commands"] \notin held
           /\ layout["project .openyak commands"] \notin held /\ layout[UserCodex] \in held => f = UserCodex
  BY FirstOfListing
<1> HIDE DEF f
<1>5. /\ layout["project .codex"] \notin held /\ layout["project .openyak"] \notin held
      /\ layout[UserCodex] \notin held
  BY <1>2, <1>3, <1>4
<1>6. layout["home .codex"] \notin held
  BY <1>1, <1>5 DEF UserCodex
<1> QED
  BY <1>1, <1>2, <1>5, <1>6, FirstOfTool

LEMMA LookupHolds ==
  ASSUME LookupInv
  PROVE  ListedIsUsed /\ UnwarnedIsUsed
BY ListingUsed, UnwarnedUsed

(* What the skill registry promises (Extensions.SkillsSound), for any      *)
(* offers and any number of commands: the record of a skill names the      *)
(* version in its directory unless a command was cut short or two          *)
(* overlapped, only compatible versions are installed unasked, and the     *)
(* skill that is listed, or installed without a warning, is the one that   *)
(* the tool runs.                                                          *)
THEOREM SkillsSafe == PartsSpec => []SkillsSound
<1>1. PartsInit => (part = "skills" => SkillsInv)
  BY SkillsStart DEF PartsInit
<1>2. (part = "skills" => SkillsInv) /\ [PartsNext]_partsVars => (part = "skills" => SkillsInv)'
  BY SkillsMove, SkillsRest DEF PartsNext, partsVars
<1>3. PartsInit => (part = "lookup" => LookupInv)
  BY LookupStart DEF PartsInit
<1>4. (part = "lookup" => LookupInv) /\ [PartsNext]_partsVars => (part = "lookup" => LookupInv)'
  BY LookupMoves, LookupRests DEF PartsNext, partsVars
<1>5. (part = "skills" => SkillsInv) /\ (part = "lookup" => LookupInv) => SkillsSound
  BY SkillsHold, LookupHolds DEF SkillsSound
<1> QED
  BY <1>1, <1>2, <1>3, <1>4, <1>5, PTL DEF PartsSpec
=============================================================================
