------------------------------- MODULE BashRun -------------------------------
(***************************************************************************)
(* A bash call: the tool profile's ceiling over the sandbox options of the *)
(* call (runtime/src/tool_profile.rs), what the sandbox really does on     *)
(* this machine (sandbox.rs), and the process (bash.rs).                   *)
(***************************************************************************)
EXTENDS Naturals

CONSTANT Mounts       \* directories a sandbox may mount

VARIABLES bash,       \* the call: policy, options, machine, status
          process     \* [state, answer, confined]

bashVars == <<bash, process>>

NotSet == "unset"      \* Option::None
Flags == {NotSet, "yes", "no"}
FilesystemModes == {"off", "workspace-only", "allow-list"}

SandboxConfig ==
  [enabled : Flags, namespace : Flags, network : Flags,
   filesystem : FilesystemModes \cup {NotSet}, mounts : SUBSET Mounts]

(* BashCommandInput's sandbox options; no mounts given is {Unset}.         *)
Overrides ==
  [disable : Flags, namespace : Flags, network : Flags,
   filesystem : FilesystemModes \cup {NotSet}, mounts : SUBSET Mounts \cup {{NotSet}}]

unwrap_or(option, default) == IF option = NotSet THEN default ELSE option

filesystem_mode_rank(m) == CASE m = "off" -> 0 [] m = "workspace-only" -> 1 [] OTHER -> 2

(* ToolProfileBashPolicy::validate_override                                *)
validate_override(config, may_disable, o) ==
  /\ o.disable = "yes" => may_disable \/ config.enabled = "no"
  /\ ~(config.namespace = "yes" /\ o.namespace = "no")
  /\ ~(config.network = "yes" /\ o.network = "no")
  /\ config.filesystem # NotSet /\ o.filesystem # NotSet
       => filesystem_mode_rank(o.filesystem) >= filesystem_mode_rank(config.filesystem)
  /\ o.mounts # {NotSet} => o.mounts \subseteq config.mounts

(* SandboxConfig::resolve_request, with sandbox_status_for_input's reading *)
(* of the options.                                                         *)
resolve_request(config, o) ==
  [enabled |-> CASE o.disable = "yes" -> FALSE
                 [] o.disable = "no" -> TRUE
                 [] OTHER -> config.enabled # "no",
   namespace |-> unwrap_or(o.namespace, unwrap_or(config.namespace, "yes")) = "yes",
   network |-> unwrap_or(o.network, unwrap_or(config.network, "no")) = "yes",
   filesystem |-> unwrap_or(o.filesystem, unwrap_or(config.filesystem, "workspace-only")),
   mounts |-> IF o.mounts = {NotSet} THEN config.mounts ELSE o.mounts]

fallback_reason(request, unshare) ==
  /\ request.enabled
  /\ \/ request.namespace /\ ~unshare
     \/ request.network /\ ~unshare
     \/ request.filesystem = "allow-list" /\ request.mounts = {}

(* resolve_sandbox_status_for_request                                      *)
Status(request, unshare) ==
  [namespace_active |-> request.enabled /\ request.namespace /\ unshare,
   network_active |-> request.enabled /\ request.network /\ unshare,
   filesystem_active |-> request.enabled /\ request.filesystem # "off",
   fallback |-> fallback_reason(request, unshare)]

(* What confines the process: all namespaces of `unshare`, with the        *)
(* network's if asked, or only HOME and TMPDIR moved into the workspace.   *)
build_linux_sandbox_command(s) ==
  IF s.namespace_active \/ s.network_active
  THEN {"namespaces", "home"} \cup (IF s.network_active THEN {"network"} ELSE {})
  ELSE IF s.filesystem_active THEN {"home"} ELSE {}

-----------------------------------------------------------------------------
NoProcess == [state |-> "none", answer |-> "none", confined |-> {}, timeout |-> FALSE]

BashInit ==
  /\ bash \in {[policy |-> c, may_disable |-> d, unshare |-> u, stage |-> "new"] :
                 c \in SandboxConfig, d \in BOOLEAN, u \in BOOLEAN}
  /\ process = NoProcess

(* The tool's policy check, and the resolution of the request.             *)
submit ==
  /\ bash.stage = "new"
  /\ \E o \in Overrides :
       IF validate_override(bash.policy, bash.may_disable, o)
       THEN LET request == resolve_request(bash.policy, o) IN
            bash' = [stage |-> "accepted", policy |-> bash.policy,
                     may_disable |-> bash.may_disable,
                     request |-> request, status |-> Status(request, bash.unshare)]
       ELSE bash' = [stage |-> "refused"]
  /\ UNCHANGED process

(* execute_bash_with_config: spawn, in the background or waiting, with a   *)
(* timeout or without; the shell itself may be missing.                    *)
spawn ==
  /\ bash.stage = "accepted" /\ process.state = "none"
  /\ \/ \E background, timeout \in BOOLEAN :
          process' = [state |-> "running", timeout |-> timeout,
                      confined |-> build_linux_sandbox_command(bash.status),
                      answer |-> IF background THEN "background" ELSE "none"]
     \/ process' = [NoProcess EXCEPT !.state = "failed", !.answer = "error"]
  /\ UNCHANGED bash

exit ==
  /\ process.state = "running"
  /\ process' = [process EXCEPT !.state = "exited",
                                !.answer = IF @ = "none" THEN "output" ELSE @]
  /\ UNCHANGED bash

(* The answer gives up; the process is not killed.                         *)
time_out ==
  /\ process.state = "running" /\ process.answer = "none" /\ process.timeout
  /\ process' = [process EXCEPT !.answer = "interrupted"]
  /\ UNCHANGED bash

BashNext == submit \/ spawn \/ exit \/ time_out

BashSpec == BashInit /\ [][BashNext]_bashVars

-----------------------------------------------------------------------------
(* An accepted call runs under everything the profile states: if it was    *)
(* not allowed to switch the sandbox off, then each field the profile sets *)
(* is at least as strict in the request as in the profile, and no mount is *)
(* added. What the profile leaves unset the call may weaken.               *)
ProfileIsCeiling ==
  bash.stage = "accepted" =>
    LET plain == resolve_request(bash.policy, [disable |-> NotSet, namespace |-> NotSet,
                   network |-> NotSet, filesystem |-> NotSet, mounts |-> {NotSet}]) IN
    /\ plain.enabled /\ ~bash.may_disable => bash.request.enabled
    /\ bash.policy.namespace = "yes" => bash.request.namespace
    /\ bash.policy.network = "yes" => bash.request.network
    /\ bash.policy.filesystem # NotSet =>
         filesystem_mode_rank(bash.request.filesystem) >= filesystem_mode_rank(plain.filesystem)
    /\ bash.request.mounts \subseteq bash.policy.mounts

(* Isolation that was requested is in force, or the answer says why not:   *)
(* a machine without `unshare` runs the command all the same.              *)
IsolationOrReason ==
  process.state \in {"running", "exited"} /\ bash.request.enabled /\ ~bash.status.fallback =>
    /\ bash.request.namespace => "namespaces" \in process.confined
    /\ bash.request.network => "network" \in process.confined
    /\ bash.request.filesystem # "off" => "home" \in process.confined

(* Output is only answered when the process is over. A timed-out process   *)
(* runs on behind its answer, as a background one does.                    *)
OutputMeansExited ==
  process.answer = "output" => process.state = "exited"
-----------------------------------------------------------------------------
(***************************************************************************)
(* Why.  An accepted call's request is the policy's with options that were *)
(* let through, and its process is confined by the status it was given.    *)
(***************************************************************************)
Accepted ==
  bash.stage = "accepted" =>
    /\ bash.policy \in SandboxConfig /\ bash.may_disable \in BOOLEAN
    /\ \E o \in Overrides : /\ validate_override(bash.policy, bash.may_disable, o)
                            /\ bash.request = resolve_request(bash.policy, o)
    /\ \E u \in BOOLEAN : bash.status = Status(bash.request, u)

Confined ==
  IF process.state \in {"running", "exited"}
  THEN /\ bash.stage = "accepted" /\ process.confined = build_linux_sandbox_command(bash.status)
       /\ process.answer \in {"none", "background", "interrupted"}
            \cup (IF process.state = "exited" THEN {"output"} ELSE {})
       /\ DOMAIN process = DOMAIN NoProcess
  ELSE process \in {NoProcess, [NoProcess EXCEPT !.state = "failed", !.answer = "error"]}

BashInv ==
  /\ bash.stage = "new" => /\ bash.policy \in SandboxConfig /\ bash.may_disable \in BOOLEAN
                           /\ bash.unshare \in BOOLEAN
                           /\ process = NoProcess
  /\ Accepted /\ Confined
=============================================================================
