--------------------------- MODULE PluginManifest ---------------------------
(***************************************************************************)
(* What a plugin may contribute (plugins/src/lib.rs): build_plugin_manifest*)
(* collects every error of a manifest; an accepted one is resolved against *)
(* the plugin's root, its paths are validated again when it is used, and   *)
(* the tools of all enabled plugins must have distinct names.              *)
(***************************************************************************)
EXTENDS Naturals, Sequences, FiniteSets, Functions

CONSTANT RawManifests  \* manifests to be tried; the name "" is blank

(* A command entry, by what is_literal_command and the file system say of  *)
(* it: blank, a bare word, a relative path to a file in the root, to none, *)
(* or to one outside, an absolute path inside or outside the root.         *)
Entries == {"blank", "bare", "inside", "missing", "escaping",
            "absolute", "absolute outside"}

is_literal_command(e) == e = "bare"

ManifestTools == [name : STRING, command : Entries, schema : BOOLEAN, permission : BOOLEAN]

ASSUME ManifestsAssumption ==
  RawManifests \subseteq
    [named : BOOLEAN, permissions : Seq({"read", "blank", "unknown"}), hooks : Seq(Entries),
     tools : Seq(ManifestTools), commands : Seq(ManifestTools)]

(* A manifest may not name absolute paths, even inside the root.           *)
validate_manifest_command_path(e) == e = "inside"

validate_command_entry(e) ==
  CASE e = "blank" -> {"empty"}
    [] is_literal_command(e) -> {}
    [] validate_manifest_command_path(e) -> {}
    [] OTHER -> {"path"}

validate_command_entries(s) == UNION {validate_command_entry(s[i]) : i \in DOMAIN s}

(* The entries behind the first with a name are duplicates, and are not    *)
(* looked at any further.                                                  *)
Duplicate(s, i) == \E j \in 1..(i - 1) : s[j].name = s[i].name

build_manifest_tools(s) ==
  UNION {CASE s[i].name = "" -> {"empty"}
           [] Duplicate(s, i) -> {"duplicate"}
           [] OTHER -> validate_command_entry(s[i].command)
                       \cup (IF s[i].schema THEN {} ELSE {"schema"})
                       \cup (IF s[i].permission THEN {} ELSE {"permission"})
         : i \in DOMAIN s}

build_manifest_commands(s) ==
  UNION {CASE s[i].name = "" -> {"empty"}
           [] Duplicate(s, i) -> {"duplicate"}
           [] OTHER -> validate_command_entry(s[i].command)
         : i \in DOMAIN s}

build_manifest_permissions(s) ==
  UNION {CASE s[i] = "blank" -> {"empty"}
           [] \E j \in 1..(i - 1) : s[j] = s[i] -> {"duplicate"}
           [] s[i] = "unknown" -> {"permission"}
           [] OTHER -> {}
         : i \in DOMAIN s}

(* The errors of a manifest; it is accepted if there are none.             *)
build_plugin_manifest(m) ==
  (IF m.named THEN {} ELSE {"empty"})
    \cup build_manifest_permissions(m.permissions)
    \cup validate_command_entries(m.hooks)
    \cup build_manifest_tools(m.tools)
    \cup build_manifest_commands(m.commands)

-----------------------------------------------------------------------------
(* resolve_hooks, resolve_lifecycle, resolve_tools: a path becomes one     *)
(* under the root.                                                         *)
resolve_hook_entry(e) == IF e = "inside" THEN "absolute" ELSE e

(* validate_hook_paths, validate_lifecycle_paths, validate_tool_paths.     *)
validate_resolved_command_path(e) ==
  is_literal_command(e) \/ e \in {"inside", "absolute"}

ToolEntries(m) == [i \in DOMAIN m.tools |-> m.tools[i].command]
validate(m) ==
  \A e \in Range(m.hooks) \cup Range(ToolEntries(m)) :
    validate_resolved_command_path(resolve_hook_entry(e))

VARIABLES candidates,   \* the plugins, in the order of their ids
          phase,
          ran       \* lifecycle commands that ran: <<phase, plugin>>

manifestVars == <<candidates, phase, ran>>

ManifestInit == /\ candidates \in {<<a, b>> : a, b \in RawManifests} /\ phase = "new"
                /\ ran = <<>>

(* load_plugin_definition of each plugin; an error ends discovery.         *)
load_plugin_definition ==
  /\ phase = "new"
  /\ phase' = IF \A i \in DOMAIN candidates : build_plugin_manifest(candidates[i]) = {}
              THEN "loaded" ELSE "rejected"
  /\ UNCHANGED <<candidates, ran>>

(* A tool name that two plugins define.                                    *)
clash(ps) ==
  \E i, j \in DOMAIN ps :
    i < j /\ \E x \in DOMAIN ps[i].tools, y \in DOMAIN ps[j].tools :
      ps[i].tools[x].name = ps[j].tools[y].name

aggregated_tools ==
  /\ phase = "loaded"
  /\ phase' = IF /\ \A i \in DOMAIN candidates : validate(candidates[i])
                 /\ ~clash(candidates)
              THEN "ready" ELSE "unusable"
  /\ UNCHANGED <<candidates, ran>>

Ran(p) == Cardinality({i \in DOMAIN ran : ran[i][1] = p})

(* PluginRegistry::initialize: in order; the first that fails is the last. *)
initialize ==
  /\ phase = "ready" /\ Ran("init") < Len(candidates)
  /\ ran' = Append(ran, <<"init", Ran("init") + 1>>)
  /\ phase' \in {"ready", "failed"}
  /\ UNCHANGED candidates

(* PluginRegistry::shutdown: in reverse; the first that fails is the last. *)
shutdown_plugins ==
  /\ phase \in {"ready", "stopping"} /\ Ran("init") = Len(candidates)
  /\ Ran("shutdown") < Len(candidates)
  /\ ran' = Append(ran, <<"shutdown", Len(candidates) - Ran("shutdown")>>)
  /\ phase' \in {"stopping", "failed"}
  /\ UNCHANGED candidates

ManifestNext == \/ load_plugin_definition \/ aggregated_tools
                \/ initialize \/ shutdown_plugins

-----------------------------------------------------------------------------
(* What was accepted at load time is still acceptable, after resolution,   *)
(* when it is used: no accepted plugin makes the others unusable by its    *)
(* own paths, only by a tool name it shares with another.                  *)
AcceptedIsUsable ==
  phase = "unusable" => \E i, j \in DOMAIN candidates : i # j /\
    \E x \in Range(candidates[i].tools), y \in Range(candidates[j].tools) :
      x.name = y.name

(* A plugin whose commands may run has no command that leads out of its    *)
(* root or to nothing, and no tool of an enabled plugin is shadowed.       *)
ReadyIsContained ==
  phase \in {"ready", "stopping"} =>
    /\ \A i \in DOMAIN candidates :
         \A e \in Range(candidates[i].hooks) \cup Range(ToolEntries(candidates[i])) :
           e \in {"bare", "inside"}
    /\ \A i, j \in DOMAIN candidates :
         \A x \in DOMAIN candidates[i].tools, y \in DOMAIN candidates[j].tools :
           candidates[i].tools[x].name = candidates[j].tools[y].name => i = j /\ x = y

(* Plugins are shut down in the reverse of the order they were started.    *)
ShutdownMirrorsInit ==
  \A i, j \in DOMAIN ran : i < j /\ ran[i][1] = ran[j][1] =>
    IF ran[i][1] = "init" THEN ran[i][2] < ran[j][2] ELSE ran[i][2] > ran[j][2]
=============================================================================
