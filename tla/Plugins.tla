------------------------------ MODULE Plugins ------------------------------
(***************************************************************************)
(* PluginManager (plugins/src/lib.rs): external plugins are installed from *)
(* a source, updated and uninstalled; bundled ones are copied from what    *)
(* the program ships. Three things on disk have to agree: the directories  *)
(* under the install root, the registry file, and enabledPlugins in the    *)
(* settings. An operation is a sequence of file operations, any of which   *)
(* may fail, and the process may die between two of them.                  *)
(***************************************************************************)
EXTENDS Naturals, FiniteSets

CONSTANTS External, Bundled,     \* plugin ids, by marketplace
          MaxVersion, MaxPluginFaults

ASSUME PluginsAssumption ==
  /\ External \cap Bundled = {} /\ External \cup Bundled # {}
  /\ MaxVersion \in Nat \ {0} /\ MaxPluginFaults \in Nat

PluginIds == External \cup Bundled

(* What a plugin directory holds: nothing, a directory without a manifest, *)
(* one whose manifest does not load, or a version.                         *)
Missing == 0
Hollow == MaxVersion + 1
Broken == MaxVersion + 2
Contents == 0..Broken
Loads(d) == d \in 1..MaxVersion
HasManifest(d) == d \notin {Missing, Hollow}

VARIABLES plugin_dirs,        \* the directory of each plugin
          plugin_records,     \* the registry file: version recorded, or None
          enabled,     \* enabledPlugins in the settings file
          shipped,     \* the bundled plugins of this build
          offered,     \* what the sources of external plugins hold
          job,         \* the operation under way
          wanted,      \* plugins the user asked for and did not refuse since
          plugin_faults

pluginVars == <<plugin_dirs, plugin_records, enabled, shipped, offered, job, wanted,
                plugin_faults>>

Ops == {"install", "update", "uninstall", "enable", "disable", "list"}
Steps == {"idle", "sync", "copy", "discover", "stage", "retire", "swap",
          "remove", "record", "settings"}

PluginsTypeOK ==
  /\ plugin_dirs \in [PluginIds -> Contents]
  /\ plugin_records \in [PluginIds -> 0..MaxVersion]
  /\ enabled \in [PluginIds -> {"unset", "on", "off"}]
  /\ job.step \in Steps /\ job.id \in PluginIds /\ job.op \in Ops
  /\ job.loaded \in [PluginIds -> 0..MaxVersion]
  /\ job.before \in Contents /\ job.answer \in {"none", "ok", "error"}

PluginsInit ==
  /\ plugin_dirs = [p \in PluginIds |-> Missing]
  /\ plugin_records = [p \in PluginIds |-> Missing]
  /\ enabled = [p \in PluginIds |-> "unset"]
  /\ shipped = [b \in Bundled |-> 1]
  /\ offered = [p \in External |-> 1]
  /\ job = [op |-> "list", id |-> CHOOSE p \in PluginIds : TRUE,
            step |-> "idle", loaded |-> [p \in PluginIds |-> Missing],
            before |-> Missing, answer |-> "none"]
  /\ wanted = {} /\ plugin_faults = 0

-----------------------------------------------------------------------------
(* The order of an operation's steps.                                      *)
After(op, step) ==
  CASE step = "sync" -> "discover"
    [] step = "discover" /\ op = "install" -> "retire"
    [] step = "discover" /\ op \in {"enable", "disable"} -> "settings"
    [] step = "retire" -> "swap"
    [] step \in {"swap", "remove"} -> "record"
    [] step = "record" /\ op \in {"install", "uninstall"} -> "settings"
    [] OTHER -> "idle"

Go(step) == [job EXCEPT !.step = step,
                        !.answer = IF step = "idle" THEN "ok" ELSE @]
Advance == job' = Go(After(job.op, job.step))
Fail == job' = [job EXCEPT !.step = "idle", !.answer = "error"]

(* The refusals of uninstall and update come from the registry alone.      *)
Refused(op, p) ==
  \/ op \in {"uninstall", "update"} /\ plugin_records[p] = Missing
  \/ op = "uninstall" /\ p \in Bundled

(* install and update stage the source first; its manifest must load.      *)
Source(p) == IF p \in External THEN offered[p] ELSE shipped[p]
prepare_plugin_source(p) == Loads(Source(p))

begin_operation(op, p) ==
  /\ job.step = "idle"
  /\ op = "install" => p \in External
  /\ wanted' = CASE op \in {"install", "enable"} -> wanted \cup {p}
                 [] OTHER -> wanted
  /\ LET refused == \/ Refused(op, p)
                    \/ op \in {"install", "update"} /\ ~prepare_plugin_source(p)
         first == CASE op = "uninstall" -> "remove"
                    [] op = "update" -> "retire"
                    [] OTHER -> "sync"
     IN job' = [op |-> op, id |-> p, loaded |-> plugin_records, before |-> plugin_dirs[p],
                step |-> IF refused THEN "idle" ELSE first,
                answer |-> IF refused THEN "error" ELSE "none"]
  /\ UNCHANGED <<plugin_dirs, plugin_records, enabled, shipped, offered, plugin_faults>>

needs_sync(b) ==
  shipped[b] # Missing /\ (job.loaded[b] # shipped[b] \/ ~Loads(plugin_dirs[b]))

(* sync_bundled_plugins: the old copy goes, the new one is written file by *)
(* file; then copies of what is no longer shipped go, and the registry is  *)
(* stored once, at the end.                                                *)
sync_begin(b) ==
  /\ job.step = "sync" /\ needs_sync(b)
  /\ \E partial \in {Missing, Hollow, Broken} :
       plugin_dirs' = [plugin_dirs EXCEPT ![b] = partial]
  /\ job' = [job EXCEPT !.step = "copy", !.loaded[b] = Missing]
  /\ UNCHANGED <<plugin_records, enabled, shipped, offered, wanted, plugin_faults>>

copy_dir_all(b) ==
  /\ job.step = "copy" /\ job.loaded[b] = Missing /\ shipped[b] # Missing
  /\ plugin_dirs' = [plugin_dirs EXCEPT ![b] = shipped[b]]
  /\ job' = [job EXCEPT !.step = "sync", !.loaded[b] = shipped[b]]
  /\ UNCHANGED <<plugin_records, enabled, shipped, offered, wanted, plugin_faults>>

sync_end ==
  LET stale == {b \in Bundled : shipped[b] = Missing /\ job.loaded[b] # Missing}
      kept == [p \in PluginIds |-> IF p \in stale THEN Missing ELSE job.loaded[p]]
  IN /\ job.step = "sync" /\ \A b \in Bundled : ~needs_sync(b)
     /\ plugin_dirs' = [p \in PluginIds |-> IF p \in stale THEN Missing ELSE plugin_dirs[p]]
     /\ plugin_records' = kept
     /\ job' = [Go("discover") EXCEPT !.loaded = kept]
     /\ UNCHANGED <<enabled, shipped, offered, wanted, plugin_faults>>

(* discover_installed_plugins: every directory with a manifest is loaded,  *)
(* and one that does not load fails the whole operation; a record without  *)
(* such a directory is pruned. Then install refuses what is there already, *)
(* enable and disable refuse what is not there.                            *)
discover_installed_plugins ==
  LET stale == {p \in PluginIds : ~HasManifest(plugin_dirs[p])}
      known == {p \in PluginIds : HasManifest(plugin_dirs[p])}
      loads == \A p \in known : Loads(plugin_dirs[p])
      found == job.id \in known
  IN /\ job.step = "discover"
     /\ plugin_records' = IF loads THEN [p \in PluginIds |-> IF p \in stale THEN Missing
                                                      ELSE plugin_records[p]]
                   ELSE plugin_records
     /\ IF \/ ~loads
           \/ job.op = "install" /\ found
           \/ job.op \in {"enable", "disable"} /\ ~found
        THEN Fail ELSE Advance
     /\ UNCHANGED <<plugin_dirs, enabled, shipped, offered, wanted, plugin_faults>>

(* commit_prepared_install: what is there is renamed away, the staged copy *)
(* renamed into place.                                                     *)
retire ==
  /\ job.step = "retire"
  /\ plugin_dirs' = [plugin_dirs EXCEPT ![job.id] = Missing]
  /\ job' = [Go("swap") EXCEPT !.before = plugin_dirs[job.id]]
  /\ UNCHANGED <<plugin_records, enabled, shipped, offered, wanted, plugin_faults>>

swap ==
  /\ job.step = "swap"
  /\ plugin_dirs' = [plugin_dirs EXCEPT ![job.id] = Source(job.id)]
  /\ Advance
  /\ UNCHANGED <<plugin_records, enabled, shipped, offered, wanted, plugin_faults>>

(* Mutant: the retired install is not renamed back.                        *)
swap_fails_for_good ==
  /\ job.step = "swap" /\ plugin_faults < MaxPluginFaults
  /\ plugin_faults' = plugin_faults + 1
  /\ Fail
  /\ UNCHANGED <<plugin_dirs, plugin_records, enabled, shipped, offered, wanted>>

(* The second rename fails: the old install is renamed back.               *)
swap_fails ==
  /\ job.step = "swap" /\ plugin_faults < MaxPluginFaults
  /\ plugin_faults' = plugin_faults + 1
  /\ plugin_dirs' = [plugin_dirs EXCEPT ![job.id] = job.before]
  /\ Fail
  /\ UNCHANGED <<plugin_records, enabled, shipped, offered, wanted>>

(* uninstall deletes the directory before it forgets the record.           *)
remove_dir_all ==
  /\ job.step = "remove"
  /\ plugin_dirs' = [plugin_dirs EXCEPT ![job.id] = Missing]
  /\ Advance
  /\ UNCHANGED <<plugin_records, enabled, shipped, offered, wanted, plugin_faults>>

(* install reads the registry again; update and uninstall write back the   *)
(* one they loaded, with the record changed.                               *)
store_registry ==
  LET base == IF job.op = "install" THEN plugin_records ELSE job.loaded IN
  /\ job.step = "record"
  /\ plugin_records' = [base EXCEPT ![job.id] = IF job.op = "uninstall" THEN Missing
                                         ELSE Source(job.id)]
  /\ Advance
  /\ UNCHANGED <<plugin_dirs, enabled, shipped, offered, wanted, plugin_faults>>

write_enabled_state ==
  /\ job.step = "settings"
  /\ enabled' = [enabled EXCEPT ![job.id] =
       CASE job.op \in {"install", "enable"} -> "on"
         [] job.op = "disable" -> "off"
         [] OTHER -> "unset"]
  /\ wanted' = IF job.op \in {"disable", "uninstall"}
               THEN wanted \ {job.id} ELSE wanted
  /\ Advance
  /\ UNCHANGED <<plugin_dirs, plugin_records, shipped, offered, plugin_faults>>

(* The process dies, or a file operation fails; a removal may have been    *)
(* under way.                                                              *)
interrupt ==
  /\ job.step # "idle" /\ plugin_faults < MaxPluginFaults
  /\ plugin_faults' = plugin_faults + 1
  /\ job' = [job EXCEPT !.step = "idle", !.answer = "none"]
  /\ \E rest \in {plugin_dirs[job.id]} \cup
                 IF job.step = "remove" THEN {Missing, Hollow, Broken} ELSE {} :
       plugin_dirs' = [plugin_dirs EXCEPT ![job.id] = rest]
  /\ UNCHANGED <<plugin_records, enabled, shipped, offered, wanted>>

(* A new build ships a bundled plugin at a later version, or no longer;    *)
(* the source of an external one changes. (After an interrupted sync, a    *)
(* downgrade is not noticed: the record, not the copy, has the version.)   *)
upgrade(b, v) ==
  /\ job.step = "idle" /\ shipped[b] # Missing
  /\ v > shipped[b] \/ v = Missing
  /\ shipped' = [shipped EXCEPT ![b] = v]
  /\ UNCHANGED <<plugin_dirs, plugin_records, enabled, offered, job, wanted, plugin_faults>>

publish(p, v) ==
  /\ job.step = "idle" /\ offered[p] # v
  /\ offered' = [offered EXCEPT ![p] = v]
  /\ UNCHANGED <<plugin_dirs, plugin_records, enabled, shipped, job, wanted, plugin_faults>>

-----------------------------------------------------------------------------
PluginsNext ==
  \/ \E op \in Ops, p \in PluginIds : begin_operation(op, p)
  \/ \E b \in Bundled : sync_begin(b) \/ copy_dir_all(b)
  \/ sync_end \/ discover_installed_plugins \/ retire \/ swap \/ swap_fails
  \/ remove_dir_all \/ store_registry \/ write_enabled_state \/ interrupt
  \/ \E b \in Bundled, v \in 0..MaxVersion : upgrade(b, v)
  \/ \E p \in External, v \in (1..MaxVersion) \cup {Broken} : publish(p, v)

PluginsSpec == PluginsInit /\ [][PluginsNext]_pluginVars

-----------------------------------------------------------------------------
(* As long as nothing failed half-way, the registry records exactly the    *)
(* external plugins that are installed, at the version installed.          *)
RegistryAgrees ==
  plugin_faults = 0 /\ job.step = "idle" =>
    \A p \in External : plugin_records[p] = plugin_dirs[p]

(* An operation that synchronised the bundled plugins and succeeded leaves *)
(* every shipped plugin installed at the shipped version, whatever was     *)
(* interrupted before.                                                     *)
BundledCurrent ==
  job.step \in {"settings", "retire"} /\ job.op \notin {"update", "uninstall"} =>
    \A b \in Bundled : shipped[b] # Missing => plugin_dirs[b] = shipped[b]

(* An update that reports an error, or was refused, has not cost the       *)
(* installed version.                                                      *)
UpdateKeepsInstall ==
  job.op = "update" /\ job.step = "idle" /\ job.answer = "error" =>
    plugin_dirs[job.id] = job.before

(* An external plugin is switched on only if the user installed or enabled *)
(* it since the last uninstall or disable that went through.               *)
EnabledIsWanted == \A p \in PluginIds : enabled[p] = "on" => p \in wanted
=============================================================================
