----------------------------- MODULE ConfigFiles -----------------------------
(***************************************************************************)
(* The settings files (runtime config.rs) and the Config tool that edits   *)
(* them (tools lib.rs).  Five files are read one after the other, each     *)
(* merged over the ones before it; the Config tool and the onboarding      *)
(* command read a whole file, change one setting and write it back without *)
(* a lock, and a write first empties the file.                             *)
(***************************************************************************)
EXTENDS Integers, Sequences, FiniteSets, FiniteSetsExt, TLC

CONSTANTS Starts,    \* [files, sets]: the files at the start and how many writers may begin
          Writers,   \* processes that change a setting
          Inputs     \* [setting, value]: what the Config tool is asked to set

VARIABLES files,     \* the content of each entry
          load,      \* the loader: next entry, what it read, what it merged, its result
          writer_pc, request, document,   \* of each writer
          sets,      \* writers that may still begin
          answered,  \* history: per setting, the value last answered as set
          loadable,  \* history: a load of the files at the start would succeed
          raced      \* history: files two writers held at once, or a writer left half way

configVars == <<files, load, writer_pc, request, document, sets, answered, loadable, raced>>

(***************************************************************************)
(* JSON values.  Err is a ConfigError, None an absent field.               *)
(***************************************************************************)
Err == [t |-> "error"]
None == [t |-> "none"]
Str(s) == [t |-> "string", s |-> s]
Num(n) == [t |-> "number", n |-> n]
Bool(b) == [t |-> "bool", b |-> b]
Arr(e) == [t |-> "array", e |-> e]
Obj(m) == [t |-> "object", m |-> m]
EmptyObject == Obj(<<>>)

field(o, k) == IF o.t = "object" /\ k \in DOMAIN o.m THEN o.m[k] ELSE None
or_default(v, d) == IF v = None THEN d ELSE v
typed(v, kinds) == IF v.t \in kinds \cup {"none"} THEN v ELSE Err

expect_object(v) == IF v.t = "object" THEN v ELSE Err
expect_string(o, k) == IF field(o, k).t = "string" THEN field(o, k) ELSE Err
optional_string(o, k) == typed(field(o, k), {"string"})
optional_bool(o, k) == typed(field(o, k), {"bool"})
optional_u16(o, k) ==
  LET v == typed(field(o, k), {"number"})
  IN IF v.t = "number" /\ v.n \notin 0..65535 THEN Err ELSE v
optional_string_array(o, k) ==
  LET v == typed(field(o, k), {"array"})
  IN IF v.t = "array" /\ \E i \in DOMAIN v.e : v.e[i].t # "string" THEN Err ELSE v
optional_string_map(o, k) ==
  LET v == typed(field(o, k), {"object"})
  IN IF v.t = "object" /\ \E n \in DOMAIN v.m : v.m[n].t # "string" THEN Err ELSE v
parse_bool_map(v) ==
  IF v.t = "object" /\ \A n \in DOMAIN v.m : v.m[n].t = "bool" THEN v ELSE Err

\* A struct whose fields are parsed one by one: the first error is the result.
build(fields) == IF \E f \in DOMAIN fields : fields[f] = Err THEN Err ELSE Obj(fields)

(***************************************************************************)
(* Paths in settings.  A path is one of a few spellings; Lead says where a *)
(* spelling ends when it is relative to a directory that is "home" (the    *)
(* configuration directory) or "work" (the workspace).                     *)
(***************************************************************************)
Absolute == {"/home/x", "/work/x", "/else/x"}
Dotted == {"./sub", "../up"}
Lead(path, base) ==
  CASE path = "/home/x" -> "home"
    [] path = "/work/x" -> "work"
    [] path \in {"/else/x", "../up", "link"} -> "else"   \* link: an existing link out of base
    [] OTHER -> base

\* "gone/../sub" goes up from a directory that does not exist: file_name() is None there.
canonicalize_allow_missing(path, base) ==
  IF path = "gone/../sub" THEN "error" ELSE Lead(path, base)

resolve_plugin_storage_path(path) ==
  IF canonicalize_allow_missing(path, "home") = "home" THEN Str("home") ELSE Err

resolve_plugin_discovery_path(path, source) ==
  LET base == IF source = "user" /\ path \notin Dotted THEN "home" ELSE "work"
      resolved == canonicalize_allow_missing(path, base)
  IN IF resolved = "error" \/ (source # "user" /\ resolved # "work") THEN Err ELSE Str(resolved)

\* Here the path is normalised by its spelling first, then its deepest existing ancestor is resolved.
resolve_workspace_bound_path(path) ==
  IF path = "" \/ Lead(path, "work") # "work" THEN Err ELSE Str("work")

(***************************************************************************)
(* What is parsed of each entry: MCP servers and plugins.                  *)
(***************************************************************************)
parse_optional_mcp_oauth_config(o) ==
  LET oauth == field(o, "oauth")
  IN IF oauth = None THEN None
     ELSE IF expect_object(oauth) = Err THEN Err
     ELSE build([client |-> optional_string(oauth, "clientId"), port |-> optional_u16(oauth, "callbackPort"),
                 metadata |-> optional_string(oauth, "authServerMetadataUrl"), xaa |-> optional_bool(oauth, "xaa")])

parse_mcp_remote_server_config(o) ==
  build([url |-> expect_string(o, "url"), headers |-> optional_string_map(o, "headers"),
         helper |-> optional_string(o, "headersHelper"), oauth |-> parse_optional_mcp_oauth_config(o)])

parse_mcp_server_config(v) ==
  LET type == or_default(optional_string(v, "type"), Str("stdio"))
  IN IF expect_object(v) = Err \/ type = Err THEN Err
     ELSE CASE type.s = "stdio" ->
                 build([command |-> expect_string(v, "command"), args |-> optional_string_array(v, "args"),
                        env |-> optional_string_map(v, "env")])
            [] type.s \in {"sse", "http"} -> parse_mcp_remote_server_config(v)
            [] type.s = "ws" ->
                 build([url |-> expect_string(v, "url"), headers |-> optional_string_map(v, "headers"),
                        helper |-> optional_string(v, "headersHelper")])
            [] type.s = "sdk" -> build([name |-> expect_string(v, "name")])
            [] type.s = "claudeai-proxy" -> build([url |-> expect_string(v, "url"), id |-> expect_string(v, "id")])
            [] OTHER -> Err

overridden(old, new) == [k \in DOMAIN old \cup DOMAIN new |-> IF k \in DOMAIN new THEN new[k] ELSE old[k]]

merge_mcp_servers(servers, source, root) ==
  LET named == field(root, "mcpServers")
      parsed == [n \in DOMAIN named.m |-> parse_mcp_server_config(named.m[n])]
  IN IF named = None THEN servers
     ELSE IF expect_object(named) = Err \/ \E n \in DOMAIN named.m : parsed[n] = Err THEN Err
     ELSE Obj(overridden(servers.m, [n \in DOMAIN named.m |-> Obj([scope |-> Str(source), config |-> parsed[n]])]))

merge_bool_map(enabled, v) ==
  IF v = None THEN enabled ELSE IF parse_bool_map(v) = Err THEN Err ELSE Obj(overridden(enabled.m, v.m))

\* A field of a plugin section: kept from the entries before unless this entry has it.
NoPlugins == Obj([enabled |-> EmptyObject, external |-> Arr(<<>>), install |-> None, registry |-> None,
                  bundled |-> None])
merge_plugin_config_from_entry(config, root, source) ==
  LET plugins == field(root, "plugins")
      has(k) == optional_string(plugins, k)
      storage(k, old) == IF has(k).t = "string" THEN resolve_plugin_storage_path(has(k).s) ELSE or_default(has(k), old)
      listed == optional_string_array(plugins, "externalDirectories")
      found == [i \in DOMAIN listed.e |-> resolve_plugin_discovery_path(listed.e[i].s, source)]
      outer == merge_bool_map(config.m.enabled, field(root, "enabledPlugins"))
  IN IF plugins = None THEN build([config.m EXCEPT !.enabled = outer])
     ELSE IF expect_object(plugins) = Err \/ outer = Err THEN Err
     ELSE build([enabled |-> merge_bool_map(outer, field(plugins, "enabled")),
                 external |-> IF listed.t # "array" THEN or_default(listed, config.m.external)
                              ELSE IF \E i \in DOMAIN found : found[i] = Err THEN Err ELSE Arr(found),
                 install |-> storage("installRoot", config.m.install),
                 registry |-> storage("registryPath", config.m.registry),
                 bundled |-> IF has("bundledRoot").t = "string"
                             THEN resolve_plugin_discovery_path(has("bundledRoot").s, source)
                             ELSE or_default(has("bundledRoot"), config.m.bundled)])

(***************************************************************************)
(* What is parsed of the merged value.                                     *)
(***************************************************************************)
\* Mutant: an object replaces the object before it.
deep_merge_objects_shallow(target, source) == overridden(target, source)

\* Objects that both have are merged in turn, here down to the fifth level:
\* no setting lies deeper.
merge_level(Inner(_, _), target, source) ==
  overridden(target, [k \in DOMAIN source |->
    IF k \in DOMAIN target /\ target[k].t = "object" /\ source[k].t = "object"
    THEN Obj(Inner(target[k].m, source[k].m)) ELSE source[k]])

deep_merge_objects(target, source) ==
  LET fourth(a, b) == merge_level(overridden, a, b)
      third(a, b) == merge_level(fourth, a, b)
      second(a, b) == merge_level(third, a, b)
  IN merge_level(second, target, source)

ModeReadOnly == {"default", "plan", "read-only"}
ModeWorkspaceWrite == {"acceptEdits", "auto", "workspace-write"}
ModeDangerFullAccess == {"dontAsk", "danger-full-access"}
parse_permission_mode_label(v) ==
  CASE v.t # "string" -> v
    [] v.s \in ModeReadOnly -> Str("read-only")
    [] v.s \in ModeWorkspaceWrite -> Str("workspace-write")
    [] v.s \in ModeDangerFullAccess -> Str("danger-full-access")
    [] OTHER -> Err

as_str(v) == IF v.t = "string" THEN v ELSE None
parse_optional_model(root) == as_str(field(root, "model"))
parse_optional_permission_mode(root) ==
  LET mode == as_str(field(root, "permissionMode"))
  IN parse_permission_mode_label(
       IF mode # None THEN mode ELSE as_str(field(field(root, "permissions"), "defaultMode")))

\* An optional section: its default when it is absent, an error when it is no object.
section(root, k, default, parsed) ==
  CASE field(root, k) = None -> default
    [] expect_object(field(root, k)) = Err -> Err
    [] OTHER -> parsed

parse_optional_hooks_config(root) ==
  LET hooks == field(root, "hooks")
      none == [pre |-> Arr(<<>>), post |-> Arr(<<>>)]
  IN section(root, "hooks", Obj(none),
       build([pre |-> or_default(optional_string_array(hooks, "PreToolUse"), none.pre),
              post |-> or_default(optional_string_array(hooks, "PostToolUse"), none.post)]))

parse_optional_skill_config(root) ==
  section(root, "skills", Obj([registry |-> None]),
    build([registry |-> optional_string(field(root, "skills"), "registryPath")]))

parse_filesystem_mode_label(v) ==
  IF v.t = "string" /\ v.s \notin {"off", "workspace-only", "allow-list"} THEN Err ELSE v
parse_sandbox_config_value(v) ==
  IF expect_object(v) = Err THEN Err
  ELSE build([filesystem |-> parse_filesystem_mode_label(optional_string(v, "filesystemMode")),
              enabled |-> optional_bool(v, "enabled"), namespaces |-> optional_bool(v, "namespaceRestrictions"),
              network |-> optional_bool(v, "networkIsolation"),
              mounts |-> or_default(optional_string_array(v, "allowedMounts"), Arr(<<>>))])
parse_optional_sandbox_config(root) ==
  IF field(root, "sandbox") = None THEN parse_sandbox_config_value(EmptyObject)
  ELSE parse_sandbox_config_value(field(root, "sandbox"))

parse_optional_tool_profile_bash_policy(profile) ==
  LET policy == field(profile, "bashPolicy")
  IN CASE policy = None -> None
       [] expect_object(policy) = Err \/ field(policy, "sandbox") = None -> Err
       [] OTHER -> build([sandbox |-> parse_sandbox_config_value(field(policy, "sandbox")),
                          unsandboxed |-> or_default(optional_bool(policy, "allowDangerouslyDisableSandbox"), Bool(FALSE))])
parse_tool_profile(v) ==
  LET mode == parse_permission_mode_label(optional_string(v, "permissionMode"))
      tools == optional_string_array(v, "allowedTools")
  IN IF expect_object(v) = Err \/ None \in {mode, tools} THEN Err
     ELSE build([mode |-> mode, tools |-> tools, bash |-> parse_optional_tool_profile_bash_policy(v),
                 description |-> optional_string(v, "description")])
parse_optional_tool_profiles(root) ==
  LET profiles == field(root, "toolProfiles")
  IN section(root, "toolProfiles", EmptyObject, build([p \in DOMAIN profiles.m |-> parse_tool_profile(profiles.m[p])]))

parse_optional_browser_control(root) ==
  LET browser == field(root, "browserControl")
      default == [enabled |-> Bool(FALSE), artifacts |-> Str("work")]
      dir == optional_string(browser, "artifactsDir")
  IN section(root, "browserControl", Obj(default),
       build([enabled |-> or_default(optional_bool(browser, "enabled"), default.enabled),
              artifacts |-> IF dir.t = "string" THEN resolve_workspace_bound_path(dir.s)
                            ELSE or_default(dir, default.artifacts)]))

parse_optional_oauth_override_config(root) ==
  LET o == field(root, "oauth")
      override_ == build([client |-> optional_string(o, "clientId"), authorize |-> optional_string(o, "authorizeUrl"),
                          token |-> optional_string(o, "tokenUrl"), port |-> optional_u16(o, "callbackPort"),
                          manual |-> optional_string(o, "manualRedirectUrl"), scopes |-> optional_string_array(o, "scopes")])
      is_empty == override_ # Err /\ \A f \in DOMAIN override_.m : override_.m[f] = None
  IN section(root, "oauth", None, IF is_empty THEN None ELSE override_)
\* Usable only with the three fields that have no default here.
resolved_oauth(o) ==
  IF o.t # "object" \/ None \in {o.m.client, o.m.authorize, o.m.token} THEN None
  ELSE Obj([o.m EXCEPT !.scopes = or_default(@, Arr(<<>>))])

(***************************************************************************)
(* The files and the loader.                                               *)
(***************************************************************************)
\* discover: the entries in the order they are merged.
Sources == <<"user", "user", "project", "project", "local">>
Entries == DOMAIN Sources
Legacy == {1, 3}
Global == 2
Local == 5

Absent == [t |-> "absent"]
Empty == [t |-> "empty"]
Unparsable == [t |-> "text"]

\* None: the entry is skipped.
read_optional_json_object(e, content) ==
  CASE content = Absent -> None
    [] content = Empty -> EmptyObject
    [] content.t # "object" -> IF e \in Legacy THEN None ELSE Err
    [] OTHER -> content

Idle == [next |-> 0, seen |-> <<>>, merged |-> EmptyObject, servers |-> EmptyObject, plugins |-> NoPlugins,
         result |-> None]

start_load ==
  /\ load.next = 0
  /\ load' = [Idle EXCEPT !.next = 1]
  /\ UNCHANGED <<files, writer_pc, request, document, sets, answered, raced>>

load_fails == load' = [load EXCEPT !.next = 0, !.result = Err]

\* One turn of the loop over discover().
read_entry ==
  LET e == load.next
      value == read_optional_json_object(e, files[e])
      servers == merge_mcp_servers(load.servers, Sources[e], value)
      plugins == merge_plugin_config_from_entry(load.plugins, value, Sources[e])
  IN /\ load.next \in Entries
     /\ IF value = None THEN load' = [load EXCEPT !.next = e + 1, !.seen = Append(@, files[e])]
        ELSE IF value = Err THEN load_fails
        ELSE IF servers = Err \/ plugins = Err THEN load_fails
        ELSE load' = [load EXCEPT !.next = e + 1, !.seen = Append(@, files[e]), !.servers = servers,
                                  !.plugins = plugins, !.merged = Obj(deep_merge_objects(@.m, value.m))]
     /\ UNCHANGED <<files, writer_pc, request, document, sets, answered, raced>>

\* What load() makes of the merged value.
feature_config(merged) ==
  LET oauth == parse_optional_oauth_override_config(merged)
  IN build([oauth_override |-> oauth, oauth |-> resolved_oauth(oauth), hooks |-> parse_optional_hooks_config(merged),
            skills |-> parse_optional_skill_config(merged), profiles |-> parse_optional_tool_profiles(merged),
            browser |-> parse_optional_browser_control(merged), model |-> parse_optional_model(merged),
            mode |-> parse_optional_permission_mode(merged), sandbox |-> parse_optional_sandbox_config(merged)])

finish_load ==
  /\ load.next = Len(Sources) + 1
  /\ load' = [load EXCEPT !.next = 0, !.result = feature_config(load.merged)]
  /\ UNCHANGED <<files, writer_pc, request, document, sets, answered, raced>>

(***************************************************************************)
(* The writers: Config sets and write_user_model.                          *)
(***************************************************************************)
ModeNames == {"default", "plan", "acceptEdits", "dontAsk", "auto"}
Setting(scope, kind, path, options) == [scope |-> scope, kind |-> kind, path |-> path, options |-> options]

\* One setting of each shape; the others differ in their name only.
supported_config_setting ==
  [model |-> Setting(Local, "string", <<"model">>, {}),
   mode |-> Setting(Local, "string", <<"permissions", "defaultMode">>, ModeNames),
   memory |-> Setting(Local, "bool", <<"autoMemoryEnabled">>, {}),
   verbose |-> Setting(Global, "bool", <<"verbose">>, {}),
   editor |-> Setting(Global, "string", <<"editorMode">>, {"default", "vim", "emacs"})]

normalize_config_value(spec, v) ==
  LET n == CASE spec.kind = "bool" ->
                  (CASE v.t = "bool" -> v
                     [] v = Str("true") -> Bool(TRUE)
                     [] v = Str("false") -> Bool(FALSE)
                     [] OTHER -> Err)
             [] v.t = "bool" -> Str(IF v.b THEN "true" ELSE "false")
             [] OTHER -> v
  IN IF n # Err /\ spec.options # {} /\ (n.t # "string" \/ as_str(n) \notin {Str(o) : o \in spec.options})
     THEN Err ELSE n

read_json_object(content) ==
  CASE content \in {Absent, Empty} -> EmptyObject
    [] content.t # "object" -> Err
    [] OTHER -> content

get_nested_value(doc, path) ==
  IF Len(path) = 1 THEN field(doc, path[1]) ELSE field(field(doc, path[1]), path[2])

set_nested_value(doc, path, v) ==
  LET inner == field(doc, path[1])
      map == IF inner.t = "object" THEN inner.m ELSE <<>>
  IN Obj(overridden(doc.m, (path[1] :> IF Len(path) = 1 THEN v ELSE Obj(overridden(map, (path[2] :> v))))))

Holds(w, e) == writer_pc[w] \in {"read", "emptied"} /\ request[w].entry = e

\* execute_config up to the write: an unknown or a bad value is answered without one.
execute_config(w) == \E i \in Inputs :
  LET spec == supported_config_setting[i.setting]
      doc == read_json_object(files[spec.scope])
      value == normalize_config_value(spec, i.value)
  IN /\ writer_pc[w] = "idle" /\ sets > 0
     /\ sets' = sets - 1
     /\ request' = [request EXCEPT ![w] = [setting |-> i.setting, entry |-> spec.scope, value |-> value]]
     /\ IF Err \in {doc, value}
        THEN writer_pc' = [writer_pc EXCEPT ![w] = "refused"] /\ UNCHANGED <<document, raced>>
        ELSE /\ writer_pc' = [writer_pc EXCEPT ![w] = "read"]
             /\ document' = [document EXCEPT ![w] = set_nested_value(doc, spec.path, value)]
             /\ raced' = raced \cup {e \in {spec.scope} : \E o \in Writers : Holds(o, e)}
     /\ UNCHANGED <<files, load, answered>>

\* The same without the Config tool's checks, in the user's settings.json.
write_user_model(w) ==
  LET doc == read_json_object(files[Global])
  IN /\ writer_pc[w] = "idle" /\ sets > 0
     /\ sets' = sets - 1
     /\ request' = [request EXCEPT ![w] = [setting |-> "user_model", entry |-> Global, value |-> Str("m9")]]
     /\ IF doc = Err THEN writer_pc' = [writer_pc EXCEPT ![w] = "refused"] /\ UNCHANGED <<document, raced>>
        ELSE /\ writer_pc' = [writer_pc EXCEPT ![w] = "read"]
             /\ document' = [document EXCEPT ![w] = set_nested_value(doc, <<"model">>, Str("m9"))]
             /\ raced' = raced \cup {e \in {Global} : \E o \in Writers : Holds(o, e)}
     /\ UNCHANGED <<files, load, answered>>

\* fs::write empties the file, then writes.
write_json_object(w) ==
  /\ writer_pc[w] = "read"
  /\ files' = [files EXCEPT ![request[w].entry] = Empty]
  /\ writer_pc' = [writer_pc EXCEPT ![w] = "emptied"]
  /\ UNCHANGED <<load, request, document, sets, answered, raced>>

written(w) ==
  /\ writer_pc[w] = "emptied"
  /\ files' = [files EXCEPT ![request[w].entry] = document[w]]
  /\ writer_pc' = [writer_pc EXCEPT ![w] = "idle"]
  /\ answered' = overridden(answered, (request[w].setting :> request[w].value))
  /\ UNCHANGED <<load, request, document, sets, raced>>

\* The process is killed between the two.
killed(w) ==
  /\ writer_pc[w] = "emptied"
  /\ writer_pc' = [writer_pc EXCEPT ![w] = "killed"]
  /\ raced' = raced \cup {request[w].entry}
  /\ UNCHANGED <<files, load, request, document, sets, answered>>

\* What load() would make of these files if it read them all at once.
Loads(f) ==
  LET doc(e) == read_optional_json_object(e, f[e])
      merged[e \in 0..Len(Sources)] ==
        IF e = 0 THEN <<>> ELSE IF doc(e) = None THEN merged[e - 1] ELSE deep_merge_objects(merged[e - 1], doc(e).m)
  IN /\ \A e \in Entries : doc(e) # Err
     /\ \A e \in Entries : doc(e) # None =>
          /\ merge_mcp_servers(EmptyObject, Sources[e], doc(e)) # Err
          /\ merge_plugin_config_from_entry(NoPlugins, doc(e), Sources[e]) # Err
     /\ feature_config(Obj(merged[Len(Sources)])) # Err

ConfigInit ==
  /\ \E s \in Starts : files = s.files /\ sets = s.sets
  /\ load = Idle
  /\ writer_pc = [w \in Writers |-> "idle"]
  /\ request = [w \in Writers |-> [setting |-> "none", entry |-> 0, value |-> None]]
  /\ document = [w \in Writers |-> None]
  /\ answered = <<>>
  /\ raced = {}
  /\ loadable = Loads(files)

ConfigNext ==
  /\ \/ start_load \/ read_entry \/ finish_load
     \/ \E w \in Writers : execute_config(w) \/ write_user_model(w) \/ write_json_object(w) \/ written(w) \/ killed(w)
  /\ UNCHANGED loadable

ConfigSpec == ConfigInit /\ [][ConfigNext]_configVars

(***************************************************************************)
(* Properties.                                                             *)
(***************************************************************************)
Finished == load.next = 0 /\ Len(load.seen) = Len(Sources)
Loaded == Finished /\ load.result # Err
Document(e) == read_optional_json_object(e, load.seen[e])

\* The paths whose values are compared, and the entry with the last word on a path: it has a value
\* there, or something that is no object on the way there.
Paths == {<<"model">>, <<"permissionMode">>, <<"permissions", "defaultMode">>, <<"permissions", "allow">>,
          <<"oauth", "clientId">>, <<"oauth", "scopes">>, <<"sandbox", "enabled">>, <<"sandbox", "filesystemMode">>}
Touches(doc, path) ==
  \/ get_nested_value(doc, path) # None
  \/ (Len(path) = 2 /\ field(doc, path[1]).t \notin {"none", "object"})
LastWord(path) ==
  LET who == {e \in Entries : Document(e) # None /\ Touches(Document(e), path)}
  IN IF who = {} THEN None ELSE get_nested_value(Document(Max(who)), path)

\* A load that succeeds gives every setting the value of the last of the five files that sets it,
\* also where a file sets only some of the fields of a section or replaces the section by something
\* that is no section (deep_merge_objects and the loop of load); the permission mode is that of
\* permissionMode wherever it is set, of permissions.defaultMode otherwise.
LastFileWins ==
  Loaded => /\ \A path \in Paths : get_nested_value(load.merged, path) = LastWord(path)
            /\ load.result.m.mode = parse_permission_mode_label(
                 IF as_str(LastWord(<<"permissionMode">>)) # None THEN LastWord(<<"permissionMode">>)
                 ELSE as_str(LastWord(<<"permissions", "defaultMode">>)))

\* An MCP server comes whole from the last file that names it and its scope is that of this file
\* (merge_mcp_servers), although the merged JSON mixes the fields of all files.
ServersWhole ==
  Loaded => \A n \in DOMAIN load.servers.m :
              LET named == {e \in Entries : field(field(Document(e), "mcpServers"), n) # None}
                  from == Max(named)
              IN /\ load.servers.m[n].m.scope = Str(Sources[from])
                 /\ load.servers.m[n].m.config = parse_mcp_server_config(Document(from).m.mcpServers.m[n])

\* After a load the plugin store lies in the configuration directory, the browser artifacts in the
\* workspace, and a plugin directory outside the workspace was named by the user's own files only
\* (resolve_plugin_storage_path, resolve_plugin_discovery_path, resolve_workspace_bound_path).
PathsContained ==
  Loaded =>
    LET p == load.plugins.m
        external == {p.external.e[i].s : i \in DOMAIN p.external.e}
        lists(e) == {field(field(Document(e), "plugins"), k) : k \in {"bundledRoot", "externalDirectories"}} # {None}
    IN /\ {p.install, p.registry} \subseteq {None, Str("home")}
       /\ load.result.m.browser.m.artifacts = Str("work")
       /\ ("else" \in external \/ p.bundled = Str("else")) => \E e \in Entries : Sources[e] = "user" /\ lists(e)

\* A setting that was answered as set is in its file, with the value answered, whenever no writer is
\* at work on the file: later sets of other settings keep it.  Writers that overlapped on the file,
\* or one killed while it wrote, are the exception: the file has no lock and is written in place.
SetsKept ==
  \A s \in DOMAIN answered :
    LET e == IF s = "user_model" THEN Global ELSE supported_config_setting[s].scope
        path == IF s = "user_model" THEN <<"model">> ELSE supported_config_setting[s].path
    IN e \in raced \/ (\E w \in Writers : Holds(w, e)) \/ get_nested_value(files[e], path) = answered[s]

\* The model the Config tool set, when it is a string, and the permission mode it set, when no file
\* says permissionMode, are what a load that began afterwards uses: the file it writes is merged last.
SetTakesEffect ==
  (Loaded /\ load.seen = files /\ Local \notin raced /\ ~\E w \in Writers : Holds(w, Local)) =>
    /\ ("model" \in DOMAIN answered /\ answered["model"].t = "string") => load.result.m.model = answered["model"]
    /\ ("mode" \in DOMAIN answered /\ LastWord(<<"permissionMode">>) = None)
         => load.result.m.mode = parse_permission_mode_label(answered["mode"])

\* What the Config tool and the onboarding command store, a later load accepts: if the files at the
\* start could be loaded they can be loaded after every step of a writer (normalize_config_value
\* offers no value that parse_permission_mode_label refuses, and an emptied file is an empty object).
StaysLoadable == loadable => Loads(files)

\* All of the above.
ConfigSound == StaysLoadable /\ LastFileWins /\ ServersWhole /\ PathsContained /\ SetsKept /\ SetTakesEffect
=============================================================================
