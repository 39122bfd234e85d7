----------------------------- MODULE Onboarding -----------------------------
(***************************************************************************)
(* openyak onboard, init and doctor (openyak-cli onboard.rs, init.rs and   *)
(* main.rs).  The wizard assesses the workspace, offers to initialise it,  *)
(* to store a default model and to log in, and ends with the doctor's      *)
(* report; meanwhile other processes edit files, log in and out, and       *)
(* tokens expire.  A behaviour is about one scene: the wizard, the         *)
(* doctor's view of the local daemon, or the guidance file init writes.    *)
(***************************************************************************)
EXTENDS Integers, Sequences, FiniteSets, SequencesExt

CONSTANTS OnboardStarts,      \* [world, repo]: the settings and the workspace at the start
          MaxChanges   \* what other processes change

VARIABLES scene,
          world,       \* settings, environment, credentials
          repo,        \* what init creates
          stage, override, assessment, lines, verdict,   \* the wizard; lines: .gitignore as init read it
          changes, original, added, unseen,   \* history: changes elsewhere, of .gitignore the lines at the
                       \* start and the number added since, and whether one was added while init held it
          markers,     \* what init finds in a repository it describes
          daemon       \* what the doctor finds out about the local server

onboardVars == <<scene, world, repo, stage, override, assessment, lines, verdict, changes, original, added, unseen, daemon, markers>>
wizardVars == <<world, repo, stage, override, assessment, lines, verdict, changes, original, added, unseen>>

Unset == "none"

(***************************************************************************)
(* Models and providers.  "opus" and "grok" are aliases, "other" a name no *)
(* registry knows.  The providers with a key of their own are one, "xai".  *)
(***************************************************************************)
DEFAULT_MODEL == "claude"
resolve_model_alias(m) == CASE m = "opus" -> "claude" [] m = "grok" -> "grok-3" [] OTHER -> m

Keys == {Unset, "blank", "set"}    \* an environment variable: unset or empty, only spaces, set
Saved == {"missing", "ready", "expired", "refreshable", "unreadable"}
FileOrDir == {"absent", "file", "dir"}
Homes == [user : STRING, project : STRING, config : {"ok", "broken"},
          oauth : {"absent", "partial", "complete"}, saved : Saved, anthropic : Keys, xai : Keys]
Workspaces == [dir : FileOrDir, json : FileOrDir, md : FileOrDir,
               ignore : [is : {"absent", "file", "unreadable"}, lines : Seq(STRING)]]
ASSUME OnboardAssumption == OnboardStarts \subseteq [world : Homes, repo : Workspaces]

read_env_non_empty(v) == v # Unset
env_var_present(v) == v = "set"

detect_provider_kind(w, m) ==
  CASE resolve_model_alias(m) = "claude" -> "openyak"
    [] resolve_model_alias(m) = "grok-3" -> "xai"
    [] read_env_non_empty(w.anthropic) \/ w.saved \notin {"missing", "unreadable"} -> "openyak"
    [] read_env_non_empty(w.xai) -> "xai"
    [] OTHER -> "openyak"

\* Settings: the user's model and the project's; a load takes the project's where it is set.
configured_model(w) == IF w.project # Unset THEN w.project ELSE w.user
configured_oauth_config(w) == w.oauth    \* "absent", "partial" (an error) or "complete"

(***************************************************************************)
(* What the wizard says about authentication.                              *)
(***************************************************************************)
Auth(provider, summary, login) == [provider |-> provider, summary |-> summary, login |-> login]

assess_openyak_auth(w) ==
  LET oauth == IF w.config = "broken" THEN Unset ELSE configured_oauth_config(w)
  IN Auth("openyak",
          IF env_var_present(w.anthropic) THEN "ready"
          ELSE CASE oauth = "complete" -> (CASE w.saved = "ready" -> "ready"
                                             [] w.saved = "refreshable" -> "refresh"
                                             [] OTHER -> "login")
                 [] oauth = "partial" -> "incomplete"
                 [] OTHER -> "unconfigured",
          oauth = "complete")

assess_env_auth(w) == Auth("xai", IF env_var_present(w.xai) THEN "ready" ELSE "missing", FALSE)

assess_auth(w, m) == IF detect_provider_kind(w, m) = "openyak" THEN assess_openyak_auth(w) ELSE assess_env_auth(w)

(***************************************************************************)
(* init.                                                                   *)
(***************************************************************************)
Comment == "comment"
IgnoreEntries == <<"settings.local", "sessions">>
Has(s, x) == \E i \in DOMAIN s : s[i] = x

assess_repo_init(r) ==
  /\ r.dir = "dir" /\ r.json = "file" /\ r.md = "file"
  /\ r.ignore.is = "file" /\ \A i \in DOMAIN IgnoreEntries : Has(r.ignore.lines, IgnoreEntries[i])

with_line(s, x) == IF Has(s, x) THEN s ELSE Append(s, x)

with_entries(s) == with_line(with_line(with_line(s, Comment), IgnoreEntries[1]), IgnoreEntries[2])

(***************************************************************************)
(* The doctor's checks: "ok", "warning" or "error".                        *)
(***************************************************************************)
doctor_oauth_config_check(w) == IF configured_oauth_config(w) = "partial" THEN "error" ELSE "ok"
doctor_saved_oauth_check(w) ==
  CASE w.saved \in {"expired", "refreshable"} -> "warning" [] w.saved = "unreadable" -> "error" [] OTHER -> "ok"

\* resolve_startup_auth_source; refreshes: the provider renews an expired token when it is asked.
startup_auth(w, refreshes) ==
  \/ read_env_non_empty(w.anthropic)
  \/ w.saved = "ready"
  \/ w.saved = "refreshable" /\ configured_oauth_config(w) = "complete" /\ refreshes
doctor_active_model_auth_check(w, requested, refreshes) ==
  LET asked == IF requested # Unset THEN requested ELSE configured_model(w)
      model == IF asked = Unset THEN DEFAULT_MODEL ELSE asked
      usable == IF detect_provider_kind(w, model) = "openyak" THEN startup_auth(w, refreshes)
                ELSE read_env_non_empty(w.xai)
  IN IF usable THEN "ok" ELSE "warning"

collect_doctor_report(w, requested, refreshes) ==
  IF w.config = "broken"
  THEN [config |-> "error", oauth |-> "warning", credentials |-> doctor_saved_oauth_check(w), auth |-> "warning"]
  ELSE [config |-> "ok", oauth |-> doctor_oauth_config_check(w), credentials |-> doctor_saved_oauth_check(w),
        auth |-> doctor_active_model_auth_check(w, requested, refreshes)]
has_errors(report) == \E c \in DOMAIN report : report[c] = "error"

\* render_completion_summary
completion_of(report) ==
  CASE has_errors(report) -> "needs follow-up"
    [] \E c \in DOMAIN report : report[c] = "warning" -> "ready with warnings"
    [] OTHER -> "ready"

collect_assessment(w, r, requested) ==
  LET configured == IF w.config = "broken" THEN Unset ELSE configured_model(w)
      asked == IF requested # Unset THEN requested ELSE configured
      model == resolve_model_alias(IF asked = Unset THEN DEFAULT_MODEL ELSE asked)
  IN [model |-> model, auth |-> assess_auth(w, model), repo_ready |-> assess_repo_init(r), of |-> w]

(***************************************************************************)
(* The wizard.  A prompt is answered run, skip or cancel; the end of input *)
(* is a cancel.                                                            *)
(***************************************************************************)
Lines == {"", "y", "q"}    \* what is typed; the end of input reads as q
read_choice(line) == CASE line = "y" -> "run" [] line = "q" -> "cancel" [] OTHER -> "skip"
doctor_choice(line) == IF line = "q" THEN "cancel" ELSE "run"

\* The menu of models: the effective one, a known one, or one that is typed in.
ModelLines == {"", "q", "1", "2", "5"}
model_choice(line, custom, effective) ==
  CASE line = "1" -> effective
    [] line = "2" -> "claude"
    [] line = "5" /\ custom = "q" -> "cancel"
    [] line = "5" /\ custom \notin {"", "q"} -> resolve_model_alias(custom)
    [] line = "q" -> "cancel"
    [] OTHER -> "skip"

unchangedElse == UNCHANGED <<scene, daemon, markers, changes, original, added, unseen>>
at(p) == scene = "wizard" /\ stage = p
stop(how) == stage' = "stopped" /\ verdict' = how

Unassessed == [model |-> Unset, auth |-> Auth(Unset, Unset, FALSE), repo_ready |-> FALSE, of |-> world]

\* Only for a terminal and text output; the assessment is made again by the session.
run_onboard ==
  /\ at("start")
  /\ \E requested \in {Unset, "opus", "grok", "other"}, interactive \in BOOLEAN :
       /\ override' = IF requested = Unset THEN Unset ELSE resolve_model_alias(requested)
       /\ assessment' = collect_assessment(world, repo, override')
       /\ IF ~interactive THEN stop("refused")
          ELSE stage' = (IF assessment'.repo_ready THEN "model" ELSE "init") /\ UNCHANGED verdict
  /\ UNCHANGED <<world, repo, lines>> /\ unchangedElse

prompt_repo_init ==
  /\ at("init")
  /\ \E line \in Lines :
       LET choice == read_choice(line)
       IN IF choice = "cancel" THEN stop("cancelled")
          ELSE stage' = (IF choice = "run" THEN "ensure_dir" ELSE "model") /\ UNCHANGED verdict
  /\ UNCHANGED <<world, repo, override, assessment, lines>> /\ unchangedElse

\* initialize_repo, one artifact after the other; an error ends the wizard.
ensure_dir ==
  /\ at("ensure_dir")
  /\ IF repo.dir = "file" THEN stop("error") /\ UNCHANGED repo
     ELSE stage' = "write_json" /\ repo' = [repo EXCEPT !.dir = "dir"] /\ UNCHANGED verdict
  /\ UNCHANGED <<world, override, assessment, lines>> /\ unchangedElse

if_missing(is) == IF is = "absent" THEN "file" ELSE is

write_json ==
  /\ at("write_json")
  /\ stage' = "read_ignore" /\ repo' = [repo EXCEPT !.json = if_missing(@)]
  /\ UNCHANGED <<world, override, assessment, lines, verdict>> /\ unchangedElse

\* ensure_gitignore_entries
read_ignore ==
  /\ at("read_ignore")
  /\ IF repo.ignore.is = "unreadable" THEN stop("error") /\ UNCHANGED lines
     ELSE /\ lines' = repo.ignore.lines
          /\ stage' = (IF repo.ignore.is = "file" /\ with_entries(repo.ignore.lines) = repo.ignore.lines
                    THEN "write_md" ELSE "write_ignore")
          /\ UNCHANGED verdict
  /\ UNCHANGED <<world, repo, override, assessment>> /\ unchangedElse

write_ignore ==
  /\ at("write_ignore")
  /\ stage' = "write_md" /\ repo' = [repo EXCEPT !.ignore = [is |-> "file", lines |-> with_entries(lines)]]
  /\ UNCHANGED <<world, override, assessment, lines, verdict>> /\ unchangedElse

\* The guidance file, and the new assessment behind initialize_repo.
write_md ==
  /\ at("write_md")
  /\ stage' = "model" /\ repo' = [repo EXCEPT !.md = if_missing(@)]
  /\ assessment' = collect_assessment(world, repo', override)
  /\ verdict' = "initialised"
  /\ UNCHANGED <<world, override, lines>> /\ unchangedElse

\* prompt_model and persist_default_model: the file must be readable, then it is written.
prompt_model ==
  /\ at("model")
  /\ \E line \in ModelLines, custom \in {"", "q", "grok", "other"} :
       LET choice == model_choice(line, custom, assessment.model)
       IN CASE choice = "skip" -> stage' = "auth" /\ UNCHANGED <<world, override, assessment, verdict>>
            [] choice = "cancel" -> stop("cancelled") /\ UNCHANGED <<world, override, assessment>>
            [] OTHER ->
                 IF world.user = "unparsable" THEN stop("error") /\ UNCHANGED <<world, override, assessment>>
                 ELSE /\ stage' = "auth" /\ verdict' = "persisted"
                      /\ world' = [world EXCEPT !.user = choice] /\ override' = choice
                      /\ assessment' = collect_assessment(world', repo, choice)
  /\ UNCHANGED <<repo, lines>> /\ unchangedElse

prompt_login ==
  /\ at("auth")
  /\ IF assessment.auth.provider # "openyak" \/ ~assessment.auth.login
     THEN stage' = "doctor" /\ UNCHANGED <<world, assessment, verdict>>
     ELSE \E line \in Lines, works \in BOOLEAN :
            CASE read_choice(line) = "skip" -> stage' = "doctor" /\ UNCHANGED <<world, assessment, verdict>>
              [] read_choice(line) = "cancel" -> stop("cancelled") /\ UNCHANGED <<world, assessment>>
              [] OTHER ->   \* run_login loads the settings again
                   IF works /\ world.config = "ok" /\ world.oauth = "complete"
                   THEN /\ stage' = "doctor" /\ verdict' = "logged in" /\ world' = [world EXCEPT !.saved = "ready"]
                        /\ assessment' = collect_assessment(world', repo, override)
                   ELSE stop("error") /\ UNCHANGED <<world, assessment>>
  /\ UNCHANGED <<repo, override, lines>> /\ unchangedElse

\* A successful refresh replaces the saved token.
prompt_doctor ==
  /\ at("doctor")
  /\ \E line \in Lines, refreshes \in BOOLEAN :
          LET report == collect_doctor_report(world, Unset, refreshes)
              renewed == /\ refreshes /\ world.config = "ok" /\ world.saved = "refreshable" /\ world.oauth = "complete"
                         /\ ~read_env_non_empty(world.anthropic)
                         /\ detect_provider_kind(world, IF configured_model(world) = Unset THEN DEFAULT_MODEL
                                                        ELSE configured_model(world)) = "openyak"
          IN IF doctor_choice(line) = "cancel" THEN stop("cancelled") /\ UNCHANGED world
             ELSE /\ stop(completion_of(report))
                  /\ world' = IF renewed THEN [world EXCEPT !.saved = "ready"] ELSE world
  /\ UNCHANGED <<repo, override, assessment, lines>> /\ unchangedElse

\* Other processes: a line added to .gitignore, logout, a token that expires, settings edited.
elsewhere ==
  /\ scene = "wizard" /\ changes < MaxChanges /\ stage # "stopped"
  /\ changes' = changes + 1
  /\ \/ /\ repo.ignore.is = "file" /\ repo' = [repo EXCEPT !.ignore = [is |-> "file", lines |-> Append(repo.ignore.lines, "theirs")]]
        /\ added' = added + 1 /\ unseen' = (unseen \/ stage = "write_ignore") /\ UNCHANGED world
     \/ /\ \/ \E s \in {"missing", "expired", "refreshable"} : world' = [world EXCEPT !.saved = s]
           \/ \E o \in {"absent", "partial"} : world' = [world EXCEPT !.oauth = o]
        /\ UNCHANGED <<repo, added, unseen>>
  /\ UNCHANGED <<scene, stage, override, assessment, lines, verdict, original, daemon, markers>>

(***************************************************************************)
(* The doctor and the local daemon: the status report, the bundle staged   *)
(* by server install and the configured MCP servers.                       *)
(***************************************************************************)
Statuses == {"running", "not_running", "stale_registration", "invalid_registration"}
Servers == {"stdio", "stdio_missing", "http_auth", "http", "ws"}   \* transports, with what bootstrap finds

inspect_mcp_server(s) ==
  CASE s = "stdio" -> "ready" [] s = "http_auth" -> "auth_required" [] OTHER -> "degraded"
Count(servers, status) == Cardinality({i \in DOMAIN servers : inspect_mcp_server(servers[i]) = status})

\* "broken" settings: a problem report that counts no server.
capability_actions(degraded, auth) ==
  (IF degraded > 0 THEN {"repair mcp"} ELSE {}) \cup (IF auth > 0 THEN {"mcp auth"} ELSE {})
mcp_capability(servers, config) ==
  LET degraded == Count(servers, "degraded")
      auth == Count(servers, "auth_required")
  IN CASE config = "broken" -> [status |-> "degraded", ready |-> 0, actions |-> {"repair settings"}]
       [] config # "broken" /\ servers = <<>> -> [status |-> "disabled", ready |-> 0, actions |-> {}]
       [] OTHER -> [status |-> IF degraded > 0 THEN "degraded" ELSE IF auth > 0 THEN "auth_required" ELSE "ready",
                    ready |-> Count(servers, "ready"), actions |-> capability_actions(degraded, auth)]
capabilities_are_degraded(c) == c.status \in {"degraded", "auth_required"}

recommended_actions(status) ==
  CASE status = "invalid_registration" -> {"rewrite discovery"}
    [] status = "stale_registration" -> {"recover"}
    [] status = "not_running" -> {"start or recover"}
    [] OTHER -> {}

\* The recovery a status report carries.
thread_server_operator_lifecycle(status, problem) ==
  CASE status = "stale_registration" -> "clear_stale_and_restart"
    [] status = "invalid_registration" -> "manual_repair_required"
    [] status \in {"start_failed", "recover_failed", "stop_failed"} -> "inspect_error_and_retry"
    [] status = "bind_conflict" -> "stop_and_restart_with_requested_bind"
    [] status = "not_running" /\ problem -> "reattach_or_start"
    [] OTHER -> Unset

doctor_local_daemon_hint(status, install, c) ==
  recommended_actions(status)
    \cup (IF status \in {"running", "stale_registration"} THEN {"stop"} ELSE {})
    \cup (IF install = "missing" /\ status # "running" THEN {"install"} ELSE {})
    \cup (IF install = "present" /\ status # "running" THEN {"activate", "readme"} ELSE {})
    \cup (IF install = "present" /\ status \in {"stale_registration", "invalid_registration"} THEN {"reinstall"} ELSE {})
    \cup (IF install = "invalid" THEN {"replace bundle"} ELSE {})
    \cup (IF status = "running" /\ capabilities_are_degraded(c) THEN c.actions ELSE {})
    \cup {"status"}

doctor_local_daemon_check(status, install, c) ==
  CASE status = "running" -> IF capabilities_are_degraded(c) \/ install = "invalid" THEN "warning" ELSE "ok"
    [] status = "not_running" -> IF install = "invalid" THEN "warning" ELSE "ok"
    [] status = "stale_registration" -> "warning"
    [] OTHER -> "error"

\* The GitHub CLI, for the doctor and for the commands that need it.
inspect_github_cli(path, runs, authenticated) ==
  IF ~path THEN "missing" ELSE IF ~runs THEN "unavailable" ELSE IF authenticated THEN "ready" ELSE "auth_missing"
doctor_github_cli_check(gh) == IF gh = "ready" THEN "ok" ELSE "warning"
github_cli_ready(gh) == gh = "ready"

NotAsked == [status |-> Unset, install |-> Unset, hint |-> {}, check |-> Unset, recovery |-> Unset,
             capability |-> [status |-> Unset, ready |-> 0, actions |-> {}], servers |-> <<>>, config |-> "ok",
             gh |-> Unset, gh_check |-> Unset, gh_usable |-> FALSE]

run_doctor ==
  /\ scene = "daemon" /\ daemon = NotAsked
  /\ \E status \in Statuses, install \in {"missing", "present", "invalid"}, servers \in SeqOf(Servers, 2),
        config \in {"ok", "broken"}, path, runs, authenticated \in BOOLEAN :
       LET c == mcp_capability(servers, config)
           gh == inspect_github_cli(path, runs, authenticated)
       IN daemon' = [status |-> status, install |-> install, hint |-> doctor_local_daemon_hint(status, install, c),
                     check |-> doctor_local_daemon_check(status, install, c),
                     recovery |-> thread_server_operator_lifecycle(status, status \notin {"running", "not_running"}),
                     capability |-> c, servers |-> servers, config |-> config, gh |-> gh,
                     gh_check |-> doctor_github_cli_check(gh), gh_usable |-> github_cli_ready(gh)]
  /\ UNCHANGED <<scene, wizardVars, markers>>

(***************************************************************************)
(* The guidance file: what init finds and what it says about it.           *)
(***************************************************************************)
InPackage == {"typescript", "next", "react", "vite", "nestjs"}   \* named in package.json
Markers == InPackage \cup {"rust/Cargo.toml", "Cargo.toml", "pyproject.toml", "setup.py", "package.json",
                           "tsconfig.json", "src", "tests"}
detect_repo(found) ==
  [rust |-> found \cap {"rust/Cargo.toml", "Cargo.toml"} # {}, python |-> found \cap {"pyproject.toml", "setup.py"} # {},
   package |-> "package.json" \in found, typescript |-> found \cap {"tsconfig.json", "typescript"} # {},
   both |-> {"src", "tests"} \subseteq found]
detected_languages(d) ==
  (IF d.rust THEN {"Rust"} ELSE {}) \cup (IF d.python THEN {"Python"} ELSE {})
    \cup (IF d.typescript THEN {"TypeScript"} ELSE IF d.package THEN {"JavaScript"} ELSE {})
detected_frameworks(found) == found \cap {"next", "react", "vite", "nestjs"}

verification_lines(found, d) ==
  (IF d.rust THEN {"Rust"} ELSE {}) \cup (IF d.python THEN {"Python"} ELSE {})
    \cup (IF d.package THEN {"package"} ELSE {}) \cup (IF d.both THEN {"src and tests"} ELSE {})
framework_notes(found) ==
  detected_frameworks(found) \ (IF "next" \in found THEN {"react"} ELSE {})

describe ==
  /\ scene = "guide" /\ markers = {}
  /\ \E found \in SUBSET Markers :
       /\ "package.json" \notin found => found \cap InPackage = {}
       /\ markers' = found
  /\ UNCHANGED <<scene, wizardVars, daemon>>

OnboardInit ==
  /\ scene \in {"wizard", "daemon", "guide"}
  /\ \E s \in OnboardStarts :
       /\ world = s.world /\ repo = s.repo
       /\ scene # "wizard" => s = CHOOSE any \in OnboardStarts : TRUE
  /\ stage = "start" /\ override = Unset /\ assessment = Unassessed /\ lines = <<>> /\ verdict = Unset
  /\ changes = 0 /\ original = repo.ignore.lines /\ added = 0 /\ unseen = FALSE
  /\ daemon = NotAsked /\ markers = {}

OnboardNext ==
  \/ run_onboard \/ prompt_repo_init \/ ensure_dir \/ write_json \/ read_ignore \/ write_ignore \/ write_md
  \/ prompt_model \/ prompt_login \/ prompt_doctor \/ elsewhere
  \/ run_doctor \/ describe

OnboardSpec == OnboardInit /\ [][OnboardNext]_onboardVars

(***************************************************************************)
(* Properties.                                                             *)
(***************************************************************************)
\* A workspace that init ran in without an error is one the next run need not initialise: what
\* initialize_repo writes is what assess_repo_init looks for.  A directory with the name of a file
\* is the exception: init takes it for the file (write_file_if_missing), the assessment does not.
ReadyAfterInit ==
  (verdict = "initialised" /\ repo.json # "dir" /\ repo.md # "dir") => assessment.repo_ready

\* init keeps the lines of .gitignore and those others add, in their order; a line added between its
\* read and its write is the exception (ensure_gitignore_entries writes what it read).  It adds none
\* of its own lines where there is one.
Times(s, x) == Cardinality({i \in DOMAIN s : s[i] = x})
IgnoreKept ==
  (scene = "wizard" /\ ~unseen /\ stage # "write_ignore" /\ repo.ignore.is = "file") =>
    /\ IsPrefix(original, repo.ignore.lines)
    /\ Times(repo.ignore.lines, "theirs") = Times(original, "theirs") + added
    /\ \A x \in {Comment, IgnoreEntries[1], IgnoreEntries[2]} :
         Times(repo.ignore.lines, x) \in {1, Times(original, x)}

\* Where the wizard says that authentication is ready, the doctor's bootstrap of the same model at
\* the same moment succeeds: assess_auth and resolve_startup_auth_source read the same sources.
ReadyMeansUsable ==
  (assessment.model # Unset /\ assessment.auth.summary = "ready") =>
    doctor_active_model_auth_check(assessment.of, assessment.model, FALSE) = "ok"

\* And where the bootstrap succeeds the wizard does not ask for a key or a login, except for saved
\* credentials while settings.oauth is gone or incomplete (the bootstrap needs no settings for a token
\* that has not expired), and for a key that is only spaces.
UsableIsSaid ==
  (/\ assessment.model # Unset
   /\ doctor_active_model_auth_check(assessment.of, assessment.model, FALSE) = "ok"
   /\ "blank" \notin {assessment.of.anthropic, assessment.of.xai}
   /\ assessment.of.oauth = "complete" /\ assessment.of.config = "ok")
  => assessment.auth.summary = "ready"

\* The advice that follows a stored default model is about the model the next openyak will use,
\* unless the project's settings name another one (the project's file is merged over the user's).
AdviceForNextRun ==
  (verdict = "persisted" /\ world.project = Unset) =>
    assessment.model = resolve_model_alias(configured_model(world))

\* A daemon check that is not ok names a repair in its hint and an ok one names none; the hint, the
\* status of the check and the recovery of the status report are computed apart.
Repairs == {"rewrite discovery", "recover", "replace bundle", "repair mcp", "mcp auth", "repair settings"}
HintsFit ==
  daemon # NotAsked =>
    /\ daemon.check # "ok" <=> daemon.hint \cap Repairs # {}
    /\ daemon.check = "error" => daemon.recovery = "manual_repair_required"
    /\ daemon.capability.status = "ready" =>
         daemon.capability.ready = Len(daemon.servers) /\ daemon.capability.actions = {}
    /\ daemon.gh_usable <=> daemon.gh_check = "ok"

\* The guidance file says how to verify every language it names, TypeScript known from tsconfig.json
\* alone being the exception, and has a note on a framework only if it lists it.
GuidanceComplete ==
  LET d == detect_repo(markers)
      line(l) == IF l \in {"TypeScript", "JavaScript"} THEN "package" ELSE l
  IN /\ \A l \in detected_languages(d) :
          line(l) \in verification_lines(markers, d) \/ (l = "TypeScript" /\ "package.json" \notin markers)
     /\ framework_notes(markers) \subseteq detected_frameworks(markers)
     /\ detected_frameworks(markers) # {} => framework_notes(markers) # {} /\ detected_languages(d) # {}

\* All of the above.
OnboardSound ==
  GuidanceComplete /\
  ReadyAfterInit /\ IgnoreKept /\ ReadyMeansUsable /\ UsableIsSaid /\ AdviceForNextRun /\ HintsFit
=============================================================================
