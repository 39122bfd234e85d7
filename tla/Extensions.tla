----------------------------- MODULE Extensions -----------------------------
(***************************************************************************)
(* What surrounds the conversation loop of a process: the gate in front of *)
(* the tools, MCP servers, credentials, the REPL and its saved sessions,   *)
(* the git commands, plugins and skills.  The parts share no state, so     *)
(* that each of them is explored on its own: the variable part says which  *)
(* one a behaviour is of, and the variables of the others are Unused.      *)
(***************************************************************************)
EXTENDS ToolGate, McpBridge, ProviderAuth, ReplSession, GitWorkflow, Plugins, PluginManifest,
        SkillRegistry

VARIABLE part
Unused == "unused"

PartsInit ==
  /\ IF part = "gate" THEN GateInit ELSE setup = Unused /\ attempt = Unused
  /\ IF part = "mcp" THEN McpInit
     ELSE /\ registry = Unused /\ process = Unused /\ tool_index = Unused /\ lock = Unused /\ caller = Unused
          /\ abandoned = Unused /\ calls = Unused /\ notes = Unused
  /\ IF part = "auth" THEN AuthInit
     ELSE /\ settings = Unused /\ keyring = Unused /\ ring = Unused /\ token_file = Unused /\ tmp = Unused
          /\ issued = Unused /\ expired = Unused /\ refreshable = Unused /\ cmd = Unused /\ latest = Unused
          /\ stored_before = Unused /\ signed_out = Unused /\ muddled = Unused /\ changes = Unused
  /\ IF part = "repl" THEN ReplInit
     ELSE /\ cli = Unused /\ disk = Unused /\ clock = Unused /\ count = Unused /\ saves = Unused /\ contested = Unused
  /\ IF part = "git" THEN GitInit
     ELSE /\ head = Unused /\ commits = Unused /\ dirty = Unused /\ index = Unused /\ remote = Unused
          /\ pulls = Unused /\ trees = Unused /\ flow = Unused
  /\ IF part = "plugins" THEN PluginsInit
     ELSE /\ plugin_dirs = Unused /\ plugin_records = Unused /\ enabled = Unused /\ shipped = Unused
          /\ offered = Unused /\ job = Unused /\ wanted = Unused /\ plugin_faults = Unused
  /\ IF part = "manifest" THEN ManifestInit ELSE candidates = Unused /\ phase = Unused /\ ran = Unused
  /\ IF part = "skills" THEN SkillsInit
     ELSE /\ records = Unused /\ dirs = Unused /\ backups = Unused /\ run = Unused /\ begun = Unused /\ cut = Unused
          /\ overlap = Unused
  /\ IF part = "lookup" THEN LookupInit ELSE layout = Unused /\ env_home = Unused /\ asked = Unused

PartsNext ==
  /\ UNCHANGED part
  /\ IF part = "gate" THEN GateNext ELSE UNCHANGED gateVars
  /\ IF part = "mcp" THEN McpNext ELSE UNCHANGED mcpVars
  /\ IF part = "auth" THEN AuthNext ELSE UNCHANGED authVars
  /\ IF part = "repl" THEN ReplNext ELSE UNCHANGED replVars
  /\ IF part = "git" THEN GitNext ELSE UNCHANGED gitVars
  /\ IF part = "plugins" THEN PluginsNext ELSE UNCHANGED pluginVars
  /\ IF part = "manifest" THEN ManifestNext ELSE UNCHANGED manifestVars
  /\ IF part = "skills" THEN SkillsNext ELSE UNCHANGED skillVars
  /\ IF part = "lookup" THEN LookupNext ELSE UNCHANGED lookupVars

partsVars == <<part, gateVars, mcpVars, authVars, replVars, gitVars, pluginVars, manifestVars,
               skillVars, lookupVars>>

PartsSpec == PartsInit /\ [][PartsNext]_partsVars
-----------------------------------------------------------------------------
(***************************************************************************)
(* Properties: those of the modules, for the part they are about.          *)
(***************************************************************************)

\* A tool call that ran was allowed by its own permission or by the user, and
\* stayed inside the workspace where the mode says so; the policy and the
\* enforcer behind it disagree only for a path or a command, an approval is
\* overruled only where the enforcer asks nobody, what the model is offered is
\* what it can call, and the wider mode refuses nothing the narrower allows.
ToolsGated == part = "gate" =>
  RunsOnlyPermitted /\ GatesAgree /\ ApprovalLostExactly /\ OfferedIsCallable /\ ModesNested

\* A caller of an MCP tool gets the answer to its own call from the server it
\* named, no server process outlives the calls unless a discovery failed, and
\* the two reports on the servers agree, with callers that share one bridge.
BridgeSound == part = "mcp" => AnswersMatch /\ NoProcessLeftOver /\ ReportsAgree

\* A stored token is loaded again whatever failed while it was written, and
\* nothing once logged out; none is sent once expired, and requests are
\* retried in bounds.
ProvidersSound == part = "auth" => CredentialsSound

\* The permission mode shown is the one in force, through every sequence of
\* REPL commands, no completed turn is lost to a switch, a resume or a kill,
\* and no turn starts over an open question.
ReplSound == part = "repl" => ModeInForce /\ TurnsKept /\ NoTurnOverQuestion

\* Local files are never committed, a commit holds what its message describes,
\* and what /commit-push-pr reports as published is, after failures and with
\* edits between its steps.
GitSound == part = "git" => LocalFilesStayLocal /\ CommittedWasDescribed /\ PublishedTruthfully

\* The plugin registry, the directories and the enabled flags agree with each
\* other and with what the user asked for, through interrupted operations; and
\* a manifest that was accepted is contained, usable and shut down in reverse.
PluginsSound ==
  /\ part = "plugins" => PluginsTypeOK /\ RegistryAgrees /\ BundledCurrent /\ UpdateKeepsInstall
                          /\ EnabledIsWanted
  /\ part = "manifest" => AcceptedIsUsable /\ ReadyIsContained /\ ShutdownMirrorsInit

\* The record of a skill names the version in its directory, only compatible
\* versions are installed unasked, and the skill that is listed, or installed
\* without a warning, is the one the tool runs.
SkillsSound == /\ part = "skills" => RecordMatchesDirectory /\ InstalledIsCompatible
               /\ part = "lookup" => ListedIsUsed /\ UnwarnedIsUsed
=============================================================================
