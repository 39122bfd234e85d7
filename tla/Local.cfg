\* The conversation loop and the tools, commands and files of one machine,
\* part by part.
SPECIFICATION MCSpec
CONSTANTS
  Replies <- QuestionLast
  active_mode = "workspace-write"
  Prompting = TRUE
  max_iterations = 2
  preserve_recent = 2
  MaxMessages = 6
  MaxIds = 5
  Workers = {w1}
  Listings <- SomeListings
  Limits = {0, 1, 2}
  Mounts = {"m1"}
  Editors = {e1, e2}
  MaxEdits = 3
  PipeSize = 1
  MaxOutput = 3
  MaxHits = 2
  BrowserInputs <- SomeInputs
  MaxBrowserPolls = 2
  MaxNoise = 1
  a1 = a1
  a2 = a2
  Agents = {a1, a2}
  Scopes <- SomeScopes
  Callers = {c1, c2}
  Operations = {"open", "sync", "close", "define", "diagnostics", "shutdown"}
  MaxCalls = 2
  MaxClients = 2
  MaxFaults = 1
  CommandLines <- SomeLines
  Profiles <- SomeProfiles
  ToolNeeds <- SomeNeeds
  History <- SomeHistory
  Completions <- SomeCompletions
  VimLine <- SlashVim
  Typed = {"E"}
  MaxBytes = 3
  Installers = {i1, i2}
  Binds = {"a", "b"}
  Platforms = {"systemd_user", "launchd_agent", "windows_task_scheduler"}
  MaxInstalls = 3
  OnboardStarts <- SomeOnboardings
  MaxChanges = 1
  Starts <- SomeSettings
  Writers = {w1, w2}
  Inputs <- SomeRequests
INVARIANTS ConversationSound FilesAndShellSound LocalToolsSound  AgentRecordsSound
INVARIANTS LanguageServerSound CommandLineSound SetupSound
PROPERTY OutcomeAgrees
CHECK_DEADLOCK FALSE
