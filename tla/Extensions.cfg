\* One process' tools, providers, plugins, skills and sessions, part by part.
INIT MCInit
NEXT MCNext
CONSTANTS
  PluginTools <- SomePlugins
  TokenLists <- SomeTokens
  BashCommands <- SomeCommands
  Callers = {c1, c2}
  Servers = {"s1", "s2", "s3"}
  Order <- ServerOrder
  Transport <- Transports
  Normal <- Unchanged
  MaxNotes = 1
  MaxCalls = 2
  Calls = {0, 1}
  AskCall = 1
  Pieces = 2
  Consumer = "agent"
  MaxWire = 4
  Commands = {c1, c2}
  Kinds = {"login", "logout", "prompt", "doctor"}
  MaxTokens = 2
  MaxChanges = 1
  max_retries = 2
  initial_backoff = 2
  max_backoff = 3
  Clis = {c1, c2}
  Ceilings = {"workspace-write"}
  QuestionKinds = {"free"}
  MaxTurns = 1
  MaxClock = 1
  Default = main
  Branches = {main, topic}
  NewBranch = topic
  Trees = {t1}
  External = {e1}
  Bundled = {b1}
  MaxVersion = 2
  MaxPluginFaults = 2
  RawManifests <- Manifests
  SkillCommands = {c1, c2}
  Skills = {x, y}
  Versions = {1, 3}
  Offers <- SomeOffers
  MaxRuns = 3
  SavedMessages <- SomeMessages
  Telemetries <- SomeTelemetry
  Foreign <- SomeFiles
  MaxSaved = 2
  MaxFaults = 1
  Messages <- Turns
  Files <- KeyFiles
  PendingWords = {"todo", "next"}
  Configs <- SomeConfigs
  Width = 16
  Brief = 2
  Wide = 3
  MaxFiles = 1
  MaxMessages = 4
INVARIANTS ToolsGated BridgeSound ProvidersSound ReplSound GitSound   SessionsSound
CHECK_DEADLOCK FALSE
