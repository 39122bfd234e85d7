\* Two team creations that compete for two tasks, a cron entry, and
\* everything the other tools do meanwhile; or two callers of the tools. A
\* worker sets its task to failed; of the other statuses, running is like
\* created and completed like stopped.
INIT MCInit
NEXT MCNext
CONSTANTS
  Creators = {c1, c2}
  Requests <- TwoTasks
  WorkerStatuses = {"failed"}
  MaxTasks = 2
  MaxCrons = 1
  MaxRuns = 1
  Callers = {u1, u2}
  MaxPolls = 1
SYMMETRY Symmetric
INVARIANTS MembershipAgrees ShownTruthfully ToolAnswersHold
