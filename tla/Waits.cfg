\* The plugins crate's hook runner with three commands, and calls of two
\* clients, or of one that asks, on a server that crashes once.
SPECIFICATION MCSpec
CONSTANTS
  Commands = 3
  Children <- Orderly
  BrokenPipeTolerated = TRUE
  TurnCalls = {t1, t2}
  ReplyCalls = {a1, a2}
  Scenarios = {{t1, t2}, {t1, a1}}
  SubmitAttempts = 2
  ReadAttempts = 2
  MaxRuns = 3
  MaxFaults = 1
INVARIANTS HooksSound 
PROPERTY EveryoneReturns
CHECK_DEADLOCK FALSE
