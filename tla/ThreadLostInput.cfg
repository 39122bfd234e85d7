\* Two turns whose handlers overlap.
SPECIFICATION Spec
CONSTANTS
  None = None
  Turns = {t1, t2}
  Replies = {}
  Appends = {}
  Writers = {t1, t2}
  t1 = t1
  t2 = t2
  Streams = {}
  Listeners = {}
  Capacity = 2
  ToolRounds = {0}
  MaxCrashes = 0
  MaxStoreFaults = 0
  Serial = FALSE
INVARIANTS AcceptedInputsKept
