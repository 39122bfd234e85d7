\* Clients that wait for the end of a request before the next one, and a
\* legacy listener that may subscribe at any point.
SPECIFICATION Spec
CONSTANTS
  None = None
  Turns = {t1, t2}
  Replies = {r1}
  Appends = {a1}
  Writers = {t1, t2, r1, a1}
  t1 = t1
  t2 = t2
  r1 = r1
  a1 = a1
  Streams = {}
  Listeners = {l1}
  l1 = l1
  Capacity = 2
  ToolRounds = {1}
  MaxCrashes = 1
  MaxStoreFaults = 0
  Serial = TRUE
SYMMETRY Symmetric
INVARIANTS AcceptedInputsKept LegacyStreamComplete
