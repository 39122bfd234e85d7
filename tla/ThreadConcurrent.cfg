\* Every interleaving of two turns and a reply, with a crash and a failing
\* upsert; no streams.
SPECIFICATION Spec
CONSTANTS
  None = None
  Turns = {t1, t2}
  Replies = {r1}
  Appends = {}
  Writers = {t1, t2, r1}
  t1 = t1
  t2 = t2
  r1 = r1
  Streams = {}
  Listeners = {}
  Capacity = 4
  ToolRounds = {0}
  MaxCrashes = 1
  MaxStoreFaults = 1
  Serial = FALSE
SYMMETRY Symmetric
INVARIANTS RunOwned ActiveInputDurable StaleRowInterrupts RecoveryConsistent
PROPERTY ImplementsLifecycle
