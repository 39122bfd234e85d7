\* A protocol stream that may subscribe at any point of two turns and a reply
\* sent one after the other; a slow reader lags a two-slot channel.
SPECIFICATION FairSpec
CONSTANTS
  None = None
  Turns = {t1, t2}
  Replies = {r1}
  Appends = {}
  Writers = {t1, t2, r1}
  t1 = t1
  t2 = t2
  r1 = r1
  Streams = {s1}
  s1 = s1
  Listeners = {}
  Capacity = 2
  ToolRounds = {0}
  MaxCrashes = 0
  MaxStoreFaults = 1
  Serial = TRUE
INVARIANT StreamFidelity
PROPERTIES WatcherLearnsEnd RunsEnd
