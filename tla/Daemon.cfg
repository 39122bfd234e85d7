\* Commands that overlap and commands one at a time.
SPECIFICATION FairSpec
CONSTANTS
  start = start
  recover = recover
  stop = stop
  Starts = {start}
  Recovers = {recover}
  Stops = {stop}
  MaxServers = 2
  MaxPolls = 1
  Scenes <- Three
INVARIANTS CommandsSafe ServersReachable
PROPERTIES CommandsEnd LiveRecordKept
