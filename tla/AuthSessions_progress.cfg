CONSTANTS
  Sessions = {s1}
  Handlers = {h1, h2}
  TheftThreshold = 2
  MaxGen = 3
  MaxBumps = 1
  MaxReplays = 2
  Faulty = FALSE
SPECIFICATION FairSpec
CHECK_DEADLOCK FALSE
INVARIANT CurrentPairExists
PROPERTY ReplayKillsSession
