SPECIFICATION FairSpec
CONSTANTS
  NumTargets = 2
  Wants <- TwoTargets
  QueueSize = 1
  MaxRetries = 1
  Clients = {"c1"}
  ClientBuffer = 1
  MaxCommits = 1
  MaxSweeps = 1
CHECK_DEADLOCK FALSE
INVARIANTS
  Accounted
  ResultsTrue
PROPERTIES
  NobodyBlocks
