SPECIFICATION Spec
CONSTANTS
  Half = 4
  NumServers = 3
  ProbeAllServers = TRUE
  PreferIXFR = TRUE
  MaxVersion = 9
  Intervals = {0, 1, 4}
  MinInterval = 2
  MaxInterval = 3
  RetryMin = 3
  RetryMax = 2
  Jitter = 50
INVARIANTS
  BestIsNewest
  SkewExact
  WaitInRange
