SPECIFICATION Spec
CONSTANTS
  Half = 4
  NumServers = 1
  ProbeAllServers = TRUE
  PreferIXFR = TRUE
  MaxVersion = 3
  Intervals = {0, 1, 60, 100, 200}
  MinInterval = 30
  MaxInterval = 120
  RetryMin = 10
  RetryMax = 90
  Jitter = 10
INVARIANTS
  RetryFollowsSOA
