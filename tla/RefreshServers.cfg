SPECIFICATION FairSpec
CONSTANTS
  Owners = {apex, www}
  Apex = apex
  RequireMatch = TRUE
  ZONEMD = "auto"
  ExpiryWarning = 1
  Zones = {z1}
  Procs = {p1}
  ConcurrentTransfers = 1
  NumServers = 2
  MaxSerial = 3
  Content <- UnsignedBetween
  MaxNow = 0
  MaxRequests = 0
  PreferIXFR = TRUE
  ProbeAllServers = TRUE
  SerialSkewWarning = 0
  ZONEMDMaxAge = TRUE
  ChainEnabled = FALSE
  SnapshotResume = FALSE
  ApplyMayFail = TRUE
  ServersMayFail = FALSE
INVARIANTS
  ValidIsCurrent
PROPERTIES
  NoRegression
  SkewReported
