SPECIFICATION FairSpec
CONSTANTS
  Owners = {apex, www}
  Apex = apex
  RequireMatch = TRUE
  ZONEMD = "auto"
  ExpiryWarning = 1
  Zones = {z1}
  Procs = {p1, p2}
  ConcurrentTransfers = 2
  NumServers = 1
  MaxSerial = 3
  Content <- MixedContent
  MaxNow = 0
  MaxRequests = 1
  PreferIXFR = TRUE
  ProbeAllServers = TRUE
  SerialSkewWarning = 0
  ZONEMDMaxAge = FALSE
  ChainEnabled = FALSE
  SnapshotResume = FALSE
  ApplyMayFail = FALSE
  ServersMayFail = TRUE
INVARIANTS
  NoFalseValid
  StoreStable
  FullFlagOwned
PROPERTIES
  Converges
