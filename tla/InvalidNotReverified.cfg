SPECIFICATION FairSpec
CONSTANTS
  Owners = {apex, www}
  Apex = apex
  RequireMatch = TRUE
  ZONEMD = "auto"
  ExpiryWarning = 1
  Zones = {z1}
  Procs = {p1}
  ConcurrentTransfers = 1
  NumServers = 1
  MaxSerial = 2
  Content <- MixedContent
  MaxNow = 0
  MaxRequests = 0
  PreferIXFR = FALSE
  ProbeAllServers = TRUE
  SerialSkewWarning = 0
  ZONEMDMaxAge = FALSE
  ChainEnabled = FALSE
  SnapshotResume = FALSE
  ApplyMayFail = FALSE
  ServersMayFail = FALSE
PROPERTIES
  InvalidReverified
