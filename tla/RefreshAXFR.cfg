SPECIFICATION FairSpec
CONSTANTS
  Owners = {apex, www}
  Apex = apex
  RequireMatch = TRUE
  ZONEMD = "auto"
  ExpiryWarning = 1
  Zones = {z1}
  Procs = {p1}
  ConcurrentTransfers = 1
  NumServers = 1
  MaxSerial = 2
  Content <- AgingContent
  MaxNow = 2
  MaxRequests = 0
  PreferIXFR = FALSE
  ProbeAllServers = TRUE
  SerialSkewWarning = 0
  ZONEMDMaxAge = FALSE
  ChainEnabled = TRUE
  SnapshotResume = FALSE
  ApplyMayFail = FALSE
  ServersMayFail = TRUE
INVARIANTS
  TypeOK
  AlwaysScheduled
  BusyIsRefreshing
  ValidHasNoErrors
  ZONEMDMismatchNotValid
  StaleMeansExpired
PROPERTIES
  ExpiryNoticed
