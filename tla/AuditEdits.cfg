SPECIFICATION Spec
CHECK_DEADLOCK FALSE
INVARIANTS VerdictAgrees FindingsExact NoBadSignatureValid
CONSTANTS
  Delegations <- MCDelegations
  GlueOf <- MCGlueOf
  ParentOf <- MCParentOf
  Canonical <- MCCanonical
  Hashed <- MCHashed
  Far = 31
  Soon = 1
  Width = 64
  ClockSkew = 1
  ExpiryWarning = 2
  ZONEMDMode = "auto"
  Specs <- MCLiveSpecs
  LiveSpecs <- MCLiveSpecs
  Updates <- MCEdits
  MaxUpdates = 2
  Times = {5, 8}
