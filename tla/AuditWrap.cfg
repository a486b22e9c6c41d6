SPECIFICATION Spec
CHECK_DEADLOCK FALSE
INVARIANT PackAudited
CONSTANTS
  Delegations <- MCDelegations
  GlueOf <- MCGlueOf
  ParentOf <- MCParentOf
  Canonical <- MCCanonical
  Hashed <- MCHashed
  Far = 31
  Soon = 1
  Width = 64
  ClockSkew = 1
  ExpiryWarning = 2
  ZONEMDMode = "auto"
  Specs <- MCWrap
  LiveSpecs <- MCWrap
  Updates <- MCUpdates
  MaxUpdates = 2
  Times = {5, 8}
