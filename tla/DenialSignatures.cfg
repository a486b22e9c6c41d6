SPECIFICATION Spec
CONSTANTS
  MaxHash = 3
  ApexHash = 2
  Style = "nsec3"
  MayDelete = FALSE
  MayResign = FALSE
  Faults = {"signatures"}
INVARIANTS
  SignaturesChecked
