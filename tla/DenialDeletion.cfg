SPECIFICATION Spec
CONSTANTS
  MaxHash = 3
  ApexHash = 2
  Style = "nsec3"
  MayDelete = TRUE
  MayResign = FALSE
  Faults = {}
INVARIANTS
  NoFalseAlarm
