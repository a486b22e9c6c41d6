SPECIFICATION Spec
CONSTANTS
  Apex = "apex"
  Bodies <- SmallBodies
  MaxSerial = 3
  ManyChangesets = TRUE
INVARIANTS
  StoreExact
