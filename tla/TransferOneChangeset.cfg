SPECIFICATION Spec
CONSTANTS
  Apex = "apex"
  Bodies <- SmallBodies
  MaxSerial = 3
  ManyChangesets = FALSE
INVARIANTS
  StoreExact
  IndexExact
  SnapshotExact
