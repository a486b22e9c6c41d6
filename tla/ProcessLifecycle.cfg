SPECIFICATION LFairSpec
CONSTANTS
  MaxVersion = 2
  MaxMail = 1
  MaxPending = 2
  Kinds = {"notify", "other"}
  Timer = TRUE
  CountAll = FALSE
  MaxStops = 1
INVARIANTS
  SavedStateKept
PROPERTIES
  NotifiedUnlessStopped
