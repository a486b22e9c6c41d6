SPECIFICATION LSpec
CHECK_DEADLOCK FALSE
CONSTANTS
  MaxVersion = 2
  MaxMail = 1
  MaxPending = 2
  Kinds = {"notify", "other"}
  Timer = TRUE
  CountAll = FALSE
  MaxStops = 1
INVARIANTS
  StateReadable
