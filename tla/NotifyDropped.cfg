SPECIFICATION FairSpec
CONSTANTS
  MaxVersion = 3
  MaxMail = 2
  MaxPending = 2
  Kinds = {"notify", "other"}
  Timer = FALSE
  CountAll = TRUE
PROPERTIES
  NotifyRefreshes
