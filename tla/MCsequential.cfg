CONSTANTS
  Threads = {t1}
  Io = io
  NoThread = none
  MaxConnects = 3
  MaxReadErrors = 2
  MaxReboots = 1
  MaxLine = 2
  Expirable = {"reset", "startup"}
  LateReads = TRUE
  CallbackDisconnects = FALSE
  InitialCoordinator = {"resetting", "booted", "starting", "up"}
SPECIFICATION FairSpec
INVARIANTS
  ConnectedUsable
  EventsAlternate
  OnlyReconnectTerminates
  OnlyLateReadsSurvive
  LossReported
PROPERTIES
  DisconnectedMeansPortClosed
  OnlySelfDeadlockHangs
CHECK_DEADLOCK FALSE
