CONSTANTS
  Threads = {t1}
  Io = io
  NoThread = none
  MaxConnects = 1
  MaxReadErrors = 0
  MaxReboots = 0
  MaxLine = 1
  Expirable = {"reset", "startup"}
  LateReads = FALSE
  CallbackDisconnects = FALSE
  InitialCoordinator = {"up"}
SPECIFICATION FairSpec
PROPERTIES
  CallsReturn
CHECK_DEADLOCK FALSE
