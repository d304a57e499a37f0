CONSTANTS
  Threads = {t1, t2}
  Io = io
  NoThread = none
  MaxConnects = 1
  MaxReadErrors = 0
  MaxReboots = 0
  MaxLine = 1
  Expirable = {"reset"}
  LateReads = FALSE
  CallbackDisconnects = FALSE
  InitialCoordinator = {"up"}
SPECIFICATION Spec
INVARIANTS
  ConnectedAtRest
CHECK_DEADLOCK FALSE
