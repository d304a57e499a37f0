CONSTANTS
  Threads = {t1}
  Io = io
  NoThread = none
  MaxConnects = 2
  MaxReadErrors = 1
  MaxReboots = 0
  MaxLine = 1
  Expirable = {"reset"}
  LateReads = FALSE
  CallbackDisconnects = FALSE
  InitialCoordinator = {"up"}
SPECIFICATION Spec
INVARIANTS
  NeverTerminates
CHECK_DEADLOCK FALSE
