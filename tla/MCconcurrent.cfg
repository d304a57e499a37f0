CONSTANTS
  Threads = {t1, t2}
  Io = io
  NoThread = none
  MaxConnects = 2
  MaxReadErrors = 1
  MaxReboots = 0
  MaxLine = 1
  Expirable = {"reset", "startup"}
  LateReads = TRUE
  CallbackDisconnects = TRUE
  InitialCoordinator = {"resetting", "booted", "starting", "up"}
SPECIFICATION Spec
INVARIANTS
  TypeOK
  WaiterDiscipline
  MutexDiscipline
  EndsAccounted
PROPERTIES
  FramesReachLiveCalls
SYMMETRY ThreadSymmetry
CHECK_DEADLOCK FALSE
