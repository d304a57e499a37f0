CONSTANTS
  Threads = {t1}
  Io = io
  NoThread = none
  MaxConnects = 3
  MaxReadErrors = 0
  MaxReboots = 0
  MaxLine = 2
  Expirable = {"lost"}
  LateReads = FALSE
  CallbackDisconnects = FALSE
  InitialCoordinator = {"booted", "up"}
SPECIFICATION FairSpec
PROPERTIES
  ConnectedMeansCoordinatorUp
  ImplementsSession
  CallsReturn
