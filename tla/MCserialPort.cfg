SPECIFICATION FairPortSpec
CONSTANTS
  BufSize = 2
  MaxPorts = 3
  MaxBytes = 3
  Faults = {"open", "option", "read"}
INVARIANTS
  OneReadOutstanding
  BytesInOrder
  ErrorsReportedOnce
  OnlyLateReadsMisuse
PROPERTIES
  BytesAreRead
CHECK_DEADLOCK FALSE
