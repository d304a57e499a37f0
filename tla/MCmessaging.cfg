SPECIFICATION MsgSpec
CONSTANTS
  BufSize = 1
  MaxPorts = 2
  MaxBytes = 0
  Faults = {}
  Senders = {s1, s2}
  SeqMod = 2
  Parts = 2
  MaxCalls = 3
SYMMETRY SenderSymmetry
INVARIANTS
  MsgTypeOK
  RequestsWhole
  NumbersRepeatOnlyByRace
CHECK_DEADLOCK FALSE
