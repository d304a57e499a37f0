CONSTANTS
  Byte = {0, 1, 2, 3, 4, 5, 6, 7}
  SOF = 7
  MaxDataLen = 2
  Subsystems = 4
  BitXor <- XorOfThreeBits
  MaxQueue = 2
  Sendable <- SomeFrames
  Noise = {0, 2, 5, 7}
  MaxFaults = 2
SPECIFICATION Spec
INVARIANTS
  ParserTypeOK
  RegistersMatchInput
  FrameExtentBounded
  FramesGenuine
PROPERTIES
  SyncedFrameQueued
