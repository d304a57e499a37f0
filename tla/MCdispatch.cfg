CONSTANTS
  ByteMod = 2
  Euis <- ThreeDevices
  MayUse <- SharedAndOwn
  CapBytes = {0, 1}
  Contents <- NoneOrOneByte
  Cluster = 0
  Nothing = nothing
SPECIFICATION Spec
INVARIANTS
  TypeOK
  EventTellsTheFrame
  SeenMeansHeard
PROPERTIES
  ImplementsRegistry
