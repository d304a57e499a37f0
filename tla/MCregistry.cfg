CONSTANTS
  e1 = e1
  e2 = e2
  e3 = e3
  a1 = a1
  a2 = a2
  a3 = a3
  s = s
  Euis = {e1, e2, e3}
  Addrs = {a1, a2, a3, s}
  MayUse <- SharedAndOwn
  Nothing = nothing
SPECIFICATION Spec
INVARIANTS
  TypeOK
  IndexSound
  ExclusiveAddressFound
  EventsMatchRegistry
  SenderStillRegistered
