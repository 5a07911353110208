SPECIFICATION Spec
CONSTANTS
  Client = {c1, c2, c3, c4}
  Name = {ann, bob, cy}
  NULL = NULL
  MaxInbox = 1
  MayFail = {c1, c2, c3, c4}
  Interrupts = TRUE
SYMMETRY Interchangeable
INVARIANTS TypeOK UniqueNames RegistryExact SlotsReused SocketsOwned PairedInOrder
CHECK_DEADLOCK FALSE
