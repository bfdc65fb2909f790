SPECIFICATION Spec
CONSTANTS
  Node = {a, b}
  None = None
  Addr = Addr
  MAX_CONNS = 2
  MAX_DIALS = 1
  MAX_MANUAL = 1
  FRAMES = {"Data"}
  MAX_SENDS = 2
  CHANNEL_CAP = 1
  MAX_FAULTS = 1
SYMMETRY Symmetry
CHECK_DEADLOCK FALSE
INVARIANTS
  TypeOK
  KeyedByNodeId
  EntryHasReaders
  ShownWhileConnected
