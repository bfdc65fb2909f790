SPECIFICATION Spec
CONSTANTS
  Node = {a, b}
  None = None
  Addr = Addr
  MAX_CONNS = 2
  MAX_DIALS = 1
  MAX_MANUAL = 0
  FRAMES = {"Data", "Big"}
  MAX_SENDS = 1
  CHANNEL_CAP = 1
  MAX_FAULTS = 0
CHECK_DEADLOCK FALSE
INVARIANTS
  EntryHasWriter
