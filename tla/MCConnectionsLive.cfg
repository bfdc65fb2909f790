SPECIFICATION FairSpec
CONSTANTS
  Node = {a, b}
  None = None
  Addr = Addr
  MAX_CONNS = 2
  MAX_DIALS = 1
  MAX_MANUAL = 1
  FRAMES = {}
  MAX_SENDS = 0
  CHANNEL_CAP = 1
  MAX_FAULTS = 1
CHECK_DEADLOCK FALSE
PROPERTIES
  EventuallyLinked
