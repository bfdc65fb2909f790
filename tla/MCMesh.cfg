SPECIFICATION Spec
CONSTANTS
  a = a
  b = b
  c = c
  d = d
  Node = {a, b, c}
  Edge <- Triangle
  PacketId = {x, y}
  NoMac = NoMac
  None = None
  Sends <- AllSends
  CACHE_SIZE = 2
  TTL_MAX = 2
  BROADCAST_TTL = 1
  RATE_BURST = 2
  REFILLS = {0, 1}
  CHANNEL_CAP = 1
  MAX_BREAKS = 1
  TRUST_INITIAL = 4
  TRUST_THRESHOLD = 1
  TRUST_VALID_DELTA = 1
  TRUST_INVALID_MAC_DELTA <- InvalidMacDelta
  TRUST_RATE_LIMIT_DELTA <- RateLimitDelta
  TRUST_MIN = 0
  TRUST_MAX = 5
SYMMETRY Symmetry
CHECK_DEADLOCK FALSE
INVARIANTS
  TypeOK
  MacChain
  HopBudget
PROPERTIES
  ImplementsFlood
