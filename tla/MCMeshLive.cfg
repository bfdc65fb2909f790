SPECIFICATION FairSpec
CONSTANTS
  a = a
  b = b
  c = c
  d = d
  Node = {a, b, c, d}
  Edge <- Kite
  PacketId = {x, y}
  NoMac = NoMac
  None = None
  Sends <- OneEach
  CACHE_SIZE = 1
  TTL_MAX = 2
  BROADCAST_TTL = 2
  RATE_BURST = 1
  REFILLS = {1}
  CHANNEL_CAP = 8
  MAX_BREAKS = 0
  TRUST_INITIAL = 5
  TRUST_THRESHOLD = 1
  TRUST_VALID_DELTA = 1
  TRUST_INVALID_MAC_DELTA <- InvalidMacDelta
  TRUST_RATE_LIMIT_DELTA <- RateLimitDelta
  TRUST_MIN = 0
  TRUST_MAX = 5
CHECK_DEADLOCK FALSE
INVARIANTS
  HonestNeverPunished
  GivenAgainLate
PROPERTIES
  FloodsDieOut
  FloodsReachAll
