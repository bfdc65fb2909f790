\* Trust in units of 0.5, so that both ends of the scale are reached.
SPECIFICATION Spec
CONSTANTS
  Me = me
  Node = {me, p1, p2}
  PacketId = {a, b, c}
  NoMac = NoMac
  CACHE_SIZE = 2
  TTL_MAX = 1
  RATE_BURST = 2
  REFILLS = {0, 1}
  TRUST_INITIAL = 4
  TRUST_THRESHOLD = 1
  TRUST_VALID_DELTA = 1
  TRUST_INVALID_MAC_DELTA <- InvalidMacDelta
  TRUST_RATE_LIMIT_DELTA <- RateLimitDelta
  TRUST_MIN = 0
  TRUST_MAX = 5
  MAX_CALLS = 8
SYMMETRY Symmetry
CHECK_DEADLOCK FALSE
INVARIANTS
  TypeOK
  ReplayWindow
  CorruptedNeverCached
  TrustLossHasCause
PROPERTIES
  BanIsPermanent
