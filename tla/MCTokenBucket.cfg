SPECIFICATION Spec
CONSTANTS
  RATE_BURST = 3
  TICKS_PER_TOKEN = 3
  MAX_TIME = 14
INVARIANTS
  TypeOK
  RollingRateBound
  RefusalIsBrief
