SPECIFICATION EmergencyFairSpec
CONSTANTS
  MAX_CHANGES = 4
  MAX_COMMANDS = 3
CHECK_DEADLOCK FALSE
INVARIANTS
  EmergencyTypeOK
  BannerFollows
PROPERTIES
  StateSettles
