SPECIFICATION FairSpec
CONSTANTS
  None = None
  Torn = Torn
  MAX_FAULTS = 2
INVARIANTS
  TypeOK
  IdentityKept
PROPERTIES
  EventuallyRuns
  TorStatusSettles
