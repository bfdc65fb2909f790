SPECIFICATION Spec
CONSTANTS
  Node = {a, b}
  Command = {c1, c2, c3}
  FileCommand = {c3}
  WINDOW_BACK = 1
  WINDOW_AHEAD = 2
  MAX_AGE = 0
  ID_SCALE = 2
  MAX_TIME = 1
  MAX_FAULTS = 2
SYMMETRY Symmetry
CHECK_DEADLOCK FALSE
INVARIANTS
  TypeOK
  HintBehindCounter
  HintAboveRaised
  FreshKeys
  SentIsRecorded
  HiddenForCause
PROPERTIES
  UnopenedForCause
