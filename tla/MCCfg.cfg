SPECIFICATION Spec
CONSTANTS
  CodeSet <- MCCodes
  Limit = 10
INVARIANTS
  TypeOK
  DecodesReachable
  EdgesFollowCode
  DominatorsSound
  LoopsNatural
PROPERTIES
  Terminates
CHECK_DEADLOCK FALSE
