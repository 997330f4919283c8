SPECIFICATION ExecSpec
CONSTANTS
  a0 = a0  a1 = a1  a2 = a2  a3 = a3  a4 = a4
  c0 = c0  c1 = c1  c2 = c2  d1 = d1  y1 = y1
  None = None  Opaque = Opaque  Top = Top  Over = Over
  Vers <- MCVers
  Programs <- AllFamilies
  Executed <- Regular
  Half = 2
  Undef = Undef
  Inputs = {0, 1}
INVARIANTS
  TypeOK
  FixpointReached
  PassComplete
  NoSpeculativeEdges
  ConstantsHold
  SameBehaviour
PROPERTIES
  Terminates
CHECK_DEADLOCK FALSE
