SPECIFICATION Spec
CONSTANTS
  a0 = a0  a1 = a1  a2 = a2  a3 = a3  a4 = a4
  c0 = c0  c1 = c1  c2 = c2  d1 = d1  y1 = y1
  None = None  Opaque = Opaque  Top = Top  Over = Over
  Vers <- MCVers
  Programs <- LateEdges
  Half = 2
INVARIANTS
  PhisCoverLiveEdges
CHECK_DEADLOCK FALSE
