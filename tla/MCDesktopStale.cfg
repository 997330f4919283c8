SPECIFICATION Spec
CONSTANTS
  A = A
  B = B
  ml = ml
  xrefs = xrefs
  code = code
  code2 = code2
  None = None
  Placeholder = Placeholder
  NoFile = NoFile
  Done = Done
  Files = {A, B}
  Autos <- MlOnly
  Caches = {}
  Decompiles = {}
  Outlives = {}
  OldProjects = {}
  MaxReports = 2
  CacheLimit = 0
  CacheTarget = 0
  MaxScans = 2
  MaxPaths = 1
  MaxEdits = 0
INVARIANTS
  ShownIsCurrent
CHECK_DEADLOCK FALSE
