SPECIFICATION Spec
CONSTANTS
  A = A
  B = B
  ml = ml
  xrefs = xrefs
  code = code
  code2 = code2
  None = None
  Placeholder = Placeholder
  NoFile = NoFile
  Done = Done
  Files = {A, B}
  Autos <- XrefsOnly
  Caches = {{code}}
  Decompiles = {code}
  Outlives = {xrefs}
  OldProjects = {B}
  MaxReports = 1
  CacheLimit = 0
  CacheTarget = 0
  MaxScans = 2
  MaxPaths = 1
  MaxEdits = 1
INVARIANTS
  TypeOK
  PendingInFlight
  PlaceholderIsPending
  StoredWhereOpened
PROPERTIES
  WorkEnds
CHECK_DEADLOCK FALSE
