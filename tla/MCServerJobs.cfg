SPECIFICATION Spec
CONSTANTS
  r1 = r1
  r2 = r2
  r3 = r3
  Requests = {r1, r2, r3}
  Limit = 1
INVARIANTS
  TypeOK
  EntriesTellTheirTask
  TableBounded
PROPERTIES
  NeverBackwards
CHECK_DEADLOCK FALSE
SYMMETRY Interchangeable
