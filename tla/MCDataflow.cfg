SPECIFICATION Spec
CONSTANTS
  x = x  y = y  None = None
  FunctionSet <- MCFunctions
  Vars <- MCVars
  MaxVisits = 7
  Half = 16
  MaxTurns = 10
  WidenAfter = 3
  WideLimit = 5
  Inputs = {0, 7}
INVARIANTS
  TypeOK
  NothingInvented
  StaleConfined
  ValuesSettled
  ValuesCover
PROPERTIES
  Terminates
CHECK_DEADLOCK FALSE
