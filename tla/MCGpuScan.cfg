CONSTANTS
    None = None
    Requests <- MCRequests
    MaxCalls = 2
    MaxMatches = 2
    Threads = 2
    GroupsPerPass = 2
    WindowsPerPass = 3
SPECIFICATION Spec
INVARIANTS
  TypeOK
  LiteralExact
  WindowsExact
PROPERTIES
  ScansReturn
CHECK_DEADLOCK FALSE
