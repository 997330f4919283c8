SPECIFICATION Spec
CONSTANTS
  p = p
  q = q
  None = None
  Slots <- OneOfEach
  Payload = {p, q}
  Undecodable = {}
  Xrefs <- Call
  MaxSize = 2
  AddsAreNew = TRUE
INVARIANTS
  TypeOK
  XrefsAgree
PROPERTIES
  ImplementsHistory
