CONSTANTS
    va = va  vb = vb  rax = rax  rcx = rcx  L = L  N = N  Undef = Undef
    SourceSet <- MCBreaks
    BaseOrder <- MCOrder
    Regs <- MCRegs
    Lit = L
    None = N
    Mod = 4
    Inputs = {0, 1}
    MaxChain = 4
    Fuel = 60
SPECIFICATION SpecTree
INVARIANTS
  SameTrace
CHECK_DEADLOCK FALSE
