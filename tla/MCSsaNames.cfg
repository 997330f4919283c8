CONSTANTS
    va = va  vb = vb  rax = rax  rcx = rcx  L = L  N = N  Undef = Undef
    SourceSet <- MCSources
    BaseOrder <- MCOrder
    Regs <- MCRegs
    Lit = L
    None = N
    Mod = 4
    Inputs = {0, 1}
SPECIFICATION Spec
INVARIANT
  SameEffects
CHECK_DEADLOCK FALSE
