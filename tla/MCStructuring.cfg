CONSTANTS
    va = va  vb = vb  rax = rax  rcx = rcx  L = L  N = N  Undef = Undef
    SourceSet <- MCTexts
    BaseOrder <- MCOrder
    Regs <- MCRegs
    Lit = L
    None = N
    Mod = 4
    Inputs = {0, 1}
    MaxChain = 4
    Fuel = 60
SPECIFICATION SpecTree
INVARIANTS
  TreeIsRight
  SsaForm
  EffectsKept
  TreeComplete
  PlainCodeKept
CHECK_DEADLOCK FALSE
