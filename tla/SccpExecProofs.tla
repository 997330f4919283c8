--------------------------- MODULE SccpExecProofs ---------------------------
(***************************************************************************)
(* What holds of constant propagation and of the execution of the function *)
(* it was made from, for every SSA function, every value on entry and      *)
(* every loaded value: what the lattice holds constant is constant, and    *)
(* the rewritten function does what the original one does.                 *)
(***************************************************************************)
EXTENDS SccpExec, SccpProofs

both == <<vars, execVars>>

(* The value of a version comes from its one definition, and of none that  *)
(* has no definition is anything known; the rewritten function consists of *)
(* the live blocks.                                                        *)
Derived ==
    /\ Entry \in execBlocks
    /\ \A v \in Vers : v \notin Defined(prog) => lat[v] = Top
    /\ prog \in Executed =>
         \A b \in Blocks : \A k \in DOMAIN prog.insts[b] :
            LET i == prog.insts[b][k] IN
            i.op \in DefOps => AtMost(lat[i.dst], EvalInst(i, lat))
    /\ Analysed => DOMAIN out.insts = execBlocks

(* What the execution has assigned when it is about to run instruction ip  *)
(* of block at.                                                            *)
AssignedHere ==
    AssignedOnEntry(prog, at) \cup {prog.phis[at][j].dst : j \in DOMAIN prog.phis[at]}
    \cup DefinedBefore(prog, at, ip)

(* The execution has assigned what every path to this point assigns.       *)
Tracked ==
    /\ env = [v \in Vers |-> env[v]]
    /\ at # 0 => /\ phase = "done" /\ prog \in Executed /\ at \in Blocks /\ ip \in Nat
                 /\ \A v \in Vers \cap AssignedHere : env[v] # Undef

(* The execution stays on live blocks and every constant that is read has  *)
(* its value.                                                              *)
Follows ==
    /\ env = [v \in Vers |-> env[v]]
    /\ at = 0 => env = Idle
    /\ at # 0 => phase = "done" /\ prog \in Executed /\ at \in execBlocks
    /\ phase = "done" => \A v \in Vers \cap Read(prog) :
         lat[v] \in Int /\ env[v] # Undef => env[v] = lat[v]

-----------------------------------------------------------------------------
(* The lattice and the definitions                                         *)

(* An instruction is worth more under a higher lattice (eval_inst).        *)
LEMMA EvalInstMonotone ==
    ASSUME NEW l \in [Vers -> Lattice], NEW m \in [Vers -> Lattice],
           \A v \in Vers : AtMost(l[v], m[v]),
           NEW blocks, NEW i, IsInst(i, blocks)
    PROVE  AtMost(EvalInst(i, l), EvalInst(i, m))
<1> DEFINE low  == [k \in DOMAIN i.args |-> SsaLattice(i.args[k], l)]
           high == [k \in DOMAIN i.args |-> SsaLattice(i.args[k], m)]
<1>1. \A k \in DOMAIN i.args : AtMost(low[k], high[k])
  BY DEF SsaLattice, AtMost
<1>2. DOMAIN low = DOMAIN i.args /\ DOMAIN high = DOMAIN i.args /\ low = [k \in DOMAIN i.args |-> low[k]]
      /\ high = [k \in DOMAIN i.args |-> high[k]]
  OBVIOUS
<1>3. /\ EvalInst(i, l) = IF i.op = "load" THEN Over
                          ELSE IF Range(low) \subseteq Int
                               THEN IF i.op \in Foldable THEN Fold(i.op, low) ELSE Over
                          ELSE IF Over \in Range(low) THEN Over ELSE Top
      /\ EvalInst(i, m) = IF i.op = "load" THEN Over
                          ELSE IF Range(high) \subseteq Int
                               THEN IF i.op \in Foldable THEN Fold(i.op, high) ELSE Over
                          ELSE IF Over \in Range(high) THEN Over ELSE Top
  BY DEF EvalInst
<1> HIDE DEF low, high
<1>4. CASE i.op = "load"
  BY <1>3, <1>4 DEF AtMost
<1>5. CASE i.op # "load" /\ Over \in Range(low)
  <2>1. PICK k \in DOMAIN i.args : low[k] = Over
    BY <1>2, <1>5 DEF Range
  <2>2. high[k] = Over
    BY <1>1, <2>1, ConstantsAssumption DEF AtMost
  <2>3. Over \in Range(high) /\ Over \notin Int
    BY <1>2, <2>2, ConstantsAssumption DEF Range
  <2> QED
    BY <1>3, <1>5, <2>3 DEF AtMost
<1>6. CASE i.op # "load" /\ Range(low) \subseteq Int
  <2>1. \A k \in DOMAIN i.args : low[k] \in Int /\ low[k] # Top
    BY <1>2, <1>6, ConstantsAssumption DEF Range
  <2>2. CASE \A k \in DOMAIN i.args : high[k] = low[k]
    <3>1. low = high
      BY <1>2, <2>2
    <3> QED
      BY <1>3, <3>1 DEF AtMost
  <2>3. CASE ~ \A k \in DOMAIN i.args : high[k] = low[k]
    <3>1. Over \in Range(high) /\ Over \notin Int
      BY <1>1, <1>2, <2>1, <2>3, ConstantsAssumption DEF AtMost, Range
    <3> QED
      BY <1>3, <1>6, <3>1 DEF AtMost
  <2> QED
    BY <2>2, <2>3
<1>7. CASE i.op # "load" /\ Over \notin Range(low) /\ ~(Range(low) \subseteq Int)
  BY <1>3, <1>7 DEF AtMost
<1> QED
  BY <1>4, <1>5, <1>6, <1>7

(* The definition of a version is the only one that can refine it.         *)
LEMMA OneDefinition ==
    ASSUME NEW p \in Executed, NEW b \in DOMAIN p.insts, NEW k \in DOMAIN p.insts[b],
           p.insts[b][k].op \in DefOps
    PROVE  /\ \A c \in DOMAIN p.insts : \A j \in DOMAIN p.insts[c] :
                p.insts[c][j].op \in DefOps /\ p.insts[c][j].dst = p.insts[b][k].dst => c = b /\ j = k
           /\ \A c \in DOMAIN p.insts : \A j \in DOMAIN p.phis[c] : p.phis[c][j].dst # p.insts[b][k].dst
<1> DEFINE phis  == UNION {{<<c, "phi", j>> : j \in DOMAIN p.phis[c]} : c \in DOMAIN p.insts}
           insts == UNION {{<<c, "inst", j>> : j \in {h \in DOMAIN p.insts[c] : p.insts[c][h].op \in DefOps}} :
                           c \in DOMAIN p.insts}
           Dst(d) == IF d[2] = "phi" THEN p.phis[d[1]][d[3]].dst ELSE p.insts[d[1]][d[3]].dst
<1>1. \A d, e \in phis \cup insts : Dst(d) = Dst(e) => d = e
  BY ExecAssumption DEF DefinedOnce
<1>2. <<b, "inst", k>> \in insts
  OBVIOUS
<1>3. Dst(<<b, "inst", k>>) = p.insts[b][k].dst
  OBVIOUS
<1>4. ASSUME NEW c \in DOMAIN p.insts, NEW j \in DOMAIN p.insts[c],
             p.insts[c][j].op \in DefOps, p.insts[c][j].dst = p.insts[b][k].dst
      PROVE  c = b /\ j = k
  <2>1. <<c, "inst", j>> \in insts /\ Dst(<<c, "inst", j>>) = p.insts[c][j].dst
    BY <1>4
  <2>2. <<c, "inst", j>> = <<b, "inst", k>>
    BY <1>1, <1>2, <1>3, <1>4, <2>1
  <2> QED
    BY <2>2
<1>5. ASSUME NEW c \in DOMAIN p.insts, NEW j \in DOMAIN p.phis[c], p.phis[c][j].dst = p.insts[b][k].dst
      PROVE  FALSE
  <2>1. <<c, "phi", j>> \in phis /\ Dst(<<c, "phi", j>>) = p.phis[c][j].dst
    OBVIOUS
  <2>2. <<c, "phi", j>> = <<b, "inst", k>>
    BY <1>1, <1>2, <1>3, <1>5, <2>1
  <2> QED
    BY <2>2
<1> QED
  BY <1>4, <1>5

LEMMA MergeTakes ==
    ASSUME NEW old \in Lattice, NEW new \in Lattice, AtMost(old, new)
    PROVE  MergeLattice(old, new) = new
BY ConstantsAssumption DEF MergeLattice, AtMost

LEMMA AtMostAgrees ==
    ASSUME NEW x, NEW y, AtMost(x, y), AtMost(y, x) PROVE x = y
BY ConstantsAssumption DEF AtMost

(* A phi or an instruction that refines its version leaves every value     *)
(* derived from its definition.                                            *)
LEMMA RefineDerived ==
    ASSUME TypeOK, Derived, UNCHANGED prog,
           NEW b \in Blocks, NEW k, NEW dst \in Vers, NEW new \in Lattice, Refine(dst, new),
           \/ k \in DOMAIN prog.phis[b] /\ prog.phis[b][k].dst = dst
           \/ /\ k \in DOMAIN prog.insts[b] /\ prog.insts[b][k].dst = dst
              /\ prog.insts[b][k].op \in DefOps /\ new = EvalInst(prog.insts[b][k], lat)
    PROVE  /\ \A v \in Vers : v \notin Defined(prog) => lat'[v] = Top
           /\ prog \in Executed =>
                \A c \in Blocks : \A j \in DOMAIN prog.insts[c] :
                   prog.insts[c][j].op \in DefOps =>
                      AtMost(lat'[prog.insts[c][j].dst], EvalInst(prog.insts[c][j], lat'))
<1>1. /\ lat \in [Vers -> Lattice]
      /\ \A c \in Blocks : \A j \in DOMAIN prog.insts[c] : IsInst(prog.insts[c][j], Blocks)
  BY ProgramFacts DEF TypeOK
<1>2. /\ lat' = [lat EXCEPT ![dst] = MergeLattice(lat[dst], new)]
      /\ MergeLattice(lat[dst], new) \in Lattice
      /\ AtMost(lat[dst], MergeLattice(lat[dst], new))
  BY <1>1, MergeType, MergeClimbs DEF Refine
<1>3. /\ lat' \in [Vers -> Lattice]
      /\ \A v \in Vers : AtMost(lat[v], lat'[v])
      /\ \A v \in Vers : v # dst => lat'[v] = lat[v]
      /\ lat'[dst] = MergeLattice(lat[dst], new)
  BY <1>1, <1>2 DEF AtMost
<1>4. dst \in Defined(prog)
  BY DEF Defined, Blocks
<1>5. \A v \in Vers : v \notin Defined(prog) => lat'[v] = Top
  BY <1>3, <1>4 DEF Derived
<1>6. ASSUME prog \in Executed, NEW c \in Blocks, NEW j \in DOMAIN prog.insts[c],
             prog.insts[c][j].op \in DefOps
      PROVE  AtMost(lat'[prog.insts[c][j].dst], EvalInst(prog.insts[c][j], lat'))
  <2> DEFINE i == prog.insts[c][j]
  <2>1. IsInst(i, Blocks) /\ i.dst \in Vers
    BY <1>1, <1>6 DEF IsInst
  <2>2. AtMost(lat[i.dst], EvalInst(i, lat))
    BY <1>6 DEF Derived
  <2>3. AtMost(EvalInst(i, lat), EvalInst(i, lat'))
    BY <1>1, <1>3, <2>1, EvalInstMonotone
  <2>4. CASE i.dst # dst
    BY <1>3, <2>1, <2>2, <2>3, <2>4, AtMostTransitive
  <2>5. CASE i.dst = dst
    <3>1. c = b /\ j = k /\ new = EvalInst(i, lat)
      BY <1>6, <2>5, OneDefinition DEF Blocks
    <3>2. lat'[dst] = new
      BY <1>1, <1>3, <2>2, <2>5, <3>1, MergeTakes
    <3> QED
      BY <2>3, <2>5, <3>1, <3>2
  <2> QED
    BY <2>4, <2>5
<1> QED
  BY <1>5, <1>6

-----------------------------------------------------------------------------
(* The pass                                                                *)

LEMMA InitDerived == ExecInit => Inv /\ SettledBehind /\ Derived /\ Tracked /\ Follows
<1> SUFFICES ASSUME ExecInit PROVE Inv /\ SettledBehind /\ Derived /\ Tracked /\ Follows
  OBVIOUS
<1>1. Inv /\ SettledBehind
  BY InitInv, InitSettled DEF ExecInit
<1>2. \A v \in Vers : lat[v] = Top
  BY DEF ExecInit, Init
<1>3. Derived
  <2>1. \A b \in Blocks : \A k \in DOMAIN prog.insts[b] :
           prog.insts[b][k].op \in DefOps => lat[prog.insts[b][k].dst] = Top
    BY <1>1, <1>2, ProgramFacts DEF Inv, IsInst
  <2>2. Entry \in execBlocks /\ ~Analysed
    BY DEF ExecInit, Init, Analysed
  <2> QED
    BY <1>2, <2>1, <2>2 DEF Derived, AtMost
<1>4. Follows /\ Tracked
  BY DEF ExecInit, Init, Follows, Tracked, Idle
<1> QED
  BY <1>1, <1>3, <1>4

LEMMA StepDerived == Inv /\ Derived /\ [Next]_vars => Derived'
<1> SUFFICES ASSUME Inv, Derived, [Next]_vars PROVE Derived'
  OBVIOUS
<1>0. TypeOK /\ lat \in [Vers -> Lattice] /\ (cur # 0 => cur \in Blocks)
  BY DEF Inv, TypeOK
<1>1. ASSUME UNCHANGED <<prog, lat>>, Entry \in execBlocks', Analysed' => DOMAIN out'.insts = execBlocks'
      PROVE  Derived'
  BY <1>1 DEF Derived, Blocks, Entry
<1>2. CASE Pop
  <2>1. /\ UNCHANGED <<prog, lat, phase>> /\ phase = "analyse" /\ execBlocks \subseteq execBlocks'
    BY <1>2 DEF Pop
  <2> QED
    BY <1>1, <2>1 DEF Derived, Analysed, Entry
<1>3. CASE VisitPhi
  <2> DEFINE new == EvalPhi(Phis[pc], cur, lat, execEdges)
  <2>1. /\ IsPhi(Phis[pc], Blocks) /\ cur \in Blocks
        /\ pc \in DOMAIN prog.phis[cur] /\ Phis[pc] = prog.phis[cur][pc]
    BY <1>0, <1>3, VisitFacts, Visited DEF VisitPhi, Phis
  <2>2. Phis[pc].dst \in Vers /\ new \in Lattice
    BY <1>0, <2>1, EvalPhiType DEF IsPhi
  <2>3. Refine(Phis[pc].dst, new) /\ UNCHANGED <<prog, execBlocks, phase>> /\ phase = "analyse"
    BY <1>3 DEF VisitPhi, Visiting, round
  <2> HIDE DEF new
  <2>4. /\ \A v \in Vers : v \notin Defined(prog) => lat'[v] = Top
        /\ prog \in Executed =>
             \A c \in Blocks : \A j \in DOMAIN prog.insts[c] :
                prog.insts[c][j].op \in DefOps =>
                   AtMost(lat'[prog.insts[c][j].dst], EvalInst(prog.insts[c][j], lat'))
    BY <1>0, <2>1, <2>2, <2>3, RefineDerived
  <2> QED
    BY <2>3, <2>4 DEF Derived, Blocks, Analysed, Entry
<1>4. CASE VisitDef
  <2> DEFINE new == EvalInst(CurInst, lat)
             k   == pc - Len(Phis)
  <2>1. /\ IsInst(CurInst, Blocks) /\ cur \in Blocks /\ CurInst.op \in DefOps
        /\ k \in DOMAIN prog.insts[cur] /\ CurInst = prog.insts[cur][k]
    BY <1>0, <1>4, VisitFacts, Visited DEF VisitDef, AtInst, CurInst
  <2>2. CurInst.dst \in Vers /\ new \in Lattice
    BY <1>0, <2>1, EvalInstType DEF IsInst
  <2>3. Refine(CurInst.dst, new) /\ UNCHANGED <<prog, execBlocks, phase>> /\ phase = "analyse"
    BY <1>4 DEF VisitDef, AtInst, Visiting, round
  <2>4. new = EvalInst(prog.insts[cur][k], lat)
    BY <2>1
  <2> HIDE DEF new, k
  <2>5. /\ \A v \in Vers : v \notin Defined(prog) => lat'[v] = Top
        /\ prog \in Executed =>
             \A c \in Blocks : \A j \in DOMAIN prog.insts[c] :
                prog.insts[c][j].op \in DefOps =>
                   AtMost(lat'[prog.insts[c][j].dst], EvalInst(prog.insts[c][j], lat'))
    BY <1>0, <2>1, <2>2, <2>3, <2>4, RefineDerived
  <2> QED
    BY <2>3, <2>5 DEF Derived, Blocks, Analysed, Entry
<1>5. CASE VisitJump
  <2>1. UNCHANGED <<prog, lat, phase>> /\ phase = "analyse" /\ execBlocks \subseteq execBlocks'
    BY <1>5 DEF VisitJump, AtInst, Visiting
  <2> QED
    BY <1>1, <2>1 DEF Derived, Analysed, Entry
<1>6. CASE VisitOther
  BY <1>1, <1>6 DEF VisitOther, AtInst, Visiting, round, Derived, Analysed, Entry
<1>7. CASE LeaveBlock
  BY <1>1, <1>7 DEF LeaveBlock, Visiting, round, Derived, Analysed, Entry
<1>8. CASE NextRound
  BY <1>1, <1>8 DEF NextRound, RoundOver, Analysed, Entry
<1>9. CASE DropDeadBlocks
  <2>1. DOMAIN out'.insts = execBlocks
    BY <1>9 DEF DropDeadBlocks, Restricted
  <2> QED
    BY <1>1, <1>9, <2>1 DEF DropDeadBlocks, round, Derived, Entry
<1>10. CASE Rewrite
  <2>1. DOMAIN out'.insts = DOMAIN out.insts
    BY <1>0, <1>10 DEF Rewrite, RewritePass, TypeOK, OutOK
  <2> QED
    BY <1>1, <1>10, <2>1 DEF Rewrite, round, Derived, Analysed, Entry
<1>11. CASE UNCHANGED vars
  BY <1>1, <1>11 DEF vars, round, Derived, Analysed, Entry
<1> QED
  BY <1>2, <1>3, <1>4, <1>5, <1>6, <1>7, <1>8, <1>9, <1>10, <1>11 DEF Next

-----------------------------------------------------------------------------
(* The execution                                                           *)

(* What instructions of the function read is among the versions it reads.  *)
LEMMA InstsRead ==
    ASSUME NEW p, NEW b \in DOMAIN p.insts, NEW k \in DOMAIN p.insts[b], NEW o \in Vers,
           o \in Range(p.insts[b][k].args)
    PROVE  o \in Read(p)
BY DEF Read

LEMMA PhisRead ==
    ASSUME NEW p, NEW b \in DOMAIN p.insts, NEW k \in DOMAIN p.phis[b], NEW o \in Vers,
           o \in Range(p.phis[b][k].in)
    PROVE  o \in Read(p)
BY DEF Read

LEMMA PhisUsed ==
    ASSUME NEW o, NEW b \in DOMAIN o.insts, NEW k \in DOMAIN o.phis[b], NEW v \in Vers,
           v \in LiveInputs(o.phis[b][k], b)
    PROVE  v \in Used(o)
BY DEF Used

(* A known operand that was assigned has the value the lattice gives it.   *)
LEMMA KnownOperand ==
    ASSUME Inv, Follows, phase = "done", at \in Blocks, NEW k \in DOMAIN prog.insts[at],
           NEW j \in DOMAIN prog.insts[at][k].args
    PROVE  LET o == prog.insts[at][k].args[j] IN
           SsaLattice(o, lat) \in Int /\ Value(o, env) # Undef => Value(o, env) = SsaLattice(o, lat)
<1> DEFINE o == prog.insts[at][k].args[j]
<1>1. SUFFICES ASSUME SsaLattice(o, lat) \in Int, Value(o, env) # Undef
               PROVE  Value(o, env) = SsaLattice(o, lat)
  OBVIOUS
<1>2. CASE o \in Int
  BY <1>2, ConstantsAssumption DEF Value, SsaLattice
<1>3. CASE o \in Vers
  <2>1. o \in Read(prog)
    BY <1>3, InstsRead DEF Range, Blocks
  <2>2. o \notin Int
    BY <1>3, ConstantsAssumption
  <2> QED
    BY <1>1, <1>3, <2>1, <2>2 DEF Follows, Value, SsaLattice
<1>4. CASE o \notin Int /\ o \notin Vers
  BY <1>1, <1>4, ConstantsAssumption DEF SsaLattice
<1> QED
  BY <1>2, <1>3, <1>4

(* An assignment gives a version held constant its constant.               *)
LEMMA ConstantAssigned ==
    ASSUME Inv, Derived, Follows, FixpointReached, phase = "done", Running, Orig.op \in DefOps,
           Undef \notin Range(Values(Orig, env)), lat[Orig.dst] \in Int, NEW n
    PROVE  Result(Orig, env, n) = lat[Orig.dst]
<1> DEFINE i    == Orig
           vals == [k \in DOMAIN i.args |-> SsaLattice(i.args[k], lat)]
<1>1. /\ at \in execBlocks /\ at \in Blocks /\ prog \in Executed /\ ip \in DOMAIN prog.insts[at]
      /\ i = prog.insts[at][ip] /\ i.op \in DefOps
  BY DEF Running, Orig, Follows, Inv, TypeOK
<1>2. Analysed
  BY DEF Analysed
<1>3. AtMost(EvalInst(i, lat), lat[i.dst])
  BY <1>1, <1>2 DEF FixpointReached
<1>4. AtMost(lat[i.dst], EvalInst(i, lat))
  BY <1>1 DEF Derived
<1>5. EvalInst(i, lat) = lat[i.dst] /\ EvalInst(i, lat) \in Int
  BY <1>3, <1>4, AtMostAgrees
<1>6. EvalInst(i, lat) = IF i.op = "load" THEN Over
                         ELSE IF Range(vals) \subseteq Int
                              THEN IF i.op \in Foldable THEN Fold(i.op, vals) ELSE Over
                         ELSE IF Over \in Range(vals) THEN Over ELSE Top
  BY DEF EvalInst
<1>7. Over \notin Int /\ Top \notin Int
  BY ConstantsAssumption
<1>8. i.op \in Foldable /\ Range(vals) \subseteq Int /\ EvalInst(i, lat) = Fold(i.op, vals)
  BY <1>5, <1>6, <1>7
<1>9. \A k \in DOMAIN i.args : Value(i.args[k], env) = SsaLattice(i.args[k], lat)
  <2> SUFFICES ASSUME NEW k \in DOMAIN i.args PROVE Value(i.args[k], env) = SsaLattice(i.args[k], lat)
    OBVIOUS
  <2>1. SsaLattice(i.args[k], lat) \in Int
    BY <1>8 DEF Range
  <2>2. Value(i.args[k], env) # Undef
    BY DEF Values, Range
  <2> QED
    BY <1>1, <2>1, <2>2, KnownOperand
<1>10. Values(i, env) = vals
  BY <1>9 DEF Values
<1> HIDE DEF i, vals
<1> QED
  BY <1>5, <1>8, <1>10 DEF Result, i

(* All the targets an instruction lists are among its targets.             *)
LEMMA TargetsListed ==
    ASSUME NEW blocks, NEW i, IsInst(i, blocks), i.op \in JumpOps
    PROVE  /\ \A n \in DOMAIN i.to : i.to[n] \in Range(AllTargets(i))
           /\ \A n \in DOMAIN i.cases : i.cases[n][2] \in Range(AllTargets(i))
           /\ i.op = "br" => 1 \in DOMAIN i.to
           /\ i.op = "cbr" => 1 \in DOMAIN i.to /\ 2 \in DOMAIN i.to
           /\ i.to # <<>> => 1 \in DOMAIN i.to
           /\ i.op \in {"cbr", "switch"} => 1 \in DOMAIN i.args
           /\ DOMAIN i.cases \subseteq Nat
<1> DEFINE cs == [k \in DOMAIN i.cases |-> i.cases[k][2]]
           n  == Len(i.to)
<1>1. /\ i.to \in Seq(blocks) /\ i.cases \in Seq(Int \X blocks) /\ i.args \in Seq(Operands)
  BY DEF IsInst
<1>2. /\ DOMAIN i.to = 1..Len(i.to) /\ Len(i.to) \in Nat
      /\ DOMAIN i.cases = 1..Len(i.cases) /\ Len(i.cases) \in Nat
      /\ DOMAIN i.args = 1..Len(i.args) /\ Len(i.args) \in Nat
      /\ i.to # <<>> => Len(i.to) # 0
  BY <1>1, LenProperties, EmptySeq
<1>3. \A k \in DOMAIN i.cases : i.cases[k][2] \in blocks
  <2>1. \A k \in DOMAIN i.cases : i.cases[k] \in Int \X blocks
    BY <1>1, <1>2, ElementOfSeq
  <2> QED
    BY <2>1
<1>4. cs \in Seq(blocks)
  <2>1. cs \in [1..Len(i.cases) -> blocks]
    BY <1>2, <1>3
  <2> QED
    BY <1>2, <2>1, SeqDef
<1>5. AllTargets(i) = cs \o i.to
  BY DEF AllTargets
<1> HIDE DEF cs
<1>6. Range(AllTargets(i)) = Range(cs) \cup Range(i.to)
  BY <1>1, <1>4, <1>5, RangeConcatenation
<1>7. \A k \in DOMAIN i.to : i.to[k] \in Range(i.to)
  BY DEF Range
<1>8. \A k \in DOMAIN i.cases : i.cases[k][2] \in Range(cs)
  BY DEF Range, cs
<1>9. /\ i.op = "br" => Len(i.to) = 1
      /\ i.op = "cbr" => Len(i.to) = 2
      /\ i.op \in {"cbr", "switch"} => Len(i.args) = 1
  BY DEF IsInst, Unary
<1> DEFINE m == Len(i.to)
           d == DOMAIN i.to
           o == i.op
<1>10. /\ d = 1..m /\ m \in Nat
       /\ o = "br" => m = 1
       /\ o = "cbr" => m = 2
       /\ i.to # <<>> => m # 0
  BY <1>2, <1>9
<1> HIDE DEF m, d, o
<1>11. /\ o = "br" => 1 \in d
       /\ o = "cbr" => 1 \in d /\ 2 \in d
       /\ i.to # <<>> => 1 \in d
  BY <1>10
<1>12. ASSUME i.op \in {"cbr", "switch"} PROVE 1 \in DOMAIN i.args
  <2>1. DOMAIN i.args = 1..1
    BY <1>2, <1>9, <1>12
  <2> QED
    BY <2>1
<1> QED
  BY <1>2, <1>6, <1>7, <1>8, <1>11, <1>12 DEF d, o

(* Control goes where the analysis marked an edge.                         *)
LEMMA JumpsAreMarked ==
    ASSUME Inv, Derived, Follows, FixpointReached, phase = "done", Running, Orig.op \in JumpOps,
           Undef \notin Range(Values(Orig, env)), Goto(Orig, env) # 0
    PROVE  <<at, Goto(Orig, env)>> \in execEdges
<1> DEFINE i == Orig
           c == SsaLattice(i.args[1], lat)
           e == Value(i.args[1], env)
           hits(x) == {k \in DOMAIN i.cases : i.cases[k][1] = x}
           first(x) == CHOOSE k \in hits(x) : \A j \in hits(x) : k <= j
<1>1. /\ at \in execBlocks /\ at \in Blocks /\ ip \in DOMAIN prog.insts[at]
      /\ i = prog.insts[at][ip] /\ i.op \in JumpOps
  BY DEF Running, Orig, Follows, Inv, TypeOK
<1>2. IsInst(i, Blocks)
  BY <1>1, ProgramFacts DEF Inv
<1>3. Range(LiveTargets(i, lat)) \subseteq {t \in Blocks : <<at, t>> \in execEdges}
  <2>1. {<<at, t>> : t \in Range(LiveTargets(i, lat))} \subseteq execEdges
    BY <1>1 DEF FixpointReached, Analysed
  <2>2. execEdges \subseteq Blocks \X Blocks
    BY DEF Inv, TypeOK
  <2> SUFFICES ASSUME NEW t \in Range(LiveTargets(i, lat)) PROVE t \in Blocks /\ <<at, t>> \in execEdges
    OBVIOUS
  <2>3. <<at, t>> \in execEdges
    BY <2>1
  <2> QED
    BY <2>2, <2>3
<1>4. SUFFICES Goto(i, env) \in Range(LiveTargets(i, lat))
  BY <1>3
<1>5. /\ \A n \in DOMAIN i.to : i.to[n] \in Range(AllTargets(i))
      /\ \A n \in DOMAIN i.cases : i.cases[n][2] \in Range(AllTargets(i))
      /\ i.op = "br" => 1 \in DOMAIN i.to
      /\ i.op = "cbr" => 1 \in DOMAIN i.to /\ 2 \in DOMAIN i.to
      /\ i.to # <<>> => 1 \in DOMAIN i.to
      /\ i.op \in {"cbr", "switch"} => 1 \in DOMAIN i.args
      /\ DOMAIN i.cases \subseteq Nat
  BY <1>1, <1>2, TargetsListed
<1>8. Goto(i, env) = CASE i.op = "br" -> i.to[1]
                       [] i.op = "cbr" -> i.to[IF e = 0 THEN 2 ELSE 1]
                       [] i.op = "switch" /\ hits(e) # {} -> i.cases[first(e)][2]
                       [] i.op = "switch" /\ hits(e) = {} /\ i.to # <<>> -> i.to[1]
                       [] OTHER -> 0
  BY DEF Goto
<1>9. LiveTargets(i, lat) = IF i.op = "br" \/ c \notin Int THEN AllTargets(i)
                            ELSE IF i.op = "cbr" THEN IF c = 0 THEN <<i.to[2]>> ELSE <<i.to[1]>>
                            ELSE IF hits(c) = {} THEN i.to
                            ELSE <<i.cases[first(c)][2]>>
  BY DEF LiveTargets
<1>10. ASSUME i.op # "br", c \in Int PROVE e = c
  <2>1. 1 \in DOMAIN i.args
    BY <1>1, <1>5, <1>10 DEF JumpOps
  <2>2. e # Undef
    BY <2>1 DEF Values, Range
  <2> QED
    BY <1>1, <1>10, <2>1, <2>2, KnownOperand
<1>11. \A x : hits(x) # {} => first(x) \in DOMAIN i.cases
  <2> SUFFICES ASSUME NEW x, hits(x) # {} PROVE first(x) \in DOMAIN i.cases
    OBVIOUS
  <2>1. hits(x) \subseteq Nat
    BY <1>5
  <2>2. \E k \in hits(x) : \A j \in hits(x) : k <= j
    BY <2>1, LeastNat
  <2> QED
    BY <2>2
<1> HIDE DEF i, c, e, hits, first
<1>12. CASE i.op = "br"
  BY <1>5, <1>8, <1>9, <1>12
<1>13. CASE i.op = "cbr"
  <2>2. Goto(i, env) = i.to[IF e = 0 THEN 2 ELSE 1]
    BY <1>8, <1>13
  <2>4. CASE c \notin Int
    BY <1>5, <1>9, <1>13, <2>2, <2>4
  <2>5. CASE c \in Int
    BY <1>9, <1>10, <1>13, <2>2, <2>5 DEF Range
  <2> QED
    BY <2>4, <2>5
<1>14. CASE i.op = "switch" /\ hits(e) # {}
  <2>1. Goto(i, env) = i.cases[first(e)][2]
    BY <1>8, <1>14
  <2>2. CASE c \notin Int
    BY <1>5, <1>9, <1>11, <1>14, <2>1, <2>2
  <2>3. CASE c \in Int
    BY <1>9, <1>10, <1>14, <2>1, <2>3 DEF Range
  <2> QED
    BY <2>2, <2>3
<1>15. CASE i.op = "switch" /\ hits(e) = {} /\ i.to # <<>>
  <2>1. Goto(i, env) = i.to[1] /\ 1 \in DOMAIN i.to
    BY <1>5, <1>8, <1>15
  <2>2. CASE c \notin Int
    BY <1>5, <1>9, <2>1, <2>2
  <2>3. CASE c \in Int
    BY <1>9, <1>10, <1>15, <2>1, <2>3 DEF Range
  <2> QED
    BY <2>2, <2>3
<1>16. CASE i.op = "switch" /\ hits(e) = {} /\ i.to = <<>>
  <2>1. Goto(i, env) = 0
    BY <1>8, <1>16
  <2> QED
    BY <2>1 DEF i
<1> QED
  BY <1>1, <1>12, <1>13, <1>14, <1>15, <1>16 DEF JumpOps

(* On entry to a block a variable takes the input of a phi, or stays if it *)
(* has none.                                                               *)
LEMMA BlockEntered ==
    ASSUME NEW phis, NEW e, NEW a
    PROVE  /\ EnterBlock(phis, e, a) = [v \in Vers |-> EnterBlock(phis, e, a)[v]]
           /\ \A v \in Vers :
                \/ /\ EnterBlock(phis, e, a)[v] = e[v]
                   /\ ~ \E k \in DOMAIN phis : a \in DOMAIN phis[k].in /\ phis[k].dst = v
                \/ \E k \in DOMAIN phis : /\ a \in DOMAIN phis[k].in /\ phis[k].dst = v
                                         /\ EnterBlock(phis, e, a)[v] = e[phis[k].in[a]]
<1> DEFINE set  == {k \in DOMAIN phis : a \in DOMAIN phis[k].in}
           one(v) == CHOOSE k \in set : phis[k].dst = v
           New1(v) == IF \E k \in set : phis[k].dst = v THEN e[phis[one(v)].in[a]] ELSE e[v]
<1>1. EnterBlock(phis, e, a) = [v \in Vers |-> New1(v)]
  BY Zenon DEF EnterBlock
<1>2. ASSUME NEW v \in Vers, \E k \in set : phis[k].dst = v
      PROVE  one(v) \in set /\ phis[one(v)].dst = v
  BY <1>2, Zenon
<1>3. \A v \in Vers : \/ /\ New1(v) = e[v]
                         /\ ~ \E k \in DOMAIN phis : a \in DOMAIN phis[k].in /\ phis[k].dst = v
                      \/ \E k \in DOMAIN phis : /\ a \in DOMAIN phis[k].in /\ phis[k].dst = v
                                               /\ New1(v) = e[phis[k].in[a]]
  <2> SUFFICES ASSUME NEW v \in Vers, \E k \in set : phis[k].dst = v
               PROVE  \E k \in DOMAIN phis : /\ a \in DOMAIN phis[k].in /\ phis[k].dst = v
                                            /\ New1(v) = e[phis[k].in[a]]
    OBVIOUS
  <2>1. one(v) \in set /\ phis[one(v)].dst = v
    BY <1>2
  <2>2. New1(v) = e[phis[one(v)].in[a]]
    OBVIOUS
  <2> HIDE DEF one, New1
  <2> QED
    BY <2>1, <2>2
<1> HIDE DEF New1
<1> QED
  BY <1>1, <1>3

LEMMA ExecutedSteps == [ExecNext]_both => [Next]_vars
BY DEF both, ExecNext, Analyse, Start, Assign, Effect, Jump, vars, execVars

-----------------------------------------------------------------------------
(* Nothing is read before it is assigned                                   *)

LEMMA StrictFacts ==
    ASSUME prog \in Executed
    PROVE  /\ prog.phis[Entry] = <<>>
           /\ \A b \in Blocks : \A k \in DOMAIN prog.insts[b] :
                Vers \cap Range(prog.insts[b][k].args) \subseteq
                  AssignedOnEntry(prog, b) \cup {prog.phis[b][j].dst : j \in DOMAIN prog.phis[b]}
                  \cup DefinedBefore(prog, b, k)
           /\ \A b \in Blocks : \A j, k \in DOMAIN prog.insts[b] :
                prog.insts[b][k].op \in JumpOps /\ prog.insts[b][j].op \in DefOps => j < k
           /\ \A b \in Blocks : \A a \in Preds(prog, b) : \A k \in DOMAIN prog.phis[b] :
                /\ a \in DOMAIN prog.phis[b][k].in
                /\ prog.phis[b][k].in[a] \in AssignedOnEntry(prog, a) \cup DefinedIn(prog, a)
BY ExecAssumption DEF IsStrict, Blocks

LEMMA NothingEarly == Inv /\ Tracked => ReadsAssigned
<1> SUFFICES ASSUME Inv, Tracked, Running PROVE Undef \notin Range(Values(Orig, env))
  BY DEF ReadsAssigned
<1>1. /\ prog \in Executed /\ at \in Blocks /\ ip \in DOMAIN prog.insts[at]
      /\ \A v \in Vers \cap AssignedHere : env[v] # Undef
  BY DEF Running, Tracked
<1>2. IsInst(Orig, Blocks) /\ Orig = prog.insts[at][ip]
  BY <1>1, ProgramFacts DEF Inv, TypeOK, Orig
<1>3. Vers \cap Range(Orig.args) \subseteq AssignedHere
  BY <1>1, <1>2, StrictFacts DEF AssignedHere
<1> SUFFICES ASSUME NEW k \in DOMAIN Orig.args PROVE Value(Orig.args[k], env) # Undef
  BY DEF Values, Range
<1>4. Orig.args[k] \in Operands
  BY <1>2, ElementOfSeq, LenProperties DEF IsInst
<1>5. CASE Orig.args[k] \in Vers
  BY <1>1, <1>3, <1>5 DEF Value, Range
<1>6. CASE Orig.args[k] \notin Vers
  BY <1>4, <1>6, ExecAssumption DEF Value, Operands
<1> QED
  BY <1>5, <1>6

(* Control goes along a marked edge. *)
LEMMA JumpsAlongMarked ==
    ASSUME Inv, SettledBehind, Derived, Tracked, Follows, Running, Orig.op \in JumpOps, Goto(Orig, env) # 0
    PROVE  <<at, Goto(Orig, env)>> \in execEdges
<1>1. FixpointReached
  BY SettledIsFixpoint
<1>2. phase = "done" /\ Undef \notin Range(Values(Orig, env))
  BY NothingEarly DEF ReadsAssigned, Running, Follows
<1> QED
  BY <1>1, <1>2, JumpsAreMarked

(* What is computed from assigned operands is a value.                     *)
LEMMA ResultAssigned ==
    ASSUME Inv, Tracked, Running, Orig.op \in DefOps, NEW n \in Inputs
    PROVE  Result(Orig, env, n) # Undef
<1> DEFINE a == Values(Orig, env)
<1>1. Undef \notin Range(a)
  BY NothingEarly DEF ReadsAssigned
<1>2. IsInst(Orig, Blocks)
  BY ProgramFacts DEF Running, Tracked, Inv, TypeOK, Orig
<1>3. n \in Int /\ Undef \notin Int
  BY ExecAssumption
<1>4. CASE Orig.op \in Foldable /\ Range(a) \subseteq Int
  <2>1. DOMAIN a = DOMAIN Orig.args /\ \A k \in DOMAIN a : a[k] \in Int
    BY <1>4 DEF Values, Range
  <2>2. Fold(Orig.op, a) \in Int
    <3> HIDE DEF a
    <3> QED
      BY <1>2, <1>4, <2>1, FoldType
  <2> QED
    BY <1>3, <1>4, <2>2 DEF Result
<1>5. CASE ~(Orig.op \in Foldable /\ Range(a) \subseteq Int)
  BY <1>1, <1>3, <1>5 DEF Result
<1> QED
  BY <1>4, <1>5

(* Control goes along an edge of the function.                             *)
LEMMA JumpsAlongEdges ==
    ASSUME Inv, Tracked, Running, Orig.op \in JumpOps, Goto(Orig, env) # 0
    PROVE  Goto(Orig, env) \in Succs(prog, at)
<1> DEFINE i == Orig
           e == Value(i.args[1], env)
           hits(x) == {k \in DOMAIN i.cases : i.cases[k][1] = x}
           first(x) == CHOOSE k \in hits(x) : \A j \in hits(x) : k <= j
<1>1. /\ at \in Blocks /\ ip \in DOMAIN prog.insts[at] /\ i = prog.insts[at][ip] /\ i.op \in JumpOps
  BY DEF Running, Orig, Tracked
<1>2. IsInst(i, Blocks)
  BY <1>1, ProgramFacts DEF Inv, TypeOK
<1>3. /\ \A n \in DOMAIN i.to : i.to[n] \in Range(AllTargets(i))
      /\ \A n \in DOMAIN i.cases : i.cases[n][2] \in Range(AllTargets(i))
      /\ i.op = "br" => 1 \in DOMAIN i.to
      /\ i.op = "cbr" => 1 \in DOMAIN i.to /\ 2 \in DOMAIN i.to
      /\ i.to # <<>> => 1 \in DOMAIN i.to
      /\ DOMAIN i.cases \subseteq Nat
  BY <1>1, <1>2, TargetsListed
<1>4. Goto(i, env) = CASE i.op = "br" -> i.to[1]
                       [] i.op = "cbr" -> i.to[IF e = 0 THEN 2 ELSE 1]
                       [] i.op = "switch" /\ hits(e) # {} -> i.cases[first(e)][2]
                       [] i.op = "switch" /\ hits(e) = {} /\ i.to # <<>> -> i.to[1]
                       [] OTHER -> 0
  BY DEF Goto
<1>5. ASSUME hits(e) # {} PROVE first(e) \in DOMAIN i.cases
  <2>1. hits(e) \subseteq Nat
    BY <1>3
  <2>2. \E k \in hits(e) : \A j \in hits(e) : k <= j
    BY <1>5, <2>1, LeastNat
  <2> QED
    BY <2>2
<1>6. Goto(i, env) \in Range(AllTargets(i))
  <2>1. Goto(i, env) # 0
    OBVIOUS
  <2> HIDE DEF i, e, hits, first
  <2>2. CASE i.op = "br"
    BY <1>3, <1>4, <2>2
  <2>3. CASE i.op = "cbr"
    BY <1>3, <1>4, <2>3
  <2>4. CASE i.op = "switch" /\ hits(e) # {}
    BY <1>3, <1>4, <1>5, <2>4
  <2>5. CASE i.op = "switch" /\ hits(e) = {} /\ i.to # <<>>
    BY <1>3, <1>4, <2>5
  <2> QED
    BY <1>1, <1>4, <2>1, <2>2, <2>3, <2>4, <2>5 DEF JumpOps
<1> HIDE DEF i
<1> QED
  BY <1>1, <1>6 DEF Succs, Blocks, i

(* What is assigned when a block is entered was assigned when any block    *)
(* before it was, or is defined there.                                     *)
LEMMA AssignedAcross ==
    ASSUME NEW p, NEW a \in DOMAIN p.insts, NEW b \in Succs(p, a)
    PROVE  AssignedOnEntry(p, b) \subseteq AssignedOnEntry(p, a) \cup DefinedIn(p, a)
<1> SUFFICES ASSUME NEW v \in AssignedOnEntry(p, b), v \notin LiveIns(p), v \notin DefinedIn(p, a)
             PROVE  v \in AssignedOnEntry(p, a)
  BY DEF AssignedOnEntry
<1>1. v \in Vers
  BY DEF AssignedOnEntry
<1>2. PICK S \in SUBSET DOMAIN p.insts :
          /\ Entry \in S /\ b \notin S
          /\ \A c \in S : v \in DefinedIn(p, c) \/ Succs(p, c) \subseteq S
  BY DEF AssignedOnEntry
<1>3. a \notin S
  BY <1>2
<1> QED
  BY <1>1, <1>2, <1>3 DEF AssignedOnEntry

(* What an instruction adds to what is assigned. *)
LEMMA AssignedAfter ==
    ASSUME Inv, Tracked, Running, ip' = ip + 1, UNCHANGED <<prog, at>>
    PROVE  AssignedHere' \subseteq AssignedHere \cup {w \in {Orig.dst} : Orig.op \in DefOps}
<1>1. at # 0 /\ at \in Blocks /\ ip \in Nat /\ DOMAIN prog.insts[at] \subseteq Nat
  BY ProgramFacts DEF Running, Tracked, Inv
<1>2. DefinedBefore(prog, at, ip + 1) \subseteq DefinedBefore(prog, at, ip) \cup {w \in {Orig.dst} : Orig.op \in DefOps}
  BY <1>1 DEF DefinedBefore, Orig
<1> QED
  BY <1>2 DEF AssignedHere

(* What is assigned when control enters a block.                           *)
LEMMA EnterFacts ==
    ASSUME Inv, Derived, Tracked, Running, Orig.op \in JumpOps,
           NEW b \in DOMAIN out.insts, b = Goto(Orig, env)
    PROVE  /\ b \in Blocks /\ b # 0 /\ at \in Blocks /\ b \in Succs(prog, at)
           /\ AssignedOnEntry(prog, b) \subseteq AssignedHere
           /\ \A k \in DOMAIN prog.phis[b] :
                at \in DOMAIN prog.phis[b][k].in /\ prog.phis[b][k].in[at] \in Vers \cap AssignedHere
<1>1. /\ at # 0 /\ phase = "done" /\ prog \in Executed /\ at \in Blocks /\ TypeOK
  BY DEF Running, Tracked, Inv
<1>2. b \in Blocks /\ b # 0
  BY <1>1, ProgramFacts DEF Derived, Analysed, TypeOK
<1>3. b \in Succs(prog, at)
  BY <1>2, JumpsAlongEdges
<1>4. AssignedOnEntry(prog, at) \cup DefinedIn(prog, at) \subseteq AssignedHere
  <2>1. \A j \in DOMAIN prog.insts[at] : prog.insts[at][j].op \in DefOps => j < ip
    BY <1>1, StrictFacts DEF Running, Orig
  <2> QED
    BY <2>1 DEF AssignedHere, DefinedIn, DefinedBefore
<1>5. AssignedOnEntry(prog, b) \subseteq AssignedHere
  BY <1>1, <1>3, <1>4, AssignedAcross DEF Blocks
<1>6. at \in Preds(prog, b)
  BY <1>1, <1>3 DEF Preds, Blocks
<1>7. ASSUME NEW k \in DOMAIN prog.phis[b]
      PROVE  at \in DOMAIN prog.phis[b][k].in /\ prog.phis[b][k].in[at] \in Vers \cap AssignedHere
  <2>1. at \in DOMAIN prog.phis[b][k].in /\ prog.phis[b][k].in[at] \in AssignedHere
    BY <1>1, <1>2, <1>4, <1>6, StrictFacts
  <2>2. IsPhi(prog.phis[b][k], Blocks)
    BY <1>1, <1>2, ProgramFacts
  <2> QED
    BY <2>1, <2>2 DEF IsPhi
<1> QED
  BY <1>1, <1>2, <1>3, <1>5, <1>7

LEMMA AssignedEntered ==
    ASSUME TypeOK, UNCHANGED prog, at' \in Blocks, ip' = 1
    PROVE  AssignedHere' = AssignedOnEntry(prog, at') \cup {prog.phis[at'][j].dst : j \in DOMAIN prog.phis[at']}
<1>1. DOMAIN prog.insts[at'] \subseteq Nat \ {0}
  BY ProgramFacts
<1>2. DefinedBefore(prog, at', 1) = {}
  BY <1>1 DEF DefinedBefore
<1> QED
  BY <1>2 DEF AssignedHere

LEMMA StepTracked == Inv /\ Derived /\ Tracked /\ [ExecNext]_both => Tracked'
<1> SUFFICES ASSUME Inv, Derived, Tracked, [ExecNext]_both PROVE Tracked'
  OBVIOUS
<1>0. TypeOK /\ DOMAIN prog.insts = Blocks /\ 0 \notin Blocks /\ execBlocks \subseteq Blocks
  BY ProgramFacts DEF Inv, TypeOK, Blocks
<1>1. CASE Analyse
  <2>1. UNCHANGED execVars /\ phase # "done"
    BY <1>1 DEF Analyse, Next, Pop, VisitPhi, VisitDef, VisitJump, VisitOther, LeaveBlock, NextRound,
                DropDeadBlocks, Rewrite, AtInst, Visiting, RoundOver
  <2> QED
    BY <2>1 DEF Tracked, execVars
<1>2. CASE Start
  <2>1. PICK e \in [LiveIns(prog) -> Inputs] :
             env' = [v \in Vers |-> IF v \in DOMAIN e THEN e[v] ELSE Undef]
    BY <1>2 DEF Start
  <2>2. /\ phase = "done" /\ prog \in Executed /\ at' = Entry /\ ip' = 1
        /\ UNCHANGED <<prog, phase>>
    BY <1>2 DEF Start, vars
  <2>3. Entry \in Blocks
    BY <1>0, ProgramFacts
  <2>4. ASSUME NEW v \in Vers \cap AssignedHere' PROVE env'[v] # Undef
    <3>1. DefinedBefore(prog, Entry, 1) = {}
      <4>1. DOMAIN prog.insts[Entry] \subseteq Nat \ {0}
        BY <1>0, <2>3, ProgramFacts
      <4> QED
        BY <4>1 DEF DefinedBefore
    <3>2. {prog.phis[Entry][j].dst : j \in DOMAIN prog.phis[Entry]} = {}
      BY <2>2, StrictFacts, EmptySeq
    <3>3. AssignedOnEntry(prog, Entry) = LiveIns(prog)
      BY DEF AssignedOnEntry
    <3>4. v \in LiveIns(prog)
      BY <2>2, <2>4, <3>1, <3>2, <3>3 DEF AssignedHere
    <3>5. e[v] \in Inputs /\ env'[v] = e[v]
      BY <2>1, <3>4
    <3> QED
      BY <3>5, ExecAssumption
  <2>5. env' = [v \in Vers |-> env'[v]]
    BY <2>1
  <2> QED
    BY <1>0, <2>2, <2>3, <2>4, <2>5 DEF Tracked, Blocks
<1>3. CASE Assign
  <2>1. PICK n \in Inputs : env' = [env EXCEPT ![Orig.dst] = Result(Orig, env, n)]
    BY <1>3 DEF Assign
  <2>2. Running /\ Orig.op \in DefOps /\ ip' = ip + 1 /\ UNCHANGED <<prog, phase, at>>
    BY <1>3 DEF Assign, vars
  <2>3. /\ at # 0 /\ phase = "done" /\ prog \in Executed /\ at \in Blocks
        /\ \A v \in Vers \cap AssignedHere : env[v] # Undef
    BY <2>2 DEF Running, Tracked
  <2>4. Result(Orig, env, n) # Undef
    BY <2>2, ResultAssigned
  <2>5. AssignedHere' \subseteq AssignedHere \cup {Orig.dst}
    BY <2>2, AssignedAfter
  <2>6. \A v \in Vers : env'[v] = IF v = Orig.dst THEN Result(Orig, env, n) ELSE env[v]
    BY <2>1 DEF Tracked
  <2>7. env' = [v \in Vers |-> env'[v]]
    BY <2>1 DEF Tracked
  <2>8. \A v \in Vers \cap AssignedHere' : env'[v] # Undef
    BY <2>3, <2>4, <2>5, <2>6
  <2>9. ip' \in Nat
    BY <2>2, <2>3 DEF Tracked
  <2> QED
    BY <2>2, <2>3, <2>7, <2>8, <2>9 DEF Tracked, Blocks
<1>4. CASE Effect
  <2>1. Running /\ Orig.op = "store" /\ ip' = ip + 1 /\ UNCHANGED <<prog, phase, at, env>>
    BY <1>4 DEF Effect, vars
  <2>2. at # 0 /\ at \in Blocks /\ ip \in Nat
    BY <2>1 DEF Running, Tracked
  <2>3. AssignedHere' \subseteq AssignedHere
    BY <2>1, AssignedAfter DEF DefOps, PureOps
  <2> QED
    BY <2>1, <2>2, <2>3 DEF Tracked, Blocks
<1>5. CASE Jump
  <2> DEFINE b == Goto(Orig, env)
  <2>1. /\ Running /\ Orig.op \in JumpOps /\ UNCHANGED <<prog, phase, out>> /\ ip' = 1
        /\ b \in DOMAIN out.insts /\ env' = EnterBlock(prog.phis[b], env, at) /\ at' = b
    BY <1>5 DEF Jump, vars
  <2>2. /\ at # 0 /\ phase = "done" /\ prog \in Executed /\ at \in Blocks
        /\ \A v \in Vers \cap AssignedHere : env[v] # Undef
    BY <2>1 DEF Running, Tracked
  <2>3. /\ b \in Blocks /\ b # 0 /\ AssignedOnEntry(prog, b) \subseteq AssignedHere
        /\ \A k \in DOMAIN prog.phis[b] :
             at \in DOMAIN prog.phis[b][k].in /\ prog.phis[b][k].in[at] \in Vers \cap AssignedHere
    BY <2>1, EnterFacts
  <2> HIDE DEF b
  <2>4. \A k \in DOMAIN prog.phis[b] : prog.phis[b][k].dst \in Vers
    BY <1>0, <2>3, ProgramFacts DEF IsPhi
  <2>5. /\ env' = [v \in Vers |-> env'[v]]
        /\ \A v \in Vers :
             \/ env'[v] = env[v] /\ \A k \in DOMAIN prog.phis[b] : prog.phis[b][k].dst # v
             \/ \E k \in DOMAIN prog.phis[b] : env'[v] = env[prog.phis[b][k].in[at]]
    BY <2>1, <2>3, <2>4, BlockEntered
  <2>6. AssignedHere' = AssignedOnEntry(prog, b) \cup {prog.phis[b][j].dst : j \in DOMAIN prog.phis[b]}
    BY <1>0, <2>1, <2>3, AssignedEntered
  <2>7. \A v \in Vers \cap AssignedHere' : env'[v] # Undef
    BY <2>2, <2>3, <2>5, <2>6
  <2> QED
    BY <2>1, <2>2, <2>3, <2>5, <2>7 DEF Tracked, Blocks
<1>6. CASE UNCHANGED both
  BY <1>6 DEF both, vars, execVars, Tracked, AssignedHere, Blocks
<1> QED
  BY <1>1, <1>2, <1>3, <1>4, <1>5, <1>6 DEF ExecNext, both

-----------------------------------------------------------------------------
(* Every constant that is read has its value                               *)

LEMMA StepFollows ==
    Inv /\ SettledBehind /\ Derived /\ Tracked /\ Follows /\ JoinsAgree /\ [ExecNext]_both
      => Follows'
<1> SUFFICES ASSUME Inv, SettledBehind, Derived, Tracked, Follows, JoinsAgree, [ExecNext]_both PROVE Follows'
  OBVIOUS
<1>0. /\ FixpointReached /\ prog \in Programs
      /\ DOMAIN prog.insts = Blocks /\ 0 \notin Blocks /\ execBlocks \subseteq Blocks
      /\ lat \in [Vers -> Lattice] /\ Top \notin Int
  BY SettledIsFixpoint, ProgramFacts, ConstantsAssumption DEF Inv, TypeOK, Blocks
<1>1. CASE Analyse
  <2>1. UNCHANGED execVars /\ Next /\ UNCHANGED prog /\ phase # "done"
    BY <1>1 DEF Analyse, Next, Pop, VisitPhi, VisitDef, VisitJump, VisitOther, LeaveBlock, NextRound,
                DropDeadBlocks, Rewrite, AtInst, Visiting, RoundOver
  <2>2. at = 0 /\ env = Idle
    BY <2>1 DEF Follows
  <2> QED
    BY <2>1, <2>2 DEF Follows, execVars, Idle
<1>2. CASE Start
  <2>1. PICK e \in [LiveIns(prog) -> Inputs] :
             env' = [v \in Vers |-> IF v \in DOMAIN e THEN e[v] ELSE Undef]
    BY <1>2 DEF Start
  <2>2. /\ phase = "done" /\ prog \in Executed /\ at' = Entry
        /\ UNCHANGED <<prog, lat, execEdges, execBlocks, phase, out>>
    BY <1>2 DEF Start, vars, round
  <2>3. Entry \in execBlocks /\ Entry # 0
    BY <1>0, ProgramFacts DEF Derived, Inv
  <2>4. ASSUME NEW v \in Vers, lat[v] \in Int, env'[v] # Undef PROVE env'[v] = lat[v]
    <3>1. v \in LiveIns(prog)
      BY <2>1, <2>4
    <3>2. lat[v] = Top
      BY <3>1 DEF LiveIns, Derived
    <3> QED
      BY <1>0, <2>4, <3>2
  <2>5. env' = [v \in Vers |-> env'[v]]
    BY <2>1
  <2> QED
    BY <2>2, <2>3, <2>4, <2>5 DEF Follows, Entry
<1>3. CASE Assign
  <2>1. PICK n \in Inputs : env' = [env EXCEPT ![Orig.dst] = Result(Orig, env, n)]
    BY <1>3 DEF Assign
  <2>2. /\ Running /\ Orig.op \in DefOps /\ UNCHANGED <<vars, at>>
    BY <1>3 DEF Assign
  <2>3. /\ phase = "done" /\ prog \in Executed /\ at # 0
    BY <2>2 DEF Running, Follows
  <2>4. Undef \notin Range(Values(Orig, env))
    BY <2>2, NothingEarly DEF ReadsAssigned
  <2>5. ASSUME NEW v \in Vers \cap Read(prog), lat[v] \in Int, env'[v] # Undef PROVE env'[v] = lat[v]
    <3>1. CASE v = Orig.dst
      <4>1. Result(Orig, env, n) = lat[v]
        BY <1>0, <2>2, <2>3, <2>4, <2>5, <3>1, ConstantAssigned
      <4>2. env'[v] = Result(Orig, env, n)
        BY <2>1, <3>1 DEF Follows
      <4> QED
        BY <4>1, <4>2
    <3>2. CASE v # Orig.dst
      <4>1. env'[v] = env[v]
        BY <2>1, <3>2 DEF Follows
      <4> QED
        BY <2>3, <2>5, <4>1 DEF Follows
    <3> QED
      BY <3>1, <3>2
  <2>6. env' = [v \in Vers |-> env'[v]]
    BY <2>1 DEF Follows
  <2> QED
    BY <2>2, <2>3, <2>5, <2>6 DEF Follows, vars, round
<1>4. CASE Effect
  BY <1>4 DEF Effect, Running, Follows, vars, round
<1>5. CASE Jump
  <2> DEFINE b == Goto(Orig, env)
  <2>1. /\ Running /\ Orig.op \in JumpOps /\ UNCHANGED vars
        /\ b \in DOMAIN out.insts /\ env' = EnterBlock(prog.phis[b], env, at) /\ at' = b
    BY <1>5 DEF Jump
  <2>2. /\ phase = "done" /\ prog \in Executed /\ at # 0 /\ Analysed
    BY <2>1 DEF Running, Follows, Analysed
  <2>4. b \in execBlocks /\ b \in Blocks /\ b # 0
    BY <1>0, <2>1, <2>2 DEF Derived
  <2>5. <<at, b>> \in execEdges
    BY <2>1, <2>4, JumpsAlongMarked
  <2> HIDE DEF b
  <2>7. env' = [v \in Vers |-> env'[v]]
    BY <2>1, BlockEntered
  <2>8. ASSUME NEW v \in Vers \cap Read(prog), lat[v] \in Int, env'[v] # Undef PROVE env'[v] = lat[v]
    <3> DEFINE phis == prog.phis[b]
    <3>1. CASE env'[v] = env[v]
      BY <2>2, <2>8, <3>1 DEF Follows
    <3>2. CASE env'[v] # env[v]
      <4>1. PICK k \in DOMAIN phis : /\ at \in DOMAIN phis[k].in /\ phis[k].dst = v
                                     /\ env'[v] = env[phis[k].in[at]]
        BY <2>1, <3>2, BlockEntered
      <4>2. IsPhi(phis[k], Blocks)
        BY <2>4, ProgramFacts DEF Inv
      <4>3. phis[k].in[at] \in Vers
        BY <4>1, <4>2 DEF IsPhi
      <4>4. phis[k].in[at] \in Read(prog)
        BY <1>0, <2>4, <4>1, <4>3, PhisRead DEF Range
      <4>5. v \in Read(prog) /\ lat[v] \in Int
        BY <2>8
      <4>6. lat[phis[k].in[at]] = lat[v]
        BY <2>2, <2>4, <2>5, <4>1, <4>5 DEF JoinsAgree
      <4> QED
        BY <2>2, <2>8, <4>1, <4>3, <4>4, <4>6 DEF Follows
    <3> QED
      BY <3>1, <3>2
  <2> QED
    BY <2>1, <2>2, <2>4, <2>7, <2>8 DEF Follows, vars, round
<1>6. CASE UNCHANGED both
  BY <1>6 DEF both, vars, round, execVars, Follows
<1> QED
  BY <1>1, <1>2, <1>3, <1>4, <1>5, <1>6 DEF ExecNext, both

-----------------------------------------------------------------------------
(***************************************************************************)
(* The rewritten function: which version holds which value                 *)
(***************************************************************************)
(* The executable edges that are edges of the function: all that control   *)
(* takes.                                                                  *)
Passes(c, t) == <<c, t>> \in execEdges /\ t \in Succs(prog, c)

(* S holds every block that is entered before v was assigned: the blocks   *)
(* that assign v are where such a path may end.                            *)
Avoids(S, v) ==
    /\ S \in SUBSET Blocks /\ Entry \in S
    /\ \A c \in S : v \in DefinedIn(prog, c) \/ \A t \in Blocks : Passes(c, t) => t \in S

(* The blocks that may be entered with v unassigned, and those at the end  *)
(* of which v is always assigned.                                          *)
Without(v)  == {b \in Blocks : \A S \in SUBSET Blocks : Avoids(S, v) => b \in S}
AtEnd(v, q) == v \in DefinedIn(prog, q) \/ q \notin Without(v)

(* The blocks control may come to. *)
ClosedUnder(S) == Entry \in S /\ \A c \in S : \A t \in Blocks : Passes(c, t) => t \in S
Reached == {b \in Blocks : \A S \in SUBSET Blocks : ClosedUnder(S) => b \in S}

(* The pairs of a version and the version or the integer it always equals  *)
(* once it is assigned: what a version is known to be, and what all the    *)
(* live inputs of a phi equal, provided that is assigned on every edge to  *)
(* the phi.  A loop may carry a phi back to itself, so a set of pairs is   *)
(* justified as a whole.                                                   *)
Origins     == (Vers \cap Read(prog)) \cup Int
Known(v, x) == v \in Read(prog) /\ x \in Int /\ lat[v] = x

Merges(E, p, b, x) ==
    \A q \in DOMAIN p.in : Passes(q, b) =>
        /\ p.in[q] = x \/ <<p.in[q], x>> \in E
        /\ x \in Vers \cap Defined(prog) => AtEnd(x, q)

MergedIn(E, v, x) ==
    \E b \in execBlocks : \E k \in DOMAIN prog.phis[b] :
        prog.phis[b][k].dst = v /\ Merges(E, prog.phis[b][k], b, x)

Justified(E) ==
    /\ E \in SUBSET (Vers \X Origins)
    /\ \A v \in Vers, x \in Origins : <<v, x>> \in E => Known(v, x) \/ MergedIn(E, v, x)

Copies == {e \in Vers \X Origins : \E E \in SUBSET (Vers \X Origins) : Justified(E) /\ e \in E}

Same(o, x) == o = x \/ <<o, x>> \in Copies

-----------------------------------------------------------------------------
(* A version has one definition, in one block.                             *)
LEMMA OnePhi ==
    ASSUME TypeOK, prog \in Executed, NEW b \in Blocks, NEW k \in DOMAIN prog.phis[b]
    PROVE  /\ prog.phis[b][k].dst \in Vers /\ prog.phis[b][k].dst \in Defined(prog)
           /\ \A c \in Blocks : \A j \in DOMAIN prog.phis[c] :
                prog.phis[c][j].dst = prog.phis[b][k].dst => c = b /\ j = k
           /\ \A c \in Blocks : \A j \in DOMAIN prog.insts[c] : prog.insts[c][j].dst # prog.phis[b][k].dst
<1> DEFINE phis  == UNION {{<<c, "phi", j>> : j \in DOMAIN prog.phis[c]} : c \in DOMAIN prog.insts}
           insts == UNION {{<<c, "inst", j>> : j \in {h \in DOMAIN prog.insts[c] : prog.insts[c][h].op \in DefOps}} :
                           c \in DOMAIN prog.insts}
           Dst(d) == IF d[2] = "phi" THEN prog.phis[d[1]][d[3]].dst ELSE prog.insts[d[1]][d[3]].dst
<1>1. \A d, e \in phis \cup insts : Dst(d) = Dst(e) => d = e
  BY ExecAssumption DEF DefinedOnce
<1>2. <<b, "phi", k>> \in phis /\ Dst(<<b, "phi", k>>) = prog.phis[b][k].dst
  BY DEF Blocks
<1>3. ASSUME NEW c \in Blocks, NEW j \in DOMAIN prog.phis[c], prog.phis[c][j].dst = prog.phis[b][k].dst
      PROVE  c = b /\ j = k
  <2>1. <<c, "phi", j>> \in phis /\ Dst(<<c, "phi", j>>) = prog.phis[c][j].dst
    BY DEF Blocks
  <2>2. <<c, "phi", j>> = <<b, "phi", k>>
    BY <1>1, <1>2, <1>3, <2>1
  <2> QED
    BY <2>2
<1>4. IsPhi(prog.phis[b][k], Blocks)
  BY ProgramFacts
<1>5. ASSUME NEW c \in Blocks, NEW j \in DOMAIN prog.insts[c], prog.insts[c][j].dst = prog.phis[b][k].dst
      PROVE  FALSE
  <2>1. IsInst(prog.insts[c][j], Blocks)
    BY ProgramFacts
  <2>2. prog.insts[c][j].op \in DefOps
    BY <1>4, <1>5, <2>1 DEF IsInst, IsPhi
  <2> QED
    BY <1>5, <2>2, OneDefinition DEF Blocks
<1>6. prog.phis[b][k].dst \in Vers /\ prog.phis[b][k].dst \in Defined(prog)
  BY <1>4 DEF IsPhi, Defined, Blocks
<1> QED
  BY <1>3, <1>5, <1>6

LEMMA OneBlock ==
    ASSUME TypeOK, prog \in Executed, NEW b \in Blocks, NEW c \in Blocks, NEW v,
           v \in DefinedIn(prog, b), v \in DefinedIn(prog, c)
    PROVE  b = c
<1>1. CASE \E k \in DOMAIN prog.phis[b] : prog.phis[b][k].dst = v
  BY <1>1, OnePhi DEF DefinedIn, DefinedBefore
<1>2. CASE \E k \in DOMAIN prog.phis[c] : prog.phis[c][k].dst = v
  BY <1>2, OnePhi DEF DefinedIn, DefinedBefore
<1>3. CASE ~(\E k \in DOMAIN prog.phis[b] : prog.phis[b][k].dst = v) /\ ~(\E k \in DOMAIN prog.phis[c] : prog.phis[c][k].dst = v)
  <2>1. PICK k \in DOMAIN prog.insts[b] : prog.insts[b][k].op \in DefOps /\ prog.insts[b][k].dst = v
    BY <1>3 DEF DefinedIn, DefinedBefore
  <2>2. PICK j \in DOMAIN prog.insts[c] : prog.insts[c][j].op \in DefOps /\ prog.insts[c][j].dst = v
    BY <1>3 DEF DefinedIn, DefinedBefore
  <2> QED
    BY <2>1, <2>2, OneDefinition DEF Blocks
<1> QED
  BY <1>1, <1>2, <1>3

(* What is defined is defined in a block.                                  *)
LEMMA DefinedSomewhere ==
    ASSUME TypeOK, NEW v \in Vers, v \in Defined(prog)
    PROVE  \E b \in Blocks : v \in DefinedIn(prog, b)
<1>1. PICK b \in Blocks : v \in {prog.phis[b][k].dst : k \in DOMAIN prog.phis[b]}
                            \cup {prog.insts[b][k].dst : k \in DOMAIN prog.insts[b]}
  BY DEF Defined, Blocks
<1>2. CASE v \in {prog.phis[b][k].dst : k \in DOMAIN prog.phis[b]}
  BY <1>2 DEF DefinedIn
<1>3. CASE v \in {prog.insts[b][k].dst : k \in DOMAIN prog.insts[b]}
  <2>1. PICK k \in DOMAIN prog.insts[b] : v = prog.insts[b][k].dst
    BY <1>3
  <2>2. IsInst(prog.insts[b][k], Blocks)
    BY ProgramFacts
  <2>3. prog.insts[b][k].op \in DefOps
    BY <2>1, <2>2 DEF IsInst
  <2>4. k < Len(prog.insts[b]) + 1
    BY ProgramFacts
  <2> QED
    BY <2>1, <2>3, <2>4 DEF DefinedIn, DefinedBefore
<1> QED
  BY <1>1, <1>2, <1>3

(* The blocks entered without v are themselves such a set, and the         *)
(* smallest.                                                               *)
LEMMA WithoutAvoids ==
    ASSUME TypeOK, NEW v
    PROVE  Avoids(Without(v), v) /\ \A S : Avoids(S, v) => Without(v) \subseteq S
<1>1. \A S : Avoids(S, v) => Without(v) \subseteq S
  BY DEF Without, Avoids
<1>2. Without(v) \in SUBSET Blocks /\ Entry \in Without(v)
  BY ProgramFacts DEF Without, Avoids
<1>3. ASSUME NEW c \in Without(v), v \notin DefinedIn(prog, c), NEW t \in Blocks, Passes(c, t)
      PROVE  t \in Without(v)
  <2> SUFFICES ASSUME NEW S \in SUBSET Blocks, Avoids(S, v) PROVE t \in S
    BY DEF Without
  <2>1. c \in S
    BY <1>1
  <2> QED
    BY <1>3, <2>1 DEF Avoids
<1> QED
  BY <1>1, <1>2, <1>3 DEF Avoids

(* What is assigned on entry to a block along every path of the function   *)
(* is assigned along the paths control takes.                              *)
LEMMA AssignedAvoids ==
    ASSUME TypeOK, NEW b \in Blocks, NEW v \in AssignedOnEntry(prog, b), v \in Defined(prog)
    PROVE  b \notin Without(v)
<1>1. PICK S \in SUBSET DOMAIN prog.insts :
          /\ Entry \in S /\ b \notin S
          /\ \A a \in S : v \in DefinedIn(prog, a) \/ Succs(prog, a) \subseteq S
  BY DEF AssignedOnEntry, LiveIns
<1>2. Avoids(S, v)
  BY <1>1 DEF Avoids, Passes, Blocks
<1> QED
  BY <1>1, <1>2, WithoutAvoids

(* Control comes to a block that defines v with v unassigned first.        *)
LEMMA FirstTime ==
    ASSUME TypeOK, prog \in Executed, NEW d \in Reached, NEW v, v \in DefinedIn(prog, d)
    PROVE  d \in Without(v)
<1> SUFFICES ASSUME d \notin Without(v) PROVE FALSE
  OBVIOUS
<1>0. d \in Blocks
  BY DEF Reached
<1>1. Avoids(Without(v), v)
  BY WithoutAvoids
<1>2. \A c \in Without(v) : v \notin DefinedIn(prog, c)
  BY <1>0, <1>1, OneBlock DEF Avoids
<1>3. ClosedUnder(Without(v)) /\ Without(v) \in SUBSET Blocks
  BY <1>1, <1>2 DEF Avoids, ClosedUnder
<1> QED
  BY <1>3 DEF Reached

LEMMA ReachedAcross ==
    ASSUME TypeOK, NEW a \in Reached, NEW b \in Blocks, Passes(a, b) PROVE b \in Reached
BY DEF Reached, ClosedUnder

LEMMA EntryReached == TypeOK => Entry \in Reached
BY ProgramFacts DEF Reached, ClosedUnder

LEMMA MergesMore ==
    ASSUME NEW E, NEW F, E \subseteq F, NEW v, NEW x, MergedIn(E, v, x)
    PROVE  MergedIn(F, v, x)
BY DEF MergedIn, Merges

(* All that is justified together with something is a copy, and the copies *)
(* justify each other.                                                     *)
LEMMA CopiesJustified == Justified(Copies) /\ \A E : Justified(E) => E \subseteq Copies
<1>1. \A E : Justified(E) => E \subseteq Copies
  BY DEF Copies, Justified
<1>2. ASSUME NEW v \in Vers, NEW x \in Origins, <<v, x>> \in Copies PROVE Known(v, x) \/ MergedIn(Copies, v, x)
  <2>1. PICK E \in SUBSET (Vers \X Origins) : Justified(E) /\ <<v, x>> \in E
    BY <1>2 DEF Copies
  <2>2. E \subseteq Copies
    BY <1>1, <2>1
  <2> QED
    BY <2>1, <2>2, MergesMore DEF Justified
<1>3. Copies \in SUBSET (Vers \X Origins)
  BY DEF Copies
<1> QED
  BY <1>1, <1>2, <1>3 DEF Justified

LEMMA CopyType ==
    ASSUME NEW v, NEW x, <<v, x>> \in Copies
    PROVE  v \in Vers /\ x \in Origins /\ (Known(v, x) \/ MergedIn(Copies, v, x))
<1>1. v \in Vers /\ x \in Origins
  BY DEF Copies
<1> QED
  BY <1>1, CopiesJustified DEF Justified

LEMMA NewPair ==
    ASSUME NEW v \in Vers, NEW x \in Origins, Known(v, x) \/ MergedIn(Copies, v, x)
    PROVE  <<v, x>> \in Copies
<1> DEFINE E == Copies \cup {<<v, x>>}
<1>1. E \in SUBSET (Vers \X Origins) /\ Copies \subseteq E
  BY CopiesJustified DEF Justified
<1>2. ASSUME NEW w \in Vers, NEW y \in Origins, <<w, y>> \in E PROVE Known(w, y) \/ MergedIn(E, w, y)
  <2>1. CASE <<w, y>> = <<v, x>>
    BY <1>1, <2>1, MergesMore
  <2>2. CASE <<w, y>> \in Copies
    BY <1>1, <2>2, CopyType, MergesMore
  <2> QED
    BY <1>2, <2>1, <2>2
<1>3. Justified(E)
  BY <1>1, <1>2 DEF Justified
<1> QED
  BY <1>3, CopiesJustified

(* A version that equals another one is set by a phi, and the other one is *)
(* assigned on every edge to that phi and so on entry to its block.        *)
LEMMA CopyOfVersion ==
    ASSUME TypeOK, prog \in Executed, NEW v, NEW x \in Vers, x \in Defined(prog), <<v, x>> \in Copies
    PROVE  \E b \in execBlocks : \E k \in DOMAIN prog.phis[b] :
             /\ b \in Blocks /\ prog.phis[b][k].dst = v /\ Merges(Copies, prog.phis[b][k], b, x)
             /\ b \notin Without(x)
<1>1. PICK b \in execBlocks : \E k \in DOMAIN prog.phis[b] :
          prog.phis[b][k].dst = v /\ Merges(Copies, prog.phis[b][k], b, x)
  BY CopyType, ConstantsAssumption DEF MergedIn, Known
<1>2. PICK k \in DOMAIN prog.phis[b] : prog.phis[b][k].dst = v /\ Merges(Copies, prog.phis[b][k], b, x)
  BY <1>1
<1>3. b \in Blocks
  BY DEF TypeOK
<1> DEFINE S == Without(x) \ {b}
<1>4. Avoids(Without(x), x)
  BY WithoutAvoids
<1>5. Entry # b
  BY <1>2, StrictFacts, EmptySeq
<1>6. ASSUME NEW c \in S, x \notin DefinedIn(prog, c), NEW t \in Blocks, Passes(c, t) PROVE t \in S
  <2>1. t \in Without(x)
    BY <1>4, <1>6 DEF Avoids
  <2>2. t # b
    <3> SUFFICES ASSUME t = b PROVE FALSE
      OBVIOUS
    <3>1. c \in Preds(prog, b)
      BY <1>4, <1>6 DEF Avoids, Passes, Preds, Blocks
    <3>2. c \in DOMAIN prog.phis[b][k].in
      BY <1>3, <3>1, StrictFacts
    <3>3. AtEnd(x, c)
      BY <1>2, <1>6, <3>2 DEF Merges
    <3> QED
      BY <1>6, <3>3 DEF AtEnd
  <2> QED
    BY <2>1, <2>2
<1>7. Avoids(S, x)
  BY <1>4, <1>5, <1>6 DEF Avoids
<1>8. b \notin Without(x)
  BY <1>7, WithoutAvoids
<1> QED
  BY <1>2, <1>3, <1>8

(* What may be entered without the other one may be entered without the    *)
(* copy.                                                                   *)
LEMMA CopyLater ==
    ASSUME TypeOK, prog \in Executed, NEW v, NEW x \in Vers, x \in Defined(prog), <<v, x>> \in Copies
    PROVE  Without(x) \subseteq Without(v)
<1>1. PICK b \in execBlocks : \E k \in DOMAIN prog.phis[b] :
             b \in Blocks /\ prog.phis[b][k].dst = v /\ b \notin Without(x)
  BY CopyOfVersion
<1>2. PICK k \in DOMAIN prog.phis[b] : b \in Blocks /\ prog.phis[b][k].dst = v /\ b \notin Without(x)
  BY <1>1
<1>3. Avoids(Without(x), x) /\ Avoids(Without(v), v)
  BY WithoutAvoids
<1>4. v \in DefinedIn(prog, b)
  BY <1>2 DEF DefinedIn
<1> DEFINE S == Without(x) \cap Without(v)
<1>5. ASSUME NEW c \in S, x \notin DefinedIn(prog, c), NEW t \in Blocks, Passes(c, t) PROVE t \in S
  <2>1. v \notin DefinedIn(prog, c)
    BY <1>2, <1>3, <1>4, OneBlock DEF Avoids
  <2> QED
    BY <1>3, <1>5, <2>1 DEF Avoids
<1>6. Avoids(S, x)
  BY <1>3, <1>5 DEF Avoids
<1> QED
  BY <1>6, WithoutAvoids

LEMMA CopyAtEnd ==
    ASSUME TypeOK, prog \in Executed, NEW v, NEW x \in Vers, x \in Defined(prog), <<v, x>> \in Copies,
           NEW q \in Blocks, AtEnd(v, q)
    PROVE  AtEnd(x, q)
<1> SUFFICES ASSUME x \notin DefinedIn(prog, q), q \in Without(x) PROVE FALSE
  BY DEF AtEnd
<1>1. v \in DefinedIn(prog, q)
  BY CopyLater DEF AtEnd
<1>2. PICK b \in execBlocks : \E k \in DOMAIN prog.phis[b] :
             b \in Blocks /\ prog.phis[b][k].dst = v /\ b \notin Without(x)
  BY CopyOfVersion
<1>3. PICK k \in DOMAIN prog.phis[b] : b \in Blocks /\ prog.phis[b][k].dst = v /\ b \notin Without(x)
  BY <1>2
<1>4. v \in DefinedIn(prog, b)
  BY <1>3 DEF DefinedIn
<1> QED
  BY <1>1, <1>3, <1>4, OneBlock

(* A copy of a copy is a copy.                                             *)
LEMMA CopyOfCopy ==
    ASSUME TypeOK, prog \in Executed, NEW u, NEW w, NEW y, <<u, w>> \in Copies, <<w, y>> \in Copies
    PROVE  <<u, y>> \in Copies
<1> DEFINE E == Copies \cup {e \in Vers \X Origins :
                   \E m \in Vers : <<e[1], m>> \in Copies /\ <<m, e[2]>> \in Copies}
<1>1. E \in SUBSET (Vers \X Origins) /\ Copies \subseteq E
  BY CopiesJustified DEF Justified
<1>2. ASSUME NEW v \in Vers, NEW x \in Origins, <<v, x>> \in E PROVE Known(v, x) \/ MergedIn(E, v, x)
  <2>1. CASE <<v, x>> \in Copies
    BY <1>1, <2>1, CopyType, MergesMore
  <2>2. CASE <<v, x>> \notin Copies
    <3>1. PICK m \in Vers : <<v, m>> \in Copies /\ <<m, x>> \in Copies
      BY <1>2, <2>2
    <3>2. PICK b \in execBlocks : \E k \in DOMAIN prog.phis[b] :
             prog.phis[b][k].dst = v /\ Merges(Copies, prog.phis[b][k], b, m)
      BY <3>1, CopyType, ConstantsAssumption DEF MergedIn, Known
    <3>3. PICK k \in DOMAIN prog.phis[b] : prog.phis[b][k].dst = v /\ Merges(Copies, prog.phis[b][k], b, m)
      BY <3>2
    <3> DEFINE p == prog.phis[b][k]
    <3>4. ASSUME NEW q \in DOMAIN p.in, Passes(q, b)
          PROVE  /\ p.in[q] = x \/ <<p.in[q], x>> \in E
                 /\ x \in Vers \cap Defined(prog) => AtEnd(x, q)
      <4>1. /\ p.in[q] = m \/ <<p.in[q], m>> \in Copies
            /\ m \in Vers \cap Defined(prog) => AtEnd(m, q)
        BY <3>3, <3>4 DEF Merges
      <4>2. p.in[q] \in Vers /\ q \in Blocks
        <5>1. b \in Blocks
          BY DEF TypeOK
        <5>2. IsPhi(p, Blocks)
          BY <5>1, ProgramFacts
        <5> QED
          BY <5>2 DEF IsPhi
      <4>3. <<p.in[q], x>> \in E
        BY <3>1, <4>1, <4>2
      <4>4. ASSUME x \in Vers, x \in Defined(prog) PROVE AtEnd(x, q)
        <5>1. m \in Defined(prog)
          BY <3>1, <4>4, CopyOfVersion, OnePhi
        <5> QED
          BY <3>1, <4>1, <4>2, <4>4, <5>1, CopyAtEnd
      <4> QED
        BY <4>3, <4>4
    <3> QED
      BY <3>3, <3>4 DEF MergedIn, Merges
  <2> QED
    BY <2>1, <2>2
<1>3. Justified(E)
  BY <1>1, <1>2 DEF Justified
<1>4. <<u, y>> \in E
  <2>1. u \in Vers /\ w \in Vers /\ y \in Origins
    BY CopyType
  <2> QED
    BY <2>1
<1> QED
  BY <1>3, <1>4, CopiesJustified

(* A phi all of whose live inputs are copies of one value is one too: its  *)
(* inputs are assigned at the end of the blocks they come from.            *)
LEMMA PhiCopies ==
    ASSUME TypeOK, prog \in Executed, NEW b \in execBlocks, NEW k \in DOMAIN prog.phis[b], NEW x \in Origins,
           \A q \in DOMAIN prog.phis[b][k].in : Passes(q, b) => Same(prog.phis[b][k].in[q], x)
    PROVE  <<prog.phis[b][k].dst, x>> \in Copies
<1> DEFINE p == prog.phis[b][k]
<1>1. b \in Blocks
  BY DEF TypeOK
<1>2. IsPhi(p, Blocks) /\ p.dst \in Vers
  BY <1>1, ProgramFacts, OnePhi
<1>3. ASSUME NEW q \in DOMAIN p.in, Passes(q, b), x \in Vers, x \in Defined(prog) PROVE AtEnd(x, q)
  <2> DEFINE w == p.in[q]
  <2>1. q \in Blocks /\ w \in Vers
    BY <1>2 DEF IsPhi
  <2>2. q \in Preds(prog, b)
    BY <1>3, <2>1 DEF Preds, Passes, Blocks
  <2>3. w \in AssignedOnEntry(prog, q) \cup DefinedIn(prog, q)
    BY <1>1, <2>2, StrictFacts
  <2>4. w = x \/ <<w, x>> \in Copies
    BY <1>3 DEF Same
  <2>5. w \in Defined(prog)
    BY <1>3, <2>4, CopyOfVersion, OnePhi
  <2>6. AtEnd(w, q)
    BY <2>1, <2>3, <2>5, AssignedAvoids DEF AtEnd
  <2> HIDE DEF w
  <2> QED
    BY <1>3, <2>1, <2>4, <2>6, CopyAtEnd
<1>4. Merges(Copies, p, b, x)
  BY <1>3 DEF Merges, Same
<1>5. MergedIn(Copies, p.dst, x)
  BY <1>4 DEF MergedIn
<1> QED
  BY <1>2, <1>5, NewPair

(* The other one is not assigned again while the copy stays in use: a      *)
(* block that assigns it comes before the copy on some path.               *)
LEMMA CopyLeftBehind ==
    ASSUME TypeOK, prog \in Executed, NEW v, NEW x \in Vers, <<v, x>> \in Copies,
           NEW d \in Reached, x \in DefinedIn(prog, d)
    PROVE  v \notin DefinedIn(prog, d) /\ v \notin AssignedOnEntry(prog, d)
<1>0. d \in Blocks
  BY DEF Reached
<1>1. x \in Defined(prog)
  BY <1>0 DEF DefinedIn, DefinedBefore, Defined, Blocks
<1>2. d \in Without(x)
  BY FirstTime
<1>3. PICK b \in execBlocks : \E k \in DOMAIN prog.phis[b] :
             b \in Blocks /\ prog.phis[b][k].dst = v /\ b \notin Without(x)
  BY <1>1, CopyOfVersion
<1>4. PICK k \in DOMAIN prog.phis[b] : b \in Blocks /\ prog.phis[b][k].dst = v /\ b \notin Without(x)
  BY <1>3
<1>5. v \in DefinedIn(prog, b) /\ v \in Defined(prog)
  BY <1>4, OnePhi DEF DefinedIn
<1>6. v \notin DefinedIn(prog, d)
  BY <1>0, <1>2, <1>4, <1>5, OneBlock
<1>7. d \in Without(v)
  BY <1>1, <1>2, CopyLater
<1> QED
  BY <1>0, <1>5, <1>6, <1>7, AssignedAvoids

-----------------------------------------------------------------------------
(* The copies and the blocks reached are those of the finished analysis.   *)
LEMMA CopiesKept ==
    ASSUME UNCHANGED <<prog, lat, execEdges, execBlocks>>
    PROVE  Copies' = Copies /\ Reached' = Reached
<1>0. Blocks' = Blocks /\ Entry' = Entry /\ Origins' = Origins
  BY DEF Blocks, Entry, Origins
<1>1. \A c, t : Passes(c, t)' <=> Passes(c, t)
  BY DEF Passes
<1>2. \A S, v : Avoids(S, v)' <=> Avoids(S, v)
  BY <1>0, <1>1 DEF Avoids
<1>3. \A v : Without(v)' = Without(v)
  BY <1>0, <1>2 DEF Without
<1>4. \A v, q : AtEnd(v, q)' <=> AtEnd(v, q)
  BY <1>3 DEF AtEnd
<1>5. \A E, p, b, x : Merges(E, p, b, x)' <=> Merges(E, p, b, x)
  BY <1>1, <1>4 DEF Merges
<1>6. \A E, v, x : MergedIn(E, v, x)' <=> MergedIn(E, v, x)
  BY <1>5 DEF MergedIn
<1>7. \A v, x : Known(v, x)' <=> Known(v, x)
  BY DEF Known
<1>8. \A E : Justified(E)' <=> Justified(E)
  BY <1>0, <1>6, <1>7 DEF Justified
<1>9. Copies' = Copies
  BY <1>0, <1>8 DEF Copies
<1>10. \A S : ClosedUnder(S)' <=> ClosedUnder(S)
  BY <1>0, <1>1 DEF ClosedUnder
<1>11. Reached' = Reached
  BY <1>0, <1>10 DEF Reached
<1> QED
  BY <1>9, <1>11

(* How a phi and an instruction may have been rewritten: each operand is   *)
(* the original one or equals it, and a test of a constant has become a    *)
(* branch.                                                                 *)
CopiedPhi(p, o) ==
    /\ DOMAIN o = {"dst", "in"}
    /\ o.dst = p.dst /\ DOMAIN o.in = DOMAIN p.in
    /\ \A q \in DOMAIN p.in : o.in[q] \in Vers /\ Same(p.in[q], o.in[q])

InstFields == {"op", "dst", "args", "cases", "to"}

CopiedInst(i, o) ==
    \/ /\ DOMAIN o = InstFields
       /\ o.op = i.op /\ o.dst = i.dst /\ o.cases = i.cases /\ o.to = i.to
       /\ DOMAIN o.args = DOMAIN i.args
       /\ \A n \in DOMAIN i.args : Same(i.args[n], o.args[n])
    \/ /\ DOMAIN o = InstFields
       /\ i.op = "cbr" /\ o.op = "br" /\ o.dst = None
       /\ \E c \in Int : Same(i.args[1], c) /\ o.to = <<i.to[IF c # 0 THEN 1 ELSE 2]>>

Rewritten ==
    Analysed /\ prog \in Executed =>
        /\ DOMAIN out.insts = execBlocks /\ DOMAIN out.phis = execBlocks
        /\ \A b \in execBlocks :
             /\ DOMAIN out.insts[b] = DOMAIN prog.insts[b]
             /\ \A k \in DOMAIN prog.insts[b] : CopiedInst(prog.insts[b][k], out.insts[b][k])
             /\ Len(out.phis[b]) \in Nat /\ DOMAIN out.phis[b] = 1 .. Len(out.phis[b])
             /\ \A k \in DOMAIN out.phis[b] : \E j \in DOMAIN prog.phis[b] :
                  CopiedPhi(prog.phis[b][j], out.phis[b][k])

LEMMA SameTransitive ==
    ASSUME TypeOK, prog \in Executed, NEW u, NEW w, NEW y, Same(u, w), Same(w, y)
    PROVE  Same(u, y)
BY CopyOfCopy DEF Same

(* What a version that is read equals is read too, or an integer.          *)
LEMMA CopyRead ==
    ASSUME NEW i, NEW o \in Vers, i \in Vers => i \in Read(prog), Same(i, o)
    PROVE  o \in Read(prog)
BY CopyType, ConstantsAssumption DEF Same, Origins

(* The constant of a version may stand for it.                             *)
LEMMA ConstantCopies ==
    ASSUME TypeOK, NEW v \in Vers, v \in Read(prog)
    PROVE  Same(v, SubstituteVal(v, lat)) /\ SubstituteVal(v, lat) \in Origins
<1>1. CASE lat[v] \in Int
  BY <1>1, NewPair DEF Same, SubstituteVal, Known, Origins
<1>2. CASE lat[v] \notin Int
  BY <1>2 DEF Same, SubstituteVal, Origins
<1> QED
  BY <1>1, <1>2

(* The recursion of Kept has a solution. *)
LEMMA KeptDef ==
    ASSUME NEW phis, Len(phis) \in Nat, NEW b, NEW l, NEW edges
    PROVE  \E w : /\ Kept(phis, b, l, edges) = w[Len(phis)] /\ w[0] = <<>>
                  /\ \A n \in 1 .. Len(phis) : w[n] = IF Collapses(phis[n], b, l, edges) THEN w[n - 1]
                                                      ELSE Append(w[n - 1], phis[n])
<1> DEFINE len == Len(phis)
           next(s, n) == IF Collapses(phis[n], b, l, edges) THEN s ELSE Append(s, phis[n])
           Rec(m, w) == \A n \in 0 .. m : w[n] = IF n = 0 THEN <<>> ELSE next(w[n - 1], n)
<1>1. \A m \in Nat : \E w : Rec(m, w)
  <2> SUFFICES ASSUME ~ \A m \in Nat : \E w : Rec(m, w) PROVE FALSE
    OBVIOUS
  <2> DEFINE S == {m \in Nat : ~ \E w : Rec(m, w)}
  <2>1. PICK m \in S : \A j \in S : m <= j
    <3>1. S # {} /\ S \in SUBSET Nat
      OBVIOUS
    <3> HIDE DEF S
    <3> QED
      BY <3>1, LeastNat
  <2>2. m \in Nat /\ ~ \E w : Rec(m, w)
    OBVIOUS
  <2> HIDE DEF next
  <2>3. CASE m = 0
    <3> DEFINE w == [n \in 0 .. 0 |-> <<>>]
    <3>1. Rec(m, w)
      BY <2>3
    <3> QED
      BY <2>2, <3>1
  <2>4. CASE m # 0
    <3>1. m - 1 \in Nat /\ m - 1 \notin S
      <4>1. m - 1 \in Nat /\ ~(m <= m - 1)
        BY <2>2, <2>4
      <4> HIDE DEF S
      <4> QED
        BY <2>1, <4>1
    <3>2. PICK v : Rec(m - 1, v)
      BY <3>1
    <3> DEFINE w == [n \in 0 .. m |-> IF n = m THEN next(v[m - 1], m) ELSE v[n]]
    <3>3. \A n \in 0 .. m : w[n] = IF n = 0 THEN <<>> ELSE next(w[n - 1], n)
      <4> SUFFICES ASSUME NEW n \in 0 .. m PROVE w[n] = IF n = 0 THEN <<>> ELSE next(w[n - 1], n)
        OBVIOUS
      <4>1. CASE n = m
        <5>1. m - 1 \in 0 .. m /\ m - 1 # m /\ n \in 0 .. m
          BY <2>2, <2>4
        <5>2. w[n] = next(v[m - 1], m) /\ w[m - 1] = v[m - 1]
          BY <4>1, <5>1
        <5> QED
          BY <2>4, <4>1, <5>2
      <4>2. CASE n # m
        <5>1. n \in 0 .. (m - 1)
          BY <2>2, <4>2
        <5>2. v[n] = IF n = 0 THEN <<>> ELSE next(v[n - 1], n)
          BY <3>2, <5>1
        <5>3. w[n] = v[n] /\ (n # 0 => w[n - 1] = v[n - 1])
          BY <2>2, <4>2, <5>1
        <5> QED
          BY <5>2, <5>3
      <4> QED
        BY <4>1, <4>2
    <3>4. Rec(m, w)
      BY <3>3
    <3> QED
      BY <2>2, <3>4
  <2> QED
    BY <2>3, <2>4
<1>2. PICK v : Rec(len, v)
  BY <1>1
<1> DEFINE w == [n \in 0 .. len |-> v[n]]
           F(u) == [n \in 0 .. len |-> IF n = 0 THEN <<>> ELSE next(u[n - 1], n)]
           upTo == CHOOSE u : u = F(u)
<1>3. w = F(w)
  <2> HIDE DEF next
  <2>1. \A n \in 0 .. len : w[n] = v[n] /\ (n # 0 => w[n - 1] = v[n - 1])
    OBVIOUS
  <2> QED
    BY <1>2, <2>1
<1>4. upTo = F(upTo)
  BY <1>3, Zenon
<1>5. F(upTo) = [n \in 0 .. len |-> IF n = 0 THEN <<>>
                                    ELSE IF Collapses(phis[n], b, l, edges) THEN upTo[n - 1]
                                    ELSE Append(upTo[n - 1], phis[n])]
  OBVIOUS
<1>6. Kept(phis, b, l, edges) = upTo[len]
  BY DEF Kept
<1> HIDE DEF upTo, F
<1>7. \A n \in 0 .. len : upTo[n] = IF n = 0 THEN <<>> ELSE next(upTo[n - 1], n)
  BY <1>4, <1>5
<1>8. upTo[0] = <<>>
  BY <1>7
<1>9. \A n \in 1 .. len : upTo[n] = next(upTo[n - 1], n)
  BY <1>7
<1> QED
  BY <1>6, <1>8, <1>9

(* A pass keeps the phis that do not collapse and nothing else.            *)
LEMMA KeptOnly ==
    ASSUME NEW phis, Len(phis) \in Nat, DOMAIN phis = 1 .. Len(phis), NEW b, NEW l, NEW edges
    PROVE  /\ Len(Kept(phis, b, l, edges)) \in Nat
           /\ DOMAIN Kept(phis, b, l, edges) = 1 .. Len(Kept(phis, b, l, edges))
           /\ \A k \in DOMAIN Kept(phis, b, l, edges) : \E n \in DOMAIN phis :
                Kept(phis, b, l, edges)[k] = phis[n] /\ ~ Collapses(phis[n], b, l, edges)
           /\ \A n \in DOMAIN phis : ~ Collapses(phis[n], b, l, edges) =>
                \E k \in DOMAIN Kept(phis, b, l, edges) : Kept(phis, b, l, edges)[k] = phis[n]
<1>1. PICK w : /\ Kept(phis, b, l, edges) = w[Len(phis)] /\ w[0] = <<>>
               /\ \A n \in 1 .. Len(phis) : w[n] = IF Collapses(phis[n], b, l, edges) THEN w[n - 1]
                                                   ELSE Append(w[n - 1], phis[n])
  BY KeptDef
<1> DEFINE Stay  == {p \in Range(phis) : ~ Collapses(p, b, l, edges)}
           Holds(m) == /\ w[m] \in Seq(Stay)
                       /\ \A n \in 1 .. m : phis[n] \in Stay => \E k \in DOMAIN w[m] : w[m][k] = phis[n]
           S == {n \in 0 .. Len(phis) : ~ Holds(n)}
<1>2. S = {}
  <2> SUFFICES ASSUME S # {} PROVE FALSE
    OBVIOUS
  <2>1. PICK m \in S : \A j \in S : m <= j
    <3>1. S \in SUBSET Nat
      OBVIOUS
    <3> HIDE DEF S
    <3> QED
      BY <3>1, LeastNat
  <2>2. m \in 0 .. Len(phis) /\ ~ Holds(m)
    OBVIOUS
  <2>3. m # 0
    <3>1. Holds(0)
      BY <1>1, EmptySeq
    <3> HIDE DEF Holds, S
    <3> QED
      BY <2>2, <3>1
  <2>4. m \in 1 .. Len(phis) /\ m - 1 \in 0 .. Len(phis) /\ ~(m <= m - 1) /\ 1 .. m = (1 .. (m - 1)) \cup {m}
    BY <2>2, <2>3
  <2>5. Holds(m - 1)
    <3>1. m - 1 \notin S
      <4> HIDE DEF S
      <4> QED
        BY <2>1, <2>4
    <3> HIDE DEF Holds
    <3> QED
      BY <2>4, <3>1
  <2>6. w[m] = IF Collapses(phis[m], b, l, edges) THEN w[m - 1] ELSE Append(w[m - 1], phis[m])
    BY <1>1, <2>4
  <2>7. phis[m] \in Range(phis)
    BY <2>4 DEF Range
  <2>8. CASE Collapses(phis[m], b, l, edges)
    <3>1. phis[m] \notin Stay
      BY <2>8
    <3> HIDE DEF Stay, S
    <3>2. Holds(m)
      BY <2>4, <2>5, <2>6, <2>8, <3>1
    <3> QED
      BY <2>2, <3>2
  <2>9. CASE ~ Collapses(phis[m], b, l, edges)
    <3>1. phis[m] \in Stay
      BY <2>7, <2>9
    <3> DEFINE s == w[m - 1]
               x == phis[m]
    <3> HIDE DEF Stay, S
    <3>2. s \in Seq(Stay) /\ x \in Stay
      BY <2>5, <3>1
    <3> HIDE DEF s, x
    <3>3. /\ Append(s, x) \in Seq(Stay)
          /\ Len(s) \in Nat /\ DOMAIN s = 1 .. Len(s) /\ DOMAIN Append(s, x) = 1 .. Len(s) + 1
          /\ \A k \in 1 .. Len(s) : Append(s, x)[k] = s[k]
          /\ Append(s, x)[Len(s) + 1] = x
      BY <3>2, AppendProperties, LenProperties
    <3>4. /\ \A k \in DOMAIN s : k \in DOMAIN Append(s, x) /\ Append(s, x)[k] = s[k]
          /\ Len(s) + 1 \in DOMAIN Append(s, x)
      BY <3>3
    <3>5. w[m] = Append(s, x)
      BY <2>6, <2>9 DEF s, x
    <3>6. Holds(m)
      <4>1. ASSUME NEW n \in 1 .. m, phis[n] \in Stay PROVE \E k \in DOMAIN Append(s, x) : Append(s, x)[k] = phis[n]
        <5>1. CASE n \in 1 .. (m - 1)
          <6>1. \E k \in DOMAIN s : s[k] = phis[n]
            BY <2>5, <4>1, <5>1 DEF s
          <6> QED
            BY <3>4, <6>1
        <5>2. CASE n = m
          BY <3>3, <3>4, <5>2 DEF x
        <5> QED
          BY <2>4, <5>1, <5>2
      <4> QED
        BY <3>3, <3>5, <4>1
    <3> HIDE DEF Holds
    <3> QED
      BY <2>2, <3>6
  <2> QED
    BY <2>8, <2>9
<1>3. Holds(Len(phis))
  <2>1. Len(phis) \in 0 .. Len(phis)
    OBVIOUS
  <2> HIDE DEF Holds
  <2> QED
    BY <1>2, <2>1
<1>4. \A n \in DOMAIN phis : ~ Collapses(phis[n], b, l, edges) => phis[n] \in Stay
  BY DEF Range
<1> HIDE DEF Stay, S
<1>5. /\ Kept(phis, b, l, edges) \in Seq(Stay)
      /\ \A n \in DOMAIN phis : ~ Collapses(phis[n], b, l, edges) =>
           \E k \in DOMAIN Kept(phis, b, l, edges) : Kept(phis, b, l, edges)[k] = phis[n]
  BY <1>1, <1>3, <1>4
<1>6. /\ Len(Kept(phis, b, l, edges)) \in Nat
      /\ DOMAIN Kept(phis, b, l, edges) = 1 .. Len(Kept(phis, b, l, edges))
      /\ \A k \in DOMAIN Kept(phis, b, l, edges) : Kept(phis, b, l, edges)[k] \in Stay
  BY <1>5, LenProperties, ElementOfSeq
<1>7. \A p \in Stay : \E n \in DOMAIN phis : p = phis[n] /\ ~ Collapses(phis[n], b, l, edges)
  BY DEF Stay, Range
<1> QED
  BY <1>5, <1>6, <1>7, <1>4

(* The phis as the pass finds them, with their inputs: all of it is about  *)
(* the versions the function reads.                                        *)
LEMMA CopiedPhiFacts ==
    ASSUME TypeOK, prog \in Executed, Rewritten, Analysed, NEW b \in execBlocks, NEW k \in DOMAIN out.phis[b]
    PROVE  \E j \in DOMAIN prog.phis[b] :
             /\ CopiedPhi(prog.phis[b][j], out.phis[b][k]) /\ b \in Blocks
             /\ IsPhi(prog.phis[b][j], Blocks)
             /\ \A q \in DOMAIN prog.phis[b][j].in :
                  /\ prog.phis[b][j].in[q] \in Vers \cap Read(prog)
                  /\ out.phis[b][k].in[q] \in Vers \cap Read(prog)
<1>1. PICK j \in DOMAIN prog.phis[b] : CopiedPhi(prog.phis[b][j], out.phis[b][k])
  BY DEF Rewritten
<1>2. b \in Blocks
  BY DEF TypeOK
<1>3. IsPhi(prog.phis[b][j], Blocks)
  BY <1>2, ProgramFacts
<1>4. ASSUME NEW q \in DOMAIN prog.phis[b][j].in
      PROVE  /\ prog.phis[b][j].in[q] \in Vers \cap Read(prog)
             /\ out.phis[b][k].in[q] \in Vers \cap Read(prog)
  <2>1. prog.phis[b][j].in[q] \in Vers
    BY <1>3 DEF IsPhi
  <2>2. prog.phis[b][j].in[q] \in Range(prog.phis[b][j].in)
    BY DEF Range
  <2>3. prog.phis[b][j].in[q] \in Read(prog)
    BY <1>2, <2>1, <2>2, PhisRead DEF Blocks
  <2>4. out.phis[b][k].in[q] \in Vers /\ Same(prog.phis[b][j].in[q], out.phis[b][k].in[q])
    BY <1>1 DEF CopiedPhi
  <2> QED
    BY <2>1, <2>3, <2>4, CopyRead
<1> QED
  BY <1>1, <1>2, <1>3, <1>4

(* A phi that collapses equals the value its uses are given.               *)
LEMMA CollapsedCopies ==
    ASSUME TypeOK, prog \in Executed, Rewritten, Analysed, NEW b \in execBlocks, NEW k \in DOMAIN out.phis[b],
           Collapses(out.phis[b][k], b, lat, execEdges),
           NEW x \in Survivors(out.phis[b][k], b, lat, execEdges)
    PROVE  <<out.phis[b][k].dst, x>> \in Copies
<1> DEFINE o    == out.phis[b][k]
           live == {r \in DOMAIN o.in : <<r, b>> \in execEdges}
           f    == [q \in live |-> SubstituteVal(o.in[q], lat)]
           S    == Survivors(o, b, lat, execEdges)
<1>1. PICK j \in DOMAIN prog.phis[b] :
          /\ CopiedPhi(prog.phis[b][j], o) /\ b \in Blocks
          /\ IsPhi(prog.phis[b][j], Blocks)
          /\ \A q \in DOMAIN prog.phis[b][j].in :
               /\ prog.phis[b][j].in[q] \in Vers \cap Read(prog)
               /\ o.in[q] \in Vers \cap Read(prog)
  BY CopiedPhiFacts
<1> DEFINE p == prog.phis[b][j]
<1>2. DOMAIN o.in = DOMAIN p.in /\ DOMAIN p.in \subseteq Blocks /\ o.dst = p.dst
  BY <1>1 DEF CopiedPhi, IsPhi
<1>3. S = {f[q] : q \in live}
  BY DEF Survivors
<1>4. IsFiniteSet(S)
  <2>1. IsFiniteSet(live)
    BY <1>2, ProgramFacts, FS_Subset
  <2>2. f \in Surjection(live, S)
    BY <1>3 DEF Surjection
  <2> QED
    BY <2>1, <2>2, FS_Surjection
<1>5. PICK y : S = {y}
  <2>1. Cardinality(S) = 1
    BY DEF Collapses
  <2> HIDE DEF S
  <2> QED
    BY <1>4, <2>1, FS_Singleton
<1>6. S = {x}
  BY <1>5
<1>7. \A q \in live : SubstituteVal(o.in[q], lat) = x
  BY <1>3, <1>6
<1>8. \A q \in DOMAIN p.in : Same(o.in[q], SubstituteVal(o.in[q], lat)) /\ SubstituteVal(o.in[q], lat) \in Origins
  BY <1>1, ConstantCopies
<1>9. x \in Origins
  <2>1. PICK q \in live : x = SubstituteVal(o.in[q], lat)
    BY <1>3
  <2> QED
    BY <1>2, <1>8, <2>1
<1>10. ASSUME NEW q \in DOMAIN p.in, Passes(q, b) PROVE Same(p.in[q], x)
  <2>1. SubstituteVal(o.in[q], lat) = x
    BY <1>2, <1>7, <1>10 DEF Passes
  <2>2. Same(p.in[q], o.in[q]) /\ Same(o.in[q], x)
    BY <1>1, <1>8, <2>1 DEF CopiedPhi
  <2> QED
    BY <2>2, SameTransitive
<1> QED
  BY <1>2, <1>9, <1>10, PhiCopies

(* The substitution is defined on the phis that collapse; each gets one of *)
(* its live inputs, or the constant that input is known to be.             *)
LEMMA PhiValueFacts ==
    ASSUME Rewritten, Analysed, prog \in Executed
    PROVE  /\ \A v \in DOMAIN PhiValue(out, lat, execEdges) : \E b \in execBlocks : \E k \in DOMAIN out.phis[b] :
                /\ out.phis[b][k].dst = v /\ Collapses(out.phis[b][k], b, lat, execEdges)
                /\ PhiValue(out, lat, execEdges)[v] \in Survivors(out.phis[b][k], b, lat, execEdges)
           /\ \A b \in execBlocks : \A k \in DOMAIN out.phis[b] :
                Collapses(out.phis[b][k], b, lat, execEdges) =>
                   out.phis[b][k].dst \in DOMAIN PhiValue(out, lat, execEdges)
<1> DEFINE phis     == UNION {{<<out.phis[b][k], b>> : k \in DOMAIN out.phis[b]} : b \in DOMAIN out.phis}
           gone     == {x \in phis : Collapses(x[1], x[2], lat, execEdges)}
           phiOf(w) == CHOOSE x \in gone : x[1].dst = w
           S(w)     == Survivors(phiOf(w)[1], phiOf(w)[2], lat, execEdges)
<1>0. DOMAIN out.phis = execBlocks
  BY DEF Rewritten
<1>1. PhiValue(out, lat, execEdges) = [w \in {x[1].dst : x \in gone} |-> CHOOSE s \in S(w) : TRUE]
  BY DEF PhiValue
<1>2. ASSUME NEW v \in DOMAIN PhiValue(out, lat, execEdges)
      PROVE  \E b \in execBlocks : \E k \in DOMAIN out.phis[b] :
                /\ out.phis[b][k].dst = v /\ Collapses(out.phis[b][k], b, lat, execEdges)
                /\ PhiValue(out, lat, execEdges)[v] \in Survivors(out.phis[b][k], b, lat, execEdges)
  <2>1. \E x \in gone : x[1].dst = v
    BY <1>1
  <2>2. phiOf(v) \in gone /\ phiOf(v)[1].dst = v
    BY <2>1
  <2>3. PhiValue(out, lat, execEdges)[v] = CHOOSE s \in S(v) : TRUE
    BY <1>1
  <2>4. phiOf(v) \in phis /\ Collapses(phiOf(v)[1], phiOf(v)[2], lat, execEdges)
    BY <2>2
  <2>5. PICK b \in DOMAIN out.phis : phiOf(v) \in {<<out.phis[b][k], b>> : k \in DOMAIN out.phis[b]}
    <3> HIDE DEF phiOf
    <3> QED
      BY <2>4
  <2>6. PICK k \in DOMAIN out.phis[b] : phiOf(v) = <<out.phis[b][k], b>>
    BY <2>5
  <2> HIDE DEF phiOf, gone
  <2>7. Cardinality(S(v)) = 1
    BY <2>4 DEF Collapses
  <2>8. S(v) # {}
    BY <2>7, FS_EmptySet
  <2>9. PhiValue(out, lat, execEdges)[v] \in S(v)
    BY <2>3, <2>8
  <2> QED
    BY <1>0, <2>2, <2>4, <2>6, <2>9
<1>3. ASSUME NEW b \in execBlocks, NEW k \in DOMAIN out.phis[b], Collapses(out.phis[b][k], b, lat, execEdges)
      PROVE  out.phis[b][k].dst \in DOMAIN PhiValue(out, lat, execEdges)
  <2>1. <<out.phis[b][k], b>> \in gone
    BY <1>0, <1>3
  <2>2. out.phis[b][k].dst \in {x[1].dst : x \in gone}
    BY <2>1
  <2> QED
    BY <1>1, <2>2
<1> QED
  BY <1>2, <1>3

LEMMA PhiValueCopies ==
    ASSUME TypeOK, prog \in Executed, Rewritten, Analysed, NEW v \in DOMAIN PhiValue(out, lat, execEdges)
    PROVE  <<v, PhiValue(out, lat, execEdges)[v]>> \in Copies
<1>1. PICK b \in execBlocks : \E k \in DOMAIN out.phis[b] :
          /\ out.phis[b][k].dst = v /\ Collapses(out.phis[b][k], b, lat, execEdges)
          /\ PhiValue(out, lat, execEdges)[v] \in Survivors(out.phis[b][k], b, lat, execEdges)
  BY PhiValueFacts
<1> QED
  BY <1>1, CollapsedCopies

(* A substituted operand equals what it stands for.                        *)
LEMMA ReplaceCopies ==
    ASSUME TypeOK, prog \in Executed, Rewritten, Analysed, NEW i, NEW o,
           Same(i, o), i \in Vers => i \in Read(prog)
    PROVE  Same(i, Replace(o, PhiValue(out, lat, execEdges), lat))
<1> DEFINE values == PhiValue(out, lat, execEdges)
<1>1. CASE o \in DOMAIN values
  <2>1. <<o, values[o]>> \in Copies
    BY <1>1, PhiValueCopies
  <2>2. Same(o, values[o])
    BY <2>1 DEF Same
  <2>3. Replace(o, values, lat) = values[o]
    BY <1>1 DEF Replace
  <2> QED
    BY <2>2, <2>3, SameTransitive
<1>2. CASE o \notin DOMAIN values
  <2>1. Replace(o, values, lat) = SubstituteVal(o, lat)
    BY <1>2 DEF Replace
  <2>2. Same(o, SubstituteVal(o, lat))
    <3>1. CASE o \in Vers
      BY <3>1, CopyRead, ConstantCopies
    <3>2. CASE o \notin Vers
      BY <3>2 DEF SubstituteVal, Same
    <3> QED
      BY <3>1, <3>2
  <2> QED
    BY <2>1, <2>2, SameTransitive
<1> QED
  BY <1>1, <1>2

LEMMA InstRewritten ==
    ASSUME TypeOK, prog \in Executed, Rewritten, Analysed,
           NEW i, IsInst(i, Blocks), \A n \in DOMAIN i.args : i.args[n] \in Vers => i.args[n] \in Read(prog),
           NEW o, CopiedInst(i, o)
    PROVE  LET values == PhiValue(out, lat, execEdges)
           IN  CopiedInst(i, FoldBranch([o EXCEPT !.args =
                                [n \in DOMAIN o.args |-> Replace(o.args[n], values, lat)]]))
<1> DEFINE values == PhiValue(out, lat, execEdges)
           args   == [n \in DOMAIN o.args |-> Replace(o.args[n], values, lat)]
           r      == [o EXCEPT !.args = args]
<1>1. DOMAIN o = InstFields
  BY DEF CopiedInst
<1>2. /\ DOMAIN r = InstFields /\ r.args = args
      /\ r.op = o.op /\ r.dst = o.dst /\ r.cases = o.cases /\ r.to = o.to
  BY <1>1 DEF InstFields
<1>3. CASE /\ o.op = i.op /\ o.dst = i.dst /\ o.cases = i.cases /\ o.to = i.to
           /\ DOMAIN o.args = DOMAIN i.args
           /\ \A n \in DOMAIN i.args : Same(i.args[n], o.args[n])
  <2>1. \A n \in DOMAIN i.args : Same(i.args[n], args[n])
    BY <1>3, ReplaceCopies
  <2>2. DOMAIN args = DOMAIN i.args
    BY <1>3
  <2> HIDE DEF args, r
  <2>3. CASE r.op = "cbr" /\ r.args[1] \in Int
    <3> DEFINE c == r.args[1]
               new == Inst("br", None, <<>>, <<>>, <<r.to[IF r.args[1] # 0 THEN 1 ELSE 2]>>)
    <3>1. FoldBranch(r) = new
      BY <2>3 DEF FoldBranch
    <3>2. DOMAIN new = InstFields /\ new.op = "br" /\ new.dst = None /\ new.to = <<i.to[IF c # 0 THEN 1 ELSE 2]>>
      BY <1>2, <1>3 DEF Inst, InstFields
    <3>3. 1 \in DOMAIN i.args /\ i.op = "cbr"
      BY <1>2, <1>3, <2>3, TargetsListed DEF JumpOps
    <3>4. Same(i.args[1], c) /\ c \in Int
      BY <1>2, <2>1, <2>3, <3>3
    <3> HIDE DEF c, new
    <3>5. CopiedInst(i, new)
      BY <3>2, <3>3, <3>4 DEF CopiedInst
    <3> QED
      BY <3>1, <3>5 DEF r, args
  <2>4. CASE ~(r.op = "cbr" /\ r.args[1] \in Int)
    <3>1. FoldBranch(r) = r
      BY <2>4 DEF FoldBranch
    <3>2. CopiedInst(i, r)
      BY <1>2, <1>3, <2>1, <2>2 DEF CopiedInst
    <3> QED
      BY <3>1, <3>2 DEF r, args
  <2> QED
    BY <2>3, <2>4
<1>4. CASE /\ i.op = "cbr" /\ o.op = "br" /\ o.dst = None
           /\ \E c \in Int : Same(i.args[1], c) /\ o.to = <<i.to[IF c # 0 THEN 1 ELSE 2]>>
  <2> HIDE DEF args, r
  <2>1. FoldBranch(r) = r
    BY <1>2, <1>4 DEF FoldBranch
  <2>2. CopiedInst(i, r)
    BY <1>2, <1>4 DEF CopiedInst
  <2> QED
    BY <2>1, <2>2 DEF r, args
<1> QED
  BY <1>3, <1>4 DEF CopiedInst

LEMMA PhiRewritten ==
    ASSUME TypeOK, prog \in Executed, Rewritten, Analysed, NEW b \in execBlocks, NEW k \in DOMAIN out.phis[b]
    PROVE  LET values == PhiValue(out, lat, execEdges)
               o      == out.phis[b][k]
           IN  \E j \in DOMAIN prog.phis[b] :
                 CopiedPhi(prog.phis[b][j],
                           [o EXCEPT !.in = [q \in DOMAIN o.in |-> ReplaceInput(o.in[q], values, lat)]])
<1> DEFINE values == PhiValue(out, lat, execEdges)
           o      == out.phis[b][k]
           in     == [q \in DOMAIN o.in |-> ReplaceInput(o.in[q], values, lat)]
           r      == [o EXCEPT !.in = in]
<1>1. PICK j \in DOMAIN prog.phis[b] :
          /\ CopiedPhi(prog.phis[b][j], o) /\ b \in Blocks
          /\ IsPhi(prog.phis[b][j], Blocks)
          /\ \A q \in DOMAIN prog.phis[b][j].in :
               /\ prog.phis[b][j].in[q] \in Vers \cap Read(prog)
               /\ o.in[q] \in Vers \cap Read(prog)
  BY CopiedPhiFacts
<1> DEFINE p == prog.phis[b][j]
<1>2. DOMAIN o = {"dst", "in"} /\ o.dst = p.dst /\ DOMAIN o.in = DOMAIN p.in
  BY <1>1 DEF CopiedPhi
<1>3. DOMAIN r = {"dst", "in"} /\ r.dst = p.dst /\ r.in = in
  BY <1>2
<1>4. ASSUME NEW q \in DOMAIN p.in PROVE in[q] \in Vers /\ Same(p.in[q], in[q])
  <2>1. in[q] = ReplaceInput(o.in[q], values, lat)
    BY <1>2
  <2>2. o.in[q] \in Vers /\ Same(p.in[q], o.in[q]) /\ p.in[q] \in Read(prog)
    BY <1>1 DEF CopiedPhi
  <2>3. Same(p.in[q], Replace(o.in[q], values, lat))
    BY <2>2, ReplaceCopies
  <2> QED
    BY <2>1, <2>2, <2>3, Zenon DEF ReplaceInput
<1>5. DOMAIN in = DOMAIN p.in
  BY <1>2
<1> HIDE DEF r, in, o
<1>6. CopiedPhi(p, r)
  BY <1>3, <1>4, <1>5 DEF CopiedPhi
<1> QED
  BY <1>6 DEF r, in, o

(* What a pass makes of a phi and of an instruction.                       *)
PassPhi(p) == [p EXCEPT !.in = [q \in DOMAIN p.in |-> ReplaceInput(p.in[q], PhiValue(out, lat, execEdges), lat)]]

PassInst(i) ==
    FoldBranch([i EXCEPT !.args = [k \in DOMAIN i.args |-> Replace(i.args[k], PhiValue(out, lat, execEdges), lat)]])

LEMMA PassShape ==
    ASSUME TypeOK, prog \in Executed, Rewritten, Analysed, out' = RewritePass(out, lat, execEdges), NEW b \in execBlocks
    PROVE  /\ DOMAIN out'.insts = execBlocks /\ DOMAIN out'.phis = execBlocks
           /\ out'.insts[b] = [k \in DOMAIN out.insts[b] |-> PassInst(out.insts[b][k])]
           /\ Len(out'.phis[b]) \in Nat /\ DOMAIN out'.phis[b] = 1 .. Len(out'.phis[b])
           /\ \A k \in DOMAIN out'.phis[b] : \E n \in DOMAIN out.phis[b] :
                ~ Collapses(out.phis[b][n], b, lat, execEdges) /\ out'.phis[b][k] = PassPhi(out.phis[b][n])
           /\ \A n \in DOMAIN out.phis[b] : ~ Collapses(out.phis[b][n], b, lat, execEdges) =>
                \E k \in DOMAIN out'.phis[b] : out'.phis[b][k] = PassPhi(out.phis[b][n])
<1> DEFINE values  == PhiValue(out, lat, execEdges)
           phi(p)  == [p EXCEPT !.in = [q \in DOMAIN p.in |-> ReplaceInput(p.in[q], values, lat)]]
           inst(i) == FoldBranch([i EXCEPT !.args =
                         [k \in DOMAIN i.args |-> Replace(i.args[k], values, lat)]])
           kept(c) == Kept(out.phis[c], c, lat, execEdges)
<1>1. out' = [out EXCEPT
            !.phis  = [c \in DOMAIN out.phis |-> [k \in DOMAIN kept(c) |-> phi(kept(c)[k])]],
            !.insts = [c \in DOMAIN out.insts |-> [k \in DOMAIN out.insts[c] |-> inst(out.insts[c][k])]]]
  BY Zenon DEF RewritePass
<1>2. DOMAIN out = {"phis", "insts", "preds", "succs"} /\ DOMAIN out.insts = execBlocks /\ DOMAIN out.phis = execBlocks
  BY DEF TypeOK, OutOK, Rewritten
<1>3. (\A p : phi(p) = PassPhi(p)) /\ (\A i : inst(i) = PassInst(i))
  BY DEF PassPhi, PassInst
<1> HIDE DEF phi, inst, kept
<1>4. /\ out'.phis = [c \in execBlocks |-> [k \in DOMAIN kept(c) |-> phi(kept(c)[k])]]
      /\ out'.insts = [c \in execBlocks |-> [k \in DOMAIN out.insts[c] |-> inst(out.insts[c][k])]]
  BY <1>1, <1>2
<1>5. /\ out'.phis[b] = [k \in DOMAIN kept(b) |-> PassPhi(kept(b)[k])]
      /\ out'.insts[b] = [k \in DOMAIN out.insts[b] |-> PassInst(out.insts[b][k])]
      /\ DOMAIN out'.insts = execBlocks /\ DOMAIN out'.phis = execBlocks
  BY <1>3, <1>4
<1>6. Len(out.phis[b]) \in Nat /\ DOMAIN out.phis[b] = 1 .. Len(out.phis[b])
  BY DEF Rewritten
<1>7. /\ Len(kept(b)) \in Nat /\ DOMAIN kept(b) = 1 .. Len(kept(b))
      /\ \A k \in DOMAIN kept(b) : \E n \in DOMAIN out.phis[b] :
           kept(b)[k] = out.phis[b][n] /\ ~ Collapses(out.phis[b][n], b, lat, execEdges)
      /\ \A n \in DOMAIN out.phis[b] : ~ Collapses(out.phis[b][n], b, lat, execEdges) =>
           \E k \in DOMAIN kept(b) : kept(b)[k] = out.phis[b][n]
  <2> DEFINE phis == out.phis[b]
             s    == Kept(phis, b, lat, execEdges)
  <2>1. Len(phis) \in Nat /\ DOMAIN phis = 1 .. Len(phis)
    BY <1>6
  <2> HIDE DEF phis
  <2>2. /\ Len(s) \in Nat /\ DOMAIN s = 1 .. Len(s)
        /\ \A k \in DOMAIN s : \E n \in DOMAIN phis : s[k] = phis[n] /\ ~ Collapses(phis[n], b, lat, execEdges)
        /\ \A n \in DOMAIN phis : ~ Collapses(phis[n], b, lat, execEdges) => \E k \in DOMAIN s : s[k] = phis[n]
    <3>1. Len(s) \in Nat
      BY <2>1, KeptOnly
    <3>2. DOMAIN s = 1 .. Len(s)
      BY <2>1, KeptOnly
    <3>3. \A k \in DOMAIN s : \E n \in DOMAIN phis : s[k] = phis[n] /\ ~ Collapses(phis[n], b, lat, execEdges)
      BY <2>1, KeptOnly
    <3>4. \A n \in DOMAIN phis : ~ Collapses(phis[n], b, lat, execEdges) => \E k \in DOMAIN s : s[k] = phis[n]
      BY <2>1, KeptOnly
    <3> QED
      BY <3>1, <3>2, <3>3, <3>4
  <2>3. s = kept(b)
    BY DEF kept, phis
  <2> HIDE DEF s
  <2> QED
    BY <2>2, <2>3 DEF phis
<1>9. Len(out'.phis[b]) \in Nat /\ DOMAIN out'.phis[b] = 1 .. Len(out'.phis[b]) /\ DOMAIN out'.phis[b] = DOMAIN kept(b)
  <2> DEFINE S == {PassPhi(kept(b)[k]) : k \in DOMAIN kept(b)}
             m == Len(kept(b))
             new == [k \in 1 .. m |-> PassPhi(kept(b)[k])]
  <2>1. new \in [1 .. m -> S] /\ m \in Nat
    BY <1>7
  <2>2. new \in Seq(S)
    <3> HIDE DEF S, m, new
    <3> QED
      BY <2>1, SeqDef
  <2>3. Len(new) \in Nat /\ DOMAIN new = 1 .. Len(new)
    <3> HIDE DEF S, m, new
    <3> QED
      BY <2>2, LenProperties
  <2>4. out'.phis[b] = new
    BY <1>5, <1>7
  <2> QED
    BY <1>5, <2>3, <2>4
<1>10. \A k \in DOMAIN out'.phis[b] : out'.phis[b][k] = PassPhi(kept(b)[k]) /\ k \in DOMAIN kept(b)
  BY <1>5, <1>9
<1>11. \A k \in DOMAIN out'.phis[b] : \E n \in DOMAIN out.phis[b] :
           ~ Collapses(out.phis[b][n], b, lat, execEdges) /\ out'.phis[b][k] = PassPhi(out.phis[b][n])
  BY <1>7, <1>10
<1>12. \A n \in DOMAIN out.phis[b] : ~ Collapses(out.phis[b][n], b, lat, execEdges) =>
           \E k \in DOMAIN out'.phis[b] : out'.phis[b][k] = PassPhi(out.phis[b][n])
  BY <1>7, <1>9, <1>10
<1> QED
  BY <1>5, <1>9, <1>11, <1>12

(* A pass leaves every operand equal to the original one.                  *)
LEMMA PassCopies ==
    ASSUME TypeOK, prog \in Executed, Rewritten, Analysed, out' = RewritePass(out, lat, execEdges),
           NEW b \in execBlocks
    PROVE  /\ DOMAIN out'.insts = execBlocks /\ DOMAIN out'.phis = execBlocks
           /\ DOMAIN out'.insts[b] = DOMAIN prog.insts[b]
           /\ \A k \in DOMAIN prog.insts[b] : CopiedInst(prog.insts[b][k], out'.insts[b][k])
           /\ Len(out'.phis[b]) \in Nat /\ DOMAIN out'.phis[b] = 1 .. Len(out'.phis[b])
           /\ \A k \in DOMAIN out'.phis[b] : \E j \in DOMAIN prog.phis[b] :
                CopiedPhi(prog.phis[b][j], out'.phis[b][k])
<1>1. /\ DOMAIN out'.insts = execBlocks /\ DOMAIN out'.phis = execBlocks
      /\ out'.insts[b] = [k \in DOMAIN out.insts[b] |-> PassInst(out.insts[b][k])]
      /\ Len(out'.phis[b]) \in Nat /\ DOMAIN out'.phis[b] = 1 .. Len(out'.phis[b])
      /\ \A k \in DOMAIN out'.phis[b] : \E n \in DOMAIN out.phis[b] : out'.phis[b][k] = PassPhi(out.phis[b][n])
  BY PassShape
<1>2. b \in Blocks /\ DOMAIN out.insts[b] = DOMAIN prog.insts[b]
  BY DEF TypeOK, Rewritten
<1>3. ASSUME NEW k \in DOMAIN prog.insts[b] PROVE CopiedInst(prog.insts[b][k], out'.insts[b][k])
  <2>1. out'.insts[b][k] = PassInst(out.insts[b][k])
    BY <1>1, <1>2
  <2>2. CopiedInst(prog.insts[b][k], out.insts[b][k])
    BY DEF Rewritten
  <2>3. IsInst(prog.insts[b][k], Blocks)
    BY <1>2, ProgramFacts
  <2>4. \A n \in DOMAIN prog.insts[b][k].args :
           prog.insts[b][k].args[n] \in Vers => prog.insts[b][k].args[n] \in Read(prog)
    BY <1>2, InstsRead DEF Range, Blocks
  <2>5. CopiedInst(prog.insts[b][k], PassInst(out.insts[b][k]))
    BY <2>2, <2>3, <2>4, InstRewritten DEF PassInst
  <2> QED
    BY <2>1, <2>5
<1>4. ASSUME NEW k \in DOMAIN out'.phis[b]
      PROVE  \E j \in DOMAIN prog.phis[b] : CopiedPhi(prog.phis[b][j], out'.phis[b][k])
  <2>1. PICK n \in DOMAIN out.phis[b] : out'.phis[b][k] = PassPhi(out.phis[b][n])
    BY <1>1
  <2>2. \E j \in DOMAIN prog.phis[b] : CopiedPhi(prog.phis[b][j], PassPhi(out.phis[b][n]))
    BY PhiRewritten DEF PassPhi
  <2> QED
    BY <2>1, <2>2
<1> QED
  BY <1>1, <1>2, <1>3, <1>4

LEMMA RewrittenAgain ==
    ASSUME UNCHANGED <<prog, lat, execEdges, execBlocks>>,
           \A b \in execBlocks :
             /\ DOMAIN out'.insts[b] = DOMAIN prog.insts[b]
             /\ \A k \in DOMAIN prog.insts[b] : CopiedInst(prog.insts[b][k], out'.insts[b][k])
             /\ Len(out'.phis[b]) \in Nat /\ DOMAIN out'.phis[b] = 1 .. Len(out'.phis[b])
             /\ \A k \in DOMAIN out'.phis[b] : \E j \in DOMAIN prog.phis[b] :
                  CopiedPhi(prog.phis[b][j], out'.phis[b][k]),
           DOMAIN out'.insts = execBlocks, DOMAIN out'.phis = execBlocks
    PROVE  Rewritten'
<1>1. Copies' = Copies
  BY CopiesKept
<1>2. \A o, x : Same(o, x)' <=> Same(o, x)
  BY <1>1 DEF Same
<1>3. \A p, o : CopiedPhi(p, o)' <=> CopiedPhi(p, o)
  BY <1>2 DEF CopiedPhi
<1>4. \A i, o : CopiedInst(i, o)' <=> CopiedInst(i, o)
  BY <1>2 DEF CopiedInst
<1> QED
  BY <1>3, <1>4 DEF Rewritten

LEMMA InitRewritten == Init => Rewritten
BY DEF Init, Rewritten, Analysed

LEMMA StepRewritten == Inv /\ Derived /\ Rewritten /\ [Next]_vars => Rewritten'
<1> SUFFICES ASSUME Inv, Derived, Rewritten, [Next]_vars PROVE Rewritten'
  OBVIOUS
<1>0. TypeOK
  BY DEF Inv
<1>1. CASE Pop \/ VisitPhi \/ VisitDef \/ VisitJump \/ VisitOther \/ LeaveBlock \/ NextRound
  BY <1>1 DEF Pop, VisitPhi, VisitDef, VisitJump, VisitOther, LeaveBlock, NextRound, AtInst, Visiting, RoundOver,
              Rewritten, Analysed
<1>2. CASE DropDeadBlocks
  <2>1. UNCHANGED <<prog, lat, execEdges, execBlocks>> /\ out' = Restricted(prog, execBlocks)
    BY <1>2 DEF DropDeadBlocks, round
  <2>2. \A b \in execBlocks : out'.phis[b] = prog.phis[b] /\ out'.insts[b] = prog.insts[b]
    BY <2>1 DEF Restricted
  <2>3. DOMAIN out'.insts = execBlocks /\ DOMAIN out'.phis = execBlocks
    BY <2>1 DEF Restricted
  <2>4. ASSUME NEW b \in execBlocks
        PROVE  /\ DOMAIN out'.insts[b] = DOMAIN prog.insts[b]
               /\ \A k \in DOMAIN prog.insts[b] : CopiedInst(prog.insts[b][k], out'.insts[b][k])
               /\ Len(out'.phis[b]) \in Nat /\ DOMAIN out'.phis[b] = 1 .. Len(out'.phis[b])
               /\ \A k \in DOMAIN out'.phis[b] : \E j \in DOMAIN prog.phis[b] :
                    CopiedPhi(prog.phis[b][j], out'.phis[b][k])
    <3>1. b \in Blocks
      BY <1>0 DEF TypeOK
    <3>2. \A k \in DOMAIN prog.insts[b] : CopiedInst(prog.insts[b][k], prog.insts[b][k])
      <4> SUFFICES ASSUME NEW k \in DOMAIN prog.insts[b] PROVE CopiedInst(prog.insts[b][k], prog.insts[b][k])
        OBVIOUS
      <4>1. IsInst(prog.insts[b][k], Blocks)
        BY <1>0, <3>1, ProgramFacts
      <4>2. DOMAIN prog.insts[b][k] = InstFields
        BY <4>1 DEF IsInst, InstFields
      <4> QED
        BY <4>2 DEF CopiedInst, Same
    <3>3. \A k \in DOMAIN prog.phis[b] : CopiedPhi(prog.phis[b][k], prog.phis[b][k])
      BY <1>0, <3>1, ProgramFacts DEF CopiedPhi, IsPhi, Same
    <3> QED
      BY <1>0, <2>2, <3>1, <3>2, <3>3, ProgramFacts
  <2> QED
    BY <2>1, <2>3, <2>4, RewrittenAgain
<1>3. CASE Rewrite
  <2>1. UNCHANGED <<prog, lat, execEdges, execBlocks>> /\ out' = RewritePass(out, lat, execEdges) /\ Analysed
    BY <1>3 DEF Rewrite, round, Analysed
  <2>2. CASE prog \in Executed
    <3>1. \A b \in execBlocks :
             /\ DOMAIN out'.insts[b] = DOMAIN prog.insts[b]
             /\ \A k \in DOMAIN prog.insts[b] : CopiedInst(prog.insts[b][k], out'.insts[b][k])
             /\ Len(out'.phis[b]) \in Nat /\ DOMAIN out'.phis[b] = 1 .. Len(out'.phis[b])
             /\ \A k \in DOMAIN out'.phis[b] : \E j \in DOMAIN prog.phis[b] :
                  CopiedPhi(prog.phis[b][j], out'.phis[b][k])
      BY <1>0, <2>1, <2>2, PassCopies
    <3>2. DOMAIN out'.insts = execBlocks /\ DOMAIN out'.phis = execBlocks
      BY <1>0, <2>1, <2>2, PassCopies DEF Derived
    <3> QED
      BY <2>1, <3>1, <3>2, RewrittenAgain
  <2>3. CASE prog \notin Executed
    BY <2>1, <2>3 DEF Rewritten
  <2> QED
    BY <2>2, <2>3
<1>4. CASE UNCHANGED vars
  <2>1. UNCHANGED <<prog, lat, execEdges, execBlocks, out, phase>>
    BY <1>4 DEF vars, round
  <2>2. CASE Analysed /\ prog \in Executed
    BY <2>1, <2>2, RewrittenAgain DEF Rewritten
  <2>3. CASE ~(Analysed /\ prog \in Executed)
    BY <2>1, <2>3 DEF Rewritten, Analysed
  <2> QED
    BY <2>2, <2>3
<1> QED
  BY <1>1, <1>2, <1>3, <1>4 DEF Next

-----------------------------------------------------------------------------
(* The execution: what equals what                                         *)

(* Control has come along executable edges, and whatever is assigned has   *)
(* the value of all that it equals.                                        *)
CopiesHold ==
    at # 0 =>
        /\ at \in Reached
        /\ \A v \in Vers, x \in Origins :
             <<v, x>> \in Copies /\ v \in AssignedHere => env[v] = Value(x, env)

LEMMA StepCopiesHold ==
    Inv /\ SettledBehind /\ Derived /\ Tracked /\ Follows /\ CopiesHold /\ [ExecNext]_both /\ Tracked' /\ Follows'
      => CopiesHold'
<1> SUFFICES ASSUME Inv, SettledBehind, Derived, Tracked, Follows, CopiesHold, [ExecNext]_both,
                    Tracked', Follows', at' # 0
             PROVE  CopiesHold'
  BY DEF CopiesHold
<1>0. TypeOK /\ FixpointReached
  BY SettledIsFixpoint DEF Inv
<1>1. CASE Analyse
  <2>1. phase # "done" /\ at' = at
    BY <1>1 DEF Analyse, Next, Pop, VisitPhi, VisitDef, VisitJump, VisitOther, LeaveBlock, NextRound,
                DropDeadBlocks, Rewrite, AtInst, Visiting, RoundOver, execVars
  <2> QED
    BY <2>1 DEF Follows
<1>2. CASE UNCHANGED vars /\ ~Analyse
  <2>1. UNCHANGED <<prog, lat, execEdges, execBlocks, phase, out>>
    BY <1>2 DEF vars, round
  <2>2. Copies' = Copies /\ Reached' = Reached /\ Origins' = Origins
    BY <2>1, CopiesKept DEF Origins
  <2>3. phase = "done" /\ prog \in Executed
    BY <2>1 DEF Follows
  (* A version that is known has its value, as every constant has. *)
  <2>4. ASSUME NEW v \in Vers, NEW x \in Origins, v \in AssignedHere', Known(v, x)
        PROVE  env'[v] = Value(x, env')
    <3>1. env'[v] # Undef
      BY <2>4 DEF Tracked
    <3>2. env'[v] = lat[v]
      BY <2>1, <2>3, <2>4, <3>1 DEF Follows, Known
    <3>3. x \in Int /\ x \notin Vers /\ lat[v] = x
      BY <2>4, ConstantsAssumption DEF Known
    <3> QED
      BY <3>2, <3>3 DEF Value
  <2>5. SUFFICES /\ at' \in Reached
                 /\ \A v \in Vers, x \in Origins : \A c \in execBlocks : \A k \in DOMAIN prog.phis[c] :
                      /\ <<v, x>> \in Copies /\ v \in AssignedHere'
                      /\ prog.phis[c][k].dst = v /\ Merges(Copies, prog.phis[c][k], c, x)
                      => env'[v] = Value(x, env')
    <3>1. ASSUME NEW v \in Vers, NEW x \in Origins, <<v, x>> \in Copies, v \in AssignedHere'
          PROVE  env'[v] = Value(x, env')
      BY <2>4, <2>5, <3>1, CopyType DEF MergedIn
    <3> QED
      BY <2>2, <2>5, <3>1 DEF CopiesHold
  <2>6. CASE Start
    <3>1. at' = Entry /\ ip' = 1
      BY <2>6 DEF Start
    <3>2. Entry \in Blocks /\ Entry \in Reached
      BY <1>0, ProgramFacts, EntryReached
    <3>3. AssignedHere' \subseteq LiveIns(prog)
      <4>1. AssignedHere' = AssignedOnEntry(prog, Entry) \cup
                              {prog.phis[Entry][j].dst : j \in DOMAIN prog.phis[Entry]}
        BY <1>0, <2>1, <3>1, <3>2, AssignedEntered
      <4>2. {prog.phis[Entry][j].dst : j \in DOMAIN prog.phis[Entry]} = {}
        BY <2>3, StrictFacts, EmptySeq
      <4> QED
        BY <4>1, <4>2 DEF AssignedOnEntry
    <3>4. ASSUME NEW c \in execBlocks, NEW k \in DOMAIN prog.phis[c], prog.phis[c][k].dst \in AssignedHere'
          PROVE  FALSE
      <4>1. c \in Blocks
        BY <1>0 DEF TypeOK
      <4>2. prog.phis[c][k].dst \in Defined(prog)
        BY <1>0, <2>3, <4>1, OnePhi
      <4> QED
        BY <3>3, <3>4, <4>2 DEF LiveIns
    <3> QED
      BY <3>1, <3>2, <3>4
  <2>7. CASE Assign
    <3>1. PICK n \in Inputs : env' = [env EXCEPT ![Orig.dst] = Result(Orig, env, n)]
      BY <2>7 DEF Assign
    <3>2. Running /\ Orig.op \in DefOps /\ ip' = ip + 1 /\ UNCHANGED at
      BY <2>7 DEF Assign
    <3>3. at # 0 /\ at \in Blocks /\ at \in Reached /\ ip \in DOMAIN prog.insts[at] /\ Orig = prog.insts[at][ip]
      BY <3>2 DEF Running, Tracked, CopiesHold, Orig
    <3>4. Orig.dst \in DefinedIn(prog, at)
      <4>1. DOMAIN prog.insts[at] = 1 .. Len(prog.insts[at]) /\ Len(prog.insts[at]) \in Nat
        BY <1>0, <3>3, ProgramFacts
      <4>2. ip < Len(prog.insts[at]) + 1
        BY <3>3, <4>1
      <4> QED
        BY <3>2, <3>3, <4>2 DEF DefinedIn, DefinedBefore
    <3>5. \A v \in Vers : v # Orig.dst => env'[v] = env[v]
      BY <3>1 DEF Tracked
    <3>6. ASSUME NEW v \in Vers, NEW x \in Origins, <<v, x>> \in Copies, v \in AssignedHere',
                 NEW c \in execBlocks, NEW k \in DOMAIN prog.phis[c],
                 prog.phis[c][k].dst = v, Merges(Copies, prog.phis[c][k], c, x)
          PROVE  env'[v] = Value(x, env')
      <4>1. c \in Blocks
        BY <1>0 DEF TypeOK
      <4>2. v # Orig.dst /\ \A j \in DOMAIN prog.insts[at] : prog.insts[at][j].dst # v
        BY <1>0, <2>3, <3>3, <3>6, <4>1, OnePhi
      <4>3. v \in AssignedHere
        BY <2>1, <3>2, <3>6, <4>2, AssignedAfter
      <4>4. env'[v] = Value(x, env)
        BY <3>3, <3>5, <3>6, <4>2, <4>3 DEF CopiesHold
      <4>5. CASE x \notin Vers
        BY <4>4, <4>5 DEF Value
      <4>6. CASE x \in Vers
        <5>1. x # Orig.dst
          <6> SUFFICES ASSUME x = Orig.dst PROVE FALSE
            OBVIOUS
          <6>1. v \notin DefinedIn(prog, at) /\ v \notin AssignedOnEntry(prog, at)
            BY <1>0, <2>3, <3>3, <3>4, <3>6, <4>6, CopyLeftBehind
          <6>2. v \notin DefinedBefore(prog, at, ip)
            BY <4>2 DEF DefinedBefore
          <6> QED
            BY <4>3, <6>1, <6>2 DEF AssignedHere, DefinedIn
        <5> QED
          BY <3>5, <4>4, <4>6, <5>1 DEF Value
      <4> QED
        BY <4>5, <4>6
    <3> QED
      BY <3>2, <3>3, <3>6
  <2>8. CASE Effect
    <3>1. Running /\ Orig.op = "store" /\ ip' = ip + 1 /\ UNCHANGED <<at, env>>
      BY <2>8 DEF Effect
    <3>2. Orig.op \notin DefOps
      BY <3>1 DEF DefOps, PureOps
    <3>3. AssignedHere' \subseteq AssignedHere
      BY <2>1, <3>1, <3>2, AssignedAfter
    <3>4. at # 0
      BY <3>1 DEF Running
    <3> QED
      BY <3>1, <3>3, <3>4 DEF CopiesHold
  <2>9. CASE Jump
    <3> DEFINE b == Goto(Orig, env)
    <3>1. /\ Running /\ Orig.op \in JumpOps /\ ip' = 1
          /\ b \in DOMAIN out.insts /\ env' = EnterBlock(prog.phis[b], env, at) /\ at' = b
      BY <2>9 DEF Jump
    <3>2. /\ b \in Blocks /\ b # 0 /\ at \in Blocks /\ b \in Succs(prog, at)
          /\ AssignedOnEntry(prog, b) \subseteq AssignedHere
          /\ \A k \in DOMAIN prog.phis[b] :
               at \in DOMAIN prog.phis[b][k].in /\ prog.phis[b][k].in[at] \in Vers \cap AssignedHere
      BY <3>1, EnterFacts
    <3>4. Passes(at, b)
      BY <3>1, <3>2, JumpsAlongMarked DEF Passes
    <3> HIDE DEF b
    <3>5. at # 0 /\ at \in Reached
      BY <3>1 DEF Running, CopiesHold
    <3>6. b \in Reached
      BY <1>0, <3>2, <3>4, <3>5, ReachedAcross
    <3>7. AssignedHere' = AssignedOnEntry(prog, b) \cup {prog.phis[b][j].dst : j \in DOMAIN prog.phis[b]}
      BY <1>0, <2>1, <3>1, <3>2, AssignedEntered
    <3>8. \A v \in Vers :
            \/ /\ env'[v] = env[v]
               /\ ~ \E k \in DOMAIN prog.phis[b] : at \in DOMAIN prog.phis[b][k].in /\ prog.phis[b][k].dst = v
            \/ \E k \in DOMAIN prog.phis[b] : /\ at \in DOMAIN prog.phis[b][k].in /\ prog.phis[b][k].dst = v
                                             /\ env'[v] = env[prog.phis[b][k].in[at]]
      BY <3>1, BlockEntered
    <3>9. ASSUME NEW v \in Vers, NEW x \in Origins, <<v, x>> \in Copies, v \in AssignedHere',
                 NEW c \in execBlocks, NEW k \in DOMAIN prog.phis[c],
                 prog.phis[c][k].dst = v, Merges(Copies, prog.phis[c][k], c, x)
          PROVE  env'[v] = Value(x, env')
      <4>1. c \in Blocks
        BY <1>0 DEF TypeOK
      <4>2. \A j \in DOMAIN prog.phis[b] : prog.phis[b][j].dst = v => c = b /\ j = k
        BY <1>0, <2>3, <3>2, <3>9, <4>1, OnePhi
      <4>3. Value(x, env') = Value(x, env)
        <5>1. CASE x \notin Vers
          BY <5>1 DEF Value
        <5>2. CASE x \in Vers /\ x \notin DefinedIn(prog, b)
          <6>1. env'[x] = env[x]
            BY <3>8, <5>2 DEF DefinedIn
          <6> QED
            BY <5>2, <6>1 DEF Value
        <5>3. CASE x \in Vers /\ x \in DefinedIn(prog, b)
          <6>1. v \notin DefinedIn(prog, b) /\ v \notin AssignedOnEntry(prog, b)
            BY <1>0, <2>3, <3>6, <3>9, <5>3, CopyLeftBehind
          <6> QED
            BY <3>7, <3>9, <6>1 DEF DefinedIn
        <5> QED
          BY <5>1, <5>2, <5>3
      <4>4. CASE c = b
        <5> DEFINE w == prog.phis[b][k].in[at]
        <5>1. at \in DOMAIN prog.phis[b][k].in /\ w \in Vers /\ w \in AssignedHere
          BY <3>2, <3>9, <4>4
        <5>2. env'[v] = env[w]
          BY <3>8, <3>9, <4>2, <4>4, <5>1
        <5>3. w = x \/ <<w, x>> \in Copies
          BY <3>4, <3>9, <4>4, <5>1 DEF Merges
        <5> HIDE DEF w
        <5>4. env[w] = Value(x, env)
          BY <3>5, <5>1, <5>3 DEF CopiesHold, Value
        <5> QED
          BY <4>3, <5>2, <5>4
      <4>5. CASE c # b
        <5>1. v \in AssignedHere
          BY <3>2, <3>7, <3>9, <4>2, <4>5
        <5>2. env'[v] = env[v]
          BY <3>8, <4>2, <4>5
        <5>3. env[v] = Value(x, env)
          BY <3>5, <3>9, <5>1 DEF CopiesHold
        <5> QED
          BY <4>3, <5>2, <5>3
      <4> QED
        BY <4>4, <4>5
    <3> QED
      BY <3>1, <3>6, <3>9
  <2>10. CASE UNCHANGED execVars
    <3>1. UNCHANGED <<env, at, ip>>
      BY <2>10 DEF execVars
    <3>2. AssignedHere' = AssignedHere
      BY <2>1, <3>1 DEF AssignedHere
    <3> QED
      BY <3>1, <3>2 DEF CopiesHold
  <2> QED
    BY <1>2, <2>6, <2>7, <2>8, <2>9, <2>10 DEF ExecNext, both
<1> QED
  BY <1>1, <1>2 DEF ExecNext, both, Start, Assign, Effect, Jump

-----------------------------------------------------------------------------
(* The execution: the two stores                                           *)

(* The two stores agree on every version whose definition is still there.  *)
StoresAgree ==
    /\ outEnv = [v \in Vers |-> outEnv[v]]
    /\ at # 0 => \A x \in Vers : (x \in Defined(prog) => x \in Defined(out)) => outEnv[x] = env[x]

(* An operand and what it became have the same value in the two stores.    *)
LEMMA SameValue ==
    ASSUME TypeOK, CopiesHold, StoresAgree, NothingDangles, phase = "done", prog \in Executed, at # 0,
           NEW i, i \in Vers => i \in AssignedHere, NEW o, o \in Vers => o \in Used(out), Same(i, o)
    PROVE  Value(o, outEnv) = Value(i, env)
<1>1. Value(i, env) = Value(o, env)
  <2>1. CASE <<i, o>> \in Copies
    <3>1. i \in Vers /\ o \in Origins
      BY <2>1, CopyType
    <3> QED
      BY <2>1, <3>1 DEF CopiesHold, Value
  <2>2. CASE i = o
    BY <2>2
  <2> QED
    BY <2>1, <2>2 DEF Same
<1>2. CASE o \in Vers
  <2>1. o \in Defined(prog) => o \in Defined(out)
    BY <1>2 DEF NothingDangles
  <2>2. outEnv[o] = env[o]
    BY <1>2, <2>1 DEF StoresAgree
  <2> QED
    BY <1>1, <1>2, <2>2 DEF Value
<1>3. CASE o \notin Vers
  BY <1>1, <1>3 DEF Value
<1> QED
  BY <1>2, <1>3

(* The instruction about to run in the original and in the rewritten       *)
(* function.                                                               *)
LEMMA Beside ==
    ASSUME Inv, Tracked, Follows, Rewritten, Running
    PROVE  /\ phase = "done" /\ prog \in Executed /\ at # 0 /\ at \in execBlocks /\ at \in Blocks
           /\ ip \in DOMAIN out.insts[at] /\ IsInst(Orig, Blocks) /\ CopiedInst(Orig, New)
           /\ at \in DOMAIN out.insts /\ Orig = prog.insts[at][ip]
           /\ \A n \in DOMAIN Orig.args : Orig.args[n] \in Vers => Orig.args[n] \in AssignedHere
<1>1. /\ phase = "done" /\ prog \in Executed /\ at # 0 /\ at \in execBlocks /\ at \in Blocks /\ TypeOK
      /\ ip \in DOMAIN prog.insts[at] /\ Orig = prog.insts[at][ip]
  BY DEF Running, Tracked, Follows, Inv, Orig
<1>2. IsInst(Orig, Blocks)
  BY <1>1, ProgramFacts
<1>3. /\ DOMAIN out.insts[at] = DOMAIN prog.insts[at] /\ CopiedInst(Orig, New)
      /\ at \in DOMAIN out.insts
  BY <1>1 DEF Rewritten, Analysed, New
<1>4. Vers \cap Range(Orig.args) \subseteq AssignedHere
  BY <1>1, StrictFacts DEF AssignedHere
<1>5. \A n \in DOMAIN Orig.args : Orig.args[n] \in Vers => Orig.args[n] \in AssignedHere
  BY <1>4 DEF Range
<1> QED
  BY <1>1, <1>2, <1>3, <1>5

(* An instruction that was not folded reads the same values.               *)
LEMMA SameValues ==
    ASSUME Inv, Tracked, Follows, Rewritten, Running, CopiesHold, StoresAgree, NothingDangles,
           DOMAIN New.args = DOMAIN Orig.args, \A n \in DOMAIN Orig.args : Same(Orig.args[n], New.args[n])
    PROVE  Values(New, outEnv) = Values(Orig, env)
<1>1. /\ phase = "done" /\ prog \in Executed /\ at # 0 /\ at \in Blocks /\ TypeOK
      /\ at \in DOMAIN out.insts /\ ip \in DOMAIN out.insts[at]
      /\ \A n \in DOMAIN Orig.args : Orig.args[n] \in Vers => Orig.args[n] \in AssignedHere
  BY Beside DEF Inv
<1>2. ASSUME NEW n \in DOMAIN Orig.args PROVE Value(New.args[n], outEnv) = Value(Orig.args[n], env)
  <2>1. New.args[n] \in Vers => New.args[n] \in Used(out)
    <3>1. New.args[n] \in Range(out.insts[at][ip].args)
      BY DEF New, Range
    <3> QED
      BY <1>1, <3>1 DEF Used
  <2> QED
    BY <1>1, <2>1, SameValue
<1> QED
  BY <1>2 DEF Values

(* Only a test of a constant is folded.                                    *)
LEMMA NotFolded ==
    ASSUME Inv, Tracked, Follows, Rewritten, Running, Orig.op # "cbr"
    PROVE  /\ New.op = Orig.op /\ New.dst = Orig.dst /\ New.cases = Orig.cases /\ New.to = Orig.to
           /\ DOMAIN New.args = DOMAIN Orig.args /\ \A n \in DOMAIN Orig.args : Same(Orig.args[n], New.args[n])
BY Beside DEF CopiedInst

(* A phi of the rewritten function is a phi of the original one, in the    *)
(* same block, and what is defined in the one is defined in the other by   *)
(* the same instruction.                                                   *)
LEMMA StillDefined ==
    ASSUME TypeOK, prog \in Executed, Rewritten, Analysed, NEW b \in Blocks, NEW k \in DOMAIN prog.phis[b],
           prog.phis[b][k].dst \in Defined(out)
    PROVE  b \in execBlocks /\ \E n \in DOMAIN out.phis[b] : out.phis[b][n].dst = prog.phis[b][k].dst
<1> DEFINE v == prog.phis[b][k].dst
<1>1. PICK c \in DOMAIN out.insts : v \in {out.phis[c][n].dst : n \in DOMAIN out.phis[c]}
                                      \cup {out.insts[c][n].dst : n \in DOMAIN out.insts[c]}
  BY DEF Defined
<1>2. c \in execBlocks /\ c \in Blocks
  BY <1>1 DEF Rewritten, TypeOK
<1>3. v \in Vers /\ (\A d \in Blocks : \A j \in DOMAIN prog.phis[d] : prog.phis[d][j].dst = v => d = b /\ j = k)
      /\ \A d \in Blocks : \A j \in DOMAIN prog.insts[d] : prog.insts[d][j].dst # v
  BY OnePhi
<1>4. CASE v \in {out.phis[c][n].dst : n \in DOMAIN out.phis[c]}
  <2>1. PICK n \in DOMAIN out.phis[c] : out.phis[c][n].dst = v
    BY <1>4
  <2>2. PICK j \in DOMAIN prog.phis[c] : CopiedPhi(prog.phis[c][j], out.phis[c][n])
    BY <1>2 DEF Rewritten
  <2>3. c = b
    BY <1>2, <1>3, <2>1, <2>2 DEF CopiedPhi
  <2> QED
    BY <1>2, <2>1, <2>3
<1>5. CASE v \in {out.insts[c][n].dst : n \in DOMAIN out.insts[c]}
  <2>1. PICK n \in DOMAIN out.insts[c] : out.insts[c][n].dst = v
    BY <1>5
  <2>2. n \in DOMAIN prog.insts[c] /\ CopiedInst(prog.insts[c][n], out.insts[c][n])
    BY <1>2 DEF Rewritten
  <2>3. prog.insts[c][n].dst = v
    BY <1>3, <2>1, <2>2, ConstantsAssumption DEF CopiedInst
  <2> QED
    BY <1>2, <1>3, <2>2, <2>3
<1> QED
  BY <1>1, <1>4, <1>5

LEMMA StepStoresAgree ==
    Inv /\ SettledBehind /\ Derived /\ Tracked /\ Follows /\ Rewritten /\ CopiesHold /\ StoresAgree
    /\ NothingDangles /\ [ExecNext]_both => StoresAgree'
<1> SUFFICES ASSUME Inv, SettledBehind, Derived, Tracked, Follows, Rewritten, CopiesHold, StoresAgree, NothingDangles,
                    [ExecNext]_both
             PROVE  StoresAgree'
  OBVIOUS
<1>0. TypeOK
  BY DEF Inv
<1>1. CASE Analyse
  <2>1. phase # "done" /\ UNCHANGED execVars
    BY <1>1 DEF Analyse, Next, Pop, VisitPhi, VisitDef, VisitJump, VisitOther, LeaveBlock, NextRound,
                DropDeadBlocks, Rewrite, AtInst, Visiting, RoundOver
  <2> QED
    BY <2>1 DEF Follows, StoresAgree, execVars
<1>2. CASE Start
  <2>1. \E e : env' = [v \in Vers |-> IF v \in DOMAIN e THEN e[v] ELSE Undef]
    BY <1>2 DEF Start
  <2>2. outEnv' = env'
    BY <1>2 DEF Start
  <2> QED
    BY <2>1, <2>2 DEF StoresAgree
<1>3. CASE Assign
  <2>1. PICK n \in Inputs : /\ env'    = [env EXCEPT ![Orig.dst] = Result(Orig, env, n)]
                            /\ outEnv' = [outEnv EXCEPT ![New.dst] = Result(New, outEnv, n)]
    BY <1>3 DEF Assign
  <2>2. Running /\ Orig.op \in DefOps /\ UNCHANGED <<at, prog, out>>
    BY <1>3 DEF Assign, vars
  <2>3. Orig.op # "cbr"
    BY <2>2 DEF DefOps, PureOps
  <2>4. /\ New.op = Orig.op /\ New.dst = Orig.dst
        /\ Values(New, outEnv) = Values(Orig, env)
    BY <2>2, <2>3, NotFolded, SameValues
  <2>5. Result(New, outEnv, n) = Result(Orig, env, n)
    BY <2>4 DEF Result
  <2> DEFINE r == Result(Orig, env, n)
  <2>6. env' = [env EXCEPT ![Orig.dst] = r] /\ outEnv' = [outEnv EXCEPT ![Orig.dst] = r]
    BY <2>1, <2>4, <2>5
  <2> HIDE DEF r
  <2>7. at # 0 /\ env = [v \in Vers |-> env[v]] /\ outEnv = [v \in Vers |-> outEnv[v]]
    BY <2>2 DEF Running, Tracked, StoresAgree
  <2>8. \A v \in Vers : /\ env'[v] = IF v = Orig.dst THEN r ELSE env[v]
                        /\ outEnv'[v] = IF v = Orig.dst THEN r ELSE outEnv[v]
    BY <2>6, <2>7
  <2>9. outEnv' = [v \in Vers |-> outEnv'[v]]
    BY <2>6, <2>7
  <2> QED
    BY <2>2, <2>7, <2>8, <2>9 DEF StoresAgree
<1>4. CASE Effect
  BY <1>4 DEF Effect, Running, StoresAgree, vars
<1>5. CASE Jump
  <2> DEFINE b == Goto(Orig, env)
  <2>1. /\ Running /\ Orig.op \in JumpOps /\ UNCHANGED <<prog, out>>
        /\ b \in DOMAIN out.insts /\ at' = b
        /\ env' = EnterBlock(prog.phis[b], env, at) /\ outEnv' = EnterBlock(out.phis[b], outEnv, at)
    BY <1>5 DEF Jump, vars
  <2>2. /\ b \in Blocks /\ b # 0 /\ \A k \in DOMAIN prog.phis[b] :
             at \in DOMAIN prog.phis[b][k].in /\ prog.phis[b][k].in[at] \in Vers \cap AssignedHere
    BY <2>1, EnterFacts
  <2>3. phase = "done" /\ prog \in Executed /\ at # 0 /\ Analysed
    BY <2>1 DEF Running, Follows, Analysed
  <2>9. <<at, b>> \in execEdges
    BY <2>1, <2>2, JumpsAlongMarked
  <2> HIDE DEF b
  <2>4. b \in execBlocks
    BY <2>1, <2>3 DEF Rewritten
  <2>5. \A v \in Vers :
            \/ /\ env'[v] = env[v]
               /\ ~ \E k \in DOMAIN prog.phis[b] : at \in DOMAIN prog.phis[b][k].in /\ prog.phis[b][k].dst = v
            \/ \E k \in DOMAIN prog.phis[b] : /\ at \in DOMAIN prog.phis[b][k].in /\ prog.phis[b][k].dst = v
                                             /\ env'[v] = env[prog.phis[b][k].in[at]]
    BY <2>1, BlockEntered
  <2>6. /\ outEnv' = [v \in Vers |-> outEnv'[v]]
        /\ \A v \in Vers :
            \/ /\ outEnv'[v] = outEnv[v]
               /\ ~ \E k \in DOMAIN out.phis[b] : at \in DOMAIN out.phis[b][k].in /\ out.phis[b][k].dst = v
            \/ \E k \in DOMAIN out.phis[b] : /\ at \in DOMAIN out.phis[b][k].in /\ out.phis[b][k].dst = v
                                            /\ outEnv'[v] = outEnv[out.phis[b][k].in[at]]
    BY <2>1, BlockEntered
  <2>7. \A n \in DOMAIN out.phis[b] : \E j \in DOMAIN prog.phis[b] : CopiedPhi(prog.phis[b][j], out.phis[b][n])
    BY <2>3, <2>4 DEF Rewritten
  <2>8. ASSUME NEW x \in Vers, x \in Defined(prog) => x \in Defined(out) PROVE outEnv'[x] = env'[x]
    <3>1. CASE \E k \in DOMAIN prog.phis[b] : prog.phis[b][k].dst = x
      <4>1. PICK k \in DOMAIN prog.phis[b] : prog.phis[b][k].dst = x
        BY <3>1
      <4>2. \A j \in DOMAIN prog.phis[b] : prog.phis[b][j].dst = x => j = k
        BY <1>0, <2>2, <2>3, <4>1, OnePhi
      <4>3. \E n \in DOMAIN out.phis[b] : out.phis[b][n].dst = x
        BY <1>0, <2>2, <2>3, <2>8, <4>1, OnePhi, StillDefined
      <4>4. at \in DOMAIN prog.phis[b][k].in /\ prog.phis[b][k].in[at] \in Vers \cap AssignedHere
        BY <2>2
      <4>5. env'[x] = env[prog.phis[b][k].in[at]]
        BY <2>5, <4>1, <4>2, <4>4
      <4>6. PICK n \in DOMAIN out.phis[b] : out.phis[b][n].dst = x /\ outEnv'[x] = outEnv[out.phis[b][n].in[at]]
        <5>1. PICK m \in DOMAIN out.phis[b] : out.phis[b][m].dst = x
          BY <4>3
        <5>2. at \in DOMAIN out.phis[b][m].in
          BY <2>7, <4>2, <4>4, <5>1 DEF CopiedPhi
        <5> QED
          BY <2>6, <5>1, <5>2
      <4>7. CopiedPhi(prog.phis[b][k], out.phis[b][n])
        BY <2>7, <4>2, <4>6 DEF CopiedPhi
      <4> DEFINE w == prog.phis[b][k].in[at]
                 y == out.phis[b][n].in[at]
      <4>8. w \in Vers /\ w \in AssignedHere /\ y \in Vers /\ Same(w, y) /\ at \in DOMAIN out.phis[b][n].in
        BY <4>4, <4>7 DEF CopiedPhi
      <4>9. y \in Used(out)
        <5>1. y \in LiveInputs(out.phis[b][n], b)
          BY <2>9, <4>8 DEF LiveInputs
        <5> QED
          BY <2>1, <4>8, <5>1, PhisUsed
      <4> HIDE DEF w, y
      <4>10. Value(y, outEnv) = Value(w, env)
        BY <1>0, <2>3, <4>8, <4>9, SameValue
      <4> QED
        BY <4>5, <4>6, <4>8, <4>10 DEF Value, w, y
    <3>2. CASE ~ \E k \in DOMAIN prog.phis[b] : prog.phis[b][k].dst = x
      <4>1. ~ \E k \in DOMAIN out.phis[b] : out.phis[b][k].dst = x
        BY <2>7, <3>2 DEF CopiedPhi
      <4>2. env'[x] = env[x] /\ outEnv'[x] = outEnv[x]
        BY <2>5, <2>6, <3>2, <4>1
      <4> QED
        BY <2>3, <2>8, <4>2 DEF StoresAgree
    <3> QED
      BY <3>1, <3>2
  <2> QED
    BY <2>1, <2>6, <2>8 DEF StoresAgree
<1>6. CASE UNCHANGED both
  BY <1>6 DEF both, vars, execVars, StoresAgree
<1> QED
  BY <1>1, <1>2, <1>3, <1>4, <1>5, <1>6 DEF ExecNext, both

(* Control goes the same way in both.                                      *)
LEMMA SameWay ==
    ASSUME Inv, Derived, Tracked, Follows, Rewritten, Running, CopiesHold, StoresAgree, NothingDangles,
           Orig.op \in JumpOps
    PROVE  Goto(New, outEnv) = Goto(Orig, env)
<1>1. /\ phase = "done" /\ prog \in Executed /\ at # 0 /\ TypeOK
      /\ IsInst(Orig, Blocks) /\ CopiedInst(Orig, New)
      /\ \A n \in DOMAIN Orig.args : Orig.args[n] \in Vers => Orig.args[n] \in AssignedHere
  BY Beside DEF Inv
<1>2. /\ Orig.op \in {"cbr", "switch"} => 1 \in DOMAIN Orig.args
      /\ Orig.op \in {"br", "cbr", "switch"}
  BY <1>1, TargetsListed DEF JumpOps
<1>3. CASE /\ New.op = Orig.op /\ New.cases = Orig.cases /\ New.to = Orig.to
           /\ DOMAIN New.args = DOMAIN Orig.args
           /\ \A n \in DOMAIN Orig.args : Same(Orig.args[n], New.args[n])
  <2>1. Values(New, outEnv) = Values(Orig, env)
    BY <1>3, SameValues
  <2>2. CASE Orig.op = "br"
    BY <1>3, <2>2 DEF Goto
  <2>3. CASE Orig.op # "br"
    <3>1. Values(New, outEnv)[1] = Value(New.args[1], outEnv) /\ Values(Orig, env)[1] = Value(Orig.args[1], env)
      BY <1>2, <1>3, <2>3 DEF Values
    <3>2. Value(New.args[1], outEnv) = Value(Orig.args[1], env)
      BY <2>1, <3>1
    <3> QED
      BY <1>3, <3>2 DEF Goto
  <2> QED
    BY <2>2, <2>3
<1>4. CASE /\ Orig.op = "cbr" /\ New.op = "br"
           /\ \E c \in Int : Same(Orig.args[1], c) /\ New.to = <<Orig.to[IF c # 0 THEN 1 ELSE 2]>>
  <2>1. PICK c \in Int : Same(Orig.args[1], c) /\ New.to = <<Orig.to[IF c # 0 THEN 1 ELSE 2]>>
    BY <1>4
  <2>2. c \notin Vers
    BY ConstantsAssumption
  <2>3. Value(c, outEnv) = Value(Orig.args[1], env)
    BY <1>1, <1>2, <1>4, <2>1, <2>2, SameValue
  <2>4. Value(Orig.args[1], env) = c
    BY <2>2, <2>3 DEF Value
  <2>5. Goto(New, outEnv) = New.to[1] /\ Goto(Orig, env) = Orig.to[IF c = 0 THEN 2 ELSE 1]
    BY <1>4, <2>4 DEF Goto
  <2> QED
    BY <2>1, <2>5
<1> QED
  BY <1>1, <1>3, <1>4 DEF CopiedInst

LEMMA BehavesSame ==
    Inv /\ SettledBehind /\ Derived /\ Tracked /\ Follows /\ Rewritten /\ CopiesHold /\ StoresAgree /\ NothingDangles
      => SameBehaviour
<1> SUFFICES ASSUME Inv, SettledBehind, Derived, Tracked, Follows, Rewritten, CopiesHold, StoresAgree,
                    NothingDangles, Running
             PROVE  IF Orig.op \in JumpOps
                    THEN /\ Goto(New, outEnv) = Goto(Orig, env)
                         /\ Goto(Orig, env) # 0 => Goto(Orig, env) \in DOMAIN out.insts
                    ELSE Values(New, outEnv) = Values(Orig, env)
  BY DEF SameBehaviour
<1>1. CASE Orig.op \in JumpOps
  <2>1. ASSUME Goto(Orig, env) # 0 PROVE Goto(Orig, env) \in DOMAIN out.insts
    <3>1. Goto(Orig, env) \in execBlocks
      BY <1>1, <2>1, JumpsAlongMarked DEF Inv, EdgesJoinLiveBlocks
    <3> QED
      BY <3>1 DEF Derived, Analysed, Running, Follows
  <2> QED
    BY <1>1, <2>1, SameWay
<1>2. CASE Orig.op \notin JumpOps
  <2>1. Orig.op # "cbr"
    BY <1>2 DEF JumpOps
  <2> QED
    BY <1>2, <2>1, NotFolded, SameValues
<1> QED
  BY <1>1, <1>2

LEMMA InitAgree == ExecInit => Rewritten /\ CopiesHold /\ StoresAgree
BY InitRewritten DEF ExecInit, CopiesHold, StoresAgree, Idle

-----------------------------------------------------------------------------
(* Joins that have seen every edge agree                                   *)

(* From the second round on every live block is reached along live edges,  *)
(* and what the rewrite starts from are complete joins.                    *)
Rooted ==
    prog \in Executed =>
        /\ Restarted
        /\ prevEdges # None => execBlocks \subseteq Reached
        /\ PhisCoverLiveEdges

LEMMA LiveAreTargets ==
    ASSUME NEW l, NEW blocks, NEW i, IsInst(i, blocks), i.op \in JumpOps
    PROVE  Range(LiveTargets(i, l)) \subseteq Range(AllTargets(i))
<1> DEFINE c    == SsaLattice(i.args[1], l)
           hits == {k \in DOMAIN i.cases : i.cases[k][1] = c}
           hit  == CHOOSE k \in hits : \A j \in hits : k <= j
<1>1. /\ \A n \in DOMAIN i.to : i.to[n] \in Range(AllTargets(i))
      /\ \A n \in DOMAIN i.cases : i.cases[n][2] \in Range(AllTargets(i))
      /\ i.op = "cbr" => 1 \in DOMAIN i.to /\ 2 \in DOMAIN i.to
      /\ DOMAIN i.cases \subseteq Nat
  BY TargetsListed
<1>2. CASE i.op = "br" \/ c \notin Int
  BY <1>2 DEF LiveTargets
<1>3. CASE i.op = "cbr" /\ c \in Int
  BY <1>1, <1>3 DEF LiveTargets, Range
<1>4. CASE i.op = "switch" /\ c \in Int /\ hits = {}
  BY <1>1, <1>4 DEF LiveTargets, Range
<1>5. CASE i.op = "switch" /\ c \in Int /\ hits # {}
  <2>1. hits \in SUBSET Nat
    BY <1>1
  <2>2. hit \in hits
    <3>1. \E k \in hits : \A j \in hits : k <= j
      BY <1>5, <2>1, LeastNat
    <3> QED
      BY <3>1
  <2>3. i.cases[hit][2] \in Range(AllTargets(i))
    BY <1>1, <2>2
  <2>4. LiveTargets(i, l) = <<i.cases[hit][2]>>
    BY <1>5, Zenon DEF LiveTargets
  <2> HIDE DEF hit
  <2> QED
    BY <2>3, <2>4 DEF Range
<1> HIDE DEF c, hits, hit
<1>6. i.op = "br" \/ i.op = "cbr" \/ i.op = "switch"
  BY DEF JumpOps
<1> QED
  BY <1>2, <1>3, <1>4, <1>5, <1>6

(* With more edges more is reached. *)
LEMMA ReachedGrows ==
    ASSUME UNCHANGED prog, execEdges \subseteq execEdges'
    PROVE  Reached \subseteq Reached'
<1>1. Blocks' = Blocks
  BY DEF Blocks
<1>2. \A S : ClosedUnder(S)' => ClosedUnder(S)
  BY <1>1 DEF ClosedUnder, Passes, Entry
<1> QED
  BY <1>1, <1>2 DEF Reached

(* From the second round on every live edge is one of the function.        *)
LEMMA EdgesPass ==
    ASSUME TypeOK, Restarted, prevEdges # None, NEW a, NEW b, <<a, b>> \in execEdges
    PROVE  Passes(a, b) /\ a \in Blocks /\ b \in Blocks
<1>1. a \in Blocks /\ b \in Blocks
  BY DEF TypeOK
<1>2. LiveEdge(<<a, b>>)
  BY DEF Restarted, Repeats
<1>3. PICK k \in DOMAIN prog.insts[a] :
          prog.insts[a][k].op \in JumpOps /\ b \in Range(LiveTargets(prog.insts[a][k], lat))
  BY <1>2 DEF LiveEdge
<1>4. b \in Range(AllTargets(prog.insts[a][k]))
  BY <1>1, <1>3, LiveAreTargets, ProgramFacts
<1> QED
  BY <1>1, <1>4 DEF Passes, Succs

LEMMA InitRooted == Init => Rooted
BY InitRestarted DEF Init, Rooted, PhisCoverLiveEdges, Analysed

LEMMA StepRooted == Inv /\ SettledBehind /\ Covered /\ Rooted /\ [Next]_vars => Rooted'
<1> SUFFICES ASSUME Inv, SettledBehind, Covered, Rooted, [Next]_vars, prog' \in Executed
             PROVE  /\ Restarted'
                    /\ prevEdges' # None => execBlocks' \subseteq Reached'
                    /\ PhisCoverLiveEdges'
  BY DEF Rooted
<1>0. /\ TypeOK /\ TypeOK' /\ WorklistMirrored
      /\ (cur # 0 => cur \in execBlocks) /\ execBlocks \subseteq Blocks /\ Entry \in Blocks
  BY StepInv, ProgramFacts DEF Inv, TypeOK, Entry
<1>1. prog' = prog
  BY DEF Next, Pop, VisitPhi, VisitDef, VisitJump, VisitOther, LeaveBlock, NextRound, DropDeadBlocks, Rewrite, vars
<1>2. /\ prog \in Executed /\ Blocks' = Blocks /\ RoundsCover /\ Restarted /\ PhisCoverLiveEdges
      /\ prevEdges # None => execBlocks \subseteq Reached
  BY <1>1 DEF Rooted, Covered, Blocks
<1>3. Restarted'
  BY <1>2, StepRestarted
<1>4. PhisCoverLiveEdges'
  <2>1. CASE DropDeadBlocks
    BY <1>2, <2>1 DEF DropDeadBlocks, RoundsCover, PhisCoverLiveEdges, round
  <2>2. CASE Rewrite \/ UNCHANGED vars
    <3>1. Analysed' => Analysed
      BY <2>2 DEF Rewrite, vars, Analysed
    <3>2. UNCHANGED <<prog, lat, execEdges, execBlocks>>
      BY <2>2 DEF Rewrite, vars, round
    <3> QED
      BY <1>2, <3>1, <3>2 DEF PhisCoverLiveEdges
  <2>3. CASE Pop \/ VisitPhi \/ VisitDef \/ VisitJump \/ VisitOther \/ LeaveBlock \/ NextRound
    BY <2>3 DEF Pop, VisitPhi, VisitDef, VisitJump, VisitOther, LeaveBlock, NextRound, AtInst, Visiting, RoundOver,
                PhisCoverLiveEdges, Analysed
  <2> QED
    BY <2>1, <2>2, <2>3 DEF Next
<1>5. ASSUME prevEdges' # None PROVE execBlocks' \subseteq Reached'
  <2>1. CASE UNCHANGED <<execEdges, execBlocks, prevEdges>>
    <3>1. Reached \subseteq Reached'
      BY <1>1, <2>1, ReachedGrows
    <3> QED
      BY <1>2, <1>5, <2>1, <3>1
  <2>2. CASE Pop
    <3>1. cur' \in inBlockWl /\ prevEdges # None
      BY <1>0, <1>5, <2>2, HeadTailProperties DEF Pop, WorklistMirrored, TypeOK, Range
    <3>2. execBlocks' = execBlocks
      BY <1>2, <2>2, <3>1 DEF Pop, Restarted, Repeats
    <3> QED
      BY <2>1, <2>2, <3>2 DEF Pop
  <2>3. CASE VisitJump
    <3> DEFINE ts == LiveTargets(CurInst, lat)
    <3>1. /\ cur \in Blocks /\ cur \in execBlocks /\ CurInst.op \in JumpOps /\ AtInst
          /\ execEdges' = execEdges \cup {<<cur, t>> : t \in Range(ts)}
          /\ execBlocks' = execBlocks \cup Range(ts) /\ prevEdges' = prevEdges /\ cur' = cur
      BY <1>0, <2>3 DEF VisitJump, AtInst, Visiting
    <3>2. pc - Len(Phis) \in DOMAIN prog.insts[cur]
      BY <1>0, <3>1, Visited DEF AtInst
    <3>3. Range(ts) \subseteq Range(AllTargets(CurInst))
      BY <1>0, <3>1, <3>2, ProgramFacts, LiveAreTargets DEF CurInst
    <3>4. Range(ts) \subseteq Succs(prog, cur)
      BY <3>1, <3>2, <3>3 DEF CurInst, Succs
    <3> HIDE DEF ts
    <3>5. Reached \subseteq Reached'
      BY <1>1, <3>1, ReachedGrows
    <3>6. cur \in Reached'
      BY <1>2, <1>5, <3>1, <3>5
    <3>7. ASSUME NEW t \in Range(ts) PROVE t \in Reached'
      <4>1. Passes(cur, t)'
        BY <1>1, <3>1, <3>4 DEF Passes
      <4>2. t \in Blocks'
        BY <1>0, <3>1 DEF TypeOK
      <4>3. ASSUME NEW S \in SUBSET Blocks', ClosedUnder(S)' PROVE t \in S
        <5>1. cur \in S
          BY <3>6, <4>3 DEF Reached
        <5> QED
          BY <3>1, <4>1, <4>2, <4>3, <5>1 DEF ClosedUnder
      <4> QED
        BY <4>2, <4>3 DEF Reached
    <3> QED
      BY <1>2, <1>5, <3>1, <3>5, <3>7
  <2>4. CASE NextRound
    <3>1. execBlocks' = {Entry} /\ Entry \in Blocks'
      BY <1>0, <1>2, <2>4 DEF NextRound
    <3> QED
      BY <3>1 DEF Reached, ClosedUnder, Entry
  <2> QED
    BY <2>1, <2>2, <2>3, <2>4 DEF Next, VisitPhi, VisitDef, VisitOther, LeaveBlock, DropDeadBlocks, Rewrite, vars, round
<1> QED
  BY <1>3, <1>4, <1>5

(* What is read, assigned at the end of b and does not depend on a value on*)
(* entry is known to be something.                                         *)
Valued(b) ==
    \A v \in AssignedOnEntry(prog, b) \cup DefinedIn(prog, b) :
        v \in Read(prog) /\ v \notin FromEntry[prog] => lat[v] # Top

(* The least set that keeps dependents keeps them itself.                  *)
LEMMA FromEntryKeeps ==
    ASSUME TypeOK, prog \in Executed
    PROVE  KeepsDependents(prog, FromEntry[prog])
<1> DEFINE F    == FromEntry[prog]
           kept == {S \in SUBSET Vers : KeepsDependents(prog, S)}
<1>1. F = {v \in Vers : \A S \in kept : v \in S}
  BY DEF FromEntry
<1>2. \A S \in kept : F \subseteq S /\ KeepsDependents(prog, S)
  BY <1>1
<1> HIDE DEF F, kept
<1>3. LiveIns(prog) \subseteq F
  BY <1>1, <1>2 DEF KeepsDependents, LiveIns, Read
<1>4. ASSUME NEW b \in DOMAIN prog.insts, NEW k \in DOMAIN prog.phis[b],
             Range(prog.phis[b][k].in) \cap F # {}
      PROVE  prog.phis[b][k].dst \in F
  <2>1. prog.phis[b][k].dst \in Vers
    BY ProgramFacts DEF IsPhi, Blocks
  <2>2. \A S \in kept : prog.phis[b][k].dst \in S
    BY <1>2, <1>4 DEF KeepsDependents
  <2> QED
    BY <1>1, <2>1, <2>2
<1>5. ASSUME NEW b \in DOMAIN prog.insts, NEW k \in DOMAIN prog.insts[b],
             prog.insts[b][k].op \in DefOps \ {"load"}, Range(prog.insts[b][k].args) \cap F # {}
      PROVE  prog.insts[b][k].dst \in F
  <2>1. prog.insts[b][k].dst \in Vers
    BY <1>5, ProgramFacts DEF IsInst, Blocks
  <2>2. \A S \in kept : prog.insts[b][k].dst \in S
    BY <1>2, <1>5 DEF KeepsDependents
  <2> QED
    BY <1>1, <2>1, <2>2
<1>6. KeepsDependents(prog, F)
  BY <1>3, <1>4, <1>5 DEF KeepsDependents
<1> QED
  BY <1>6 DEF F

(* An instruction with no unknown operand has a value.                     *)
LEMMA EvalKnown ==
    ASSUME NEW l \in [Vers -> Lattice], NEW blocks, NEW i, IsInst(i, blocks), i.op \in DefOps,
           \A n \in DOMAIN i.args : SsaLattice(i.args[n], l) # Top
    PROVE  EvalInst(i, l) # Top
<1> DEFINE vals == [n \in DOMAIN i.args |-> SsaLattice(i.args[n], l)]
<1>1. EvalInst(i, l) = IF i.op = "load" THEN Over
                       ELSE IF Range(vals) \subseteq Int
                            THEN IF i.op \in Foldable THEN Fold(i.op, vals) ELSE Over
                       ELSE IF Over \in Range(vals) THEN Over ELSE Top
  BY DEF EvalInst
<1>2. Top \notin Int /\ Top # Over
  BY ConstantsAssumption
<1>3. ASSUME Range(vals) \subseteq Int, i.op \in Foldable PROVE Fold(i.op, vals) \in Int
  <2>1. DOMAIN vals = DOMAIN i.args /\ \A n \in DOMAIN vals : vals[n] \in Int
    BY <1>3 DEF Range
  <2> HIDE DEF vals
  <2> QED
    BY <1>3, <2>1, FoldType
<1>4. ASSUME ~(Range(vals) \subseteq Int) PROVE Over \in Range(vals)
  <2>1. PICK n \in DOMAIN i.args : vals[n] \notin Int
    BY <1>4 DEF Range
  <2>2. i.args[n] \in Operands
    BY ElementOfSeq, LenProperties DEF IsInst
  <2>3. SsaLattice(i.args[n], l) \in Lattice
    BY <2>2, SsaLatticeType
  <2>4. vals[n] = Over
    BY <2>1, <2>3 DEF Lattice
  <2> QED
    BY <2>4 DEF Range
<1> HIDE DEF vals
<1> QED
  BY <1>1, <1>2, <1>3, <1>4

(* A block that starts with all it reads known ends so.                    *)
LEMMA ValuedInside ==
    ASSUME TypeOK, Analysed, FixpointReached, prog \in Executed, NEW b \in execBlocks,
           \A v \in AssignedOnEntry(prog, b) \cup {prog.phis[b][j].dst : j \in DOMAIN prog.phis[b]} :
               v \in Read(prog) /\ v \notin FromEntry[prog] => lat[v] # Top
    PROVE  Valued(b)
<1> DEFINE Unknown == {k \in DOMAIN prog.insts[b] : /\ prog.insts[b][k].op \in DefOps
                                                   /\ lat[prog.insts[b][k].dst] = Top
                                                   /\ prog.insts[b][k].dst \notin FromEntry[prog]}
<1>a. KeepsDependents(prog, FromEntry[prog])
  BY FromEntryKeeps
<1>0. /\ b \in Blocks /\ lat \in [Vers -> Lattice] /\ DOMAIN prog.insts[b] \subseteq Nat
      /\ \A k \in DOMAIN prog.insts[b] : IsInst(prog.insts[b][k], Blocks)
  BY ProgramFacts DEF TypeOK
<1>1. Unknown = {}
  <2> SUFFICES ASSUME Unknown # {} PROVE FALSE
    OBVIOUS
  <2>1. PICK k \in Unknown : \A j \in Unknown : k <= j
    <3>1. Unknown \in SUBSET Nat
      BY <1>0
    <3> HIDE DEF Unknown
    <3> QED
      BY <3>1, LeastNat
  <2>2. /\ k \in DOMAIN prog.insts[b] /\ prog.insts[b][k].op \in DefOps /\ lat[prog.insts[b][k].dst] = Top
        /\ prog.insts[b][k].dst \notin FromEntry[prog]
    OBVIOUS
  <2>3. \A j \in DOMAIN prog.insts[b] :
          j < k /\ prog.insts[b][j].op \in DefOps /\ prog.insts[b][j].dst \notin FromEntry[prog]
            => lat[prog.insts[b][j].dst] # Top
    <3> SUFFICES ASSUME NEW j \in DOMAIN prog.insts[b], j < k, prog.insts[b][j].op \in DefOps,
                        prog.insts[b][j].dst \notin FromEntry[prog], lat[prog.insts[b][j].dst] = Top
                 PROVE  FALSE
      OBVIOUS
    <3>1. j \in Unknown /\ j \in Nat /\ k \in Nat
      BY <1>0
    <3>2. k <= j
      <4> HIDE DEF Unknown
      <4> QED
        BY <2>1, <3>1
    <3> QED
      BY <3>1, <3>2
  <2> HIDE DEF Unknown
  <2>4. ASSUME prog.insts[b][k].op # "load", NEW n \in DOMAIN prog.insts[b][k].args
        PROVE  SsaLattice(prog.insts[b][k].args[n], lat) # Top
    <3> DEFINE o == prog.insts[b][k].args[n]
    <3>1. CASE o \in Vers
      <4>1. o \in Range(prog.insts[b][k].args)
        BY DEF Range
      <4>2. o \in Read(prog)
        BY <1>0, <2>2, <3>1, <4>1, InstsRead DEF Blocks
      <4>3. o \notin FromEntry[prog]
        BY <1>0, <1>a, <2>2, <2>4, <4>1 DEF KeepsDependents, Blocks
      <4>4. o \in AssignedOnEntry(prog, b) \cup {prog.phis[b][j].dst : j \in DOMAIN prog.phis[b]}
                  \cup DefinedBefore(prog, b, k)
        BY <1>0, <2>2, <3>1, <4>1, StrictFacts
      <4>5. lat[o] # Top
        BY <2>3, <4>2, <4>3, <4>4 DEF DefinedBefore
      <4>6. o \notin Int
        BY <3>1, ConstantsAssumption
      <4> QED
        BY <3>1, <4>5, <4>6 DEF SsaLattice
    <3>2. CASE o \notin Vers
      BY <3>2, ConstantsAssumption DEF SsaLattice
    <3> QED
      BY <3>1, <3>2
  <2>5. EvalInst(prog.insts[b][k], lat) # Top
    <3>1. CASE prog.insts[b][k].op = "load"
      BY <3>1, ConstantsAssumption DEF EvalInst
    <3>2. CASE prog.insts[b][k].op # "load"
      BY <1>0, <2>2, <2>4, <3>2, EvalKnown
    <3> QED
      BY <3>1, <3>2
  <2>6. AtMost(EvalInst(prog.insts[b][k], lat), lat[prog.insts[b][k].dst])
    BY <2>2 DEF FixpointReached
  <2> QED
    BY <2>2, <2>5, <2>6, ConstantsAssumption DEF AtMost
<1> HIDE DEF Unknown
<1>2. ASSUME NEW v \in DefinedIn(prog, b), v \in Read(prog), v \notin FromEntry[prog] PROVE lat[v] # Top
  <2>1. CASE v \in {prog.phis[b][j].dst : j \in DOMAIN prog.phis[b]}
    BY <1>2, <2>1
  <2>2. CASE v \in DefinedBefore(prog, b, Len(prog.insts[b]) + 1)
    <3>1. PICK j \in DOMAIN prog.insts[b] : prog.insts[b][j].op \in DefOps /\ v = prog.insts[b][j].dst
      BY <2>2 DEF DefinedBefore
    <3> QED
      BY <1>1, <1>2, <3>1 DEF Unknown
  <2> QED
    BY <1>2, <2>1, <2>2 DEF DefinedIn
<1> QED
  BY <1>2 DEF Valued

(* An input of a phi that does not depend on a value on entry and was      *)
(* assigned where control comes from is known.                             *)
LEMMA InputValued ==
    ASSUME TypeOK, prog \in Executed, Restarted, prevEdges # None,
           NEW a, NEW b, <<a, b>> \in execEdges, Valued(a),
           NEW k \in DOMAIN prog.phis[b], prog.phis[b][k].in[a] \notin FromEntry[prog]
    PROVE  a \in DOMAIN prog.phis[b][k].in /\ lat[prog.phis[b][k].in[a]] # Top
<1>1. Passes(a, b) /\ a \in Blocks /\ b \in Blocks
  BY EdgesPass
<1>2. a \in Preds(prog, b)
  BY <1>1 DEF Passes, Preds, Blocks
<1>3. /\ a \in DOMAIN prog.phis[b][k].in
      /\ prog.phis[b][k].in[a] \in AssignedOnEntry(prog, a) \cup DefinedIn(prog, a)
  BY <1>1, <1>2, StrictFacts
<1>4. prog.phis[b][k].in[a] \in Vers /\ prog.phis[b][k].in[a] \in Range(prog.phis[b][k].in)
  BY <1>1, <1>3, ProgramFacts DEF IsPhi, Range
<1>5. prog.phis[b][k].in[a] \in Read(prog)
  BY <1>1, <1>4, PhisRead DEF Blocks
<1> QED
  BY <1>3, <1>5 DEF Valued

(* A phi with a known live input covers it.                                *)
LEMMA PhiCovers ==
    ASSUME NEW l \in [Vers -> Lattice], NEW E, NEW b, NEW p, NEW a \in DOMAIN p.in, <<a, b>> \in E,
           l[p.in[a]] # Top, l[p.in[a]] \in Lattice, NEW x \in Lattice, AtMost(EvalPhi(p, b, l, E), x)
    PROVE  x # Top /\ (x \in Int => l[p.in[a]] = x)
<1> DEFINE vals == {l[p.in[q]] : q \in {r \in DOMAIN p.in : <<r, b>> \in E}} \ {Top}
<1>1. l[p.in[a]] \in vals
  OBVIOUS
<1>2. EvalPhi(p, b, l, E) = IF \A y, z \in vals : y = z THEN CHOOSE y \in vals : TRUE ELSE Over
  BY <1>1 DEF EvalPhi
<1>3. Top \notin vals
  OBVIOUS
<1> HIDE DEF vals
<1>4. CASE \A y, z \in vals : y = z
  <2>1. EvalPhi(p, b, l, E) = l[p.in[a]]
    BY <1>1, <1>2, <1>4
  <2> QED
    BY <2>1, ConstantsAssumption DEF AtMost
<1>5. CASE ~ \A y, z \in vals : y = z
  <2>1. x = Over
    BY <1>2, <1>5, ConstantsAssumption DEF AtMost
  <2> QED
    BY <2>1, ConstantsAssumption
<1> QED
  BY <1>4, <1>5

LEMMA AllValued ==
    ASSUME Inv, Analysed, FixpointReached, Rooted, prog \in Executed, NEW b \in execBlocks
    PROVE  Valued(b)
<1> DEFINE S == {c \in execBlocks : Valued(c)}
<1>0. /\ TypeOK /\ Restarted /\ prevEdges # None /\ execBlocks \subseteq Reached /\ PhisCoverLiveEdges
      /\ execBlocks \subseteq Blocks /\ Entry \in execBlocks /\ execEdges \subseteq execBlocks \X execBlocks
      /\ lat \in [Vers -> Lattice]
  BY DEF Inv, TypeOK, Rooted, Restarted, EdgesJoinLiveBlocks
<1>1. Entry \in S
  <2>1. prog.phis[Entry] = <<>>
    BY StrictFacts
  <2>2. AssignedOnEntry(prog, Entry) = LiveIns(prog)
    BY DEF AssignedOnEntry
  <2>3. {prog.phis[Entry][j].dst : j \in DOMAIN prog.phis[Entry]} = {}
    BY <2>1
  <2>4. LiveIns(prog) \subseteq FromEntry[prog]
    BY <1>0, FromEntryKeeps DEF KeepsDependents
  <2>5. Valued(Entry)
    BY <1>0, <2>2, <2>3, <2>4, ValuedInside
  <2> QED
    BY <1>0, <2>5
<1>2. ASSUME NEW c \in S, NEW t \in Blocks, Passes(c, t) PROVE t \in S
  <2>1. Valued(c) /\ <<c, t>> \in execEdges /\ t \in Succs(prog, c) /\ t \in execBlocks /\ c \in Blocks
    BY <1>0, <1>2 DEF Passes
  <2>2. AssignedOnEntry(prog, t) \subseteq AssignedOnEntry(prog, c) \cup DefinedIn(prog, c)
    BY <2>1, AssignedAcross DEF Blocks
  <2>3. ASSUME NEW j \in DOMAIN prog.phis[t], prog.phis[t][j].dst \notin FromEntry[prog]
        PROVE  lat[prog.phis[t][j].dst] # Top
    <3>0. c \in DOMAIN prog.phis[t][j].in /\ prog.phis[t][j].in[c] \notin FromEntry[prog]
      <4>1. c \in Preds(prog, t)
        BY <2>1 DEF Preds, Blocks
      <4>2. c \in DOMAIN prog.phis[t][j].in
        BY <1>0, <2>1, <4>1, StrictFacts
      <4>3. prog.phis[t][j].in[c] \in Range(prog.phis[t][j].in)
        BY <4>2 DEF Range
      <4>4. KeepsDependents(prog, FromEntry[prog])
        BY <1>0, FromEntryKeeps
      <4> QED
        BY <2>1, <2>3, <4>2, <4>3, <4>4 DEF KeepsDependents, Blocks
    <3>1. c \in DOMAIN prog.phis[t][j].in /\ lat[prog.phis[t][j].in[c]] # Top
      BY <1>0, <2>1, <3>0, InputValued
    <3>2. IsPhi(prog.phis[t][j], Blocks)
      BY <1>0, ProgramFacts
    <3>3. AtMost(EvalPhi(prog.phis[t][j], t, lat, execEdges), lat[prog.phis[t][j].dst])
      BY <1>0, <2>1 DEF PhisCoverLiveEdges
    <3>4. lat[prog.phis[t][j].in[c]] \in Lattice /\ lat[prog.phis[t][j].dst] \in Lattice
      BY <1>0, <3>1, <3>2 DEF IsPhi
    <3> QED
      BY <1>0, <2>1, <3>1, <3>3, <3>4, PhiCovers
  <2>4. Valued(t)
    <3>1. \A v \in AssignedOnEntry(prog, t) \cup {prog.phis[t][j].dst : j \in DOMAIN prog.phis[t]} :
             v \in Read(prog) /\ v \notin FromEntry[prog] => lat[v] # Top
      BY <2>1, <2>2, <2>3 DEF Valued
    <3> QED
      BY <1>0, <2>1, <3>1, ValuedInside
  <2> QED
    BY <2>1, <2>4
<1>3. ClosedUnder(S) /\ S \in SUBSET Blocks
  BY <1>0, <1>1, <1>2 DEF ClosedUnder
<1> HIDE DEF S
<1>4. b \in S
  BY <1>0, <1>3 DEF Reached
<1> QED
  BY <1>4 DEF S

LEMMA JoinsDoAgree ==
    Inv /\ FixpointReached /\ Rooted /\ EntryApart => JoinsAgree
<1> SUFFICES ASSUME Inv, FixpointReached, Rooted, EntryApart, phase = "done", prog \in Executed,
                    NEW b \in execBlocks, NEW k \in DOMAIN prog.phis[b],
                    prog.phis[b][k].dst \in Read(prog), lat[prog.phis[b][k].dst] \in Int,
                    NEW q \in DOMAIN prog.phis[b][k].in, <<q, b>> \in execEdges
             PROVE  lat[prog.phis[b][k].in[q]] = lat[prog.phis[b][k].dst]
  BY DEF JoinsAgree
<1>1. /\ TypeOK /\ Analysed /\ Restarted /\ prevEdges # None /\ PhisCoverLiveEdges
      /\ b \in Blocks /\ q \in execBlocks /\ lat \in [Vers -> Lattice]
  BY DEF Inv, TypeOK, Rooted, Restarted, EdgesJoinLiveBlocks, Analysed
<1>2. Valued(q)
  BY <1>1, AllValued
<1>a. prog.phis[b][k].in[q] \notin FromEntry[prog]
  BY DEF EntryApart, LiveInputs
<1>3. lat[prog.phis[b][k].in[q]] # Top
  BY <1>1, <1>2, <1>a, InputValued
<1>4. IsPhi(prog.phis[b][k], Blocks)
  BY <1>1, ProgramFacts
<1>5. lat[prog.phis[b][k].in[q]] \in Lattice /\ lat[prog.phis[b][k].dst] \in Lattice
  BY <1>1, <1>4 DEF IsPhi
<1>6. AtMost(EvalPhi(prog.phis[b][k], b, lat, execEdges), lat[prog.phis[b][k].dst])
  BY <1>1 DEF PhisCoverLiveEdges
<1> QED
  BY <1>1, <1>3, <1>5, <1>6, PhiCovers

-----------------------------------------------------------------------------
(* What is read is still defined                                           *)

(* A phi that reads along the executable edges what another one does.      *)
SameLive(p, o, b) ==
    /\ o.dst = p.dst /\ DOMAIN o.in = DOMAIN p.in
    /\ \A q \in DOMAIN p.in : <<q, b>> \in execEdges => o.in[q] = p.in[q]

LivePhis ==
    \A b \in execBlocks : \A k \in DOMAIN out.phis[b] : \E j \in DOMAIN prog.phis[b] :
        SameLive(prog.phis[b][j], out.phis[b][k], b)

(* When no live phi reads a phi that is removed, the live inputs stay, so  *)
(* that what collapses does so in the first pass, and every use keeps its  *)
(* definition.                                                             *)
Lasting ==
    Analysed /\ prog \in Executed /\ Apart =>
        LivePhis /\ Used(out) \cap Defined(prog) \subseteq Defined(out)

LEMMA SameLiveFacts ==
    ASSUME NEW p, NEW o, NEW b, SameLive(p, o, b)
    PROVE  /\ LiveInputs(o, b) = LiveInputs(p, b)
           /\ Survivors(o, b, lat, execEdges) = Survivors(p, b, lat, execEdges)
           /\ Collapses(o, b, lat, execEdges) <=> Collapses(p, b, lat, execEdges)
<1>1. {r \in DOMAIN o.in : <<r, b>> \in execEdges} = {r \in DOMAIN p.in : <<r, b>> \in execEdges}
  BY DEF SameLive
<1>2. \A q \in {r \in DOMAIN p.in : <<r, b>> \in execEdges} : o.in[q] = p.in[q]
  BY DEF SameLive
<1>3. Survivors(o, b, lat, execEdges) = Survivors(p, b, lat, execEdges)
  BY <1>1, <1>2 DEF Survivors
<1>4. LiveInputs(o, b) = LiveInputs(p, b)
  BY <1>1, <1>2 DEF LiveInputs
<1> QED
  BY <1>3, <1>4 DEF Collapses

(* A phi of the rewritten function defines what a phi of the original one  *)
(* does.                                                                   *)
LEMMA JoinedBefore ==
    ASSUME TypeOK, prog \in Executed, Rewritten, Analysed
    PROVE  /\ Joined(out) \subseteq Joined(prog)
           /\ \A w \in Joined(prog) : \E b \in Blocks : \E k \in DOMAIN prog.phis[b] : prog.phis[b][k].dst = w
           /\ \A w \in Joined(out) : \E b \in execBlocks : \E k \in DOMAIN out.phis[b] : out.phis[b][k].dst = w
           /\ \A b \in execBlocks : \A k \in DOMAIN out.phis[b] : out.phis[b][k].dst \in Joined(out)
<1>1. \A w \in Joined(out) : \E b \in execBlocks : \E k \in DOMAIN out.phis[b] : out.phis[b][k].dst = w
  BY DEF Joined, Rewritten
<1>2. \A w \in Joined(prog) : \E b \in Blocks : \E k \in DOMAIN prog.phis[b] : prog.phis[b][k].dst = w
  BY DEF Joined, Blocks
<1>3. ASSUME NEW b \in execBlocks, NEW k \in DOMAIN out.phis[b] PROVE out.phis[b][k].dst \in Joined(prog)
  <2>1. PICK j \in DOMAIN prog.phis[b] : CopiedPhi(prog.phis[b][j], out.phis[b][k])
    BY DEF Rewritten
  <2>2. b \in Blocks /\ out.phis[b][k].dst = prog.phis[b][j].dst
    BY <2>1 DEF TypeOK, CopiedPhi
  <2> QED
    BY <2>2 DEF Joined, Blocks
<1>4. \A b \in execBlocks : \A k \in DOMAIN out.phis[b] : out.phis[b][k].dst \in Joined(out)
  BY DEF Joined, Rewritten
<1> QED
  BY <1>1, <1>2, <1>3, <1>4

(* The phis of the rewritten function after a pass.                        *)
LEMMA PassStays ==
    ASSUME TypeOK, Derived, prog \in Executed, Rewritten, Analysed, out' = RewritePass(out, lat, execEdges)
    PROVE  /\ \A w \in Joined(out') : \E b \in execBlocks : \E n \in DOMAIN out.phis[b] :
                out.phis[b][n].dst = w /\ ~ Collapses(out.phis[b][n], b, lat, execEdges)
           /\ \A b \in execBlocks : \A n \in DOMAIN out.phis[b] :
                ~ Collapses(out.phis[b][n], b, lat, execEdges) => out.phis[b][n].dst \in Joined(out')
           /\ Joined(out') \subseteq Joined(out)
<1>1. /\ DOMAIN out'.insts = execBlocks
      /\ \A b \in execBlocks : \A k \in DOMAIN out'.phis[b] : \E n \in DOMAIN out.phis[b] :
           ~ Collapses(out.phis[b][n], b, lat, execEdges) /\ out'.phis[b][k] = PassPhi(out.phis[b][n])
      /\ \A b \in execBlocks : \A n \in DOMAIN out.phis[b] : ~ Collapses(out.phis[b][n], b, lat, execEdges) =>
           \E k \in DOMAIN out'.phis[b] : out'.phis[b][k] = PassPhi(out.phis[b][n])
  BY PassShape DEF Derived
<1>2. \A b \in execBlocks : \A n \in DOMAIN out.phis[b] : PassPhi(out.phis[b][n]).dst = out.phis[b][n].dst
  BY DEF Rewritten, CopiedPhi, PassPhi
<1>3. ASSUME NEW w \in Joined(out')
      PROVE  \E b \in execBlocks : \E n \in DOMAIN out.phis[b] :
                out.phis[b][n].dst = w /\ ~ Collapses(out.phis[b][n], b, lat, execEdges)
  <2>1. PICK b \in execBlocks : w \in {out'.phis[b][k].dst : k \in DOMAIN out'.phis[b]}
    BY <1>1 DEF Joined
  <2> QED
    BY <1>1, <1>2, <2>1
<1>4. ASSUME NEW b \in execBlocks, NEW n \in DOMAIN out.phis[b], ~ Collapses(out.phis[b][n], b, lat, execEdges)
      PROVE  out.phis[b][n].dst \in Joined(out')
  <2>1. PICK k \in DOMAIN out'.phis[b] : out'.phis[b][k].dst = out.phis[b][n].dst
    BY <1>1, <1>2, <1>4
  <2> QED
    BY <1>1, <2>1 DEF Joined
<1> QED
  BY <1>3, <1>4, JoinedBefore

(* A phi that collapses is gone after the pass, and another stays.         *)
LEMMA PassJoined ==
    ASSUME TypeOK, Derived, prog \in Executed, Rewritten, Analysed, LivePhis, out' = RewritePass(out, lat, execEdges),
           NEW w \in Joined(out)
    PROVE  w \in Joined(out') <=> w \notin DOMAIN PhiValue(out, lat, execEdges)
<1>1. ASSUME NEW b \in execBlocks, NEW n \in DOMAIN out.phis[b], NEW c \in execBlocks, NEW m \in DOMAIN out.phis[c],
             out.phis[b][n].dst = out.phis[c][m].dst, Collapses(out.phis[b][n], b, lat, execEdges)
      PROVE  Collapses(out.phis[c][m], c, lat, execEdges)
  <2>1. PICK j \in DOMAIN prog.phis[b] : SameLive(prog.phis[b][j], out.phis[b][n], b)
    BY DEF LivePhis
  <2>2. PICK i \in DOMAIN prog.phis[c] : SameLive(prog.phis[c][i], out.phis[c][m], c)
    BY DEF LivePhis
  <2>3. prog.phis[b][j].dst = prog.phis[c][i].dst /\ b \in Blocks /\ c \in Blocks
    BY <1>1, <2>1, <2>2 DEF SameLive, TypeOK
  <2>4. b = c /\ j = i
    BY <2>3, OnePhi
  <2> QED
    BY <1>1, <2>1, <2>2, <2>4, SameLiveFacts
<1>2. ASSUME w \in Joined(out'), w \in DOMAIN PhiValue(out, lat, execEdges) PROVE FALSE
  <2>1. \E b \in execBlocks : \E n \in DOMAIN out.phis[b] :
            out.phis[b][n].dst = w /\ ~ Collapses(out.phis[b][n], b, lat, execEdges)
    BY <1>2, PassStays
  <2>2. \E c \in execBlocks : \E m \in DOMAIN out.phis[c] :
            out.phis[c][m].dst = w /\ Collapses(out.phis[c][m], c, lat, execEdges)
    BY <1>2, PhiValueFacts
  <2> QED
    BY <1>1, <2>1, <2>2
<1>3. ASSUME w \notin DOMAIN PhiValue(out, lat, execEdges) PROVE w \in Joined(out')
  <2>1. PICK b \in execBlocks : \E n \in DOMAIN out.phis[b] : out.phis[b][n].dst = w
    BY JoinedBefore
  <2>2. PICK n \in DOMAIN out.phis[b] : out.phis[b][n].dst = w
    BY <2>1
  <2> QED
    BY <1>3, <2>2, PhiValueFacts, PassStays
<1> QED
  BY <1>2, <1>3

(* A pass takes no input from a live phi.                                  *)
LEMMA PassLivePhis ==
    ASSUME TypeOK, Derived, prog \in Executed, Rewritten, Analysed, LivePhis, out' = RewritePass(out, lat, execEdges),
           UNCHANGED <<prog, execEdges, execBlocks>>, Apart'
    PROVE  \A b \in execBlocks : \A k \in DOMAIN out'.phis[b] :
             \E n \in DOMAIN out.phis[b], j \in DOMAIN prog.phis[b] :
                SameLive(prog.phis[b][j], out.phis[b][n], b) /\ SameLive(prog.phis[b][j], out'.phis[b][k], b)
<1> DEFINE values == PhiValue(out, lat, execEdges)
<1>1. ASSUME NEW b \in execBlocks, NEW k \in DOMAIN out'.phis[b]
      PROVE  \E n \in DOMAIN out.phis[b], j \in DOMAIN prog.phis[b] :
                SameLive(prog.phis[b][j], out.phis[b][n], b) /\ SameLive(prog.phis[b][j], out'.phis[b][k], b)
  <2>1. PICK n \in DOMAIN out.phis[b] : out'.phis[b][k] = PassPhi(out.phis[b][n])
    BY PassShape
  <2> DEFINE o == out.phis[b][n]
  <2>2. PICK j \in DOMAIN prog.phis[b] : SameLive(prog.phis[b][j], o, b)
    BY DEF LivePhis
  <2> DEFINE p == prog.phis[b][j]
  <2>3. DOMAIN o = {"dst", "in"} /\ b \in Blocks
    BY DEF Rewritten, CopiedPhi, TypeOK
  <2>4. /\ PassPhi(o).dst = p.dst /\ DOMAIN PassPhi(o).in = DOMAIN p.in
        /\ \A q \in DOMAIN p.in : PassPhi(o).in[q] = ReplaceInput(o.in[q], values, lat)
    BY <2>2, <2>3 DEF PassPhi, SameLive
  <2>5. ASSUME NEW q \in DOMAIN p.in, <<q, b>> \in execEdges PROVE PassPhi(o).in[q] = p.in[q]
    <3> DEFINE v == p.in[q]
    <3>1. v \in Vers /\ v \notin Int
      BY <2>3, ProgramFacts, ConstantsAssumption DEF IsPhi
    <3>2. o.in[q] = v /\ v \in LiveInputs(p, b)
      BY <2>2, <2>5 DEF SameLive, LiveInputs
    <3>3. v \notin DOMAIN values
      <4> SUFFICES ASSUME v \in DOMAIN values PROVE FALSE
        OBVIOUS
      <4>1. v \in Joined(out)
        <5>1. \E c \in execBlocks : \E m \in DOMAIN out.phis[c] : out.phis[c][m].dst = v
          BY PhiValueFacts
        <5> QED
          BY <5>1, JoinedBefore
      <4>2. v \in Joined(prog)
        BY <4>1, JoinedBefore
      <4>3. v \in Joined(out')
        BY <3>2, <4>2 DEF Apart, LiveInputs
      <4> QED
        BY <4>1, <4>3, PassJoined
    <3>4. ReplaceInput(v, values, lat) = v
      BY <3>1, <3>3, ConstantsAssumption DEF ReplaceInput, Replace, SubstituteVal
    <3> QED
      BY <2>4, <3>2, <3>4
  <2> HIDE DEF p, o
  <2>6. SameLive(p, PassPhi(o), b)
    BY <2>4, <2>5 DEF SameLive
  <2> QED
    BY <2>1, <2>2, <2>6 DEF p, o
<1> QED
  BY <1>1

(* Instructions keep what they define.                                     *)
LEMMA PassInsts ==
    ASSUME TypeOK, prog \in Executed, Rewritten, Analysed, out' = RewritePass(out, lat, execEdges),
           NEW b \in execBlocks, NEW k \in DOMAIN out.insts[b]
    PROVE  /\ DOMAIN out'.insts = execBlocks
           /\ k \in DOMAIN out'.insts[b]
           /\ out.insts[b][k].dst \in Vers => out'.insts[b][k].dst = out.insts[b][k].dst
           /\ Range(out'.insts[b][k].args) \subseteq
                {Replace(x, PhiValue(out, lat, execEdges), lat) : x \in Range(out.insts[b][k].args)}
<1> DEFINE o    == out.insts[b][k]
           i    == prog.insts[b][k]
           args == [n \in DOMAIN o.args |-> Replace(o.args[n], PhiValue(out, lat, execEdges), lat)]
           r    == [o EXCEPT !.args = args]
<1>1. /\ DOMAIN out'.insts = execBlocks
      /\ k \in DOMAIN out'.insts[b] /\ out'.insts[b][k] = PassInst(o)
  BY PassShape
<1>2. b \in Blocks /\ k \in DOMAIN prog.insts[b] /\ CopiedInst(i, o)
  BY DEF Rewritten, TypeOK
<1>3. IsInst(i, Blocks)
  BY <1>2, ProgramFacts
<1>4. DOMAIN o = InstFields /\ (o.op = "cbr" => o.dst \notin Vers)
  BY <1>2, <1>3 DEF CopiedInst, IsInst, DefOps, PureOps
<1>5. r.op = o.op /\ r.dst = o.dst /\ r.args = args
  BY <1>4 DEF InstFields
<1>6. PassInst(o) = FoldBranch(r)
  BY DEF PassInst
<1>7. Range(args) \subseteq {Replace(x, PhiValue(out, lat, execEdges), lat) : x \in Range(o.args)}
  BY DEF Range
<1> HIDE DEF r, args
<1>8. CASE r.op = "cbr" /\ r.args[1] \in Int
  <2>1. FoldBranch(r) = Inst("br", None, <<>>, <<>>, <<r.to[IF r.args[1] # 0 THEN 1 ELSE 2]>>)
    BY <1>8 DEF FoldBranch
  <2>2. FoldBranch(r).args = <<>>
    BY <2>1 DEF Inst
  <2> QED
    BY <1>1, <1>4, <1>5, <1>6, <1>8, <2>2 DEF Range
<1>9. CASE ~(r.op = "cbr" /\ r.args[1] \in Int)
  BY <1>1, <1>5, <1>6, <1>7, <1>9 DEF FoldBranch
<1> QED
  BY <1>8, <1>9

(* What is read after a pass is still defined.                             *)
LEMMA PassUsed ==
    ASSUME TypeOK, Derived, prog \in Executed, Rewritten, Analysed, LivePhis,
           Used(out) \cap Defined(prog) \subseteq Defined(out),
           out' = RewritePass(out, lat, execEdges), UNCHANGED <<prog, execEdges, execBlocks>>, Apart',
           NEW w \in Used(out'), w \in Defined(prog)
    PROVE  w \in Defined(out')
<1> DEFINE values == PhiValue(out, lat, execEdges)
<1>0. /\ w \in Vers /\ w \notin Int
      /\ DOMAIN out.insts = execBlocks /\ DOMAIN out'.insts = execBlocks /\ execBlocks \subseteq Blocks
      /\ Joined(out) \subseteq Joined(prog)
  BY PassShape, JoinedBefore, ConstantsAssumption DEF Used, Derived, TypeOK
<1>1. ASSUME w \in Defined(out), w \in Joined(out) => w \in Joined(out')
      PROVE  w \in Defined(out')
  <2>1. CASE w \in Joined(out)
    BY <1>1, <2>1 DEF Joined, Defined
  <2>2. CASE w \notin Joined(out)
    <3>1. PICK b \in execBlocks : w \in {out.insts[b][k].dst : k \in DOMAIN out.insts[b]}
      BY <1>0, <1>1, <2>2 DEF Joined, Defined
    <3>2. PICK k \in DOMAIN out.insts[b] : out.insts[b][k].dst = w
      BY <3>1
    <3>3. k \in DOMAIN out'.insts[b] /\ out'.insts[b][k].dst = w
      BY <1>0, <3>2, PassInsts
    <3> QED
      BY <1>0, <3>3 DEF Defined
  <2> QED
    BY <2>1, <2>2
<1>2. ASSUME NEW b \in execBlocks, NEW n \in DOMAIN out.phis[b], w \in LiveInputs(out.phis[b][n], b)
      PROVE  w \in Defined(out')
  <2>1. w \in Defined(out)
    BY <1>0, <1>2, PhisUsed
  <2>2. PICK j \in DOMAIN prog.phis[b] : SameLive(prog.phis[b][j], out.phis[b][n], b)
    BY DEF LivePhis
  <2>3. w \in LiveInputs(prog.phis[b][j], b)
    BY <1>2, <2>2, SameLiveFacts
  <2>4. w \in Joined(prog) => w \in Joined(out')
    BY <2>3 DEF Apart, LiveInputs
  <2> QED
    BY <1>0, <1>1, <2>1, <2>4
<1>3. PICK b \in execBlocks : \/ \E k \in DOMAIN out'.phis[b] : w \in LiveInputs(out'.phis[b][k], b)
                              \/ \E k \in DOMAIN out'.insts[b] : w \in Range(out'.insts[b][k].args)
  BY <1>0 DEF Used
<1>4. CASE \E k \in DOMAIN out'.phis[b] : w \in LiveInputs(out'.phis[b][k], b)
  <2>1. PICK k \in DOMAIN out'.phis[b] : w \in LiveInputs(out'.phis[b][k], b)
    BY <1>4
  <2>2. PICK n \in DOMAIN out.phis[b], j \in DOMAIN prog.phis[b] :
            SameLive(prog.phis[b][j], out.phis[b][n], b) /\ SameLive(prog.phis[b][j], out'.phis[b][k], b)
    BY PassLivePhis
  <2>3. w \in LiveInputs(out.phis[b][n], b)
    BY <2>1, <2>2, SameLiveFacts
  <2> QED
    BY <1>2, <2>3
<1>5. CASE \E k \in DOMAIN out'.insts[b] : w \in Range(out'.insts[b][k].args)
  <2>1. PICK k \in DOMAIN out'.insts[b] : w \in Range(out'.insts[b][k].args)
    BY <1>5
  <2>2. k \in DOMAIN out.insts[b]
    BY PassShape
  <2>3. PICK x \in Range(out.insts[b][k].args) : w = Replace(x, values, lat)
    BY <2>1, <2>2, PassInsts
  <2>4. CASE x \notin DOMAIN values
    <3>1. w = x
      BY <1>0, <2>3, <2>4 DEF Replace, SubstituteVal
    <3>2. w \in Used(out)
      BY <1>0, <2>2, <2>3, <3>1 DEF Used
    <3>3. w \in Joined(out) => w \in Joined(out')
      BY <2>4, <3>1, PassJoined
    <3> QED
      BY <1>1, <3>2, <3>3
  <2>5. CASE x \in DOMAIN values
    <3>1. PICK c \in execBlocks : \E m \in DOMAIN out.phis[c] : values[x] \in Survivors(out.phis[c][m], c, lat, execEdges)
      BY <2>5, PhiValueFacts
    <3>2. PICK m \in DOMAIN out.phis[c] : values[x] \in Survivors(out.phis[c][m], c, lat, execEdges)
      BY <3>1
    <3>3. w = values[x]
      BY <2>3, <2>5 DEF Replace
    <3>4. PICK q \in DOMAIN out.phis[c][m].in : <<q, c>> \in execEdges /\ w = SubstituteVal(out.phis[c][m].in[q], lat)
      BY <3>2, <3>3 DEF Survivors
    <3>5. w = out.phis[c][m].in[q]
      BY <1>0, <3>4 DEF SubstituteVal
    <3>6. w \in LiveInputs(out.phis[c][m], c)
      BY <3>4, <3>5 DEF LiveInputs
    <3> QED
      BY <1>2, <3>6
  <2> QED
    BY <2>4, <2>5
<1> QED
  BY <1>3, <1>4, <1>5

(* What every path to a live block assigns, a live block assigns.          *)
LEMMA DefinedLive ==
    ASSUME TypeOK, EdgesJoinLiveBlocks, Entry \in execBlocks, NEW b \in Reached,
           NEW w \in AssignedOnEntry(prog, b), w \in Defined(prog)
    PROVE  \E c \in execBlocks : w \in DefinedIn(prog, c)
<1> SUFFICES ASSUME \A c \in execBlocks : w \notin DefinedIn(prog, c) PROVE FALSE
  OBVIOUS
<1>1. PICK S \in SUBSET Blocks :
          /\ Entry \in S /\ b \notin S
          /\ \A a \in S : w \in DefinedIn(prog, a) \/ Succs(prog, a) \subseteq S
  BY DEF AssignedOnEntry, LiveIns, Blocks
<1>2. ClosedUnder(S \cap execBlocks) /\ S \cap execBlocks \in SUBSET Blocks
  BY <1>1 DEF ClosedUnder, Passes, EdgesJoinLiveBlocks
<1> QED
  BY <1>1, <1>2 DEF Reached

(* What the live blocks read they define.                                  *)
LEMMA LiveUses ==
    ASSUME Inv, Rooted, Restarted, prog \in Executed, prevEdges # None,
           NEW o, o = Restricted(prog, execBlocks), NEW w \in Used(o), w \in Defined(prog)
    PROVE  w \in Defined(o)
<1>0. /\ TypeOK /\ EdgesJoinLiveBlocks /\ Entry \in execBlocks /\ execBlocks \subseteq Blocks
      /\ execBlocks \subseteq Reached
      /\ execEdges \subseteq execBlocks \X execBlocks
  BY DEF Inv, TypeOK, Rooted, Restarted, EdgesJoinLiveBlocks
<1>1. /\ DOMAIN o.insts = execBlocks
      /\ \A b \in execBlocks : o.insts[b] = prog.insts[b] /\ o.phis[b] = prog.phis[b]
  BY DEF Restricted
<1>2. ASSUME NEW b \in execBlocks, w \in DefinedIn(prog, b) PROVE w \in Defined(o)
  <2>1. w \in {prog.phis[b][k].dst : k \in DOMAIN prog.phis[b]} \cup {prog.insts[b][k].dst : k \in DOMAIN prog.insts[b]}
    BY <1>2 DEF DefinedIn, DefinedBefore
  <2> QED
    BY <1>1, <2>1 DEF Defined
<1>3. ASSUME NEW b \in execBlocks, w \in AssignedOnEntry(prog, b) PROVE w \in Defined(o)
  BY <1>0, <1>2, <1>3, DefinedLive
<1>4. w \in Vers
  BY DEF Used
<1>5. PICK b \in execBlocks : \/ \E k \in DOMAIN prog.phis[b] : w \in LiveInputs(prog.phis[b][k], b)
                              \/ \E k \in DOMAIN prog.insts[b] : w \in Range(prog.insts[b][k].args)
  BY <1>1 DEF Used
<1>6. CASE \E k \in DOMAIN prog.phis[b] : w \in LiveInputs(prog.phis[b][k], b)
  <2>1. PICK k \in DOMAIN prog.phis[b] : w \in LiveInputs(prog.phis[b][k], b)
    BY <1>6
  <2>2. PICK q \in DOMAIN prog.phis[b][k].in : <<q, b>> \in execEdges /\ w = prog.phis[b][k].in[q]
    BY <2>1 DEF LiveInputs
  <2>3. q \in execBlocks /\ q \in Blocks /\ b \in Blocks /\ Passes(q, b)
    BY <1>0, <2>2, EdgesPass
  <2>4. q \in Preds(prog, b)
    BY <2>3 DEF Passes, Preds, Blocks
  <2>5. w \in AssignedOnEntry(prog, q) \cup DefinedIn(prog, q)
    BY <2>2, <2>3, <2>4, StrictFacts
  <2> QED
    BY <1>2, <1>3, <2>3, <2>5
<1>7. CASE \E k \in DOMAIN prog.insts[b] : w \in Range(prog.insts[b][k].args)
  <2>1. PICK k \in DOMAIN prog.insts[b] : w \in Range(prog.insts[b][k].args)
    BY <1>7
  <2>2. w \in AssignedOnEntry(prog, b) \cup {prog.phis[b][j].dst : j \in DOMAIN prog.phis[b]} \cup DefinedBefore(prog, b, k)
    BY <1>0, <1>4, <2>1, StrictFacts
  <2>3. DefinedBefore(prog, b, k) \subseteq DefinedIn(prog, b)
    BY <1>0, ProgramFacts DEF DefinedIn, DefinedBefore
  <2>4. {prog.phis[b][j].dst : j \in DOMAIN prog.phis[b]} \subseteq DefinedIn(prog, b)
    BY DEF DefinedIn
  <2> QED
    BY <1>2, <1>3, <2>2, <2>3, <2>4
<1> QED
  BY <1>5, <1>6, <1>7

LEMMA StepLasting == Inv /\ Derived /\ Rooted /\ Rewritten /\ Lasting /\ [Next]_vars => Lasting'
<1> SUFFICES ASSUME Inv, Derived, Rooted, Rewritten, Lasting, [Next]_vars, Analysed', prog' \in Executed, Apart'
             PROVE  LivePhis' /\ (Used(out) \cap Defined(prog) \subseteq Defined(out))'
  BY DEF Lasting
<1>0. TypeOK
  BY DEF Inv
<1>1. CASE Pop \/ VisitPhi \/ VisitDef \/ VisitJump \/ VisitOther \/ LeaveBlock \/ NextRound
  BY <1>1 DEF Pop, VisitPhi, VisitDef, VisitJump, VisitOther, LeaveBlock, NextRound, AtInst, Visiting, RoundOver,
              Analysed
<1>2. CASE DropDeadBlocks
  <2>1. /\ UNCHANGED <<prog, lat, execEdges, execBlocks>> /\ out' = Restricted(prog, execBlocks)
        /\ prevEdges # None /\ prog \in Executed /\ Restarted
    BY <1>0, <1>2, EdgesCounted DEF DropDeadBlocks, round, Rooted
  <2>2. \A b \in execBlocks : out'.phis[b] = prog.phis[b]
    BY <2>1 DEF Restricted
  <2>3. LivePhis'
    BY <2>1, <2>2 DEF LivePhis, SameLive
  <2>4. \A w \in Used(out') : w \in Defined(prog) => w \in Defined(out')
    BY <2>1, LiveUses
  <2>5. Used(out)' = Used(out')
    BY <2>1 DEF Used, LiveInputs
  <2>6. Defined(prog)' = Defined(prog)
    BY <2>1
  <2> QED
    BY <2>3, <2>4, <2>5, <2>6
<1>3. CASE Rewrite
  <2>1. /\ UNCHANGED <<prog, lat, execEdges, execBlocks>> /\ out' = RewritePass(out, lat, execEdges) /\ Analysed
        /\ prog \in Executed
    BY <1>3 DEF Rewrite, round, Analysed
  <2>2. Joined(out') \subseteq Joined(out)
    BY <1>0, <2>1, PassStays
  <2>3. Apart
    BY <2>1, <2>2 DEF Apart, LiveInputs
  <2>4. LivePhis /\ Used(out) \cap Defined(prog) \subseteq Defined(out)
    BY <2>1, <2>3 DEF Lasting
  <2>5. \A b \in execBlocks : \A k \in DOMAIN out'.phis[b] :
             \E n \in DOMAIN out.phis[b], j \in DOMAIN prog.phis[b] :
                SameLive(prog.phis[b][j], out.phis[b][n], b) /\ SameLive(prog.phis[b][j], out'.phis[b][k], b)
    BY <1>0, <2>1, <2>4, PassLivePhis
  <2>6. LivePhis'
    BY <2>1, <2>5 DEF LivePhis, SameLive
  <2>7. \A w \in Used(out') : w \in Defined(prog) => w \in Defined(out')
    BY <1>0, <2>1, <2>4, PassUsed
  <2>8. Used(out)' = Used(out') /\ Defined(prog)' = Defined(prog)
    BY <2>1 DEF Used, LiveInputs
  <2> QED
    BY <2>6, <2>7, <2>8
<1>4. CASE UNCHANGED vars
  <2>1. UNCHANGED <<prog, lat, execEdges, execBlocks, out, phase>>
    BY <1>4 DEF vars, round
  <2>2. Analysed /\ prog \in Executed /\ Apart
    BY <2>1 DEF Analysed, Apart, LiveInputs
  <2>3. LivePhis /\ Used(out) \cap Defined(prog) \subseteq Defined(out)
    BY <2>2 DEF Lasting
  <2>4. Used(out)' = Used(out)
    BY <2>1 DEF Used, LiveInputs
  <2> QED
    BY <2>1, <2>3, <2>4 DEF LivePhis, SameLive
<1> QED
  BY <1>1, <1>2, <1>3, <1>4 DEF Next

LEMMA NothingLost == RemovedApart /\ Lasting => NothingDangles
BY DEF RemovedApart, Lasting, NothingDangles, Analysed

(* Whatever the pass is called on.                                         *)
LEMMA InitLasting == Init => Rooted /\ Lasting
BY InitRooted DEF Init, Lasting, Analysed

-----------------------------------------------------------------------------
(* A version the lattice holds constant has that value in every execution  *)
(* of the function, each time around a loop, wherever an instruction reads *)
(* it ("anything it cannot prove constant is left alone", sccp.rs:22), if  *)
(* joins agree.  Without that it is false: a late edge that brought no join*)
(* back, or a value on entry that meets a constant.                        *)
THEOREM ConstantsAreRight == ExecSpec /\ []JoinsAgree => []ConstantsHold
<1>1. ExecInit => Inv /\ SettledBehind /\ Derived /\ Tracked /\ Follows
  BY InitDerived
<1>2. Inv /\ SettledBehind /\ Derived /\ Tracked /\ Follows /\ JoinsAgree /\ [ExecNext]_both
        => Inv' /\ SettledBehind' /\ Derived' /\ Tracked' /\ Follows'
  BY ExecutedSteps, StepInv, StepSettled, StepDerived, StepTracked, StepFollows
<1>3. Inv /\ Follows => ConstantsHold
  <2> SUFFICES ASSUME Inv, Follows, phase = "done", NEW v \in Vers \cap ReadByInsts,
                      lat[v] \in Int, env[v] # Undef
               PROVE  env[v] = lat[v]
    BY DEF ConstantsHold
  <2>1. PICK b \in Blocks : v \in UNION {Range(prog.insts[b][k].args) : k \in DOMAIN prog.insts[b]}
    BY DEF ReadByInsts
  <2>2. PICK k \in DOMAIN prog.insts[b] : v \in Range(prog.insts[b][k].args)
    BY <2>1
  <2>3. v \in Read(prog)
    BY <2>2, InstsRead DEF Blocks
  <2> QED
    BY <2>3 DEF Follows
<1> QED
  BY <1>1, <1>2, <1>3, PTL DEF ExecSpec, both

(* The rewritten function cannot be told from the original: along every    *)
(* execution, on any values on entry and any loaded values, it reads,      *)
(* stores, loads from, tests and returns the same values at the same       *)
(* instructions, and control goes the same way (sccp.rs:184-262).  A joined*)
(* version is replaced by the one survivor of its edges, which is sound    *)
(* only if the joins agree and nothing dangles: it is false of LateEdges   *)
(* and LiveInJoins without the first, of Cascades without the second.  When*)
(* the two hold is the matter of the theorems after this one.              *)
THEOREM BehaviourIsKept == ExecSpec /\ []JoinsAgree /\ []NothingDangles => []SameBehaviour
<1>1. Inv /\ SettledBehind /\ Derived /\ Tracked /\ Follows /\ Rewritten /\ CopiesHold /\ StoresAgree
        /\ JoinsAgree /\ NothingDangles /\ [ExecNext]_both
        => Inv' /\ SettledBehind' /\ Derived' /\ Tracked' /\ Follows' /\ Rewritten' /\ CopiesHold' /\ StoresAgree'
  BY ExecutedSteps, StepInv, StepSettled, StepDerived, StepTracked, StepFollows, StepRewritten, StepCopiesHold,
     StepStoresAgree
<1> QED
  BY <1>1, InitDerived, InitAgree, BehavesSame, PTL DEF ExecSpec, both

(* When do joins agree?  Every phi that is read and held constant gets that*)
(* constant by each live edge (sccp.rs:112, 367) if every round shows the  *)
(* phis all its edges and no live input of such a phi depends on a value on*)
(* entry.  Any other input that is not yet known would be an exception, but*)
(* none is left when the rounds end: AllValued.  LateEdges and LiveInJoins *)
(* each lack one of the conditions.                                        *)
THEOREM EveryEdgeAgrees == ExecSpec /\ []Covered /\ []EntryApart => []JoinsAgree
<1> DEFINE I == Inv /\ SettledBehind /\ Derived /\ Rooted
<1>1. ExecInit => I
  BY InitDerived, InitLasting DEF ExecInit
<1>2. I /\ Covered /\ [ExecNext]_both => I'
  BY ExecutedSteps, StepInv, StepSettled, StepDerived, StepRooted
<1>3. I /\ EntryApart => JoinsAgree
  BY SettledIsFixpoint, JoinsDoAgree
<1> HIDE DEF I
<1> QED
  BY <1>1, <1>2, <1>3, PTL DEF ExecSpec, both

(* When does nothing dangle?  A pass substitutes what collapsed, once, and *)
(* in kept phis only versions (sccp.rs:230-245).  If no live phi reads a   *)
(* phi that is gone in the end, no pass takes the definition from a use:   *)
(* what collapses does so in the first pass, and no input changes after.   *)
(* Cascades has such a phi.                                                *)
THEOREM NoUseIsLost ==
    ExecSpec /\ []Covered /\ []RemovedApart => []NothingDangles
<1> DEFINE I == Inv /\ SettledBehind /\ Derived /\ Rooted /\ Rewritten /\ Lasting
<1>1. ExecInit => I
  BY InitDerived, InitLasting, InitRewritten DEF ExecInit
<1>2. I /\ Covered /\ [ExecNext]_both => I'
  BY ExecutedSteps, StepInv, StepSettled, StepDerived, StepRooted, StepRewritten, StepLasting
<1>3. I /\ RemovedApart => NothingDangles
  BY NothingLost
<1> HIDE DEF I
<1> QED
  BY <1>1, <1>2, <1>3, PTL DEF ExecSpec, both

(* The conditions together, all of them on the analysis and none on the    *)
(* execution: then constants are right and the rewritten function behaves  *)
(* as the original one, also when it reads its arguments.                  *)
THEOREM PassKeepsBehaviour ==
    ExecSpec /\ []Covered /\ []EntryApart /\ []RemovedApart => [](ConstantsHold /\ SameBehaviour)
BY EveryEdgeAgrees, NoUseIsLost, ConstantsAreRight, BehaviourIsKept, PTL

(* Under the same conditions the rewritten function, like the original,    *)
(* reads no variable before it is assigned: what a substitution puts in    *)
(* place of a removed phi (sccp.rs:230-262) is assigned on every path to   *)
(* where it is now read.                                                   *)
THEOREM RewrittenReadsAssigned ==
    ExecSpec /\ []Covered /\ []EntryApart /\ []RemovedApart => []NewReadsAssigned
<1> DEFINE I == /\ Inv /\ SettledBehind /\ Derived /\ Tracked /\ Follows /\ Rewritten
                /\ CopiesHold /\ StoresAgree
<1>1. ExecInit => I
  BY InitDerived, InitAgree
<1>2. I /\ JoinsAgree /\ NothingDangles /\ [ExecNext]_both => I'
  BY ExecutedSteps, StepInv, StepSettled, StepDerived, StepTracked, StepFollows, StepRewritten, StepCopiesHold,
     StepStoresAgree
<1>3. I /\ NothingDangles => NewReadsAssigned
  <2> SUFFICES ASSUME I, NothingDangles, Running, New.op # "br"
               PROVE  Undef \notin Range(Values(New, outEnv))
    BY DEF NewReadsAssigned
  <2>1. DOMAIN New.args = DOMAIN Orig.args /\ \A n \in DOMAIN Orig.args : Same(Orig.args[n], New.args[n])
    BY Beside DEF CopiedInst
  <2>2. Values(New, outEnv) = Values(Orig, env)
    BY <2>1, SameValues
  <2> QED
    BY <2>2, NothingEarly DEF ReadsAssigned
<1> HIDE DEF I
<1> QED
  BY <1>1, <1>2, <1>3, EveryEdgeAgrees, NoUseIsLost, PTL DEF ExecSpec, both
=============================================================================
