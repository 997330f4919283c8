----------------------------- MODULE SccpProofs -----------------------------
(***************************************************************************)
(* What holds of Sccp for every SSA function, lattice width and schedule   *)
(* of block visits: the types, the agreement of the worklist with its set, *)
(* that executable edges join executable blocks, that lattice values only  *)
(* climb, and that the analysis stops at a fixpoint of the instructions.   *)
(***************************************************************************)
EXTENDS Sccp, FiniteSetTheorems, SequenceTheorems, TLAPS

(* A block under visit has been marked executable. *)
Inv ==
    /\ TypeOK
    /\ WorklistMirrored
    /\ EdgesJoinLiveBlocks
    /\ cur # 0 => cur \in execBlocks

-----------------------------------------------------------------------------
(* Lattice operators                                                       *)

LEMMA SsaLatticeType ==
    ASSUME NEW l \in [Vers -> Lattice], NEW o \in Operands
    PROVE  SsaLattice(o, l) \in Lattice
BY DEF SsaLattice, Operands, Lattice

LEMMA MergeType ==
    ASSUME NEW old \in Lattice, NEW new \in Lattice
    PROVE  MergeLattice(old, new) \in Lattice
BY DEF MergeLattice, Lattice

(* A merge never goes down (merge_lattice). *)
LEMMA MergeClimbs ==
    ASSUME NEW old \in Lattice, NEW new \in Lattice
    PROVE  AtMost(old, MergeLattice(old, new))
BY DEF MergeLattice, AtMost

LEMMA EvalPhiType ==
    ASSUME NEW l \in [Vers -> Lattice], NEW edges, NEW b, NEW blocks,
           NEW p, IsPhi(p, blocks)
    PROVE  EvalPhi(p, b, l, edges) \in Lattice
<1> DEFINE live == {q \in DOMAIN p.in : <<q, b>> \in edges}
           vals == {l[p.in[q]] : q \in live} \ {Top}
<1>1. vals \subseteq Lattice
  BY DEF IsPhi
<1>2. CASE vals = {}
  BY <1>2 DEF EvalPhi, Lattice
<1>3. CASE vals # {} /\ \A x, y \in vals : x = y
  <2>1. (CHOOSE x \in vals : TRUE) \in vals
    BY <1>3
  <2> QED
    BY <1>1, <1>3, <2>1 DEF EvalPhi
<1>4. CASE vals # {} /\ ~ \A x, y \in vals : x = y
  BY <1>4 DEF EvalPhi, Lattice
<1> QED
  BY <1>2, <1>3, <1>4

LEMMA WrapType == \A n \in Int : Wrap(n) \in Int
<1>1. 2 * Half \in Nat \ {0}
  BY ConstantsAssumption
<1> QED
  BY <1>1, ConstantsAssumption DEF Wrap

LEMMA FoldType ==
    ASSUME NEW blocks, NEW i, IsInst(i, blocks), i.op \in Foldable,
           NEW vals, DOMAIN vals = DOMAIN i.args, \A k \in DOMAIN vals : vals[k] \in Int
    PROVE  Fold(i.op, vals) \in Int
<1>1. i.args \in Seq(Operands)
  BY DEF IsInst
<1>2. 1 \in DOMAIN i.args /\ (i.op \in Binary => 2 \in DOMAIN i.args)
  BY <1>1, LenProperties DEF IsInst, Foldable, PureOps, DefOps, Binary, Unary
<1>3. vals[1] \in Int /\ (i.op \in Binary => vals[2] \in Int)
  BY <1>2
<1>4. i.op \in {"add", "sub", "eq", "lts", "neg", "copy"}
  BY DEF Foldable, PureOps
<1>5. CASE i.op \in {"add", "sub"}
  <2>1. vals[1] + vals[2] \in Int /\ vals[1] - vals[2] \in Int
    BY <1>3, <1>5 DEF Binary
  <2>2. Wrap(vals[1] + vals[2]) \in Int /\ Wrap(vals[1] - vals[2]) \in Int
    BY <2>1, WrapType
  <2> QED
    BY <1>5, <2>2 DEF Fold
<1>6. CASE i.op \in {"eq", "lts"}
  BY <1>6 DEF Fold, Flag
<1>7. CASE i.op = "neg"
  <2>1. Wrap(-vals[1]) \in Int
    BY <1>3, WrapType
  <2> QED
    BY <1>7, <2>1 DEF Fold
<1>8. CASE i.op = "copy"
  BY <1>3, <1>8 DEF Fold
<1> QED
  BY <1>4, <1>5, <1>6, <1>7, <1>8

LEMMA EvalInstType ==
    ASSUME NEW l \in [Vers -> Lattice], NEW blocks, NEW i, IsInst(i, blocks), i.op \in DefOps
    PROVE  EvalInst(i, l) \in Lattice
<1> DEFINE vals == [k \in DOMAIN i.args |-> SsaLattice(i.args[k], l)]
<1>1. CASE i.op = "load" \/ i.op \notin Foldable \/ ~(Range(vals) \subseteq Int)
  BY <1>1 DEF EvalInst, Lattice
<1>2. CASE i.op # "load" /\ i.op \in Foldable /\ Range(vals) \subseteq Int
  <2>1. DOMAIN vals = DOMAIN i.args /\ \A k \in DOMAIN vals : vals[k] \in Int
    BY <1>2 DEF Range
  <2>2. Fold(i.op, vals) \in Int
    <3> HIDE DEF vals
    <3> QED
      BY <1>2, <2>1, FoldType
  <2> QED
    BY <1>2, <2>2 DEF EvalInst, Lattice
<1> QED
  BY <1>1, <1>2

(* A terminator's live targets are among its targets. *)
LEMMA AllTargetsType ==
    ASSUME NEW blocks, NEW i, IsInst(i, blocks)
    PROVE  AllTargets(i) \in Seq(blocks)
<1> DEFINE caseTargets == [k \in DOMAIN i.cases |-> i.cases[k][2]]
<1>1. i.cases \in Seq(Int \X blocks) /\ i.to \in Seq(blocks)
  BY DEF IsInst
<1>2. Len(i.cases) \in Nat /\ DOMAIN i.cases = 1..Len(i.cases)
      /\ \A k \in DOMAIN i.cases : i.cases[k] \in Int \X blocks
  BY <1>1, LenProperties
<1>3. caseTargets \in [1..Len(i.cases) -> blocks]
  BY <1>2
<1>4. caseTargets \in Seq(blocks)
  BY <1>2, <1>3, SeqDef
<1>5. caseTargets \o i.to \in Seq(blocks)
  BY <1>1, <1>4, ConcatProperties
<1>6. <<>> \in Seq(blocks)
  OBVIOUS
<1> QED
  BY <1>5, <1>6 DEF AllTargets

LEMMA LeastNat ==
    ASSUME NEW S \in SUBSET Nat, S # {}
    PROVE  \E n \in S : \A m \in S : n <= m
<1>1. PICK n \in S : \A m \in S : <<m, n>> \notin OpToRel(<, Nat)
  BY NatLessThanWellFounded, WFMin, Zenon
<1>2. \A m \in S : ~(m < n)
  BY <1>1 DEF OpToRel
<1>3. n \in S /\ \A m \in S : n <= m
  BY <1>2
<1> QED
  BY <1>3

LEMMA LiveTargetsType ==
    ASSUME NEW l \in [Vers -> Lattice], NEW blocks, NEW i, IsInst(i, blocks), i.op \in JumpOps
    PROVE  LiveTargets(i, l) \in Seq(blocks)
<1> DEFINE c    == SsaLattice(i.args[1], l)
           hits == {k \in DOMAIN i.cases : i.cases[k][1] = c}
           hit  == CHOOSE k \in hits : \A j \in hits : k <= j
<1>1. i.cases \in Seq(Int \X blocks) /\ i.to \in Seq(blocks)
  BY DEF IsInst
<1>2. CASE i.op = "br" \/ c \notin Int
  BY <1>2, AllTargetsType DEF LiveTargets
<1>3. CASE i.op = "cbr" /\ c \in Int
  <2>1. i.to[1] \in blocks /\ i.to[2] \in blocks
    BY <1>1, <1>3 DEF IsInst
  <2> QED
    BY <1>3, <2>1 DEF LiveTargets
<1>4. CASE i.op = "switch" /\ c \in Int /\ hits = {}
  BY <1>1, <1>4 DEF LiveTargets
<1>5. CASE i.op = "switch" /\ c \in Int /\ hits # {}
  <2>1. Len(i.cases) \in Nat /\ DOMAIN i.cases = 1..Len(i.cases)
        /\ \A k \in DOMAIN i.cases : i.cases[k] \in Int \X blocks
    BY <1>1, LenProperties
  <2>2. \E k \in hits : \A j \in hits : k <= j
    <3>1. hits \in SUBSET Nat /\ hits # {}
      BY <1>5, <2>1
    <3> HIDE DEF hits
    <3> QED
      BY <3>1, LeastNat
  <2>3. hit \in hits
    BY <2>2
  <2>4. i.cases[hit] \in Int \X blocks
    BY <2>1, <2>3
  <2>5. i.cases[hit][2] \in blocks
    BY <2>4
  <2> QED
    BY <1>5, <2>5 DEF LiveTargets
<1> QED
  BY <1>2, <1>3, <1>4, <1>5 DEF JumpOps

-----------------------------------------------------------------------------
(* The worklist                                                            *)

LEMMA InOrderProperties ==
    ASSUME NEW S, IsFiniteSet(S), NEW rank, NEW s \in InOrder(S, rank)
    PROVE  s \in Seq(S) /\ IsInjective(s) /\ Range(s) = S /\ Len(s) = Cardinality(S)
<1>1. Cardinality(S) \in Nat
  BY FS_CardinalityType
<1>2. s \in Injection(1..Cardinality(S), S)
  BY DEF InOrder
<1>3. s \in [1..Cardinality(S) -> S] /\ IsInjective(s)
  BY <1>2 DEF Injection
<1>4. s \in Seq(S)
  BY <1>1, <1>3, SeqDef
<1>5. Cardinality(1..Cardinality(S)) = Cardinality(S)
  BY <1>1, FS_Interval
<1>6. s \in Surjection(1..Cardinality(S), S)
  BY <1>2, <1>5, FS_Injection
<1>7. Range(s) = S
  BY <1>3, <1>6 DEF Surjection, Range
<1>8. Len(s) = Cardinality(S)
  BY <1>1, <1>3, <1>4, LenProperties
<1> QED
  BY <1>3, <1>4, <1>7, <1>8

(* Queueing blocks keeps the FIFO and its set in agreement.                *)
LEMMA QueueBlocksKeepsMirror ==
    ASSUME NEW blocks, IsFiniteSet(blocks), blockWl \in Seq(blocks), WorklistMirrored,
           NEW S \in SUBSET blocks, NEW rank, QueueBlocks(S, rank)
    PROVE  blockWl' \in Seq(blocks) /\ WorklistMirrored'
<1> DEFINE new == S \ inBlockWl
<1>1. IsFiniteSet(new) /\ new \subseteq blocks
  BY FS_Subset
<1>2. PICK s \in InOrder(new, rank) : blockWl' = blockWl \o s /\ inBlockWl' = inBlockWl \cup S
  BY DEF QueueBlocks
<1> HIDE DEF new
<1>3. s \in Seq(new) /\ IsInjective(s) /\ Range(s) = new
  BY <1>1, InOrderProperties
<1>4. s \in Seq(blocks)
  BY <1>1, <1>3
<1>5. blockWl' \in Seq(blocks)
  BY <1>2, <1>4, ConcatProperties
<1>6. Range(blockWl') = Range(blockWl) \cup new
  BY <1>2, <1>3, <1>4, RangeConcatenation
<1>7. inBlockWl' = Range(blockWl')
  BY <1>2, <1>6 DEF new, WorklistMirrored
<1>8. IsInjective(blockWl')
  <2>1. DOMAIN blockWl' = 1 .. Len(blockWl) + Len(s)
    BY <1>2, <1>4, ConcatProperties, LenProperties
  <2>2. \A i \in 1..Len(blockWl) + Len(s) :
            blockWl'[i] = IF i <= Len(blockWl) THEN blockWl[i] ELSE s[i - Len(blockWl)]
    BY <1>2, <1>4, ConcatProperties
  <2>3. Len(blockWl) \in Nat /\ DOMAIN blockWl = 1..Len(blockWl)
        /\ Len(s) \in Nat /\ DOMAIN s = 1..Len(s)
    BY <1>4, LenProperties
  <2>4. \A i \in DOMAIN blockWl, j \in DOMAIN s : blockWl[i] # s[j]
    <3>1. \A i \in DOMAIN blockWl : blockWl[i] \in inBlockWl
      BY DEF WorklistMirrored, Range
    <3>2. \A j \in DOMAIN s : s[j] \in new
      BY <1>3 DEF Range
    <3> QED
      BY <3>1, <3>2 DEF new
  <2>5. IsInjective(blockWl)
    BY DEF WorklistMirrored
  <2> SUFFICES ASSUME NEW i \in DOMAIN blockWl', NEW j \in DOMAIN blockWl',
                      blockWl'[i] = blockWl'[j]
               PROVE  i = j
    BY DEF IsInjective
  <2>6. CASE i <= Len(blockWl) /\ j <= Len(blockWl)
    BY <2>1, <2>2, <2>3, <2>5, <2>6 DEF IsInjective
  <2>7. CASE i > Len(blockWl) /\ j > Len(blockWl)
    <3>1. i - Len(blockWl) \in DOMAIN s /\ j - Len(blockWl) \in DOMAIN s
      BY <2>1, <2>3, <2>7
    <3>2. s[i - Len(blockWl)] = s[j - Len(blockWl)]
      BY <2>1, <2>2, <2>3, <2>7
    <3>3. i - Len(blockWl) = j - Len(blockWl)
      BY <1>3, <3>1, <3>2 DEF IsInjective
    <3> QED
      BY <2>1, <2>3, <3>3
  <2>8. CASE i <= Len(blockWl) /\ j > Len(blockWl)
    <3>1. i \in DOMAIN blockWl /\ j - Len(blockWl) \in DOMAIN s
      BY <2>1, <2>3, <2>8
    <3> QED
      BY <2>1, <2>2, <2>3, <2>4, <2>8, <3>1
  <2>9. CASE i > Len(blockWl) /\ j <= Len(blockWl)
    <3>1. j \in DOMAIN blockWl /\ i - Len(blockWl) \in DOMAIN s
      BY <2>1, <2>3, <2>9
    <3> QED
      BY <2>1, <2>2, <2>3, <2>4, <2>9, <3>1
  <2> QED
    BY <2>1, <2>3, <2>6, <2>7, <2>8, <2>9
<1> QED
  BY <1>5, <1>7, <1>8 DEF WorklistMirrored

(* Taking the head of the FIFO out of its set keeps them in agreement.     *)
LEMMA PopKeepsMirror ==
    ASSUME NEW blocks, blockWl \in Seq(blocks), blockWl # <<>>, WorklistMirrored,
           blockWl' = Tail(blockWl), inBlockWl' = inBlockWl \ {Head(blockWl)}
    PROVE  Head(blockWl) \in blocks /\ blockWl' \in Seq(blocks) /\ WorklistMirrored'
<1>1. Head(blockWl) \in blocks /\ blockWl' \in Seq(blocks)
  BY HeadTailProperties
<1>2. /\ Len(blockWl') = Len(blockWl) - 1
      /\ \A i \in 1..Len(blockWl') : blockWl'[i] = blockWl[i + 1]
  BY HeadTailProperties
<1>3. /\ Len(blockWl) \in Nat /\ DOMAIN blockWl = 1..Len(blockWl)
      /\ Len(blockWl') \in Nat /\ DOMAIN blockWl' = 1..Len(blockWl')
  BY <1>1, LenProperties
<1>4. Len(blockWl) > 0 /\ Head(blockWl) = blockWl[1]
  BY <1>3, EmptySeq DEF Head
<1>5. IsInjective(blockWl)
  BY DEF WorklistMirrored
<1>6. IsInjective(blockWl')
  BY <1>2, <1>3, <1>5 DEF IsInjective
<1>7. Range(blockWl') = Range(blockWl) \ {blockWl[1]}
  <2>1. ASSUME NEW x \in Range(blockWl') PROVE x \in Range(blockWl) \ {blockWl[1]}
    <3>1. PICK i \in 1..Len(blockWl') : x = blockWl'[i]
      BY <1>3 DEF Range
    <3>2. i + 1 \in DOMAIN blockWl /\ 1 \in DOMAIN blockWl /\ i + 1 # 1 /\ x = blockWl[i + 1]
      BY <1>2, <1>3, <1>4, <3>1
    <3> QED
      BY <1>5, <3>2 DEF Range, IsInjective
  <2>2. ASSUME NEW x \in Range(blockWl) \ {blockWl[1]} PROVE x \in Range(blockWl')
    <3>1. PICK i \in 1..Len(blockWl) : x = blockWl[i]
      BY <1>3 DEF Range
    <3>2. i - 1 \in DOMAIN blockWl' /\ blockWl'[i - 1] = x
      <4>1. i # 1
        BY <3>1
      <4>2. i - 1 \in 1..Len(blockWl')
        BY <1>2, <1>3, <4>1
      <4>3. blockWl'[i - 1] = blockWl[(i - 1) + 1]
        BY <1>2, <4>2
      <4>4. (i - 1) + 1 = i
        BY <1>3
      <4> QED
        BY <1>3, <3>1, <4>2, <4>3, <4>4
    <3> QED
      BY <3>2 DEF Range
  <2> QED
    BY <2>1, <2>2
<1>8. inBlockWl' = Range(blockWl')
  BY <1>4, <1>7 DEF WorklistMirrored
<1> QED
  BY <1>1, <1>6, <1>8 DEF WorklistMirrored

-----------------------------------------------------------------------------
(* The steps                                                               *)

(* What the well-formedness of the function gives the steps.               *)
LEMMA ProgramFacts ==
    ASSUME TypeOK
    PROVE  /\ IsFiniteSet(Blocks) /\ Entry \in Blocks /\ 0 \notin Blocks
           /\ \A b \in Blocks :
                /\ Len(prog.phis[b]) \in Nat /\ DOMAIN prog.phis[b] = 1..Len(prog.phis[b])
                /\ Len(prog.insts[b]) \in Nat /\ DOMAIN prog.insts[b] = 1..Len(prog.insts[b])
                /\ \A k \in DOMAIN prog.phis[b] : IsPhi(prog.phis[b][k], Blocks)
                /\ \A k \in DOMAIN prog.insts[b] : IsInst(prog.insts[b][k], Blocks)
<1>1. IsProgram(prog)
  BY ProgramsAssumption DEF TypeOK
<1>2. Len(prog.insts) \in Nat /\ Blocks = 1..Len(prog.insts) /\ Entry \in Blocks
  BY <1>1 DEF IsProgram, Blocks, Entry
<1>3. IsFiniteSet(Blocks)
  BY <1>2, FS_Interval
<1> QED
  BY <1>1, <1>2, <1>3 DEF IsProgram, Blocks

LEMMA RefineStep ==
    ASSUME TypeOK, WorklistMirrored, NEW dst \in Vers, NEW new \in Lattice, Refine(dst, new)
    PROVE  /\ lat' \in [Vers -> Lattice]
           /\ \A v \in Vers : AtMost(lat[v], lat'[v])
           /\ blockWl' \in Seq(Blocks) /\ inBlockWl' \subseteq Blocks
           /\ WorklistMirrored'
<1> DEFINE merged == MergeLattice(lat[dst], new)
<1>1. lat[dst] \in Lattice /\ lat \in [Vers -> Lattice]
  BY DEF TypeOK
<1>2. merged \in Lattice /\ AtMost(lat[dst], merged)
  BY <1>1, MergeType, MergeClimbs
<1>3. lat' = [lat EXCEPT ![dst] = merged]
  BY DEF Refine
<1> HIDE DEF merged
<1>4. lat' \in [Vers -> Lattice]
  BY <1>1, <1>2, <1>3
<1>5. \A v \in Vers : AtMost(lat[v], lat'[v])
  BY <1>1, <1>2, <1>3 DEF AtMost
<1>6. /\ blockWl' \in Seq(Blocks) /\ inBlockWl' \subseteq Blocks
      /\ WorklistMirrored'
  <2>1. CASE UNCHANGED queue
    BY <2>1 DEF queue, TypeOK, WorklistMirrored
  <2>2. CASE QueueBlocks(Uses(dst), [b \in Blocks |-> b])
    <3>1. Uses(dst) \in SUBSET Blocks
      BY DEF Uses
    <3>2. blockWl \in Seq(Blocks) /\ inBlockWl \subseteq Blocks /\ IsFiniteSet(Blocks)
      BY ProgramFacts DEF TypeOK
    <3>3. blockWl' \in Seq(Blocks) /\ WorklistMirrored'
      BY <2>2, <3>1, <3>2, QueueBlocksKeepsMirror
    <3>4. inBlockWl' = inBlockWl \cup Uses(dst)
      BY <2>2 DEF QueueBlocks
    <3> QED
      BY <3>1, <3>2, <3>3, <3>4
  <2> QED
    BY <2>1, <2>2 DEF Refine
<1> QED
  BY <1>4, <1>5, <1>6

LEMMA InitInv == Init => Inv
<1> SUFFICES ASSUME Init PROVE Inv
  OBVIOUS
<1>1. /\ prog \in Programs /\ Len(prog.insts) \in Nat
      /\ Blocks = 1..Len(prog.insts) /\ Entry \in Blocks
  BY ProgramsAssumption DEF Init, IsProgram, Blocks, Entry
<1>2. lat \in [Vers -> Lattice]
  BY DEF Init, Lattice
<1>3. blockWl \in Seq(Blocks) /\ Range(blockWl) = {Entry} /\ IsInjective(blockWl)
  BY <1>1 DEF Init, Range, IsInjective
<1>4. OutOK
  BY DEF Init, Restricted, OutOK
<1> QED
  BY <1>1, <1>2, <1>3, <1>4 DEF Inv, TypeOK, WorklistMirrored, EdgesJoinLiveBlocks, Init

(* A visited phi or instruction belongs to a well-formed function.         *)
LEMMA VisitFacts ==
    ASSUME TypeOK, Visiting
    PROVE  /\ pc <= Len(Phis) => IsPhi(Phis[pc], Blocks)
           /\ AtInst => IsInst(CurInst, Blocks)
           /\ cur \in Blocks
<1>1. cur \in Blocks /\ pc \in Nat \ {0}
  BY DEF TypeOK, Visiting
<1>2. Len(Phis) \in Nat /\ DOMAIN Phis = 1..Len(Phis)
      /\ Len(prog.insts[cur]) \in Nat /\ DOMAIN prog.insts[cur] = 1..Len(prog.insts[cur])
  BY <1>1, ProgramFacts DEF Phis
<1>3. ASSUME pc <= Len(Phis) PROVE IsPhi(Phis[pc], Blocks)
  <2>1. pc \in DOMAIN Phis
    BY <1>1, <1>2, <1>3
  <2> QED
    BY <1>1, <2>1, ProgramFacts DEF Phis
<1>4. ASSUME AtInst PROVE IsInst(CurInst, Blocks)
  <2>1. pc - Len(Phis) \in DOMAIN prog.insts[cur]
    BY <1>1, <1>2, <1>4 DEF AtInst, BodyLen
  <2> QED
    BY <1>1, <2>1, ProgramFacts DEF CurInst
<1> QED
  BY <1>1, <1>3, <1>4

(* Every step preserves the invariant and only lets lattice values climb.  *)
LEMMA StepInv == Inv /\ [Next]_vars => Inv' /\ \A v \in Vers : AtMost(lat[v], lat'[v])
<1> SUFFICES ASSUME Inv, [Next]_vars
             PROVE  Inv' /\ \A v \in Vers : AtMost(lat[v], lat'[v])
  OBVIOUS
<1> USE DEF Inv, OutOK
<1>0. (lat' = lat) => \A v \in Vers : AtMost(lat[v], lat'[v])
  BY DEF AtMost
<1>1. CASE Pop
  <2>1. Head(blockWl) \in Blocks /\ blockWl' \in Seq(Blocks) /\ WorklistMirrored'
    BY <1>1, PopKeepsMirror DEF Pop, TypeOK
  <2>2. TypeOK' /\ lat' = lat
    BY <1>1, <2>1 DEF Pop, TypeOK, Blocks
  <2>3. EdgesJoinLiveBlocks' /\ (cur # 0 => cur \in execBlocks)'
    BY <1>1 DEF Pop, EdgesJoinLiveBlocks
  <2> QED
    BY <1>0, <2>1, <2>2, <2>3
<1>2. CASE VisitPhi
  <2> DEFINE new == EvalPhi(Phis[pc], cur, lat, execEdges)
  <2>1. IsPhi(Phis[pc], Blocks) /\ lat \in [Vers -> Lattice]
    BY <1>2, VisitFacts DEF VisitPhi, TypeOK
  <2>2. Phis[pc].dst \in Vers /\ new \in Lattice
    BY <2>1, EvalPhiType DEF IsPhi
  <2>3. Refine(Phis[pc].dst, new)
    BY <1>2 DEF VisitPhi
  <2> HIDE DEF new
  <2>4. /\ lat' \in [Vers -> Lattice]
        /\ \A v \in Vers : AtMost(lat[v], lat'[v])
        /\ blockWl' \in Seq(Blocks) /\ inBlockWl' \subseteq Blocks
        /\ WorklistMirrored'
    BY <2>2, <2>3, RefineStep
  <2>5. UNCHANGED <<prog, execEdges, execBlocks, cur, prevEdges, phase, out>> /\ pc' = pc + 1
    BY <1>2 DEF VisitPhi, round
  <2> QED
    BY <2>4, <2>5 DEF TypeOK, Blocks, EdgesJoinLiveBlocks
<1>3. CASE VisitDef
  <2> DEFINE new == EvalInst(CurInst, lat)
  <2>1. IsInst(CurInst, Blocks) /\ CurInst.op \in DefOps /\ lat \in [Vers -> Lattice]
    BY <1>3, VisitFacts DEF VisitDef, AtInst, TypeOK
  <2>2. CurInst.dst \in Vers /\ new \in Lattice
    BY <2>1, EvalInstType DEF IsInst
  <2>3. Refine(CurInst.dst, new)
    BY <1>3 DEF VisitDef
  <2> HIDE DEF new
  <2>4. /\ lat' \in [Vers -> Lattice]
        /\ \A v \in Vers : AtMost(lat[v], lat'[v])
        /\ blockWl' \in Seq(Blocks) /\ inBlockWl' \subseteq Blocks
        /\ WorklistMirrored'
    BY <2>2, <2>3, RefineStep
  <2>5. UNCHANGED <<prog, execEdges, execBlocks, cur, prevEdges, phase, out>> /\ pc' = pc + 1
    BY <1>3 DEF VisitDef, round
  <2> QED
    BY <2>4, <2>5 DEF TypeOK, Blocks, EdgesJoinLiveBlocks
<1>4. CASE VisitJump
  <2> DEFINE ts == LiveTargets(CurInst, lat)
  <2>1. IsInst(CurInst, Blocks) /\ CurInst.op \in JumpOps /\ cur \in Blocks
    BY <1>4, VisitFacts DEF VisitJump, AtInst
  <2>2. ts \in Seq(Blocks)
    BY <2>1, LiveTargetsType DEF TypeOK
  <2>3. Range(ts) \in SUBSET Blocks
    BY <2>2, RangeOfSeq
  <2>4. /\ execEdges' = execEdges \cup {<<cur, t>> : t \in Range(ts)}
        /\ execBlocks' = execBlocks \cup Range(ts)
        /\ \E rank : QueueBlocks(Range(ts) \ execBlocks, rank)
        /\ UNCHANGED <<prog, lat, cur, prevEdges, phase, out>> /\ pc' = pc + 1
    BY <1>4 DEF VisitJump
  <2> HIDE DEF ts
  <2>5. blockWl' \in Seq(Blocks) /\ WorklistMirrored'
    BY <2>3, <2>4, ProgramFacts, QueueBlocksKeepsMirror DEF TypeOK
  <2>6. inBlockWl' \subseteq Blocks
    BY <2>3, <2>4 DEF QueueBlocks, TypeOK
  <2>7. cur \in execBlocks
    BY <1>4 DEF VisitJump, AtInst, Visiting
  <2>8. EdgesJoinLiveBlocks'
    BY <2>4, <2>7 DEF EdgesJoinLiveBlocks
  <2>9. execEdges' \subseteq Blocks \X Blocks /\ execBlocks' \subseteq Blocks
    BY <2>1, <2>3, <2>4 DEF TypeOK
  <2>10. TypeOK'
    BY <2>4, <2>5, <2>6, <2>9 DEF TypeOK, Blocks
  <2> QED
    BY <1>0, <2>4, <2>5, <2>7, <2>8, <2>10
<1>5. CASE VisitOther
  BY <1>0, <1>5 DEF VisitOther, round, queue, TypeOK, Blocks, WorklistMirrored, EdgesJoinLiveBlocks
<1>6. CASE LeaveBlock
  BY <1>0, <1>6 DEF LeaveBlock, round, queue, TypeOK, Blocks, WorklistMirrored, EdgesJoinLiveBlocks
<1>7. CASE NextRound
  <2>1. {Entry} \in SUBSET Blocks /\ IsFiniteSet(Blocks)
    BY ProgramFacts
  <2>2. /\ QueueBlocks({Entry}, [b \in Blocks |-> b])
        /\ execEdges' = {} /\ execBlocks' = {Entry}
        /\ prevEdges' = Cardinality(execEdges)
        /\ UNCHANGED <<prog, lat, cur, pc, phase, out>> /\ cur = 0
    BY <1>7 DEF NextRound, RoundOver
  <2>3. blockWl' \in Seq(Blocks) /\ WorklistMirrored'
    BY <2>1, <2>2, QueueBlocksKeepsMirror DEF TypeOK
  <2>4. inBlockWl' \subseteq Blocks
    BY <2>1, <2>2 DEF QueueBlocks, TypeOK
  <2>5. Cardinality(execEdges) \in Nat
    <3>1. IsFiniteSet(Blocks \X Blocks)
      BY <2>1, FS_Product
    <3>2. IsFiniteSet(execEdges)
      BY <3>1, FS_Subset DEF TypeOK
    <3> QED
      BY <3>2, FS_CardinalityType
  <2>6. TypeOK'
    BY <2>1, <2>2, <2>3, <2>4, <2>5 DEF TypeOK, Blocks
  <2> QED
    BY <1>0, <2>2, <2>3, <2>6 DEF EdgesJoinLiveBlocks
<1>8. CASE DropDeadBlocks
  <2>1. OutOK' /\ phase' = "rewrite"
    BY <1>8 DEF DropDeadBlocks, Restricted, OutOK
  <2> QED
    BY <1>0, <1>8, <2>1 DEF DropDeadBlocks, round, queue, TypeOK, Blocks, WorklistMirrored, EdgesJoinLiveBlocks
<1>9. CASE Rewrite
  <2>1. OutOK'
    BY <1>9 DEF Rewrite, RewritePass, TypeOK, OutOK
  <2>2. phase' \in {"analyse", "rewrite", "done"}
    BY <1>9 DEF Rewrite
  <2> QED
    BY <1>0, <1>9, <2>1, <2>2 DEF Rewrite, round, queue, TypeOK, Blocks, WorklistMirrored, EdgesJoinLiveBlocks
<1>10. CASE UNCHANGED vars
  BY <1>0, <1>10 DEF vars, round, queue, TypeOK, Blocks, WorklistMirrored, EdgesJoinLiveBlocks
<1> QED
  BY <1>1, <1>2, <1>3, <1>4, <1>5, <1>6, <1>7, <1>8, <1>9, <1>10 DEF Next

-----------------------------------------------------------------------------
(* The fixpoint                                                            *)

(* An instruction of block b that has nothing left to tell under lattice l *)
(* and edges.                                                              *)
Settled(i, b, l, edges) ==
    /\ i.op \in JumpOps => {<<b, t>> : t \in Range(LiveTargets(i, l))} \subseteq edges
    /\ i.op \in DefOps => AtMost(EvalInst(i, l), l[i.dst])

(* The instructions the pass has no visit ahead for: their block is live,  *)
(* is not queued and, if it is under visit, they are behind pc.            *)
Behind(b, k) ==
    /\ b \notin inBlockWl
    /\ b = cur => k + Len(prog.phis[b]) < pc

(* Whatever is behind is settled, and nothing is ahead after the analysis. *)
SettledBehind ==
    /\ \A b \in execBlocks : \A k \in DOMAIN prog.insts[b] :
         Behind(b, k) => Settled(prog.insts[b][k], b, lat, execEdges)
    /\ Analysed => cur = 0 /\ inBlockWl = {}

LEMMA AtMostTransitive ==
    ASSUME NEW a, NEW b, NEW c, AtMost(a, b), AtMost(b, c)
    PROVE  AtMost(a, c)
BY ConstantsAssumption DEF AtMost

(* A merge covers what was merged in (merge_lattice). *)
LEMMA MergeCovers ==
    ASSUME NEW old \in Lattice, NEW new \in Lattice
    PROVE  AtMost(new, MergeLattice(old, new))
BY DEF MergeLattice, AtMost

(* An instruction sees the lattice only through the versions it reads.     *)
LEMMA ReadsItsArgs ==
    ASSUME NEW l \in [Vers -> Lattice], NEW m \in [Vers -> Lattice], NEW blocks,
           NEW i, IsInst(i, blocks), \A v \in Vers \cap Range(i.args) : l[v] = m[v]
    PROVE  /\ EvalInst(i, l) = EvalInst(i, m)
           /\ i.op \in JumpOps => LiveTargets(i, l) = LiveTargets(i, m)
<1>1. \A k \in DOMAIN i.args : SsaLattice(i.args[k], l) = SsaLattice(i.args[k], m)
  BY DEF SsaLattice, Range
<1>2. [k \in DOMAIN i.args |-> SsaLattice(i.args[k], l)]
      = [k \in DOMAIN i.args |-> SsaLattice(i.args[k], m)]
  BY <1>1
<1>3. EvalInst(i, l) = EvalInst(i, m)
  BY <1>2 DEF EvalInst
<1>4. CASE i.op = "br"
  BY <1>3, <1>4 DEF LiveTargets
<1>5. CASE i.op \in {"cbr", "switch"}
  <2>1. 1 \in DOMAIN i.args
    BY <1>5, LenProperties DEF IsInst, Unary
  <2>2. SsaLattice(i.args[1], l) = SsaLattice(i.args[1], m)
    BY <1>1, <2>1
  <2> QED
    BY <1>3, <2>2 DEF LiveTargets
<1> QED
  BY <1>3, <1>4, <1>5 DEF JumpOps

(* A refinement of dst unsettles only the blocks it queues, and settles    *)
(* an instruction that has just given dst its value.                       *)
LEMMA RefineSettles ==
    ASSUME TypeOK, NEW dst \in Vers, NEW new \in Lattice, Refine(dst, new),
           NEW b \in Blocks, NEW k \in DOMAIN prog.insts[b], b \notin inBlockWl',
           \/ Settled(prog.insts[b][k], b, lat, execEdges)
           \/ /\ prog.insts[b][k].op \in DefOps /\ prog.insts[b][k].dst = dst
              /\ new = EvalInst(prog.insts[b][k], lat)
    PROVE  Settled(prog.insts[b][k], b, lat', execEdges)
<1> DEFINE i      == prog.insts[b][k]
           merged == MergeLattice(lat[dst], new)
<1>1. IsInst(i, Blocks) /\ lat \in [Vers -> Lattice]
  BY ProgramFacts DEF TypeOK
<1>2. lat' = [lat EXCEPT ![dst] = merged]
  BY DEF Refine
<1>3. merged \in Lattice /\ AtMost(lat[dst], merged) /\ AtMost(new, merged)
  BY <1>1, MergeType, MergeClimbs, MergeCovers
<1>4. \A v \in Vers \cap Range(i.args) : lat[v] = lat'[v]
  <2>1. CASE merged = lat[dst]
    BY <1>1, <1>2, <2>1
  <2>2. CASE merged # lat[dst]
    <3>1. inBlockWl' = inBlockWl \cup Uses(dst)
      BY <2>2 DEF Refine, QueueBlocks
    <3>2. dst \notin Range(i.args)
      BY <3>1 DEF Uses, UsesIn
    <3> QED
      BY <1>1, <1>2, <3>2
  <2> QED
    BY <2>1, <2>2
<1> HIDE DEF merged
<1>5. lat' \in [Vers -> Lattice]
  BY <1>1, <1>2, <1>3
<1> HIDE DEF i
<1>6. EvalInst(i, lat') = EvalInst(i, lat)
      /\ (i.op \in JumpOps => LiveTargets(i, lat') = LiveTargets(i, lat))
  BY <1>1, <1>4, <1>5, ReadsItsArgs
<1>7. ASSUME Settled(i, b, lat, execEdges) PROVE Settled(i, b, lat', execEdges)
  <2>1. ASSUME i.op \in DefOps PROVE AtMost(EvalInst(i, lat'), lat'[i.dst])
    <3>1. i.dst \in Vers /\ AtMost(EvalInst(i, lat), lat[i.dst])
      BY <1>1, <1>7, <2>1 DEF IsInst, Settled
    <3>2. AtMost(lat[i.dst], lat'[i.dst])
      BY <1>1, <1>2, <1>3, <3>1 DEF AtMost
    <3> QED
      BY <1>6, <3>1, <3>2, AtMostTransitive
  <2> QED
    BY <1>6, <1>7, <2>1 DEF Settled
<1>8. ASSUME i.op \in DefOps, i.dst = dst, new = EvalInst(i, lat)
      PROVE  Settled(i, b, lat', execEdges)
  <2>1. lat'[i.dst] = merged
    BY <1>1, <1>2, <1>8
  <2>2. AtMost(EvalInst(i, lat'), lat'[i.dst])
    BY <1>3, <1>6, <1>8, <2>1
  <2>3. i.op \notin JumpOps
    BY <1>8 DEF DefOps, PureOps, JumpOps
  <2> QED
    BY <2>2, <2>3 DEF Settled
<1> QED
  BY <1>7, <1>8 DEF i

(* What falls behind at a visit is the instruction just visited. *)
LEMMA JustVisited ==
    ASSUME TypeOK, NEW b \in Blocks, NEW k \in DOMAIN prog.insts[b], Behind(b, k)', ~Behind(b, k),
           inBlockWl \subseteq inBlockWl', UNCHANGED <<prog, cur>>, pc' = pc + 1
    PROVE  b = cur /\ k = pc - Len(Phis)
<1>1. b = cur /\ ~(k + Len(prog.phis[b]) < pc)
  BY DEF Behind
<1>2. k + Len(prog.phis[b]) < pc + 1
  BY <1>1 DEF Behind
<1>3. k \in Nat /\ Len(prog.phis[b]) \in Nat /\ pc \in Nat
  BY ProgramFacts DEF TypeOK
<1>4. k = pc - Len(prog.phis[b])
  BY <1>1, <1>2, <1>3
<1> QED
  BY <1>1, <1>4 DEF Phis

LEMMA InitSettled == Init => SettledBehind
BY DEF Init, SettledBehind, Behind, Analysed

LEMMA StepSettled == Inv /\ SettledBehind /\ [Next]_vars => SettledBehind'
<1> SUFFICES ASSUME Inv, SettledBehind, [Next]_vars PROVE SettledBehind'
  OBVIOUS
<1>0. /\ TypeOK /\ WorklistMirrored /\ 0 \notin Blocks /\ execBlocks \subseteq Blocks
      /\ (cur # 0 => cur \in execBlocks) /\ pc \in Nat \ {0}
      /\ \A b \in Blocks : Len(prog.phis[b]) \in Nat
      /\ \A b \in Blocks : \A k \in DOMAIN prog.insts[b] :
            k \in Nat \ {0} /\ k <= Len(prog.insts[b])
  <2>1. TypeOK /\ WorklistMirrored /\ (cur # 0 => cur \in execBlocks)
    BY DEF Inv
  <2>2. execBlocks \subseteq Blocks /\ pc \in Nat \ {0}
    BY <2>1 DEF TypeOK
  <2> QED
    BY <2>1, <2>2, ProgramFacts
<1>1. CASE Pop
  <2>1. /\ phase = "analyse" /\ phase' = phase /\ pc' = 1
        /\ inBlockWl' = inBlockWl \ {cur'} /\ execBlocks' = execBlocks \cup {cur'}
        /\ UNCHANGED <<prog, lat, execEdges>> /\ cur = 0 /\ cur' = Head(blockWl)
    BY <1>1 DEF Pop
  <2>2. cur' \in Blocks
    BY <1>0, <1>1, <2>1, HeadTailProperties DEF Pop, TypeOK
  <2>3. ~Analysed'
    BY <2>1 DEF Analysed
  <2>4. ASSUME NEW b \in execBlocks', NEW k \in DOMAIN prog.insts[b], Behind(b, k)'
        PROVE  Settled(prog.insts[b][k], b, lat, execEdges)
    <3>1. b # cur'
      <4> SUFFICES ASSUME b = cur' PROVE FALSE
        OBVIOUS
      <4>1. k + Len(prog.phis[b]) < 1
        BY <2>1, <2>4 DEF Behind
      <4>2. k \in Nat \ {0} /\ Len(prog.phis[b]) \in Nat
        BY <1>0, <2>2
      <4> QED
        BY <4>1, <4>2
    <3>2. b \in execBlocks /\ Behind(b, k)
      BY <1>0, <2>1, <2>4, <3>1 DEF Behind
    <3> QED
      BY <3>2 DEF SettledBehind
  <2> QED
    BY <2>1, <2>3, <2>4 DEF SettledBehind
<1>2. CASE VisitPhi
  <2> DEFINE new == EvalPhi(Phis[pc], cur, lat, execEdges)
  <2>1. /\ pc <= Len(Phis) /\ Phis[pc].dst \in Vers /\ new \in Lattice /\ cur \in execBlocks
        /\ Refine(Phis[pc].dst, new)
    <3>1. IsPhi(Phis[pc], Blocks) /\ pc <= Len(Phis)
      BY <1>0, <1>2, VisitFacts DEF VisitPhi
    <3> QED
      BY <1>0, <1>2, <3>1, EvalPhiType DEF VisitPhi, Visiting, IsPhi, TypeOK
  <2>2. UNCHANGED <<prog, execEdges, execBlocks, cur, phase>> /\ pc' = pc + 1 /\ phase = "analyse"
    BY <1>2 DEF VisitPhi, Visiting, round
  <2> HIDE DEF new
  <2>3. inBlockWl \subseteq inBlockWl'
    BY <2>1 DEF Refine, QueueBlocks, queue
  <2>4. ASSUME NEW b \in execBlocks, NEW k \in DOMAIN prog.insts[b], Behind(b, k)'
        PROVE  Settled(prog.insts[b][k], b, lat', execEdges)
    <3>1. b \notin inBlockWl' /\ b \in Blocks
      BY <1>0, <2>4 DEF Behind
    <3>2. b # cur
      BY <1>0, <2>1, <2>2, <2>4 DEF Behind, Phis
    <3>3. Behind(b, k)
      BY <2>3, <3>1, <3>2 DEF Behind
    <3>4. Settled(prog.insts[b][k], b, lat, execEdges)
      BY <2>4, <3>3 DEF SettledBehind
    <3> QED
      BY <1>0, <2>1, <3>1, <3>4, RefineSettles
  <2> QED
    BY <2>2, <2>4 DEF SettledBehind, Analysed
<1>3. CASE VisitDef
  <2> DEFINE new == EvalInst(CurInst, lat)
  <2>1. /\ CurInst.op \in DefOps /\ CurInst.dst \in Vers /\ new \in Lattice /\ cur \in execBlocks
        /\ Refine(CurInst.dst, new)
    <3>1. IsInst(CurInst, Blocks) /\ CurInst.op \in DefOps
      BY <1>0, <1>3, VisitFacts DEF VisitDef, AtInst
    <3> QED
      BY <1>0, <1>3, <3>1, EvalInstType DEF VisitDef, AtInst, Visiting, IsInst, TypeOK
  <2>2. UNCHANGED <<prog, execEdges, execBlocks, cur, phase>> /\ pc' = pc + 1 /\ phase = "analyse"
    BY <1>3 DEF VisitDef, AtInst, Visiting, round
  <2>3. inBlockWl \subseteq inBlockWl'
    BY <2>1 DEF Refine, QueueBlocks, queue
  <2>4. ASSUME NEW b \in execBlocks, NEW k \in DOMAIN prog.insts[b], Behind(b, k)'
        PROVE  Settled(prog.insts[b][k], b, lat', execEdges)
    <3>1. b \notin inBlockWl' /\ b \in Blocks
      BY <1>0, <2>4 DEF Behind
    <3>2. CASE Behind(b, k)
      <4>1. Settled(prog.insts[b][k], b, lat, execEdges)
        BY <2>4, <3>2 DEF SettledBehind
      <4> HIDE DEF new
      <4> QED
        BY <1>0, <2>1, <3>1, <4>1, RefineSettles
    <3>3. CASE ~Behind(b, k)
      <4>1. b = cur /\ k = pc - Len(Phis)
        BY <1>0, <2>2, <2>3, <2>4, <3>1, <3>3, JustVisited
      <4>2. prog.insts[b][k] = CurInst
        BY <4>1 DEF CurInst
      <4>3. new = EvalInst(prog.insts[b][k], lat)
        BY <4>2
      <4> HIDE DEF new
      <4> QED
        BY <1>0, <2>1, <2>4, <3>1, <4>2, <4>3, RefineSettles
    <3> QED
      BY <3>2, <3>3
  <2> QED
    BY <2>2, <2>4 DEF SettledBehind, Analysed
<1>4. CASE VisitJump
  <2> DEFINE ts == Range(LiveTargets(CurInst, lat))
  <2>1. /\ CurInst.op \in JumpOps /\ phase = "analyse"
        /\ execEdges' = execEdges \cup {<<cur, t>> : t \in ts}
        /\ execBlocks' = execBlocks \cup ts
        /\ inBlockWl' = inBlockWl \cup (ts \ execBlocks)
        /\ UNCHANGED <<prog, lat, cur, phase>> /\ pc' = pc + 1
    BY <1>4 DEF VisitJump, AtInst, Visiting, QueueBlocks
  <2>2. ASSUME NEW b \in execBlocks', NEW k \in DOMAIN prog.insts[b], Behind(b, k)'
        PROVE  Settled(prog.insts[b][k], b, lat, execEdges')
    <3>1. b \in execBlocks /\ b \in Blocks /\ b \notin inBlockWl
      BY <1>0, <2>1, <2>2 DEF Behind
    <3>2. CASE Behind(b, k)
      <4>1. Settled(prog.insts[b][k], b, lat, execEdges)
        BY <2>2, <3>1, <3>2 DEF SettledBehind
      <4> QED
        BY <2>1, <4>1 DEF Settled
    <3>3. CASE ~Behind(b, k)
      <4>1. b = cur /\ k = pc - Len(Phis)
        BY <1>0, <2>1, <2>2, <3>1, <3>3, JustVisited
      <4>2. prog.insts[b][k] = CurInst
        BY <4>1 DEF CurInst
      <4>3. CurInst.op \notin DefOps
        BY <2>1 DEF DefOps, PureOps, JumpOps
      <4> QED
        BY <2>1, <4>1, <4>2, <4>3 DEF Settled
    <3> QED
      BY <3>2, <3>3
  <2> HIDE DEF ts
  <2> QED
    BY <2>1, <2>2 DEF SettledBehind, Analysed
<1>5. CASE VisitOther
  <2>1. /\ CurInst.op \in OtherOps /\ phase = "analyse" /\ pc' = pc + 1
        /\ UNCHANGED <<prog, lat, execEdges, execBlocks, inBlockWl, cur, phase>>
    BY <1>5 DEF VisitOther, AtInst, Visiting, round, queue
  <2>2. ASSUME NEW b \in execBlocks, NEW k \in DOMAIN prog.insts[b], Behind(b, k)', ~Behind(b, k)
        PROVE  Settled(prog.insts[b][k], b, lat, execEdges)
    <3>1. b = cur /\ k = pc - Len(Phis)
      BY <1>0, <2>1, <2>2, JustVisited
    <3>2. prog.insts[b][k] = CurInst
      BY <3>1 DEF CurInst
    <3> QED
      BY <2>1, <3>2 DEF Settled, OtherOps, JumpOps, DefOps, PureOps
  <2> QED
    BY <2>1, <2>2 DEF SettledBehind, Analysed
<1>6. CASE LeaveBlock
  <2>1. /\ phase = "analyse" /\ cur' = 0 /\ pc > BodyLen
        /\ UNCHANGED <<prog, lat, execEdges, execBlocks, inBlockWl, phase>>
    BY <1>6 DEF LeaveBlock, Visiting, round, queue
  <2>2. ASSUME NEW b \in execBlocks, NEW k \in DOMAIN prog.insts[b], Behind(b, k)'
        PROVE  Behind(b, k)
    <3>1. b \in Blocks /\ b \notin inBlockWl
      BY <1>0, <2>1, <2>2 DEF Behind
    <3>2. k <= Len(prog.insts[b]) /\ k \in Nat
          /\ Len(prog.insts[b]) \in Nat /\ Len(prog.phis[b]) \in Nat /\ pc \in Nat
      BY <1>0, <3>1, ProgramFacts
    <3>3. ASSUME b = cur PROVE k + Len(prog.phis[b]) < pc
      <4>1. pc > Len(prog.phis[b]) + Len(prog.insts[b])
        BY <2>1, <3>3 DEF BodyLen, Phis
      <4> DEFINE m == Len(prog.phis[b])
                 n == Len(prog.insts[b])
      <4> HIDE DEF m, n
      <4>2. k <= n /\ k \in Nat /\ pc \in Nat /\ n \in Nat /\ m \in Nat /\ pc > m + n
        BY <3>2, <4>1 DEF m, n
      <4>3. k + m < pc
        BY <4>2
      <4> QED
        BY <4>3 DEF m
    <3> QED
      BY <3>1, <3>3 DEF Behind
  <2> QED
    BY <2>1, <2>2 DEF SettledBehind, Analysed
<1>7. CASE NextRound
  <2>1. execBlocks' = {Entry} /\ Entry \in inBlockWl' /\ phase' = "analyse"
    BY <1>7 DEF NextRound, RoundOver, QueueBlocks
  <2> QED
    BY <2>1 DEF SettledBehind, Behind, Analysed
<1>8. CASE DropDeadBlocks
  <2>1. /\ UNCHANGED <<prog, lat, execEdges, execBlocks, inBlockWl, cur, pc>>
        /\ cur = 0 /\ blockWl = <<>>
    BY <1>8 DEF DropDeadBlocks, RoundOver, round, queue
  <2>2. inBlockWl = {}
    BY <1>0, <2>1 DEF WorklistMirrored, Range
  <2> QED
    BY <2>1, <2>2 DEF SettledBehind, Behind
<1>9. CASE Rewrite
  <2>1. /\ UNCHANGED <<prog, lat, execEdges, execBlocks, inBlockWl, cur, pc>> /\ Analysed
    BY <1>9 DEF Rewrite, round, queue, Analysed
  <2> QED
    BY <2>1 DEF SettledBehind, Behind
<1>10. CASE UNCHANGED vars
  BY <1>10 DEF vars, round, queue, SettledBehind, Behind, Analysed
<1> QED
  BY <1>1, <1>2, <1>3, <1>4, <1>5, <1>6, <1>7, <1>8, <1>9, <1>10 DEF Next

LEMMA SettledIsFixpoint == ASSUME Inv, SettledBehind PROVE FixpointReached
<1> SUFFICES ASSUME Analysed, NEW b \in execBlocks, NEW k \in DOMAIN prog.insts[b]
             PROVE  Settled(prog.insts[b][k], b, lat, execEdges)
  BY DEF FixpointReached, Settled
<1>1. b \in Blocks /\ 0 \notin Blocks
  BY ProgramFacts DEF Inv, TypeOK
<1>2. Behind(b, k)
  BY <1>1 DEF SettledBehind, Behind
<1> QED
  BY <1>2 DEF SettledBehind

-----------------------------------------------------------------------------
(* The rounds after the first                                              *)

(* Nothing in the blocks B can refine a value or leave the edges E.        *)
Stable(B, E) ==
    /\ B \subseteq Blocks /\ Entry \in B /\ E \subseteq B \X B
    /\ \A b \in B : \A k \in DOMAIN prog.phis[b] :
         AtMost(EvalPhi(prog.phis[b][k], b, lat, E), lat[prog.phis[b][k].dst])
    /\ \A b \in B : \A k \in DOMAIN prog.insts[b] : Settled(prog.insts[b][k], b, lat, E)

LiveEdge(e) ==
    \E k \in DOMAIN prog.insts[e[1]] :
        /\ prog.insts[e[1]][k].op \in JumpOps
        /\ e[2] \in Range(LiveTargets(prog.insts[e[1]][k], lat))

(* A round that is not the first stays within a stable part and marks only *)
(* what is live for good.                                                  *)
Repeats ==
    prevEdges # None =>
        /\ \E B \in SUBSET Blocks, E \in SUBSET (Blocks \X Blocks) :
             Stable(B, E) /\ execBlocks \subseteq B /\ execEdges \subseteq E
        /\ inBlockWl \subseteq execBlocks
        /\ \A e \in execEdges : LiveEdge(e)
        /\ \A b \in execBlocks \ {Entry} : \E a \in execBlocks : <<a, b>> \in execEdges

Restarted ==
    /\ Repeats
    /\ Entry \in execBlocks
    /\ Analysed => prevEdges # None

(* A merge with what is covered already changes nothing.                   *)
LEMMA MergeIdle ==
    ASSUME NEW old \in Lattice, NEW new \in Lattice, AtMost(new, old)
    PROVE  MergeLattice(old, new) = old
BY DEF MergeLattice, AtMost

(* A phi that sees fewer edges is worth no more.                           *)
LEMMA FewerEdges ==
    ASSUME NEW l \in [Vers -> Lattice], NEW b, NEW blocks, NEW p, IsPhi(p, blocks),
           NEW E, NEW D, D \subseteq E
    PROVE  AtMost(EvalPhi(p, b, l, D), EvalPhi(p, b, l, E))
<1> DEFINE Vals(F) == {l[p.in[q]] : q \in {r \in DOMAIN p.in : <<r, b>> \in F}} \ {Top}
<1>1. Vals(D) \subseteq Vals(E)
  OBVIOUS
<1>2. \A F : EvalPhi(p, b, l, F) =
        IF Vals(F) = {} THEN Top
        ELSE IF \A x, y \in Vals(F) : x = y THEN CHOOSE x \in Vals(F) : TRUE ELSE Over
  BY DEF EvalPhi
<1> HIDE DEF Vals
<1>3. CASE Vals(D) = {}
  BY <1>2, <1>3 DEF AtMost
<1>4. CASE Vals(D) # {} /\ \A x, y \in Vals(E) : x = y
  <2>1. Vals(D) = Vals(E)
    BY <1>1, <1>4
  <2> QED
    BY <1>2, <2>1 DEF AtMost
<1>5. CASE Vals(D) # {} /\ ~ \A x, y \in Vals(E) : x = y
  <2>1. EvalPhi(p, b, l, E) = Over
    BY <1>1, <1>2, <1>5
  <2> QED
    BY <2>1 DEF AtMost
<1> QED
  BY <1>3, <1>4, <1>5

(* A refinement by something already covered leaves everything alone.      *)
LEMMA RefineIdle ==
    ASSUME TypeOK, NEW dst \in Vers, NEW new \in Lattice, Refine(dst, new), AtMost(new, lat[dst])
    PROVE  UNCHANGED <<lat, queue>>
<1>1. lat \in [Vers -> Lattice] /\ lat[dst] \in Lattice
  BY DEF TypeOK
<1>2. MergeLattice(lat[dst], new) = lat[dst]
  BY <1>1, MergeIdle
<1> QED
  BY <1>1, <1>2 DEF Refine

LEMMA InitRestarted == Init => Restarted
BY DEF Init, Restarted, Repeats, Analysed, Entry

(* The number of edges is a number, so a second round has been counted.    *)
LEMMA EdgesCounted ==
    ASSUME TypeOK PROVE Cardinality(execEdges) \in Nat /\ Cardinality(execEdges) # None
<1>1. IsFiniteSet(Blocks \X Blocks)
  BY ProgramFacts, FS_Product
<1>2. IsFiniteSet(execEdges)
  BY <1>1, FS_Subset DEF TypeOK
<1> QED
  BY <1>2, FS_CardinalityType, ConstantsAssumption

(* Where the visited phi or instruction stands in the function.            *)
LEMMA Visited ==
    ASSUME TypeOK, Visiting
    PROVE  /\ pc <= Len(Phis) => pc \in DOMAIN prog.phis[cur]
           /\ AtInst => pc - Len(Phis) \in DOMAIN prog.insts[cur]
<1>1. cur \in Blocks /\ pc \in Nat \ {0}
  BY DEF TypeOK, Visiting
<1>2. Len(Phis) \in Nat /\ DOMAIN Phis = 1..Len(Phis)
      /\ Len(prog.insts[cur]) \in Nat /\ DOMAIN prog.insts[cur] = 1..Len(prog.insts[cur])
  BY <1>1, ProgramFacts DEF Phis
<1> DEFINE m == Len(Phis)
           n == Len(prog.insts[cur])
<1> HIDE DEF m, n
<1>3. m \in Nat /\ n \in Nat /\ pc \in Nat \ {0}
  BY <1>1, <1>2 DEF m, n
<1>4. (pc <= m => pc \in 1..m) /\ (pc > m /\ pc <= m + n => pc - m \in 1..n)
  BY <1>3
<1> QED
  BY <1>2, <1>4 DEF AtInst, BodyLen, Phis, m, n

LEMMA SameFunction ==
    ASSUME UNCHANGED <<prog, lat>>
    PROVE  /\ \A B, E : Stable(B, E)' <=> Stable(B, E)
           /\ \A e : LiveEdge(e)' <=> LiveEdge(e)
           /\ Blocks' = Blocks
<1>1. Blocks' = Blocks
  BY DEF Blocks
<1>2. ASSUME NEW B, NEW E PROVE Stable(B, E)' <=> Stable(B, E)
  BY <1>1 DEF Stable, Settled, Entry
<1>3. ASSUME NEW e PROVE LiveEdge(e)' <=> LiveEdge(e)
  BY DEF LiveEdge
<1> QED
  BY <1>1, <1>2, <1>3

LEMMA StepRestarted ==
    Inv /\ SettledBehind /\ RoundsCover /\ Restarted /\ [Next]_vars
        => Restarted' /\ (prevEdges # None => lat' = lat)
<1> DEFINE Idle == prevEdges # None => lat' = lat
<1> SUFFICES ASSUME Inv, SettledBehind, RoundsCover, Restarted, [Next]_vars PROVE Restarted' /\ Idle
  OBVIOUS
<1>0. /\ TypeOK /\ WorklistMirrored /\ EdgesJoinLiveBlocks /\ 0 \notin Blocks
      /\ (cur # 0 => cur \in execBlocks) /\ lat \in [Vers -> Lattice]
      /\ execBlocks \subseteq Blocks
  BY ProgramFacts DEF Inv, TypeOK
<1>1. ASSUME UNCHANGED <<prog, lat, execEdges, execBlocks, prevEdges>>,
             prevEdges # None => inBlockWl' \subseteq execBlocks,
             Analysed' => Analysed \/ prevEdges # None
      PROVE  Restarted' /\ Idle
  <2>1. Repeats'
    <3> SUFFICES ASSUME prevEdges # None PROVE Repeats'
      BY <1>1 DEF Repeats
    <3>1. PICK B \in SUBSET Blocks, E \in SUBSET (Blocks \X Blocks) :
                 Stable(B, E) /\ execBlocks \subseteq B /\ execEdges \subseteq E
      BY DEF Restarted, Repeats
    <3>2. Stable(B, E)' /\ Blocks' = Blocks /\ \A e : LiveEdge(e)' <=> LiveEdge(e)
      BY <1>1, <3>1, SameFunction
    <3> QED
      BY <1>1, <3>1, <3>2 DEF Restarted, Repeats
  <2> QED
    BY <1>1, <2>1 DEF Restarted
<1>2. ASSUME prevEdges # None, cur \in execBlocks, NEW dst \in Vers, NEW new \in Lattice,
             Refine(dst, new), AtMost(new, lat[dst]),
             UNCHANGED <<prog, round, cur, prevEdges, phase, out>>
      PROVE  Restarted' /\ Idle
  <2>1. UNCHANGED <<lat, queue>>
    BY <1>0, <1>2, RefineIdle
  <2> QED
    BY <1>1, <1>2, <2>1 DEF Restarted, Repeats, round, queue, Analysed
<1>3. CASE Pop
  <2>1. cur' \in inBlockWl
    <3>1. cur' \in Range(blockWl)
      BY <1>0, <1>3, HeadTailProperties DEF Pop, TypeOK, Range
    <3> QED
      BY <1>0, <3>1 DEF WorklistMirrored
  <2>2. /\ UNCHANGED <<prog, lat, execEdges, prevEdges>> /\ phase' = phase /\ phase = "analyse"
        /\ execBlocks' = execBlocks \cup {cur'} /\ inBlockWl' \subseteq inBlockWl
    BY <1>3 DEF Pop
  <2>3. CASE prevEdges = None
    BY <2>2, <2>3 DEF Restarted, Repeats, Analysed
  <2>4. CASE prevEdges # None
    <3>1. cur' \in execBlocks
      BY <2>1, <2>4 DEF Restarted, Repeats
    <3>2. execBlocks' = execBlocks
      BY <2>2, <3>1
    <3> QED
      BY <1>1, <2>2, <2>4, <3>2 DEF Restarted, Repeats, Analysed
  <2> QED
    BY <2>3, <2>4
<1>4. CASE VisitPhi
  <2> DEFINE p   == Phis[pc]
             new == EvalPhi(p, cur, lat, execEdges)
  <2>1. IsPhi(p, Blocks) /\ p = prog.phis[cur][pc] /\ pc \in DOMAIN prog.phis[cur] /\ cur \in execBlocks
    BY <1>0, <1>4, VisitFacts, Visited DEF VisitPhi, Visiting, Phis
  <2>2. p.dst \in Vers /\ new \in Lattice
    BY <1>0, <2>1, EvalPhiType DEF IsPhi
  <2>3. Refine(p.dst, new) /\ UNCHANGED <<prog, round, cur, prevEdges, phase, out>> /\ phase = "analyse"
    BY <1>4 DEF VisitPhi, Visiting
  <2>4. CASE prevEdges = None
    BY <2>3, <2>4 DEF Restarted, Repeats, Analysed, round, Entry
  <2>5. CASE prevEdges # None
    <3>1. PICK B \in SUBSET Blocks, E \in SUBSET (Blocks \X Blocks) :
                 Stable(B, E) /\ execBlocks \subseteq B /\ execEdges \subseteq E
      BY <2>5 DEF Restarted, Repeats
    <3>2. AtMost(EvalPhi(p, cur, lat, E), lat[p.dst])
      BY <2>1, <3>1 DEF Stable
    <3>3. AtMost(new, EvalPhi(p, cur, lat, E))
      BY <1>0, <2>1, <3>1, FewerEdges
    <3>4. AtMost(new, lat[p.dst])
      BY <3>2, <3>3, AtMostTransitive
    <3> HIDE DEF new, p
    <3> QED
      BY <1>2, <2>1, <2>2, <2>3, <2>5, <3>4
  <2> QED
    BY <2>4, <2>5
<1>5. CASE VisitDef
  <2> DEFINE new == EvalInst(CurInst, lat)
  <2>1. /\ IsInst(CurInst, Blocks) /\ CurInst.op \in DefOps /\ cur \in execBlocks
        /\ CurInst = prog.insts[cur][pc - Len(Phis)] /\ pc - Len(Phis) \in DOMAIN prog.insts[cur]
    BY <1>0, <1>5, VisitFacts, Visited DEF VisitDef, AtInst, Visiting, CurInst
  <2>2. CurInst.dst \in Vers /\ new \in Lattice
    BY <1>0, <2>1, EvalInstType DEF IsInst
  <2>3. Refine(CurInst.dst, new) /\ UNCHANGED <<prog, round, cur, prevEdges, phase, out>> /\ phase = "analyse"
    BY <1>5 DEF VisitDef, AtInst, Visiting
  <2>4. CASE prevEdges = None
    BY <2>3, <2>4 DEF Restarted, Repeats, Analysed, round, Entry
  <2>5. CASE prevEdges # None
    <3>1. AtMost(new, lat[CurInst.dst])
      BY <2>1, <2>5 DEF Restarted, Repeats, Stable, Settled
    <3> HIDE DEF new
    <3> QED
      BY <1>2, <2>1, <2>2, <2>3, <2>5, <3>1
  <2> QED
    BY <2>4, <2>5
<1>6. CASE VisitJump
  <2> DEFINE k  == pc - Len(Phis)
             ts == Range(LiveTargets(CurInst, lat))
  <2>1. /\ CurInst.op \in JumpOps /\ cur \in execBlocks
        /\ CurInst = prog.insts[cur][k] /\ k \in DOMAIN prog.insts[cur]
    BY <1>0, <1>6, Visited DEF VisitJump, AtInst, Visiting, CurInst
  <2>2. /\ execEdges' = execEdges \cup {<<cur, t>> : t \in ts}
        /\ execBlocks' = execBlocks \cup ts
        /\ inBlockWl' = inBlockWl \cup (ts \ execBlocks)
        /\ UNCHANGED <<prog, lat, prevEdges, phase>> /\ phase = "analyse"
    BY <1>6 DEF VisitJump, AtInst, Visiting, QueueBlocks
  <2>3. CASE prevEdges = None
    BY <2>2, <2>3 DEF Restarted, Repeats, Analysed
  <2>4. CASE prevEdges # None
    <3>1. PICK B \in SUBSET Blocks, E \in SUBSET (Blocks \X Blocks) :
                 Stable(B, E) /\ execBlocks \subseteq B /\ execEdges \subseteq E
      BY <2>4 DEF Restarted, Repeats
    <3>2. {<<cur, t>> : t \in ts} \subseteq E
      BY <2>1, <3>1 DEF Stable, Settled
    <3>3. ts \subseteq B
      <4> SUFFICES ASSUME NEW t \in ts PROVE t \in B
        OBVIOUS
      <4>1. <<cur, t>> \in B \X B
        BY <3>1, <3>2 DEF Stable
      <4> QED
        BY <4>1
    <3>4. Stable(B, E)'
      BY <2>2, <3>1, SameFunction
    <3>5. \A t \in ts : LiveEdge(<<cur, t>>)
      BY <2>1 DEF LiveEdge
    <3> HIDE DEF ts, k
    <3>6. \A e \in execEdges' : LiveEdge(e)'
      <4>1. \A e \in execEdges' : LiveEdge(e)
        BY <2>2, <2>4, <3>5 DEF Restarted, Repeats
      <4> QED
        BY <2>2, <4>1 DEF LiveEdge
    <3>7. \A b \in execBlocks' \ {Entry} : \E a \in execBlocks' : <<a, b>> \in execEdges'
      <4> SUFFICES ASSUME NEW b \in execBlocks', b # Entry
                   PROVE  \E a \in execBlocks' : <<a, b>> \in execEdges'
        OBVIOUS
      <4>1. CASE b \in ts
        BY <2>1, <2>2, <4>1
      <4>2. CASE b \in execBlocks
        BY <2>2, <2>4, <4>2 DEF Restarted, Repeats
      <4> QED
        BY <2>2, <4>1, <4>2
    <3>8. inBlockWl' \subseteq execBlocks'
      BY <2>2, <2>4 DEF Restarted, Repeats
    <3>9. execBlocks' \subseteq B /\ execEdges' \subseteq E
      BY <2>2, <3>1, <3>2, <3>3
    <3>10. B \in SUBSET Blocks' /\ E \in (SUBSET (Blocks \X Blocks))'
      BY <2>2, <3>1 DEF Blocks
    <3>11. ~Analysed'
      BY <2>2 DEF Analysed
    <3>12. Repeats'
      BY <3>4, <3>6, <3>7, <3>8, <3>9, <3>10 DEF Repeats
    <3> QED
      BY <2>2, <3>11, <3>12 DEF Restarted
  <2> QED
    BY <2>3, <2>4
<1>7. CASE VisitOther
  BY <1>1, <1>7 DEF VisitOther, round, queue, Restarted, Repeats, Analysed
<1>8. CASE LeaveBlock
  BY <1>1, <1>8 DEF LeaveBlock, round, queue, Restarted, Repeats, Analysed
<1>9. CASE NextRound
  <2>1. /\ RoundOver /\ phase' = "analyse" /\ execEdges' = {} /\ execBlocks' = {Entry}
        /\ inBlockWl' = inBlockWl \cup {Entry} /\ UNCHANGED <<prog, lat>>
    BY <1>9 DEF NextRound, QueueBlocks, RoundOver
  <2>2. inBlockWl = {} /\ cur = 0
    BY <1>0, <2>1 DEF RoundOver, WorklistMirrored, Range
  <2>3. \A b \in execBlocks : \A k \in DOMAIN prog.insts[b] : Settled(prog.insts[b][k], b, lat, execEdges)
    BY <1>0, <2>2 DEF SettledBehind, Behind
  <2>4. Stable(execBlocks, execEdges)
    BY <1>0, <2>1, <2>3 DEF Stable, RoundsCover, EdgesJoinLiveBlocks, Restarted
  <2>5. PICK B \in SUBSET Blocks, E \in SUBSET (Blocks \X Blocks) :
               B = execBlocks /\ E = execEdges /\ Stable(B, E)
    BY <1>0, <2>4 DEF TypeOK
  <2>6. Stable(B, E)' /\ Entry \in B /\ B \in SUBSET Blocks' /\ E \in (SUBSET (Blocks \X Blocks))'
    BY <2>1, <2>5 DEF Stable, Settled, Blocks
  <2> QED
    BY <2>1, <2>2, <2>6 DEF Restarted, Repeats, Analysed
<1>10. CASE DropDeadBlocks
  <2>1. prevEdges # None
    BY <1>0, <1>10, EdgesCounted DEF DropDeadBlocks
  <2> QED
    BY <1>1, <1>10, <2>1 DEF DropDeadBlocks, round, queue, Restarted, Repeats
<1>11. CASE Rewrite
  BY <1>1, <1>11 DEF Rewrite, round, queue, Restarted, Repeats, Analysed
<1>12. CASE UNCHANGED vars
  BY <1>1, <1>12 DEF vars, round, queue, Restarted, Repeats, Analysed
<1> QED
  BY <1>3, <1>4, <1>5, <1>6, <1>7, <1>8, <1>9, <1>10, <1>11, <1>12 DEF Next

-----------------------------------------------------------------------------
(* The invariant holds of every call of the pass on any SSA function.      *)
THEOREM Invariance == Spec => []Inv
<1> QED
  BY InitInv, StepInv, PTL DEF Spec

(* The variables keep their types throughout the analysis and the rewrite  *)
(* (the state of sccp(), sccp.rs:57-262).                                  *)
THEOREM TypeCorrect == Spec => []TypeOK
<1>1. Inv => TypeOK
  BY DEF Inv
<1> QED
  BY <1>1, Invariance, PTL

(* block_wl and in_block_wl always hold the same blocks, none twice        *)
(* (sccp.rs:82-90, 106, 281, 328).                                         *)
THEOREM WorklistIsMirrored == Spec => []WorklistMirrored
<1>1. Inv => WorklistMirrored
  BY DEF Inv
<1> QED
  BY <1>1, Invariance, PTL

(* Both ends of an executable edge are executable (mark_edge, the resets   *)
(* at the start of a round).                                               *)
THEOREM EdgesAreLive == Spec => []EdgesJoinLiveBlocks
<1>1. Inv => EdgesJoinLiveBlocks
  BY DEF Inv
<1> QED
  BY <1>1, Invariance, PTL

(* No step of the pass lowers a lattice value (merge_lattice), whatever    *)
(* the order of the visits and the number of rounds.                       *)
THEOREM LatticeOnlyClimbs == Spec => LatticeClimbs
<1>1. Inv /\ [Next]_vars => [\A v \in Vers : AtMost(lat[v], lat'[v])]_vars
  BY StepInv
<1> QED
  BY <1>1, Invariance, PTL DEF Spec, LatticeClimbs

(* When the rounds stop because two of them marked as many edges, nothing  *)
(* a live block would still mark or refine is left (sccp.rs:94-105), for   *)
(* every function and every order of visits.                               *)
THEOREM FixpointIsReached == Spec => []FixpointReached
<1>1. Inv /\ SettledBehind => FixpointReached
  BY SettledIsFixpoint
<1>2. Spec => []SettledBehind
  BY Invariance, InitSettled, StepSettled, PTL DEF Spec
<1> QED
  BY <1>1, <1>2, Invariance, PTL

(* An edge marked while its condition was unknown does not survive the     *)
(* restarts (sccp.rs:94-98), whatever the function and the order of the    *)
(* visits, if every round leaves phis that have seen all of its edges.     *)
(* Without that it may: the family Guesses of MCSccp is a function of which*)
(* two rounds mark as many edges though the second learnt something.       *)
THEOREM GuessesAreDropped == Spec /\ []RoundsCover => []NoSpeculativeEdges
<1>1. Restarted => NoSpeculativeEdges
  BY DEF Restarted, Repeats, LiveEdge, NoSpeculativeEdges
<1>2. Spec => []SettledBehind
  BY Invariance, InitSettled, StepSettled, PTL DEF Spec
<1>3. Spec /\ []RoundsCover => []Restarted
  BY <1>2, Invariance, InitRestarted, StepRestarted, PTL DEF Spec
<1> QED
  BY <1>1, <1>3, PTL

(* Under the same condition only the first round learns: from the second   *)
(* on no lattice value changes (the loop over the rounds, sccp.rs:99-170). *)
LaterRoundsLearnNothing == [][prevEdges # None => lat' = lat]_vars

THEOREM RoundsSettle == Spec /\ []RoundsCover => LaterRoundsLearnNothing
<1>1. Spec => []SettledBehind
  BY Invariance, InitSettled, StepSettled, PTL DEF Spec
<1>2. Spec /\ []RoundsCover => []Restarted
  BY <1>1, Invariance, InitRestarted, StepRestarted, PTL DEF Spec
<1>3. Inv /\ SettledBehind /\ RoundsCover /\ Restarted /\ [Next]_vars
        => [prevEdges # None => lat' = lat]_vars
  BY StepRestarted
<1> QED
  BY <1>1, <1>2, <1>3, Invariance, PTL DEF Spec, LaterRoundsLearnNothing
=============================================================================
