--------------------------- MODULE DataflowProofs ---------------------------
(***************************************************************************)
(* Proofs about Dataflow, for every set of functions, every variable set   *)
(* and every budget.  First the worklist solver: the types, that no fact   *)
(* is invented, and that what the solver can miss is confined.  Then the   *)
(* value sets: that they are settled, and that executions stay in them.    *)
(***************************************************************************)
EXTENDS Dataflow, FiniteSetTheorems, SequenceTheorems, TLAPS

(* The moved fact of a block is the transfer of its merged fact, except before
   the first visit of a block off the boundary; then all later blocks are on
   the worklist, for the smallest is always taken first. *)
MovedFollows ==
    Solving => \A b \in Blocks :
        \/ moved[b] = Transfer(stage, b, merged[b])
        \/ /\ merged[b] = {} /\ moved[b] = {} /\ b \notin Boundary(stage)
           /\ \A a \in Blocks : b <= a => a \in queue

(* Inductive: what the moved fact of a block is at any moment, besides the
   properties themselves. *)
IInv == TypeOK /\ MovedFollows /\ NothingInvented /\ StaleConfined

-----------------------------------------------------------------------------
(***************************************************************************)
(* The function under analysis                                             *)
(***************************************************************************)
LEMMA FunctionShape ==
    ASSUME func \in FunctionSet
    PROVE  /\ Blocks \subseteq Int /\ 1 \in Blocks
           /\ \A b \in Blocks : Succs(b) \subseteq Blocks /\ Preds(b) \subseteq Blocks
<1>1. IsFunction(func)
  BY FunctionsAssumption
<1>2. Blocks = 1..Len(func.insts) /\ Len(func.insts) \in Nat \ {0}
  BY <1>1 DEF IsFunction, Blocks
<1>3. \A b \in Blocks : Succs(b) \subseteq Blocks
  BY <1>1, <1>2 DEF IsFunction, Succs
<1> QED
  BY <1>2, <1>3 DEF Preds

(* What a framework adds to a fact is a definition of the function, or a
   variable: the universe the facts of that stage live in. *)
Universe(st) == IF st = "reaching" THEN AllDefs ELSE Vars

LEMMA TransferStays ==
    ASSUME NEW st \in {"reaching", "live"}, NEW b \in Blocks, NEW fact, fact \subseteq Universe(st)
    PROVE  Transfer(st, b, fact) \subseteq Universe(st)
<1>1. Gen(b) \subseteq AllDefs
  BY DEF Gen, AllDefs
<1>2. Use(b) \subseteq Vars
  BY DEF Use
<1> QED
  BY <1>1, <1>2 DEF Transfer, Own, Universe

LEMMA DepsAreBlocks ==
    ASSUME func \in FunctionSet, NEW st, NEW b \in Blocks
    PROVE  Deps(st, b) \subseteq Blocks
BY FunctionShape DEF Deps

-----------------------------------------------------------------------------
(***************************************************************************)
(* Paths                                                                   *)
(***************************************************************************)
(* A definition a block lets through reaches the blocks behind it. *)
LEMMA ReachedBehind ==
    ASSUME func \in FunctionSet, NEW p \in Blocks, NEW b \in Succs(p), NEW d \in AllDefs,
           d \in Gen(p) \/ (p \in Reached(d) /\ d \notin Kill(p))
    PROVE  b \in Reached(d)
<1> DEFINE Open(S) == /\ d \in Gen(d[2]) => Succs(d[2]) \subseteq S
                      /\ \A x \in S : ~Defines(x, d[1]) => Succs(x) \subseteq S
<1>1. b \in Blocks
  BY FunctionShape
<1>2. ASSUME NEW S \in SUBSET Blocks, Open(S) PROVE b \in S
  <2>1. CASE d \in Gen(p)
    <3>1. d[2] = p
      BY <2>1 DEF Gen, DefsOf
    <3> QED
      BY <2>1, <3>1, <1>2
  <2>2. CASE d \notin Gen(p)
    <3>1. p \in S
      BY <1>2, <2>2 DEF Reached
    <3>2. ~Defines(p, d[1])
      BY <2>2 DEF Kill
    <3> QED
      BY <3>1, <3>2, <1>2
  <2> QED
    BY <2>1, <2>2
<1> QED
  BY <1>1, <1>2 DEF Reached

(* A variable a block reads first, or leaves to a successor that needs it, is
   needed where the block begins. *)
LEMMA NeededBefore ==
    ASSUME NEW b \in Blocks, NEW v,
           v \in Use(b) \/ (v \notin Def(b) /\ v \in Vars /\ Succs(b) \cap Needed(v) # {})
    PROVE  b \in Needed(v)
<1> DEFINE Open(S) == \A x \in Blocks :
                        v \in Use(x) \/ (~Defines(x, v) /\ Succs(x) \cap S # {}) => x \in S
<1>1. ASSUME NEW S \in SUBSET Blocks, Open(S) PROVE b \in S
  <2>1. CASE v \in Use(b)
    BY <1>1, <2>1
  <2>2. CASE v \notin Def(b) /\ v \in Vars /\ Succs(b) \cap Needed(v) # {}
    <3>1. PICK s \in Succs(b) : s \in Needed(v)
      BY <2>2
    <3>2. s \in S
      BY <1>1, <3>1 DEF Needed
    <3>3. ~Defines(b, v)
      BY <2>2 DEF Def
    <3> QED
      BY <1>1, <3>2, <3>3
  <2> QED
    BY <2>1, <2>2
<1> QED
  BY <1>1 DEF Needed

-----------------------------------------------------------------------------
(***************************************************************************)
(* The steps                                                               *)
(***************************************************************************)
(* What is read off the function does not change while the function does not. *)
LEMMA FunctionKept ==
    ASSUME func' = func
    PROVE  /\ Blocks' = Blocks /\ AllDefs' = AllDefs
           /\ \A b : Succs(b)' = Succs(b) /\ Gen(b)' = Gen(b)
           /\ \A st : Boundary(st)' = Boundary(st)
           /\ \A st, b : Deps(st, b)' = Deps(st, b)
           /\ \A st, b, fact : Transfer(st, b, fact)' = Transfer(st, b, fact)
           /\ \A d : Reached(d)' = Reached(d)
           /\ \A v : Needed(v)' = Needed(v)
<1>1. Blocks' = Blocks /\ \A b : Code(b)' = Code(b) /\ Succs(b)' = Succs(b)
  BY DEF Blocks, Code, Succs
<1>2. \A b : DefsOf(b)' = DefsOf(b)
  BY <1>1 DEF DefsOf
<1>3. AllDefs' = AllDefs
  BY <1>1, <1>2 DEF AllDefs
<1>4. \A b, v : Defines(b, v)' <=> Defines(b, v)
  BY <1>1 DEF Defines
<1>5. \A b : Gen(b)' = Gen(b)
  BY <1>1, <1>2 DEF Gen
<1>6. \A b : Kill(b)' = Kill(b)
  BY <1>3, <1>4, <1>5 DEF Kill
<1>7. \A b : Use(b)' = Use(b)
  BY <1>1 DEF Use, Sources
<1>8. \A b : Def(b)' = Def(b)
  BY <1>4 DEF Def
<1>9. \A st, b : Deps(st, b)' = Deps(st, b)
  BY <1>1 DEF Deps, Preds
<1>10. \A st : Boundary(st)' = Boundary(st)
  BY <1>1 DEF Boundary
<1>11. \A st, b, fact : Transfer(st, b, fact)' = Transfer(st, b, fact)
  BY <1>5, <1>6, <1>7, <1>8 DEF Transfer, Own, Lost
<1>12. \A d : Reached(d)' = Reached(d)
  BY <1>1, <1>4, <1>5 DEF Reached
<1>13. \A v : Needed(v)' = Needed(v)
  BY <1>1, <1>4, <1>7 DEF Needed
<1> QED
  BY <1>1, <1>3, <1>5, <1>9, <1>10, <1>11, <1>12, <1>13

(* A solver about to start: only the boundary has facts. *)
LEMMA FreshSolver ==
    ASSUME func \in FunctionSet, NEW st \in {"reaching", "live"}, stage = st,
           merged = NoFacts, moved = Seeds(st), queue = Blocks, visits = 0
    PROVE  IInv
<1>1. \A b \in Blocks : merged[b] = {} /\ moved[b] \in {Transfer(st, b, {}), {}}
  BY DEF NoFacts, Seeds
<1>2. \A b \in Blocks : moved[b] \subseteq Universe(st)
  BY <1>1, TransferStays
<1>3. TypeOK
  BY <1>1, <1>2, FunctionsAssumption DEF TypeOK, NoFacts, Seeds, Universe
<1>4. MovedFollows
  BY <1>1 DEF MovedFollows, Seeds
<1>5. NothingInvented /\ StaleConfined
  BY <1>1 DEF NothingInvented, StaleConfined
<1> QED
  BY <1>3, <1>4, <1>5 DEF IInv

LEMMA InitIInv == Init => IInv
<1> SUFFICES ASSUME Init PROVE IInv
  OBVIOUS
<1> QED
  BY FreshSolver DEF Init, InitSolver

LEMMA BeginLiveIInv == ASSUME IInv, BeginLive PROVE IInv'
<1>1. func \in FunctionSet /\ func' = func
  BY DEF IInv, TypeOK, BeginLive
<1>2. /\ stage' = "live" /\ merged' = NoFacts /\ moved' = Seeds("live")
      /\ queue' = Blocks /\ visits' = 0
  BY DEF BeginLive
<1>3. \A b \in Blocks : merged'[b] = {} /\ moved'[b] \in {Transfer("live", b, {}), {}}
  BY <1>2 DEF NoFacts, Seeds
<1>4. \A b \in Blocks : moved'[b] \subseteq Vars
  BY <1>3, TransferStays DEF Universe
<1>5. TypeOK'
  BY <1>1, <1>2, <1>3, <1>4, FunctionKept, FunctionsAssumption DEF TypeOK, NoFacts, Seeds
<1>6. MovedFollows'
  BY <1>1, <1>2, <1>3, FunctionKept DEF MovedFollows, Seeds
<1>7. NothingInvented' /\ StaleConfined'
  BY <1>1, <1>2, <1>3, FunctionKept DEF NothingInvented, StaleConfined
<1> QED
  BY <1>5, <1>6, <1>7 DEF IInv

LEMMA VisitIInv == ASSUME IInv, NEW b \in queue, Visit(b) PROVE IInv'
<1> DEFINE fact == UNION {moved[d] : d \in Deps(stage, b)}
<1>1. /\ func \in FunctionSet /\ func' = func /\ stage' = stage
      /\ stage \in {"reaching", "live"} /\ b \in Blocks
  BY DEF IInv, TypeOK, Visit, Solving
<1>2. /\ \A a \in queue : b <= a
      /\ merged' = [merged EXCEPT ![b] = fact]
      /\ moved' = [moved EXCEPT ![b] = Transfer(stage, b, fact)]
      /\ queue' = (queue \ {b}) \cup (IF fact # merged[b] THEN Dependents(stage, b) ELSE {})
      /\ visits < MaxVisits /\ visits' = visits + 1
  BY DEF Visit, IsFirst
<1>3. DOMAIN merged = Blocks /\ DOMAIN moved = Blocks /\ queue \subseteq Blocks
  BY DEF IInv, TypeOK
<1>4. Deps(stage, b) \subseteq Blocks /\ Dependents(stage, b) \subseteq Blocks
  BY <1>1, DepsAreBlocks DEF Dependents, Readers
<1>5. \A a \in Blocks : merged[a] \subseteq Universe(stage) /\ moved[a] \subseteq Universe(stage)
  BY DEF IInv, TypeOK, Universe
<1>6. fact \subseteq Universe(stage)
  BY <1>4, <1>5
<1>7. Transfer(stage, b, fact) \subseteq Universe(stage)
  BY <1>1, <1>6, TransferStays
<1> HIDE DEF fact
<1>8. TypeOK'
  <2>1. \A a \in Blocks : merged'[a] \subseteq Universe(stage) /\ moved'[a] \subseteq Universe(stage)
    BY <1>2, <1>3, <1>5, <1>6, <1>7
  <2>2. visits' \in 0..MaxVisits
    BY <1>2, FunctionsAssumption DEF IInv, TypeOK
  <2>3. queue' \subseteq Blocks
    BY <1>2, <1>3, <1>4
  <2>4. DOMAIN merged' = Blocks /\ DOMAIN moved' = Blocks
    BY <1>2, <1>3
  <2> QED
    BY <1>1, <2>1, <2>2, <2>3, <2>4, FunctionKept DEF TypeOK, Universe
<1>9. MovedFollows'
  <2> SUFFICES ASSUME NEW a \in Blocks
               PROVE  \/ moved'[a] = Transfer(stage, a, merged'[a])
                      \/ /\ merged'[a] = {} /\ moved'[a] = {} /\ a \notin Boundary(stage)
                         /\ \A c \in Blocks : a <= c => c \in queue'
    BY <1>1, FunctionKept DEF MovedFollows, Solving
  <2>1. CASE a = b
    BY <1>2, <1>3, <2>1
  <2>2. CASE a # b
    <3>1. merged'[a] = merged[a] /\ moved'[a] = moved[a]
      BY <1>2, <1>3, <2>2
    <3>2. CASE moved[a] = Transfer(stage, a, merged[a])
      BY <3>1, <3>2
    <3>3. CASE moved[a] # Transfer(stage, a, merged[a])
      <4>1. /\ merged[a] = {} /\ moved[a] = {} /\ a \notin Boundary(stage)
            /\ \A c \in Blocks : a <= c => c \in queue
        BY <1>1, <3>3 DEF IInv, MovedFollows, Solving
      <4>2. a \in queue /\ a \in Int /\ b \in Int
        BY <1>1, <4>1, FunctionShape
      <4>3. \A c \in Blocks : a <= c => c # b
        BY <1>2, <2>2, <4>2
      <4> QED
        BY <1>2, <3>1, <4>1, <4>3
    <3> QED
      BY <3>2, <3>3
  <2> QED
    BY <2>1, <2>2
<1>10. NothingInvented'
  <2>1. ASSUME stage = "reaching", NEW d \in fact PROVE b \in Reached(d)
    <3>1. PICK p \in Deps(stage, b) : d \in moved[p]
      BY <2>1 DEF fact
    <3>2. p \in Blocks /\ b \in Succs(p)
      BY <1>4, <2>1, <3>1 DEF Deps, Preds
    <3>3. moved[p] = Transfer(stage, p, merged[p])
      BY <1>1, <3>1, <3>2 DEF IInv, MovedFollows, Solving
    <3>4. d \in Gen(p) \/ (d \in merged[p] /\ d \notin Kill(p))
      BY <2>1, <3>1, <3>3 DEF Transfer, Own, Lost
    <3>5. d \in merged[p] => p \in Reached(d)
      BY <2>1, <3>2 DEF IInv, NothingInvented
    <3>6. d \in AllDefs
      BY <1>5, <2>1, <3>1, <3>2 DEF Universe
    <3> QED
      BY <1>1, <3>2, <3>4, <3>5, <3>6, ReachedBehind
  <2>2. ASSUME stage = "live", NEW v \in fact PROVE Succs(b) \cap Needed(v) # {}
    <3>1. PICK s \in Deps(stage, b) : v \in moved[s]
      BY <2>2 DEF fact
    <3>2. s \in Blocks /\ s \in Succs(b)
      BY <1>4, <2>2, <3>1 DEF Deps
    <3>3. moved[s] = Transfer(stage, s, merged[s])
      BY <1>1, <3>1, <3>2 DEF IInv, MovedFollows, Solving
    <3>4. v \in Use(s) \/ (v \in merged[s] /\ v \notin Def(s))
      BY <2>2, <3>1, <3>3 DEF Transfer, Own, Lost
    <3>5. v \in merged[s] => Succs(s) \cap Needed(v) # {}
      BY <2>2, <3>2 DEF IInv, NothingInvented
    <3>6. v \in Vars
      BY <1>5, <2>2, <3>1, <3>2 DEF Universe
    <3>7. s \in Needed(v)
      BY <3>2, <3>4, <3>5, <3>6, NeededBefore
    <3> QED
      BY <3>2, <3>7
  <2>3. \A a \in Blocks : merged'[a] = IF a = b THEN fact ELSE merged[a]
    BY <1>2, <1>3
  <2>4. ASSUME NEW a \in Blocks
        PROVE  /\ stage = "reaching" => \A d \in merged'[a] : a \in Reached(d)
               /\ stage = "live" => \A v \in merged'[a] : Succs(a) \cap Needed(v) # {}
    BY <2>1, <2>2, <2>3 DEF IInv, NothingInvented
  <2> QED
    BY <1>1, <2>4, FunctionKept DEF NothingInvented
<1>11. StaleConfined'
  <2> SUFFICES ASSUME NEW a \in Blocks \ queue', NEW d \in Deps(stage, a)
               PROVE  \/ moved'[d] \subseteq merged'[a]
                      \/ merged'[d] = {} /\ a <= d /\ d \notin Boundary(stage)
    BY <1>1, FunctionKept DEF StaleConfined, Solving
  <2>1. d \in Blocks
    BY <1>1, DepsAreBlocks
  <2>2. CASE d # b
    <3>1. moved'[d] = moved[d] /\ merged'[d] = merged[d]
      BY <1>2, <1>3, <2>1, <2>2
    <3>2. CASE a = b
      BY <1>2, <1>3, <1>1, <3>1, <3>2 DEF fact
    <3>3. CASE a # b
      <4>1. a \in Blocks \ queue /\ merged'[a] = merged[a]
        BY <1>2, <1>3, <3>3
      <4> QED
        BY <1>1, <3>1, <4>1 DEF IInv, StaleConfined, Solving
    <3> QED
      BY <3>2, <3>3
  <2>3. CASE d = b
    <3>1. merged'[b] = fact /\ moved'[b] = Transfer(stage, b, fact)
      BY <1>1, <1>2, <1>3
    <3>2. fact = merged[b]
      \* otherwise the reader a would have been queued
      BY <1>2, <2>3 DEF Dependents, Readers
    <3>3. CASE moved[b] = Transfer(stage, b, merged[b])
      <4>1. moved'[b] = moved[b] /\ merged'[b] = merged[b]
        BY <3>1, <3>2, <3>3
      <4>2. merged'[a] = merged[a]
        BY <1>2, <1>3, <3>2
      <4>3. CASE a = b
        <5>1. moved[d] \subseteq fact
          BY <4>3 DEF fact
        <5> QED
          BY <2>3, <4>1, <4>2, <4>3, <5>1, <3>2
      <4>4. CASE a # b
        <5>1. a \in Blocks \ queue
          BY <1>2, <4>4
        <5> QED
          BY <1>1, <2>3, <4>1, <4>2, <5>1 DEF IInv, StaleConfined, Solving
      <4> QED
        BY <4>3, <4>4
    <3>4. CASE moved[b] # Transfer(stage, b, merged[b])
      <4>1. /\ merged[b] = {} /\ b \notin Boundary(stage)
            /\ \A c \in Blocks : b <= c => c \in queue
        BY <1>1, <3>4 DEF IInv, MovedFollows, Solving
      <4>2. a <= b
        <5>1. a \in Int /\ b \in Int
          BY <1>1, FunctionShape
        <5>2. CASE a = b
          BY <5>1, <5>2
        <5>3. CASE a # b
          <6>1. a \notin queue
            BY <1>2, <5>3
          <6> QED
            BY <4>1, <5>1, <6>1
        <5> QED
          BY <5>2, <5>3
      <4> QED
        BY <2>3, <3>1, <3>2, <4>1, <4>2
    <3> QED
      BY <3>3, <3>4
  <2> QED
    BY <2>2, <2>3
<1> QED
  BY <1>8, <1>9, <1>10, <1>11 DEF IInv

(* The value-set analysis and the execution leave the solver's facts alone. *)
LEMMA OtherIInv ==
    ASSUME IInv, func' = func, UNCHANGED solver,
           stage' = stage \/ (stage # "reaching" /\ stage' \in {"values", "done"})
    PROVE  IInv'
<1>1. merged' = merged /\ moved' = moved /\ queue' = queue /\ visits' = visits
  BY DEF solver
<1>2. TypeOK'
  BY <1>1, FunctionKept DEF IInv, TypeOK
<1>3. CASE stage' = stage
  BY <1>1, <1>2, <1>3, FunctionKept
     DEF IInv, MovedFollows, NothingInvented, StaleConfined, Solving
<1>4. CASE stage' \in {"values", "done"}
  BY <1>2, <1>4 DEF IInv, MovedFollows, NothingInvented, StaleConfined, Solving
<1> QED
  BY <1>3, <1>4

LEMMA NextIInv == IInv /\ [Next]_vars => IInv'
<1> SUFFICES ASSUME IInv, [Next]_vars PROVE IInv'
  OBVIOUS
<1>1. CASE VisitBlock
  BY <1>1, VisitIInv DEF VisitBlock
<1>2. CASE StartLive
  BY <1>2, BeginLiveIInv DEF StartLive
<1>3. CASE StartValues
  BY <1>3, OtherIInv DEF StartValues
<1>4. CASE VisitState
  BY <1>4, OtherIInv DEF VisitState, VisitValues
<1>5. CASE Finish
  BY <1>5, OtherIInv DEF Finish
<1>6. CASE RunBlock
  BY <1>6, OtherIInv DEF RunBlock
<1>7. CASE UNCHANGED vars
  BY <1>7, OtherIInv DEF vars
<1> QED
  BY <1>1, <1>2, <1>3, <1>4, <1>5, <1>6, <1>7 DEF Next

THEOREM Invariance == Spec => []IInv
<1> QED
  BY InitIInv, NextIInv, PTL DEF Spec

(* The facts of either analysis are definitions or variables of the function
   and the solver never visits more often than it may
   (WorklistSolver::solve). *)
THEOREM TypeCorrect == Spec => []TypeOK
<1>1. IInv => TypeOK
  BY DEF IInv
<1> QED
  BY Invariance, <1>1, PTL

(* No definition and no live variable is reported that no path of the function
   accounts for, whatever the function and wherever the solver gives up. *)
THEOREM NothingIsInvented == Spec => []NothingInvented
<1>1. IInv => NothingInvented
  BY DEF IInv
<1> QED
  BY Invariance, <1>1, PTL

(* A block off the worklist misses a fact of a dependency only if that
   dependency was first visited no earlier and has an empty merged fact. *)
THEOREM StaleIsConfined == Spec => []StaleConfined
<1>1. IInv => StaleConfined
  BY DEF IInv
<1> QED
  BY Invariance, <1>1, PTL

-----------------------------------------------------------------------------
(***************************************************************************)
(* Abstract values                                                         *)
(***************************************************************************)
Values == {Bottom, Top} \cup {Const(c) : c \in Ints} \cup {Between(l, h) : l \in Ints, h \in Ints}

(* A state knows some of the variables. *)
IsState(s) == DOMAIN s \subseteq Vars /\ \A v \in DOMAIN s : s[v] \in Values

(* The variables a state knows have values it allows. *)
Covers(s, e) == \A v \in DOMAIN s : e[v] \in Gamma(s[v])

LEMMA LeastNat ==
    ASSUME NEW S \in SUBSET Nat, S # {}
    PROVE  \E n \in S : \A m \in S : n <= m
<1>1. PICK n \in S : \A m \in S : <<m, n>> \notin OpToRel(<, Nat)
  BY NatLessThanWellFounded, WFMin, Zenon
<1>2. \A m \in S : ~(m < n)
  BY <1>1 DEF OpToRel
<1> QED
  BY <1>2

LEMMA WrapFacts ==
    ASSUME NEW n \in Int
    PROVE  /\ Wrap(n) \in Ints
           /\ \E q \in Int : n = Wrap(n) + q * (2 * Half)
<1> DEFINE D == 2 * Half
           a == n + Half
<1>1. D \in Nat \ {0} /\ a \in Int /\ Half \in Nat
  BY ValueSetsAssumption
<1>2. a \div D \in Int /\ a % D \in 0 .. D - 1 /\ a = D * (a \div D) + (a % D)
  <2> HIDE DEF a, D
  <2> QED
    BY <1>1
<1>3. Wrap(n) = (a % D) - Half
  BY DEF Wrap
<1>4. (a \div D) * D = D * (a \div D)
  BY <1>1, <1>2
<1> DEFINE q == a \div D
           r == a % D
<1>5. q \in Int /\ r \in 0 .. D - 1 /\ a = q * D + r /\ Wrap(n) = r - Half
  BY <1>2, <1>3, <1>4
<1> HIDE DEF q, r
<1>6. n = Wrap(n) + q * D
  <2>1. q * D \in Int
    BY <1>1, <1>5
  <2> QED
    BY <1>1, <1>5, <2>1
<1>7. Wrap(n) \in Ints
  BY <1>1, <1>5 DEF Ints
<1> QED
  BY <1>5, <1>6, <1>7

(* Multiples of the width of the integers that lie less than it apart are  *)
(* the same.                                                               *)
LEMMA OneTurn ==
    ASSUME NEW p \in Int, NEW q \in Int, NEW D \in Nat \ {0}, p * D - q * D < D, q * D - p * D < D
    PROVE  p * D = q * D
<1>1. CASE p = q
  BY <1>1
<1>2. ASSUME NEW x \in Int, NEW y \in Int, x > y PROVE x * D - y * D >= D
  <2>1. x - y - 1 \in Nat
    BY <1>2
  <2>2. (x - y - 1) * D \in Nat
    BY <2>1
  <2>3. (x - y - 1) * D = x * D - y * D - D
    OBVIOUS
  <2> QED
    BY <2>2, <2>3
<1>3. CASE p > q
  BY <1>2, <1>3
<1>4. CASE q > p
  BY <1>2, <1>4
<1> QED
  BY <1>1, <1>3, <1>4

(* Wrapping keeps the order between two numbers it does not move apart.    *)
LEMMA WrapBetween ==
    ASSUME NEW m \in Int, NEW n \in Int, NEW x \in Int, m <= x, x <= n, Wrap(n) - Wrap(m) = n - m
    PROVE  Wrap(x) \in Wrap(m) .. Wrap(n)
<1> DEFINE D == 2 * Half
<1>1. D \in Nat \ {0} /\ Half \in Nat \ {0}
  BY ValueSetsAssumption
<1>2. /\ Wrap(m) \in Int /\ -Half <= Wrap(m) /\ Wrap(m) <= Half - 1
      /\ Wrap(n) \in Int /\ -Half <= Wrap(n) /\ Wrap(n) <= Half - 1
      /\ Wrap(x) \in Int /\ -Half <= Wrap(x) /\ Wrap(x) <= Half - 1
  <2>1. Wrap(m) \in Ints /\ Wrap(n) \in Ints /\ Wrap(x) \in Ints
    BY WrapFacts
  <2>2. \A z \in Ints : z \in Int /\ -Half <= z /\ z <= Half - 1
    BY <1>1 DEF Ints
  <2> QED
    BY <2>1, <2>2
<1>3. PICK p \in Int : m = Wrap(m) + p * D
  BY WrapFacts
<1>4. PICK q \in Int : x = Wrap(x) + q * D
  BY WrapFacts
<1> DEFINE wm == Wrap(m)
           wn == Wrap(n)
           wx == Wrap(x)
           pd == p * D
           qd == q * D
<1>5. pd \in Int /\ qd \in Int
  BY <1>1
<1>6. qd - pd < D /\ pd - qd < D
  <2>1. D = 2 * Half /\ m = wm + pd /\ x = wx + qd /\ wn - wm = n - m
    BY <1>3, <1>4
  <2> HIDE DEF wm, wn, wx, pd, qd, D
  <2>2. /\ wm \in Int /\ -Half <= wm /\ wn \in Int /\ wn <= Half - 1
        /\ wx \in Int /\ -Half <= wx /\ wx <= Half - 1
    BY <1>2 DEF wm, wn, wx
  <2> QED
    BY <1>1, <1>5, <2>1, <2>2
<1>7. pd = qd
  BY <1>1, <1>6, OneTurn
<1> HIDE DEF pd, qd
<1> QED
  BY <1>2, <1>3, <1>4, <1>5, <1>7 DEF pd, qd

(* The kinds of abstract values, and what each stands for. *)
LEMMA ValueKinds ==
    ASSUME NEW a \in Values
    PROVE  /\ \/ a = Bottom /\ Gamma(a) = {} /\ ~IsConst(a) /\ ~IsRange(a)
              \/ a = Top /\ Gamma(a) = Ints /\ ~IsConst(a) /\ ~IsRange(a)
              \/ /\ IsConst(a) /\ ~IsRange(a) /\ a # Bottom /\ a # Top
                 /\ a = Const(a[2]) /\ a[2] \in Ints /\ a[3] = a[2] /\ Gamma(a) = {a[2]}
              \/ /\ IsRange(a) /\ ~IsConst(a) /\ a # Bottom /\ a # Top
                 /\ a[2] \in Ints /\ a[3] \in Ints /\ Gamma(a) = a[2] .. a[3]
<1>0. Ints \subseteq Int
  BY ValueSetsAssumption DEF Ints
<1>1. CASE a = Bottom
  BY <1>1 DEF Bottom, Gamma, IsConst, IsRange
<1>2. CASE a = Top
  BY <1>2 DEF Top, Bottom, Gamma, IsConst, IsRange
<1>3. CASE a \in {Const(c) : c \in Ints}
  <2>1. PICK c \in Ints : a = <<"const", c, c>>
    BY <1>3 DEF Const
  <2>2. c .. c = {c}
    BY <1>0
  <2> QED
    BY <2>1, <2>2 DEF Const, Bottom, Top, Gamma, IsConst, IsRange
<1>4. CASE a \in {Between(l, h) : l \in Ints, h \in Ints}
  <2>1. PICK l \in Ints, h \in Ints : a = <<"range", l, h>>
    BY <1>4 DEF Between
  <2> QED
    BY <2>1 DEF Bottom, Top, Gamma, IsConst, IsRange
<1> QED
  BY <1>1, <1>2, <1>3, <1>4 DEF Values

LEMMA KindsAreValues ==
    /\ Bottom \in Values /\ Top \in Values
    /\ \A c \in Ints : /\ Const(c) \in Values /\ Const(c)[2] = c /\ Const(c)[3] = c
                       /\ IsConst(Const(c)) /\ Gamma(Const(c)) = {c}
    /\ \A l, h \in Ints : /\ Between(l, h) \in Values /\ Between(l, h)[2] = l /\ Between(l, h)[3] = h
                          /\ IsRange(Between(l, h)) /\ Gamma(Between(l, h)) = l .. h
<1>0. Ints \subseteq Int
  BY ValueSetsAssumption DEF Ints
<1>1. Bottom \in Values /\ Top \in Values
  BY DEF Values
<1>2. ASSUME NEW c \in Ints
      PROVE  /\ Const(c) \in Values /\ Const(c)[2] = c /\ Const(c)[3] = c
             /\ IsConst(Const(c)) /\ Gamma(Const(c)) = {c}
  <2>1. c .. c = {c}
    BY <1>0
  <2> QED
    BY <2>1 DEF Values, Const, IsConst, Gamma, Bottom, Top
<1>3. ASSUME NEW l \in Ints, NEW h \in Ints
      PROVE  /\ Between(l, h) \in Values /\ Between(l, h)[2] = l /\ Between(l, h)[3] = h
             /\ IsRange(Between(l, h)) /\ Gamma(Between(l, h)) = l .. h
  <2>1. Between(l, h) \in Values
    BY DEF Values
  <2> QED
    BY <2>1 DEF Between, IsRange, Gamma, Bottom, Top
<1> QED
  BY <1>1, <1>2, <1>3

(* The least range that holds two others.                                  *)
LEMMA Hull ==
    ASSUME NEW i \in Int, NEW j \in Int, NEW k \in Int, NEW m \in Int
    PROVE  /\ Least(i, k) \in {i, k} /\ Greatest(j, m) \in {j, m}
           /\ i .. j \subseteq Least(i, k) .. Greatest(j, m)
           /\ k .. m \subseteq Least(i, k) .. Greatest(j, m)
  BY DEF Least, Greatest

(* A join allows what either value allows, and so does a widened one.      *)
LEMMA JoinCovers ==
    ASSUME NEW a \in Values, NEW b \in Values
    PROVE  Join(a, b) \in Values /\ Gamma(a) \subseteq Gamma(Join(a, b)) /\ Gamma(b) \subseteq Gamma(Join(a, b))
<1>0. Ints \subseteq Int
  BY ValueSetsAssumption DEF Ints
<1>1. Gamma(Bottom) = {} /\ Gamma(Top) = Ints /\ Top \in Values
  BY KindsAreValues DEF Top, Bottom, Gamma
<1>2. CASE a = Bottom
  <2>1. Join(a, b) = b
    BY <1>2 DEF Join
  <2> QED
    BY <1>1, <1>2, <2>1
<1>3. CASE a # Bottom /\ b = Bottom
  <2>1. Join(a, b) = a
    BY <1>3 DEF Join
  <2> QED
    BY <1>1, <1>3, <2>1
<1>4. CASE a # Bottom /\ b # Bottom /\ Top \in {a, b}
  <2>1. Join(a, b) = Top
    BY <1>4 DEF Join
  <2>2. \A l, h \in Ints : l .. h \subseteq Ints
    BY ValueSetsAssumption DEF Ints
  <2>3. Gamma(a) \subseteq Ints /\ Gamma(b) \subseteq Ints
    BY <2>2, ValueKinds
  <2> QED
    BY <1>1, <2>1, <2>3
<1>5. CASE a # Bottom /\ b # Bottom /\ Top \notin {a, b} /\ a = b /\ IsConst(a)
  BY <1>5 DEF Join
<1>6. CASE a # Bottom /\ b # Bottom /\ Top \notin {a, b} /\ ~(a = b /\ IsConst(a))
  <2>1. Join(a, b) = Between(Least(a[2], b[2]), Greatest(a[3], b[3]))
    BY <1>6 DEF Join
  <2>2. /\ a[2] \in Ints /\ a[3] \in Ints /\ Gamma(a) = a[2] .. a[3]
        /\ b[2] \in Ints /\ b[3] \in Ints /\ Gamma(b) = b[2] .. b[3]
    <3>1. \A c \in Ints : {c} = c .. c
      BY <1>0
    <3> QED
      BY <1>6, <3>1, ValueKinds
  <2>3. /\ Least(a[2], b[2]) \in {a[2], b[2]} /\ Greatest(a[3], b[3]) \in {a[3], b[3]}
        /\ a[2] .. a[3] \subseteq Least(a[2], b[2]) .. Greatest(a[3], b[3])
        /\ b[2] .. b[3] \subseteq Least(a[2], b[2]) .. Greatest(a[3], b[3])
    BY <1>0, <2>2, Hull
  <2>4. Least(a[2], b[2]) \in Ints /\ Greatest(a[3], b[3]) \in Ints
    BY <2>2, <2>3
  <2>5. /\ Join(a, b) \in Values
        /\ Gamma(Join(a, b)) = Least(a[2], b[2]) .. Greatest(a[3], b[3])
    BY <2>1, <2>4, KindsAreValues
  <2> QED
    BY <2>2, <2>3, <2>5
<1> QED
  BY <1>2, <1>3, <1>4, <1>5, <1>6

LEMMA WidenCovers ==
    ASSUME NEW a \in Values, NEW b \in Values
    PROVE  Widen(a, b) \in Values /\ Gamma(a) \subseteq Gamma(Widen(a, b)) /\ Gamma(b) \subseteq Gamma(Widen(a, b))
<1>1. Join(a, b) \in Values /\ Gamma(a) \subseteq Gamma(Join(a, b)) /\ Gamma(b) \subseteq Gamma(Join(a, b))
  BY JoinCovers
<1>2. Widen(a, b) \in {Join(a, b), Top}
  BY DEF Widen
<1>3. \A x \in Values : Gamma(x) \subseteq Gamma(Top)
  <2> SUFFICES ASSUME NEW x \in Values PROVE Gamma(x) \subseteq Gamma(Top)
    OBVIOUS
  <2>1. \A l, h \in Ints : l .. h \subseteq Ints
    BY ValueSetsAssumption DEF Ints
  <2>2. Gamma(Top) = Ints
    BY DEF Top, Bottom, Gamma
  <2> QED
    BY <2>1, <2>2, ValueKinds
<1> QED
  BY <1>1, <1>2, <1>3, KindsAreValues

(* Arithmetic on abstract values.                                          *)
LEMMA ArithType ==
    ASSUME NEW op \in {"add", "sub", "mul"}, NEW x \in Ints, NEW y \in Ints
    PROVE  Arith(op, x, y) \in Ints
<1>1. x \in Int /\ y \in Int
  BY ValueSetsAssumption DEF Ints
<1>2. x + y \in Int /\ x - y \in Int /\ x * y \in Int
  BY <1>1
<1>3. Wrap(x + y) \in Ints /\ Wrap(x - y) \in Ints /\ Wrap(x * y) \in Ints
  BY <1>2, WrapFacts
<1> QED
  BY <1>3 DEF Arith

LEMMA BinopType ==
    ASSUME NEW op \in {"add", "sub", "mul"}, NEW a \in Values, NEW b \in Values
    PROVE  AbstractBinop(op, a, b) \in Values
<1>0. Ints \subseteq Int
  BY ValueSetsAssumption DEF Ints
<1>1. CASE IsConst(a) /\ IsConst(b)
  <2>1. a[2] \in Ints /\ b[2] \in Ints
    BY <1>1, ValueKinds
  <2>2. Arith(op, a[2], b[2]) \in Ints
    BY <2>1, ArithType
  <2>3. AbstractBinop(op, a, b) = Const(Arith(op, a[2], b[2]))
    BY <1>1 DEF AbstractBinop
  <2> QED
    BY <2>2, <2>3, KindsAreValues
<1>2. CASE IsRange(a) /\ IsConst(b)
  <2>1. a[2] \in Ints /\ a[3] \in Ints /\ b[2] \in Ints /\ ~IsConst(a) /\ ~IsRange(b)
    BY <1>2, ValueKinds
  <2>2. Arith(op, a[2], b[2]) \in Ints /\ Arith(op, a[3], b[2]) \in Ints
    BY <2>1, ArithType
  <2>3. AbstractBinop(op, a, b) \in {Between(Arith(op, a[2], b[2]), Arith(op, a[3], b[2])), Top}
    BY <1>2, <2>1 DEF AbstractBinop
  <2> QED
    BY <2>2, <2>3, KindsAreValues
<1>3. CASE IsConst(a) /\ IsRange(b)
  <2>1. /\ a[2] \in Int /\ b[2] \in Int /\ b[3] \in Int /\ ~IsRange(a) /\ ~IsConst(b)
    BY <1>0, <1>3, ValueKinds
  <2>2. /\ a[2] + b[2] \in Int /\ a[2] + b[3] \in Int /\ a[2] - b[3] \in Int /\ a[2] - b[2] \in Int
    BY <2>1
  <2>3. AbstractBinop(op, a, b) \in {Between(Wrap(a[2] + b[2]), Wrap(a[2] + b[3])),
                                     Between(Wrap(a[2] - b[3]), Wrap(a[2] - b[2])), Top}
    BY <1>3, <2>1 DEF AbstractBinop
  <2>4. /\ Wrap(a[2] + b[2]) \in Ints /\ Wrap(a[2] + b[3]) \in Ints
        /\ Wrap(a[2] - b[3]) \in Ints /\ Wrap(a[2] - b[2]) \in Ints
    BY <2>2, WrapFacts
  <2> QED
    BY <2>3, <2>4, KindsAreValues
<1>4. CASE ~(IsConst(a) /\ IsConst(b)) /\ ~(IsRange(a) /\ IsConst(b)) /\ ~(IsConst(a) /\ IsRange(b))
  BY <1>4, KindsAreValues DEF AbstractBinop
<1> QED
  BY <1>1, <1>2, <1>3, <1>4

(* The width a range must have for its bounds to have wrapped together.    *)
Width(op, a, b) == IF op = "mul" THEN (a[3] - a[2]) * b[2] ELSE (a[3] - a[2]) + (b[3] - b[2])

(* Products with a number that is not negative keep their order. *)
LEMMA ProductOrder ==
    ASSUME NEW x \in Int, NEW y \in Int, x <= y, NEW c \in Nat
    PROVE  x * c <= y * c /\ (y - x) * c = y * c - x * c
<1>1. (y - x) * c = y * c - x * c
  OBVIOUS
<1>2. (y - x) * c \in Nat /\ x * c \in Int /\ y * c \in Int
  OBVIOUS
<1> QED
  BY <1>1, <1>2

(* Where no range has wrapped, the result of an operation on two concrete  *)
(* values is among those of the abstract ones.                             *)
LEMMA BinopCovers ==
    ASSUME NEW op \in {"add", "sub", "mul"}, NEW a \in Values, NEW b \in Values,
           NEW x \in Gamma(a), NEW y \in Gamma(b),
           IsRange(AbstractBinop(op, a, b)) =>
               AbstractBinop(op, a, b)[3] - AbstractBinop(op, a, b)[2] = Width(op, a, b)
    PROVE  Arith(op, x, y) \in Gamma(AbstractBinop(op, a, b))
<1>0. Ints \subseteq Int
  BY ValueSetsAssumption DEF Ints
<1>a. x \in Ints /\ y \in Ints
  <2>1. \A l, h \in Ints : l .. h \subseteq Ints
    BY ValueSetsAssumption DEF Ints
  <2> QED
    BY <2>1, ValueKinds
<1>b. x \in Int /\ y \in Int
  BY <1>0, <1>a
<1>c. ASSUME NEW m \in Int, NEW n \in Int, NEW z \in Int, m <= z, z <= n,
             AbstractBinop(op, a, b) = Between(Wrap(m), Wrap(n)), Width(op, a, b) = n - m
      PROVE  Wrap(z) \in Gamma(AbstractBinop(op, a, b))
  <2>1. Wrap(m) \in Ints /\ Wrap(n) \in Ints
    BY WrapFacts
  <2>2. /\ Gamma(AbstractBinop(op, a, b)) = Wrap(m) .. Wrap(n)
        /\ IsRange(AbstractBinop(op, a, b))
        /\ AbstractBinop(op, a, b)[2] = Wrap(m) /\ AbstractBinop(op, a, b)[3] = Wrap(n)
    BY <1>c, <2>1, KindsAreValues
  <2>3. Wrap(n) - Wrap(m) = n - m
    BY <1>c, <2>2
  <2> QED
    BY <1>c, <2>2, <2>3, WrapBetween
<1>1. CASE IsConst(a) /\ IsConst(b)
  <2>1. a[2] \in Ints /\ b[2] \in Ints /\ x = a[2] /\ y = b[2]
    BY <1>1, ValueKinds
  <2>2. Arith(op, a[2], b[2]) \in Ints
    BY <2>1, ArithType
  <2>3. AbstractBinop(op, a, b) = Const(Arith(op, a[2], b[2]))
    BY <1>1 DEF AbstractBinop
  <2> QED
    BY <2>1, <2>2, <2>3, KindsAreValues
<1>2. CASE IsRange(a) /\ IsConst(b) /\ (op = "mul" => b[2] >= 0)
  <2>1. /\ a[2] \in Int /\ a[3] \in Int /\ b[2] \in Int /\ b[3] = b[2] /\ y = b[2]
        /\ ~IsConst(a) /\ ~IsRange(b) /\ Gamma(a) = a[2] .. a[3]
    BY <1>0, <1>2, ValueKinds
  <2>2. a[2] <= x /\ x <= a[3]
    BY <2>1
  <2>3. AbstractBinop(op, a, b) = Between(Arith(op, a[2], b[2]), Arith(op, a[3], b[2]))
    BY <1>2, <2>1 DEF AbstractBinop
  <2>4. CASE op = "add"
    <3>1. AbstractBinop(op, a, b) = Between(Wrap(a[2] + b[2]), Wrap(a[3] + b[2])) /\ Arith(op, x, y) = Wrap(x + b[2])
      BY <2>1, <2>3, <2>4 DEF Arith
    <3>2. Width(op, a, b) = (a[3] + b[2]) - (a[2] + b[2])
      BY <2>1, <2>4 DEF Width
    <3>3. a[2] + b[2] \in Int /\ a[3] + b[2] \in Int /\ x + b[2] \in Int /\ a[2] + b[2] <= x + b[2] /\ x + b[2] <= a[3] + b[2]
      BY <1>b, <2>1, <2>2
    <3> QED
      BY <1>c, <3>1, <3>2, <3>3
  <2>5. CASE op = "sub"
    <3>1. AbstractBinop(op, a, b) = Between(Wrap(a[2] - b[2]), Wrap(a[3] - b[2])) /\ Arith(op, x, y) = Wrap(x - b[2])
      BY <2>1, <2>3, <2>5 DEF Arith
    <3>2. Width(op, a, b) = (a[3] - b[2]) - (a[2] - b[2])
      BY <2>1, <2>5 DEF Width
    <3>3. a[2] - b[2] \in Int /\ a[3] - b[2] \in Int /\ x - b[2] \in Int /\ a[2] - b[2] <= x - b[2] /\ x - b[2] <= a[3] - b[2]
      BY <1>b, <2>1, <2>2
    <3> QED
      BY <1>c, <3>1, <3>2, <3>3
  <2>6. CASE op = "mul"
    <3>1. AbstractBinop(op, a, b) = Between(Wrap(a[2] * b[2]), Wrap(a[3] * b[2])) /\ Arith(op, x, y) = Wrap(x * b[2])
      BY <2>1, <2>3, <2>6 DEF Arith
    <3>2. b[2] \in Nat /\ a[2] <= a[3]
      BY <1>2, <1>b, <2>1, <2>2, <2>6
    <3>3. Width(op, a, b) = (a[3] - a[2]) * b[2]
      BY <2>6 DEF Width
    <3>4. /\ a[2] * b[2] \in Int /\ a[3] * b[2] \in Int /\ x * b[2] \in Int
          /\ a[2] * b[2] <= x * b[2] /\ x * b[2] <= a[3] * b[2]
          /\ (a[3] - a[2]) * b[2] = a[3] * b[2] - a[2] * b[2]
      <4>1. a[2] * b[2] \in Int /\ a[3] * b[2] \in Int /\ x * b[2] \in Int
        BY <1>b, <2>1
      <4> QED
        BY <1>b, <2>1, <2>2, <3>2, <4>1, ProductOrder
    <3> QED
      BY <1>c, <3>1, <3>3, <3>4
  <2> QED
    BY <2>4, <2>5, <2>6
<1>3. CASE IsConst(a) /\ IsRange(b) /\ op \in {"add", "sub"}
  <2>1. /\ a[2] \in Int /\ a[3] = a[2] /\ b[2] \in Int /\ b[3] \in Int /\ x = a[2]
        /\ ~IsRange(a) /\ ~IsConst(b) /\ Gamma(b) = b[2] .. b[3]
    BY <1>0, <1>3, ValueKinds
  <2>2. b[2] <= y /\ y <= b[3]
    BY <2>1
  <2>3. CASE op = "add"
    <3>1. AbstractBinop(op, a, b) = Between(Wrap(a[2] + b[2]), Wrap(a[2] + b[3])) /\ Arith(op, x, y) = Wrap(a[2] + y)
      BY <1>3, <2>1, <2>3 DEF AbstractBinop, Arith
    <3>2. Width(op, a, b) = (a[2] + b[3]) - (a[2] + b[2])
      BY <2>1, <2>3 DEF Width
    <3>3. a[2] + b[2] \in Int /\ a[2] + b[3] \in Int /\ a[2] + y \in Int /\ a[2] + b[2] <= a[2] + y /\ a[2] + y <= a[2] + b[3]
      BY <1>b, <2>1, <2>2
    <3> QED
      BY <1>c, <3>1, <3>2, <3>3
  <2>4. CASE op = "sub"
    <3>1. AbstractBinop(op, a, b) = Between(Wrap(a[2] - b[3]), Wrap(a[2] - b[2])) /\ Arith(op, x, y) = Wrap(a[2] - y)
      BY <1>3, <2>1, <2>4 DEF AbstractBinop, Arith
    <3>2. Width(op, a, b) = (a[2] - b[2]) - (a[2] - b[3])
      BY <2>1, <2>4 DEF Width
    <3>3. a[2] - b[2] \in Int /\ a[2] - b[3] \in Int /\ a[2] - y \in Int /\ a[2] - b[3] <= a[2] - y /\ a[2] - y <= a[2] - b[2]
      BY <1>b, <2>1, <2>2
    <3> QED
      BY <1>c, <3>1, <3>2, <3>3
  <2> QED
    BY <1>3, <2>3, <2>4
<1>4. CASE AbstractBinop(op, a, b) = Top
  <2>1. Gamma(Top) = Ints
    BY DEF Top, Bottom, Gamma
  <2> QED
    BY <1>4, <1>a, <2>1, ArithType
<1> QED
  BY <1>1, <1>2, <1>3, <1>4 DEF AbstractBinop

-----------------------------------------------------------------------------
(***************************************************************************)
(* Instructions, abstract and concrete                                     *)
(***************************************************************************)
GoodInst(i) == IsInst(i) /\ ToSet(i.args) \subseteq Vars \cup Ints

LEMMA ArgKinds ==
    ASSUME NEW i, GoodInst(i)
    PROVE  /\ i.op \in Ops /\ i.dst \in Vars \cup {None}
           /\ i.op \in {"add", "sub", "mul"} => i.args[1] \in Vars \cup Ints /\ i.args[2] \in Vars \cup Ints
           /\ i.op \in {"neg", "copy"} => i.args[1] \in Vars \cup Ints
<1>1. IsInst(i) /\ i.args \in Seq(Vars \cup Int) /\ ToSet(i.args) \subseteq Vars \cup Ints
  BY DEF GoodInst, IsInst
<1>2. \A k \in 1 .. Len(i.args) : i.args[k] \in Vars \cup Ints
  BY <1>1 DEF ToSet
<1>3. /\ i.op \in {"add", "sub", "mul"} => Len(i.args) = 2
      /\ i.op \in {"neg", "copy"} => Len(i.args) = 1
      /\ i.op \in Ops /\ i.dst \in Vars \cup {None}
  BY <1>1 DEF IsInst
<1> QED
  BY <1>2, <1>3

(* An operand's value, and the abstract value that stands for it. *)
ValueOf(o, e) == IF o \in Int THEN o ELSE e[o]

LEMMA EvalType ==
    ASSUME NEW s, IsState(s), NEW o \in Vars \cup Ints
    PROVE  EvalAbstract(o, s) \in Values
<1>1. CASE o \in Int
  <2>1. o \in Ints
    BY <1>1, FunctionsAssumption
  <2> QED
    BY <1>1, <2>1, KindsAreValues DEF EvalAbstract
<1>2. CASE o \notin Int
  BY <1>2, KindsAreValues DEF EvalAbstract, IsState
<1> QED
  BY <1>1, <1>2

LEMMA EvalCovers ==
    ASSUME NEW s, IsState(s), NEW e \in [Vars -> Ints], Covers(s, e), NEW o \in Vars \cup Ints
    PROVE  ValueOf(o, e) \in Gamma(EvalAbstract(o, s)) /\ ValueOf(o, e) \in Ints
<1>1. CASE o \in Int
  <2>1. o \in Ints
    BY <1>1, FunctionsAssumption
  <2> QED
    BY <1>1, <2>1, KindsAreValues DEF EvalAbstract, ValueOf
<1>2. CASE o \notin Int
  <2>1. o \in Vars
    BY <1>2, ValueSetsAssumption DEF Ints
  <2>2. CASE o \in DOMAIN s
    BY <1>2, <2>1, <2>2 DEF EvalAbstract, ValueOf, Covers
  <2>3. CASE o \notin DOMAIN s
    BY <1>2, <2>1, <2>3 DEF EvalAbstract, ValueOf, Gamma, Top, Bottom
  <2> QED
    BY <2>2, <2>3
<1> QED
  BY <1>1, <1>2

LEMMA PutType ==
    ASSUME NEW s, IsState(s), NEW v \in Vars \cup {None}, NEW a \in Values
    PROVE  /\ IsState(Put(s, v, a)) /\ DOMAIN s \subseteq DOMAIN Put(s, v, a)
           /\ v # None => v \in DOMAIN Put(s, v, a)
<1>1. CASE v = None
  BY <1>1 DEF Put
<1>2. CASE v # None
  <2> DEFINE D == DOMAIN s \cup {v}
             t == [u \in D |-> IF u = v THEN a ELSE s[u]]
  <2>1. Put(s, v, a) = t
    BY <1>2 DEF Put
  <2>2. DOMAIN t = D /\ D \subseteq Vars
    BY <1>2 DEF IsState
  <2>3. \A u \in D : t[u] \in Values
    BY DEF IsState
  <2>4. IsState(t)
    BY <2>2, <2>3 DEF IsState
  <2> QED
    BY <2>1, <2>2, <2>4
<1> QED
  BY <1>1, <1>2

LEMMA PutCovers ==
    ASSUME NEW s, IsState(s), NEW e \in [Vars -> Ints], Covers(s, e),
           NEW v \in Vars \cup {None}, NEW a \in Values, NEW x \in Gamma(a), x \in Ints
    PROVE  Covers(Put(s, v, a), [e EXCEPT ![v] = x]) /\ [e EXCEPT ![v] = x] \in [Vars -> Ints]
<1> DEFINE e1 == [e EXCEPT ![v] = x]
<1>0. e1 \in [Vars -> Ints]
  OBVIOUS
<1>1. CASE v = None
  <2>1. e1 = e
    BY <1>1, FunctionsAssumption
  <2> QED
    BY <1>0, <1>1, <2>1 DEF Put
<1>2. CASE v # None
  <2> DEFINE t == [u \in DOMAIN s \cup {v} |-> IF u = v THEN a ELSE s[u]]
  <2>1. Put(s, v, a) = t
    BY <1>2 DEF Put
  <2>2. \A u \in DOMAIN t : e1[u] \in Gamma(t[u])
    <3> SUFFICES ASSUME NEW u \in DOMAIN s \cup {v} PROVE e1[u] \in Gamma(t[u])
      OBVIOUS
    <3>1. CASE u = v
      <4>1. e1[u] = x /\ t[u] = a
        BY <1>2, <3>1
      <4> QED
        BY <4>1
    <3>2. CASE u # v
      <4>1. u \in Vars /\ u \in DOMAIN s
        BY <3>2 DEF IsState
      <4>2. e1[u] = e[u] /\ t[u] = s[u]
        BY <3>2, <4>1
      <4> QED
        BY <4>1, <4>2 DEF Covers
    <3> QED
      BY <3>1, <3>2
  <2> QED
    BY <1>0, <2>1, <2>2 DEF Covers
<1> QED
  BY <1>1, <1>2

(* A transfer keeps a state a state, forgets no variable and, but for an   *)
(* add with carry, learns the one the instruction writes.                  *)
LEMMA TransferType ==
    ASSUME NEW s, IsState(s), NEW i, GoodInst(i)
    PROVE  /\ IsState(TransferInst(s, i)) /\ DOMAIN s \subseteq DOMAIN TransferInst(s, i)
           /\ i.op # "adc" /\ i.dst # None => i.dst \in DOMAIN TransferInst(s, i)
<1> DEFINE l == EvalAbstract(i.args[1], s)
           r == EvalAbstract(i.args[2], s)
<1>1. CASE i.op \in {"add", "sub", "mul"}
  <2>1. l \in Values /\ r \in Values
    BY <1>1, ArgKinds, EvalType
  <2>2. AbstractBinop(i.op, l, r) \in Values
    BY <1>1, <2>1, BinopType
  <2>3. TransferInst(s, i) = Put(s, i.dst, AbstractBinop(i.op, l, r))
    BY <1>1 DEF TransferInst
  <2> HIDE DEF l, r
  <2> QED
    BY <2>2, <2>3, ArgKinds, PutType
<1>2. CASE i.op = "neg"
  <2>1. l \in Values
    BY <1>2, ArgKinds, EvalType
  <2> DEFINE a == IF IsConst(l) THEN Const(Wrap(-l[2])) ELSE l
  <2>2. a \in Values
    <3>1. CASE IsConst(l)
      <4>1. l[2] \in Int
        BY <2>1, <3>1, ValueKinds, ValueSetsAssumption DEF Ints
      <4>2. Wrap(-l[2]) \in Ints
        BY <4>1, WrapFacts
      <4> QED
        BY <3>1, <4>2, KindsAreValues
    <3> QED
      BY <2>1, <3>1
  <2>3. TransferInst(s, i) = Put(s, i.dst, a)
    BY <1>2 DEF TransferInst
  <2> HIDE DEF a, l
  <2> QED
    BY <2>2, <2>3, ArgKinds, PutType
<1>3. CASE i.op = "copy"
  <2>1. l \in Values
    BY <1>3, ArgKinds, EvalType
  <2>2. TransferInst(s, i) = Put(s, i.dst, l)
    BY <1>3 DEF TransferInst
  <2> HIDE DEF l
  <2> QED
    BY <2>1, <2>2, ArgKinds, PutType
<1>4. CASE i.op \in {"load", "call"}
  <2>1. TransferInst(s, i) = Put(s, i.dst, Top)
    BY <1>4 DEF TransferInst
  <2> QED
    BY <2>1, ArgKinds, PutType, KindsAreValues
<1>5. CASE i.op \in {"adc", "store", "jump"}
  <2>1. TransferInst(s, i) = s
    BY <1>5 DEF TransferInst
  <2>2. i.op # "adc" => i.dst = None
    BY <1>5 DEF GoodInst, IsInst
  <2> QED
    BY <2>1, <2>2
<1> QED
  BY <1>1, <1>2, <1>3, <1>4, <1>5, ArgKinds DEF Ops

(* What an instruction does to the values of the variables is allowed by   *)
(* what its transfer does to the state, unless a range has wrapped.        *)
LEMMA TransferCovers ==
    ASSUME NEW s, IsState(s), NEW i, GoodInst(i), NEW e \in [Vars -> Ints], NEW x \in Ints,
           Covers(s, e), i.op \notin {"neg", "adc"}, KeepsWidth(i, s)
    PROVE  Covers(TransferInst(s, i), Exec(e, i, x)) /\ Exec(e, i, x) \in [Vars -> Ints]
<1> DEFINE l == EvalAbstract(i.args[1], s)
           r == EvalAbstract(i.args[2], s)
           m == ValueOf(i.args[1], e)
           n == ValueOf(i.args[2], e)
<1>1. CASE i.op \in {"add", "sub", "mul"}
  <2>1. l \in Values /\ r \in Values /\ m \in Gamma(l) /\ n \in Gamma(r) /\ m \in Ints /\ n \in Ints
    BY <1>1, ArgKinds, EvalType, EvalCovers
  <2>2. AbstractBinop(i.op, l, r) \in Values
    BY <1>1, <2>1, BinopType
  <2>3. IsRange(AbstractBinop(i.op, l, r)) =>
          AbstractBinop(i.op, l, r)[3] - AbstractBinop(i.op, l, r)[2] = Width(i.op, l, r)
    BY <1>1 DEF KeepsWidth, Width
  <2>4. TransferInst(s, i) = Put(s, i.dst, AbstractBinop(i.op, l, r))
    BY <1>1 DEF TransferInst
  <2>5. Exec(e, i, x) = [e EXCEPT ![i.dst] = Arith(i.op, m, n)]
    BY <1>1 DEF Exec, ValueOf
  <2> HIDE DEF l, r, m, n
  <2>6. Arith(i.op, m, n) \in Gamma(AbstractBinop(i.op, l, r)) /\ Arith(i.op, m, n) \in Ints
    BY <1>1, <2>1, <2>3, BinopCovers, ArithType
  <2> DEFINE a == AbstractBinop(i.op, l, r)
             y == Arith(i.op, m, n)
             v == i.dst
  <2>7. v \in Vars \cup {None} /\ a \in Values /\ y \in Gamma(a) /\ y \in Ints
    BY <2>2, <2>6, ArgKinds
  <2>8. TransferInst(s, i) = Put(s, v, a) /\ Exec(e, i, x) = [e EXCEPT ![v] = y]
    BY <2>4, <2>5
  <2> HIDE DEF a, y, v
  <2>9. Covers(Put(s, v, a), [e EXCEPT ![v] = y]) /\ [e EXCEPT ![v] = y] \in [Vars -> Ints]
    BY <2>7, PutCovers
  <2> QED
    BY <2>8, <2>9
<1>2. CASE i.op = "copy"
  <2>1. l \in Values /\ m \in Gamma(l) /\ m \in Ints
    BY <1>2, ArgKinds, EvalType, EvalCovers
  <2>2. TransferInst(s, i) = Put(s, i.dst, l)
    BY <1>2 DEF TransferInst
  <2>3. Exec(e, i, x) = [e EXCEPT ![i.dst] = m]
    BY <1>2 DEF Exec, ValueOf
  <2> DEFINE v == i.dst
  <2>4. v \in Vars \cup {None}
    BY ArgKinds
  <2>5. TransferInst(s, i) = Put(s, v, l) /\ Exec(e, i, x) = [e EXCEPT ![v] = m]
    BY <2>2, <2>3
  <2> HIDE DEF l, m, v
  <2>6. Covers(Put(s, v, l), [e EXCEPT ![v] = m]) /\ [e EXCEPT ![v] = m] \in [Vars -> Ints]
    BY <2>1, <2>4, PutCovers
  <2> QED
    BY <2>5, <2>6
<1>3. CASE i.op \in {"load", "call"}
  <2>1. TransferInst(s, i) = Put(s, i.dst, Top)
    BY <1>3 DEF TransferInst
  <2>2. CASE i.dst # None
    <3>1. Exec(e, i, x) = [e EXCEPT ![i.dst] = x]
      BY <1>3, <2>2 DEF Exec
    <3>2. x \in Gamma(Top)
      BY DEF Gamma, Top, Bottom
    <3> DEFINE v == i.dst
    <3>3. v \in Vars \cup {None} /\ Top \in Values
      BY ArgKinds, KindsAreValues
    <3>4. TransferInst(s, i) = Put(s, v, Top) /\ Exec(e, i, x) = [e EXCEPT ![v] = x]
      BY <2>1, <3>1
    <3> HIDE DEF v
    <3>5. Covers(Put(s, v, Top), [e EXCEPT ![v] = x]) /\ [e EXCEPT ![v] = x] \in [Vars -> Ints]
      BY <3>2, <3>3, PutCovers
    <3> QED
      BY <3>4, <3>5
  <2>3. CASE i.dst = None
    <3>1. Exec(e, i, x) = e
      BY <1>3, <2>3 DEF Exec
    <3> QED
      BY <2>1, <2>3, <3>1 DEF Put
  <2> QED
    BY <2>2, <2>3
<1>4. CASE i.op \in {"store", "jump"}
  BY <1>4 DEF TransferInst, Exec
<1> QED
  BY <1>1, <1>2, <1>3, <1>4, ArgKinds DEF Ops

-----------------------------------------------------------------------------
(***************************************************************************)
(* The recursive functions exist: a partial one that is defined below the  *)
(* least place where none is can be continued there.                       *)
(***************************************************************************)
LEMMA AlongDef ==
    ASSUME NEW code, Len(code) \in Nat, NEW s
    PROVE  /\ DOMAIN Along(code, s) = 0 .. Len(code)
           /\ Along(code, s)[0] = s
           /\ \A k \in 1 .. Len(code) : Along(code, s)[k] = TransferInst(Along(code, s)[k - 1], code[k])
<1> DEFINE Rec(m, f) == f = [k \in 0 .. m |-> IF k = 0 THEN s ELSE TransferInst(f[k - 1], code[k])]
           S == {m \in Nat : ~ \E f : Rec(m, f)}
<1>1. S = {}
  <2> SUFFICES ASSUME S # {} PROVE FALSE
    OBVIOUS
  <2>1. PICK m \in S : \A j \in S : m <= j
    <3> S \in SUBSET Nat
      OBVIOUS
    <3> HIDE DEF S
    <3> QED
      BY LeastNat
  <2>2. m \in Nat /\ ~ \E f : Rec(m, f)
    OBVIOUS
  <2>3. CASE m = 0
    <3> DEFINE f == [k \in 0 .. 0 |-> s]
    <3>1. Rec(m, f)
      BY <2>3
    <3> QED
      BY <2>2, <3>1
  <2>4. CASE m # 0
    <3>1. m - 1 \in Nat /\ m - 1 \notin S
      BY <2>1, <2>2, <2>4
    <3>2. PICK g : Rec(m - 1, g)
      BY <3>1
    <3> DEFINE f == [k \in 0 .. m |-> IF k = m THEN TransferInst(g[m - 1], code[m]) ELSE g[k]]
    <3>3. \A k \in 0 .. m : f[k] = IF k = 0 THEN s ELSE TransferInst(f[k - 1], code[k])
      <4> SUFFICES ASSUME NEW k \in 0 .. m PROVE f[k] = IF k = 0 THEN s ELSE TransferInst(f[k - 1], code[k])
        OBVIOUS
      <4>1. CASE k = m
        <5>1. f[k] = TransferInst(g[m - 1], code[m]) /\ f[m - 1] = g[m - 1]
          BY <2>2, <2>4, <4>1
        <5> QED
          BY <2>4, <4>1, <5>1
      <4>2. CASE k # m
        <5>1. k \in 0 .. (m - 1)
          BY <2>2, <4>2
        <5>2. g[k] = IF k = 0 THEN s ELSE TransferInst(g[k - 1], code[k])
          BY <3>2, <5>1
        <5>3. f[k] = g[k] /\ (k # 0 => f[k - 1] = g[k - 1])
          BY <2>2, <4>2, <5>1
        <5> QED
          BY <5>2, <5>3
      <4> QED
        BY <4>1, <4>2
    <3>4. Rec(m, f)
      BY <3>3
    <3> QED
      BY <2>2, <3>4
  <2> QED
    BY <2>3, <2>4
<1>2. \E f : Rec(Len(code), f)
  BY <1>1
<1>3. Along(code, s) = CHOOSE f : Rec(Len(code), f)
  BY DEF Along
<1>4. Rec(Len(code), Along(code, s))
  <2> HIDE DEF Rec
  <2> QED
    BY <1>2, <1>3
<1> QED
  BY <1>4

LEMMA ExecAlongDef ==
    ASSUME NEW code, Len(code) \in Nat, NEW e, NEW x
    PROVE  /\ DOMAIN ExecAlong(code, e, x) = 0 .. Len(code)
           /\ ExecAlong(code, e, x)[0] = e
           /\ \A k \in 1 .. Len(code) : ExecAlong(code, e, x)[k] = Exec(ExecAlong(code, e, x)[k - 1], code[k], x)
<1> DEFINE Rec(m, f) == f = [k \in 0 .. m |-> IF k = 0 THEN e ELSE Exec(f[k - 1], code[k], x)]
           S == {m \in Nat : ~ \E f : Rec(m, f)}
<1>1. S = {}
  <2> SUFFICES ASSUME S # {} PROVE FALSE
    OBVIOUS
  <2>1. PICK m \in S : \A j \in S : m <= j
    <3> S \in SUBSET Nat
      OBVIOUS
    <3> HIDE DEF S
    <3> QED
      BY LeastNat
  <2>2. m \in Nat /\ ~ \E f : Rec(m, f)
    OBVIOUS
  <2>3. CASE m = 0
    <3> DEFINE f == [k \in 0 .. 0 |-> e]
    <3>1. Rec(m, f)
      BY <2>3
    <3> QED
      BY <2>2, <3>1
  <2>4. CASE m # 0
    <3>1. m - 1 \in Nat /\ m - 1 \notin S
      BY <2>1, <2>2, <2>4
    <3>2. PICK g : Rec(m - 1, g)
      BY <3>1
    <3> DEFINE f == [k \in 0 .. m |-> IF k = m THEN Exec(g[m - 1], code[m], x) ELSE g[k]]
    <3>3. \A k \in 0 .. m : f[k] = IF k = 0 THEN e ELSE Exec(f[k - 1], code[k], x)
      <4> SUFFICES ASSUME NEW k \in 0 .. m PROVE f[k] = IF k = 0 THEN e ELSE Exec(f[k - 1], code[k], x)
        OBVIOUS
      <4>1. CASE k = m
        <5>1. f[k] = Exec(g[m - 1], code[m], x) /\ f[m - 1] = g[m - 1]
          BY <2>2, <2>4, <4>1
        <5> QED
          BY <2>4, <4>1, <5>1
      <4>2. CASE k # m
        <5>1. k \in 0 .. (m - 1)
          BY <2>2, <4>2
        <5>2. g[k] = IF k = 0 THEN e ELSE Exec(g[k - 1], code[k], x)
          BY <3>2, <5>1
        <5>3. f[k] = g[k] /\ (k # 0 => f[k - 1] = g[k - 1])
          BY <2>2, <4>2, <5>1
        <5> QED
          BY <5>2, <5>3
      <4> QED
        BY <4>1, <4>2
    <3>4. Rec(m, f)
      BY <3>3
    <3> QED
      BY <2>2, <3>4
  <2> QED
    BY <2>3, <2>4
<1>2. \E f : Rec(Len(code), f)
  BY <1>1
<1>3. ExecAlong(code, e, x) = CHOOSE f : Rec(Len(code), f)
  BY DEF ExecAlong
<1>4. Rec(Len(code), ExecAlong(code, e, x))
  <2> HIDE DEF Rec
  <2> QED
    BY <1>2, <1>3
<1> QED
  BY <1>4

(* One step of a join over the blocks. *)
JoinStep(from, v, late, k, a) ==
    IF k \in DOMAIN from /\ v \in DOMAIN from[k]
    THEN IF late THEN Widen(a, from[k][v]) ELSE Join(a, from[k][v])
    ELSE a

LEMMA JoinAtDef ==
    ASSUME Len(func.insts) \in Nat, NEW from, NEW v, NEW late
    PROVE  \E u : /\ DOMAIN u = 0 .. Len(func.insts) /\ u[0] = Bottom
                  /\ \A k \in 1 .. Len(func.insts) : u[k] = JoinStep(from, v, late, k, u[k - 1])
                  /\ JoinAt(from, v, late) = u[Len(func.insts)]
<1> DEFINE Rec(m, f) == f = [k \in 0 .. m |-> IF k = 0 THEN Bottom ELSE JoinStep(from, v, late, k, f[k - 1])]
           S == {m \in Nat : ~ \E f : Rec(m, f)}
<1>1. S = {}
  <2> SUFFICES ASSUME S # {} PROVE FALSE
    OBVIOUS
  <2>1. PICK m \in S : \A j \in S : m <= j
    <3> S \in SUBSET Nat
      OBVIOUS
    <3> HIDE DEF S
    <3> QED
      BY LeastNat
  <2>2. m \in Nat /\ ~ \E f : Rec(m, f)
    OBVIOUS
  <2>3. CASE m = 0
    <3> DEFINE f == [k \in 0 .. 0 |-> Bottom]
    <3>1. Rec(m, f)
      BY <2>3
    <3> QED
      BY <2>2, <3>1
  <2>4. CASE m # 0
    <3>1. m - 1 \in Nat /\ m - 1 \notin S
      BY <2>1, <2>2, <2>4
    <3>2. PICK g : Rec(m - 1, g)
      BY <3>1
    <3> DEFINE f == [k \in 0 .. m |-> IF k = m THEN JoinStep(from, v, late, m, g[m - 1]) ELSE g[k]]
    <3>3. \A k \in 0 .. m : f[k] = IF k = 0 THEN Bottom ELSE JoinStep(from, v, late, k, f[k - 1])
      <4> SUFFICES ASSUME NEW k \in 0 .. m PROVE f[k] = IF k = 0 THEN Bottom ELSE JoinStep(from, v, late, k, f[k - 1])
        OBVIOUS
      <4>1. CASE k = m
        <5>1. f[k] = JoinStep(from, v, late, m, g[m - 1]) /\ f[m - 1] = g[m - 1]
          BY <2>2, <2>4, <4>1
        <5> QED
          BY <2>4, <4>1, <5>1
      <4>2. CASE k # m
        <5>1. k \in 0 .. (m - 1)
          BY <2>2, <4>2
        <5>2. g[k] = IF k = 0 THEN Bottom ELSE JoinStep(from, v, late, k, g[k - 1])
          BY <3>2, <5>1
        <5>3. f[k] = g[k] /\ (k # 0 => f[k - 1] = g[k - 1])
          BY <2>2, <4>2, <5>1
        <5> QED
          BY <5>2, <5>3
      <4> QED
        BY <4>1, <4>2
    <3>4. Rec(m, f)
      BY <3>3
    <3> QED
      BY <2>2, <3>4
  <2> QED
    BY <2>3, <2>4
<1>2. \E f : Rec(Len(func.insts), f)
  BY <1>1
<1> DEFINE u == CHOOSE f : Rec(Len(func.insts), f)
<1>3. JoinAt(from, v, late) = u[Len(func.insts)]
  BY DEF JoinAt, JoinStep
<1>4. Rec(Len(func.insts), u)
  <2> HIDE DEF Rec
  <2> QED
    BY <1>2
<1> HIDE DEF u
<1>5. DOMAIN u = 0 .. Len(func.insts) /\ u[0] = Bottom
  BY <1>4
<1>6. \A k \in 1 .. Len(func.insts) : u[k] = JoinStep(from, v, late, k, u[k - 1])
  BY <1>4
<1> QED
  BY <1>3, <1>5, <1>6

-----------------------------------------------------------------------------
(***************************************************************************)
(* What the recursive functions compute, by the least place where it fails *)
(***************************************************************************)
GoodCode(code) == Len(code) \in Nat /\ \A k \in 1 .. Len(code) : GoodInst(code[k])

(* Every state along a block is a state, and knows what was known before   *)
(* the block and what the block has written.                               *)
LEMMA AlongTypes ==
    ASSUME NEW code, GoodCode(code), NEW s, IsState(s)
    PROVE  \A k \in 0 .. Len(code) :
              /\ IsState(Along(code, s)[k]) /\ DOMAIN s \subseteq DOMAIN Along(code, s)[k]
              /\ \A j \in 1 .. k : code[j].op # "adc" /\ code[j].dst # None => code[j].dst \in DOMAIN Along(code, s)[k]
<1> DEFINE A == Along(code, s)
           n == Len(code)
           P(k) == /\ IsState(A[k]) /\ DOMAIN s \subseteq DOMAIN A[k]
                   /\ \A j \in 1 .. k : code[j].op # "adc" /\ code[j].dst # None => code[j].dst \in DOMAIN A[k]
           S == {k \in 0 .. n : ~P(k)}
<1>1. n \in Nat /\ A[0] = s /\ \A k \in 1 .. n : A[k] = TransferInst(A[k - 1], code[k]) /\ GoodInst(code[k])
  BY AlongDef DEF GoodCode
<1> HIDE DEF A, n
<1>2. S = {}
  <2> SUFFICES ASSUME S # {} PROVE FALSE
    OBVIOUS
  <2>1. PICK m \in S : \A j \in S : m <= j
    <3> S \in SUBSET Nat
      BY <1>1
    <3> HIDE DEF S
    <3> QED
      BY LeastNat
  <2>2. m \in 0 .. n /\ ~P(m)
    BY <2>1
  <2>3. CASE m = 0
    BY <1>1, <2>2, <2>3
  <2>4. CASE m # 0
    <3>1. m \in 1 .. n /\ m - 1 \in 0 .. n /\ m - 1 \notin S
      BY <1>1, <2>1, <2>2, <2>4
    <3>2. P(m - 1)
      BY <3>1
    <3>3. /\ IsState(A[m]) /\ DOMAIN A[m - 1] \subseteq DOMAIN A[m]
          /\ code[m].op # "adc" /\ code[m].dst # None => code[m].dst \in DOMAIN A[m]
      BY <1>1, <3>1, <3>2, TransferType
    <3>4. \A j \in 1 .. m : j # m => j \in 1 .. (m - 1)
      BY <3>1
    <3>5. P(m)
      BY <3>2, <3>3, <3>4
    <3> QED
      BY <2>2, <3>5
  <2> QED
    BY <2>3, <2>4
<1> QED
  BY <1>2 DEF A, n

(* A block that is executed from what its entry state allows stays within  *)
(* what the states along it allow.                                         *)
LEMMA AlongCovers ==
    ASSUME NEW code, GoodCode(code), NEW s, IsState(s), NEW e \in [Vars -> Ints], NEW x \in Ints, Covers(s, e),
           \A k \in 1 .. Len(code) : code[k].op \notin {"neg", "adc"} /\ KeepsWidth(code[k], Along(code, s)[k - 1])
    PROVE  \A k \in 0 .. Len(code) :
              Covers(Along(code, s)[k], ExecAlong(code, e, x)[k]) /\ ExecAlong(code, e, x)[k] \in [Vars -> Ints]
<1> DEFINE A == Along(code, s)
           B == ExecAlong(code, e, x)
           n == Len(code)
           P(k) == Covers(A[k], B[k]) /\ B[k] \in [Vars -> Ints]
           S == {k \in 0 .. n : ~P(k)}
<1>1. /\ n \in Nat /\ A[0] = s /\ B[0] = e
      /\ \A k \in 1 .. n : /\ A[k] = TransferInst(A[k - 1], code[k]) /\ B[k] = Exec(B[k - 1], code[k], x)
                           /\ GoodInst(code[k])
                           /\ code[k].op \notin {"neg", "adc"} /\ KeepsWidth(code[k], A[k - 1])
  BY AlongDef, ExecAlongDef DEF GoodCode
<1>2. \A k \in 0 .. n : IsState(A[k])
  BY AlongTypes
<1> HIDE DEF A, B, n
<1>3. S = {}
  <2> SUFFICES ASSUME S # {} PROVE FALSE
    OBVIOUS
  <2>1. PICK m \in S : \A j \in S : m <= j
    <3> S \in SUBSET Nat
      BY <1>1
    <3> HIDE DEF S
    <3> QED
      BY LeastNat
  <2>2. m \in 0 .. n /\ ~P(m)
    BY <2>1
  <2>3. CASE m = 0
    BY <1>1, <2>2, <2>3
  <2>4. CASE m # 0
    <3>1. m \in 1 .. n /\ m - 1 \in 0 .. n /\ m - 1 \notin S
      BY <1>1, <2>1, <2>2, <2>4
    <3>2. P(m - 1)
      BY <3>1
    <3> DEFINE t == A[m - 1]
               d == B[m - 1]
               i == code[m]
    <3>3. /\ A[m] = TransferInst(t, i) /\ B[m] = Exec(d, i, x) /\ GoodInst(i)
          /\ i.op \notin {"neg", "adc"} /\ KeepsWidth(i, t)
      BY <1>1, <3>1
    <3>4. IsState(t) /\ d \in [Vars -> Ints] /\ Covers(t, d)
      BY <1>2, <3>1, <3>2
    <3> HIDE DEF t, d, i
    <3>5. Covers(TransferInst(t, i), Exec(d, i, x)) /\ Exec(d, i, x) \in [Vars -> Ints]
      BY <3>3, <3>4, TransferCovers
    <3>6. P(m)
      BY <3>3, <3>5
    <3> QED
      BY <2>2, <3>6
  <2> QED
    BY <2>3, <2>4
<1> QED
  BY <1>3 DEF A, B, n

(* A join over blocks is a value, and allows what each of them allows.     *)
LEMMA JoinAtCovers ==
    ASSUME Len(func.insts) \in Nat, NEW from, DOMAIN from \subseteq 1 .. Len(func.insts),
           \A a \in DOMAIN from : IsState(from[a]), NEW v, NEW late \in BOOLEAN
    PROVE  /\ JoinAt(from, v, late) \in Values
           /\ \A a \in DOMAIN from : v \in DOMAIN from[a] => Gamma(from[a][v]) \subseteq Gamma(JoinAt(from, v, late))
<1> DEFINE n == Len(func.insts)
<1>1. PICK u : /\ DOMAIN u = 0 .. n /\ u[0] = Bottom /\ JoinAt(from, v, late) = u[n]
               /\ \A k \in 1 .. n : u[k] = JoinStep(from, v, late, k, u[k - 1])
  BY JoinAtDef
<1> DEFINE P(k) == /\ u[k] \in Values
                   /\ \A a \in DOMAIN from : a <= k /\ v \in DOMAIN from[a] => Gamma(from[a][v]) \subseteq Gamma(u[k])
           S == {k \in 0 .. n : ~P(k)}
<1>2. n \in Nat /\ DOMAIN from \subseteq 1 .. n
  OBVIOUS
<1>3. \A a \in DOMAIN from : v \in DOMAIN from[a] => from[a][v] \in Values
  BY DEF IsState
<1> HIDE DEF n
<1>4. S = {}
  <2> SUFFICES ASSUME S # {} PROVE FALSE
    OBVIOUS
  <2>1. PICK m \in S : \A j \in S : m <= j
    <3> S \in SUBSET Nat
      BY <1>2
    <3> HIDE DEF S
    <3> QED
      BY LeastNat
  <2>2. m \in 0 .. n /\ ~P(m)
    BY <2>1
  <2>3. CASE m = 0
    <3>1. \A a \in DOMAIN from : ~(a <= 0)
      BY <1>2
    <3>2. P(0)
      BY <1>1, <3>1, KindsAreValues
    <3> QED
      BY <2>2, <2>3, <3>2
  <2>4. CASE m # 0
    <3>1. m \in 1 .. n /\ m - 1 \in 0 .. n /\ m - 1 \notin S
      BY <1>2, <2>1, <2>2, <2>4
    <3>2. P(m - 1)
      BY <3>1
    <3>3. u[m] = JoinStep(from, v, late, m, u[m - 1])
      BY <1>1, <3>1
    <3>4. \A a \in DOMAIN from : a <= m => a <= m - 1 \/ a = m
      BY <1>2, <3>1
    <3>5. CASE m \in DOMAIN from /\ v \in DOMAIN from[m]
      <4>1. u[m] = IF late THEN Widen(u[m - 1], from[m][v]) ELSE Join(u[m - 1], from[m][v])
        BY <3>3, <3>5 DEF JoinStep
      <4>2. u[m] \in Values /\ Gamma(u[m - 1]) \subseteq Gamma(u[m]) /\ Gamma(from[m][v]) \subseteq Gamma(u[m])
        <5>1. u[m - 1] \in Values /\ from[m][v] \in Values
          BY <1>3, <3>2, <3>5
        <5> QED
          BY <4>1, <5>1, JoinCovers, WidenCovers
      <4>3. \A a \in DOMAIN from : a <= m /\ v \in DOMAIN from[a] => Gamma(from[a][v]) \subseteq Gamma(u[m])
        BY <3>2, <3>4, <4>2
      <4> QED
        BY <2>2, <4>2, <4>3
    <3>6. CASE ~(m \in DOMAIN from /\ v \in DOMAIN from[m])
      <4>1. u[m] = u[m - 1]
        BY <3>3, <3>6 DEF JoinStep
      <4>2. P(m)
        BY <3>2, <3>4, <3>6, <4>1
      <4> QED
        BY <2>2, <4>2
    <3> QED
      BY <3>5, <3>6
  <2> QED
    BY <2>3, <2>4
<1>5. P(n) /\ \A a \in DOMAIN from : a <= n
  BY <1>2, <1>4
<1> QED
  BY <1>1, <1>5

-----------------------------------------------------------------------------
(***************************************************************************)
(* The analysis                                                            *)
(***************************************************************************)
ValueTypes ==
    /\ func \in FunctionSet
    /\ stack \in Seq(Blocks)
    /\ DOMAIN entries = Blocks /\ DOMAIN exits = Blocks
    /\ \A b \in Blocks : IsState(entries[b]) /\ IsState(exits[b])

(* While the execution goes on in a function that is treated in full, what
   its variables hold is allowed where it stands, and behind the entry block
   nothing is left unknown. *)
Sheltered ==
    stage = "done" /\ Tame /\ at \in Blocks =>
        /\ env \in [Vars -> Ints] /\ Covers(entries[at], env)
        /\ at # 1 => DOMAIN entries[at] = Vars

VInv == ValueTypes /\ ValuesSettled /\ Sheltered

LEMMA GoodBlocks ==
    ASSUME func \in FunctionSet
    PROVE  /\ Len(func.insts) \in Nat \ {0} /\ Blocks = 1 .. Len(func.insts)
           /\ \A b \in Blocks : GoodCode(Code(b)) /\ DOMAIN Code(b) = 1 .. Len(Code(b))
<1>1. IsFunction(func)
  BY FunctionsAssumption
<1>2. Blocks = 1 .. Len(func.insts) /\ Len(func.insts) \in Nat \ {0}
  BY <1>1 DEF IsFunction, Blocks
<1>3. \A b \in Blocks : /\ Len(Code(b)) \in Nat /\ DOMAIN Code(b) = 1 .. Len(Code(b))
                        /\ \A k \in DOMAIN Code(b) : IsInst(Code(b)[k])
  BY <1>1, <1>2 DEF IsFunction, Code
<1>4. \A b \in Blocks : \A k \in DOMAIN Code(b) : ToSet(Code(b)[k].args) \subseteq Vars \cup Ints
  BY ValueSetsAssumption DEF Blocks, Code
<1> QED
  BY <1>2, <1>3, <1>4 DEF GoodCode, GoodInst

LEMMA FrontAndLast ==
    ASSUME NEW A, NEW s \in Seq(A), s # <<>>
    PROVE  /\ Front(s) \in Seq(A) /\ Last(s) \in A
           /\ ToSet(s) = ToSet(Front(s)) \cup {Last(s)}
<1>1. Len(s) \in Nat \ {0} /\ DOMAIN s = 1 .. Len(s)
  OBVIOUS
<1>2. /\ Front(s) \in Seq(A) /\ DOMAIN Front(s) = 1 .. Len(s) - 1
      /\ \A k \in 1 .. Len(s) - 1 : Front(s)[k] = s[k]
  BY <1>1 DEF Front
<1>3. Last(s) = s[Len(s)] /\ Last(s) \in A
  BY <1>1 DEF Last
<1>4. ToSet(s) = {s[k] : k \in 1 .. Len(s) - 1} \cup {s[Len(s)]}
  BY <1>1 DEF ToSet
<1> QED
  BY <1>2, <1>3, <1>4 DEF ToSet

(* Whatever their order, the successors of a block are what is pushed.     *)
LEMMA PushedAre ==
    ASSUME func \in FunctionSet, NEW b \in Blocks, NEW below \in Seq(Blocks), PushSuccs(below, b)
    PROVE  stack' \in Seq(Blocks) /\ ToSet(stack') = ToSet(below) \cup Succs(b)
<1> DEFINE new == Succs(b) \ ToSet(below)
           c   == Cardinality(new)
<1>1. PICK s \in Injection(1 .. c, new) : stack' = below \o s
  BY DEF PushSuccs
<1>2. IsFiniteSet(new) /\ new \subseteq Blocks
  <2>1. IsFiniteSet(Blocks)
    BY GoodBlocks, FS_Interval
  <2>2. new \in SUBSET Blocks
    BY FunctionShape
  <2> HIDE DEF new
  <2> QED
    BY <2>1, <2>2, FS_Subset
<1> HIDE DEF new
<1>3. c \in Nat
  BY <1>2, FS_CardinalityType
<1>4. Cardinality(1 .. c) = c
  BY <1>3, FS_Interval
<1>5. s \in Surjection(1 .. c, new)
  BY <1>1, <1>2, <1>4, FS_Injection
<1>6. s \in [1 .. c -> new] /\ \A t \in new : \E k \in 1 .. c : s[k] = t
  BY <1>5 DEF Surjection
<1>7. s \in Seq(new) /\ Range(s) = new
  BY <1>3, <1>6 DEF Range
<1>8. s \in Seq(Blocks)
  BY <1>2, <1>3, <1>6
<1>9. below \o s \in Seq(Blocks) /\ Range(below \o s) = Range(below) \cup Range(s)
  BY <1>8, ConcatProperties, RangeConcatenation
<1>10. \A t : ToSet(t) = Range(t)
  BY DEF ToSet, Range
<1>11. ToSet(stack') = ToSet(below) \cup new
  BY <1>1, <1>7, <1>9, <1>10
<1> QED
  BY <1>1, <1>9, <1>11 DEF new

(* An entry state is made of the exit states of the predecessors only.     *)
LEMMA EntryOf ==
    ASSUME NEW b, NEW late, NEW xs, NEW ys, \A a \in Preds(b) : xs[a] = ys[a]
    PROVE  EntryState(b, xs, late) = EntryState(b, ys, late)
<1>1. [a \in Preds(b) |-> xs[a]] = [a \in Preds(b) |-> ys[a]]
  OBVIOUS
<1> QED
  BY <1>1 DEF EntryState

LEMMA ValuesKept ==
    ASSUME func' = func
    PROVE  /\ Blocks' = Blocks
           /\ \A b : Code(b)' = Code(b) /\ Preds(b)' = Preds(b) /\ Succs(b)' = Succs(b)
           /\ \A b, xs, late : EntryState(b, xs, late)' = EntryState(b, xs, late)
           /\ \A b, s : ExitState(b, s)' = ExitState(b, s)
           /\ \A b, v : Defines(b, v)' = Defines(b, v)
<1>1. Blocks' = Blocks /\ \A b : Code(b)' = Code(b) /\ Preds(b)' = Preds(b) /\ Succs(b)' = Succs(b)
  BY DEF Blocks, Code, Preds, Succs
<1>2. \A from, v, late : JoinAt(from, v, late)' = JoinAt(from, v, late)
  BY DEF JoinAt
<1>3. \A from, late : JoinAll(from, late)' = JoinAll(from, late)
  BY <1>2 DEF JoinAll
<1>4. \A b, xs, late : EntryState(b, xs, late)' = EntryState(b, xs, late)
  BY <1>1, <1>3 DEF EntryState
<1>5. \A b, s : ExitState(b, s)' = ExitState(b, s)
  BY <1>1 DEF ExitState
<1>6. \A b, v : Defines(b, v)' = Defines(b, v)
  BY <1>1 DEF Defines
<1> QED
  BY <1>1, <1>4, <1>5, <1>6

LEMMA EntryCovers ==
    ASSUME ValueTypes, NEW b \in Blocks, NEW late \in BOOLEAN
    PROVE  /\ IsState(EntryState(b, exits, late))
           /\ b = 1 => DOMAIN EntryState(b, exits, late) = {}
           /\ b # 1 => \A p \in Preds(b) :
                 /\ DOMAIN exits[p] \subseteq DOMAIN EntryState(b, exits, late)
                 /\ \A v \in DOMAIN exits[p] : Gamma(exits[p][v]) \subseteq Gamma(EntryState(b, exits, late)[v])
<1>1. func \in FunctionSet /\ Preds(b) \subseteq Blocks
  BY FunctionShape DEF ValueTypes
<1>2. CASE b = 1
  BY <1>2 DEF EntryState, IsState
<1>3. CASE b # 1
  <2> DEFINE from == [a \in Preds(b) |-> exits[a]]
             E == EntryState(b, exits, late)
  <2>1. E = [v \in UNION {DOMAIN from[a] : a \in DOMAIN from} |-> JoinAt(from, v, late)]
    BY <1>3 DEF EntryState, JoinAll
  <2>2. /\ Len(func.insts) \in Nat /\ DOMAIN from \subseteq 1 .. Len(func.insts)
        /\ \A a \in DOMAIN from : IsState(from[a])
        /\ DOMAIN from = Preds(b) /\ \A a \in Preds(b) : from[a] = exits[a]
    BY <1>1, GoodBlocks DEF ValueTypes
  <2> HIDE DEF from, E
  <2>3. \A v : /\ JoinAt(from, v, late) \in Values
               /\ \A a \in DOMAIN from : v \in DOMAIN from[a] => Gamma(from[a][v]) \subseteq Gamma(JoinAt(from, v, late))
    BY <2>2, JoinAtCovers
  <2>4. DOMAIN E = UNION {DOMAIN from[a] : a \in DOMAIN from} /\ \A v \in DOMAIN E : E[v] = JoinAt(from, v, late)
    BY <2>1
  <2>5. \A a \in DOMAIN from : DOMAIN from[a] \subseteq DOMAIN E
    BY <2>4
  <2>6. DOMAIN E \subseteq Vars
    BY <2>2, <2>4 DEF IsState
  <2>7. IsState(E)
    BY <2>3, <2>4, <2>6 DEF IsState
  <2>8. \A p \in Preds(b) : /\ DOMAIN exits[p] \subseteq DOMAIN E
                            /\ \A v \in DOMAIN exits[p] : Gamma(exits[p][v]) \subseteq Gamma(E[v])
    BY <2>2, <2>3, <2>4, <2>5
  <2> QED
    BY <1>3, <2>7, <2>8 DEF E
<1> QED
  BY <1>2, <1>3

LEMMA ExitType ==
    ASSUME func \in FunctionSet, NEW b \in Blocks, NEW s, IsState(s)
    PROVE  IsState(ExitState(b, s)) /\ DOMAIN s \subseteq DOMAIN ExitState(b, s)
<1>1. GoodCode(Code(b))
  BY GoodBlocks
<1>2. Len(Code(b)) \in 0 .. Len(Code(b))
  BY <1>1 DEF GoodCode
<1> QED
  BY <1>1, <1>2, AlongTypes DEF ExitState

LEMMA InitVInv == Init => VInv
<1> SUFFICES ASSUME Init PROVE VInv
  OBVIOUS
<1>1. /\ func \in FunctionSet /\ stage = "reaching" /\ stack = [b \in Blocks |-> b]
      /\ entries = [b \in Blocks |-> <<>>] /\ exits = [b \in Blocks |-> <<>>]
  BY DEF Init, InitValues
<1>2. stack \in Seq(Blocks) /\ ToSet(stack) = Blocks
  BY <1>1, GoodBlocks DEF ToSet
<1>3. ValueTypes
  BY <1>1, <1>2 DEF ValueTypes, IsState
<1>4. ValuesSettled
  BY <1>2 DEF ValuesSettled
<1>5. Sheltered
  BY <1>1 DEF Sheltered
<1> QED
  BY <1>3, <1>4, <1>5 DEF VInv

(* A visit changes the exit state of one block.  Either it stays what it was,
   or every block that reads it waits.                                     *)
LEMMA VisitVInv ==
    ASSUME VInv, VisitState
    PROVE  VInv'
<1> DEFINE b     == Last(stack)
           late  == turns + 1 > WidenAfter
           entry == EntryState(b, exits, late)
           exit  == ExitState(b, entry)
           below == Front(stack)
<1>1. /\ stage = "values" /\ stack # <<>> /\ func' = func /\ stage' = stage
      /\ entries' = [entries EXCEPT ![b] = entry] /\ exits' = [exits EXCEPT ![b] = exit]
      /\ IF exit # exits[b] THEN PushSuccs(below, b) ELSE stack' = below
  BY DEF VisitState, VisitValues
<1>2. /\ func \in FunctionSet /\ stack \in Seq(Blocks) /\ DOMAIN entries = Blocks /\ DOMAIN exits = Blocks
      /\ \A c \in Blocks : IsState(entries[c]) /\ IsState(exits[c])
  BY DEF VInv, ValueTypes
<1>3. below \in Seq(Blocks) /\ b \in Blocks /\ ToSet(stack) = ToSet(below) \cup {b}
  BY <1>1, <1>2, FrontAndLast
<1>4. late \in BOOLEAN
  OBVIOUS
<1>5. IsState(entry)
  BY <1>3, <1>4, EntryCovers DEF VInv
<1>6. IsState(exit)
  BY <1>2, <1>3, <1>5, ExitType
<1> HIDE DEF late
<1>7. entry = EntryState(b, exits, late) /\ exit = ExitState(b, entry)
  OBVIOUS
<1> HIDE DEF b, entry, exit, below
<1>8. /\ \A c \in Blocks : c # b => entries'[c] = entries[c] /\ exits'[c] = exits[c]
      /\ entries'[b] = entry /\ exits'[b] = exit
      /\ DOMAIN entries' = Blocks /\ DOMAIN exits' = Blocks
  BY <1>1, <1>2, <1>3
<1>9. stack' \in Seq(Blocks) /\ ToSet(below) \subseteq ToSet(stack')
  BY <1>1, <1>2, <1>3, PushedAre
<1>10. ValueTypes'
  BY <1>1, <1>2, <1>5, <1>6, <1>8, <1>9, ValuesKept DEF ValueTypes
<1>11. ASSUME NEW c \in Blocks, c \notin ToSet(stack')
       PROVE  \A a \in Preds(c) : exits'[a] = exits[a]
  <2>1. CASE exit = exits[b]
    BY <1>2, <1>3, <1>8, <2>1, FunctionShape
  <2>2. CASE exit # exits[b]
    <3>1. c \notin Succs(b)
      BY <1>1, <1>2, <1>3, <1>11, <2>2, PushedAre
    <3>2. \A a \in Preds(c) : a # b /\ a \in Blocks
      BY <3>1 DEF Preds
    <3> QED
      BY <1>8, <3>2
  <2> QED
    BY <2>1, <2>2
<1>12. ASSUME NEW c \in Blocks, c \notin ToSet(stack')
       PROVE  /\ \E l \in BOOLEAN : entries'[c] = EntryState(c, exits', l)
              /\ exits'[c] = ExitState(c, entries'[c])
  <2>1. \A l : EntryState(c, exits', l) = EntryState(c, exits, l)
    BY <1>11, <1>12, EntryOf
  <2>2. CASE c = b
    BY <1>4, <1>7, <1>8, <2>1, <2>2
  <2>3. CASE c # b
    <3>1. c \notin ToSet(stack)
      BY <1>3, <1>9, <1>12, <2>3
    <3>2. (\E l \in BOOLEAN : entries[c] = EntryState(c, exits, l)) /\ exits[c] = ExitState(c, entries[c])
      BY <3>1 DEF VInv, ValuesSettled
    <3> QED
      BY <1>8, <2>1, <2>3, <3>2
  <2> QED
    BY <2>2, <2>3
<1>13. ValuesSettled'
  <2>1. /\ Blocks' = Blocks
        /\ \A c, l : EntryState(c, exits, l)' = EntryState(c, exits', l)
        /\ \A c : ExitState(c, entries[c])' = ExitState(c, entries'[c])
    BY <1>1, ValuesKept
  <2>2. ToSet(stack)' = ToSet(stack')
    BY DEF ToSet
  <2> QED
    BY <1>12, <2>1, <2>2 DEF ValuesSettled
<1>14. Sheltered'
  BY <1>1 DEF Sheltered
<1> QED
  BY <1>10, <1>13, <1>14 DEF VInv

LEMMA TameKept ==
    ASSUME func' = func, stack' = stack, entries' = entries
    PROVE  Tame' <=> Tame
<1>1. /\ Blocks' = Blocks /\ \A b : Code(b)' = Code(b)
      /\ \A b, v : Defines(b, v)' <=> Defines(b, v)
  BY ValuesKept
<1> QED
  BY <1>1 DEF Tame

LEMMA OtherVInv ==
    ASSUME VInv, func' = func, stack' = stack, entries' = entries, exits' = exits
    PROVE  ValueTypes' /\ ValuesSettled'
<1>1. Blocks' = Blocks
  BY ValuesKept
<1>2. ValueTypes'
  BY <1>1 DEF VInv, ValueTypes
<1>3. ValuesSettled'
  <2>1. /\ \A c, l : EntryState(c, exits, l)' = EntryState(c, exits, l)
        /\ \A c : ExitState(c, entries[c])' = ExitState(c, entries[c])
    BY ValuesKept
  <2>2. ToSet(stack)' = ToSet(stack)
    BY DEF ToSet
  <2> QED
    BY <1>1, <2>1, <2>2 DEF VInv, ValuesSettled
<1> QED
  BY <1>2, <1>3

(* The execution starts where nothing is known of the variables.           *)
LEMMA FinishVInv ==
    ASSUME VInv, Finish
    PROVE  VInv'
<1>1. /\ func' = func /\ stack' = stack /\ entries' = entries /\ exits' = exits
      /\ at' = 1 /\ env' \in [Vars -> Inputs]
  BY DEF Finish, valueVars
<1>2. ValueTypes' /\ ValuesSettled'
  BY <1>1, OtherVInv
<1>3. ASSUME Tame PROVE Covers(entries[1], env') /\ env' \in [Vars -> Ints]
  <2>1. 1 \in Blocks \ ToSet(stack)
    BY <1>3, FunctionShape DEF Tame, ToSet, VInv, ValueTypes
  <2>2. \E late \in BOOLEAN : entries[1] = EntryState(1, exits, late)
    BY <2>1 DEF VInv, ValuesSettled
  <2>3. DOMAIN entries[1] = {}
    BY <2>1, <2>2, EntryCovers DEF VInv
  <2> QED
    BY <1>1, <2>3, InputsAssumption DEF Covers
<1>4. Sheltered'
  BY <1>1, <1>3, TameKept DEF Sheltered, Covers
<1> QED
  BY <1>2, <1>4 DEF VInv

(* A block that is left behind has an exit state that knows every variable *)
(* and allows what they hold; the entry states of its successors were made *)
(* from it.                                                                *)
LEMMA RunVInv ==
    ASSUME VInv, RunBlock
    PROVE  VInv'
<1>1. /\ stage = "done" /\ at \in Blocks
      /\ func' = func /\ stack' = stack /\ entries' = entries /\ exits' = exits
      /\ at' \in IF Succs(at) = {} THEN {None} ELSE Succs(at)
  BY DEF RunBlock, valueVars
<1>2. ValueTypes' /\ ValuesSettled'
  BY <1>1, OtherVInv
<1>3. Sheltered'
  <2> SUFFICES ASSUME Tame, at' \in Blocks
               PROVE  /\ env' \in [Vars -> Ints] /\ Covers(entries[at'], env')
                      /\ at' # 1 => DOMAIN entries[at'] = Vars
    BY <1>1, TameKept, ValuesKept DEF Sheltered, Covers
  <2> DEFINE b    == at
             c    == at'
             code == Code(b)
             n    == Len(code)
             s    == entries[b]
  <2>1. PICK r \in Inputs : env' = ExecAlong(code, env, r)[n]
    BY DEF RunBlock
  <2>2. /\ func \in FunctionSet /\ b \in Blocks /\ c \in Blocks
        /\ \A d \in Blocks : d \notin ToSet(stack) /\ IsState(entries[d]) /\ IsState(exits[d])
    BY <1>1 DEF Tame, ToSet, VInv, ValueTypes
  <2>3. env \in [Vars -> Ints] /\ Covers(s, env) /\ (b # 1 => DOMAIN s = Vars)
    BY <1>1 DEF VInv, Sheltered
  <2>4. GoodCode(code) /\ n \in Nat /\ DOMAIN code = 1 .. n /\ r \in Ints
    BY <2>2, GoodBlocks, InputsAssumption DEF GoodCode
  <2>5. \A d \in Blocks : /\ \E late \in BOOLEAN : entries[d] = EntryState(d, exits, late)
                          /\ exits[d] = ExitState(d, entries[d])
    BY <2>2 DEF VInv, ValuesSettled
  <2>6. exits[b] = Along(code, s)[n]
    BY <2>2, <2>5 DEF ExitState
  <2>7. \A k \in 1 .. n : code[k].op \notin {"neg", "adc"} /\ KeepsWidth(code[k], Along(code, s)[k - 1])
    BY <2>2, <2>4 DEF Tame
  <2>8. Covers(exits[b], env') /\ env' \in [Vars -> Ints]
    BY <2>1, <2>2, <2>3, <2>4, <2>6, <2>7, AlongCovers
  <2>9. DOMAIN exits[b] = Vars
    <3>1. DOMAIN exits[b] \subseteq Vars
      BY <2>2 DEF IsState
    <3>2. /\ DOMAIN s \subseteq DOMAIN exits[b]
          /\ \A j \in 1 .. n : code[j].op # "adc" /\ code[j].dst # None => code[j].dst \in DOMAIN exits[b]
      <4>1. IsState(s) /\ n \in 0 .. n
        BY <2>2, <2>4
      <4> HIDE DEF code, s
      <4>2. /\ DOMAIN s \subseteq DOMAIN Along(code, s)[n]
            /\ \A j \in 1 .. n : code[j].op # "adc" /\ code[j].dst # None => code[j].dst \in DOMAIN Along(code, s)[n]
        BY <2>4, <4>1, AlongTypes
      <4> QED
        BY <2>6, <4>2
    <3>3. CASE b # 1
      BY <2>3, <3>1, <3>2, <3>3
    <3>4. CASE b = 1
      <4>1. \A v \in Vars : \E k \in 1 .. n : code[k].dst = v
        BY <2>4, <3>4 DEF Tame, Defines
      <4>2. \A v \in Vars : v \in DOMAIN exits[b]
        BY <2>7, <3>2, <4>1, FunctionsAssumption
      <4> QED
        BY <3>1, <4>2
    <3> QED
      BY <3>3, <3>4
  <2>10. b \in Preds(c)
    <3>1. c \in Succs(b)
      BY <1>1, <2>2, GoodBlocks, FunctionsAssumption
    <3> QED
      BY <2>2, <3>1 DEF Preds
  <2>11. PICK late \in BOOLEAN : entries[c] = EntryState(c, exits, late)
    BY <2>2, <2>5
  <2>12. CASE c = 1
    <3>1. DOMAIN entries[c] = {}
      BY <2>2, <2>11, <2>12, EntryCovers DEF VInv
    <3> QED
      BY <2>8, <2>12, <3>1 DEF Covers
  <2>13. CASE c # 1
    <3>1. /\ DOMAIN exits[b] \subseteq DOMAIN entries[c]
          /\ \A v \in DOMAIN exits[b] : Gamma(exits[b][v]) \subseteq Gamma(entries[c][v])
      BY <2>2, <2>10, <2>11, <2>13, EntryCovers DEF VInv
    <3>2. DOMAIN entries[c] = Vars
      BY <2>2, <2>9, <3>1 DEF IsState
    <3>3. Covers(entries[c], env')
      BY <2>8, <2>9, <3>1, <3>2 DEF Covers
    <3> QED
      BY <2>8, <3>2, <3>3
  <2> QED
    BY <2>12, <2>13
<1> QED
  BY <1>2, <1>3 DEF VInv

LEMMA NextVInv == VInv /\ [Next]_vars => VInv'
<1> SUFFICES ASSUME VInv, [Next]_vars PROVE VInv'
  OBVIOUS
<1>1. CASE VisitBlock \/ StartLive \/ StartValues
  <2>1. /\ func' = func /\ stack' = stack /\ entries' = entries /\ exits' = exits
        /\ stage' \in {stage, "live", "values"} /\ stage # "done"
    BY <1>1 DEF VisitBlock, Visit, StartLive, BeginLive, StartValues, valueVars, Solving
  <2>2. Sheltered'
    BY <2>1 DEF Sheltered
  <2> QED
    BY <2>1, <2>2, OtherVInv DEF VInv
<1>2. CASE VisitState
  BY <1>2, VisitVInv
<1>3. CASE Finish
  BY <1>3, FinishVInv
<1>4. CASE RunBlock
  BY <1>4, RunVInv
<1>5. CASE UNCHANGED vars
  <2>1. /\ func' = func /\ stack' = stack /\ entries' = entries /\ exits' = exits
        /\ stage' = stage /\ at' = at /\ env' = env
    BY <1>5 DEF vars, valueVars
  <2>2. Sheltered'
    BY <2>1, TameKept, ValuesKept DEF VInv, Sheltered, Covers
  <2> QED
    BY <2>1, <2>2, OtherVInv DEF VInv
<1> QED
  BY <1>1, <1>2, <1>3, <1>4, <1>5 DEF Next

THEOREM ValueInvariance == Spec => []VInv
<1> QED
  BY InitVInv, NextVInv, PTL DEF Spec

(* At every moment of the value-set analysis a block that does not wait has
   the entry state its predecessors' exit states make and the exit state its
   instructions make of it (ValueSetAnalysis::analyze). *)
THEOREM ValuesAreSettled == Spec => []ValuesSettled
<1>1. VInv => ValuesSettled
  BY DEF VInv
<1> QED
  BY ValueInvariance, <1>1, PTL

(* An execution never leaves the value sets of a function they treat in full,
   whatever loads and calls yield. *)
THEOREM ValuesAreCovered == Spec => []ValuesCover
<1>1. VInv => ValuesCover
  BY DEF VInv, Sheltered, ValuesCover, Covers
<1> QED
  BY ValueInvariance, <1>1, PTL

=============================================================================
