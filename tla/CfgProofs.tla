------------------------------ MODULE CfgProofs ------------------------------
(***************************************************************************)
(* Proofs about control-flow graphs, for any code.  The builder: types,    *)
(* that recursive descent decodes what the entry point and the prologues   *)
(* reach and nothing else, and that the edges between the blocks cut from  *)
(* it are the ways control goes on.  The dominator tree: that it holds the *)
(* blocks that are reached and names dominators only, and that the loops   *)
(* found with it are natural.                                              *)
(***************************************************************************)
EXTENDS CfgLoops, FiniteSetTheorems, SequenceTheorems, TLAPS

Offsets == 0 .. code.size - 1
Known   == decoded \cup ToSet(pending) \cup {at}

(* What is decoded, stacked or running lies in every closed set. *)
Within == code.descend => \A S \in SUBSET DOMAIN code.inst : Closed(S) => Known \cap Offsets \subseteq S

(* Whatever control reaches next is decoded, stacked or running, unless the
   budget is used up. *)
Covered ==
    code.descend =>
        \/ CapHit
        \/ Entries \subseteq Known /\ \A o \in decoded : Onward(o) \subseteq Known

Rests == stage # "sweep" => pending = <<>> /\ at = Idle

IInv == code \in CodeSet /\ TypeOK /\ Within /\ Covered /\ Rests

-----------------------------------------------------------------------------
LEMMA CodeShape ==
    ASSUME code \in CodeSet
    PROVE  /\ code.size \in Nat /\ code.cap \in Nat /\ code.descend \in BOOLEAN
           /\ code.prologues \in Seq(Offsets)
           /\ DOMAIN code.inst = Offsets
           /\ \A o \in Offsets : code.inst[o].len \in Nat \ {0}
           /\ \A o \in Offsets : \A t, u \in code.inst[o].to : t = u /\ t \in Int
BY CodeAssumption DEF IsCode, Offsets

LEMMA OffsetsFinite ==
    ASSUME code \in CodeSet, NEW D \in SUBSET Offsets
    PROVE  IsFiniteSet(D) /\ Cardinality(D) \in Nat
<1>1. code.size \in Nat
  BY CodeShape
<1>2. 0 \in Int /\ code.size - 1 \in Int
  BY <1>1
<1>3. IsFiniteSet(Offsets)
  BY <1>2, FS_Interval DEF Offsets
<1>4. IsFiniteSet(D)
  BY <1>3, FS_Subset
<1> QED
  BY <1>4, FS_CardinalityType

LEMMA NextInRange ==
    ASSUME code \in CodeSet, NEW o \in Offsets
    PROVE  NextOffset(o) \in 1 .. code.size
<1>1. code.size \in Nat /\ code.inst[o].len \in Nat \ {0}
  BY CodeShape
<1> QED
  BY <1>1 DEF NextOffset, Offsets

(* The stack gains the target that is not decoded yet, if there is one. *)
LEMMA Pushed ==
    ASSUME code \in CodeSet, NEW o \in Offsets, NEW D
    PROVE  /\ ToSet(Only(InRegion(o) \ D)) = InRegion(o) \ D
           /\ Only(InRegion(o) \ D) \in Seq(Offsets)
<1> DEFINE T == InRegion(o) \ D
<1>1. T \subseteq Offsets /\ \A t, u \in T : t = u
  BY CodeShape DEF InRegion, Offsets
<1>2. CASE T = {}
  BY <1>2 DEF Only, ToSet
<1>3. CASE T # {}
  <2>1. PICK t : T = {t} /\ t \in Offsets
    BY <1>1, <1>3
  <2>2. Only(T) = <<t>>
    BY <2>1 DEF Only
  <2> HIDE DEF T
  <2>3. ToSet(<<t>>) = {t}
    BY DEF ToSet
  <2>4. <<t>> \in Seq(Offsets)
    BY <2>1
  <2> QED
    BY <2>1, <2>2, <2>3, <2>4 DEF T
<1> QED
  BY <1>2, <1>3

LEMMA ConcatSet ==
    ASSUME NEW A, NEW s \in Seq(A), NEW t \in Seq(A)
    PROVE  ToSet(s \o t) = ToSet(s) \cup ToSet(t)
<1>1. /\ Len(s \o t) = Len(s) + Len(t) /\ DOMAIN (s \o t) = 1 .. Len(s) + Len(t)
      /\ \A k \in 1 .. Len(s) : (s \o t)[k] = s[k]
      /\ \A k \in 1 .. Len(t) : (s \o t)[Len(s) + k] = t[k]
  OBVIOUS
<1>2. ASSUME NEW x \in ToSet(s \o t) PROVE x \in ToSet(s) \cup ToSet(t)
  <2>1. PICK k \in 1 .. Len(s) + Len(t) : x = (s \o t)[k]
    BY <1>1 DEF ToSet
  <2>2. CASE k <= Len(s)
    BY <1>1, <2>1, <2>2 DEF ToSet
  <2>3. CASE k > Len(s)
    <3>1. k - Len(s) \in 1 .. Len(t) /\ k = Len(s) + (k - Len(s))
      BY <2>3
    <3> QED
      BY <1>1, <2>1, <3>1 DEF ToSet
  <2> QED
    BY <2>2, <2>3
<1>3. ToSet(s) \subseteq ToSet(s \o t)
  BY <1>1 DEF ToSet
<1>4. ToSet(t) \subseteq ToSet(s \o t)
  <2>2. DOMAIN t = 1 .. Len(t)
    OBVIOUS
  <2> SUFFICES ASSUME NEW k \in 1 .. Len(t) PROVE t[k] \in ToSet(s \o t)
    BY <2>2, Zenon DEF ToSet
  <2>1. Len(s) + k \in 1 .. Len(s) + Len(t)
    OBVIOUS
  <2> QED
    BY <1>1, <2>1 DEF ToSet
<1> QED
  BY <1>2, <1>3, <1>4

LEMMA PopSet ==
    ASSUME NEW A, NEW s \in Seq(A), s # <<>>
    PROVE  /\ Front(s) \in Seq(A) /\ Last(s) \in A
           /\ ToSet(s) = ToSet(Front(s)) \cup {Last(s)}
<1>1. Len(s) \in Nat \ {0}
  OBVIOUS
<1>2. /\ Front(s) \in Seq(A) /\ DOMAIN Front(s) = 1 .. Len(s) - 1
      /\ \A k \in 1 .. Len(s) - 1 : Front(s)[k] = s[k]
  BY <1>1 DEF Front
<1>3. Last(s) = s[Len(s)] /\ Last(s) \in A
  BY <1>1 DEF Last
<1>4. ToSet(s) = {s[k] : k \in 1 .. Len(s) - 1} \cup {s[Len(s)]}
  BY <1>1 DEF ToSet
<1>5. ToSet(Front(s)) = {s[k] : k \in 1 .. Len(s) - 1}
  BY <1>2 DEF ToSet
<1> QED
  BY <1>2, <1>3, <1>4, <1>5

-----------------------------------------------------------------------------
LEMMA InitInv == Init => IInv
<1> SUFFICES ASSUME Init PROVE IInv
  OBVIOUS
<1>1. code \in CodeSet /\ stage = "sweep" /\ decoded = {}
  BY DEF Init
<1>2. /\ code.size \in Nat /\ code.cap \in Nat /\ code.descend \in BOOLEAN
      /\ code.prologues \in Seq(Offsets) /\ DOMAIN code.inst = Offsets
  BY <1>1, CodeShape
<1>3. IsCode(code)
  BY <1>1, CodeAssumption
<1>4. Cardinality(decoded) = 0 /\ Cardinality(decoded) <= code.cap
  BY <1>1, <1>2, FS_EmptySet
<1>5. CASE code.descend
  <2>1. pending = <<0>> \o code.prologues /\ at = Idle
    BY <1>5 DEF Init
  <2>2. <<0>> \in Seq(0 .. code.size) /\ code.prologues \in Seq(0 .. code.size)
    BY <1>2 DEF Offsets
  <2>3. pending \in Seq(0 .. code.size)
    BY <2>1, <2>2
  <2>4. ToSet(<<0>>) = {0}
    BY DEF ToSet
  <2>5. ToSet(pending) = {0} \cup ToSet(code.prologues)
    <3>1. \A s, t \in Seq(0 .. code.size) : ToSet(s \o t) = ToSet(s) \cup ToSet(t)
      BY ConcatSet
    <3> QED
      BY <2>1, <2>2, <2>4, <3>1
  <2>6. Entries = ToSet(pending) \cap Offsets
    BY <2>5 DEF Entries, Offsets
  <2>7. TypeOK
    BY <1>1, <1>2, <1>3, <1>4, <2>1, <2>3 DEF TypeOK, Idle
  <2>8. Known \cap Offsets = Entries
    BY <1>1, <2>1, <2>6 DEF Known, Idle, Offsets
  <2>9. Within
    BY <2>8 DEF Within, Closed
  <2>10. Covered
    BY <1>1, <2>6 DEF Covered, Known
  <2> QED
    BY <1>1, <2>7, <2>9, <2>10 DEF IInv, Rests
<1>6. CASE ~code.descend
  <2>1. pending = <<>> /\ at = 0
    BY <1>6 DEF Init
  <2>2. TypeOK
    BY <1>1, <1>2, <1>3, <1>4, <2>1 DEF TypeOK, Idle
  <2> QED
    BY <1>1, <1>6, <2>2 DEF IInv, Within, Covered, Rests
<1> QED
  BY <1>5, <1>6

(* While the code stays, so do the sets read off it. *)
LEMMA SameCode ==
    ASSUME code' = code
    PROVE  /\ Offsets' = Offsets /\ Entries' = Entries
           /\ \A S : Closed(S)' <=> Closed(S)
           /\ \A o : Onward(o)' = Onward(o)
BY DEF Offsets, Entries, Closed, Onward, InRegion, Kind, NextOffset

LEMMA Inside ==
    ASSUME code \in CodeSet
    PROVE  Entries \subseteq Offsets /\ \A o \in Offsets : Onward(o) \subseteq Offsets
<1>1. Entries \subseteq Offsets
  BY DEF Entries, Offsets
<1>2. ASSUME NEW o \in Offsets PROVE InRegion(o) \subseteq Offsets
  <2>1. code.size \in Nat /\ \A t \in code.inst[o].to : t \in Int
    BY CodeShape
  <2> QED
    BY <2>1 DEF InRegion, Offsets
<1> QED
  BY <1>1, <1>2 DEF Onward, Offsets

LEMMA PopInv == ASSUME IInv, Pop PROVE IInv'
<1> USE DEF IInv
<1>1. /\ stage = "sweep" /\ at = Idle /\ pending # <<>> /\ pending' = Front(pending)
      /\ at' = IF Last(pending) >= code.size \/ Last(pending) \in decoded THEN Idle ELSE Last(pending)
      /\ code' = code /\ stage' = stage /\ decoded' = decoded /\ blocks' = blocks
  BY DEF Pop
<1>2. /\ pending' \in Seq(0 .. code.size) /\ Last(pending) \in 0 .. code.size
      /\ ToSet(pending) = ToSet(pending') \cup {Last(pending)}
  <2>1. pending \in Seq(0 .. code.size)
    BY DEF TypeOK
  <2> QED
    BY <1>1, <2>1, PopSet
<1>3. code.size \in Nat
  BY CodeShape
<1>4. TypeOK'
  <2>1. at' \in Idle .. code.size
    BY <1>1, <1>2, <1>3 DEF Idle
  <2> QED
    BY <1>1, <1>2, <2>1 DEF TypeOK
<1>5. Known' \cap Offsets = Known \cap Offsets
  BY <1>1, <1>2, <1>3 DEF Known, Offsets, Idle
<1>6. Within'
  BY <1>1, <1>5, SameCode DEF Within
<1>7. Covered'
  <2> SUFFICES ASSUME code.descend, ~CapHit PROVE Covered'
    BY <1>1 DEF Covered, CapHit
  <2>1. Entries \subseteq Known' /\ \A o \in decoded : Onward(o) \subseteq Known'
    <3>1. decoded \subseteq Offsets
      BY DEF TypeOK, Offsets
    <3> QED
      BY <1>5, <3>1, Inside DEF Covered
  <2> QED
    BY <1>1, <2>1, SameCode DEF Covered
<1> QED
  BY <1>1, <1>4, <1>6, <1>7 DEF Rests

LEMMA DescendInv == ASSUME IInv, Descend PROVE IInv'
<1> USE DEF IInv
<1>1. /\ stage = "sweep" /\ code.descend /\ at \notin decoded
      /\ 0 <= at /\ at < code.size /\ Cardinality(decoded) < code.cap
      /\ decoded' = decoded \cup {at}
      /\ pending' = pending \o Only(InRegion(at) \ decoded')
      /\ at' = IF Kind(at) \in Terminal THEN Idle ELSE NextOffset(at)
      /\ code' = code /\ stage' = stage
  BY DEF Descend, Decodable
<1>2. code.size \in Nat /\ code.cap \in Nat /\ at \in Offsets /\ decoded \subseteq Offsets
  <2>1. code.size \in Nat /\ code.cap \in Nat
    BY CodeShape
  <2>2. at \in Int /\ decoded \subseteq Offsets
    BY <2>1 DEF TypeOK, Idle, Offsets
  <2> QED
    BY <1>1, <2>1, <2>2 DEF Offsets
<1>3. NextOffset(at) \in 1 .. code.size
  BY <1>2, NextInRange
<1>4. /\ pending' \in Seq(0 .. code.size)
      /\ ToSet(pending') = ToSet(pending) \cup (InRegion(at) \ decoded')
  <2>1. /\ ToSet(Only(InRegion(at) \ decoded')) = InRegion(at) \ decoded'
        /\ Only(InRegion(at) \ decoded') \in Seq(Offsets)
    BY <1>2, Pushed
  <2>2. Only(InRegion(at) \ decoded') \in Seq(0 .. code.size)
    BY <1>2, <2>1 DEF Offsets
  <2>3. pending \in Seq(0 .. code.size)
    BY DEF TypeOK
  <2>4. \A s, t \in Seq(0 .. code.size) : s \o t \in Seq(0 .. code.size) /\ ToSet(s \o t) = ToSet(s) \cup ToSet(t)
    BY ConcatSet
  <2> QED
    BY <1>1, <2>1, <2>2, <2>3, <2>4
<1>5. Cardinality(decoded') = Cardinality(decoded) + 1 /\ Cardinality(decoded) \in Nat
  BY <1>1, <1>2, OffsetsFinite, FS_AddElement
<1>6. TypeOK'
  <2>1. at' \in Idle .. code.size
    BY <1>1, <1>2, <1>3 DEF Idle
  <2>2. decoded' \subseteq 0 .. code.size - 1
    BY <1>1, <1>2 DEF Offsets
  <2>3. Cardinality(decoded') <= code.cap
    BY <1>1, <1>2, <1>5
  <2> QED
    BY <1>1, <1>4, <2>1, <2>2, <2>3 DEF TypeOK
<1>7. Onward(at) \subseteq Known' /\ Known' \cap Offsets \subseteq Known \cup Onward(at)
  <2>1. Known' = Known \cup (InRegion(at) \ decoded') \cup {at'}
    BY <1>1, <1>4 DEF Known
  <2>2. InRegion(at) \subseteq Known'
    BY <2>1 DEF Known
  <2>3. CASE Kind(at) \in Terminal
    <3>1. at' \notin Offsets /\ Onward(at) = InRegion(at)
      BY <1>1, <2>3 DEF Offsets, Idle, Onward
    <3> QED
      BY <2>1, <2>2, <3>1
  <2>4. CASE Kind(at) \notin Terminal
    <3>1. at' = NextOffset(at) /\ Onward(at) = InRegion(at) \cup ({NextOffset(at)} \cap Offsets)
      BY <1>1, <2>4 DEF Offsets, Onward
    <3> QED
      BY <2>1, <2>2, <3>1
  <2> QED
    BY <2>3, <2>4
<1>8. Within'
  <2> SUFFICES ASSUME NEW S \in SUBSET DOMAIN code.inst, Closed(S)
               PROVE  Known' \cap Offsets \subseteq S
    BY <1>1, SameCode DEF Within
  <2>1. Known \cap Offsets \subseteq S
    BY <1>1 DEF Within
  <2>2. at \in S
    BY <1>2, <2>1 DEF Known
  <2>3. at \in S \cap DOMAIN code.inst
    BY <2>2
  <2>4. Onward(at) \subseteq S
    BY <2>3 DEF Closed
  <2> QED
    BY <1>7, <2>1, <2>4
<1>9. Covered'
  <2> SUFFICES ASSUME ~CapHit' PROVE Covered'
    BY DEF Covered
  <2>1. ~CapHit
    BY <1>1, <1>2, <1>5 DEF CapHit
  <2>2. Entries \subseteq Known /\ \A o \in decoded : Onward(o) \subseteq Known
    BY <1>1, <2>1 DEF Covered
  <2>3. Known \subseteq Known'
    BY <1>1, <1>4 DEF Known
  <2> QED
    BY <1>1, <1>7, <2>2, <2>3, SameCode DEF Covered
<1> QED
  BY <1>1, <1>6, <1>8, <1>9 DEF Rests

LEMMA LinearInv == ASSUME IInv, Linear PROVE IInv'
<1> USE DEF IInv
<1>1. /\ stage = "sweep" /\ ~code.descend
      /\ 0 <= at /\ at < code.size /\ Cardinality(decoded) < code.cap
      /\ decoded' = decoded \cup {at} /\ at' = NextOffset(at)
      /\ code' = code /\ stage' = stage /\ pending' = pending
  BY DEF Linear, Decodable
<1>2. code.size \in Nat /\ code.cap \in Nat /\ at \in Offsets /\ decoded \subseteq Offsets
  <2>1. code.size \in Nat /\ code.cap \in Nat
    BY CodeShape
  <2>2. at \in Int /\ decoded \subseteq Offsets
    BY <2>1 DEF TypeOK, Idle, Offsets
  <2> QED
    BY <1>1, <2>1, <2>2 DEF Offsets
<1>3. NextOffset(at) \in 1 .. code.size
  BY <1>2, NextInRange
<1>4. Cardinality(decoded') <= code.cap
  <2>1. Cardinality(decoded) \in Nat /\ IsFiniteSet(decoded)
    BY <1>2, OffsetsFinite
  <2>2. Cardinality(decoded') = Cardinality(decoded) \/ Cardinality(decoded') = Cardinality(decoded) + 1
    BY <1>1, <2>1, FS_AddElement
  <2> QED
    BY <1>1, <1>2, <2>1, <2>2
<1>5. TypeOK'
  <2>1. at' \in Idle .. code.size
    BY <1>1, <1>2, <1>3 DEF Idle
  <2>2. decoded' \subseteq 0 .. code.size - 1
    BY <1>1, <1>2 DEF Offsets
  <2> QED
    BY <1>1, <1>4, <2>1, <2>2 DEF TypeOK
<1> QED
  BY <1>1, <1>5 DEF Within, Covered, Rests

LEMMA BreakInv == ASSUME IInv, Break PROVE IInv'
<1> USE DEF IInv
<1>1. /\ stage = "sweep" /\ at # Idle
      /\ ~Decodable \/ (code.descend /\ at \in decoded)
      /\ at' = Idle /\ UNCHANGED <<code, stage, pending, decoded, blocks>>
  BY DEF Break
<1>2. code.size \in Nat /\ at \in 0 .. code.size
  <2>1. code.size \in Nat /\ at \in Idle .. code.size
    BY CodeShape DEF TypeOK
  <2> QED
    BY <1>1, <2>1 DEF Idle
<1>3. TypeOK'
  <2>1. at' \in Idle .. code.size
    BY <1>1, <1>2 DEF Idle
  <2> QED
    BY <1>1, <2>1 DEF TypeOK
<1>4. Known' \cap Offsets \subseteq Known
  BY <1>1 DEF Known, Offsets, Idle
<1>5. Within'
  BY <1>1, <1>4, SameCode DEF Within
<1>6. Covered'
  <2> SUFFICES ASSUME code.descend, ~CapHit PROVE Covered'
    BY <1>1 DEF Covered, CapHit
  <2>1. at \in decoded \/ at \notin Offsets
    <3>1. Cardinality(decoded) \in Nat /\ code.cap \in Nat
      <4>1. decoded \subseteq Offsets
        BY DEF TypeOK, Offsets
      <4> QED
        BY <4>1, OffsetsFinite, CodeShape
    <3>2. Cardinality(decoded) < code.cap
      BY <3>1 DEF CapHit
    <3> QED
      BY <1>1, <1>2, <3>2 DEF Decodable, Offsets
  <2>2. Known \cap Offsets \subseteq Known'
    BY <1>1, <2>1 DEF Known
  <2>3. decoded \subseteq Offsets
    BY DEF TypeOK, Offsets
  <2>4. Entries \subseteq Known' /\ \A o \in decoded : Onward(o) \subseteq Known'
    BY <2>2, <2>3, Inside DEF Covered
  <2> QED
    BY <1>1, <2>4, SameCode DEF Covered
<1> QED
  BY <1>1, <1>3, <1>5, <1>6 DEF Rests

LEMMA LaterInv == ASSUME IInv, Sort \/ BuildBlocks \/ ConnectEdges PROVE IInv'
<1> USE DEF IInv
<1>1. /\ stage' \in {"blocks", "edges", "graph"} /\ pending = <<>> /\ at = Idle
      /\ code' = code /\ pending' = pending /\ at' = at /\ decoded' = decoded
  BY DEF Sort, BuildBlocks, ConnectEdges, Rests
<1>2. TypeOK'
  BY <1>1 DEF TypeOK
<1>3. Known' = Known
  BY <1>1 DEF Known
<1>4. Within' /\ Covered'
  BY <1>1, <1>3, SameCode DEF Within, Covered, CapHit
<1> QED
  BY <1>1, <1>2, <1>4 DEF Rests

LEMMA NextInv == ASSUME IInv, [Build]_builder PROVE IInv'
<1>1. CASE UNCHANGED builder
  <2>1. /\ code' = code /\ stage' = stage /\ pending' = pending /\ at' = at /\ decoded' = decoded
    BY <1>1 DEF builder
  <2>2. TypeOK'
    BY <2>1 DEF IInv, TypeOK
  <2>3. Known' = Known
    BY <2>1 DEF Known
  <2> QED
    BY <2>1, <2>2, <2>3, SameCode DEF IInv, Within, Covered, CapHit, Rests
<1> QED
  BY <1>1, PopInv, DescendInv, LinearInv, BreakInv, LaterInv DEF Build

LEMMA Invariance == BuilderSpec => []IInv
<1>1. Init => IInv
  BY InitInv
<1>2. IInv /\ [Build]_builder => IInv'
  BY NextInv
<1> QED
  BY <1>1, <1>2, PTL DEF BuilderSpec

(* The sweep stays inside the region and max_instructions
   (cfg-builder/src/lib.rs:311-413). *)
THEOREM TypeCorrect == BuilderSpec => []TypeOK
<1>1. IInv => TypeOK
  BY DEF IInv
<1> QED
  BY <1>1, Invariance, PTL

LEMMA Exact == IInv => DecodesReachable
<1> SUFFICES ASSUME IInv, code.descend PROVE DecodesReachable
  BY DEF DecodesReachable
<1> USE DEF IInv
<1>1. decoded \subseteq Offsets
  BY DEF TypeOK, Offsets
<1>2. \A S \in SUBSET DOMAIN code.inst : Closed(S) => decoded \subseteq S
  BY <1>1 DEF Within, Known
<1>3. ASSUME stage # "sweep", ~CapHit PROVE Closed(decoded)
  <2>1. ToSet(pending) = {}
    BY <1>3 DEF Rests, ToSet
  <2>2. Known \cap Offsets = decoded
    <3>1. at \notin Offsets
      BY <1>3 DEF Rests, Idle, Offsets
    <3> QED
      BY <1>1, <2>1, <3>1 DEF Known
  <2>3. Entries \subseteq decoded /\ \A o \in decoded : Onward(o) \subseteq decoded
    BY <1>3, <2>2, Inside DEF Covered
  <2> QED
    BY <2>3 DEF Closed
<1> QED
  BY <1>2, <1>3 DEF DecodesReachable

(* For any code and any order of the stack, recursive descent decodes what the
   entry point and the prologues reach, and nothing else (lib.rs:336-413). *)
THEOREM DescentIsExact == BuilderSpec => []DecodesReachable
BY Exact, Invariance, PTL

-----------------------------------------------------------------------------
(***************************************************************************)
(* Finite sets of numbers in order                                         *)
(***************************************************************************)
LEMMA BelowGrows ==
    ASSUME NEW S \in SUBSET Nat, IsFiniteSet(S), NEW o \in S
    PROVE  /\ IsFiniteSet(Below(S, o)) /\ Cardinality(S) \in Nat
           /\ Cardinality(Below(S, o)) \in 0 .. Cardinality(S) - 1
           /\ \A q \in S : o < q => Cardinality(Below(S, o)) < Cardinality(Below(S, q))
<1>1. \A q \in S : IsFiniteSet(Below(S, q)) /\ Cardinality(Below(S, q)) \in Nat
  <2> SUFFICES ASSUME NEW q \in S PROVE IsFiniteSet(Below(S, q)) /\ Cardinality(Below(S, q)) \in Nat
    OBVIOUS
  <2>1. Below(S, q) \in SUBSET S
    BY DEF Below
  <2>2. IsFiniteSet(Below(S, q))
    BY <2>1, FS_Subset
  <2> QED
    BY <2>2, FS_CardinalityType
<1>2. Cardinality(S) \in Nat
  BY FS_CardinalityType
<1>3. Cardinality(Below(S, o)) <= Cardinality(S) - 1
  <2>1. Below(S, o) \in SUBSET (S \ {o})
    BY DEF Below
  <2>2. IsFiniteSet(S \ {o}) /\ Cardinality(S \ {o}) = Cardinality(S) - 1
    BY FS_RemoveElement
  <2> QED
    BY <2>1, <2>2, FS_Subset
<1>4. ASSUME NEW q \in S, o < q PROVE Cardinality(Below(S, o)) < Cardinality(Below(S, q))
  <2>0. \A p \in S : p \in Nat
    OBVIOUS
  <2>1. Below(S, o) \cup {o} \in SUBSET Below(S, q) /\ o \notin Below(S, o)
    <3>1. \A p \in S : p < o => p < q
      BY <1>4, <2>0
    <3>2. ~(o < o)
      BY <2>0
    <3> QED
      BY <1>4, <3>1, <3>2 DEF Below
  <2>2. Cardinality(Below(S, o) \cup {o}) = Cardinality(Below(S, o)) + 1
    BY <1>1, <2>1, FS_AddElement
  <2>3. Cardinality(Below(S, o) \cup {o}) <= Cardinality(Below(S, q))
    BY <1>1, <2>1, FS_Subset
  <2> QED
    BY <1>1, <2>2, <2>3
<1> QED
  BY <1>1, <1>2, <1>3, <1>4

(* Every rank is somebody's. *)
LEMMA RanksTaken ==
    ASSUME NEW S \in SUBSET Nat, IsFiniteSet(S), NEW k \in 1 .. Cardinality(S)
    PROVE  \E o \in S : Cardinality(Below(S, o)) = k - 1
<1> DEFINE n == Cardinality(S)
           T == 0 .. n - 1
           f == [o \in S |-> Cardinality(Below(S, o))]
<1>1. n \in Nat
  BY FS_CardinalityType
<1>2. \A o \in S : Cardinality(Below(S, o)) \in T
  BY BelowGrows
<1>3. \A o, q \in S : o < q => Cardinality(Below(S, o)) < Cardinality(Below(S, q))
  BY BelowGrows
<1>4. \A o, q \in S : Cardinality(Below(S, o)) = Cardinality(Below(S, q)) => o = q
  <2> SUFFICES ASSUME NEW o \in S, NEW q \in S, o # q
               PROVE  Cardinality(Below(S, o)) # Cardinality(Below(S, q))
    OBVIOUS
  <2>1. o < q \/ q < o
    OBVIOUS
  <2>2. Cardinality(Below(S, o)) \in Int /\ Cardinality(Below(S, q)) \in Int
    BY <1>1, <1>2
  <2> QED
    BY <1>3, <2>1, <2>2
<1>5. IsFiniteSet(T) /\ Cardinality(T) = n
  <2>1. 0 \in Int /\ n - 1 \in Int
    BY <1>1
  <2> QED
    BY <1>1, <2>1, FS_Interval
<1>6. f \in Injection(S, T)
  <2>1. f \in [S -> T]
    BY <1>2
  <2>2. \A o, q \in S : f[o] = f[q] => o = q
    BY <1>4
  <2> HIDE DEF f, T
  <2> QED
    BY <2>1, <2>2 DEF Injection, IsInjective
<1>7. f \in Surjection(S, T)
  <2> HIDE DEF f, T, n
  <2> QED
    BY <1>5, <1>6, FS_Injection DEF n
<1>8. k - 1 \in T
  BY <1>1
<1>9. \E o \in S : f[o] = k - 1
  <2> HIDE DEF f, T
  <2> QED
    BY <1>7, <1>8 DEF Surjection
<1> QED
  BY <1>9

LEMMA InOrder ==
    ASSUME NEW S \in SUBSET Nat, IsFiniteSet(S)
    PROVE  /\ Cardinality(S) \in Nat /\ Ordered(S) \in Seq(S) /\ Len(Ordered(S)) = Cardinality(S)
           /\ \A o \in S : Cardinality(Below(S, o)) + 1 \in 1 .. Cardinality(S)
                           /\ Ordered(S)[Cardinality(Below(S, o)) + 1] = o
           /\ \A j, k \in 1 .. Cardinality(S) : j < k <=> Ordered(S)[j] < Ordered(S)[k]
<1> DEFINE n    == Cardinality(S)
           b(o) == Cardinality(Below(S, o))
           s    == Ordered(S)
<1>1. n \in Nat
  BY FS_CardinalityType
<1>2. \A o \in S : b(o) \in 0 .. n - 1
  BY BelowGrows
<1>3. \A o, q \in S : o < q => b(o) < b(q)
  BY BelowGrows
<1>4. \A k \in 1 .. n : s[k] \in S /\ b(s[k]) = k - 1
  <2> SUFFICES ASSUME NEW k \in 1 .. n PROVE s[k] \in S /\ b(s[k]) = k - 1
    OBVIOUS
  <2>1. \E o \in S : b(o) = k - 1
    BY RanksTaken
  <2>2. s[k] = CHOOSE o \in S : b(o) = k - 1
    BY DEF Ordered
  <2> HIDE DEF b, s
  <2> QED
    BY <2>1, <2>2
<1>5. s \in [1 .. n -> S]
  <2>1. s = [k \in 1 .. n |-> s[k]]
    BY DEF Ordered
  <2> HIDE DEF s, b
  <2> QED
    BY <1>4, <2>1
<1> HIDE DEF b, s, n
<1>6. s \in Seq(S) /\ Len(s) = n
  BY <1>1, <1>5
<1>7. ASSUME NEW o \in S PROVE b(o) + 1 \in 1 .. n /\ s[b(o) + 1] = o
  <2>1. b(o) + 1 \in 1 .. n
    BY <1>1, <1>2
  <2>2. s[b(o) + 1] \in S /\ b(s[b(o) + 1]) = b(o)
    BY <1>1, <1>2, <1>4, <2>1
  <2> DEFINE q == s[b(o) + 1]
  <2>3. b(o) \in Int /\ q \in S /\ b(q) = b(o)
    BY <1>1, <1>2, <2>2
  <2> HIDE DEF q
  <2>4. ~(o < q) /\ ~(q < o)
    BY <1>3, <2>3
  <2>5. o \in Nat /\ q \in Nat
    BY <2>3
  <2>6. q = o
    BY <2>4, <2>5
  <2> QED
    BY <2>1, <2>6 DEF q
<1>8. ASSUME NEW j \in 1 .. n, NEW k \in 1 .. n PROVE j < k <=> s[j] < s[k]
  <2>1. s[j] \in Nat /\ s[k] \in Nat /\ s[j] \in S /\ s[k] \in S /\ b(s[j]) = j - 1 /\ b(s[k]) = k - 1
    BY <1>4
  <2>2. s[j] < s[k] => j < k
    BY <1>1, <1>3, <2>1
  <2>3. s[k] < s[j] => k < j
    BY <1>1, <1>3, <2>1
  <2>4. s[j] = s[k] => j = k
    BY <1>1, <2>1
  <2> QED
    BY <1>1, <2>1, <2>2, <2>3, <2>4
<1> QED
  BY <1>1, <1>6, <1>7, <1>8 DEF b, s, n

LEMMA Extremes ==
    ASSUME NEW S \in SUBSET Nat, IsFiniteSet(S), S # {}
    PROVE  /\ Ordered(S)[1] \in S /\ \A o \in S : Ordered(S)[1] <= o
           /\ Cardinality(S) \in Nat \ {0}
           /\ Ordered(S)[Cardinality(S)] \in S /\ \A o \in S : o <= Ordered(S)[Cardinality(S)]
<1> DEFINE n    == Cardinality(S)
           b(o) == Cardinality(Below(S, o))
           s    == Ordered(S)
<1>1. /\ n \in Nat /\ s \in Seq(S) /\ Len(s) = n
      /\ \A o \in S : b(o) + 1 \in 1 .. n /\ s[b(o) + 1] = o
      /\ \A j, k \in 1 .. n : j < k <=> s[j] < s[k]
  BY InOrder
<1> HIDE DEF n, b, s
<1>2. n \in Nat \ {0} /\ 1 \in 1 .. n /\ n \in 1 .. n
  <2>1. PICK o : o \in S
    OBVIOUS
  <2>2. b(o) + 1 \in 1 .. n
    BY <1>1, <2>1
  <2>3. n # 0
    BY <1>1, <2>2
  <2> QED
    BY <1>1, <2>3
<1>3. \A k \in 1 .. n : s[k] \in S /\ s[k] \in Nat
  <2>1. \A k \in 1 .. n : s[k] \in S
    BY <1>1, ElementOfSeq
  <2> QED
    BY <2>1
<1>4. ASSUME NEW o \in S PROVE s[1] <= o /\ o <= s[n]
  <2>1. PICK k \in 1 .. n : s[k] = o
    BY <1>1
  <2>2. ~(k < 1) /\ ~(n < k)
    BY <1>1
  <2> QED
    BY <1>1, <1>2, <1>3, <2>1, <2>2
<1> QED
  BY <1>2, <1>3, <1>4 DEF n, s

(* The next number of the set above o. *)
LEMMA Successor ==
    ASSUME NEW S \in SUBSET Nat, IsFiniteSet(S), NEW o \in Nat, \E p \in S : o < p
    PROVE  \E q \in S : o < q /\ \A p \in S : o < p => q <= p
<1> DEFINE T == {p \in S : o < p}
<1>1. T \in SUBSET S /\ T \in SUBSET Nat /\ T # {}
  OBVIOUS
<1>2. IsFiniteSet(T)
  BY <1>1, FS_Subset
<1>3. Ordered(T)[1] \in T /\ \A p \in T : Ordered(T)[1] <= p
  <2> HIDE DEF T
  <2> QED
    BY <1>1, <1>2, Extremes
<1> QED
  BY <1>3

LEMMA Neighbours ==
    ASSUME NEW S \in SUBSET Nat, IsFiniteSet(S), NEW o \in S, NEW q \in S, o < q,
           \A p \in S : o < p => q <= p
    PROVE  \E j \in 2 .. Cardinality(S) : Ordered(S)[j - 1] = o /\ Ordered(S)[j] = q
<1> DEFINE b(x) == Cardinality(Below(S, x))
<1>1. Below(S, q) = Below(S, o) \cup {o} /\ o \notin Below(S, o)
  <2>1. ASSUME NEW p \in S PROVE p < q <=> p < o \/ p = o
    OBVIOUS
  <2>2. ~(o < o)
    <3>1. o \in Nat
      OBVIOUS
    <3> QED
      BY <3>1
  <2> QED
    BY <2>1, <2>2 DEF Below
<1>2. IsFiniteSet(Below(S, o)) /\ b(o) \in Nat
  <2>1. IsFiniteSet(Below(S, o))
    BY BelowGrows
  <2> QED
    BY <2>1, FS_CardinalityType
<1>3. b(q) = b(o) + 1
  BY <1>1, <1>2, FS_AddElement
<1>4. /\ Cardinality(S) \in Nat
      /\ b(o) + 1 \in 1 .. Cardinality(S) /\ Ordered(S)[b(o) + 1] = o
      /\ b(q) + 1 \in 1 .. Cardinality(S) /\ Ordered(S)[b(q) + 1] = q
  BY InOrder
<1> HIDE DEF b
<1>5. b(q) + 1 \in 2 .. Cardinality(S) /\ (b(q) + 1) - 1 = b(o) + 1
  BY <1>2, <1>3, <1>4
<1> QED
  BY <1>4, <1>5

-----------------------------------------------------------------------------
(***************************************************************************)
(* Blocks and edges, read off the decoded instructions                     *)
(***************************************************************************)
StartSet == (decoded \cap Leaders) \cup {o \in decoded : Below(decoded, o) = {}}
EndOf(k) == IF k < Len(Starts) THEN Starts[k + 1] ELSE NextOffset(Last(Instructions))
Part(k)  == {o \in decoded : Starts[k] <= o /\ o < EndOf(k)}
TailOf(k) == CHOOSE o \in Part(k) : \A p \in Part(k) : p <= o
Ways(k)  ==
    {<<j, Kind(TailOf(k))>> : j \in {i \in DOMAIN Starts : Starts[i] \in InRegion(TailOf(k))}}
    \cup (IF k < Len(Starts) /\ Kind(TailOf(k)) \notin Terminal THEN {<<k + 1, "fall">>} ELSE {})

Fresh(k) == [start |-> Starts[k], succ |-> <<>>, pred |-> <<>>, end |-> EndOf(k)]

Cut ==
    /\ stage = "edges" => blocks = [k \in DOMAIN Starts |-> Fresh(k)]
    /\ stage = "graph" =>
         /\ DOMAIN blocks = DOMAIN Starts
         /\ \A k \in DOMAIN Starts :
               blocks[k].start = Starts[k] /\ blocks[k].end = EndOf(k) /\ ToSet(blocks[k].succ) = Ways(k)

LEMMA NextIsAbove ==
    ASSUME code \in CodeSet, NEW o \in Offsets
    PROVE  NextOffset(o) \in 1 .. code.size /\ o < NextOffset(o)
<1>1. code.size \in Nat /\ code.inst[o].len \in Nat \ {0}
  BY CodeShape
<1> QED
  BY <1>1 DEF NextOffset, Offsets

LEMMA Decoded ==
    ASSUME IInv
    PROVE  /\ decoded \subseteq Offsets /\ decoded \in SUBSET Nat /\ IsFiniteSet(decoded)
           /\ StartSet \in SUBSET decoded /\ StartSet \in SUBSET Nat /\ IsFiniteSet(StartSet)
           /\ Starts \in Seq(StartSet) /\ Len(Starts) \in Nat /\ DOMAIN Starts = 1 .. Len(Starts)
           /\ \A k \in DOMAIN Starts : Starts[k] \in StartSet
           /\ \A t \in StartSet : \E k \in DOMAIN Starts : Starts[k] = t
           /\ \A j, k \in DOMAIN Starts : j < k <=> Starts[j] < Starts[k]
<1>1. decoded \subseteq Offsets /\ code \in CodeSet
  BY DEF IInv, TypeOK, Offsets
<1>2. decoded \in SUBSET Nat
  BY <1>1 DEF Offsets
<1>3. IsFiniteSet(decoded)
  BY <1>1, OffsetsFinite
<1>4. StartSet \in SUBSET decoded
  BY DEF StartSet
<1>5. StartSet \in SUBSET Nat /\ IsFiniteSet(StartSet)
  BY <1>2, <1>3, <1>4, FS_Subset
<1>6. Starts = Ordered(StartSet)
  BY DEF Starts, StartSet
<1>7. /\ Starts \in Seq(StartSet) /\ Len(Starts) \in Nat /\ Len(Starts) = Cardinality(StartSet)
      /\ \A t \in StartSet : \E k \in 1 .. Cardinality(StartSet) : Starts[k] = t
      /\ \A j, k \in 1 .. Cardinality(StartSet) : j < k <=> Starts[j] < Starts[k]
  BY <1>5, <1>6, InOrder
<1>8. DOMAIN Starts = 1 .. Len(Starts)
  BY <1>7
<1>9. \A k \in DOMAIN Starts : Starts[k] \in StartSet
  BY <1>7, <1>8, ElementOfSeq
<1> QED
  BY <1>1, <1>2, <1>3, <1>4, <1>5, <1>7, <1>8, <1>9

(* A block reaches to the next one, the last block to the last instruction. *)
LEMMA PartShape ==
    ASSUME IInv, NEW k \in DOMAIN Starts
    PROVE  /\ Starts[k] \in Part(k) /\ \A t \in StartSet \cap Part(k) : t = Starts[k]
           /\ TailOf(k) \in Part(k) /\ \A p \in Part(k) : p <= TailOf(k)
           /\ EndOf(k) \in Nat
           /\ k < Len(Starts) => /\ k + 1 \in DOMAIN Starts /\ TailOf(k) < Starts[k + 1]
                                 /\ \A p \in decoded : TailOf(k) < p => Starts[k + 1] <= p
           /\ ~(k < Len(Starts)) => \A p \in decoded : p <= TailOf(k)
<1>1. /\ decoded \subseteq Offsets /\ decoded \in SUBSET Nat /\ IsFiniteSet(decoded)
      /\ StartSet \in SUBSET decoded /\ Len(Starts) \in Nat /\ DOMAIN Starts = 1 .. Len(Starts)
      /\ \A j \in DOMAIN Starts : Starts[j] \in StartSet
      /\ \A t \in StartSet : \E j \in DOMAIN Starts : Starts[j] = t
      /\ \A i, j \in DOMAIN Starts : i < j <=> Starts[i] < Starts[j]
  BY Decoded
<1>2. \A p \in decoded : p \in Nat
  BY <1>1
<1>3. Starts[k] \in decoded /\ Starts[k] \in Nat
  BY <1>1
<1> DEFINE e == EndOf(k)
<1>5. /\ e \in Nat /\ Starts[k] < e
      /\ ~(k < Len(Starts)) => \A p \in decoded : p < e
  <2>1. CASE k < Len(Starts)
    <3>1. k \in Nat /\ k + 1 \in DOMAIN Starts /\ k < k + 1
      BY <1>1, <2>1
    <3>2. e = Starts[k + 1]
      BY <2>1 DEF EndOf
    <3>3. Starts[k] < Starts[k + 1] /\ Starts[k + 1] \in Nat
      <4>1. Starts[k] < Starts[k + 1]
        BY <1>1, <3>1
      <4>2. Starts[k + 1] \in StartSet
        BY <1>1, <3>1
      <4> QED
        BY <1>1, <4>1, <4>2
    <3> HIDE DEF e
    <3> QED
      BY <2>1, <3>2, <3>3
  <2>2. CASE ~(k < Len(Starts))
    <3>1. decoded # {}
      BY <1>3
    <3>2. /\ Cardinality(decoded) \in Nat \ {0}
          /\ Instructions[Cardinality(decoded)] \in decoded
          /\ \A p \in decoded : p <= Instructions[Cardinality(decoded)]
      BY <1>1, <3>1, Extremes DEF Instructions
    <3>3. Len(Instructions) = Cardinality(decoded)
      BY <1>1, InOrder DEF Instructions
    <3>4. e = NextOffset(Instructions[Cardinality(decoded)])
      BY <2>2, <3>3 DEF EndOf, Last
    <3> DEFINE i == Instructions[Cardinality(decoded)]
    <3>5. code \in CodeSet /\ i \in Offsets
      BY <1>1, <3>2 DEF IInv
    <3> HIDE DEF i
    <3>6. NextOffset(i) \in 1 .. code.size /\ i < NextOffset(i) /\ code.size \in Nat
      BY <3>5, NextIsAbove, CodeShape
    <3>7. e \in Nat /\ i < e /\ i \in decoded /\ \A p \in decoded : p <= i
      BY <3>2, <3>4, <3>6 DEF i
    <3> HIDE DEF e
    <3> QED
      BY <1>2, <1>3, <2>2, <3>7
  <2> QED
    BY <2>1, <2>2
<1>6. Part(k) = {o \in decoded : Starts[k] <= o /\ o < e}
  BY DEF Part
<1>7. k < Len(Starts) => k + 1 \in DOMAIN Starts /\ e = Starts[k + 1]
  BY <1>1 DEF EndOf
<1> HIDE DEF e
<1>8. Starts[k] \in Part(k)
  BY <1>3, <1>5, <1>6
<1>9. \E o \in Part(k) : \A p \in Part(k) : p <= o
  <2>1. Part(k) \in SUBSET Nat /\ IsFiniteSet(Part(k)) /\ Part(k) # {}
    <3>1. Part(k) \in SUBSET decoded
      BY <1>6
    <3> QED
      BY <1>1, <1>8, <3>1, FS_Subset
  <2> QED
    BY <2>1, Extremes
<1>10. TailOf(k) \in Part(k) /\ \A p \in Part(k) : p <= TailOf(k)
  <2> DEFINE P(o) == o \in Part(k) /\ \A p \in Part(k) : p <= o
  <2>1. TailOf(k) = CHOOSE o \in Part(k) : \A p \in Part(k) : p <= o
    BY DEF TailOf
  <2> QED
    BY <1>9, <2>1
<1>11. TailOf(k) \in Nat /\ Starts[k] <= TailOf(k) /\ TailOf(k) < e
  BY <1>2, <1>6, <1>10
<1>12. \A p \in decoded : TailOf(k) < p => e <= p
  <2> SUFFICES ASSUME NEW p \in decoded, TailOf(k) < p, ~(e <= p) PROVE FALSE
    OBVIOUS
  <2>1. p \in Part(k)
    BY <1>2, <1>3, <1>5, <1>6, <1>11
  <2>2. p <= TailOf(k)
    BY <1>10, <2>1
  <2> QED
    BY <1>2, <1>11, <2>2
<1>13. ASSUME NEW t \in StartSet \cap Part(k) PROVE t = Starts[k]
  <2>1. PICK j \in DOMAIN Starts : Starts[j] = t
    BY <1>1
  <2>2. j \in Nat /\ k \in Nat /\ t \in Nat /\ Starts[k] <= t /\ t < e
    BY <1>1, <1>2, <1>6
  <2>3. ~(j < k)
    BY <1>1, <1>3, <2>1, <2>2
  <2>4. ~(k < j)
    <3> SUFFICES ASSUME k < j PROVE FALSE
      OBVIOUS
    <3>1. k < Len(Starts) /\ (k + 1 = j \/ k + 1 < j)
      BY <1>1, <2>2
    <3>2. k + 1 \in DOMAIN Starts /\ e = Starts[k + 1]
      BY <1>7, <3>1
    <3>3. e = t \/ e < t
      BY <1>1, <2>1, <3>1, <3>2
    <3> QED
      BY <1>5, <2>2, <3>3
  <2>5. j = k
    BY <2>2, <2>3, <2>4
  <2> QED
    BY <2>1, <2>5
<1>14. ~(k < Len(Starts)) => \A p \in decoded : p <= TailOf(k)
  BY <1>2, <1>5, <1>11, <1>12
<1> QED
  BY <1>5, <1>7, <1>8, <1>10, <1>11, <1>12, <1>13, <1>14 DEF e

(* Where control goes from a decoded instruction there is another one; where a
   branch or jump goes there is the first of a block. *)
LEMMA Kept ==
    ASSUME IInv, Closed(decoded), NEW o \in decoded
    PROVE  /\ Kind(o) \in Kinds /\ InRegion(o) \subseteq decoded
           /\ Kind(o) \in {"branch", "jump"} => InRegion(o) \subseteq StartSet
           /\ Kind(o) \in {"normal", "ret"} => InRegion(o) = {}
           /\ Kind(o) \notin Terminal /\ NextOffset(o) \in Offsets => NextOffset(o) \in decoded
<1>1. code \in CodeSet /\ o \in Offsets
  BY Decoded DEF IInv
<1>2. DOMAIN code.inst = Offsets
  BY <1>1, CodeShape
<1>3. Kind(o) \in Kinds /\ (Kind(o) \notin Branching => code.inst[o].to = {})
  BY <1>1, <1>2, CodeAssumption DEF IsCode, Kind
<1>4. Onward(o) \subseteq decoded
  BY <1>1, <1>2 DEF Closed
<1>5. InRegion(o) \subseteq decoded
  BY <1>4 DEF Onward
<1>6. Kind(o) \in {"branch", "jump"} => InRegion(o) \subseteq StartSet
  <2>1. Kind(o) \in {"branch", "jump"} => InRegion(o) \subseteq Leaders
    BY DEF Leaders
  <2> QED
    BY <1>5, <2>1 DEF StartSet
<1>7. Kind(o) \in {"normal", "ret"} => InRegion(o) = {}
  BY <1>3 DEF InRegion, Branching
<1>8. Kind(o) \notin Terminal /\ NextOffset(o) \in Offsets => NextOffset(o) \in decoded
  BY <1>4 DEF Onward, Offsets
<1> QED
  BY <1>3, <1>5, <1>6, <1>7, <1>8

(* Inside a block control goes to the next instruction and nowhere else. *)
LEMMA Inner ==
    ASSUME IInv, Closed(decoded), ~Overlap, NEW k \in DOMAIN Starts, NEW o \in Part(k), o # TailOf(k)
    PROVE  Kind(o) \in {"normal", "call"} /\ NextOffset(o) \in Part(k)
<1> DEFINE a == Starts[k]
           z == TailOf(k)
           e == EndOf(k)
<1>1. /\ decoded \subseteq Offsets /\ decoded \in SUBSET Nat /\ IsFiniteSet(decoded) /\ code \in CodeSet
      /\ \A t \in StartSet \cap Part(k) : t = a
      /\ a \in Part(k) /\ z \in Part(k) /\ \A p \in Part(k) : p <= z
      /\ e \in Nat
  BY Decoded, PartShape DEF IInv
<1>2. Part(k) = {p \in decoded : a <= p /\ p < e}
  BY DEF Part
<1> HIDE DEF a, z, e
<1>3. /\ o \in decoded /\ z \in decoded /\ a \in Nat /\ z \in Nat /\ o \in Nat
      /\ a <= o /\ o <= z /\ z < e /\ o # z
  BY <1>1, <1>2 DEF z
<1>4. PICK q \in decoded : o < q /\ \A p \in decoded : o < p => q <= p
  <2>1. o < z
    BY <1>3
  <2> QED
    BY <1>1, <1>3, <2>1, Successor
<1>5. q \in Nat /\ q <= z
  BY <1>1, <1>3, <1>4
<1>6. q \in Part(k) /\ q # a
  BY <1>1, <1>2, <1>3, <1>4, <1>5
<1>7. q \notin Leaders
  BY <1>1, <1>6 DEF StartSet
<1>8. PICK j \in 2 .. Cardinality(decoded) : Instructions[j - 1] = o /\ Instructions[j] = q
  BY <1>1, <1>3, <1>4, Neighbours DEF Instructions
<1>9. Len(Instructions) = Cardinality(decoded)
  BY <1>1, InOrder DEF Instructions
<1>10. Kind(o) \notin {"branch", "jump", "ret"}
  <2> SUFFICES ASSUME Kind(Instructions[j - 1]) \in {"branch", "jump", "ret"} PROVE q \in Leaders
    BY <1>7, <1>8
  <2> DEFINE C == {i \in 2 .. Len(Instructions) : Kind(Instructions[i - 1]) \in {"branch", "jump", "ret"}}
  <2>1. j \in C
    BY <1>9
  <2> DEFINE D == {Instructions[i] : i \in C}
  <2>2. D \subseteq Leaders
    <3> SUFFICES ASSUME NEW x \in D PROVE x \in Leaders
      OBVIOUS
    <3>1. PICK i \in C : x = Instructions[i]
      OBVIOUS
    <3> QED
      BY <3>1 DEF Leaders
  <2>3. q \in D
    <3> HIDE DEF C
    <3> QED
      BY <1>8, <2>1
  <2> HIDE DEF D
  <2> QED
    BY <2>2, <2>3
<1>11. Kind(o) \in {"normal", "call"}
  BY <1>3, <1>10, Kept DEF Kinds
<1>12. o \in Offsets /\ code.size \in Nat /\ q \in Offsets
  BY <1>1, <1>3, <1>4, CodeShape
<1> DEFINE n == NextOffset(o)
<1>13. n \in 1 .. code.size /\ o < n
  BY <1>1, <1>12, NextIsAbove
<1>14. ~(q < n)
  BY <1>3, <1>4 DEF Overlap
<1> HIDE DEF n
<1>15. n \in Offsets
  BY <1>5, <1>12, <1>13, <1>14 DEF Offsets
<1>16. n \in decoded
  BY <1>3, <1>11, <1>15, Kept DEF n, Terminal
<1>17. n = q
  BY <1>4, <1>5, <1>12, <1>13, <1>14, <1>16
<1> QED
  BY <1>6, <1>11, <1>17 DEF n

(* After the last instruction of a block comes the next block. *)
LEMMA AfterTail ==
    ASSUME IInv, Closed(decoded), ~Overlap, NEW k \in DOMAIN Starts, Kind(TailOf(k)) \notin Terminal
    PROVE  {NextOffset(TailOf(k))} \cap Offsets = IF k < Len(Starts) THEN {Starts[k + 1]} ELSE {}
<1> DEFINE z == TailOf(k)
           n == NextOffset(z)
<1>1. /\ decoded \subseteq Offsets /\ decoded \in SUBSET Nat /\ code \in CodeSet /\ z \in decoded
      /\ k < Len(Starts) => /\ k + 1 \in DOMAIN Starts /\ z < Starts[k + 1]
                            /\ \A p \in decoded : z < p => Starts[k + 1] <= p
      /\ ~(k < Len(Starts)) => \A p \in decoded : p <= z
  BY Decoded, PartShape DEF IInv, Part
<1>2. k < Len(Starts) => Starts[k + 1] \in decoded
  BY <1>1, Decoded
<1>3. n \in Offsets => n \in decoded
  BY <1>1, Kept
<1>4. z \in Offsets /\ code.size \in Nat
  BY <1>1, CodeShape
<1>5. n \in 1 .. code.size /\ z < n
  BY <1>1, <1>4, NextIsAbove
<1>6. k < Len(Starts) => ~(Starts[k + 1] < n)
  BY <1>1, <1>2 DEF Overlap
<1> HIDE DEF z, n
<1>7. CASE k < Len(Starts)
  <2> DEFINE s == Starts[k + 1]
  <2>1. s \in Offsets /\ s \in decoded /\ z < s /\ ~(s < n) /\ \A p \in decoded : z < p => s <= p
    BY <1>1, <1>2, <1>6, <1>7
  <2> HIDE DEF s
  <2>2. n \in Offsets
    BY <1>4, <1>5, <2>1 DEF Offsets
  <2>3. s <= n
    BY <1>3, <1>5, <2>1, <2>2
  <2>4. n = s
    BY <1>4, <1>5, <2>1, <2>3 DEF Offsets
  <2>5. {n} \cap Offsets = {s}
    BY <2>2, <2>4
  <2> QED
    BY <1>7, <2>5 DEF s, n, z
<1>8. CASE ~(k < Len(Starts))
  <2>1. n \notin Offsets
    <3> SUFFICES ASSUME n \in Offsets PROVE FALSE
      OBVIOUS
    <3>1. n <= z
      BY <1>1, <1>3, <1>8
    <3> QED
      BY <1>4, <1>5, <3>1 DEF Offsets
  <2>2. {n} \cap Offsets = {}
    BY <2>1
  <2> QED
    BY <1>8, <2>2 DEF n, z
<1> QED
  BY <1>7, <1>8

(* Read as offsets, the ways out of a block are those of its last instruction. *)
LEMMA WaysLead ==
    ASSUME IInv, Closed(decoded), ~Overlap, NEW k \in DOMAIN Starts
    PROVE  {Starts[e[1]] : e \in Ways(k)}
             = {t \in Onward(TailOf(k)) : Kind(TailOf(k)) = "call" => t \in {Starts[j] : j \in DOMAIN Starts}}
<1> DEFINE z == TailOf(k)
           A == {Starts[i] : i \in {j \in DOMAIN Starts : Starts[j] \in InRegion(z)}}
           B == IF k < Len(Starts) /\ Kind(z) \notin Terminal THEN {Starts[k + 1]} ELSE {}
           All == {Starts[j] : j \in DOMAIN Starts}
<1>1. z \in decoded
  BY PartShape DEF Part
<1>2. {Starts[e[1]] : e \in Ways(k)} = A \cup B
  <2> DEFINE J == {j \in DOMAIN Starts : Starts[j] \in InRegion(z)}
             T == {<<j, Kind(z)>> : j \in J}
             F == IF k < Len(Starts) /\ Kind(z) \notin Terminal THEN {<<k + 1, "fall">>} ELSE {}
  <2>1. Ways(k) = T \cup F
    BY DEF Ways
  <2>2. {Starts[e[1]] : e \in T} = {Starts[j] : j \in J}
    <3>1. \A j \in J : <<j, Kind(z)>>[1] = j
      OBVIOUS
    <3>2. \A e \in T : \E j \in J : e[1] = j
      OBVIOUS
    <3>3. \A j \in J : <<j, Kind(z)>> \in T
      OBVIOUS
    <3> HIDE DEF J, T
    <3> QED
      BY <3>1, <3>2, <3>3
  <2>3. {Starts[e[1]] : e \in F} = B
    <3>1. CASE k < Len(Starts) /\ Kind(z) \notin Terminal
      <4>1. F = {<<k + 1, "fall">>} /\ B = {Starts[k + 1]}
        BY <3>1
      <4>2. <<k + 1, "fall">>[1] = k + 1
        OBVIOUS
      <4> QED
        BY <4>1, <4>2
    <3>2. CASE ~(k < Len(Starts) /\ Kind(z) \notin Terminal)
      BY <3>2
    <3> QED
      BY <3>1, <3>2
  <2>4. A = {Starts[j] : j \in J}
    OBVIOUS
  <2> HIDE DEF T, F, A, B, J
  <2> QED
    BY <2>1, <2>2, <2>3, <2>4
<1>3. All = StartSet
  BY Decoded
<1>4. A = InRegion(z) \cap StartSet
  BY <1>3
<1>5. B \subseteq StartSet
  <2>1. k < Len(Starts) => k + 1 \in DOMAIN Starts
    BY PartShape
  <2> QED
    BY <1>3, <2>1
<1>6. B = IF Kind(z) \in Terminal THEN {} ELSE {NextOffset(z)} \cap Offsets
  BY AfterTail
<1>7. Onward(z) = InRegion(z) \cup B
  BY <1>6 DEF Onward, Offsets
<1> HIDE DEF A, B, All
<1>8. CASE Kind(z) = "call"
  BY <1>2, <1>3, <1>4, <1>5, <1>7, <1>8 DEF All
<1>9. CASE Kind(z) # "call"
  <2>1. InRegion(z) \subseteq StartSet
    BY <1>1, <1>9, Kept DEF Kinds
  <2> QED
    BY <1>2, <1>4, <1>7, <1>9, <2>1
<1> QED
  BY <1>8, <1>9

LEMMA OnlyOf ==
    ASSUME NEW T, \A e, f \in T : e = f
    PROVE  Only(T) \in Seq(T) /\ ToSet(Only(T)) = T
<1>1. CASE T = {}
  <2>1. Only(T) = <<>>
    BY <1>1 DEF Only
  <2>2. <<>> \in Seq(T) /\ ToSet(<<>>) = {}
    BY DEF ToSet
  <2> QED
    BY <1>1, <2>1, <2>2
<1>2. CASE T # {}
  <2>1. PICK e : e \in T
    BY <1>2
  <2>2. T = {e}
    BY <2>1
  <2>3. Only(T) = <<e>>
    BY <2>2 DEF Only
  <2>4. ToSet(<<e>>) = {e}
    BY DEF ToSet
  <2>5. <<e>> \in Seq(T)
    BY <2>1
  <2> QED
    BY <2>2, <2>3, <2>4, <2>5
<1> QED
  BY <1>1, <1>2

LEMMA ListedSet ==
    ASSUME NEW A, NEW s \in Seq(A)
    PROVE  s \in Seq(ToSet(s))
<1>1. Len(s) \in Nat /\ DOMAIN s = 1 .. Len(s) /\ s = [i \in 1 .. Len(s) |-> s[i]]
  OBVIOUS
<1>2. \A i \in 1 .. Len(s) : s[i] \in ToSet(s)
  BY DEF ToSet
<1>3. s \in [1 .. Len(s) -> ToSet(s)]
  BY <1>1, <1>2
<1> QED
  BY <1>1, <1>3

(* What connect_edges computes from fresh blocks. *)
LEMMA EdgesRead ==
    ASSUME IInv, NEW k \in DOMAIN Starts,
           blocks = [j \in DOMAIN Starts |-> Fresh(j)]
    PROVE  ToSet(EdgesOf(k)) = Ways(k) /\ EdgesOf(k) \in Seq(Ways(k))
<1> DEFINE z     == TailOf(k)
           taken == {<<j, Kind(z)>> : j \in {i \in DOMAIN Starts : Starts[i] \in InRegion(z)}}
           next  == IF k < Len(Starts) /\ Kind(z) \notin Terminal THEN <<<<k + 1, "fall">>>> ELSE <<>>
<1>1. /\ Len(Starts) \in Nat /\ DOMAIN Starts = 1 .. Len(Starts)
      /\ \A i, j \in DOMAIN Starts : i < j <=> Starts[i] < Starts[j]
      /\ decoded \subseteq Offsets /\ code \in CodeSet
  BY Decoded DEF IInv
<1>2. DOMAIN blocks = DOMAIN Starts /\ Len(blocks) = Len(Starts)
  BY <1>1
<1>3. \A j \in DOMAIN Starts : blocks[j].start = Starts[j] /\ blocks[j].end = EndOf(j)
  BY DEF Fresh
<1>4. Members(k) = Part(k)
  BY <1>3 DEF Members, Part
<1>5. LastOf(k) = z
  BY <1>4 DEF LastOf, TailOf
<1>6. {i \in DOMAIN blocks : blocks[i].start \in InRegion(z)} = {i \in DOMAIN Starts : Starts[i] \in InRegion(z)}
  BY <1>2, <1>3
<1>7. EdgesOf(k) = Only(taken) \o next
  BY <1>2, <1>5, <1>6 DEF EdgesOf
<1>8. \A e, f \in taken : e = f
  <2>1. z \in Offsets
    BY <1>1, PartShape DEF Part
  <2>2. \A t, u \in InRegion(z) : t = u
    BY <1>1, <2>1, CodeShape DEF InRegion
  <2>3. \A i, j \in DOMAIN Starts : Starts[i] = Starts[j] => i = j
    <3> SUFFICES ASSUME NEW i \in DOMAIN Starts, NEW j \in DOMAIN Starts, Starts[i] = Starts[j], i # j PROVE FALSE
      OBVIOUS
    <3>1. i \in Nat /\ j \in Nat
      BY <1>1
    <3>2. i < j \/ j < i
      BY <3>1
    <3>3. Starts[i] \in Nat
      BY Decoded
    <3> QED
      BY <1>1, <3>2, <3>3
  <2> HIDE DEF z
  <2> QED
    BY <2>2, <2>3
<1> HIDE DEF taken, next
<1>9. Only(taken) \in Seq(taken) /\ ToSet(Only(taken)) = taken
  BY <1>8, OnlyOf
<1>10. /\ next \in Seq({<<k + 1, "fall">>})
       /\ ToSet(next) = IF k < Len(Starts) /\ Kind(z) \notin Terminal THEN {<<k + 1, "fall">>} ELSE {}
  <2>1. CASE k < Len(Starts) /\ Kind(z) \notin Terminal
    BY <2>1 DEF next, ToSet
  <2>2. CASE ~(k < Len(Starts) /\ Kind(z) \notin Terminal)
    BY <2>2 DEF next, ToSet
  <2> QED
    BY <2>1, <2>2
<1>11. /\ ToSet(Only(taken) \o next) = taken \cup ToSet(next)
       /\ Only(taken) \o next \in Seq(ToSet(Only(taken) \o next))
  <2> DEFINE V == taken \cup {<<k + 1, "fall">>}
             x == Only(taken)
  <2>1. x \in Seq(V) /\ next \in Seq(V)
    BY <1>9, <1>10
  <2> HIDE DEF V, x
  <2>2. ToSet(x \o next) = ToSet(x) \cup ToSet(next)
    BY <2>1, ConcatSet
  <2>3. x \o next \in Seq(ToSet(x \o next))
    <3> DEFINE y == x \o next
    <3>1. y \in Seq(V)
      BY <2>1
    <3> HIDE DEF y
    <3>2. y \in Seq(ToSet(y))
      BY <3>1, ListedSet
    <3> QED
      BY <3>2 DEF y
  <2> QED
    BY <1>9, <2>2, <2>3 DEF x
<1>12. Ways(k) = taken \cup ToSet(next)
  BY <1>10 DEF Ways, taken
<1> QED
  BY <1>7, <1>11, <1>12

LEMMA CutNext ==
    ASSUME IInv, Cut, [Build]_builder
    PROVE  Cut'
<1>1. code' = code
  BY DEF Build, builder, Pop, Descend, Linear, Break, Sort, BuildBlocks, ConnectEdges
<1>2. ASSUME decoded' = decoded
      PROVE  Starts' = Starts /\ \A k \in DOMAIN Starts : EndOf(k)' = EndOf(k) /\ Ways(k)' = Ways(k) /\ Fresh(k)' = Fresh(k)
  <2>1. Instructions' = Instructions
    BY <1>2 DEF Instructions
  <2>2. Leaders' = Leaders
    BY <1>1, <1>2, <2>1 DEF Leaders, InRegion, Kind
  <2>3. Starts' = Starts
    BY <1>2, <2>2 DEF Starts
  <2>4. ASSUME NEW k \in DOMAIN Starts
        PROVE  EndOf(k)' = EndOf(k) /\ Ways(k)' = Ways(k) /\ Fresh(k)' = Fresh(k)
    <3>1. EndOf(k)' = EndOf(k)
      BY <1>1, <2>1, <2>3 DEF EndOf, NextOffset
    <3>2. Part(k)' = Part(k)
      BY <1>2, <2>3, <3>1 DEF Part
    <3>3. TailOf(k)' = TailOf(k)
      BY <3>2 DEF TailOf
    <3>4. Ways(k)' = Ways(k)
      BY <1>1, <2>3, <3>3 DEF Ways, InRegion, Kind
    <3>5. Fresh(k)' = Fresh(k)
      BY <2>3, <3>1 DEF Fresh
    <3> QED
      BY <3>1, <3>4, <3>5
  <2> QED
    BY <2>3, <2>4
<1>3. CASE Pop \/ Descend \/ Linear \/ Break
  BY <1>3 DEF Cut, Pop, Descend, Linear, Break
<1>4. CASE Sort
  BY <1>4 DEF Cut, Sort
<1>5. CASE BuildBlocks
  <2>1. stage' = "edges" /\ decoded' = decoded
    BY <1>5 DEF BuildBlocks
  <2>2. blocks' = [k \in DOMAIN Starts |-> Fresh(k)]
    BY <1>5 DEF BuildBlocks, Fresh, EndOf
  <2>3. blocks' = [k \in DOMAIN Starts' |-> Fresh(k)']
    BY <1>2, <2>1, <2>2
  <2> QED
    BY <2>1, <2>3 DEF Cut
<1>6. CASE ConnectEdges
  <2>1. stage = "edges" /\ stage' = "graph" /\ decoded' = decoded
    BY <1>6 DEF ConnectEdges
  <2>2. blocks = [k \in DOMAIN Starts |-> Fresh(k)]
    BY <2>1 DEF Cut
  <2>3. DOMAIN blocks' = DOMAIN Starts
    BY <1>6, <2>2 DEF ConnectEdges
  <2>4. ASSUME NEW k \in DOMAIN Starts
        PROVE  /\ blocks'[k].start = Starts[k] /\ blocks'[k].end = EndOf(k)
               /\ blocks'[k].succ = EdgesOf(k)
    <3>1. blocks[k] = Fresh(k)
      BY <2>2
    <3>2. PICK p : blocks'[k] = [blocks[k] EXCEPT !.succ = EdgesOf(k), !.pred = p]
      BY <1>6, <2>2 DEF ConnectEdges
    <3> QED
      BY <3>1, <3>2 DEF Fresh
  <2>5. \A k \in DOMAIN Starts : ToSet(EdgesOf(k)) = Ways(k)
    BY <2>2, EdgesRead
  <2>6. stage' = "graph" /\ DOMAIN blocks' = DOMAIN Starts'
        /\ \A k \in DOMAIN Starts' :
             blocks'[k].start = Starts'[k] /\ blocks'[k].end = EndOf(k)' /\ ToSet(blocks'[k].succ) = Ways(k)'
    BY <1>2, <2>1, <2>3, <2>4, <2>5
  <2> QED
    BY <2>6 DEF Cut
<1>7. CASE UNCHANGED builder
  <2>1. decoded' = decoded /\ stage' = stage /\ blocks' = blocks
    BY <1>7 DEF builder
  <2>2. Starts' = Starts /\ \A k \in DOMAIN Starts : EndOf(k)' = EndOf(k) /\ Ways(k)' = Ways(k) /\ Fresh(k)' = Fresh(k)
    BY <1>2, <2>1
  <2>3. stage' = "edges" => blocks' = [k \in DOMAIN Starts' |-> Fresh(k)']
    BY <2>1, <2>2 DEF Cut
  <2>4. stage' = "graph" =>
          /\ DOMAIN blocks' = DOMAIN Starts'
          /\ \A k \in DOMAIN Starts' :
               blocks'[k].start = Starts'[k] /\ blocks'[k].end = EndOf(k)' /\ ToSet(blocks'[k].succ) = Ways(k)'
    BY <2>1, <2>2 DEF Cut
  <2> QED
    BY <2>3, <2>4 DEF Cut
<1> QED
  BY <1>3, <1>4, <1>5, <1>6, <1>7 DEF Build

LEMMA GraphIsRight == IInv /\ Cut => EdgesFollowCode
<1> SUFFICES ASSUME IInv, Cut, stage = "graph", Plain, code.descend, NEW k \in DOMAIN blocks
             PROVE  /\ \A o \in Members(k) \ {LastOf(k)} : Kind(o) \in {"normal", "call"} /\ NextOffset(o) \in Members(k)
                    /\ \A o \in decoded : Kind(o) \in {"branch", "jump"} => InRegion(o) \cap Members(k) \subseteq {blocks[k].start}
                    /\ {blocks[e[1]].start : e \in ToSet(blocks[k].succ)}
                         = {t \in Onward(LastOf(k)) : Kind(LastOf(k)) = "call" => t \in {blocks[j].start : j \in DOMAIN blocks}}
  BY DEF EdgesFollowCode
<1>1. Closed(decoded) /\ ~Overlap
  BY Exact DEF DecodesReachable, Plain
<1>2. /\ DOMAIN blocks = DOMAIN Starts
      /\ \A j \in DOMAIN Starts : blocks[j].start = Starts[j] /\ blocks[j].end = EndOf(j) /\ ToSet(blocks[j].succ) = Ways(j)
  BY DEF Cut
<1>3. k \in DOMAIN Starts
  BY <1>2
<1>4. Members(k) = Part(k)
  BY <1>2 DEF Members, Part
<1>5. LastOf(k) = TailOf(k)
  BY <1>4 DEF LastOf, TailOf
<1>6. \A o \in Part(k) \ {TailOf(k)} : Kind(o) \in {"normal", "call"} /\ NextOffset(o) \in Part(k)
  BY <1>1, <1>3, Inner
<1>7. ASSUME NEW o \in decoded, Kind(o) \in {"branch", "jump"}
      PROVE  InRegion(o) \cap Part(k) \subseteq {Starts[k]}
  BY <1>1, <1>3, <1>7, Kept, PartShape
<1>8. \A e \in Ways(k) : e[1] \in DOMAIN Starts
  <2>1. k < Len(Starts) => k + 1 \in DOMAIN Starts
    BY <1>3, PartShape
  <2> SUFFICES ASSUME NEW e \in Ways(k) PROVE e[1] \in DOMAIN Starts
    OBVIOUS
  <2>2. CASE k < Len(Starts) /\ e = <<k + 1, "fall">>
    BY <2>1, <2>2
  <2>3. CASE \E j \in DOMAIN Starts : e = <<j, Kind(TailOf(k))>>
    BY <2>3
  <2> QED
    BY <2>2, <2>3 DEF Ways
<1>9. {blocks[e[1]].start : e \in ToSet(blocks[k].succ)} = {Starts[e[1]] : e \in Ways(k)}
  BY <1>2, <1>3, <1>8
<1>10. {blocks[j].start : j \in DOMAIN blocks} = {Starts[j] : j \in DOMAIN Starts}
  BY <1>2
<1>11. {Starts[e[1]] : e \in Ways(k)}
         = {t \in Onward(TailOf(k)) : Kind(TailOf(k)) = "call" => t \in {Starts[j] : j \in DOMAIN Starts}}
  BY <1>1, <1>3, WaysLead
<1> QED
  BY <1>2, <1>3, <1>4, <1>5, <1>6, <1>7, <1>9, <1>10, <1>11

(* For any code whose decoded instructions do not overlap, the blocks are cut
   where control can leave or enter and the edges of a block are the ways on
   from its last instruction (lib.rs:604-775). *)
THEOREM EdgesAreWays == BuilderSpec => []EdgesFollowCode
<1>1. Init => Cut
  BY DEF Init, Cut
<1>2. IInv /\ Cut /\ [Build]_builder => Cut'
  BY CutNext
<1> QED
  BY <1>1, <1>2, GraphIsRight, Invariance, PTL DEF BuilderSpec

-----------------------------------------------------------------------------
(***************************************************************************)
(* Least closed sets: dominators and loops                                 *)
(***************************************************************************)
MapsInto(d) == DOMAIN d \subseteq DOMAIN blocks /\ \A k \in DOMAIN d : d[k] \in DOMAIN d

LEMMA DominatorsAre ==
    ASSUME NEW d, MapsInto(d), NEW b \in DOMAIN blocks
    PROVE  /\ b \in Dominators(d, b) /\ Dominators(d, b) \subseteq DOMAIN blocks
           /\ \A a \in Dominators(d, b) : Dominators(d, a) \subseteq Dominators(d, b)
           /\ b \in DOMAIN d => d[b] \in Dominators(d, b) /\ Dominators(d, b) \subseteq {b} \cup Dominators(d, d[b])
           /\ b \notin DOMAIN d => Dominators(d, b) = {b}
<1> DEFINE Up(S) == \A k \in S \cap DOMAIN d : d[k] \in S
<1>1. \A c : Dominators(d, c) = {a \in DOMAIN blocks : \A S \in SUBSET DOMAIN blocks : c \in S /\ Up(S) => a \in S}
  BY DEF Dominators
<1>2. \A c \in DOMAIN blocks : c \in Dominators(d, c) /\ Dominators(d, c) \subseteq DOMAIN blocks
  BY <1>1
<1>3. \A c \in DOMAIN blocks : \A a \in Dominators(d, c) : Dominators(d, a) \subseteq Dominators(d, c)
  <2> SUFFICES ASSUME NEW c \in DOMAIN blocks, NEW a \in Dominators(d, c), NEW x \in Dominators(d, a),
                      NEW S \in SUBSET DOMAIN blocks, c \in S, Up(S)
               PROVE  x \in S
    BY <1>1
  <2>1. a \in S
    BY <1>1
  <2> QED
    BY <1>1, <2>1
<1>4. \A c \in DOMAIN d : d[c] \in Dominators(d, c)
  BY <1>1 DEF MapsInto
<1>5. ASSUME b \in DOMAIN d PROVE Dominators(d, b) \subseteq {b} \cup Dominators(d, d[b])
  <2> DEFINE S == {b} \cup Dominators(d, d[b])
  <2>1. d[b] \in DOMAIN blocks
    BY <1>5 DEF MapsInto
  <2>2. S \in SUBSET DOMAIN blocks /\ d[b] \in S
    BY <1>2, <2>1
  <2>3. Up(S)
    <3> SUFFICES ASSUME NEW k \in S \cap DOMAIN d, k # b PROVE d[k] \in S
      BY <2>2
    <3>1. k \in Dominators(d, d[b])
      OBVIOUS
    <3> QED
      BY <1>3, <1>4, <2>1, <3>1
  <2> HIDE DEF S
  <2>4. \A x \in Dominators(d, b) : x \in S
    <3>1. b \in S
      BY DEF S
    <3> QED
      BY <1>1, <2>2, <2>3, <3>1
  <2> QED
    BY <2>4 DEF S
<1>6. ASSUME b \notin DOMAIN d PROVE Dominators(d, b) = {b}
  <2>1. {b} \in SUBSET DOMAIN blocks /\ Up({b})
    BY <1>6
  <2>2. Dominators(d, b) \subseteq {b}
    BY <1>1, <2>1
  <2> QED
    BY <1>2, <2>2
<1> HIDE DEF Up
<1> QED
  BY <1>2, <1>3, <1>4, <1>5, <1>6

(* Reached without a block: closed, and the least closed set. *)
LEMMA ReachedAre ==
    ASSUME NEW a
    PROVE  /\ ReachedWithout(a) \subseteq DOMAIN blocks
           /\ {1} \ {a} \subseteq DOMAIN blocks => {1} \ {a} \subseteq ReachedWithout(a)
           /\ \A j \in ReachedWithout(a) : (ToSet(Succs(j)) \cap DOMAIN blocks) \ {a} \subseteq ReachedWithout(a)
           /\ \A S \in SUBSET DOMAIN blocks :
                {1} \ {a} \subseteq S /\ (\A j \in S : ToSet(Succs(j)) \ {a} \subseteq S) => ReachedWithout(a) \subseteq S
<1> DEFINE On(S) == {1} \ {a} \subseteq S /\ \A j \in S : ToSet(Succs(j)) \ {a} \subseteq S
<1>1. ReachedWithout(a) = {k \in DOMAIN blocks : \A S \in SUBSET DOMAIN blocks : On(S) => k \in S}
  BY DEF ReachedWithout
<1>2. \A j \in ReachedWithout(a) : (ToSet(Succs(j)) \cap DOMAIN blocks) \ {a} \subseteq ReachedWithout(a)
  <2> SUFFICES ASSUME NEW j \in ReachedWithout(a), NEW s \in (ToSet(Succs(j)) \cap DOMAIN blocks) \ {a},
                      NEW S \in SUBSET DOMAIN blocks, On(S)
               PROVE  s \in S
    BY <1>1
  <2>1. j \in S
    BY <1>1
  <2> QED
    BY <2>1
<1>3. {1} \ {a} \subseteq DOMAIN blocks => {1} \ {a} \subseteq ReachedWithout(a)
  BY <1>1
<1>4. \A S \in SUBSET DOMAIN blocks : On(S) => ReachedWithout(a) \subseteq S
  BY <1>1
<1> QED
  BY <1>1, <1>2, <1>3, <1>4

LEMMA LoopBlocksAre ==
    ASSUME NEW t, NEW h
    PROVE  /\ \A S \in SUBSET DOMAIN blocks :
                t \in S /\ (\A j \in S \ {h} : Preds(j) \ {h} \subseteq S) => LoopBlocks(t, h) \subseteq {h} \cup S
           /\ h \in LoopBlocks(t, h)
           /\ t \in DOMAIN blocks => t \in LoopBlocks(t, h)
           /\ LoopBlocks(t, h) \subseteq {h} \cup DOMAIN blocks
           /\ \A j \in LoopBlocks(t, h) \ {h} : Preds(j) \cap DOMAIN blocks \subseteq LoopBlocks(t, h)
<1> DEFINE L == {k \in DOMAIN blocks : \A S \in SUBSET DOMAIN blocks :
                    t \in S /\ (\A j \in S \ {h} : Preds(j) \ {h} \subseteq S) => k \in S}
<1>1. LoopBlocks(t, h) = {h} \cup L
  BY DEF LoopBlocks
<1>2. \A S \in SUBSET DOMAIN blocks :
        t \in S /\ (\A j \in S \ {h} : Preds(j) \ {h} \subseteq S) => L \subseteq S
  OBVIOUS
<1>3. t \in DOMAIN blocks => t \in L
  OBVIOUS
<1>4. \A j \in L \ {h} : Preds(j) \cap DOMAIN blocks \subseteq {h} \cup L
  <2> SUFFICES ASSUME NEW j \in L \ {h}, NEW p \in Preds(j) \cap DOMAIN blocks, p # h,
                      NEW S \in SUBSET DOMAIN blocks, t \in S, \A i \in S \ {h} : Preds(i) \ {h} \subseteq S
               PROVE  p \in S
    OBVIOUS
  <2>1. j \in S
    OBVIOUS
  <2> QED
    BY <2>1
<1>5. L \subseteq DOMAIN blocks
  OBVIOUS
<1> HIDE DEF L
<1> QED
  BY <1>1, <1>2, <1>3, <1>4, <1>5

-----------------------------------------------------------------------------
(***************************************************************************)
(* The tree under construction: a block's dominator is earlier in the      *)
(* order                                                                   *)
(***************************************************************************)
Placed ==
    /\ order \in Seq(DOMAIN blocks)
    /\ \A i, j \in DOMAIN order : order[i] = order[j] => i = j

EntryFirst == order # <<>> /\ order[1] = 1

Climbs(d) ==
    /\ 1 \in DOMAIN d /\ d[1] = 1
    /\ DOMAIN d \subseteq ToSet(order)
    /\ \A b \in DOMAIN d : d[b] \in DOMAIN d
    /\ \A b \in DOMAIN d \ {1} : Rank(d[b]) < Rank(b)

LEMMA Ranks ==
    ASSUME Placed
    PROVE  /\ Len(order) \in Nat /\ DOMAIN order = 1 .. Len(order)
           /\ \A k \in ToSet(order) : Rank(k) \in 1 .. Len(order) /\ order[Rank(k)] = k
           /\ \A i \in DOMAIN order : order[i] \in ToSet(order) /\ Rank(order[i]) = i
           /\ ToSet(order) \subseteq DOMAIN blocks
<1>1. Len(order) \in Nat /\ DOMAIN order = 1 .. Len(order) /\ \A i \in DOMAIN order : order[i] \in DOMAIN blocks
  BY DEF Placed
<1>2. \A k \in ToSet(order) : Rank(k) \in DOMAIN order /\ order[Rank(k)] = k
  <2> SUFFICES ASSUME NEW k \in ToSet(order) PROVE Rank(k) \in DOMAIN order /\ order[Rank(k)] = k
    OBVIOUS
  <2>1. \E i \in DOMAIN order : order[i] = k
    BY DEF ToSet
  <2> QED
    BY <2>1 DEF Rank
<1>3. \A i \in DOMAIN order : order[i] \in ToSet(order)
  BY DEF ToSet
<1>4. \A i \in DOMAIN order : Rank(order[i]) = i
  BY <1>2, <1>3 DEF Placed
<1>5. ToSet(order) \subseteq DOMAIN blocks
  BY <1>1 DEF ToSet
<1> QED
  BY <1>1, <1>2, <1>3, <1>4, <1>5

LEMMA Fits ==
    ASSUME Placed, Len(blocks) \in Nat, DOMAIN blocks = 1 .. Len(blocks)
    PROVE  Len(order) <= Len(blocks)
<1> SUFFICES ASSUME ~(Len(order) <= Len(blocks)) PROVE FALSE
  OBVIOUS
<1> DEFINE n == Len(order)
           m == Len(blocks)
<1>1. n \in Nat /\ m \in Nat /\ m < n /\ DOMAIN order = 1 .. n
  BY Ranks
<1>2. IsFiniteSet(1 .. n) /\ Cardinality(1 .. n) = n /\ IsFiniteSet(1 .. m) /\ Cardinality(1 .. m) = m
  <2>1. 1 \in Int /\ n \in Int /\ m \in Int
    BY <1>1
  <2> HIDE DEF n, m
  <2>2. Cardinality(1 .. n) = IF 1 > n THEN 0 ELSE n - 1 + 1
    BY <2>1, FS_Interval
  <2>3. Cardinality(1 .. m) = IF 1 > m THEN 0 ELSE m - 1 + 1
    BY <2>1, FS_Interval
  <2>4. IsFiniteSet(1 .. n) /\ IsFiniteSet(1 .. m)
    BY <2>1, FS_Interval
  <2> QED
    BY <1>1, <2>2, <2>3, <2>4
<1>3. order \in [1 .. n -> 1 .. m]
  BY <1>1 DEF Placed
<1> HIDE DEF n, m
<1>4. \E x, y \in 1 .. n : x # y /\ order[x] = order[y]
  BY <1>1, <1>2, <1>3, FS_PigeonHole
<1> QED
  BY <1>1, <1>4 DEF Placed

(* Up the tree the rank goes down, to the entry's. *)
LEMMA Climbing ==
    ASSUME Placed, EntryFirst, NEW d, Climbs(d)
    PROVE  /\ MapsInto(d) /\ Rank(1) = 1
           /\ \A b \in DOMAIN d : Dominators(d, b) \subseteq {a \in DOMAIN d : Rank(a) <= Rank(b)}
           /\ Dominators(d, 1) = {1}
           /\ \A b \in DOMAIN d \ {1} : Rank(b) > 1
<1>1. MapsInto(d)
  BY Ranks DEF Climbs, MapsInto
<1>2. Rank(1) = 1
  <2>1. 1 \in DOMAIN order
    BY Ranks DEF EntryFirst, Placed
  <2> QED
    BY <2>1, Ranks DEF EntryFirst
<1>3. \A b \in DOMAIN d : Rank(b) \in Nat
  BY Ranks DEF Climbs
<1>4. ASSUME NEW b \in DOMAIN d PROVE Dominators(d, b) \subseteq {a \in DOMAIN d : Rank(a) <= Rank(b)}
  <2> DEFINE S == {a \in DOMAIN d : Rank(a) <= Rank(b)}
  <2>1. b \in S
    BY <1>3
  <2>2. \A k \in S \cap DOMAIN d : d[k] \in S
    <3> SUFFICES ASSUME NEW k \in S PROVE d[k] \in S
      OBVIOUS
    <3>1. d[k] \in DOMAIN d /\ (k = 1 => d[k] = 1) /\ (k # 1 => Rank(d[k]) < Rank(k))
      BY DEF Climbs
    <3> QED
      BY <1>3, <3>1
  <2>3. S \in SUBSET DOMAIN blocks
    BY <1>1 DEF MapsInto
  <2> HIDE DEF S
  <2>4. Dominators(d, b) \subseteq S
    BY <2>1, <2>2, <2>3 DEF Dominators
  <2> QED
    BY <2>4 DEF S
<1>5. Dominators(d, 1) = {1}
  <2>1. 1 \in DOMAIN blocks /\ 1 \in Dominators(d, 1)
    BY <1>1, DominatorsAre DEF Climbs, MapsInto
  <2>2. {1} \in SUBSET DOMAIN blocks /\ \A k \in {1} \cap DOMAIN d : d[k] \in {1}
    BY <2>1 DEF Climbs
  <2>3. Dominators(d, 1) \subseteq {1}
    BY <2>2 DEF Dominators
  <2> QED
    BY <2>1, <2>3
<1>6. \A b \in DOMAIN d \ {1} : Rank(b) > 1
  <2> SUFFICES ASSUME NEW b \in DOMAIN d \ {1} PROVE Rank(b) > 1
    OBVIOUS
  <2>1. Rank(d[b]) < Rank(b) /\ d[b] \in DOMAIN d
    BY DEF Climbs
  <2>2. Rank(b) \in Nat /\ Rank(d[b]) \in 1 .. Len(order) /\ Len(order) \in Nat
    BY <2>1, Ranks DEF Climbs
  <2> QED
    BY <2>1, <2>2
<1> QED
  BY <1>1, <1>2, <1>4, <1>5, <1>6

-----------------------------------------------------------------------------
(***************************************************************************)
(* intersect: two fingers climb until they meet                            *)
(***************************************************************************)
LEMMA LeastNat ==
    ASSUME NEW S \in SUBSET Nat, S # {}
    PROVE  \E n \in S : \A m \in S : n <= m
<1>1. PICK n \in S : \A m \in S : <<m, n>> \notin OpToRel(<, Nat)
  BY NatLessThanWellFounded, WFMin, Zenon
<1>2. \A m \in S : ~(m < n)
  BY <1>1 DEF OpToRel
<1> QED
  BY <1>2

(* The recursion of Intersect has a solution. *)
LEMMA IntersectDef ==
    ASSUME NEW d, NEW a, NEW b
    PROVE  \E w : /\ Intersect(d, a, b) = w[Limit][1] /\ w[0] = <<a, b>>
                  /\ \A n \in 1 .. Limit : w[n] = Climb(d)[w[n - 1]]
<1> DEFINE Rec(m, w) == \A n \in 0 .. m : w[n] = IF n = 0 THEN <<a, b>> ELSE Climb(d)[w[n - 1]]
<1>1. \A m \in Nat : \E w : Rec(m, w)
  <2> SUFFICES ASSUME ~ \A m \in Nat : \E w : Rec(m, w) PROVE FALSE
    OBVIOUS
  <2> DEFINE S == {m \in Nat : ~ \E w : Rec(m, w)}
  <2>1. PICK m \in S : \A k \in S : m <= k
    <3>1. S # {} /\ S \in SUBSET Nat
      OBVIOUS
    <3> HIDE DEF S
    <3> QED
      BY <3>1, LeastNat
  <2>2. m \in Nat /\ ~ \E w : Rec(m, w)
    OBVIOUS
  <2>3. CASE m = 0
    <3> DEFINE w == [n \in 0 .. 0 |-> <<a, b>>]
    <3>1. Rec(m, w)
      BY <2>3
    <3> QED
      BY <2>2, <3>1
  <2>4. CASE m # 0
    <3>1. m - 1 \in Nat /\ m - 1 \notin S
      <4>1. m - 1 \in Nat /\ ~(m <= m - 1)
        BY <2>2, <2>4
      <4> HIDE DEF S
      <4> QED
        BY <2>1, <4>1
    <3>2. PICK v : Rec(m - 1, v)
      BY <3>1
    <3> DEFINE w == [n \in 0 .. m |-> IF n = m THEN Climb(d)[v[m - 1]] ELSE v[n]]
    <3>3. \A n \in 0 .. m : w[n] = IF n = 0 THEN <<a, b>> ELSE Climb(d)[w[n - 1]]
      <4> SUFFICES ASSUME NEW n \in 0 .. m PROVE w[n] = IF n = 0 THEN <<a, b>> ELSE Climb(d)[w[n - 1]]
        OBVIOUS
      <4>1. CASE n = m
        <5>1. m - 1 \in 0 .. m /\ m - 1 # m /\ n \in 0 .. m
          BY <2>2, <2>4
        <5>2. w[n] = Climb(d)[v[m - 1]] /\ w[m - 1] = v[m - 1]
          BY <4>1, <5>1
        <5> QED
          BY <2>4, <4>1, <5>2
      <4>2. CASE n # m
        <5>1. n \in 0 .. (m - 1)
          BY <2>2, <4>2
        <5>2. v[n] = IF n = 0 THEN <<a, b>> ELSE Climb(d)[v[n - 1]]
          BY <3>2, <5>1
        <5>3. w[n] = v[n] /\ (n # 0 => w[n - 1] = v[n - 1])
          BY <2>2, <4>2, <5>1
        <5> QED
          BY <5>2, <5>3
      <4> QED
        BY <4>1, <4>2
    <3>4. Rec(m, w)
      BY <3>3
    <3> QED
      BY <2>2, <3>4
  <2> QED
    BY <2>3, <2>4
<1>2. PICK v : Rec(Limit, v)
  BY <1>1, LimitAssumption
<1> DEFINE w == [n \in 0 .. Limit |-> v[n]]
           F(u) == [n \in 0 .. Limit |-> IF n = 0 THEN <<a, b>> ELSE Climb(d)[u[n - 1]]]
           fingers == CHOOSE u : u = F(u)
<1>3. w = F(w)
  <2>1. \A n \in 0 .. Limit : w[n] = v[n] /\ (n # 0 => w[n - 1] = v[n - 1])
    BY LimitAssumption
  <2> QED
    BY <1>2, <2>1
<1>4. fingers = F(fingers)
  BY <1>3
<1>5. Intersect(d, a, b) = fingers[Limit][1]
  BY DEF Intersect
<1> HIDE DEF fingers
<1>6. \A n \in 0 .. Limit : fingers[n] = IF n = 0 THEN <<a, b>> ELSE Climb(d)[fingers[n - 1]]
  BY <1>4
<1>7. fingers[0] = <<a, b>>
  BY <1>6, LimitAssumption
<1>8. \A n \in 1 .. Limit : fingers[n] = Climb(d)[fingers[n - 1]]
  BY <1>6, LimitAssumption
<1> QED
  BY <1>5, <1>7, <1>8

(* Two fingers climb at most as often as their ranks allow and meet above
   both. *)
LEMMA IntersectMeets ==
    ASSUME Placed, EntryFirst, NEW d, Climbs(d), 2 * Len(order) <= Limit,
           NEW a \in DOMAIN d, NEW b \in DOMAIN d
    PROVE  Intersect(d, a, b) \in Dominators(d, a) \cap Dominators(d, b)
<1>1. PICK w : /\ Intersect(d, a, b) = w[Limit][1] /\ w[0] = <<a, b>>
               /\ \A n \in 1 .. Limit : w[n] = Climb(d)[w[n - 1]]
  BY IntersectDef
<1>2. Limit \in Nat /\ Len(order) \in Nat /\ \A k \in DOMAIN d : Rank(k) \in 1 .. Len(order) /\ order[Rank(k)] = k
  <2>1. DOMAIN d \subseteq ToSet(order)
    BY DEF Climbs
  <2>2. \A k \in ToSet(order) : Rank(k) \in 1 .. Len(order) /\ order[Rank(k)] = k
    BY Ranks, Zenon
  <2>3. Limit \in Nat /\ Len(order) \in Nat
    BY LimitAssumption, Ranks, Zenon
  <2> QED
    BY <2>1, <2>2, <2>3, Zenon
<1>3. /\ MapsInto(d) /\ Rank(1) = 1
      /\ \A k \in DOMAIN d : Dominators(d, k) \subseteq DOMAIN d
      /\ \A k \in DOMAIN d \ {1} : Rank(k) > 1
  BY Climbing
<1>4. \A k \in DOMAIN d : /\ k \in DOMAIN blocks /\ k \in Dominators(d, k) /\ d[k] \in Dominators(d, k)
                          /\ \A x \in Dominators(d, k) : Dominators(d, x) \subseteq Dominators(d, k)
  BY <1>3, DominatorsAre DEF MapsInto
<1> DEFINE Good(n) == \E f \in Dominators(d, a), g \in Dominators(d, b) :
                         w[n] = <<f, g>> /\ (f = g \/ Rank(f) + Rank(g) + n <= Rank(a) + Rank(b))
<1>5. Good(0)
  <2>1. Rank(a) + Rank(b) + 0 <= Rank(a) + Rank(b)
    BY <1>2
  <2> QED
    BY <1>1, <1>4, <2>1
<1>6. ASSUME NEW n \in 1 .. Limit, Good(n - 1) PROVE Good(n)
  <2>1. PICK f \in Dominators(d, a), g \in Dominators(d, b) :
           w[n - 1] = <<f, g>> /\ (f = g \/ Rank(f) + Rank(g) + (n - 1) <= Rank(a) + Rank(b))
    BY <1>6
  <2>2. f \in DOMAIN d /\ g \in DOMAIN d
    BY <1>3
  <2>3. w[n] = IF f = g THEN <<f, g>> ELSE IF Rank(f) > Rank(g) THEN <<d[f], g>> ELSE <<f, d[g]>>
    <3>1. w[n] = Climb(d)[<<f, g>>]
      BY <1>1, <2>1
    <3>2. <<f, g>> \in (DOMAIN d) \X (DOMAIN d) /\ <<f, g>>[1] = f /\ <<f, g>>[2] = g
      BY <2>2
    <3> QED
      BY <3>1, <3>2 DEF Climb
  <2>4. d[f] \in Dominators(d, a) /\ d[g] \in Dominators(d, b)
    BY <1>4, <2>2
  <2>5. CASE f = g
    BY <2>1, <2>3, <2>5
  <2>6. CASE f # g /\ Rank(f) > Rank(g)
    <3>1. f # 1
      BY <1>2, <1>3, <2>2, <2>6
    <3>2. Rank(d[f]) < Rank(f) /\ d[f] \in DOMAIN d
      BY <2>2, <3>1 DEF Climbs
    <3>3. Rank(d[f]) + Rank(g) + n <= Rank(a) + Rank(b)
      BY <1>2, <2>1, <2>2, <2>6, <3>2
    <3>4. w[n] = <<d[f], g>>
      BY <2>3, <2>6
    <3> QED
      BY <2>4, <3>3, <3>4
  <2>7. CASE f # g /\ ~(Rank(f) > Rank(g))
    <3>1. g # 1
      <4>1. Rank(f) # Rank(g)
        BY <1>2, <2>2, <2>7
      <4> QED
        BY <1>2, <1>3, <2>2, <2>7, <4>1
    <3>2. Rank(d[g]) < Rank(g) /\ d[g] \in DOMAIN d
      BY <2>2, <3>1 DEF Climbs
    <3>3. Rank(f) + Rank(d[g]) + n <= Rank(a) + Rank(b)
      BY <1>2, <2>1, <2>2, <2>7, <3>2
    <3>4. w[n] = <<f, d[g]>>
      BY <2>3, <2>7
    <3> QED
      BY <2>4, <3>3, <3>4
  <2> QED
    BY <2>5, <2>6, <2>7
<1> HIDE DEF Good
<1>7. \A n \in 0 .. Limit : Good(n)
  <2> SUFFICES ASSUME ~ \A n \in 0 .. Limit : Good(n) PROVE FALSE
    OBVIOUS
  <2> DEFINE S == {n \in 0 .. Limit : ~Good(n)}
  <2>1. PICK n \in S : \A m \in S : n <= m
    <3>1. S # {} /\ S \in SUBSET Nat
      BY <1>2
    <3> HIDE DEF S
    <3> QED
      BY <3>1, LeastNat
  <2>2. n \in 1 .. Limit /\ n - 1 \in 0 .. Limit /\ ~(n <= n - 1)
    BY <1>2, <1>5
  <2>3. Good(n - 1)
    BY <2>1, <2>2
  <2> QED
    BY <1>6, <2>2, <2>3
<1>8. PICK f \in Dominators(d, a), g \in Dominators(d, b) :
         w[Limit] = <<f, g>> /\ (f = g \/ Rank(f) + Rank(g) + Limit <= Rank(a) + Rank(b))
  <2>1. Good(Limit)
    BY <1>2, <1>7
  <2> QED
    BY <2>1 DEF Good
<1>9. f = g
  <2>1. f \in DOMAIN d /\ g \in DOMAIN d
    BY <1>3
  <2>2. Rank(f) >= 1 /\ Rank(g) >= 1 /\ Rank(a) <= Len(order) /\ Rank(b) <= Len(order)
    BY <1>2, <2>1
  <2>3. Rank(f) \in Nat /\ Rank(g) \in Nat /\ Rank(a) \in Nat /\ Rank(b) \in Nat
    BY <1>2, <2>1
  <2>4. ~(Rank(f) + Rank(g) + Limit <= Rank(a) + Rank(b))
    BY <1>2, <2>2, <2>3
  <2> QED
    BY <1>8, <2>4
<1>10. w[Limit][1] = f
  BY <1>8
<1> QED
  BY <1>1, <1>9, <1>10

-----------------------------------------------------------------------------
(***************************************************************************)
(* The new dominator of a block                                            *)
(***************************************************************************)
(* The recursion of NewIdom has a solution. *)
LEMMA NewIdomDef ==
    ASSUME NEW d, NEW k, Len(blocks[k].pred) \in Nat
    PROVE  \E w : /\ NewIdom(d, k) = w[Len(blocks[k].pred)] /\ w[0] = 0
                  /\ \A n \in 1 .. Len(blocks[k].pred) : w[n] = Meet(d, w[n - 1], blocks[k].pred[n])
<1> DEFINE ps == blocks[k].pred
           len == Len(ps)
           Rec(m, w) == \A n \in 0 .. m : w[n] = IF n = 0 THEN 0 ELSE Meet(d, w[n - 1], ps[n])
<1>1. \A m \in Nat : \E w : Rec(m, w)
  <2> SUFFICES ASSUME ~ \A m \in Nat : \E w : Rec(m, w) PROVE FALSE
    OBVIOUS
  <2> DEFINE S == {m \in Nat : ~ \E w : Rec(m, w)}
  <2>1. PICK m \in S : \A j \in S : m <= j
    <3>1. S # {} /\ S \in SUBSET Nat
      OBVIOUS
    <3> HIDE DEF S
    <3> QED
      BY <3>1, LeastNat
  <2>2. m \in Nat /\ ~ \E w : Rec(m, w)
    OBVIOUS
  <2>3. CASE m = 0
    <3> DEFINE w == [n \in 0 .. 0 |-> 0]
    <3>1. Rec(m, w)
      BY <2>3
    <3> QED
      BY <2>2, <3>1
  <2>4. CASE m # 0
    <3>1. m - 1 \in Nat /\ m - 1 \notin S
      <4>1. m - 1 \in Nat /\ ~(m <= m - 1)
        BY <2>2, <2>4
      <4> HIDE DEF S
      <4> QED
        BY <2>1, <4>1
    <3>2. PICK v : Rec(m - 1, v)
      BY <3>1
    <3> DEFINE w == [n \in 0 .. m |-> IF n = m THEN Meet(d, v[m - 1], ps[m]) ELSE v[n]]
    <3>3. \A n \in 0 .. m : w[n] = IF n = 0 THEN 0 ELSE Meet(d, w[n - 1], ps[n])
      <4> SUFFICES ASSUME NEW n \in 0 .. m PROVE w[n] = IF n = 0 THEN 0 ELSE Meet(d, w[n - 1], ps[n])
        OBVIOUS
      <4>1. CASE n = m
        <5>1. m - 1 \in 0 .. m /\ m - 1 # m /\ n \in 0 .. m
          BY <2>2, <2>4
        <5>2. w[n] = Meet(d, v[m - 1], ps[m]) /\ w[m - 1] = v[m - 1]
          BY <4>1, <5>1
        <5> QED
          BY <2>4, <4>1, <5>2
      <4>2. CASE n # m
        <5>1. n \in 0 .. (m - 1)
          BY <2>2, <4>2
        <5>2. v[n] = IF n = 0 THEN 0 ELSE Meet(d, v[n - 1], ps[n])
          BY <3>2, <5>1
        <5>3. w[n] = v[n] /\ (n # 0 => w[n - 1] = v[n - 1])
          BY <2>2, <4>2, <5>1
        <5> QED
          BY <5>2, <5>3
      <4> QED
        BY <4>1, <4>2
    <3>4. Rec(m, w)
      BY <3>3
    <3> QED
      BY <2>2, <3>4
  <2> QED
    BY <2>3, <2>4
<1>2. PICK v : Rec(len, v)
  BY <1>1
<1> DEFINE w == [n \in 0 .. len |-> v[n]]
           F(u) == [n \in 0 .. len |-> IF n = 0 THEN 0 ELSE Meet(d, u[n - 1], ps[n])]
           upTo == CHOOSE u : u = F(u)
<1>3. w = F(w)
  <2>1. \A n \in 0 .. len : w[n] = v[n] /\ (n # 0 => w[n - 1] = v[n - 1])
    OBVIOUS
  <2> QED
    BY <1>2, <2>1
<1>4. upTo = F(upTo)
  BY <1>3
<1>5. NewIdom(d, k) = upTo[len]
  BY DEF NewIdom
<1> HIDE DEF upTo
<1>6. \A n \in 0 .. len : upTo[n] = IF n = 0 THEN 0 ELSE Meet(d, upTo[n - 1], ps[n])
  BY <1>4
<1>7. upTo[0] = 0
  BY <1>6
<1>8. \A n \in 1 .. len : upTo[n] = Meet(d, upTo[n - 1], ps[n])
  BY <1>6
<1> QED
  BY <1>5, <1>7, <1>8

(* It is above every predecessor that has a dominator. *)
LEMMA NewIdomMeets ==
    ASSUME Placed, EntryFirst, NEW d, Climbs(d), 2 * Len(order) <= Limit, DOMAIN blocks = 1 .. Len(blocks),
           NEW k \in DOMAIN blocks, blocks[k].pred \in Seq(DOMAIN blocks)
    PROVE  \A p \in Preds(k) \cap DOMAIN d : NewIdom(d, k) \in Dominators(d, p)
<1> DEFINE ps == blocks[k].pred
<1>1. Len(ps) \in Nat /\ DOMAIN ps = 1 .. Len(ps)
  OBVIOUS
<1>2. PICK w : /\ NewIdom(d, k) = w[Len(ps)] /\ w[0] = 0
               /\ \A n \in 1 .. Len(ps) : w[n] = Meet(d, w[n - 1], ps[n])
  <2>1. Len(blocks[k].pred) \in Nat
    BY <1>1
  <2>2. \A j : Len(blocks[j].pred) \in Nat =>
          \E w : /\ NewIdom(d, j) = w[Len(blocks[j].pred)] /\ w[0] = 0
                /\ \A n \in 1 .. Len(blocks[j].pred) : w[n] = Meet(d, w[n - 1], blocks[j].pred[n])
    BY NewIdomDef
  <2> QED
    BY <2>1, <2>2, Zenon
<1>3. MapsInto(d) /\ \A c \in DOMAIN d : Dominators(d, c) \subseteq DOMAIN d
  BY Climbing
<1>4. 0 \notin DOMAIN d
  BY <1>3 DEF MapsInto
<1>5. \A c \in DOMAIN d : /\ c \in Dominators(d, c) /\ d[c] \in Dominators(d, c) /\ d[c] \in DOMAIN d
                          /\ \A x \in Dominators(d, c) : Dominators(d, x) \subseteq Dominators(d, c)
  BY <1>3, DominatorsAre DEF MapsInto
<1> DEFINE Good(n) == /\ w[n] \in DOMAIN d \cup {0}
                      /\ \A i \in 1 .. n : ps[i] \in DOMAIN d => w[n] \in Dominators(d, ps[i])
<1>6. Good(0)
  BY <1>2
<1> HIDE DEF ps
<1>7. ASSUME NEW n \in 1 .. Len(ps), Good(n - 1) PROVE Good(n)
  <2> DEFINE x == w[n - 1]
             p == ps[n]
  <2>1. w[n] = Meet(d, x, p)
    BY <1>2
  <2>2. x \in DOMAIN d \cup {0} /\ \A i \in 1 .. n - 1 : ps[i] \in DOMAIN d => x \in Dominators(d, ps[i])
    BY <1>7
  <2>3. \A i \in 1 .. n : i \in 1 .. n - 1 \/ ps[i] = p
    OBVIOUS
  <2> HIDE DEF x, p
  <2>4. CASE p \notin DOMAIN d
    <3>1. w[n] = x
      BY <2>1, <2>4 DEF Meet
    <3> QED
      BY <2>2, <2>3, <2>4, <3>1
  <2>5. CASE p \in DOMAIN d /\ p = x
    <3>1. w[n] = x
      BY <2>1, <2>5 DEF Meet
    <3> QED
      BY <1>5, <2>2, <2>3, <2>5, <3>1
  <2>6. CASE p \in DOMAIN d /\ x = 0
    <3>1. w[n] = p
      BY <1>4, <2>1, <2>6 DEF Meet
    <3>2. \A i \in 1 .. n - 1 : ps[i] \notin DOMAIN d
      BY <1>3, <1>4, <2>2, <2>6
    <3> QED
      BY <1>5, <2>3, <2>6, <3>1, <3>2
  <2>7. CASE p \in DOMAIN d /\ p # x /\ x # 0
    <3>1. w[n] = Intersect(d, d[p], x)
      BY <2>1, <2>7 DEF Meet
    <3>2. x \in DOMAIN d /\ d[p] \in DOMAIN d
      BY <1>5, <2>2, <2>7
    <3>3. w[n] \in Dominators(d, d[p]) \cap Dominators(d, x)
      BY <3>1, <3>2, IntersectMeets
    <3>4. w[n] \in DOMAIN d /\ w[n] \in Dominators(d, p)
      BY <1>3, <1>5, <2>7, <3>2, <3>3
    <3>5. \A i \in 1 .. n - 1 : ps[i] \in DOMAIN d => w[n] \in Dominators(d, ps[i])
      BY <1>5, <2>2, <3>3
    <3> QED
      BY <2>3, <3>4, <3>5
  <2> QED
    BY <2>4, <2>5, <2>6, <2>7
<1> HIDE DEF Good
<1>8. \A n \in 0 .. Len(ps) : Good(n)
  <2> SUFFICES ASSUME ~ \A n \in 0 .. Len(ps) : Good(n) PROVE FALSE
    OBVIOUS
  <2> DEFINE S == {n \in 0 .. Len(ps) : ~Good(n)}
  <2>1. PICK n \in S : \A m \in S : n <= m
    <3>1. S # {} /\ S \in SUBSET Nat
      BY <1>1
    <3> HIDE DEF S
    <3> QED
      BY <3>1, LeastNat
  <2>2. n \in 1 .. Len(ps) /\ n - 1 \in 0 .. Len(ps) /\ ~(n <= n - 1)
    BY <1>1, <1>6
  <2>3. Good(n - 1)
    BY <2>1, <2>2
  <2> QED
    BY <1>7, <2>2, <2>3
<1>9. Good(Len(ps))
  BY <1>1, <1>8
<1>10. \A p \in Preds(k) : \E i \in 1 .. Len(ps) : p = ps[i]
  BY <1>1 DEF Preds, ToSet, ps
<1> QED
  BY <1>2, <1>9, <1>10 DEF Good

-----------------------------------------------------------------------------
(***************************************************************************)
(* The depth-first search                                                  *)
(***************************************************************************)
Links ==
    /\ Len(blocks) \in Nat /\ DOMAIN blocks = 1 .. Len(blocks)
    /\ \A k \in DOMAIN blocks :
         /\ Succs(k) \in Seq(DOMAIN blocks) /\ blocks[k].pred \in Seq(DOMAIN blocks)
         /\ Preds(k) = {j \in DOMAIN blocks : k \in ToSet(Succs(j))}

OnPath == {path[i][1] : i \in DOMAIN path}

(* The stack is a path from the entry. *)
Stacked ==
    /\ path \in Seq((DOMAIN blocks) \X (Nat \ {0}))
    /\ \A i, j \in DOMAIN path : path[i][1] = path[j][1] => i = j
    /\ path # <<>> => path[1][1] = 1
    /\ \A i \in 2 .. Len(path) : path[i][1] \in ToSet(Succs(path[i - 1][1]))

(* What is visited is on the path or placed, and lies in every closed set. *)
Split ==
    /\ Placed
    /\ visited = OnPath \cup ToSet(order) /\ OnPath \cap ToSet(order) = {}
    /\ path = <<>> => EntryFirst
    /\ \A S \in SUBSET DOMAIN blocks :
         1 \in S /\ (\A j \in S : ToSet(Succs(j)) \subseteq S) => visited \subseteq S

(* The edges looked at lead to visited blocks. *)
Looked ==
    /\ \A k \in ToSet(order) : ToSet(Succs(k)) \subseteq visited
    /\ \A i \in DOMAIN path : \A n \in DOMAIN Succs(path[i][1]) : n < path[i][2] => Succs(path[i][1])[n] \in visited

(* A block placed has a predecessor on the path or before it in the order. *)
Parented ==
    \A j \in DOMAIN order :
        \/ order[j] = 1
        \/ \E p \in OnPath : order[j] \in ToSet(Succs(p))
        \/ \E i \in 1 .. j - 1 : order[j] \in ToSet(Succs(order[i]))

Search == Stacked /\ Split /\ Looked /\ Parented

LEMMA BeginSearch ==
    ASSUME Links, Begin, order = <<>>
    PROVE  Search'
<1>1. /\ path' = <<<<1, 1>>>> /\ visited' = {1} /\ order' = <<>> /\ blocks' = blocks /\ blocks # <<>>
      /\ Len(path') = 1 /\ DOMAIN path' = {1} /\ path'[1] = <<1, 1>>
  BY DEF Begin, builder
<1>2. 1 \in DOMAIN blocks
  <2>1. Len(blocks) # 0
    BY <1>1 DEF Links
  <2> QED
    BY <2>1 DEF Links
<1>3. OnPath' = {1}
  <2>1. \A i \in DOMAIN path' : path'[i][1] = 1
    BY <1>1
  <2> QED
    BY <1>1, <2>1 DEF OnPath
<1>4. ToSet(order') = {} /\ DOMAIN order' = {}
  BY <1>1 DEF ToSet
<1>5. Stacked'
  <2>1. <<<<1, 1>>>> \in Seq((DOMAIN blocks) \X (Nat \ {0}))
    BY <1>2
  <2>2. \A i \in 2 .. Len(path') : FALSE
    BY <1>1
  <2>3. \A i, j \in DOMAIN path' : i = j
    BY <1>1
  <2>4. path'[1][1] = 1
    BY <1>1
  <2> QED
    BY <1>1, <2>1, <2>2, <2>3, <2>4 DEF Stacked
<1>6. Split'
  <2>1. Placed'
    BY <1>1, <1>4 DEF Placed
  <2>2. path' # <<>>
    BY <1>1
  <2> QED
    BY <1>1, <1>3, <1>4, <2>1, <2>2 DEF Split
<1>7. Looked'
  <2> SUFFICES ASSUME NEW n \in DOMAIN Succs(1)' PROVE ~(n < 1)
    BY <1>1, <1>4 DEF Looked
  <2>1. Succs(1)' = Succs(1)
    BY <1>1 DEF Succs
  <2>2. n \in DOMAIN Succs(1) /\ Succs(1) \in Seq(DOMAIN blocks)
    BY <1>2, <2>1 DEF Links
  <2> QED
    BY <2>2
<1>8. Parented'
  BY <1>4 DEF Parented
<1> QED
  BY <1>5, <1>6, <1>7, <1>8 DEF Search

LEMMA MappedSeq ==
    ASSUME NEW A, NEW n \in Nat, NEW f \in [1 .. n -> A]
    PROVE  f \in Seq(A)
<1>1. f \in UNION {[1 .. m -> A] : m \in Nat}
  OBVIOUS
<1> QED
  BY <1>1, SeqDef, Zenon

LEMMA LengthIs ==
    ASSUME NEW A, NEW s \in Seq(A), NEW n \in Nat, DOMAIN s = 1 .. n
    PROVE  Len(s) = n
<1> DEFINE m == Len(s)
<1>1. m \in Nat /\ 1 .. m = 1 .. n
  OBVIOUS
<1> HIDE DEF m
<1>2. \A i : i \in 1 .. m <=> i \in 1 .. n
  BY <1>1
<1>3. ~(m + 1 \in 1 .. n) /\ ~(n + 1 \in 1 .. m)
  <2>1. ~(m + 1 \in 1 .. m) /\ ~(n + 1 \in 1 .. n)
    BY <1>1
  <2> QED
    BY <1>2, <2>1
<1> QED
  BY <1>1, <1>3 DEF m

LEMMA TopOfStack ==
    ASSUME NEW A, NEW s \in Seq(A), s # <<>>
    PROVE  /\ Len(s) \in Nat \ {0} /\ DOMAIN s = 1 .. Len(s) /\ Last(s) = s[Len(s)] /\ Last(s) \in A
           /\ Front(s) \in Seq(A) /\ Len(Front(s)) = Len(s) - 1 /\ DOMAIN Front(s) = 1 .. Len(s) - 1
           /\ \A i \in 1 .. Len(s) - 1 : Front(s)[i] = s[i]
<1>1. Len(s) \in Nat \ {0} /\ DOMAIN s = 1 .. Len(s) /\ \A i \in 1 .. Len(s) : s[i] \in A
  OBVIOUS
<1>2. Last(s) = s[Len(s)] /\ Last(s) \in A
  BY <1>1 DEF Last
<1>3. /\ Front(s) \in Seq(A) /\ DOMAIN Front(s) = 1 .. Len(s) - 1
      /\ \A i \in 1 .. Len(s) - 1 : Front(s)[i] = s[i]
  BY <1>1 DEF Front
<1>4. Len(Front(s)) = Len(s) - 1
  <2> DEFINE f == Front(s)
             n == Len(s) - 1
  <2>1. f \in Seq(A) /\ DOMAIN f = 1 .. n /\ n \in Nat
    BY <1>1, <1>3
  <2> HIDE DEF f, n
  <2>2. Len(f) = n
    BY <2>1, LengthIs
  <2> QED
    BY <2>2 DEF f, n
<1> QED
  BY <1>1, <1>2, <1>3, <1>4

LEMMA Pushing ==
    ASSUME NEW A, NEW s \in Seq(A), NEW e \in A
    PROVE  /\ Append(s, e) \in Seq(A) /\ Len(Append(s, e)) = Len(s) + 1 /\ DOMAIN Append(s, e) = 1 .. Len(s) + 1
           /\ \A i \in 1 .. Len(s) : Append(s, e)[i] = s[i]
           /\ Append(s, e)[Len(s) + 1] = e
OBVIOUS

(* What a step of the search does to the stack. *)
LEMMA WalkStack ==
    ASSUME Links, Search, Walk, NEW L, L = Len(path)
    PROVE  \E node \in DOMAIN blocks, to \in DOMAIN blocks, n \in Nat \ {0} :
             /\ L \in Nat \ {0} /\ DOMAIN path = 1 .. L /\ path[L] = <<node, n>>
             /\ n \in DOMAIN Succs(node) /\ to = Succs(node)[n]
             /\ to \in ToSet(Succs(node)) /\ visited' = visited \cup {to}
             /\ path' \in Seq((DOMAIN blocks) \X (Nat \ {0})) /\ path' # <<>>
             /\ DOMAIN path' = 1 .. Len(path')
             /\ Len(path') = IF to \in visited THEN L ELSE L + 1
             /\ \A i \in 1 .. L - 1 : path'[i] = path[i]
             /\ path'[L] = <<node, n + 1>>
             /\ to \notin visited => path'[L + 1] = <<to, 1>>
<1> DEFINE A == (DOMAIN blocks) \X (Nat \ {0})
           e == Last(path)
           node == e[1]
           n == e[2]
           to == Succs(node)[n]
           u == <<node, n + 1>>
           v == <<to, 1>>
           rest == Append(Front(path), u)
<1>1. path \in Seq(A) /\ path # <<>> /\ n <= Len(Succs(node))
      /\ path' = (IF to \in visited THEN rest ELSE Append(rest, v)) /\ visited' = visited \cup {to}
  BY DEF Walk, Search, Stacked
<1>2. /\ L \in Nat \ {0} /\ DOMAIN path = 1 .. L /\ e = path[L] /\ e \in A
      /\ Front(path) \in Seq(A) /\ Len(Front(path)) = L - 1
      /\ \A i \in 1 .. L - 1 : Front(path)[i] = path[i]
  <2> HIDE DEF A, e
  <2>1. path \in Seq(A) /\ path # <<>>
    BY <1>1
  <2> QED
    BY <2>1, TopOfStack DEF e
<1>3. node \in DOMAIN blocks /\ n \in Nat \ {0} /\ e = <<node, n>>
  BY <1>2
<1>4. n \in DOMAIN Succs(node) /\ to \in DOMAIN blocks /\ to \in ToSet(Succs(node))
  <2>1. Succs(node) \in Seq(DOMAIN blocks)
    BY <1>3 DEF Links
  <2> HIDE DEF node, n
  <2>2. n \in DOMAIN Succs(node)
    BY <1>1, <1>3, <2>1
  <2> QED
    BY <2>1, <2>2 DEF ToSet
<1>5. u \in A /\ v \in A
  BY <1>3, <1>4
<1> HIDE DEF A, e, node, n, to, u, v
<1>6. /\ rest \in Seq(A) /\ Len(rest) = L /\ DOMAIN rest = 1 .. L
      /\ (\A i \in 1 .. L - 1 : rest[i] = path[i]) /\ rest[L] = u
  <2>1. Len(Front(path)) + 1 = L
    BY <1>2
  <2> QED
    BY <1>2, <1>5, <2>1, Pushing
<1> HIDE DEF rest
<1>7. /\ Append(rest, v) \in Seq(A) /\ Len(Append(rest, v)) = L + 1
      /\ (\A i \in 1 .. L : Append(rest, v)[i] = rest[i]) /\ Append(rest, v)[L + 1] = v
  BY <1>5, <1>6, Pushing
<1>8. /\ path' \in Seq(A) /\ Len(path') = IF to \in visited THEN L ELSE L + 1
      /\ (\A i \in 1 .. L - 1 : path'[i] = path[i]) /\ path'[L] = u
      /\ to \notin visited => path'[L + 1] = v
  <2>1. CASE to \in visited
    BY <1>1, <1>6, <2>1
  <2>2. CASE to \notin visited
    <3>1. path' = Append(rest, v)
      BY <1>1, <2>2
    <3>2. L \in 1 .. L /\ \A i \in 1 .. L - 1 : i \in 1 .. L
      BY <1>2
    <3> QED
      BY <1>6, <1>7, <2>2, <3>1, <3>2
  <2> QED
    BY <2>1, <2>2
<1>9. DOMAIN path' = 1 .. Len(path') /\ path' # <<>>
  <2>1. Len(path') \in Nat \ {0}
    BY <1>2, <1>8
  <2> QED
    BY <1>8, <2>1
<1>10. /\ path[L] = <<node, n>> /\ to = Succs(node)[n]
       /\ path' \in Seq((DOMAIN blocks) \X (Nat \ {0}))
       /\ path'[L] = <<node, n + 1>>
       /\ to \notin visited => path'[L + 1] = <<to, 1>>
  BY <1>2, <1>3, <1>8 DEF A, u, v, to
<1> QED
  BY <1>1, <1>2, <1>3, <1>4, <1>8, <1>9, <1>10, Zenon

LEMMA WalkSearch ==
    ASSUME Links, Search, Walk
    PROVE  Search'
<1> DEFINE L == Len(path)
<1>1. PICK node \in DOMAIN blocks, to \in DOMAIN blocks, n \in Nat \ {0} :
         /\ L \in Nat \ {0} /\ DOMAIN path = 1 .. L /\ path[L] = <<node, n>>
         /\ n \in DOMAIN Succs(node) /\ to = Succs(node)[n]
         /\ to \in ToSet(Succs(node)) /\ visited' = visited \cup {to}
         /\ path' \in Seq((DOMAIN blocks) \X (Nat \ {0})) /\ path' # <<>>
         /\ DOMAIN path' = 1 .. Len(path')
         /\ Len(path') = IF to \in visited THEN L ELSE L + 1
         /\ \A i \in 1 .. L - 1 : path'[i] = path[i]
         /\ path'[L] = <<node, n + 1>>
         /\ to \notin visited => path'[L + 1] = <<to, 1>>
  BY WalkStack
<1>2. blocks' = blocks /\ order' = order
  BY DEF Walk, builder
<1>3. /\ path \in Seq((DOMAIN blocks) \X (Nat \ {0})) /\ (path # <<>> => path[1][1] = 1)
      /\ \A i, j \in DOMAIN path : path[i][1] = path[j][1] => i = j
      /\ \A i \in 2 .. Len(path) : path[i][1] \in ToSet(Succs(path[i - 1][1]))
  BY DEF Search, Stacked
<1> DEFINE M == Len(path')
<1>4. M \in Nat /\ (M = L \/ M = L + 1) /\ (M = L <=> to \in visited)
  <2>1. L \in Nat \ {0} /\ M = IF to \in visited THEN L ELSE L + 1
    BY <1>1
  <2> HIDE DEF L, M
  <2>2. CASE to \in visited
    BY <2>1, <2>2
  <2>3. CASE to \notin visited
    BY <2>1, <2>3
  <2> QED
    BY <2>2, <2>3
<1>5. \A i \in 1 .. L : path'[i][1] = path[i][1]
  <2>1. path[L][1] = node /\ path'[L][1] = node
    BY <1>1
  <2>2. \A i \in 1 .. L : i \in 1 .. L - 1 \/ i = L
    <3>1. L \in Nat \ {0}
      BY <1>1
    <3> HIDE DEF L
    <3> QED
      BY <3>1
  <2> QED
    BY <1>1, <2>1, <2>2
<1>6. M # L => path'[M][1] = to /\ path'[M][2] = 1 /\ M = L + 1 /\ to \notin visited
  <2> SUFFICES ASSUME M # L PROVE path'[M][1] = to /\ path'[M][2] = 1 /\ M = L + 1 /\ to \notin visited
    OBVIOUS
  <2>1. M = L + 1 /\ to \notin visited
    BY <1>4
  <2>2. path'[L + 1] = <<to, 1>>
    BY <1>1, <2>1, Zenon
  <2>3. <<to, 1>>[1] = to /\ <<to, 1>>[2] = 1
    OBVIOUS
  <2> HIDE DEF L, M
  <2>4. path'[M] = <<to, 1>>
    BY <2>1, <2>2, Zenon
  <2> QED
    BY <2>1, <2>3, <2>4, Zenon
<1> HIDE DEF M, L
<1>7. \A i \in 1 .. M : i \in 1 .. L \/ (i = M /\ M # L)
  BY <1>1, <1>4
<1>8. 1 .. L \subseteq 1 .. M /\ M \in 1 .. M
  BY <1>1, <1>4
<1>9. DOMAIN path = 1 .. L /\ DOMAIN path' = 1 .. M
  BY <1>1 DEF L, M
<1>10. \A i \in 1 .. L : path[i][1] \in OnPath
  BY <1>9 DEF OnPath
<1>11. OnPath \subseteq visited /\ ToSet(order) \subseteq visited /\ visited = OnPath \cup ToSet(order)
       /\ OnPath \cap ToSet(order) = {}
  BY DEF Search, Split
<1>12. OnPath' = OnPath \cup (IF M = L THEN {} ELSE {to})
  <2>1. OnPath' = {path'[i][1] : i \in 1 .. M} /\ OnPath = {path[i][1] : i \in 1 .. L}
    BY <1>9 DEF OnPath
  <2>2. \A x \in OnPath' : x \in OnPath \/ (M # L /\ x = to)
    BY <1>5, <1>6, <1>7, <2>1
  <2>3. \A x \in OnPath : x \in OnPath'
    BY <1>5, <1>8, <2>1
  <2>4. M # L => to \in OnPath'
    BY <1>6, <1>8, <2>1
  <2> QED
    BY <2>2, <2>3, <2>4
<1>13. \A k : Succs(k)' = Succs(k)
  BY <1>2 DEF Succs
<1>14. Stacked'
  <2>1. ASSUME NEW i \in 1 .. M, NEW j \in 1 .. M, path'[i][1] = path'[j][1] PROVE i = j
    <3>1. CASE i \in 1 .. L /\ j \in 1 .. L
      BY <1>3, <1>5, <1>9, <2>1, <3>1
    <3>2. CASE i \in 1 .. L /\ j = M /\ M # L
      BY <1>5, <1>6, <1>10, <1>11, <2>1, <3>2
    <3>3. CASE j \in 1 .. L /\ i = M /\ M # L
      BY <1>5, <1>6, <1>10, <1>11, <2>1, <3>3
    <3> QED
      BY <1>7, <3>1, <3>2, <3>3
  <2>2. path'[1][1] = 1
    <3>1. 1 \in 1 .. L /\ path # <<>>
      BY <1>1 DEF L
    <3> QED
      BY <1>3, <1>5, <3>1
  <2>3. ASSUME NEW i \in 2 .. M PROVE path'[i][1] \in ToSet(Succs(path'[i - 1][1]))
    <3>1. CASE i \in 1 .. L
      <4>1. i \in 2 .. L /\ i - 1 \in 1 .. L
        BY <1>1, <3>1
      <4>2. path[i][1] \in ToSet(Succs(path[i - 1][1]))
        BY <1>3, <4>1 DEF L
      <4> QED
        BY <1>5, <4>1, <4>2
    <3>2. CASE i = M /\ M # L
      <4>1. i - 1 = L /\ path'[i][1] = to
        BY <1>1, <1>6, <3>2
      <4>2. path'[L][1] = node
        BY <1>1
      <4> QED
        BY <1>1, <4>1, <4>2
    <3>3. i \in 1 .. M
      BY <1>4
    <3> QED
      BY <1>7, <3>1, <3>2, <3>3
  <2>4. path' \in Seq((DOMAIN blocks') \X (Nat \ {0}))
    BY <1>1, <1>2
  <2>5. \A i \in 2 .. Len(path') : path'[i][1] \in ToSet(Succs(path'[i - 1][1]))
    BY <2>3 DEF M
  <2>6. \A i, j \in DOMAIN path' : path'[i][1] = path'[j][1] => i = j
    BY <1>9, <2>1
  <2>7. (\A i \in 2 .. Len(path) : path[i][1] \in ToSet(Succs(path[i - 1][1])))'
    BY <1>2, <2>5 DEF Succs
  <2> QED
    BY <2>2, <2>4, <2>6, <2>7 DEF Stacked
<1>15. node \in OnPath
  <2>1. L \in 1 .. L /\ path[L][1] = node
    BY <1>1
  <2> QED
    BY <1>10, <2>1
<1>16. Split'
  <2>1. Placed'
    BY <1>2 DEF Search, Split, Placed
  <2>2. visited' = OnPath' \cup ToSet(order')
    BY <1>1, <1>2, <1>4, <1>11, <1>12
  <2>3. OnPath' \cap ToSet(order') = {}
    BY <1>2, <1>6, <1>11, <1>12
  <2>4. path' # <<>>
    BY <1>1
  <2>5. ASSUME NEW S \in SUBSET DOMAIN blocks, 1 \in S, \A j \in S : ToSet(Succs(j)) \subseteq S
        PROVE  visited' \subseteq S
    <3>1. visited \subseteq S
      BY <2>5 DEF Search, Split
    <3>2. to \in S
      BY <1>1, <1>11, <1>15, <2>5, <3>1
    <3> QED
      BY <1>1, <3>1, <3>2
  <2>6. \A S \in SUBSET DOMAIN blocks' :
          1 \in S /\ (\A j \in S : ToSet(Succs(j)') \subseteq S) => visited' \subseteq S
    BY <1>2, <1>13, <2>5
  <2> QED
    BY <2>1, <2>2, <2>3, <2>4, <2>6 DEF Split
<1>17. Looked'
  <2>1. \A k \in ToSet(order) : ToSet(Succs(k)) \subseteq visited'
    BY <1>1 DEF Search, Looked
  <2>2. ASSUME NEW i \in 1 .. M, NEW m \in DOMAIN Succs(path'[i][1]), m < path'[i][2]
        PROVE  Succs(path'[i][1])[m] \in visited'
    <3>1. CASE i \in 1 .. L - 1
      <4>1. path'[i] = path[i] /\ i \in DOMAIN path
        BY <1>1, <1>9, <3>1
      <4>2. Succs(path[i][1])[m] \in visited
        BY <2>2, <4>1 DEF Search, Looked
      <4> QED
        BY <1>1, <4>1, <4>2
    <3>2. CASE i = L
      <4>1. path'[i][1] = node /\ path'[i][2] = n + 1 /\ path[i][1] = node /\ path[i][2] = n /\ i \in DOMAIN path
        BY <1>1, <1>9, <3>2
      <4>2. m \in DOMAIN Succs(node) /\ m < n + 1
        BY <2>2, <4>1
      <4>3. Succs(node) \in Seq(DOMAIN blocks)
        BY DEF Links
      <4>4. m < n \/ m = n
        BY <4>2, <4>3
      <4>5. m < n => Succs(node)[m] \in visited
        BY <4>1, <4>2 DEF Search, Looked
      <4> QED
        BY <1>1, <4>1, <4>4, <4>5
    <3>3. CASE i = M /\ M # L
      <4>1. path'[i][2] = 1 /\ path'[i][1] = to
        BY <1>6, <3>3
      <4>2. Succs(to) \in Seq(DOMAIN blocks)
        BY DEF Links
      <4>3. ~(m < 1)
        BY <2>2, <4>1, <4>2
      <4> QED
        BY <2>2, <4>1, <4>3
    <3>4. i \in 1 .. L => i \in 1 .. L - 1 \/ i = L
      BY <1>1
    <3> QED
      BY <1>7, <3>1, <3>2, <3>3, <3>4
  <2> QED
    BY <1>2, <1>9, <1>13, <2>1, <2>2 DEF Looked
<1>18. Parented'
  BY <1>2, <1>12, <1>13 DEF Search, Parented
<1> QED
  BY <1>14, <1>16, <1>17, <1>18 DEF Search

LEMMA Prepending ==
    ASSUME NEW A, NEW s \in Seq(A), NEW e \in A
    PROVE  /\ <<e>> \o s \in Seq(A) /\ Len(<<e>> \o s) = Len(s) + 1 /\ DOMAIN (<<e>> \o s) = 1 .. Len(s) + 1
           /\ (<<e>> \o s)[1] = e
           /\ \A i \in 1 .. Len(s) : (<<e>> \o s)[i + 1] = s[i]
           /\ ToSet(<<e>> \o s) = {e} \cup ToSet(s)
<1> DEFINE u == <<e>> \o s
<1>1. /\ u \in Seq(A) /\ Len(u) = Len(s) + 1 /\ DOMAIN u = 1 .. Len(s) + 1 /\ Len(s) \in Nat
      /\ u[1] = e /\ \A i \in 1 .. Len(s) : u[i + 1] = s[i]
  OBVIOUS
<1> HIDE DEF u
<1>2. \A i \in 1 .. Len(s) + 1 : i = 1 \/ (i - 1 \in 1 .. Len(s) /\ u[i] = s[i - 1])
  <2> SUFFICES ASSUME NEW i \in 1 .. Len(s) + 1, i # 1 PROVE i - 1 \in 1 .. Len(s) /\ u[i] = s[i - 1]
    OBVIOUS
  <2>1. i - 1 \in 1 .. Len(s) /\ (i - 1) + 1 = i
    BY <1>1
  <2>2. u[(i - 1) + 1] = s[i - 1]
    BY <1>1, <2>1
  <2> QED
    BY <2>1, <2>2
<1>3. ToSet(u) \subseteq {e} \cup ToSet(s)
  <2> SUFFICES ASSUME NEW i \in 1 .. Len(s) + 1 PROVE u[i] \in {e} \cup ToSet(s)
    BY <1>1 DEF ToSet
  <2>1. \A j \in 1 .. Len(s) : s[j] \in ToSet(s)
    BY DEF ToSet
  <2> QED
    BY <1>1, <1>2, <2>1
<1>4. {e} \cup ToSet(s) \subseteq ToSet(u)
  <2>1. \A j \in DOMAIN u : u[j] \in ToSet(u)
    BY DEF ToSet
  <2>2. 1 \in DOMAIN u /\ \A j \in 1 .. Len(s) : j + 1 \in DOMAIN u
    BY <1>1
  <2>3. \A x \in ToSet(s) : \E j \in 1 .. Len(s) : x = s[j]
    BY DEF ToSet
  <2> QED
    BY <1>1, <2>1, <2>2, <2>3
<1>5. ToSet(u) = {e} \cup ToSet(s)
  BY <1>3, <1>4
<1> QED
  BY <1>1, <1>5 DEF u

LEMMA LeaveSearch ==
    ASSUME Links, Search, Leave
    PROVE  Search'
<1> DEFINE L == Len(path)
           A == (DOMAIN blocks) \X (Nat \ {0})
           node == Last(path)[1]
           K == Len(order)
<1>1. /\ path # <<>> /\ Last(path)[2] > Len(Succs(node)) /\ path' = Front(path) /\ order' = <<node>> \o order
      /\ blocks' = blocks /\ visited' = visited /\ path \in Seq(A)
  BY DEF Leave, builder, Search, Stacked
<1>2. /\ L \in Nat \ {0} /\ DOMAIN path = 1 .. L /\ Last(path) = path[L] /\ Last(path) \in A
      /\ path' \in Seq(A) /\ Len(path') = L - 1 /\ DOMAIN path' = 1 .. L - 1
      /\ \A i \in 1 .. L - 1 : path'[i] = path[i]
  <2> HIDE DEF A
  <2> QED
    BY <1>1, TopOfStack
<1>3. node = path[L][1] /\ node \in DOMAIN blocks /\ path[L][2] > Len(Succs(node)) /\ path[L][2] \in Nat
  BY <1>1, <1>2
<1>4. /\ (path # <<>> => path[1][1] = 1)
      /\ \A i, j \in 1 .. L : path[i][1] = path[j][1] => i = j
      /\ \A i \in 2 .. L : path[i][1] \in ToSet(Succs(path[i - 1][1]))
  BY <1>2 DEF Search, Stacked
<1>5. /\ order \in Seq(DOMAIN blocks) /\ K \in Nat /\ DOMAIN order = 1 .. K
      /\ \A i, j \in 1 .. K : order[i] = order[j] => i = j
      /\ visited = OnPath \cup ToSet(order) /\ OnPath \cap ToSet(order) = {}
  BY DEF Search, Split, Placed
<1>6. /\ order' \in Seq(DOMAIN blocks) /\ DOMAIN order' = 1 .. K + 1 /\ order'[1] = node
      /\ \A i \in 1 .. K : order'[i + 1] = order[i]
      /\ ToSet(order') = {node} \cup ToSet(order)
  <2> HIDE DEF node
  <2> QED
    BY <1>1, <1>3, <1>5, Prepending
<1> HIDE DEF node, L, A, K
<1>7. \A i \in 1 .. L : i \in 1 .. L - 1 \/ i = L
  BY <1>2
<1>8. 1 .. L - 1 \subseteq 1 .. L /\ L \in 1 .. L /\ L \notin 1 .. L - 1
  BY <1>2
<1>9. OnPath = {path[i][1] : i \in 1 .. L} /\ OnPath' = {path'[i][1] : i \in 1 .. L - 1}
  BY <1>2 DEF OnPath
<1>10. OnPath = OnPath' \cup {node} /\ node \notin OnPath'
  <2>1. \A x \in OnPath : x \in OnPath' \/ x = node
    BY <1>2, <1>3, <1>7, <1>9
  <2>2. \A x \in OnPath' : x \in OnPath
    BY <1>2, <1>8, <1>9
  <2>3. node \in OnPath
    BY <1>3, <1>8, <1>9
  <2>4. node \notin OnPath'
    <3> SUFFICES ASSUME NEW i \in 1 .. L - 1, path'[i][1] = node PROVE FALSE
      BY <1>9
    <3>1. path[i][1] = path[L][1] /\ i \in 1 .. L
      BY <1>2, <1>3, <1>8
    <3> QED
      BY <1>4, <1>8, <3>1
  <2> QED
    BY <2>1, <2>2, <2>3, <2>4
<1>11. \A k : Succs(k)' = Succs(k)
  BY <1>1 DEF Succs
<1>12. path'= <<>> <=> L = 1
  BY <1>2
<1>13. Stacked'
  <2>1. path' \in Seq((DOMAIN blocks') \X (Nat \ {0}))
    BY <1>1, <1>2 DEF A
  <2>2. \A i, j \in DOMAIN path' : path'[i][1] = path'[j][1] => i = j
    BY <1>2, <1>4, <1>8
  <2>3. path' # <<>> => path'[1][1] = 1
    <3>1. path' # <<>> => 1 \in 1 .. L - 1
      BY <1>2, <1>12
    <3> QED
      BY <1>1, <1>2, <1>4, <3>1
  <2>4. \A i \in 2 .. Len(path') : path'[i][1] \in ToSet(Succs(path'[i - 1][1]))
    <3> SUFFICES ASSUME NEW i \in 2 .. L - 1 PROVE path'[i][1] \in ToSet(Succs(path'[i - 1][1]))
      BY <1>2
    <3>1. i \in 2 .. L /\ i \in 1 .. L - 1 /\ i - 1 \in 1 .. L - 1
      BY <1>2
    <3> QED
      BY <1>2, <1>4, <3>1
  <2>5. (\A i \in 2 .. Len(path) : path[i][1] \in ToSet(Succs(path[i - 1][1])))'
    BY <1>1, <2>4 DEF Succs
  <2> QED
    BY <2>1, <2>2, <2>3, <2>5 DEF Stacked
<1>14. node \notin ToSet(order)
  BY <1>5, <1>10
<1>15. \A i \in 1 .. K + 1 : i = 1 \/ (i - 1 \in 1 .. K /\ order'[i] = order[i - 1])
  <2> SUFFICES ASSUME NEW i \in 1 .. K + 1, i # 1 PROVE i - 1 \in 1 .. K /\ order'[i] = order[i - 1]
    OBVIOUS
  <2>1. i - 1 \in 1 .. K /\ (i - 1) + 1 = i
    BY <1>5
  <2>2. order'[(i - 1) + 1] = order[i - 1]
    BY <1>6, <2>1
  <2> QED
    BY <2>1, <2>2
<1>16. Split'
  <2>1. Placed'
    <3> SUFFICES ASSUME NEW i \in 1 .. K + 1, NEW j \in 1 .. K + 1, order'[i] = order'[j] PROVE i = j
      BY <1>1, <1>6 DEF Placed
    <3>1. \A m \in 1 .. K : order[m] # node
      BY <1>5, <1>14 DEF ToSet
    <3> QED
      BY <1>5, <1>6, <1>15, <3>1
  <2>2. visited' = OnPath' \cup ToSet(order')
    BY <1>1, <1>5, <1>6, <1>10
  <2>3. OnPath' \cap ToSet(order') = {}
    BY <1>5, <1>6, <1>10
  <2>4. path' = <<>> => EntryFirst'
    <3> SUFFICES ASSUME L = 1 PROVE EntryFirst'
      BY <1>12
    <3>1. order'[1] = 1
      BY <1>1, <1>3, <1>4, <1>6
    <3>2. order' # <<>>
      <4>1. 1 \in DOMAIN order'
        BY <1>5, <1>6
      <4> QED
        BY <4>1
    <3> QED
      BY <3>1, <3>2 DEF EntryFirst
  <2>5. \A S \in SUBSET DOMAIN blocks' :
          1 \in S /\ (\A j \in S : ToSet(Succs(j)') \subseteq S) => visited' \subseteq S
    BY <1>1, <1>11 DEF Search, Split
  <2> QED
    BY <2>1, <2>2, <2>3, <2>4, <2>5 DEF Split
<1>17. Looked'
  <2>1. ToSet(Succs(node)) \subseteq visited
    <3> SUFFICES ASSUME NEW m \in DOMAIN Succs(node) PROVE Succs(node)[m] \in visited
      BY DEF ToSet
    <3>1. Succs(node) \in Seq(DOMAIN blocks)
      BY <1>3 DEF Links
    <3>2. m < path[L][2]
      BY <1>3, <3>1
    <3>3. L \in DOMAIN path /\ m \in DOMAIN Succs(path[L][1])
      BY <1>2, <1>3, <1>8
    <3> QED
      BY <1>3, <3>2, <3>3 DEF Search, Looked
  <2>2. \A k \in ToSet(order') : ToSet(Succs(k)) \subseteq visited
    BY <1>6, <2>1 DEF Search, Looked
  <2>3. \A i \in 1 .. L - 1 : \A m \in DOMAIN Succs(path'[i][1]) : m < path'[i][2] => Succs(path'[i][1])[m] \in visited
    BY <1>2, <1>8 DEF Search, Looked
  <2> QED
    BY <1>1, <1>2, <1>11, <2>2, <2>3 DEF Looked
<1>18. Parented'
  <2> SUFFICES ASSUME NEW j \in 1 .. K + 1
               PROVE  \/ order'[j] = 1
                      \/ \E p \in OnPath' : order'[j] \in ToSet(Succs(p))
                      \/ \E i \in 1 .. j - 1 : order'[j] \in ToSet(Succs(order'[i]))
    BY <1>6, <1>11 DEF Parented
  <2>1. CASE j = 1 /\ L = 1
    BY <1>1, <1>3, <1>4, <1>6, <2>1
  <2>2. CASE j = 1 /\ L # 1
    <3>1. L \in 2 .. L /\ L - 1 \in 1 .. L - 1
      BY <1>2, <2>2
    <3>2. node \in ToSet(Succs(path[L - 1][1])) /\ path[L - 1][1] \in OnPath'
      BY <1>2, <1>3, <1>4, <1>9, <3>1
    <3> QED
      BY <1>6, <2>2, <3>2
  <2>3. CASE j # 1
    <3>1. j - 1 \in 1 .. K /\ order'[j] = order[j - 1]
      BY <1>15, <2>3
    <3>2. \/ order[j - 1] = 1
          \/ \E p \in OnPath : order[j - 1] \in ToSet(Succs(p))
          \/ \E i \in 1 .. (j - 1) - 1 : order[j - 1] \in ToSet(Succs(order[i]))
      BY <1>5, <3>1 DEF Search, Parented
    <3>3. ASSUME NEW p \in OnPath, order[j - 1] \in ToSet(Succs(p))
          PROVE  \/ \E q \in OnPath' : order'[j] \in ToSet(Succs(q))
                 \/ \E i \in 1 .. j - 1 : order'[j] \in ToSet(Succs(order'[i]))
      <4>1. CASE p = node
        <5>1. 1 \in 1 .. j - 1
          BY <1>5, <2>3
        <5> QED
          BY <1>6, <3>1, <3>3, <4>1, <5>1
      <4>2. CASE p \in OnPath'
        BY <3>1, <3>3, <4>2
      <4> QED
        BY <1>10, <4>1, <4>2
    <3>4. ASSUME NEW i \in 1 .. (j - 1) - 1, order[j - 1] \in ToSet(Succs(order[i]))
          PROVE  \E m \in 1 .. j - 1 : order'[j] \in ToSet(Succs(order'[m]))
      <4>1. i + 1 \in 1 .. j - 1 /\ i \in 1 .. K
        BY <1>5
      <4>2. order'[i + 1] = order[i]
        BY <1>6, <4>1
      <4> QED
        BY <3>1, <3>4, <4>1, <4>2
    <3> QED
      BY <3>1, <3>2, <3>3, <3>4
  <2> QED
    BY <2>1, <2>2, <2>3
<1> QED
  BY <1>13, <1>16, <1>17, <1>18 DEF Search

-----------------------------------------------------------------------------
(***************************************************************************)
(* The sweeps                                                              *)
(***************************************************************************)
(* The blocks looked at have a dominator, and unless something changed it is
   what their predecessors give now. *)
Sweeping ==
    /\ pos \in Nat \ {0}
    /\ Climbs(idom)
    /\ \A i \in DOMAIN order : i < pos => order[i] \in DOMAIN idom
    /\ ~changed => \A i \in DOMAIN order : i < pos /\ order[i] # 1 => idom[order[i]] = NewIdom(idom, order[i])

LEMMA StartSweeps ==
    ASSUME Search, path = <<>>, idom = << 1 >>, pos = 1
    PROVE  Sweeping
<1>1. Placed /\ EntryFirst
  BY DEF Search, Split
<1>2. DOMAIN idom = {1} /\ idom[1] = 1
  OBVIOUS
<1>3. 1 \in ToSet(order)
  <2>1. 1 \in DOMAIN order
    BY <1>1 DEF EntryFirst, Placed
  <2> QED
    BY <1>1, <2>1 DEF ToSet, EntryFirst
<1>4. Climbs(idom)
  BY <1>2, <1>3 DEF Climbs
<1>5. \A i \in DOMAIN order : ~(i < pos)
  BY <1>1, Ranks
<1> QED
  BY <1>4, <1>5 DEF Sweeping

LEMMA RefineSweeping ==
    ASSUME Links, Search, path = <<>>, Ample, Sweeping, Refine
    PROVE  Sweeping'
<1> DEFINE k == order[pos]
           x == NewIdom(idom, k)
<1>1. /\ pos <= Len(order) /\ pos' = pos + 1 /\ order' = order /\ blocks' = blocks
      /\ k = 1 \/ x = 0 => idom' = idom /\ changed' = changed
      /\ ~(k = 1 \/ x = 0) => /\ idom' = [b \in DOMAIN idom \cup {k} |-> IF b = k THEN x ELSE idom[b]]
                              /\ changed' = (changed \/ idom' # idom)
  BY DEF Refine, builder
<1>2. /\ Placed /\ EntryFirst /\ pos \in Nat \ {0} /\ Climbs(idom)
      /\ (\A i \in DOMAIN order : i < pos => order[i] \in DOMAIN idom)
      /\ ~changed => \A i \in DOMAIN order : i < pos /\ order[i] # 1 => idom[order[i]] = NewIdom(idom, order[i])
  BY DEF Search, Split, Sweeping
<1>3. /\ Len(order) \in Nat /\ DOMAIN order = 1 .. Len(order) /\ pos \in DOMAIN order
      /\ k \in ToSet(order) /\ Rank(k) = pos /\ k \in DOMAIN blocks
      /\ \A i \in DOMAIN order : Rank(order[i]) = i
      /\ \A c \in ToSet(order) : Rank(c) \in 1 .. Len(order) /\ order[Rank(c)] = c
  <2>1. pos \in 1 .. Len(order)
    BY <1>1, <1>2, Ranks
  <2> QED
    BY <1>2, <2>1, Ranks
<1>4. 2 * Len(order) <= Limit /\ blocks[k].pred \in Seq(DOMAIN blocks) /\ DOMAIN blocks = 1 .. Len(blocks)
      /\ Preds(k) = {j \in DOMAIN blocks : k \in ToSet(Succs(j))}
  <2>1. Len(order) <= Len(blocks) /\ Len(blocks) \in Nat
    BY <1>2, Fits DEF Links
  <2>2. 2 * Len(blocks) <= Limit /\ Limit \in Nat
    BY LimitAssumption DEF Ample
  <2> QED
    BY <1>3, <2>1, <2>2 DEF Links
<1>5. /\ MapsInto(idom)
      /\ \A b \in DOMAIN idom : Dominators(idom, b) \subseteq {a \in DOMAIN idom : Rank(a) <= Rank(b)}
  BY <1>2, Climbing
<1>6. \A p \in Preds(k) \cap DOMAIN idom : x \in Dominators(idom, p)
  BY <1>2, <1>3, <1>4, NewIdomMeets
<1>7. ASSUME k # 1 PROVE x \in DOMAIN idom /\ Rank(x) < pos /\ x # 0
  <2>1. OnPath = {}
    BY DEF OnPath
  <2>2. PICK i \in 1 .. pos - 1 : k \in ToSet(Succs(order[i]))
    BY <1>3, <1>7, <2>1 DEF Search, Parented
  <2>3. i \in DOMAIN order /\ i < pos
    BY <1>2, <1>3
  <2>4. order[i] \in DOMAIN idom /\ Rank(order[i]) = i /\ order[i] \in DOMAIN blocks
    BY <1>2, <1>3, <1>5, <2>3 DEF MapsInto
  <2>5. x \in Dominators(idom, order[i])
    BY <1>4, <1>6, <2>2, <2>4
  <2>6. x \in DOMAIN idom /\ Rank(x) <= i
    BY <1>5, <2>4, <2>5
  <2>7. Rank(x) \in 1 .. Len(order) /\ x \in DOMAIN blocks
    BY <1>2, <1>3, <1>5, <2>6 DEF Climbs, MapsInto
  <2>8. x # 0
    BY <1>4, <2>7
  <2> HIDE DEF x
  <2>9. Rank(x) < pos
    BY <1>2, <1>3, <2>3, <2>6, <2>7
  <2> QED
    BY <2>6, <2>8, <2>9
<1> HIDE DEF k, x
<1>8. CASE k = 1
  <2>1. idom' = idom /\ changed' = changed
    BY <1>1, <1>8
  <2>2. \A i \in DOMAIN order : i < pos' => i < pos \/ i = pos
    BY <1>1, <1>2, <1>3
  <2>3. \A i \in DOMAIN order : i < pos' => order[i] \in DOMAIN idom
    BY <1>2, <1>8, <2>2 DEF k, Climbs
  <2>4. ~changed => \A i \in DOMAIN order : i < pos' /\ order[i] # 1 => idom[order[i]] = NewIdom(idom, order[i])
    BY <1>2, <1>8, <2>2 DEF k
  <2>5. pos' \in Nat \ {0}
    BY <1>1, <1>2
  <2>6. Climbs(idom)'
    BY <1>1, <1>2, <2>1 DEF Climbs, Rank
  <2>7. \A c : NewIdom(idom, c)' = NewIdom(idom, c)
    BY <1>1, <2>1 DEF NewIdom, Meet, Intersect, Climb, Rank
  <2> QED
    BY <1>1, <2>1, <2>3, <2>4, <2>5, <2>6, <2>7 DEF Sweeping
<1>9. CASE k # 1
  <2>1. /\ idom' = [b \in DOMAIN idom \cup {k} |-> IF b = k THEN x ELSE idom[b]]
        /\ changed' = (changed \/ idom' # idom)
        /\ x \in DOMAIN idom /\ Rank(x) < pos
    BY <1>1, <1>7, <1>9
  <2>2. \A i \in DOMAIN order : i < pos' => i < pos \/ i = pos
    BY <1>1, <1>2, <1>3
  <2>3. DOMAIN idom' = DOMAIN idom \cup {k} /\ idom'[k] = x /\ \A b \in DOMAIN idom : b # k => idom'[b] = idom[b]
    BY <2>1
  <2>4. \A i \in DOMAIN order : i < pos' => order[i] \in DOMAIN idom'
    BY <1>2, <2>2, <2>3 DEF k
  <2>5. Climbs(idom')
    <3>1. 1 \in DOMAIN idom' /\ idom'[1] = 1 /\ DOMAIN idom' \subseteq ToSet(order)
      BY <1>2, <1>3, <1>9, <2>3 DEF Climbs
    <3>2. \A b \in DOMAIN idom' : idom'[b] \in DOMAIN idom'
      BY <1>2, <2>1, <2>3 DEF Climbs
    <3>3. \A b \in DOMAIN idom' \ {1} : Rank(idom'[b]) < Rank(b)
      BY <1>2, <1>3, <2>1, <2>3 DEF Climbs
    <3> QED
      BY <3>1, <3>2, <3>3 DEF Climbs
  <2>6. ASSUME ~changed'
        PROVE  /\ idom' = idom
               /\ \A i \in DOMAIN order : i < pos' /\ order[i] # 1 => idom[order[i]] = NewIdom(idom, order[i])
    <3>1. ~changed /\ idom' = idom
      BY <2>1, <2>6
    <3>2. idom[k] = x
      BY <2>3, <3>1
    <3> QED
      BY <1>2, <2>2, <3>1, <3>2 DEF k, x
  <2>7. pos' \in Nat \ {0}
    BY <1>1, <1>2
  <2>8. Climbs(idom)'
    BY <1>1, <2>5 DEF Climbs, Rank
  <2>9. idom' = idom => \A c : NewIdom(idom, c)' = NewIdom(idom, c)
    BY <1>1 DEF NewIdom, Meet, Intersect, Climb, Rank
  <2>10. (~changed => \A i \in DOMAIN order : i < pos /\ order[i] # 1 => idom[order[i]] = NewIdom(idom, order[i]))'
    BY <1>1, <2>6, <2>9
  <2> QED
    BY <1>1, <2>4, <2>7, <2>8, <2>10 DEF Sweeping
<1> QED
  BY <1>8, <1>9

-----------------------------------------------------------------------------
(***************************************************************************)
(* The invariant of the dominator tree                                     *)
(***************************************************************************)
Found == {[header |-> e[2], tail |-> e[1], blocks |-> LoopBlocks(e[1], e[2])] : e \in BackEdges}

Linked == stage = "graph" => Links

TreeInv ==
    /\ phase \in {"idle", "order", "dominators", "loops"}
    /\ phase = "idle" => order = <<>>
    /\ phase # "idle" => stage = "graph" /\ Search
    /\ phase # "order" => path = <<>>
    /\ phase \in {"idle", "order"} => pos = 1 /\ ~changed
    /\ phase = "order" => idom = << 1 >>
    /\ phase \in {"dominators", "loops"} /\ Ample => Sweeping
    /\ phase = "loops" => pos > Len(order) /\ ~changed
    /\ loops = IF phase = "loops" THEN Found ELSE {}

LEMMA SameSearch ==
    ASSUME Search, blocks' = blocks, path' = path, visited' = visited, order' = order
    PROVE  Search'
<1>1. Stacked'
  BY DEF Search, Stacked, Succs
<1>5. OnPath' = OnPath /\ \A k : Succs(k)' = Succs(k)
  BY DEF OnPath, Succs
<1>2. Split'
  <2>1. Placed' /\ (path = <<>> => EntryFirst')
    BY DEF Search, Split, Placed, EntryFirst
  <2>2. \A S \in SUBSET DOMAIN blocks : (\A j \in S : ToSet(Succs(j))' \subseteq S) => \A j \in S : ToSet(Succs(j)) \subseteq S
    BY <1>5 DEF ToSet
  <2>3. \A S \in SUBSET DOMAIN blocks :
          1 \in S /\ (\A j \in S : ToSet(Succs(j))' \subseteq S) => visited \subseteq S
    BY <2>2 DEF Search, Split
  <2> QED
    BY <1>5, <2>1, <2>3 DEF Search, Split
<1>3. Looked'
  BY DEF Search, Looked, Succs
<1>4. Parented'
  <2>2. Parented
    BY DEF Search
  <2> QED
    BY <1>5, <2>2 DEF Parented
<1> QED
  BY <1>1, <1>2, <1>3, <1>4 DEF Search

LEMMA SameTree ==
    ASSUME blocks' = blocks, order' = order, idom' = idom
    PROVE  Climbs(idom)' = Climbs(idom) /\ \A c : NewIdom(idom, c)' = NewIdom(idom, c)
<1>1. Climbs(idom)' = Climbs(idom)
  BY DEF Climbs, Rank
<1>2. \A c : NewIdom(idom, c)' = NewIdom(idom, c)
  BY DEF NewIdom, Meet, Intersect, Climb, Rank
<1> QED
  BY <1>1, <1>2

LEMMA TreeInit == LoopsInit => TreeInv
BY DEF LoopsInit, TreeInv

LEMMA TreeNext ==
    ASSUME TreeInv, Linked, [Next]_vars
    PROVE  TreeInv'
<1>1. CASE Construct \/ UNCHANGED vars
  <2>1. /\ phase' = phase /\ path' = path /\ visited' = visited /\ order' = order /\ idom' = idom
        /\ pos' = pos /\ changed' = changed /\ loops' = loops
    BY <1>1 DEF Construct, vars, tree
  <2>2. CASE phase = "idle"
    BY <2>1, <2>2 DEF TreeInv
  <2>3. CASE phase # "idle"
    <3>1. stage = "graph" /\ Search
      BY <2>3 DEF TreeInv
    <3>2. blocks' = blocks /\ stage' = stage
      BY <1>1, <3>1 DEF Construct, Build, Pop, Descend, Linear, Break, Sort, BuildBlocks, ConnectEdges, vars, builder
    <3>3. Search'
      BY <2>1, <3>1, <3>2, SameSearch
    <3>4. Ample' = Ample /\ Found' = Found
      BY <2>1, <3>2 DEF Ample, Found, BackEdges, LoopBlocks, Dominators, Preds, Succs
    <3>5. Sweeping => Sweeping'
      BY <2>1, <3>2, SameTree DEF Sweeping
    <3> QED
      BY <2>1, <3>1, <3>2, <3>3, <3>4, <3>5 DEF TreeInv
  <2> QED
    BY <2>2, <2>3
<1>2. CASE Begin
  <2>1. /\ phase = "idle" /\ stage = "graph" /\ phase' = "order" /\ idom' = << 1 >> /\ stage' = stage
        /\ pos' = pos /\ changed' = changed /\ loops' = loops
    BY <1>2 DEF Begin, builder
  <2>2. Search'
    BY <1>2, <2>1, BeginSearch DEF TreeInv, Linked
  <2> QED
    BY <2>1, <2>2 DEF TreeInv
<1>3. CASE Walk \/ Leave
  <2>1. /\ phase = "order" /\ phase' = phase /\ stage' = stage /\ idom' = idom
        /\ pos' = pos /\ changed' = changed /\ loops' = loops
    BY <1>3 DEF Walk, Leave, builder
  <2>2. Search'
    BY <1>3, <2>1, WalkSearch, LeaveSearch DEF TreeInv, Linked
  <2> QED
    BY <2>1, <2>2 DEF TreeInv
<1>4. CASE Ordering
  <2>1. /\ phase = "order" /\ phase' = "dominators" /\ path = <<>> /\ stage' = stage /\ blocks' = blocks
        /\ path' = path /\ visited' = visited /\ order' = order /\ idom' = idom
        /\ pos' = pos /\ changed' = changed /\ loops' = loops
    BY <1>4 DEF Ordering, builder
  <2>2. stage = "graph" /\ Search /\ Sweeping
    BY <2>1, StartSweeps DEF TreeInv
  <2>3. Search'
    BY <2>1, <2>2, SameSearch
  <2>4. Sweeping'
    BY <2>1, <2>2, SameTree DEF Sweeping
  <2> QED
    BY <2>1, <2>2, <2>3, <2>4 DEF TreeInv
<1>5. CASE Refine
  <2>1. /\ phase = "dominators" /\ phase' = phase /\ path' = path /\ stage' = stage /\ blocks' = blocks
        /\ visited' = visited /\ order' = order /\ loops' = loops
    BY <1>5 DEF Refine, builder
  <2>2. stage = "graph" /\ Search /\ path = <<>> /\ Links
    BY <2>1 DEF TreeInv, Linked
  <2>3. Search'
    BY <2>1, <2>2, SameSearch
  <2>4. Ample => Sweeping'
    BY <1>5, <2>1, <2>2, RefineSweeping DEF TreeInv
  <2>5. Ample' = Ample
    BY <2>1 DEF Ample
  <2> QED
    BY <2>1, <2>2, <2>3, <2>4, <2>5 DEF TreeInv
<1>6. CASE Again
  <2>1. /\ phase = "dominators" /\ phase' = phase /\ path' = path /\ stage' = stage /\ blocks' = blocks
        /\ visited' = visited /\ order' = order /\ idom' = idom /\ loops' = loops
        /\ pos' = 1 /\ changed' = FALSE
    BY <1>6 DEF Again, builder
  <2>2. stage = "graph" /\ Search /\ path = <<>>
    BY <2>1 DEF TreeInv
  <2>3. Search'
    BY <2>1, <2>2, SameSearch
  <2>4. \A i \in DOMAIN order : ~(i < 1)
    BY <2>2, Ranks DEF Search, Split
  <2>5. Ample => Sweeping'
    <3> SUFFICES ASSUME Sweeping PROVE Sweeping'
      BY <2>1 DEF TreeInv
    <3>1. Climbs(idom)'
      BY <2>1, SameTree DEF Sweeping
    <3> QED
      BY <2>1, <2>4, <3>1 DEF Sweeping
  <2>6. Ample' = Ample
    BY <2>1 DEF Ample
  <2> QED
    BY <2>1, <2>2, <2>3, <2>5, <2>6 DEF TreeInv
<1>7. CASE DetectLoops
  <2>1. /\ phase = "dominators" /\ phase' = "loops" /\ path' = path /\ stage' = stage /\ blocks' = blocks
        /\ visited' = visited /\ order' = order /\ idom' = idom /\ pos' = pos /\ changed' = changed
        /\ loops' = Found /\ pos > Len(order) /\ ~changed
    BY <1>7 DEF DetectLoops, builder, Found
  <2>2. stage = "graph" /\ Search /\ path = <<>>
    BY <2>1 DEF TreeInv
  <2>3. Search'
    BY <2>1, <2>2, SameSearch
  <2>4. Ample' = Ample /\ Found' = Found
    BY <2>1 DEF Ample, Found, BackEdges, LoopBlocks, Dominators, Preds, Succs
  <2>5. Sweeping => Sweeping'
    BY <2>1, SameTree DEF Sweeping
  <2> QED
    BY <2>1, <2>2, <2>3, <2>4, <2>5 DEF TreeInv
<1> QED
  BY <1>1, <1>2, <1>3, <1>4, <1>5, <1>6, <1>7 DEF Next

LEMMA DominatorsRight == TreeInv /\ Linked => DominatorsSound
<1> SUFFICES ASSUME TreeInv, Linked, phase = "loops", Ample
             PROVE  /\ DOMAIN idom = Reached /\ \A k \in Reached : idom[k] \in Reached
                    /\ \A b \in Reached : \A a \in Dominators(idom, b) : TrulyDominates(a, b)
  BY DEF DominatorsSound
<1>1. Links /\ Search /\ path = <<>> /\ Sweeping /\ pos > Len(order) /\ ~changed
  BY DEF TreeInv, Linked
<1>2. /\ Placed /\ EntryFirst /\ OnPath = {} /\ visited = ToSet(order)
      /\ (\A k \in ToSet(order) : ToSet(Succs(k)) \subseteq ToSet(order))
      /\ \A S \in SUBSET DOMAIN blocks :
           1 \in S /\ (\A j \in S : ToSet(Succs(j)) \subseteq S) => ToSet(order) \subseteq S
  BY <1>1 DEF Search, Split, Looked, OnPath
<1>3. /\ Len(order) \in Nat /\ DOMAIN order = 1 .. Len(order) /\ pos \in Nat \ {0}
      /\ ToSet(order) \subseteq DOMAIN blocks
  BY <1>1, <1>2, Ranks DEF Sweeping
<1>4. /\ \A i \in DOMAIN order : i < pos
      /\ \A k \in ToSet(order) : \E i \in DOMAIN order : order[i] = k
  BY <1>1, <1>3 DEF ToSet
<1>5. DOMAIN idom = ToSet(order) /\ Climbs(idom)
      /\ \A k \in ToSet(order) \ {1} : idom[k] = NewIdom(idom, k)
  BY <1>1, <1>4 DEF Sweeping, Climbs
<1>6. 1 \in ToSet(order) /\ 1 \in DOMAIN blocks /\ 0 \notin DOMAIN blocks /\ DOMAIN blocks = 1 .. Len(blocks)
  BY <1>1, <1>3, <1>5 DEF Climbs, Links
<1>7. Reached = ToSet(order)
  <2>1. \A k \in ToSet(order) : 0 \notin ToSet(Succs(k))
    BY <1>2, <1>3, <1>6
  <2>2. ToSet(order) \in SUBSET DOMAIN blocks /\ {1} \ {0} \subseteq ToSet(order)
        /\ \A j \in ToSet(order) : ToSet(Succs(j)) \ {0} \subseteq ToSet(order)
    BY <1>2, <1>3, <1>6
  <2>3. ReachedWithout(0) \subseteq ToSet(order)
    BY <2>2, ReachedAre
  <2> DEFINE R == ReachedWithout(0)
  <2>4. R \subseteq DOMAIN blocks /\ 1 \in R
    BY <1>6, ReachedAre
  <2>5. ASSUME NEW j \in R PROVE ToSet(Succs(j)) \subseteq R
    <3>1. (ToSet(Succs(j)) \cap DOMAIN blocks) \ {0} \subseteq R
      BY ReachedAre
    <3>2. ToSet(Succs(j)) \subseteq ToSet(order)
      BY <1>2, <2>3
    <3> QED
      BY <1>3, <1>6, <3>1, <3>2
  <2> HIDE DEF R
  <2>6. ToSet(order) \subseteq R
    BY <1>2, <2>4, <2>5
  <2> QED
    BY <2>3, <2>6 DEF R, Reached
<1>8. /\ MapsInto(idom) /\ Dominators(idom, 1) = {1}
      /\ \A b \in DOMAIN idom : Dominators(idom, b) \subseteq DOMAIN idom
  BY <1>2, <1>5, Climbing
<1>9. 2 * Len(order) <= Limit
  <2>1. Len(order) <= Len(blocks) /\ Len(blocks) \in Nat
    BY <1>1, <1>2, Fits DEF Links
  <2>2. 2 * Len(blocks) <= Limit /\ Limit \in Nat
    BY LimitAssumption DEF Ample
  <2> QED
    BY <1>3, <2>1, <2>2
<1>10. \A k \in ToSet(order) : \A p \in Preds(k) \cap DOMAIN idom : NewIdom(idom, k) \in Dominators(idom, p)
  <2> SUFFICES ASSUME NEW k \in ToSet(order)
               PROVE  \A p \in Preds(k) \cap DOMAIN idom : NewIdom(idom, k) \in Dominators(idom, p)
    OBVIOUS
  <2>1. k \in DOMAIN blocks /\ blocks[k].pred \in Seq(DOMAIN blocks)
    BY <1>1, <1>3 DEF Links
  <2> QED
    BY <1>2, <1>5, <1>6, <1>9, <2>1, NewIdomMeets
<1>11. ASSUME NEW a PROVE ReachedWithout(a) \subseteq {k \in ToSet(order) : a \notin Dominators(idom, k)}
  <2> DEFINE T == {k \in ToSet(order) : a \notin Dominators(idom, k)}
  <2>1. {1} \ {a} \subseteq T
    BY <1>6, <1>8
  <2>2. ASSUME NEW j \in T, NEW s \in ToSet(Succs(j)) \ {a} PROVE s \in T
    <3>1. s \in ToSet(order) /\ j \in ToSet(order) /\ s \in DOMAIN blocks /\ j \in DOMAIN blocks
      BY <1>2, <1>3
    <3>2. j \in Preds(s) \cap DOMAIN idom
      BY <1>1, <1>5, <3>1 DEF Links
    <3>3. CASE s = 1
      BY <1>8, <3>1, <3>3
    <3>4. CASE s # 1
      <4>1. idom[s] \in Dominators(idom, j)
        BY <1>5, <1>10, <3>1, <3>2, <3>4
      <4>2. Dominators(idom, idom[s]) \subseteq Dominators(idom, j)
        BY <1>8, <3>1, <4>1, DominatorsAre
      <4>3. Dominators(idom, s) \subseteq {s} \cup Dominators(idom, idom[s])
        BY <1>5, <1>8, <3>1, DominatorsAre
      <4> QED
        BY <3>1, <4>2, <4>3
    <3> QED
      BY <3>3, <3>4
  <2>3. T \in SUBSET DOMAIN blocks
    BY <1>3
  <2> HIDE DEF T
  <2>4. \A j \in T : ToSet(Succs(j)) \ {a} \subseteq T
    BY <2>2
  <2>5. ReachedWithout(a) \subseteq T
    BY <2>1, <2>3, <2>4, ReachedAre
  <2> QED
    BY <2>5 DEF T
<1>12. \A b \in Reached : \A a \in Dominators(idom, b) : TrulyDominates(a, b)
  BY <1>11 DEF TrulyDominates
<1>13. \A k \in Reached : idom[k] \in Reached
  BY <1>5, <1>7 DEF Climbs
<1> QED
  BY <1>5, <1>7, <1>12, <1>13

LEMMA LoopsRight == TreeInv /\ Linked => LoopsNatural
<1> SUFFICES ASSUME TreeInv, Linked, Ample, NEW l \in loops
             PROVE  /\ l.header \in ToSet(Succs(l.tail))
                    /\ \A k \in l.blocks \cap Reached : TrulyDominates(l.header, k)
                    /\ \A k \in l.blocks \ {l.header} : Preds(k) \subseteq l.blocks
                    /\ \A k \in l.blocks \ {l.header, l.tail} : \E s \in ToSet(Succs(k)) : s \in l.blocks
  BY DEF LoopsNatural
<1>1. phase = "loops" /\ l \in Found
  BY DEF TreeInv
<1>2. Links /\ Sweeping /\ Search
  BY <1>1 DEF TreeInv, Linked
<1>3. PICK e \in BackEdges : l = [header |-> e[2], tail |-> e[1], blocks |-> LoopBlocks(e[1], e[2])]
  BY <1>1 DEF Found
<1> DEFINE t == e[1]
           h == e[2]
           B == LoopBlocks(t, h)
           R == ReachedWithout(h)
<1>4. /\ t \in DOMAIN blocks /\ h \in DOMAIN blocks /\ h \in ToSet(Succs(t)) /\ h \in Dominators(idom, t)
      /\ l.header = h /\ l.tail = t /\ l.blocks = B
  BY <1>3 DEF BackEdges
<1>5. \A k \in DOMAIN blocks : Preds(k) = {j \in DOMAIN blocks : k \in ToSet(Succs(j))}
  BY <1>2 DEF Links
<1>6. /\ \A S \in SUBSET DOMAIN blocks :
           t \in S /\ (\A j \in S \ {h} : Preds(j) \ {h} \subseteq S) => B \subseteq {h} \cup S
      /\ h \in B /\ t \in B /\ B \subseteq {h} \cup DOMAIN blocks
      /\ \A j \in B \ {h} : Preds(j) \cap DOMAIN blocks \subseteq B
  <2> HIDE DEF t, h
  <2> QED
    BY <1>4, LoopBlocksAre
<1>7. R \subseteq DOMAIN blocks /\ \A j \in R : (ToSet(Succs(j)) \cap DOMAIN blocks) \ {h} \subseteq R
  BY ReachedAre
<1>8. \A S \in SUBSET DOMAIN blocks :
        {1} \ {h} \subseteq S /\ (\A j \in S : ToSet(Succs(j)) \ {h} \subseteq S) => R \subseteq S
  BY ReachedAre
<1> HIDE DEF t, h, B, R
<1>9. 1 \in DOMAIN blocks /\ \A k \in DOMAIN blocks : ToSet(Succs(k)) \subseteq DOMAIN blocks
  <2>1. 1 \in DOMAIN blocks
    <3>1. 1 \in DOMAIN idom /\ MapsInto(idom)
      BY <1>1, <1>2, Climbing DEF Sweeping, TreeInv, Search, Split, Climbs
    <3> QED
      BY <3>1 DEF MapsInto
  <2>2. ASSUME NEW k \in DOMAIN blocks PROVE ToSet(Succs(k)) \subseteq DOMAIN blocks
    <3>1. Succs(k) \in Seq(DOMAIN blocks)
      BY <1>2 DEF Links
    <3> QED
      BY <3>1 DEF ToSet
  <2> QED
    BY <2>1, <2>2
<1>10. h \notin R
  <2> DEFINE S == DOMAIN blocks \ {h}
  <2>1. {1} \ {h} \subseteq S /\ \A j \in S : ToSet(Succs(j)) \ {h} \subseteq S
    BY <1>9
  <2>2. R \subseteq S
    BY <1>8, <2>1
  <2> QED
    BY <2>2
<1>11. t \notin R
  <2>1. CASE t = h
    BY <1>10, <2>1
  <2>2. CASE t # h
    <3>1. DominatorsSound
      BY DominatorsRight
    <3>2. MapsInto(idom)
      BY <1>1, <1>2, Climbing DEF Sweeping, TreeInv, Search, Split
    <3>3. t \in DOMAIN idom
      BY <1>4, <2>2, <3>2, DominatorsAre
    <3> QED
      BY <1>1, <1>4, <3>1, <3>3 DEF DominatorsSound, TrulyDominates, R
  <2> QED
    BY <2>1, <2>2
<1>12. B \cap R = {}
  <2> DEFINE S == DOMAIN blocks \ R
  <2>1. ASSUME NEW j \in S \ {h}, NEW p \in Preds(j) \ {h} PROVE p \in S
    <3>1. p \in DOMAIN blocks /\ j \in ToSet(Succs(p))
      BY <1>5
    <3> QED
      BY <1>7, <3>1
  <2>2. B \subseteq {h} \cup S
    BY <1>4, <1>6, <1>11, <2>1
  <2> QED
    BY <1>10, <2>2
<1>13. \A k \in B : TrulyDominates(h, k)
  BY <1>12 DEF TrulyDominates, R
<1>14. \A k \in B \ {h} : Preds(k) \subseteq B
  BY <1>4, <1>5, <1>6
<1>15. ASSUME NEW k \in B \ {h, t} PROVE \E s \in ToSet(Succs(k)) : s \in B
  <2> SUFFICES ASSUME \A s \in ToSet(Succs(k)) : s \notin B PROVE FALSE
    OBVIOUS
  <2> DEFINE S == (B \cap DOMAIN blocks) \ {k}
  <2>1. ASSUME NEW j \in S \ {h}, NEW p \in Preds(j) \ {h} PROVE p \in S
    <3>1. p \in B /\ p \in DOMAIN blocks /\ j \in ToSet(Succs(p)) /\ j \in B
      BY <1>5, <1>14
    <3> QED
      BY <3>1
  <2>2. B \subseteq {h} \cup S
    BY <1>4, <1>6, <2>1
  <2> QED
    BY <2>2
<1> QED
  BY <1>4, <1>13, <1>14, <1>15

-----------------------------------------------------------------------------
(***************************************************************************)
(* The edges read backwards                                                *)
(***************************************************************************)
Hits(edges, j, k)   == {n \in DOMAIN edges[j] : edges[j][n][1] = k}
Listed(edges, j, k) == [i \in 1 .. Cardinality(Hits(edges, j, k)) |-> j]

(* The recursion of Sources has a solution. *)
LEMMA SourcesDef ==
    ASSUME NEW edges, NEW k, Len(edges) \in Nat
    PROVE  \E w : /\ Sources(edges, k) = w[Len(edges)] /\ w[0] = <<>>
                  /\ \A j \in 1 .. Len(edges) :
                       w[j] = w[j - 1] \o Listed(edges, j, k)
<1> DEFINE len == Len(edges)
           Own(j) == [i \in 1 .. Cardinality({n \in DOMAIN edges[j] : edges[j][n][1] = k}) |-> j]
           Rec(m, w) == \A j \in 0 .. m : w[j] = IF j = 0 THEN <<>> ELSE w[j - 1] \o Own(j)
           F(u) == [j \in 0 .. len |-> IF j = 0 THEN <<>> ELSE u[j - 1] \o Own(j)]
           upTo == CHOOSE u : u = F(u)
<1>1. Sources(edges, k) = upTo[len]
  BY DEF Sources
<1>2. \A j : Own(j) = Listed(edges, j, k)
  BY DEF Hits, Listed
<1> HIDE DEF Own
<1>3. \A m \in Nat : \E w : Rec(m, w)
  <2> SUFFICES ASSUME ~ \A m \in Nat : \E w : Rec(m, w) PROVE FALSE
    OBVIOUS
  <2> DEFINE S == {m \in Nat : ~ \E w : Rec(m, w)}
  <2>1. PICK m \in S : \A j \in S : m <= j
    <3>1. S # {} /\ S \in SUBSET Nat
      OBVIOUS
    <3> HIDE DEF S
    <3> QED
      BY <3>1, LeastNat
  <2>2. m \in Nat /\ ~ \E w : Rec(m, w)
    OBVIOUS
  <2>3. CASE m = 0
    <3> DEFINE w == [j \in 0 .. 0 |-> <<>>]
    <3>1. Rec(m, w)
      BY <2>3
    <3> QED
      BY <2>2, <3>1
  <2>4. CASE m # 0
    <3>1. m - 1 \in Nat /\ m - 1 \notin S
      <4>1. m - 1 \in Nat /\ ~(m <= m - 1)
        BY <2>2, <2>4
      <4> HIDE DEF S
      <4> QED
        BY <2>1, <4>1
    <3>2. PICK v : Rec(m - 1, v)
      BY <3>1
    <3> DEFINE w == [j \in 0 .. m |-> IF j = m THEN v[m - 1] \o Own(m) ELSE v[j]]
    <3>3. \A j \in 0 .. m : w[j] = IF j = 0 THEN <<>> ELSE w[j - 1] \o Own(j)
      <4> SUFFICES ASSUME NEW j \in 0 .. m PROVE w[j] = IF j = 0 THEN <<>> ELSE w[j - 1] \o Own(j)
        OBVIOUS
      <4>1. CASE j = m
        <5>1. m - 1 \in 0 .. m /\ m - 1 # m /\ j \in 0 .. m
          BY <2>2, <2>4
        <5>2. w[j] = v[m - 1] \o Own(m) /\ w[m - 1] = v[m - 1]
          BY <4>1, <5>1
        <5> QED
          BY <2>4, <4>1, <5>2
      <4>2. CASE j # m
        <5>1. j \in 0 .. (m - 1)
          BY <2>2, <4>2
        <5>2. v[j] = IF j = 0 THEN <<>> ELSE v[j - 1] \o Own(j)
          BY <3>2, <5>1
        <5>3. w[j] = v[j] /\ (j # 0 => w[j - 1] = v[j - 1])
          BY <2>2, <4>2, <5>1
        <5> QED
          BY <5>2, <5>3
      <4> QED
        BY <4>1, <4>2
    <3>4. Rec(m, w)
      BY <3>3
    <3> QED
      BY <2>2, <3>4
  <2> QED
    BY <2>3, <2>4
<1>4. PICK v : Rec(len, v)
  <2>1. len \in Nat
    OBVIOUS
  <2> HIDE DEF Rec, len
  <2> QED
    BY <1>3, <2>1
<1> DEFINE w == [j \in 0 .. len |-> v[j]]
<1>5. w = F(w)
  <2>1. \A j \in 0 .. len : w[j] = v[j] /\ (j # 0 => w[j - 1] = v[j - 1])
    OBVIOUS
  <2> QED
    BY <1>4, <2>1
<1>6. upTo = F(upTo)
  BY <1>5, Zenon
<1> HIDE DEF upTo
<1>7. \A j \in 0 .. len : upTo[j] = IF j = 0 THEN <<>> ELSE upTo[j - 1] \o Own(j)
  BY <1>6
<1>8. upTo[0] = <<>>
  BY <1>7
<1>9. \A j \in 1 .. len : upTo[j] = upTo[j - 1] \o Own(j)
  <2> HIDE DEF len
  <2>1. \A j \in 1 .. len : j \in 0 .. len /\ j # 0
    OBVIOUS
  <2> QED
    BY <1>7, <2>1
<1> QED
  BY <1>1, <1>2, <1>8, <1>9

(* A block's predecessors are the blocks with an edge to it. *)
LEMMA SourcesAre ==
    ASSUME NEW n \in Nat, NEW A, NEW edges \in Seq(Seq(A)), Len(edges) = n, NEW k
    PROVE  /\ Sources(edges, k) \in Seq(1 .. n)
           /\ ToSet(Sources(edges, k)) = {j \in 1 .. n : Hits(edges, j, k) # {}}
<1>1. PICK w : /\ Sources(edges, k) = w[n] /\ w[0] = <<>>
               /\ \A j \in 1 .. n : w[j] = w[j - 1] \o Listed(edges, j, k)
  <2>1. \A s, c : Len(s) \in Nat =>
          \E w : /\ Sources(s, c) = w[Len(s)] /\ w[0] = <<>>
                /\ \A j \in 1 .. Len(s) :
                     w[j] = w[j - 1] \o Listed(s, j, c)
    BY SourcesDef
  <2>2. Len(edges) \in Nat
    OBVIOUS
  <2>3. \E w : /\ Sources(edges, k) = w[Len(edges)] /\ w[0] = <<>>
              /\ \A j \in 1 .. Len(edges) :
                   w[j] = w[j - 1] \o Listed(edges, j, k)
    BY <2>1, <2>2, Zenon
  <2>4. n = Len(edges)
    OBVIOUS
  <2> QED
    BY <2>3, <2>4, Zenon
<1> DEFINE Good(m) == w[m] \in Seq(1 .. n) /\ ToSet(w[m]) = {j \in 1 .. m : Hits(edges, j, k) # {}}
<1>2. ASSUME NEW j \in 1 .. n
      PROVE  Listed(edges, j, k) \in Seq(1 .. n) /\ ToSet(Listed(edges, j, k)) = IF Hits(edges, j, k) # {} THEN {j} ELSE {}
  <2> DEFINE c == Cardinality(Hits(edges, j, k))
             H == Hits(edges, j, k)
  <2>1. IsFiniteSet(H)
    <3>1. edges[j] \in Seq(A)
      OBVIOUS
    <3>2. Len(edges[j]) \in Nat /\ DOMAIN edges[j] = 1 .. Len(edges[j])
      BY <3>1
    <3>3. IsFiniteSet(1 .. Len(edges[j]))
      <4>1. 1 \in Int /\ Len(edges[j]) \in Int
        BY <3>2
      <4> QED
        BY <4>1, FS_Interval
    <3>4. H \subseteq 1 .. Len(edges[j])
      BY <3>2 DEF Hits
    <3> QED
      BY <3>3, <3>4, FS_Subset
  <2>2. c \in Nat /\ (c = 0 <=> H = {})
    BY <2>1, FS_CardinalityType, FS_EmptySet
  <2> HIDE DEF c, H
  <2>3. [i \in 1 .. c |-> j] \in Seq(1 .. n)
    BY <2>2
  <2>4. ToSet([i \in 1 .. c |-> j]) = IF c = 0 THEN {} ELSE {j}
    <3>1. CASE c = 0
      BY <3>1 DEF ToSet
    <3>2. CASE c # 0
      <4>1. 1 \in 1 .. c
        BY <2>2, <3>2
      <4> QED
        BY <3>2, <4>1 DEF ToSet
    <3> QED
      BY <3>1, <3>2
  <2> QED
    BY <2>2, <2>3, <2>4 DEF c, H, Listed
<1>3. Good(0)
  BY <1>1 DEF ToSet
<1>4. ASSUME NEW m \in 1 .. n, Good(m - 1) PROVE Good(m)
  <2>1. w[m] = w[m - 1] \o Listed(edges, m, k)
    BY <1>1
  <2>2. w[m] \in Seq(1 .. n) /\ ToSet(w[m]) = ToSet(w[m - 1]) \cup ToSet(Listed(edges, m, k))
    <3>1. w[m - 1] \in Seq(1 .. n) /\ Listed(edges, m, k) \in Seq(1 .. n)
      BY <1>2, <1>4
    <3> QED
      BY <2>1, <3>1, ConcatSet
  <2>3. \A j : j \in 1 .. m <=> j \in 1 .. m - 1 \/ j = m
    OBVIOUS
  <2> QED
    BY <1>2, <1>4, <2>2, <2>3
<1> HIDE DEF Good
<1>5. \A m \in 0 .. n : Good(m)
  <2> SUFFICES ASSUME ~ \A m \in 0 .. n : Good(m) PROVE FALSE
    OBVIOUS
  <2> DEFINE S == {m \in 0 .. n : ~Good(m)}
  <2>1. PICK m \in S : \A j \in S : m <= j
    <3>1. S # {} /\ S \in SUBSET Nat
      OBVIOUS
    <3> HIDE DEF S
    <3> QED
      BY <3>1, LeastNat
  <2>2. m \in 1 .. n /\ m - 1 \in 0 .. n /\ ~(m <= m - 1)
    BY <1>3
  <2>3. Good(m - 1)
    BY <2>1, <2>2
  <2> QED
    BY <1>4, <2>2, <2>3
<1>6. Good(n)
  BY <1>5
<1> QED
  BY <1>1, <1>6 DEF Good

LEMMA ConnectLinks ==
    ASSUME IInv, Cut, ConnectEdges
    PROVE  Links'
<1> DEFINE edges == [k \in DOMAIN blocks |-> EdgesOf(k)]
           n == Len(Starts)
           A == UNION {Ways(k) : k \in 1 .. n}
<1>1. /\ blocks = [k \in DOMAIN Starts |-> Fresh(k)] /\ n \in Nat /\ DOMAIN Starts = 1 .. n
      /\ blocks' = [k \in DOMAIN blocks |-> [blocks[k] EXCEPT !.succ = edges[k], !.pred = Sources(edges, k)]]
  BY Decoded DEF ConnectEdges, Cut, IInv
<1>2. DOMAIN blocks = 1 .. n /\ DOMAIN blocks' = 1 .. n /\ DOMAIN edges = 1 .. n
  BY <1>1
<1>3. ASSUME NEW k \in 1 .. n
      PROVE  edges[k] \in Seq(A) /\ edges[k] \in Seq(Ways(k)) /\ \A e \in Ways(k) : e[1] \in 1 .. n
  <2>1. edges[k] = EdgesOf(k) /\ EdgesOf(k) \in Seq(Ways(k))
    BY <1>1, <1>2, EdgesRead
  <2>2. Ways(k) \subseteq A
    OBVIOUS
  <2>3. \A e \in Ways(k) : e[1] \in 1 .. n
    <3>1. k < Len(Starts) => k + 1 \in DOMAIN Starts
      BY <1>1, PartShape
    <3> SUFFICES ASSUME NEW e \in Ways(k) PROVE e[1] \in DOMAIN Starts
      BY <1>1
    <3>2. CASE k < Len(Starts) /\ e = <<k + 1, "fall">>
      BY <3>1, <3>2
    <3>3. CASE \E j \in DOMAIN Starts : e = <<j, Kind(TailOf(k))>>
      BY <3>3
    <3> QED
      BY <3>2, <3>3 DEF Ways
  <2> HIDE DEF A, n, edges
  <2>4. edges[k] \in Seq(A)
    BY <2>1, <2>2
  <2> QED
    BY <2>1, <2>3, <2>4
<1>4. edges \in Seq(Seq(A)) /\ Len(edges) = n
  <2> HIDE DEF edges, A, n
  <2>1. edges = [k \in 1 .. n |-> edges[k]]
    BY <1>2 DEF edges
  <2>2. edges \in [1 .. n -> Seq(A)]
    BY <1>3, <2>1
  <2>3. edges \in Seq(Seq(A))
    BY <1>1, <2>2, MappedSeq
  <2> QED
    BY <1>1, <1>2, <2>3, LengthIs
<1>5. ASSUME NEW k \in 1 .. n
      PROVE  blocks'[k].succ = edges[k] /\ blocks'[k].pred = Sources(edges, k)
  BY <1>1, <1>2 DEF Fresh
<1>6. ASSUME NEW k \in 1 .. n
      PROVE  /\ Sources(edges, k) \in Seq(1 .. n)
             /\ ToSet(Sources(edges, k)) = {j \in 1 .. n : Hits(edges, j, k) # {}}
  <2> HIDE DEF edges, A, n
  <2>1. n \in Nat /\ edges \in Seq(Seq(A)) /\ Len(edges) = n
    BY <1>1, <1>4
  <2> QED
    BY <2>1, SourcesAre
<1> HIDE DEF edges, A, n
<1>7. Len(blocks') = n
  <2> DEFINE V == {blocks'[k] : k \in 1 .. n}
             f == blocks'
  <2>1. f = [k \in 1 .. n |-> f[k]]
    BY <1>1, <1>2
  <2>2. \A k \in 1 .. n : f[k] \in V
    OBVIOUS
  <2> HIDE DEF V, f
  <2>3. f \in [1 .. n -> V]
    BY <2>1, <2>2
  <2>4. f \in Seq(V)
    BY <1>1, <2>3, MappedSeq
  <2>5. DOMAIN f = 1 .. n
    BY <1>2 DEF f
  <2>6. Len(f) = n
    BY <1>1, <2>4, <2>5, LengthIs
  <2> QED
    BY <2>6 DEF f
<1>8. ASSUME NEW k \in 1 .. n
      PROVE  /\ Succs(k)' \in Seq(1 .. n)
             /\ ToSet(Succs(k)') = {edges[k][i][1] : i \in DOMAIN edges[k]}
  <2>1. Succs(k)' = [i \in DOMAIN edges[k] |-> edges[k][i][1]]
    BY <1>5 DEF Succs
  <2>2. Len(edges[k]) \in Nat /\ DOMAIN edges[k] = 1 .. Len(edges[k]) /\ \A i \in DOMAIN edges[k] : edges[k][i] \in Ways(k)
    BY <1>3
  <2>3. \A i \in DOMAIN edges[k] : edges[k][i][1] \in 1 .. n
    BY <1>3, <2>2
  <2>4. Succs(k)' \in Seq(1 .. n)
    BY <2>1, <2>2, <2>3
  <2>5. ToSet(Succs(k)') = {edges[k][i][1] : i \in DOMAIN edges[k]}
    BY <2>1 DEF ToSet
  <2> QED
    BY <2>4, <2>5
<1>9. ASSUME NEW k \in 1 .. n
      PROVE  /\ blocks'[k].pred \in Seq(1 .. n)
             /\ Preds(k)' = {j \in 1 .. n : k \in ToSet(Succs(j)')}
  <2>1. Preds(k)' = ToSet(Sources(edges, k))
    BY <1>5 DEF Preds
  <2>2. \A j \in 1 .. n : Hits(edges, j, k) # {} <=> k \in ToSet(Succs(j)')
    BY <1>8 DEF Hits
  <2> QED
    BY <1>5, <1>6, <2>1, <2>2
<1>10. Len(blocks') \in Nat /\ DOMAIN blocks' = 1 .. Len(blocks') /\ DOMAIN blocks' = 1 .. n
  BY <1>1, <1>2, <1>7
<1>11. \A k \in 1 .. n : /\ Succs(k)' \in Seq(1 .. n) /\ blocks'[k].pred \in Seq(1 .. n)
                         /\ Preds(k)' = {j \in 1 .. n : k \in ToSet(Succs(j)')}
  BY <1>8, <1>9
<1> QED
  BY <1>10, <1>11 DEF Links

LEMMA LinkedNext ==
    ASSUME IInv, Cut, Linked, [Build]_builder
    PROVE  Linked'
<1>1. CASE ConnectEdges
  BY <1>1, ConnectLinks DEF Linked
<1>2. CASE Pop \/ Descend \/ Linear \/ Break \/ Sort \/ BuildBlocks
  <2>1. stage' # "graph"
    BY <1>2 DEF Pop, Descend, Linear, Break, Sort, BuildBlocks
  <2> QED
    BY <2>1 DEF Linked
<1>3. CASE UNCHANGED builder
  BY <1>3 DEF builder, Linked, Links, Succs, Preds
<1> QED
  BY <1>1, <1>2, <1>3 DEF Build

LEMMA TreeInvariance == Spec => [](TreeInv /\ Linked)
<1> DEFINE I == IInv /\ Cut /\ Linked /\ TreeInv
<1>1. LoopsInit => I
  <2> SUFFICES ASSUME LoopsInit PROVE I
    OBVIOUS
  <2>1. Init /\ stage = "sweep"
    BY DEF LoopsInit, Init
  <2> QED
    BY <2>1, InitInv, TreeInit DEF Cut, Linked
<1>2. I /\ [Next]_vars => I'
  <2> SUFFICES ASSUME I, [Next]_vars PROVE I'
    OBVIOUS
  <2>1. [Build]_builder
    BY DEF Next, vars, builder, Construct, Begin, Walk, Leave, Ordering, Refine, Again, DetectLoops
  <2> QED
    BY <2>1, NextInv, CutNext, LinkedNext, TreeNext
<1> QED
  BY <1>1, <1>2, PTL DEF Spec

(* The dominator tree of any graph the builder makes holds the blocks that are
   reached, and what it calls a dominator is on every path from the entry, for
   any order of edges and however many sweeps it takes
   (cfg-builder/src/lib.rs:914-1056). *)
THEOREM DominatorsAreSound == Spec => []DominatorsSound
BY DominatorsRight, TreeInvariance, PTL

(* The loops found with it are natural: entered at the header only, closed
   under predecessors up to it, and every block can go round
   (cfg-builder/src/lib.rs:1117-1175). *)
THEOREM LoopsAreNatural == Spec => []LoopsNatural
BY LoopsRight, TreeInvariance, PTL

=============================================================================
