---------------------------- MODULE GpuScanProofs ----------------------------
(***************************************************************************)
(* Proofs about the GPU scanner, for any requests, cap, group and pass     *)
(* sizes: the types, that the slots of the match buffer are handed out     *)
(* without gaps or doubles in whatever order the invocations run, that a   *)
(* literal scan of one pass whose commands the device accepts is exact,    *)
(* and that an entropy map read back chunk by chunk has every window.      *)
(***************************************************************************)
EXTENDS GpuScan, FiniteSetTheorems, SequenceTheorems, TLAPS

(* Invocations are pending only while a literal scan is being encoded. *)
Quiet == stage # "encoding" \/ ~Literal => todo = {} /\ unwritten = {}

Encoding == stage = "encoding" /\ Literal /\ Clean

(* Before the only pass nothing is claimed; from then on a needle position is
   pending or has claimed, and no one does it twice. *)
Progress ==
    Encoding =>
        /\ passes = 0 => todo = {} /\ DOMAIN slot = {} /\ count = 0
        /\ DOMAIN slot \subseteq request.hits /\ DOMAIN slot \cap todo = {}
        /\ passes # 0 => passes >= Candidates /\ request.hits \subseteq DOMAIN slot \cup todo

(* Every slot below the counter is somebody's. *)
NoGaps == Encoding => \A s \in 0 .. count - 1 : \E i \in DOMAIN slot : slot[i] = s

(* What the copies are made of once all invocations are done. *)
Counted ==
    stage = "counted" /\ Literal /\ Clean =>
        /\ total = Cardinality(request.hits)
        /\ \A s \in 0 .. Lesser(total, MaxMatches) - 1 : stored[s] \in request.hits
        /\ \A s, t \in 0 .. Lesser(total, MaxMatches) - 1 : stored[s] = stored[t] => s = t

CountsLiterals == stage = "counted" => Literal

IInv == TypeOK /\ Quiet /\ CountsLiterals /\ Progress /\ NoGaps /\ SlotsOwned /\ Counted /\ LiteralExact

-----------------------------------------------------------------------------
LEMMA RequestShape ==
    ASSUME TypeOK, Literal
    PROVE  /\ request.last \in Nat /\ request.hits \subseteq 0 .. request.last
           /\ Candidates \in Nat \ {0}
           /\ IsFiniteSet(request.hits) /\ Cardinality(request.hits) \in Nat
<1>1. request \in Requests
  BY DEF TypeOK, Literal
<1>2. request.last \in Nat /\ request.hits \subseteq 0 .. request.last
  BY <1>1, RequestsAssumption DEF Literal
<1>3. IsFiniteSet(0 .. request.last)
  BY <1>2, FS_Interval
<1>4. IsFiniteSet(request.hits)
  BY <1>2, <1>3, FS_Subset
<1>5. Cardinality(request.hits) \in Nat
  BY <1>4, FS_CardinalityType
<1> QED
  BY <1>2, <1>4, <1>5 DEF Candidates

LEMMA NoneIsNoRequest == None \notin Requests
BY RequestsAssumption

LEMMA LesserIsLesser ==
    ASSUME NEW m \in Nat, NEW n \in Nat
    PROVE  Lesser(m, n) \in Nat /\ Lesser(m, n) <= m /\ Lesser(m, n) <= n /\ Lesser(m, n) \in {m, n}
BY DEF Lesser

LEMMA PerPassNat == PerPass \in Nat \ {0}
BY SizesAssumption DEF PerPass

(* The workgroups of a pass cover its candidates. *)
LEMMA GroupsCover ==
    ASSUME NEW n \in Nat
    PROVE  Groups(n) \in Nat /\ Groups(n) * Threads >= n
<1> DEFINE q == (n + Threads - 1) \div Threads
           r == (n + Threads - 1) % Threads
<1>1. Threads \in Nat /\ Threads > 0
  BY SizesAssumption
<1>2. /\ q \in Nat /\ r \in 0 .. Threads - 1
      /\ n + Threads - 1 = Threads * q + r
  BY <1>1
<1>3. Threads * q = q * Threads /\ q * Threads \in Nat
  BY <1>1, <1>2
<1> HIDE DEF q, r
<1>4. q * Threads >= n
  BY <1>1, <1>2, <1>3
<1> QED
  BY <1>2, <1>4 DEF Groups, q

-----------------------------------------------------------------------------
LEMMA InitInv == Init => IInv
<1> SUFFICES ASSUME Init PROVE IInv
  OBVIOUS
<1>1. TypeOK
  <2>1. stored \in [0 .. MaxMatches - 1 -> Nat]
    <3>1. stored = [s \in 0 .. MaxMatches - 1 |-> 0]
      BY DEF Init
    <3> QED
      BY <3>1
  <2>3. DOMAIN slot = {}
    <3>1. slot = <<>>
      BY DEF Init
    <3> QED
      BY <3>1
  <2>2. active \in BOOLEAN /\ reason \in {None, "no adapter"}
    BY DEF Init
  <2> QED
    BY <2>1, <2>2, <2>3 DEF Init, TypeOK
<1>2. stage = "idle" /\ todo = {} /\ unwritten = {} /\ request = None
  BY DEF Init
<1> QED
  BY <1>1, <1>2 DEF IInv, Quiet, CountsLiterals, Progress, NoGaps, SlotsOwned, Counted, LiteralExact,
     Encoding, LiteralAnswer, Literal

(* The answer of the CPU is never mistaken for one of the GPU. *)
LEMMA CpuAnswers == \A r : CpuAnswer(r).by = "cpu"
BY DEF CpuAnswer, CpuLiteral

LEMMA AskInv == ASSUME IInv, Ask PROVE IInv'
<1> USE DEF IInv
<1>1. PICK r \in Requests :
        /\ request' = r
        /\ IF active /\ ~poisoned /\ (r.op = "literal" => r.short)
           THEN stage' = "checked" /\ result' = None
           ELSE Return(CpuAnswer(r))
  BY DEF Ask
<1>2. /\ stage = "idle" /\ calls' = calls + 1
      /\ UNCHANGED <<active, reason, poisoned, passes, todo, slot, unwritten, count, stored, rejected, total, windows>>
  BY DEF Ask, scanner, device
<1>3. stage' = "checked" \/ (stage' = "idle" /\ result'.by = "cpu")
  BY <1>1, CpuAnswers DEF Return
<1>4. TypeOK'
  <2>1. request' \in Requests /\ request' # None
    BY <1>1, NoneIsNoRequest
  <2>2. calls' \in Nat
    <3>1. calls \in Nat
      BY DEF TypeOK
    <3> QED
      BY <1>2, <3>1
  <2>3. stage' \in {"idle", "checked"}
    BY <1>3
  <2> QED
    BY <1>2, <2>1, <2>2, <2>3 DEF TypeOK
<1>5. todo = {} /\ unwritten = {}
  BY <1>2 DEF Quiet
<1> QED
  BY <1>2, <1>3, <1>4, <1>5 DEF Quiet, CountsLiterals, Progress, NoGaps, SlotsOwned, Counted,
     LiteralExact, Encoding, LiteralAnswer

LEMMA FallBackInv ==
    ASSUME IInv, FallBack, stage # "idle", todo = {}, unwritten = {}
    PROVE  IInv'
<1> USE DEF IInv
<1>1. /\ active' = FALSE /\ reason' = "runtime failure"
      /\ stage' = "idle" /\ result'.by = "cpu"
      /\ UNCHANGED <<poisoned, calls, request, passes, todo, slot, unwritten, count, stored, rejected, total, windows>>
  BY CpuAnswers DEF FallBack, Return, device
<1>2. TypeOK'
  BY <1>1 DEF TypeOK
<1> QED
  BY <1>1, <1>2 DEF Quiet, CountsLiterals, Progress, NoGaps, SlotsOwned, Counted, LiteralExact,
     Encoding, LiteralAnswer

LEMMA AcquireInv == ASSUME IInv, Acquire PROVE IInv'
<1> USE DEF IInv
<1>1. /\ stage = "checked" /\ stage' = "encoding" /\ passes' = 0
      /\ todo' = {} /\ slot' = <<>> /\ unwritten' = {} /\ count' = 0
      /\ stored' = [s \in 0 .. MaxMatches - 1 |-> 0]
      /\ rejected' = FALSE /\ total' = 0
      /\ UNCHANGED <<active, reason, poisoned, calls, request, result>>
  BY DEF Acquire, scanner
<1>2. DOMAIN slot' = {}
  BY <1>1
<1>3. TypeOK'
  BY <1>1, <1>2, SizesAssumption DEF TypeOK
<1>4. SlotsOwned'
  BY <1>1, <1>2, FS_EmptySet DEF SlotsOwned
<1> QED
  BY <1>1, <1>2, <1>3, <1>4 DEF Quiet, CountsLiterals, Progress, NoGaps, Counted, LiteralExact,
     LiteralAnswer

LEMMA BeginPassInv == ASSUME IInv, BeginPass PROVE IInv'
<1> USE DEF IInv
<1> DEFINE n == Lesser(Candidates - passes, PerPass)
<1>1. /\ stage = "encoding" /\ Literal /\ passes < Candidates /\ ~rejected
      /\ todo = {} /\ unwritten = {}
      /\ todo' = 0 .. Groups(n) * Threads - 1 /\ passes' = passes + n
      /\ slot' = <<>>
      /\ UNCHANGED <<active, reason, poisoned, calls, request, stage, unwritten, count, stored, rejected, total, windows, result>>
  BY DEF BeginPass, scanner
<1>2. /\ passes \in Nat /\ Candidates \in Nat \ {0} /\ Candidates - passes \in Nat
      /\ request.hits \subseteq 0 .. request.last /\ request.last \in Nat
  <2>1. passes \in Nat
    BY DEF TypeOK
  <2>2. /\ Candidates \in Nat \ {0}
        /\ request.hits \subseteq 0 .. request.last /\ request.last \in Nat
    BY <1>1, RequestShape
  <2> QED
    BY <1>1, <2>1, <2>2
<1>3. n \in Nat
  BY <1>2, LesserIsLesser, PerPassNat
<1>4. Groups(n) * Threads >= n /\ Groups(n) * Threads \in Nat
  BY <1>3, GroupsCover, SizesAssumption
<1>5. DOMAIN slot' = {}
  BY <1>1
<1> HIDE DEF n
<1>6. TypeOK'
  <2>1. todo' \subseteq Nat /\ passes' \in Nat
    BY <1>1, <1>2, <1>3, <1>4
  <2> QED
    BY <1>1, <1>5, <2>1 DEF TypeOK
<1>7. ASSUME Clean PROVE passes = 0 /\ count = 0 /\ n = Candidates
  <2>1. passes = 0 /\ count = 0
    BY <1>1, <1>2, <1>7 DEF Progress, Encoding
  <2>2. Candidates <= PerPass
    BY <1>1, <1>7 DEF Clean, OnePass
  <2> QED
    BY <1>2, <2>1, <2>2 DEF n, Lesser
<1>8. Clean' <=> Clean
  BY <1>1 DEF Clean, OnePass, Literal, Candidates
<1>9. Progress'
  <2> SUFFICES ASSUME Encoding' PROVE /\ passes' # 0 /\ passes' >= Candidates
                                      /\ request.hits \subseteq todo'
    BY <1>1, <1>5 DEF Progress, Encoding, Candidates
  <2>1. passes = 0 /\ n = Candidates
    BY <1>7, <1>8 DEF Encoding
  <2>2. request.hits \subseteq 0 .. Groups(n) * Threads - 1
    BY <1>2, <1>4, <2>1 DEF Candidates
  <2> QED
    BY <1>1, <1>2, <2>1, <2>2
<1>10. SlotsOwned' /\ NoGaps'
  BY <1>1, <1>5, <1>7, <1>8, FS_EmptySet DEF SlotsOwned, NoGaps, Encoding
<1> QED
  BY <1>1, <1>6, <1>9, <1>10 DEF Quiet, CountsLiterals, Counted, LiteralExact, LiteralAnswer, Literal

LEMMA RejectInv == ASSUME IInv, Reject PROVE IInv'
<1> USE DEF IInv
<1>1. /\ stage = "encoding" /\ Literal /\ rejected' = TRUE /\ poisoned' = TRUE
      /\ passes' = Candidates
      /\ UNCHANGED <<active, reason, calls, request, stage, todo, slot, unwritten, count, stored, total, windows, result>>
  BY DEF Reject, device
<1>2. TypeOK'
  BY <1>1, RequestShape DEF TypeOK
<1> QED
  BY <1>1, <1>2 DEF Quiet, CountsLiterals, Progress, NoGaps, SlotsOwned, Counted, LiteralExact,
     Encoding, LiteralAnswer, Clean, Literal

LEMMA MissInv == ASSUME IInv, NEW i \in todo, Miss(i) PROVE IInv'
<1> USE DEF IInv
<1>1. /\ i \notin request.hits /\ todo' = todo \ {i}
      /\ UNCHANGED <<active, reason, poisoned, calls, request, stage, passes, slot, unwritten, count, stored,
                     rejected, total, windows, result>>
  BY DEF Miss, scanner
<1>2. TypeOK'
  BY <1>1 DEF TypeOK
<1>3. UNCHANGED <<Clean, Literal, Encoding>>
  BY <1>1 DEF Clean, OnePass, Literal, Candidates, Encoding
<1>4. Progress'
  BY <1>1, <1>3 DEF Progress, Candidates
<1> QED
  BY <1>1, <1>2, <1>3, <1>4 DEF Quiet, CountsLiterals, NoGaps, SlotsOwned, Counted, LiteralExact,
     LiteralAnswer, Encoding

LEMMA ClaimInv == ASSUME IInv, NEW i \in todo, Claim(i) PROVE IInv'
<1> USE DEF IInv
<1>1. /\ i \in request.hits /\ todo' = todo \ {i}
      /\ slot' = [j \in DOMAIN slot \cup {i} |-> IF j = i THEN count ELSE slot[j]]
      /\ count' = count + 1 /\ unwritten' = unwritten \cup {i}
      /\ UNCHANGED <<active, reason, poisoned, calls, request, stage, passes, stored, rejected, total, windows, result>>
  BY DEF Claim, scanner
<1>2. stage = "encoding" /\ Literal
  BY DEF Quiet
<1>3. /\ DOMAIN slot' = DOMAIN slot \cup {i} /\ slot'[i] = count
      /\ \A j \in DOMAIN slot : j # i => slot'[j] = slot[j]
  BY <1>1
<1>4. i \in Nat /\ count \in Nat
  BY DEF TypeOK
<1>5. TypeOK'
  <2>1. /\ unwritten' \subseteq DOMAIN slot' /\ DOMAIN slot' \subseteq Nat
        /\ \A j \in DOMAIN slot' : slot'[j] \in Nat
    BY <1>1, <1>3, <1>4 DEF TypeOK
  <2>2. todo' \subseteq Nat
    BY <1>1 DEF TypeOK
  <2>3. count' \in Nat
    BY <1>1, <1>4
  <2> QED
    BY <1>1, <2>1, <2>2, <2>3 DEF TypeOK
<1>6. UNCHANGED <<Clean, Literal, Encoding>>
  BY <1>1 DEF Clean, OnePass, Literal, Candidates, Encoding
<1>7. ASSUME Encoding
      PROVE  /\ i \notin DOMAIN slot /\ DOMAIN slot \subseteq request.hits
             /\ IsFiniteSet(DOMAIN slot)
             /\ passes # 0
  <2>1. i \notin DOMAIN slot /\ DOMAIN slot \subseteq request.hits /\ passes # 0
    BY <1>7 DEF Progress
  <2> QED
    BY <1>2, <2>1, RequestShape, FS_Subset
<1>8. Progress'
  BY <1>1, <1>3, <1>6, <1>7 DEF Progress, Candidates
<1>9. NoGaps'
  <2> SUFFICES ASSUME Encoding, NEW s \in 0 .. count' - 1
               PROVE  \E j \in DOMAIN slot' : slot'[j] = s
    BY <1>6 DEF NoGaps
  <2>1. CASE s = count
    BY <1>3, <2>1
  <2>2. CASE s # count
    <3>1. s \in 0 .. count - 1
      BY <1>1, <1>4, <2>2
    <3>2. PICK j \in DOMAIN slot : slot[j] = s
      BY <3>1 DEF NoGaps
    <3> QED
      BY <1>3, <1>7, <3>2
  <2> QED
    BY <2>1, <2>2
<1>10. SlotsOwned'
  <2> SUFFICES ASSUME Encoding
               PROVE  /\ Cardinality(DOMAIN slot') = count'
                      /\ \A j, k \in DOMAIN slot' : slot'[j] = slot'[k] => j = k
                      /\ \A j \in DOMAIN slot' : slot'[j] < count'
                      /\ \A j \in DOMAIN slot' \ unwritten' : slot'[j] < MaxMatches => stored'[slot'[j]] = j
    BY <1>6 DEF SlotsOwned, Encoding
  <2>1. /\ Cardinality(DOMAIN slot) = count
        /\ \A j, k \in DOMAIN slot : slot[j] = slot[k] => j = k
        /\ \A j \in DOMAIN slot : slot[j] < count
        /\ \A j \in DOMAIN slot \ unwritten : slot[j] < MaxMatches => stored[slot[j]] = j
    BY DEF SlotsOwned, Encoding
  <2>2. Cardinality(DOMAIN slot') = count'
    BY <1>1, <1>3, <1>7, <2>1, FS_AddElement
  <2>3. \A j \in DOMAIN slot : slot[j] \in Nat
    BY DEF TypeOK
  <2>4. \A j, k \in DOMAIN slot' : slot'[j] = slot'[k] => j = k
    BY <1>3, <1>4, <1>7, <2>1, <2>3
  <2>5. \A j \in DOMAIN slot' : slot'[j] < count'
    BY <1>1, <1>3, <1>4, <1>7, <2>1, <2>3
  <2>6. \A j \in DOMAIN slot' \ unwritten' : slot'[j] < MaxMatches => stored'[slot'[j]] = j
    BY <1>1, <1>3, <1>7, <2>1
  <2> QED
    BY <2>2, <2>4, <2>5, <2>6
<1> QED
  BY <1>1, <1>2, <1>5, <1>6, <1>8, <1>9, <1>10 DEF Quiet, CountsLiterals, Counted, LiteralExact,
     LiteralAnswer, Literal

LEMMA StoreInv == ASSUME IInv, NEW i \in unwritten, Store(i) PROVE IInv'
<1> USE DEF IInv
<1>1. /\ unwritten' = unwritten \ {i}
      /\ stored' = IF slot[i] < MaxMatches THEN [stored EXCEPT ![slot[i]] = i] ELSE stored
      /\ UNCHANGED <<active, reason, poisoned, calls, request, stage, passes, todo, slot, count, rejected, total,
                     windows, result>>
  BY DEF Store, scanner
<1>2. stage = "encoding" /\ Literal
  BY DEF Quiet
<1>3. i \in DOMAIN slot /\ i \in Nat /\ slot[i] \in Nat /\ MaxMatches \in Nat
  BY SizesAssumption DEF TypeOK
<1>4. stored' \in [0 .. MaxMatches - 1 -> Nat]
  BY <1>1, <1>3 DEF TypeOK
<1>5. TypeOK'
  BY <1>1, <1>4 DEF TypeOK
<1>6. UNCHANGED <<Clean, Literal, Encoding>>
  BY <1>1 DEF Clean, OnePass, Literal, Candidates, Encoding
<1>7. Progress' /\ NoGaps'
  BY <1>1, <1>6 DEF Progress, NoGaps, Candidates
<1>8. SlotsOwned'
  <2> SUFFICES ASSUME Encoding, NEW j \in DOMAIN slot \ unwritten', slot[j] < MaxMatches
               PROVE  stored'[slot[j]] = j
    BY <1>1, <1>6 DEF SlotsOwned, Encoding
  <2>0. DOMAIN stored = 0 .. MaxMatches - 1
    BY DEF TypeOK
  <2>4. slot[j] \in Nat
    BY DEF TypeOK
  <2>5. slot[j] \in 0 .. MaxMatches - 1
    BY <1>3, <2>4
  <2>1. CASE j = i
    BY <1>1, <2>0, <2>1, <2>5
  <2>2. CASE j # i
    <3>1. j \in DOMAIN slot \ unwritten /\ slot[j] # slot[i] /\ stored[slot[j]] = j
      BY <1>1, <1>3, <2>2 DEF SlotsOwned, Encoding
    <3> QED
      BY <1>1, <2>0, <2>5, <3>1
  <2> QED
    BY <2>1, <2>2
<1> QED
  BY <1>1, <1>2, <1>5, <1>6, <1>7, <1>8 DEF Quiet, CountsLiterals, Counted, LiteralExact, LiteralAnswer, Literal

(* When all invocations have run, every needle position owns a slot and the
   slots below the cap hold distinct needle positions. *)
LEMMA AllStored ==
    ASSUME IInv, LiteralRan, Clean
    PROVE  /\ count = Cardinality(request.hits)
           /\ \A s \in 0 .. Lesser(count, MaxMatches) - 1 : stored[s] \in request.hits
           /\ \A s, t \in 0 .. Lesser(count, MaxMatches) - 1 : stored[s] = stored[t] => s = t
<1> USE DEF IInv
<1>1. Encoding /\ todo = {} /\ unwritten = {} /\ passes # 0
  <2>1. Candidates \in Nat \ {0}
    BY RequestShape DEF LiteralRan
  <2>2. passes \in Nat
    BY DEF TypeOK
  <2>3. passes >= Candidates
    BY DEF LiteralRan
  <2>4. passes # 0
    BY <2>1, <2>2, <2>3
  <2> QED
    BY <2>4 DEF LiteralRan, Encoding
<1>2. DOMAIN slot = request.hits
  BY <1>1 DEF Progress
<1>3. /\ Cardinality(DOMAIN slot) = count
      /\ \A j, k \in DOMAIN slot : slot[j] = slot[k] => j = k
      /\ \A j \in DOMAIN slot : slot[j] < MaxMatches => stored[slot[j]] = j
  BY <1>1 DEF SlotsOwned, Encoding
<1>4. count \in Nat /\ MaxMatches \in Nat
  BY SizesAssumption DEF TypeOK
<1>5. ASSUME NEW s \in 0 .. Lesser(count, MaxMatches) - 1
      PROVE  \E j \in DOMAIN slot : slot[j] = s /\ stored[s] = j
  <2>1. s \in 0 .. count - 1 /\ s < MaxMatches
    BY <1>4, LesserIsLesser
  <2>2. PICK j \in DOMAIN slot : slot[j] = s
    BY <1>1, <2>1 DEF NoGaps
  <2> QED
    BY <1>3, <2>1, <2>2
<1> QED
  BY <1>2, <1>3, <1>5

LEMMA ReadCountInv == ASSUME IInv, ReadCount PROVE IInv'
<1> USE DEF IInv
<1>1. /\ LiteralRan /\ stage' = "counted" /\ total' \in {count, 0}
      /\ \/ total' = count /\ UNCHANGED <<poisoned, rejected>>
         \/ poisoned' = TRUE /\ rejected' = TRUE
      /\ UNCHANGED <<active, reason, calls, request, passes, todo, slot, unwritten, count, stored, windows, result>>
  BY DEF ReadCount, device
<1>2. stage = "encoding" /\ Literal /\ todo = {} /\ unwritten = {}
  BY <1>1 DEF LiteralRan
<1>3. TypeOK'
  <2>1. total' \in Nat
    <3>1. count \in Nat
      BY DEF TypeOK
    <3> QED
      BY <1>1, <3>1
  <2>2. poisoned' \in BOOLEAN /\ rejected' \in BOOLEAN
    BY <1>1 DEF TypeOK
  <2>3. request' \in Requests \cup {None} /\ request' # None
    BY <1>1, <1>2 DEF TypeOK, Literal
  <2> QED
    BY <1>1, <2>1, <2>2, <2>3 DEF TypeOK
<1>4. Counted'
  <2> SUFFICES ASSUME Clean' PROVE Counted'
    BY DEF Counted
  <2>1. Clean /\ total' = count
    BY <1>1 DEF Clean, OnePass, Literal, Candidates
  <2> QED
    BY <1>1, <2>1, AllStored DEF Counted
<1> QED
  BY <1>1, <1>2, <1>3, <1>4 DEF Quiet, CountsLiterals, Progress, NoGaps, SlotsOwned, LiteralExact,
     Encoding, LiteralAnswer, Literal

(* What is returned of a clean count is exact. *)
LEMMA AnswerExact ==
    ASSUME IInv, stage = "counted", Clean
    PROVE  Exact(request, GpuAnswer(total, stored))
<1> USE DEF IInv
<1>1. Literal
  BY DEF CountsLiterals
<1> DEFINE k    == Lesser(total, MaxMatches)
           offs == {stored[s] : s \in 0 .. k - 1}
<1>2. /\ total = Cardinality(request.hits)
      /\ \A s \in 0 .. k - 1 : stored[s] \in request.hits
      /\ \A s, t \in 0 .. k - 1 : stored[s] = stored[t] => s = t
  BY <1>1 DEF Counted
<1>3. total \in Nat /\ MaxMatches \in Nat /\ k \in Nat
  BY SizesAssumption, LesserIsLesser DEF TypeOK
<1>4. IsFiniteSet(0 .. k - 1) /\ Cardinality(0 .. k - 1) = k
  <2> HIDE DEF k
  <2>1. k - 1 \in Int /\ 0 \in Int
    BY <1>3
  <2>2. /\ IsFiniteSet(0 .. k - 1)
        /\ Cardinality(0 .. k - 1) = IF 0 > k - 1 THEN 0 ELSE (k - 1) - 0 + 1
    BY <2>1, FS_Interval
  <2> QED
    BY <1>3, <2>2
<1>5. Cardinality(offs) = k
  <2> DEFINE f == [s \in 0 .. k - 1 |-> stored[s]]
  <2>1. f \in Bijection(0 .. k - 1, offs)
    BY <1>2 DEF Bijection, Injection, Surjection, IsInjective
  <2>2. ExistsBijection(0 .. k - 1, offs)
    BY <2>1 DEF ExistsBijection
  <2> QED
    BY <1>4, <2>2, FS_Bijection
<1>6. offs \subseteq request.hits
  BY <1>2
<1>7. total > MaxMatches <=> k < total
  BY <1>3 DEF Lesser
<1> QED
  BY <1>2, <1>5, <1>6, <1>7 DEF Exact, GpuAnswer

LEMMA ReadMatchesInv == ASSUME IInv, ReadMatches PROVE IInv'
<1> USE DEF IInv
<1>1. /\ stage = "counted" /\ stage' = "idle"
      /\ \/ result' = GpuAnswer(total, stored) /\ UNCHANGED <<poisoned, rejected>>
         \/ poisoned' = TRUE /\ rejected' = TRUE
      /\ UNCHANGED <<active, reason, calls, request, passes, todo, slot, unwritten, count, stored, total, windows>>
  BY DEF ReadMatches, Return, device
<1>2. TypeOK'
  BY <1>1 DEF TypeOK
<1>3. LiteralExact'
  <2> SUFFICES ASSUME Clean' PROVE Exact(request, result')
    BY <1>1 DEF LiteralExact, Exact
  <2>1. Clean /\ result' = GpuAnswer(total, stored)
    BY <1>1 DEF Clean, OnePass, Literal, Candidates
  <2> QED
    BY <1>1, <2>1, AnswerExact
<1> QED
  BY <1>1, <1>2, <1>3 DEF Quiet, CountsLiterals, Progress, NoGaps, SlotsOwned, Counted, Encoding, Literal

(* The entropy map leaves the literal scan's state alone. *)
LEMMA EntropyInv == ASSUME IInv, MapChunk \/ MapDone PROVE IInv'
<1> USE DEF IInv
<1>1. ~Literal /\ ~Literal'
  BY DEF MapChunk, MapDone, Entropy, Literal
<1>2. /\ stage = "encoding" /\ stage' \in {"encoding", "idle"}
      /\ UNCHANGED <<active, reason, calls, request, todo, slot, unwritten, count, stored, total>>
      /\ poisoned' \in BOOLEAN /\ rejected' \in BOOLEAN
  BY DEF MapChunk, MapDone, Return, device, scanner, TypeOK
<1>3. passes' \in Nat
  <2>1. CASE MapDone
    BY <2>1 DEF MapDone, TypeOK
  <2>2. CASE MapChunk
    <3>1. /\ passes < Len(Starts) /\ passes \in Nat
          /\ passes' = passes + Lesser(Len(Starts) - passes, WindowsPerPass)
      BY <2>2 DEF MapChunk, TypeOK
    <3>2. request.len \in Nat /\ request.window \in Nat /\ request.step \in Nat
      BY <2>2, RequestsAssumption DEF MapChunk, Entropy, TypeOK
    <3>3. Len(Starts) \in Nat
      <4> DEFINE last == request.len - request.window
                 n    == last \div request.step + 1
                 strided == [j \in 1 .. n |-> (j - 1) * request.step]
      <4>1. CASE request.window = 0 \/ request.step = 0 \/ request.len < request.window
        BY <4>1 DEF Starts, WindowOffsets
      <4>2. CASE ~(request.window = 0 \/ request.step = 0 \/ request.len < request.window)
        <5>1. last \in Nat /\ request.step > 0
          BY <3>2, <4>2
        <5>2. last \div request.step \in Nat
          BY <3>2, <5>1
        <5>3. n \in Nat
          BY <5>2
        <5> HIDE DEF n
        <5>4. \A j \in 1 .. n : (j - 1) * request.step \in Int
          BY <3>2, <5>3
        <5>5. strided \in Seq(Int)
          BY <5>3, <5>4
        <5>6. Starts = strided \/ Starts = Append(strided, last)
          BY <4>2 DEF Starts, WindowOffsets, n
        <5> HIDE DEF strided
        <5>7. Append(strided, last) \in Seq(Int)
          BY <5>1, <5>5
        <5> QED
          BY <5>5, <5>6, <5>7
      <4> QED
        BY <4>1, <4>2
    <3>4. Len(Starts) - passes \in Nat /\ WindowsPerPass \in Nat
      BY <3>1, <3>3, SizesAssumption
    <3>5. Lesser(Len(Starts) - passes, WindowsPerPass) \in Nat
      BY <3>4, LesserIsLesser
    <3> QED
      BY <3>1, <3>5
  <2> QED
    BY <2>1, <2>2
<1>4. TypeOK'
  BY <1>2, <1>3 DEF TypeOK
<1> QED
  BY <1>1, <1>2, <1>4 DEF Quiet, CountsLiterals, Progress, NoGaps, SlotsOwned, Counted, LiteralExact,
     Encoding, LiteralAnswer

LEMMA UncapturedInv == ASSUME IInv, Uncaptured PROVE IInv'
<1> USE DEF IInv
<1>1. /\ poisoned' = TRUE
      /\ UNCHANGED <<active, reason, calls, request, stage, passes, todo, slot, unwritten, count, stored, rejected,
                     total, windows, result>>
  BY DEF Uncaptured, device
<1>2. TypeOK'
  BY <1>1 DEF TypeOK
<1>3. UNCHANGED <<Clean, Literal, Encoding, LiteralAnswer>>
  BY <1>1 DEF Clean, OnePass, Literal, Candidates, Encoding, LiteralAnswer
<1> QED
  BY <1>1, <1>2, <1>3 DEF Quiet, CountsLiterals, Progress, NoGaps, SlotsOwned, Counted, LiteralExact,
     Encoding, LiteralAnswer, Candidates, Exact

LEMMA StutterInv == ASSUME IInv, UNCHANGED vars PROVE IInv'
<1> USE DEF IInv
<1>1. UNCHANGED <<active, reason, poisoned, calls, request, stage, passes, todo, slot, unwritten, count, stored, rejected,
                  total, windows, result>>
  BY DEF vars, scanner, device
<1>2. TypeOK'
  BY <1>1 DEF TypeOK
<1>3. UNCHANGED <<Clean, Literal, Encoding, LiteralAnswer>>
  BY <1>1 DEF Clean, OnePass, Literal, Candidates, Encoding, LiteralAnswer
<1> QED
  BY <1>1, <1>2, <1>3 DEF Quiet, CountsLiterals, Progress, NoGaps, SlotsOwned, Counted, LiteralExact,
     Encoding, LiteralAnswer, Candidates, Exact

LEMMA NextInv == ASSUME IInv, [Next]_vars PROVE IInv'
<1>1. CASE AcquirePoisoned
  <2>1. stage = "checked" /\ FallBack /\ todo = {} /\ unwritten = {}
    BY <1>1 DEF AcquirePoisoned, IInv, Quiet
  <2> QED
    BY <2>1, FallBackInv
<1>2. CASE ReadFails
  <2>1. stage # "idle" /\ FallBack /\ todo = {} /\ unwritten = {}
    BY <1>2 DEF ReadFails, LiteralRan, IInv, Quiet, Entropy, Literal
  <2> QED
    BY <2>1, FallBackInv
<1> QED
  BY <1>1, <1>2, AskInv, AcquireInv, BeginPassInv, RejectInv, MissInv, ClaimInv, StoreInv, ReadCountInv,
     ReadMatchesInv, EntropyInv, UncapturedInv, StutterInv DEF Next, Work

LEMMA Invariance == Spec => []IInv
<1>1. Init => IInv
  BY InitInv
<1>2. IInv /\ [Next]_vars => IInv'
  BY NextInv
<1> QED
  BY <1>1, <1>2, PTL DEF Spec

-----------------------------------------------------------------------------
(***************************************************************************)
(* Entropy maps                                                            *)
(***************************************************************************)
LEMMA Division ==
    ASSUME NEW a \in Nat, NEW d \in Nat \ {0}
    PROVE  /\ a \div d \in Nat /\ a % d \in 0 .. d - 1
           /\ a = (a \div d) * d + (a % d)
           /\ (a \div d) * d \in Nat
<1> DEFINE q == a \div d
           r == a % d
<1>1. q \in Nat /\ r \in 0 .. d - 1 /\ a = d * q + r
  OBVIOUS
<1>2. d * q = q * d /\ q * d \in Nat
  BY <1>1
<1> HIDE DEF q, r
<1>3. a = q * d + r
  BY <1>1, <1>2
<1> QED
  BY <1>1, <1>2, <1>3 DEF q, r

(* The strides, whose last one is at most a stride before the end. *)
LEMMA Strides ==
    ASSUME NEW q \in Nat, NEW d \in Nat
    PROVE  LET s == [k \in 1 .. q + 1 |-> (k - 1) * d] IN
           /\ s \in Seq(Nat) /\ Len(s) = q + 1
           /\ s[q + 1] = q * d
           /\ \A k \in 2 .. q + 1 : s[k] - s[k - 1] = d
<1> DEFINE s == [k \in 1 .. q + 1 |-> (k - 1) * d]
<1>1. ASSUME NEW k \in 1 .. q + 1 PROVE (k - 1) * d \in Nat
  <2>1. k - 1 \in Nat
    OBVIOUS
  <2> QED
    BY <2>1
<1>2. s \in Seq(Nat) /\ Len(s) = q + 1
  <2>1. s \in [1 .. q + 1 -> Nat]
    BY <1>1
  <2> HIDE DEF s
  <2>2. q + 1 \in Nat
    OBVIOUS
  <2> QED
    BY <2>1, <2>2
<1>3. s[q + 1] = q * d
  <2>1. q + 1 \in 1 .. q + 1 /\ (q + 1) - 1 = q
    OBVIOUS
  <2> QED
    BY <2>1
<1>4. ASSUME NEW k \in 2 .. q + 1 PROVE s[k] - s[k - 1] = d
  <2>1. k \in 1 .. q + 1 /\ k - 1 \in 1 .. q + 1 /\ k - 2 \in Nat /\ (k - 1) - 1 = k - 2 /\ k - 1 = (k - 2) + 1
    OBVIOUS
  <2>2. s[k] = (k - 1) * d /\ s[k - 1] = (k - 2) * d
    BY <2>1
  <2>3. ASSUME NEW m \in Nat PROVE (m + 1) * d = m * d + d /\ m * d \in Nat
    OBVIOUS
  <2>4. (k - 1) * d = (k - 2) * d + d /\ (k - 2) * d \in Nat
    BY <2>1, <2>3
  <2> QED
    BY <2>2, <2>4
<1> QED
  BY <1>2, <1>3, <1>4

(* The window starts the CPU lists. *)
LEMMA WindowList ==
    ASSUME NEW r, r.len \in Nat, r.window \in Nat, r.step \in Nat
    PROVE  /\ WindowOffsets(r) \in Seq(Nat)
           /\ LET S == WindowOffsets(r) IN
              r.window > 0 /\ r.step > 0 /\ r.len >= r.window =>
                /\ \E k \in DOMAIN S : S[k] + r.window = r.len
                /\ \A k \in DOMAIN S : k > 1 => S[k] - S[k - 1] \in 1 .. r.step
<1>1. CASE r.window = 0 \/ r.step = 0 \/ r.len < r.window
  <2>1. WindowOffsets(r) = <<>>
    BY <1>1 DEF WindowOffsets
  <2>2. <<>> \in Seq(Nat)
    OBVIOUS
  <2>3. ~(r.window > 0 /\ r.step > 0 /\ r.len >= r.window)
    BY <1>1
  <2> QED
    BY <2>1, <2>2, <2>3
<1>2. CASE ~(r.window = 0 \/ r.step = 0 \/ r.len < r.window)
  <2> DEFINE last    == r.len - r.window
             q       == last \div r.step
             strided == [k \in 1 .. q + 1 |-> (k - 1) * r.step]
             S       == WindowOffsets(r)
  <2>1. last \in Nat /\ r.step \in Nat \ {0} /\ last + r.window = r.len
    BY <1>2
  <2>2. S = IF last % r.step = 0 THEN strided ELSE Append(strided, last)
    BY <1>2 DEF WindowOffsets
  <2> HIDE DEF S, last
  <2>3. /\ q \in Nat /\ last % r.step \in 0 .. r.step - 1
        /\ last = q * r.step + (last % r.step)
        /\ q * r.step \in Nat
    BY <2>1, Division
  <2> HIDE DEF q
  <2>4. /\ strided \in Seq(Nat) /\ Len(strided) = q + 1
        /\ strided[q + 1] = q * r.step
        /\ \A k \in 2 .. q + 1 : strided[k] - strided[k - 1] = r.step
    BY <2>1, <2>3, Strides
  <2> HIDE DEF strided
  <2>5. CASE last % r.step = 0
    <3>1. S = strided /\ DOMAIN S = 1 .. q + 1 /\ S[q + 1] = last
      BY <2>1, <2>2, <2>3, <2>4, <2>5
    <3>2. ASSUME NEW k \in DOMAIN S, k > 1 PROVE S[k] - S[k - 1] \in 1 .. r.step
      <4>1. k \in 2 .. q + 1
        BY <2>3, <3>1, <3>2
      <4>2. S[k] - S[k - 1] = r.step
        BY <2>4, <3>1, <4>1
      <4> QED
        BY <2>1, <4>2
    <3>3. q + 1 \in DOMAIN S
      BY <2>3, <3>1
    <3> QED
      BY <2>1, <2>4, <3>1, <3>2, <3>3 DEF S
  <2>6. CASE last % r.step # 0
    <3>1. /\ S \in Seq(Nat) /\ Len(S) = q + 2
          /\ \A k \in 1 .. q + 1 : S[k] = strided[k]
          /\ S[q + 2] = last
      <4>1. S = Append(strided, last) /\ (q + 1) + 1 = q + 2
        BY <2>2, <2>3, <2>6
      <4> QED
        BY <2>1, <2>4, <4>1, AppendProperties
    <3>2. DOMAIN S = 1 .. q + 2
      BY <2>3, <3>1
    <3>3. S[q + 2] - S[q + 1] \in 1 .. r.step
      <4>1. S[q + 1] = q * r.step
        BY <2>3, <2>4, <3>1
      <4> DEFINE w == q * r.step
                 m == last % r.step
      <4>2. last = w + m /\ w \in Nat /\ m \in 0 .. r.step - 1 /\ m # 0
        BY <2>3, <2>6
      <4>3. S[q + 2] - S[q + 1] = last - w
        BY <3>1, <4>1
      <4> HIDE DEF w, m
      <4>4. last - w \in 1 .. r.step
        BY <2>1, <4>2
      <4> QED
        BY <4>3, <4>4
    <3>4. ASSUME NEW k \in 1 .. q + 2, k > 1 PROVE S[k] - S[k - 1] \in 1 .. r.step
      <4>1. CASE k = q + 2
        <5>1. k - 1 = q + 1
          BY <2>3, <4>1
        <5> QED
          BY <3>3, <4>1, <5>1
      <4>2. CASE k # q + 2
        <5>1. k \in 2 .. q + 1 /\ k \in 1 .. q + 1 /\ k - 1 \in 1 .. q + 1
          BY <2>3, <3>4, <4>2
        <5>2. S[k] - S[k - 1] = r.step
          BY <2>4, <3>1, <5>1
        <5> QED
          BY <2>1, <5>2
      <4> QED
        BY <4>1, <4>2
    <3>5. q + 2 \in DOMAIN S
      BY <2>3, <3>2
    <3> QED
      BY <2>1, <3>1, <3>2, <3>4, <3>5 DEF S
  <2> QED
    BY <2>5, <2>6
<1> QED
  BY <1>1, <1>2

(* The windows read back so far are the first ones of the list. *)
Mapping ==
    Entropy =>
        /\ stage = "encoding" /\ ~rejected => passes \in 0 .. Len(Starts) /\ windows = SubSeq(Starts, 1, passes)
        /\ stage = "idle" /\ result.by = "gpu" /\ ~rejected => result.windows = Starts

LEMMA StartsList == ASSUME TypeOK, Entropy PROVE Starts \in Seq(Nat) /\ Len(Starts) \in Nat
<1>1. request.len \in Nat /\ request.window \in Nat /\ request.step \in Nat
  BY RequestsAssumption DEF TypeOK, Entropy
<1>2. Starts \in Seq(Nat)
  BY <1>1, WindowList DEF Starts
<1> QED
  BY <1>2

LEMMA MapChunkMaps == ASSUME IInv, Mapping, MapChunk PROVE Mapping'
<1> DEFINE n == Lesser(Len(Starts) - passes, WindowsPerPass)
<1>1. /\ stage = "encoding" /\ Entropy /\ passes < Len(Starts)
      /\ passes' = passes + n
      /\ \/ windows' = windows \o Chunk(passes, n) /\ UNCHANGED rejected
         \/ rejected' = TRUE
      /\ UNCHANGED <<request, stage, result>>
  BY DEF MapChunk
<1>2. Starts \in Seq(Nat) /\ Len(Starts) \in Nat /\ passes \in Nat
  BY <1>1, StartsList DEF IInv, TypeOK
<1>3. n \in 0 .. Len(Starts) - passes
  <2>1. Len(Starts) - passes \in Nat /\ WindowsPerPass \in Nat
    BY <1>1, <1>2, SizesAssumption
  <2> QED
    BY <2>1, LesserIsLesser DEF Lesser
<1> HIDE DEF n
<1>4. Starts' = Starts
  BY <1>1 DEF Starts
<1>5. CASE ~rejected'
  <2>1. windows = SubSeq(Starts, 1, passes) /\ windows' = windows \o SubSeq(Starts, passes + 1, passes + n)
    BY <1>1, <1>5 DEF Mapping, Chunk
  <2>4. /\ 1 \in 1 .. Len(Starts) + 1 /\ passes \in 1 - 1 .. Len(Starts)
        /\ passes + n \in passes .. Len(Starts)
    BY <1>1, <1>2, <1>3
  <2>2. windows' = SubSeq(Starts, 1, passes + n)
    BY <2>1, <2>4, <1>2, ConcatAdjacentSubSeq
  <2>3. passes' \in 0 .. Len(Starts)
    BY <1>1, <1>2, <1>3
  <2> QED
    BY <1>1, <1>4, <2>2, <2>3 DEF Mapping
<1> QED
  BY <1>1, <1>5 DEF Mapping

LEMMA MapDoneMaps == ASSUME IInv, Mapping, MapDone PROVE Mapping'
<1>1. /\ stage = "encoding" /\ Entropy /\ passes >= Len(Starts)
      /\ stage' = "idle" /\ result' = [by |-> "gpu", windows |-> windows]
      /\ UNCHANGED <<request, rejected>>
  BY DEF MapDone, Return
<1>2. Starts \in Seq(Nat) /\ Len(Starts) \in Nat
  BY <1>1, StartsList DEF IInv
<1>3. Starts' = Starts
  BY <1>1 DEF Starts
<1>4. ASSUME ~rejected' PROVE result'.windows = Starts
  <2>1. passes \in 0 .. Len(Starts) /\ windows = SubSeq(Starts, 1, passes)
    BY <1>1, <1>4 DEF Mapping
  <2>2. passes = Len(Starts)
    BY <1>1, <1>2, <2>1
  <2>3. SubSeq(Starts, 1, Len(Starts)) = Starts
    BY <1>2, SubSeqFull
  <2> QED
    BY <1>1, <2>1, <2>2, <2>3
<1> QED
  BY <1>1, <1>3, <1>4 DEF Mapping

LEMMA NextMaps == ASSUME IInv, Mapping, [Next]_vars PROVE Mapping'
<1>1. CASE Ask
  <2>1. stage' = "checked" \/ (stage' = "idle" /\ result'.by = "cpu")
    BY <1>1, CpuAnswers DEF Ask, Return
  <2> QED
    BY <2>1 DEF Mapping
<1>2. CASE FallBack
  <2>1. stage' = "idle" /\ result'.by = "cpu"
    BY <1>2, CpuAnswers DEF FallBack, Return
  <2> QED
    BY <2>1 DEF Mapping
<1>3. CASE Acquire
  <2>1. stage = "checked" /\ stage' = "encoding" /\ passes' = 0 /\ windows' = <<>> /\ request' = request
    BY <1>3 DEF Acquire
  <2>2. ASSUME Entropy PROVE 0 \in 0 .. Len(Starts) /\ SubSeq(Starts, 1, 0) = <<>>
    <3>1. Len(Starts) \in Nat
      BY <2>2, StartsList DEF IInv
    <3>2. SubSeq(Starts, 1, 0) = <<>>
      BY SubSeqEmpty
    <3> QED
      BY <3>1, <3>2
  <2>3. Starts' = Starts /\ Entropy' = Entropy
    BY <2>1 DEF Starts, Entropy
  <2> QED
    BY <2>1, <2>2, <2>3 DEF Mapping
<1>4. CASE Literal /\ request' = request
  BY <1>4 DEF Mapping, Entropy, Literal
<1>5. CASE BeginPass \/ Reject \/ ReadCount \/ ReadMatches
  <2>1. Literal /\ request' = request
    BY <1>5 DEF BeginPass, Reject, ReadCount, LiteralRan, ReadMatches, IInv, CountsLiterals
  <2> QED
    BY <1>4, <2>1
<1>6. CASE (\E i \in todo : Miss(i) \/ Claim(i)) \/ (\E i \in unwritten : Store(i))
  <2>1. Literal
    BY <1>6 DEF IInv, Quiet
  <2>2. request' = request
    BY <1>6 DEF Miss, Claim, Store
  <2> QED
    BY <1>4, <2>1, <2>2
<1>7. CASE Uncaptured \/ UNCHANGED vars
  <2>1. UNCHANGED <<request, stage, passes, rejected, windows, result>>
    BY <1>7 DEF Uncaptured, vars
  <2> QED
    BY <2>1 DEF Mapping, Entropy, Starts
<1> QED
  BY <1>1, <1>2, <1>3, <1>5, <1>6, <1>7, MapChunkMaps, MapDoneMaps DEF Next, Work, AcquirePoisoned, ReadFails

(* The variables keep their types (gpu-scan/src/lib.rs:213-218, 562-693). *)
THEOREM TypeCorrect == Spec => []TypeOK
<1>1. IInv => TypeOK
  BY DEF IInv
<1> QED
  BY <1>1, Invariance, PTL

(* Slots are handed out without gaps or doubles and stores land in their own
   slot, for any number of invocations in any order (shaders.rs:120-127). *)
THEOREM SlotsAreOwned == Spec => []SlotsOwned
<1>1. IInv => SlotsOwned
  BY DEF IInv
<1> QED
  BY <1>1, Invariance, PTL

(* A GPU answer to a literal scan of one pass is exact unless the device has
   rejected one of its commands (lib.rs:562-693). *)
THEOREM LiteralScanIsExact == Spec => []LiteralExact
<1>1. IInv => LiteralExact
  BY DEF IInv
<1> QED
  BY <1>1, Invariance, PTL

(* An entropy map of a GPU whose commands were all accepted lists the windows
   of the CPU's, and these reach the last byte at steps of at most the one asked
   for, for any sizes of data, window, step and chunk (lib.rs:446-573). *)
THEOREM EntropyMapIsExact == Spec => []WindowsExact
<1>1. Init => Mapping
  BY DEF Init, Mapping, Entropy
<1>2. IInv /\ Mapping /\ [Next]_vars => Mapping'
  BY NextMaps
<1>3. IInv /\ Mapping => WindowsExact
  <2> SUFFICES ASSUME IInv, Mapping, stage = "idle", Entropy PROVE WindowsExact
    BY DEF WindowsExact
  <2>1. request.len \in Nat /\ request.window \in Nat /\ request.step \in Nat
    BY RequestsAssumption DEF IInv, TypeOK, Entropy
  <2> QED
    BY <2>1, WindowList DEF WindowsExact, Mapping, Starts
<1> QED
  BY <1>1, <1>2, <1>3, Invariance, PTL DEF Spec

=============================================================================
