------------------------------- MODULE GpuScan -------------------------------
(***************************************************************************)
(* The GPU scanner (gpu-scan/src): literal scans and entropy maps on the   *)
(* device, with the CPU as fallback.  A caller has the scanner to itself   *)
(* (&mut self), so one scan runs at a time; what runs beside it is the     *)
(* device, whose invocations claim and fill the slots of the match buffer  *)
(* in any order, and the device's error callback.                          *)
(*                                                                         *)
(* A command the device rejects is reported to the callback and has no     *)
(* effect: a rejected submission computes nothing, a rejected copy leaves  *)
(* zeroes in the staging buffer.  Bytes are abstracted to the positions at *)
(* which the needle occurs, and an entropy to the window it is of.         *)
(***************************************************************************)
EXTENDS Integers, Sequences, FiniteSets

CONSTANTS
    Requests,         \* the scans a caller may ask for
    MaxCalls,         \* bound on the scans of one scanner
    MaxMatches,       \* MAX_MATCHES
    Threads,          \* SCAN_WORKGROUP_SIZE
    GroupsPerPass,    \* 65,535 workgroups
    WindowsPerPass,   \* ENTROPY_WINDOWS_PER_PASS
    None              \* no request, no reason, no result

ASSUME SizesAssumption ==
    /\ MaxMatches \in Nat \ {0} /\ Threads \in Nat \ {0}
    /\ GroupsPerPass \in Nat \ {0} /\ WindowsPerPass \in Nat \ {0}

(* [op |-> "literal", last, hits, short] : the last candidate position, the
     positions of the needle, whether it has at most MAX_NEEDLE_BYTES;
   [op |-> "entropy", len, window, step]                                   *)
ASSUME RequestsAssumption ==
    /\ None \notin Requests /\ None \notin {"no adapter", "runtime failure"}
    /\ \A r \in Requests :
         \/ r.op = "literal" /\ r.last \in Nat /\ r.hits \subseteq 0 .. r.last /\ r.short \in BOOLEAN
         \/ r.op = "entropy" /\ r.len \in Nat /\ r.window \in Nat /\ r.step \in Nat

VARIABLES
    active,      \* inner is Some
    reason,      \* why the scanner fell back
    poisoned,    \* set by the error callback
    calls,       \* scans asked for so far
    request,     \* the running or last scan
    stage,       \* where it is
    passes,      \* candidates or windows encoded so far (done, base)
    todo,        \* invocations of the running pass that have not compared yet
    slot,        \* the slots the others have claimed
    unwritten,   \* those that have claimed and not stored
    count,       \* match_count
    stored,      \* match_offsets
    rejected,    \* the device has rejected a command of this scan
    total,       \* the count read back
    windows,     \* the entropies read back so far
    result       \* what the scan returned

scanner == <<active, reason, poisoned>>
device  == <<todo, slot, unwritten, count, stored>>
vars    == <<scanner, calls, request, stage, passes, device, rejected, total, windows, result>>

-----------------------------------------------------------------------------
(***************************************************************************)
(* The CPU implementations                                                 *)
(***************************************************************************)
Lesser(m, n) == IF m <= n THEN m ELSE n

CpuLiteral(r) ==
    LET first == {p \in r.hits : Cardinality({q \in r.hits : q < p}) < MaxMatches}
    IN  [by |-> "cpu", offsets |-> first, kept |-> Cardinality(first),
         total |-> Cardinality(r.hits), truncated |-> Cardinality(r.hits) > Cardinality(first)]

(* Window starts: every step-th, and the last one that fits. *)
WindowOffsets(r) ==
    LET last    == r.len - r.window
        strided == [k \in 1 .. last \div r.step + 1 |-> (k - 1) * r.step]
    IN  IF r.window = 0 \/ r.step = 0 \/ r.len < r.window THEN <<>>
        ELSE IF last % r.step = 0 THEN strided ELSE Append(strided, last)

CpuAnswer(r) == IF r.op = "literal" THEN CpuLiteral(r) ELSE [by |-> "cpu", windows |-> WindowOffsets(r)]

-----------------------------------------------------------------------------
Init ==
    /\ active \in BOOLEAN
    /\ reason = IF active THEN None ELSE "no adapter"
    /\ poisoned = FALSE
    /\ calls = 0
    /\ request = None /\ stage = "idle" /\ passes = 0
    /\ todo = {} /\ slot = <<>> /\ unwritten = {} /\ count = 0
    /\ stored = [s \in 0 .. MaxMatches - 1 |-> 0]
    /\ rejected = FALSE /\ total = 0 /\ windows = <<>> /\ result = None

Return(answer) == stage' = "idle" /\ result' = answer

(* find_literal, scan_entropy: the CPU answers when the GPU is not active or
   the needle is too long. *)
Ask ==
    /\ stage = "idle" /\ calls < MaxCalls
    /\ calls' = calls + 1
    /\ \E r \in Requests :
         /\ request' = r
         /\ IF active /\ ~poisoned /\ (r.op = "literal" => r.short)
            THEN stage' = "checked" /\ result' = None
            ELSE Return(CpuAnswer(r))
    /\ UNCHANGED <<scanner, passes, device, rejected, total, windows>>

(* Mutant: the scan is tried again on the device. *)
FallBack_Retries ==
    /\ reason' = "runtime failure"
    /\ stage' = "checked" /\ result' = None
    /\ UNCHANGED <<active, poisoned, calls, request, passes, device, rejected, total, windows>>

(* An Err of the GPU path: the scanner gives the device up for good and the
   CPU does the scan again. *)
FallBack ==
    /\ active' = FALSE /\ reason' = "runtime failure"
    /\ Return(CpuAnswer(request))
    /\ UNCHANGED <<poisoned, calls, request, passes, device, rejected, total, windows>>

(* Mutant: the match buffer and its counter are those of the scan before. *)
Acquire_KeepsCounter ==
    /\ stage = "checked" /\ ~poisoned
    /\ stage' = "encoding" /\ passes' = 0
    /\ todo' = {} /\ slot' = <<>> /\ unwritten' = {}
    /\ rejected' = FALSE /\ total' = 0 /\ windows' = <<>>
    /\ UNCHANGED <<scanner, calls, request, count, stored, result>>

(* active_inner, and the buffers of the scan. *)
Acquire ==
    /\ stage = "checked" /\ ~poisoned
    /\ stage' = "encoding" /\ passes' = 0
    /\ todo' = {} /\ slot' = <<>> /\ unwritten' = {} /\ count' = 0
    /\ stored' = [s \in 0 .. MaxMatches - 1 |-> 0]
    /\ rejected' = FALSE /\ total' = 0 /\ windows' = <<>>
    /\ UNCHANGED <<scanner, calls, request, result>>

AcquirePoisoned == stage = "checked" /\ poisoned /\ FallBack

-----------------------------------------------------------------------------
(***************************************************************************)
(* Literal scan: the passes of one submission run one after the other,     *)
(* their invocations in any order.  Every pass numbers its invocations     *)
(* from 0.                                                                 *)
(***************************************************************************)
Literal    == request # None /\ request.op = "literal"
Candidates == request.last + 1
PerPass    == GroupsPerPass * Threads

Groups(n)  == (n + Threads - 1) \div Threads

BeginPass ==
    /\ stage = "encoding" /\ Literal /\ passes < Candidates /\ ~rejected
    /\ todo = {} /\ unwritten = {}
    /\ LET n == Lesser(Candidates - passes, PerPass) IN
         /\ todo' = 0 .. Groups(n) * Threads - 1
         /\ passes' = passes + n
    /\ slot' = <<>>
    /\ UNCHANGED <<scanner, calls, request, stage, unwritten, count, stored, rejected, total, windows, result>>

(* The submission is rejected before anything of it has run. *)
Reject ==
    /\ stage = "encoding" /\ Literal /\ passes = 0 /\ ~rejected
    /\ poisoned' = TRUE /\ rejected' = TRUE
    /\ passes' = Candidates
    /\ UNCHANGED <<active, reason, calls, request, stage, device, total, windows, result>>

Miss(i) ==
    /\ i \in todo /\ i \notin request.hits
    /\ todo' = todo \ {i}
    /\ UNCHANGED <<scanner, calls, request, stage, passes, slot, unwritten, count, stored, rejected, total,
                   windows, result>>

(* atomicAdd *)
Claim(i) ==
    /\ i \in todo /\ i \in request.hits
    /\ todo' = todo \ {i}
    /\ slot' = [j \in DOMAIN slot \cup {i} |-> IF j = i THEN count ELSE slot[j]]
    /\ count' = count + 1
    /\ unwritten' = unwritten \cup {i}
    /\ UNCHANGED <<scanner, calls, request, stage, passes, stored, rejected, total, windows, result>>

(* Mutant: the store is not guarded. *)
Store_PastTheEnd(i) ==
    /\ i \in unwritten
    /\ unwritten' = unwritten \ {i}
    /\ stored' = [s \in DOMAIN stored \cup {slot[i]} |-> IF s = slot[i] THEN i ELSE stored[s]]
    /\ UNCHANGED <<scanner, calls, request, stage, passes, todo, slot, count, rejected, total, windows, result>>

Store(i) ==
    /\ i \in unwritten
    /\ unwritten' = unwritten \ {i}
    /\ stored' = IF slot[i] < MaxMatches THEN [stored EXCEPT ![slot[i]] = i] ELSE stored
    /\ UNCHANGED <<scanner, calls, request, stage, passes, todo, slot, count, rejected, total, windows, result>>

LiteralRan == stage = "encoding" /\ Literal /\ passes >= Candidates /\ todo = {} /\ unwritten = {}

GpuAnswer(n, offsets) ==
    [by |-> "gpu", offsets |-> {offsets[s] : s \in 0 .. Lesser(n, MaxMatches) - 1},
     kept |-> Lesser(n, MaxMatches), total |-> n, truncated |-> n > MaxMatches]

(* read_back of the counter; zero when the copy is rejected. *)
ReadCount ==
    /\ LiteralRan
    /\ \/ total' = count /\ UNCHANGED <<poisoned, rejected>>
       \/ total' = 0 /\ poisoned' = TRUE /\ rejected' = TRUE
    /\ stage' = "counted"
    /\ UNCHANGED <<active, reason, calls, request, passes, device, windows, result>>

(* read_back of the offsets, unless there are none. *)
ReadMatches ==
    /\ stage = "counted"
    /\ \/ Return(GpuAnswer(total, stored)) /\ UNCHANGED <<poisoned, rejected>>
       \/ /\ total > 0
          /\ Return(GpuAnswer(total, [s \in DOMAIN stored |-> 0]))
          /\ poisoned' = TRUE /\ rejected' = TRUE
    /\ UNCHANGED <<active, reason, calls, request, passes, device, total, windows>>

-----------------------------------------------------------------------------
(***************************************************************************)
(* Entropy map: one submission and one copy per chunk of windows.          *)
(***************************************************************************)
Entropy == request # None /\ request.op = "entropy"
Starts  == WindowOffsets(request)

(* Mutant: a chunk is read from the start of the output buffer. *)
Chunk_FromZero(base, n) == SubSeq(Starts, 1, n)

Chunk(base, n) == SubSeq(Starts, base + 1, base + n)

MapChunk ==
    /\ stage = "encoding" /\ Entropy /\ passes < Len(Starts)
    /\ LET n == Lesser(Len(Starts) - passes, WindowsPerPass) IN
         /\ passes' = passes + n
         /\ \/ windows' = windows \o Chunk(passes, n) /\ UNCHANGED <<poisoned, rejected>>
            \/ windows' = windows \o [k \in 1 .. n |-> None] /\ poisoned' = TRUE /\ rejected' = TRUE
    /\ UNCHANGED <<active, reason, calls, request, stage, device, total, result>>

MapDone ==
    /\ stage = "encoding" /\ Entropy /\ passes >= Len(Starts)
    /\ Return([by |-> "gpu", windows |-> windows])
    /\ UNCHANGED <<scanner, calls, request, passes, device, rejected, total, windows>>

(* read_back fails: the map callback is dropped or reports an error. *)
ReadFails ==
    /\ \/ LiteralRan
       \/ stage = "counted" /\ total > 0
       \/ stage = "encoding" /\ Entropy /\ passes < Len(Starts)
    /\ FallBack

(* The callback hears of an error that is not of this scan's commands. *)
Uncaptured ==
    /\ active /\ ~poisoned
    /\ poisoned' = TRUE
    /\ UNCHANGED <<active, reason, calls, request, stage, passes, device, rejected, total, windows, result>>

Work ==
    \/ Acquire \/ AcquirePoisoned \/ BeginPass \/ Reject
    \/ (\E i \in todo : Miss(i) \/ Claim(i)) \/ (\E i \in unwritten : Store(i))
    \/ ReadCount \/ ReadMatches \/ MapChunk \/ MapDone \/ ReadFails

Next == Ask \/ Work \/ Uncaptured

(* device.poll(Wait) waits for the device, which runs what was submitted. *)
Spec == Init /\ [][Next]_vars /\ WF_vars(Work)

-----------------------------------------------------------------------------
(***************************************************************************)
(* Properties                                                              *)
(***************************************************************************)
TypeOK ==
    /\ active \in BOOLEAN /\ poisoned \in BOOLEAN /\ rejected \in BOOLEAN
    /\ reason \in {None, "no adapter", "runtime failure"}
    /\ calls \in Nat /\ passes \in Nat /\ count \in Nat /\ total \in Nat
    /\ request \in Requests \cup {None}
    /\ stage \in {"idle", "checked", "encoding", "counted"}
    /\ stage # "idle" => request # None
    /\ todo \subseteq Nat
    /\ unwritten \subseteq DOMAIN slot
    /\ DOMAIN slot \subseteq Nat /\ \A i \in DOMAIN slot : slot[i] \in Nat
    /\ stored \in [0 .. MaxMatches - 1 -> Nat]

(* One pass is enough for the scan, and none of its commands was rejected. *)
OnePass == Literal => Candidates <= PerPass
Clean   == OnePass /\ ~rejected

(* However the invocations of a pass interleave, the claimed slots are numbered
   without gaps or doubles, and a store lands in the storing invocation's own
   slot: no offset is overwritten and none is lost below the cap. *)
SlotsOwned ==
    stage = "encoding" /\ Literal /\ Clean =>
        /\ Cardinality(DOMAIN slot) = count
        /\ \A i, j \in DOMAIN slot : slot[i] = slot[j] => i = j
        /\ \A i \in DOMAIN slot : slot[i] < count
        /\ \A i \in DOMAIN slot \ unwritten : slot[i] < MaxMatches => stored[slot[i]] = i

(* A literal scan the GPU answers finds what the CPU finds, capped and with the
   exact total ("an always-exact total count", gpu-scan/src/lib.rs:21), where
   one pass covers the data and no command of the scan was rejected. *)
Exact(r, a) ==
    /\ a.total = Cardinality(r.hits)
    /\ a.kept = Lesser(a.total, MaxMatches)
    /\ a.offsets \subseteq r.hits /\ Cardinality(a.offsets) = a.kept
    /\ a.truncated <=> a.kept < a.total

LiteralAnswer == stage = "idle" /\ Literal /\ result.by = "gpu"

LiteralExact == LiteralAnswer /\ Clean => Exact(request, result)

(* An entropy map has every window start of the CPU's list once, in order,
   across chunks, and the windows reach the last byte. *)
WindowsExact ==
    stage = "idle" /\ Entropy =>
        /\ result.by = "gpu" /\ ~rejected => result.windows = WindowOffsets(request)
        /\ LET r == request IN
           r.window > 0 /\ r.step > 0 /\ r.len >= r.window =>
             /\ \E k \in DOMAIN Starts : Starts[k] + r.window = r.len
             /\ \A k \in DOMAIN Starts : k > 1 => Starts[k] - Starts[k - 1] \in 1 .. r.step

(* Every scan returns, with an answer. *)
ScansReturn == stage # "idle" ~> stage = "idle" /\ result # None

=============================================================================
