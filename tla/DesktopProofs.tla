---------------------------- MODULE DesktopProofs ----------------------------
(***************************************************************************)
(* What holds of Desktop for any files, jobs, caches and limits and any    *)
(* number of scans and edits: the types, the number of reports, that no    *)
(* key is pending under an older generation or without a job on its way,   *)
(* that a placeholder awaits its text, and that an annotation is written   *)
(* to no other project than the one asked for last when it was made.       *)
(***************************************************************************)
EXTENDS Desktop, FiniteSetTheorems, SequenceTheorems, TLAPS

(* A scan has a path, and when it is over a project was asked for it.      *)
OpenedFirst == (isScanning => opened # None) /\ (~isScanning => asked = opened)

(* Of the commands cs before the i-th, or of those already taken, the last *)
(* that creates a project names p; d is what the earlier ones left open.   *)
CreatedBefore(cs, d, i, p) ==
  \/ \E j \in 1 .. i - 1 : /\ cs[j].op = "create" /\ cs[j].path = p
                           /\ \A m \in j + 1 .. i - 1 : cs[m].op # "create"
  \/ /\ d \in {None, p}
     /\ \A m \in 1 .. i - 1 : cs[m].op # "create"

(* Each annotation follows the creation of the project asked for when it   *)
(* was made, and so would one made now.                                    *)
EditsFollowCreates ==
  /\ \A i \in DOMAIN commands : commands[i].op = "edit" =>
       /\ CreatedBefore(commands, db, i, commands[i].asked)
       /\ ~commands[i].scanning => commands[i].asked = commands[i].path
  /\ CreatedBefore(commands, db, Len(commands) + 1, asked)

Inv ==
  /\ TypeOK
  /\ OpenedFirst
  /\ ReportsBounded
  /\ CacheBounded
  /\ PendingIsCurrent
  /\ PendingInFlight
  /\ PlaceholderIsPending
  /\ EditsFollowCreates
  /\ StoredWhereOpened

-----------------------------------------------------------------------------
(* Queues                                                                  *)

LEMMA SetOfAppend ==
  ASSUME NEW S, NEW s \in Seq(S), NEW e \in S
  PROVE  Append(s, e) \in Seq(S) /\ ToSet(Append(s, e)) = ToSet(s) \cup {e}
<1>1. Len(s) \in Nat /\ DOMAIN s = 1 .. Len(s)
  BY LenProperties
<1>2. /\ Append(s, e) \in Seq(S) /\ DOMAIN Append(s, e) = 1 .. Len(s) + 1
      /\ \A i \in 1 .. Len(s) : Append(s, e)[i] = s[i]
      /\ Append(s, e)[Len(s) + 1] = e
  BY <1>1, AppendProperties, LenProperties
<1>3. 1 .. Len(s) + 1 = (1 .. Len(s)) \cup {Len(s) + 1}
  BY <1>1
<1> QED
  BY <1>1, <1>2, <1>3 DEF ToSet

LEMMA SetOfTail ==
  ASSUME NEW S, NEW s \in Seq(S), s # <<>>
  PROVE  /\ Head(s) \in S /\ Tail(s) \in Seq(S)
         /\ ToSet(s) = {Head(s)} \cup ToSet(Tail(s))
<1>1. Len(s) \in Nat \ {0} /\ DOMAIN s = 1 .. Len(s) /\ Head(s) = s[1]
  BY LenProperties, EmptySeq
<1>2. Tail(s) \in Seq(S) /\ Len(Tail(s)) = Len(s) - 1 /\ \A i \in 1 .. Len(Tail(s)) : Tail(s)[i] = s[i + 1]
  BY HeadTailProperties
<1>3. DOMAIN Tail(s) = 1 .. Len(s) - 1
  BY <1>2, LenProperties
<1>4. \A x \in ToSet(s) : x \in {Head(s)} \cup ToSet(Tail(s))
  <2> SUFFICES ASSUME NEW i \in 1 .. Len(s) PROVE s[i] \in {Head(s)} \cup ToSet(Tail(s))
    BY <1>1 DEF ToSet
  <2>1. CASE i = 1
    BY <2>1, <1>1
  <2>2. CASE i # 1
    <3>1. i - 1 \in 1 .. Len(s) - 1 /\ (i - 1) + 1 = i
      BY <2>2, <1>1
    <3>2. Tail(s)[i - 1] = s[i]
      BY <3>1, <1>2
    <3> QED
      BY <3>1, <3>2, <1>3 DEF ToSet
  <2> QED
    BY <2>1, <2>2
<1>5. \A x \in ToSet(Tail(s)) : x \in ToSet(s)
  <2> SUFFICES ASSUME NEW i \in 1 .. Len(s) - 1 PROVE Tail(s)[i] \in ToSet(s)
    BY <1>3 DEF ToSet
  <2>1. Tail(s)[i] = s[i + 1] /\ i + 1 \in 1 .. Len(s)
    BY <1>1, <1>2
  <2> QED
    BY <2>1, <1>1 DEF ToSet
<1>6. Head(s) \in ToSet(s) /\ Head(s) \in S
  <2>1. 1 \in DOMAIN s /\ s[1] \in S
    BY <1>1, LenProperties
  <2> QED
    BY <2>1, <1>1 DEF ToSet
<1> QED
  BY <1>2, <1>4, <1>5, <1>6

LEMMA SetOfConcat ==
  ASSUME NEW S, NEW s \in Seq(S), NEW n \in Nat, NEW f \in [1 .. n -> S]
  PROVE  s \o f \in Seq(S) /\ ToSet(s \o f) = ToSet(s) \cup {f[i] : i \in 1 .. n}
<1>1. f \in Seq(S) /\ Len(f) = n /\ DOMAIN f = 1 .. n
  BY SeqDef, LenProperties
<1>2. /\ s \o f \in Seq(S) /\ Len(s \o f) = Len(s) + n
      /\ \A i \in 1 .. Len(s) + n : (s \o f)[i] = IF i <= Len(s) THEN s[i] ELSE f[i - Len(s)]
  BY <1>1, ConcatProperties
<1>3. Len(s) \in Nat /\ DOMAIN s = 1 .. Len(s) /\ DOMAIN (s \o f) = 1 .. Len(s) + n
  BY <1>2, LenProperties
<1>4. ASSUME NEW x \in ToSet(s \o f) PROVE x \in ToSet(s) \cup {f[i] : i \in 1 .. n}
  <2>1. PICK i \in 1 .. Len(s) + n : x = (s \o f)[i]
    BY <1>3 DEF ToSet
  <2>2. CASE i <= Len(s)
    BY <2>1, <2>2, <1>2, <1>3 DEF ToSet
  <2>3. CASE ~(i <= Len(s))
    <3>1. i - Len(s) \in 1 .. n
      BY <2>3, <1>3
    <3> QED
      BY <2>1, <2>3, <3>1, <1>2
  <2> QED
    BY <2>2, <2>3
<1>5. ASSUME NEW x \in ToSet(s) PROVE x \in ToSet(s \o f)
  <2>1. PICK i \in 1 .. Len(s) : x = s[i]
    BY <1>3 DEF ToSet
  <2>2. i \in 1 .. Len(s) + n /\ i <= Len(s)
    BY <1>3
  <2>3. x = (s \o f)[i]
    BY <2>1, <2>2, <1>2
  <2> QED
    BY <2>2, <2>3, <1>3 DEF ToSet
<1>6. ASSUME NEW i \in 1 .. n PROVE f[i] \in ToSet(s \o f)
  <2>1. Len(s) + i \in 1 .. Len(s) + n /\ ~(Len(s) + i <= Len(s)) /\ (Len(s) + i) - Len(s) = i
    BY <1>3
  <2>2. f[i] = (s \o f)[Len(s) + i]
    BY <2>1, <1>2
  <2> QED
    BY <2>1, <2>2, <1>3 DEF ToSet
<1> QED
  BY <1>2, <1>4, <1>5, <1>6

LEMMA InSetOfSeq ==
  ASSUME NEW S, NEW s \in Seq(S)
  PROVE  ToSet(s) \subseteq S
BY LenProperties DEF ToSet

-----------------------------------------------------------------------------
(* enqueue_job: what it queues and what it marks.                          *)

LEMMA CurrentType == TypeOK /\ reports # <<>> => Current \in Files
<1> SUFFICES ASSUME TypeOK, reports # <<>> PROVE Current \in Files
  OBVIOUS
<1>1. reports \in Seq(Files)
  BY DEF TypeOK
<1>2. Len(reports) \in Nat \ {0} /\ reports[Len(reports)] \in Files
  BY <1>1, LenProperties, EmptySeq
<1> QED
  BY <1>2 DEF Current, Last

LEMMA UnqueuedType ==
  ASSUME NEW keys \in Seq(Keys), NEW s \in Unqueued(keys)
  PROVE  \E n \in Nat : s \in [1 .. n -> DOMAIN keys]
<1> DEFINE S == {i \in DOMAIN keys : pending[keys[i]] = None}
<1>1. DOMAIN keys = 1 .. Len(keys) /\ Len(keys) \in Nat
  BY LenProperties
<1>2. IsFiniteSet(DOMAIN keys)
  BY <1>1, FS_Interval
<1>3. IsFiniteSet(S) /\ S \subseteq DOMAIN keys
  BY <1>2, FS_Subset
<1>4. Cardinality(S) \in Nat
  BY <1>3, FS_CardinalityType
<1>5. s \in [1 .. Cardinality(S) -> S]
  BY DEF Unqueued
<1>6. s \in [1 .. Cardinality(S) -> DOMAIN keys]
  BY <1>3, <1>5
<1> QED
  BY <1>4, <1>6

LEMMA EnqueueEffect ==
  ASSUME TypeOK, reports # <<>>, NEW keys \in Seq(Keys), Enqueue(keys)
  PROVE  /\ jobs' \in Seq(Job) /\ pending' \in [Keys -> Nat \cup {None}]
         /\ ToSet(jobs) \subseteq ToSet(jobs')
         /\ \A k \in Keys : \/ pending'[k] = pending[k]
                            \/ /\ pending'[k] = generation
                               /\ \E j \in ToSet(jobs') : j.key = k
<1>0. jobs \in Seq(Job) /\ pending \in [Keys -> Nat \cup {None}] /\ generation \in Nat
  BY DEF TypeOK
<1>1. CASE worker # "alive"
  BY <1>0, <1>1 DEF Enqueue
<1>2. CASE worker = "alive"
  <2>1. PICK s \in Unqueued(keys) :
          /\ jobs' = jobs \o [i \in DOMAIN s |-> [key |-> keys[s[i]], file |-> Current]]
          /\ pending' = [k \in Keys |-> IF \E i \in DOMAIN s : k = keys[s[i]]
                                           THEN generation ELSE pending[k]]
    BY <1>2 DEF Enqueue
  <2>2. PICK n \in Nat : s \in [1 .. n -> DOMAIN keys]
    BY UnqueuedType
  <2> DEFINE f == [i \in 1 .. n |-> [key |-> keys[s[i]], file |-> Current]]
  <2>3. \A i \in 1 .. n : keys[s[i]] \in Keys
    BY <2>2, LenProperties
  <2>4. f \in [1 .. n -> Job]
    BY <2>3, CurrentType DEF Job
  <2>5. jobs' = jobs \o f
    BY <2>1, <2>2
  <2>6. jobs' \in Seq(Job) /\ ToSet(jobs') = ToSet(jobs) \cup {f[i] : i \in 1 .. n}
    <3> HIDE DEF f
    <3> QED
      BY <2>4, <2>5, <1>0, SetOfConcat
  <2>7. pending' \in [Keys -> Nat \cup {None}]
    BY <2>1, <1>0
  <2>8. ASSUME NEW k \in Keys, pending'[k] # pending[k]
        PROVE  pending'[k] = generation /\ \E j \in ToSet(jobs') : j.key = k
    <3>1. PICK i \in 1 .. n : k = keys[s[i]]
      BY <2>1, <2>2, <2>8
    <3>2. f[i] \in ToSet(jobs') /\ f[i].key = k
      BY <2>6, <3>1
    <3> QED
      BY <2>1, <2>2, <3>1, <3>2
  <2> QED
    BY <2>6, <2>7, <2>8
<1> QED
  BY <1>1, <1>2

(* A single key that was not pending is pending afterwards.                *)
LEMMA EnqueueMarks ==
  ASSUME TypeOK, NEW k \in Keys, worker = "alive", pending[k] = None, Enqueue(<<k>>)
  PROVE  pending'[k] = generation
<1>1. PICK s \in Unqueued(<<k>>) :
        pending' = [l \in Keys |-> IF \E i \in DOMAIN s : l = <<k>>[s[i]]
                                      THEN generation ELSE pending[l]]
  BY DEF Enqueue
<1>2. {i \in DOMAIN <<k>> : pending[<<k>>[i]] = None} = {1}
  OBVIOUS
<1>3. s \in [1 .. Cardinality({1}) -> {1}]
  BY <1>2 DEF Unqueued
<1>4. Cardinality({1}) = 1
  BY FS_Singleton
<1>5. 1 \in DOMAIN s /\ s[1] = 1
  BY <1>3, <1>4
<1>6. \E i \in DOMAIN s : k = <<k>>[s[i]]
  BY <1>5
<1> QED
  BY <1>1, <1>6

-----------------------------------------------------------------------------
(* The types.                                                              *)

Types == TypeOK /\ OpenedFirst

LEMMA ShownType == Files \subseteq Shown /\ {None, Placeholder, NoFile} \subseteq Shown
BY DEF Shown

LEMMA ResetType ==
  ASSUME TypeOK, ResetPerFileState
  PROVE  /\ pending' \in [Keys -> Nat \cup {None}]
         /\ cache' \in [Keys -> Shown] /\ generation' \in Nat
BY ShownType DEF TypeOK, ResetPerFileState

LEMMA InsertType ==
  ASSUME NEW shown \in [Keys -> Shown], NEW k \in Keys, NEW v \in Shown, Insert(shown, k, v)
  PROVE  /\ cache' \in [Keys -> Shown] /\ cache'[k] = v
         /\ \A j \in Keys : j # k => cache'[j] \in {shown[j], None}
BY ShownType DEF Insert

(* Asking for an analysis, whichever way.                                  *)
LEMMA StartType ==
  ASSUME TypeOK, NEW k \in Keys, NEW shown \in [Keys -> Shown], Start(shown, k)
  PROVE  /\ jobs' \in Seq(Job) /\ pending' \in [Keys -> Nat \cup {None}]
         /\ cache' \in [Keys -> Shown]
<1>0. jobs \in Seq(Job) /\ pending \in [Keys -> Nat \cup {None}]
  BY DEF TypeOK
<1>1. <<k>> \in Seq(Keys)
  OBVIOUS
<1>2. CASE reports # <<>> /\ Enqueue(<<k>>)
  <2>1. jobs' \in Seq(Job) /\ pending' \in [Keys -> Nat \cup {None}]
    BY <1>1, <1>2, EnqueueEffect
  <2>2. cache' \in [Keys -> Shown]
    <3>1. CASE k \in Decompiles /\ Insert(shown, k, Placeholder)
      BY <3>1, InsertType, ShownType
    <3>2. CASE cache' \in {shown, [shown EXCEPT ![k] = Placeholder], [shown EXCEPT ![k] = NoFile]}
      BY <3>2, ShownType
    <3> QED
      BY <3>1, <3>2 DEF Start, RequestAt, DecompileAt
  <2> QED
    BY <2>1, <2>2
<1>3. CASE /\ cache' \in {[shown EXCEPT ![k] = Placeholder], [shown EXCEPT ![k] = NoFile]}
           /\ UNCHANGED <<jobs, pending>>
  BY <1>0, <1>3, ShownType
<1> QED
  BY <1>2, <1>3 DEF Start, RequestAt, DecompileAt

LEMMA TypesStep == Types /\ [Next]_vars => Types'
<1> SUFFICES ASSUME Types, [Next]_vars PROVE Types'
  OBVIOUS
<1> USE DEF Types
<1>1. ASSUME NEW paths \in Paths, ScanFiles(paths) PROVE Types'
  <2>1. paths \in Seq(Files) /\ paths # <<>>
    <3>1. PICK n \in 1 .. MaxPaths : paths \in [1 .. n -> Files]
      BY DEF Paths
    <3>2. n \in Nat \ {0}
      BY <3>1, BoundsAssumption
    <3>3. paths \in Seq(Files) /\ Len(paths) = n
      BY <3>1, <3>2, SeqDef, LenProperties
    <3> QED
      BY <3>2, <3>3
  <2>2. Head(paths) \in Files
    BY <2>1, SetOfTail
  <2>3. opened' \in Files /\ opened' # None
    BY <1>1, <2>2, NamesAssumption DEF ScanFiles
  <2>4. <<>> \in Seq(Files \cup {Done})
    OBVIOUS
  <2>5. /\ scanLeft' = paths /\ scanThread' = "running" /\ scanMsgs' = <<>> /\ isScanning' = TRUE
        /\ UNCHANGED <<reports, generation, pending, cache, work, store, edits>>
    BY <1>1 DEF ScanFiles
  <2>6. TypeOK'
    BY <2>1, <2>3, <2>4, <2>5 DEF TypeOK, work, store
  <2> QED
    BY <2>3, <2>5, <2>6 DEF OpenedFirst
<1>2. CASE ScanSends
  <2>1. /\ UNCHANGED <<ui, work, store, counts>> /\ scanThread' \in {"running", "gone"}
        /\ scanLeft' \in Seq(Files) /\ scanMsgs' \in Seq(Files \cup {Done})
    <3>0. scanLeft \in Seq(Files) /\ scanMsgs \in Seq(Files \cup {Done}) /\ scanThread = "running"
      BY <1>2 DEF ScanSends, TypeOK
    <3>1. CASE scanLeft = <<>>
      <4>1. Append(scanMsgs, Done) \in Seq(Files \cup {Done})
        BY <3>0, SetOfAppend
      <4> QED
        BY <1>2, <3>0, <3>1, <4>1 DEF ScanSends
    <3>2. CASE scanLeft # <<>>
      <4>1. Head(scanLeft) \in Files /\ Tail(scanLeft) \in Seq(Files)
        BY <3>0, <3>2, SetOfTail
      <4>2. Append(scanMsgs, Head(scanLeft)) \in Seq(Files \cup {Done})
        BY <3>0, <4>1, SetOfAppend
      <4> QED
        BY <1>2, <3>0, <3>2, <4>1, <4>2 DEF ScanSends
    <3> QED
      BY <3>1, <3>2
  <2> QED
    BY <2>1 DEF TypeOK, OpenedFirst, ui, work, store
<1>3. CASE ScanPanics
  BY <1>3 DEF ScanPanics, TypeOK, OpenedFirst, ui, work, store
<1>4. CASE TakeReport
  <2>1. reports' \in Seq(Files) /\ scanMsgs' \in Seq(Files \cup {Done})
    <3>0. reports \in Seq(Files) /\ scanMsgs \in Seq(Files \cup {Done}) /\ scanMsgs # <<>>
          /\ Head(scanMsgs) \in Files
      BY <1>4 DEF TakeReport, TypeOK
    <3>1. (IF Len(reports) >= MaxReports THEN Tail(reports) ELSE reports) \in Seq(Files)
      <4>1. CASE Len(reports) >= MaxReports
        <5>1. reports # <<>>
          BY <4>1, LimitsAssumption
        <5> QED
          BY <3>0, <4>1, <5>1, SetOfTail
      <4> QED
        BY <3>0, <4>1
    <3>2. Tail(scanMsgs) \in Seq(Files \cup {Done})
      BY <3>0, SetOfTail
    <3> QED
      BY <1>4, <3>0, <3>1, <3>2, SetOfAppend DEF TakeReport
  <2>2. /\ UNCHANGED <<isScanning, opened, scanLeft, scanThread, work, store, counts>> /\ isScanning
        /\ pending' \in [Keys -> Nat \cup {None}] /\ cache' \in [Keys -> Shown] /\ generation' \in Nat
    BY <1>4, ResetType DEF TakeReport
  <2> QED
    BY <2>1, <2>2 DEF TypeOK, OpenedFirst, work, store
<1>5. CASE FinishScan
  <2>1. jobs' \in Seq(Job) /\ pending' \in [Keys -> Nat \cup {None}]
    <3>1. CASE reports # <<>>
      <4>1. Autos \in Seq(Keys)
        BY KeysAssumption, SeqDef DEF Keys
      <4> QED
        BY <1>5, <3>1, <4>1, EnqueueEffect DEF FinishScan
    <3>2. CASE reports = <<>>
      BY <1>5, <3>2 DEF FinishScan, TypeOK
    <3> QED
      BY <3>1, <3>2
  <2>2. commands' \in Seq(Command)
    <3>1. [op |-> "create", path |-> opened] \in Command
      BY <1>5 DEF FinishScan, TypeOK, OpenedFirst, Command
    <3>2. commands \in Seq(Command)
      BY DEF TypeOK, Command
    <3>3. commands' = Append(commands, [op |-> "create", path |-> opened])
      BY <1>5 DEF FinishScan
    <3> QED
      BY <3>1, <3>2, <3>3, SetOfAppend
  <2>3. <<>> \in Seq(Files \cup {Done})
    OBVIOUS
  <2>4. /\ isScanning /\ isScanning' = FALSE /\ scanMsgs' = <<>> /\ asked' = opened
        /\ UNCHANGED <<reports, generation, cache, opened, scanLeft, scanThread, running,
                       worker, results, db, onDisk, stored, counts>>
    BY <1>5 DEF FinishScan
  <2> QED
    BY <2>1, <2>2, <2>3, <2>4 DEF TypeOK, OpenedFirst, Command
<1>6. ASSUME NEW k \in Keys, Request(k) \/ Refresh(k) PROVE Types'
  <2>1. PICK shown \in [Keys -> Shown] : Start(shown, k)
    <3>1. cache \in [Keys -> Shown] /\ [cache EXCEPT ![k] = None] \in [Keys -> Shown]
      BY ShownType DEF TypeOK
    <3> QED
      BY <1>6, <3>1 DEF Request, Refresh
  <2>2. UNCHANGED <<reports, generation, isScanning, opened, scan, running, worker,
                    results, store, counts>>
    BY <2>1 DEF Start
  <2>3. jobs' \in Seq(Job) /\ pending' \in [Keys -> Nat \cup {None}] /\ cache' \in [Keys -> Shown]
    BY <2>1, StartType
  <2> QED
    BY <2>2, <2>3 DEF TypeOK, OpenedFirst, scan, store
<1>7. CASE WorkerTakes
  <2>1. running' \in Job /\ jobs' \in Seq(Job) /\ UNCHANGED <<ui, scan, worker, results, store, counts>>
    BY <1>7, SetOfTail DEF WorkerTakes, TypeOK
  <2> QED
    BY <2>1 DEF TypeOK, OpenedFirst, ui, scan, store
<1>8. CASE WorkerAnswers
  <2>1. results' \in Seq(Job) /\ running' = None /\ UNCHANGED <<ui, scan, jobs, worker, store, counts>>
    <3>1. running \in Job /\ results \in Seq(Job)
      BY <1>8 DEF WorkerAnswers, TypeOK
    <3> QED
      BY <1>8, <3>1, SetOfAppend DEF WorkerAnswers
  <2> QED
    BY <2>1 DEF TypeOK, OpenedFirst, ui, scan, store
<1>9. CASE WorkerPanics
  <2>1. <<>> \in Seq(Job)
    OBVIOUS
  <2>2. /\ worker' = "gone" /\ running' = None /\ jobs' = <<>>
        /\ UNCHANGED <<ui, scan, results, store, counts>>
    BY <1>9 DEF WorkerPanics
  <2> QED
    BY <2>1, <2>2 DEF TypeOK, OpenedFirst, ui, scan, store
<1>10. CASE TakeResult
  <2>0. results \in Seq(Job) /\ results # <<>> /\ cache \in [Keys -> Shown]
        /\ pending \in [Keys -> Nat \cup {None}]
    BY <1>10 DEF TakeResult, TypeOK
  <2>1. Head(results) \in Job /\ Tail(results) \in Seq(Job)
    BY <2>0, SetOfTail
  <2>2. Head(results).key \in Keys /\ Head(results).file \in Shown
    BY <2>1, ShownType DEF Job
  <2>3. cache' \in [Keys -> Shown]
    BY <1>10, <2>0, <2>2, InsertType DEF TakeResult
  <2>4. /\ pending' \in [Keys -> Nat \cup {None}] /\ results' = Tail(results)
        /\ UNCHANGED <<reports, generation, isScanning, opened, scan, jobs, running,
                       worker, store, counts>>
    BY <1>10, <2>0 DEF TakeResult
  <2> QED
    BY <2>1, <2>3, <2>4 DEF TypeOK, OpenedFirst, scan, store
<1>11. CASE Annotate
  <2> DEFINE c == [op |-> "edit", path |-> opened, asked |-> asked, scanning |-> isScanning]
  <2>1. c \in Command
    BY DEF TypeOK, Command
  <2>2. commands \in Seq(Command)
    BY DEF TypeOK, Command
  <2>3. commands' = Append(commands, c) /\ UNCHANGED <<ui, scan, work, db, onDisk, asked, stored>>
    BY <1>11 DEF Annotate
  <2>4. commands' \in Seq(Command)
    BY <2>1, <2>2, <2>3, SetOfAppend
  <2> HIDE DEF c
  <2> QED
    BY <2>3, <2>4 DEF TypeOK, OpenedFirst, Command, ui, scan, work
<1>12. CASE DbWorks
  <2>0. commands \in Seq(Command) /\ commands # <<>>
    BY <1>12 DEF DbWorks, TypeOK, Command
  <2>1. Head(commands) \in Command /\ Tail(commands) \in Seq(Command)
    BY <2>0, SetOfTail
  <2> DEFINE S == [project : Files, path : Files \cup {None}, asked : Files \cup {None}, scanning : BOOLEAN]
  <2>2. db' \in Files \cup {None} /\ onDisk' \subseteq Files /\ stored' \subseteq S
    <3>0. db \in Files \cup {None} /\ onDisk \subseteq Files /\ stored \subseteq S
      BY DEF TypeOK
    <3>2. CASE Head(commands).op = "create"
      <4>1. Head(commands).path \in Files
        BY <2>1, <3>2 DEF Command
      <4> QED
        BY <1>12, <3>0, <3>2, <4>1 DEF DbWorks, CreateProject
    <3>3. CASE Head(commands).op = "edit"
      <4> DEFINE c == Head(commands)
      <4>1. c.path \in Files \cup {None} /\ c.asked \in Files \cup {None} /\ c.scanning \in BOOLEAN
        BY <2>1, <3>3 DEF Command
      <4>2. StoreEdit(c)
        BY <1>12, <3>3 DEF DbWorks
      <4> HIDE DEF c
      <4> QED
        BY <3>0, <4>1, <4>2 DEF StoreEdit
    <3> QED
      BY <2>1, <3>2, <3>3 DEF Command
  <2>3. commands' = Tail(commands) /\ UNCHANGED <<ui, scan, work, asked, counts>>
    BY <1>12 DEF DbWorks
  <2> QED
    BY <2>1, <2>2, <2>3 DEF TypeOK, OpenedFirst, Command, ui, scan, work
<1>13. CASE UNCHANGED vars
  BY <1>13 DEF vars, ui, scan, work, store, counts, TypeOK, OpenedFirst
<1> QED
  BY <1>1, <1>2, <1>3, <1>4, <1>5, <1>6, <1>7, <1>8, <1>9, <1>10, <1>11, <1>12, <1>13 DEF Next, SetBookmark, ConfirmDialog

-----------------------------------------------------------------------------
(* What the steps do to the queues and to what is pending.                 *)

LEMMA PendingCurrentStep == Types /\ PendingIsCurrent /\ [Next]_vars => PendingIsCurrent'
<1> SUFFICES ASSUME Types, PendingIsCurrent, [Next]_vars PROVE PendingIsCurrent'
  OBVIOUS
<1>0. pending \in [Keys -> Nat \cup {None}] /\ TypeOK
  BY DEF Types, TypeOK
<1>1. CASE TakeReport
  BY <1>1 DEF TakeReport, ResetPerFileState, PendingIsCurrent
<1>2. CASE FinishScan
  <2>1. UNCHANGED generation
    BY <1>2 DEF FinishScan
  <2>2. CASE reports # <<>>
    <3>1. Autos \in Seq(Keys)
      BY KeysAssumption, SeqDef DEF Keys
    <3>2. \A k \in Keys : pending'[k] \in {pending[k], generation}
      BY <1>0, <1>2, <2>2, <3>1, EnqueueEffect DEF FinishScan
    <3> QED
      BY <2>1, <3>2 DEF PendingIsCurrent
  <2>3. CASE reports = <<>>
    BY <1>2, <2>1, <2>3 DEF FinishScan, PendingIsCurrent
  <2> QED
    BY <2>2, <2>3
<1>3. ASSUME NEW k \in Keys, Request(k) \/ Refresh(k) PROVE PendingIsCurrent'
  <2>1. UNCHANGED generation
    BY <1>3 DEF Request, Refresh, Start
  <2>2. CASE UNCHANGED pending
    BY <2>1, <2>2 DEF PendingIsCurrent
  <2>3. CASE reports # <<>> /\ Enqueue(<<k>>)
    <3>1. <<k>> \in Seq(Keys)
      OBVIOUS
    <3>2. \A j \in Keys : pending'[j] \in {pending[j], generation}
      BY <1>0, <2>3, <3>1, EnqueueEffect
    <3> QED
      BY <2>1, <3>2 DEF PendingIsCurrent
  <2> QED
    BY <1>3, <2>2, <2>3 DEF Request, Refresh, Start, RequestAt, DecompileAt
<1>4. CASE TakeResult
  BY <1>0, <1>4 DEF TakeResult, PendingIsCurrent
<1>5. CASE UNCHANGED <<pending, generation>>
  BY <1>5 DEF PendingIsCurrent
<1> QED
  BY <1>1, <1>2, <1>3, <1>4, <1>5
  DEF Next, ScanFiles, ScanSends, ScanPanics, WorkerTakes, WorkerAnswers, WorkerPanics,
      SetBookmark, ConfirmDialog, Annotate, DbWorks, vars, ui

LEMMA ReportsBoundedStep == Types /\ ReportsBounded /\ [Next]_vars => ReportsBounded'
<1> SUFFICES ASSUME Types, ReportsBounded, [Next]_vars PROVE ReportsBounded'
  OBVIOUS
<1>0. reports \in Seq(Files) /\ Len(reports) \in Nat /\ MaxReports \in Nat \ {0}
  BY LimitsAssumption, LenProperties DEF Types, TypeOK
<1>1. CASE TakeReport
  <2>1. CASE Len(reports) >= MaxReports
    <3>1. Len(Tail(reports)) = Len(reports) - 1 /\ Tail(reports) \in Seq(Files)
      BY <1>0, <2>1, HeadTailProperties, EmptySeq
    <3>2. Len(reports') = Len(reports)
      BY <1>0, <1>1, <2>1, <3>1, AppendProperties DEF TakeReport
    <3> QED
      BY <3>2 DEF ReportsBounded
  <2>2. CASE ~(Len(reports) >= MaxReports)
    <3>1. Len(reports') = Len(reports) + 1
      BY <1>0, <1>1, <2>2, AppendProperties DEF TakeReport
    <3> QED
      BY <1>0, <2>2, <3>1 DEF ReportsBounded
  <2> QED
    BY <2>1, <2>2
<1>2. CASE UNCHANGED reports
  BY <1>2 DEF ReportsBounded
<1> QED
  BY <1>1, <1>2
  DEF Next, ScanFiles, ScanSends, ScanPanics, FinishScan, Request, Refresh, Start, WorkerTakes,
      WorkerAnswers, WorkerPanics, TakeResult, SetBookmark, ConfirmDialog, Annotate, DbWorks, vars, ui

(* A key has a job on its way.                                             *)
OnItsWay(k) == \E j \in InFlight : j # None /\ j.key = k

LEMMA InFlightStep == Types /\ PendingInFlight /\ [Next]_vars => PendingInFlight'
<1> SUFFICES ASSUME Types, PendingInFlight, [Next]_vars, worker' = "alive",
                    NEW k \in Keys, pending'[k] # None
             PROVE  OnItsWay(k)'
  BY DEF PendingInFlight, OnItsWay
<1>0. /\ TypeOK /\ pending \in [Keys -> Nat \cup {None}]
      /\ jobs \in Seq(Job) /\ results \in Seq(Job) /\ running \in Job \cup {None}
  BY DEF Types, TypeOK
<1>a. worker = "alive"
  BY DEF Next, ScanFiles, ScanSends, ScanPanics, TakeReport, FinishScan, Request, Refresh, Start,
         WorkerTakes, WorkerAnswers, WorkerPanics, TakeResult, SetBookmark, ConfirmDialog, Annotate, DbWorks, vars, work
<1>b. pending[k] # None => OnItsWay(k)
  BY <1>a DEF PendingInFlight, OnItsWay
<1>1. CASE TakeReport
  BY <1>1 DEF TakeReport, ResetPerFileState
<1>2. ASSUME reports # <<>>, NEW keys \in Seq(Keys), Enqueue(keys), UNCHANGED <<running, results>>
      PROVE  OnItsWay(k)'
  <2>1. /\ ToSet(jobs) \subseteq ToSet(jobs') /\ jobs' \in Seq(Job)
        /\ \/ pending'[k] = pending[k]
           \/ \E j \in ToSet(jobs') : j.key = k
    BY <1>0, <1>2, EnqueueEffect
  <2>2. CASE pending'[k] = pending[k]
    BY <1>b, <1>2, <2>1, <2>2 DEF OnItsWay, InFlight
  <2>3. CASE \E j \in ToSet(jobs') : j.key = k
    <3>1. None \notin ToSet(jobs')
      BY <2>1, InSetOfSeq, NamesAssumption
    <3> QED
      BY <2>3, <3>1 DEF OnItsWay, InFlight
  <2> QED
    BY <2>1, <2>2, <2>3
<1>3. CASE UNCHANGED <<pending, jobs, running, results>>
  BY <1>b, <1>3 DEF OnItsWay, InFlight
<1>4. CASE FinishScan
  <2>1. Autos \in Seq(Keys)
    BY KeysAssumption, SeqDef DEF Keys
  <2> QED
    BY <1>2, <1>3, <1>4, <2>1 DEF FinishScan
<1>5. ASSUME NEW l \in Keys, Request(l) \/ Refresh(l) PROVE OnItsWay(k)'
  <2>1. <<l>> \in Seq(Keys) /\ UNCHANGED <<running, results>>
    BY <1>5 DEF Request, Refresh, Start
  <2>2. (reports # <<>> /\ Enqueue(<<l>>)) \/ UNCHANGED <<pending, jobs>>
    BY <1>5 DEF Request, Refresh, Start, RequestAt, DecompileAt
  <2> QED
    BY <1>2, <1>3, <2>1, <2>2
<1>6. CASE WorkerTakes
  <2>1. ToSet(jobs) = {Head(jobs)} \cup ToSet(Tail(jobs))
    BY <1>0, <1>6, SetOfTail DEF WorkerTakes
  <2>2. running = None /\ running' = Head(jobs) /\ jobs' = Tail(jobs) /\ UNCHANGED <<results, pending>>
    BY <1>6 DEF WorkerTakes, ui
  <2> QED
    BY <1>b, <2>1, <2>2 DEF OnItsWay, InFlight
<1>7. CASE WorkerAnswers
  <2>1. running \in Job /\ results' = Append(results, running) /\ UNCHANGED <<jobs, pending>>
    BY <1>0, <1>7 DEF WorkerAnswers, ui
  <2>2. ToSet(results') = ToSet(results) \cup {running}
    BY <1>0, <2>1, SetOfAppend
  <2> QED
    BY <1>b, <2>1, <2>2 DEF OnItsWay, InFlight
<1>8. CASE WorkerPanics
  BY <1>8 DEF WorkerPanics
<1>9. CASE TakeResult
  <2>1. ToSet(results) = {Head(results)} \cup ToSet(Tail(results)) /\ Head(results) \in Job
    BY <1>0, <1>9, SetOfTail DEF TakeResult
  <2>2. /\ results' = Tail(results) /\ UNCHANGED <<jobs, running>>
        /\ pending' = [pending EXCEPT ![Head(results).key] = None]
    BY <1>9 DEF TakeResult
  <2>3. pending[k] # None /\ k # Head(results).key
    BY <1>0, <2>2
  <2> QED
    BY <1>b, <2>1, <2>2, <2>3 DEF OnItsWay, InFlight
<1> QED
  BY <1>1, <1>3, <1>4, <1>5, <1>6, <1>7, <1>8, <1>9
  DEF Next, ScanFiles, ScanSends, ScanPanics, SetBookmark, ConfirmDialog, Annotate, DbWorks, vars, ui, work

(* While the worker lives, a result that is not fresh is of a key that is  *)
(* not pending, so it takes no placeholder's job away.                     *)
LEMMA PlaceholderStep ==
  Types /\ PendingIsCurrent /\ PlaceholderIsPending /\ [Next]_vars => PlaceholderIsPending'
<1> SUFFICES ASSUME Types, PendingIsCurrent, PlaceholderIsPending, [Next]_vars,
                    worker' = "alive", NEW k \in Decompiles, cache'[k] = Placeholder
             PROVE  pending'[k] # None
  BY DEF PlaceholderIsPending
<1>0. /\ TypeOK /\ k \in Keys /\ pending \in [Keys -> Nat \cup {None}]
      /\ cache \in [Keys -> Shown] /\ results \in Seq(Job) /\ generation \in Nat
  BY KeysAssumption DEF Types, TypeOK, Keys
<1>a. worker = "alive"
  BY DEF Next, ScanFiles, ScanSends, ScanPanics, TakeReport, FinishScan, Request, Refresh, Start,
         WorkerTakes, WorkerAnswers, WorkerPanics, TakeResult, SetBookmark, ConfirmDialog, Annotate, DbWorks, vars, work
<1>b. cache[k] = Placeholder => pending[k] # None
  BY <1>a DEF PlaceholderIsPending
<1>c. None # Placeholder /\ NoFile # Placeholder /\ Placeholder \notin Files /\ generation # None
  BY <1>0, NamesAssumption
<1>1. CASE TakeReport
  BY <1>0, <1>1, <1>c, KeysAssumption DEF TakeReport, ResetPerFileState
<1>2. ASSUME reports # <<>>, NEW keys \in Seq(Keys), Enqueue(keys)
      PROVE  pending[k] # None => pending'[k] # None
  BY <1>0, <1>2, <1>c, EnqueueEffect
<1>3. CASE UNCHANGED <<pending, cache>>
  BY <1>b, <1>3
<1>4. CASE FinishScan
  <2>1. Autos \in Seq(Keys) /\ UNCHANGED cache
    BY <1>4, KeysAssumption, SeqDef DEF Keys, FinishScan
  <2> QED
    BY <1>2, <1>b, <1>4, <2>1 DEF FinishScan
<1>5. ASSUME NEW l \in Keys, Request(l) \/ Refresh(l) PROVE pending'[k] # None
  <2>1. PICK shown \in {cache, [cache EXCEPT ![l] = None]} : Start(shown, l)
    BY <1>5 DEF Request, Refresh
  <2>2. shown \in [Keys -> Shown] /\ (shown[k] = Placeholder => pending[k] # None)
    BY <1>0, <1>b, <1>c, <2>1, ShownType
  <2>3. <<l>> \in Seq(Keys)
    OBVIOUS
  <2>4. CASE l \notin Decompiles
    <3>1. reports # <<>> /\ Enqueue(<<l>>) /\ cache' = shown
      BY <2>1, <2>4 DEF Start, RequestAt
    <3> QED
      BY <1>2, <2>2, <2>3, <3>1
  <2>5. CASE l \in Decompiles /\ pending[l] # None
    <3>1. cache' = [shown EXCEPT ![l] = Placeholder] /\ UNCHANGED pending
      BY <2>1, <2>5 DEF Start, DecompileAt
    <3>2. CASE k = l
      BY <2>5, <3>1, <3>2
    <3>3. CASE k # l
      BY <1>0, <2>2, <3>1, <3>3
    <3> QED
      BY <3>2, <3>3
  <2>6. CASE l \in Decompiles /\ pending[l] = None /\ reports = <<>>
    <3>1. cache' = [shown EXCEPT ![l] = NoFile] /\ UNCHANGED pending
      BY <2>1, <2>6 DEF Start, DecompileAt
    <3> QED
      BY <1>0, <1>c, <2>2, <3>1
  <2>7. CASE l \in Decompiles /\ pending[l] = None /\ reports # <<>>
    <3>1. Insert(shown, l, Placeholder) /\ Enqueue(<<l>>)
      BY <2>1, <2>7 DEF Start, DecompileAt
    <3>2. CASE k = l
      BY <1>0, <1>a, <1>c, <2>7, <3>1, <3>2, EnqueueMarks
    <3>3. CASE k # l
      <4>1. shown[k] = Placeholder
        BY <1>0, <1>c, <2>2, <3>1, <3>3, InsertType, ShownType
      <4> QED
        BY <1>2, <2>2, <2>3, <2>7, <3>1, <4>1
    <3> QED
      BY <3>2, <3>3
  <2> QED
    BY <2>4, <2>5, <2>6, <2>7
<1>6. CASE TakeResult
  <2> DEFINE r == Head(results)
  <2>1. r \in Job /\ r.key \in Keys /\ r.file \in Files
    <3>1. results # <<>>
      BY <1>6 DEF TakeResult
    <3>2. r \in Job
      BY <1>0, <3>1, SetOfTail
    <3> QED
      BY <3>2 DEF Job
  <2>2. pending' = [pending EXCEPT ![r.key] = None]
    BY <1>6 DEF TakeResult
  <2>3. CASE Fresh(r.key)
    <3>1. Insert(cache, r.key, r.file)
      BY <1>6, <2>3 DEF TakeResult
    <3>2. k # r.key /\ cache[k] = Placeholder
      <4> HIDE DEF r
      <4>1. cache'[r.key] = r.file /\ (k # r.key => cache'[k] \in {cache[k], None})
        BY <1>0, <2>1, <3>1, InsertType, ShownType
      <4> QED
        BY <1>c, <2>1, <4>1
    <3> QED
      BY <1>0, <1>b, <2>2, <3>2
  <2>4. CASE ~Fresh(r.key)
    <3>1. UNCHANGED cache
      BY <1>6, <2>4 DEF TakeResult
    <3>2. pending[r.key] = None
      BY <2>1, <2>4 DEF Fresh, PendingIsCurrent
    <3> QED
      BY <1>0, <1>b, <2>2, <3>1, <3>2
  <2> QED
    BY <2>3, <2>4
<1> QED
  BY <1>1, <1>3, <1>4, <1>5, <1>6
  DEF Next, ScanFiles, ScanSends, ScanPanics, WorkerTakes, WorkerAnswers, WorkerPanics,
      SetBookmark, ConfirmDialog, Annotate, DbWorks, vars, ui

-----------------------------------------------------------------------------
(* The database worker, however far behind.                                *)

LEMMA CreatedAfterAppend ==
  ASSUME commands \in Seq(Command), NEW c \in Command, commands' = Append(commands, c),
         db' = db, NEW i \in 1 .. Len(commands) + 1, NEW p,
         CreatedBefore(commands, db, i, p)
  PROVE  CreatedBefore(commands', db', i, p)
<1>1. Len(commands) \in Nat /\ \A j \in 1 .. Len(commands) : commands'[j] = commands[j]
  BY AppendProperties, LenProperties
<1>2. \A j \in 1 .. i - 1 : j \in 1 .. Len(commands)
  BY <1>1
<1>3. CASE \E j \in 1 .. i - 1 : /\ commands[j].op = "create" /\ commands[j].path = p
                                 /\ \A m \in j + 1 .. i - 1 : commands[m].op # "create"
  <2>1. PICK j \in 1 .. i - 1 : /\ commands[j].op = "create" /\ commands[j].path = p
                                /\ \A m \in j + 1 .. i - 1 : commands[m].op # "create"
    BY <1>3
  <2>2. \A m \in j + 1 .. i - 1 : m \in 1 .. i - 1
    BY <2>1
  <2>3. commands'[j].op = "create" /\ commands'[j].path = p
        /\ \A m \in j + 1 .. i - 1 : commands'[m].op # "create"
    BY <1>1, <1>2, <2>1, <2>2
  <2> QED
    BY <2>3 DEF CreatedBefore
<1>4. CASE db \in {None, p} /\ \A m \in 1 .. i - 1 : commands[m].op # "create"
  BY <1>1, <1>2, <1>4 DEF CreatedBefore
<1> QED
  BY <1>3, <1>4 DEF CreatedBefore

LEMMA CreatedAfterTail ==
  ASSUME commands \in Seq(Command), DbWorks,
         NEW i \in 2 .. Len(commands) + 1, NEW p, CreatedBefore(commands, db, i, p)
  PROVE  CreatedBefore(commands', db', i - 1, p)
<1>1. commands # <<>> /\ commands' = Tail(commands)
  BY DEF DbWorks
<1>2. Len(commands) \in Nat \ {0} /\ Head(commands) = commands[1]
  BY <1>1, LenProperties, EmptySeq
<1>3. \A j \in 1 .. Len(commands) - 1 : commands'[j] = commands[j + 1]
  BY <1>1, <1>2, HeadTailProperties
<1>4. \A j \in 1 .. (i - 1) - 1 : commands'[j] = commands[j + 1] /\ j + 1 \in 2 .. i - 1
  BY <1>2, <1>3
<1>5. CASE \E j \in 2 .. i - 1 : /\ commands[j].op = "create" /\ commands[j].path = p
                                 /\ \A m \in j + 1 .. i - 1 : commands[m].op # "create"
  <2>1. PICK j \in 2 .. i - 1 : /\ commands[j].op = "create" /\ commands[j].path = p
                                /\ \A m \in j + 1 .. i - 1 : commands[m].op # "create"
    BY <1>5
  <2>2. j - 1 \in 1 .. (i - 1) - 1 /\ (j - 1) + 1 = j
    BY <2>1
  <2>3. commands'[j - 1].op = "create" /\ commands'[j - 1].path = p
    BY <1>4, <2>1, <2>2
  <2>4. ASSUME NEW m \in (j - 1) + 1 .. (i - 1) - 1 PROVE commands'[m].op # "create"
    <3>1. m + 1 \in j + 1 .. i - 1 /\ m \in 1 .. (i - 1) - 1
      BY <2>1
    <3> QED
      BY <1>4, <2>1, <3>1
  <2>5. /\ commands'[j - 1].op = "create" /\ commands'[j - 1].path = p
        /\ \A m \in (j - 1) + 1 .. (i - 1) - 1 : commands'[m].op # "create"
    BY <2>3, <2>4
  <2> QED
    BY <2>2, <2>5 DEF CreatedBefore
<1>6. ASSUME \A m \in 2 .. i - 1 : commands[m].op # "create", db' \in {None, p}
      PROVE  CreatedBefore(commands', db', i - 1, p)
  BY <1>4, <1>6 DEF CreatedBefore
<1>7. CASE commands[1].op = "create" /\ commands[1].path = p
           /\ \A m \in 1 + 1 .. i - 1 : commands[m].op # "create"
  <2>1. db' \in {None, p}
    BY <1>2, <1>7 DEF DbWorks, CreateProject
  <2> QED
    BY <1>6, <1>7, <2>1
<1>8. CASE db \in {None, p} /\ \A m \in 1 .. i - 1 : commands[m].op # "create"
  <2>1. commands[1].op # "create"
    BY <1>8
  <2>2. db' = db
    BY <1>2, <2>1 DEF DbWorks, StoreEdit
  <2>3. \A m \in 2 .. i - 1 : commands[m].op # "create"
    BY <1>8
  <2> QED
    BY <1>6, <1>8, <2>2, <2>3
<1> QED
  BY <1>5, <1>7, <1>8 DEF CreatedBefore

LEMMA EditsStep == Types /\ EditsFollowCreates /\ [Next]_vars => EditsFollowCreates'
<1> SUFFICES ASSUME Types, EditsFollowCreates, [Next]_vars PROVE EditsFollowCreates'
  OBVIOUS
<1>0. commands \in Seq(Command) /\ Len(commands) \in Nat /\ DOMAIN commands = 1 .. Len(commands)
  BY LenProperties DEF Types, TypeOK
<1>1. CASE UNCHANGED <<commands, db, asked>>
  BY <1>1 DEF EditsFollowCreates
<1>3. ASSUME NEW c \in Command, commands' = Append(commands, c), db' = db,
             c.op = "edit" => /\ CreatedBefore(commands, db, Len(commands) + 1, c.asked)
                              /\ ~c.scanning => c.asked = c.path,
             CreatedBefore(commands', db', Len(commands) + 2, asked')
      PROVE  EditsFollowCreates'
  <2>1. /\ Len(commands') = Len(commands) + 1 /\ DOMAIN commands' = 1 .. Len(commands) + 1
        /\ \A i \in 1 .. Len(commands) : commands'[i] = commands[i]
        /\ commands'[Len(commands) + 1] = c
    BY <1>0, <1>3, AppendProperties, LenProperties
  <2>2. ASSUME NEW i \in 1 .. Len(commands) + 1, commands'[i].op = "edit"
        PROVE  /\ CreatedBefore(commands', db', i, commands'[i].asked)
               /\ ~commands'[i].scanning => commands'[i].asked = commands'[i].path
    <3>1. /\ CreatedBefore(commands, db, i, commands'[i].asked)
          /\ ~commands'[i].scanning => commands'[i].asked = commands'[i].path
      <4>1. CASE i = Len(commands) + 1
        BY <1>3, <2>1, <2>2, <4>1
      <4>2. CASE i # Len(commands) + 1
        <5>1. i \in 1 .. Len(commands)
          BY <1>0, <4>2
        <5> QED
          BY <1>0, <2>1, <2>2, <5>1 DEF EditsFollowCreates
      <4> QED
        BY <4>1, <4>2
    <3> QED
      BY <1>0, <1>3, <3>1, CreatedAfterAppend
  <2>3. Len(commands') + 1 = Len(commands) + 2
    BY <1>0, <2>1
  <2> QED
    BY <1>3, <2>1, <2>2, <2>3 DEF EditsFollowCreates
<1>4. CASE FinishScan
  <2> DEFINE c == [op |-> "create", path |-> opened]
  <2>1. c \in Command
    BY <1>4 DEF FinishScan, Types, TypeOK, OpenedFirst, Command
  <2>2. commands' = Append(commands, c) /\ db' = db /\ asked' = opened
    BY <1>4 DEF FinishScan
  <2>3. CreatedBefore(commands', db', Len(commands) + 2, asked')
    <3>1. commands'[Len(commands) + 1] = c /\ Len(commands) + 1 \in 1 .. (Len(commands) + 2) - 1
      BY <1>0, <2>1, <2>2, AppendProperties
    <3>2. \A m \in (Len(commands) + 1) + 1 .. (Len(commands) + 2) - 1 : commands'[m].op # "create"
      BY <1>0
    <3> QED
      BY <2>2, <3>1, <3>2 DEF CreatedBefore
  <2>4. c.op # "edit"
    OBVIOUS
  <2> HIDE DEF c
  <2> QED
    BY <1>3, <2>1, <2>2, <2>3, <2>4
<1>5. CASE Annotate
  <2> DEFINE c == [op |-> "edit", path |-> opened, asked |-> asked, scanning |-> isScanning]
  <2>1. c \in Command /\ c.asked = asked /\ (~c.scanning => c.asked = c.path)
    BY DEF Types, TypeOK, OpenedFirst, Command
  <2>2. commands' = Append(commands, c) /\ db' = db /\ asked' = asked
    BY <1>5 DEF Annotate
  <2>3. CreatedBefore(commands, db, Len(commands) + 1, asked)
    BY DEF EditsFollowCreates
  <2>4. CreatedBefore(commands', db', Len(commands) + 1, asked)
    BY <1>0, <2>1, <2>2, <2>3, CreatedAfterAppend
  <2>5. commands'[Len(commands) + 1].op = "edit"
    BY <1>0, <2>1, <2>2, AppendProperties
  <2>6. CreatedBefore(commands', db', Len(commands) + 2, asked')
    <3>1. \A j \in 1 .. (Len(commands) + 2) - 1 :
            j \in 1 .. (Len(commands) + 1) - 1 \/ j = Len(commands) + 1
      BY <1>0
    <3>2. CASE \E j \in 1 .. (Len(commands) + 1) - 1 :
                 /\ commands'[j].op = "create" /\ commands'[j].path = asked
                 /\ \A m \in j + 1 .. (Len(commands) + 1) - 1 : commands'[m].op # "create"
      <4>1. PICK j \in 1 .. (Len(commands) + 1) - 1 :
                 /\ commands'[j].op = "create" /\ commands'[j].path = asked
                 /\ \A m \in j + 1 .. (Len(commands) + 1) - 1 : commands'[m].op # "create"
        BY <3>2
      <4>2. \A m \in j + 1 .. (Len(commands) + 2) - 1 : commands'[m].op # "create"
        <5> SUFFICES ASSUME NEW m \in j + 1 .. (Len(commands) + 2) - 1 PROVE commands'[m].op # "create"
          OBVIOUS
        <5>1. m \in j + 1 .. (Len(commands) + 1) - 1 \/ m = Len(commands) + 1
          BY <1>0
        <5> QED
          BY <2>5, <4>1, <5>1
      <4>3. j \in 1 .. (Len(commands) + 2) - 1
        BY <1>0
      <4> QED
        BY <2>2, <4>1, <4>2, <4>3 DEF CreatedBefore
    <3>3. CASE /\ db' \in {None, asked}
               /\ \A m \in 1 .. (Len(commands) + 1) - 1 : commands'[m].op # "create"
      BY <2>2, <2>5, <3>1, <3>3 DEF CreatedBefore
    <3> QED
      BY <2>4, <3>2, <3>3 DEF CreatedBefore
  <2> HIDE DEF c
  <2> QED
    BY <1>3, <2>1, <2>2, <2>3, <2>6
<1>6. CASE DbWorks
  <2>1. commands # <<>> /\ commands' = Tail(commands) /\ asked' = asked
    BY <1>6 DEF DbWorks
  <2>2. Len(commands) \in Nat \ {0} /\ Len(commands') = Len(commands) - 1
        /\ DOMAIN commands' = 1 .. Len(commands) - 1
        /\ \A i \in 1 .. Len(commands) - 1 : commands'[i] = commands[i + 1]
    BY <1>0, <2>1, HeadTailProperties, EmptySeq, LenProperties
  <2>3. ASSUME NEW i \in 1 .. Len(commands), NEW q, CreatedBefore(commands, db, i + 1, q)
        PROVE  CreatedBefore(commands', db', i, q)
    <3>1. i + 1 \in 2 .. Len(commands) + 1 /\ (i + 1) - 1 = i
      BY <2>2
    <3> QED
      BY <1>0, <1>6, <2>3, <3>1, CreatedAfterTail
  <2>4. ASSUME NEW i \in DOMAIN commands', commands'[i].op = "edit"
        PROVE  /\ CreatedBefore(commands', db', i, commands'[i].asked)
               /\ ~commands'[i].scanning => commands'[i].asked = commands'[i].path
    <3>1. i \in 1 .. Len(commands) /\ i + 1 \in DOMAIN commands /\ commands'[i] = commands[i + 1]
      BY <1>0, <2>2
    <3>2. /\ CreatedBefore(commands, db, i + 1, commands'[i].asked)
          /\ ~commands'[i].scanning => commands'[i].asked = commands'[i].path
      BY <2>4, <3>1 DEF EditsFollowCreates
    <3> QED
      BY <2>3, <3>1, <3>2
  <2>5. CreatedBefore(commands', db', Len(commands') + 1, asked)
    <3>1. Len(commands') + 1 = Len(commands) /\ Len(commands) \in 1 .. Len(commands)
      BY <2>2
    <3>2. CreatedBefore(commands, db, Len(commands) + 1, asked)
      BY DEF EditsFollowCreates
    <3> QED
      BY <2>3, <3>1, <3>2
  <2> QED
    BY <2>1, <2>4, <2>5 DEF EditsFollowCreates
<1> QED
  BY <1>1, <1>4, <1>5, <1>6
  DEF Next, SetBookmark, ConfirmDialog, ScanFiles, TakeReport, ScanSends, ScanPanics, Request, Refresh, Start, WorkerTakes,
      WorkerAnswers, WorkerPanics, TakeResult, vars, ui, store

LEMMA StoredStep ==
  Types /\ EditsFollowCreates /\ StoredWhereOpened /\ [Next]_vars => StoredWhereOpened'
<1> SUFFICES ASSUME Types, EditsFollowCreates, StoredWhereOpened, [Next]_vars
             PROVE  StoredWhereOpened'
  OBVIOUS
<1>1. CASE DbWorks
  <2>1. commands # <<>> /\ commands \in Seq(Command)
    BY <1>1 DEF DbWorks, Types, TypeOK
  <2>2. Head(commands) = commands[1] /\ 1 \in DOMAIN commands
    BY <2>1, LenProperties, EmptySeq
  <2>3. CASE Head(commands).op = "edit" /\ db # None
    <3>1. /\ db = Head(commands).asked
          /\ ~Head(commands).scanning => Head(commands).asked = Head(commands).path
      BY <2>2, <2>3 DEF EditsFollowCreates, CreatedBefore
    <3>2. stored' = stored \cup {[project |-> db, path |-> Head(commands).path,
                                  asked |-> Head(commands).asked,
                                  scanning |-> Head(commands).scanning]}
      BY <1>1, <2>3 DEF DbWorks, StoreEdit
    <3> QED
      BY <3>1, <3>2 DEF StoredWhereOpened
  <2>4. CASE UNCHANGED stored
    BY <2>4 DEF StoredWhereOpened
  <2> QED
    BY <1>1, <2>3, <2>4 DEF DbWorks, CreateProject, StoreEdit
<1>2. CASE UNCHANGED stored
  BY <1>2 DEF StoredWhereOpened
<1> QED
  BY <1>1, <1>2
  DEF Next, ScanFiles, ScanSends, ScanPanics, TakeReport, FinishScan, Request, Refresh, Start,
      WorkerTakes, WorkerAnswers, WorkerPanics, TakeResult, SetBookmark, ConfirmDialog, Annotate, vars, store

-----------------------------------------------------------------------------
(* The caches.                                                             *)

Held(shown, C) == {k \in C : shown[k] \in Files}

LEMMA HeldFinite ==
  ASSUME NEW C \in Caches, NEW shown
  PROVE  IsFiniteSet(Held(shown, C)) /\ Cardinality(Held(shown, C)) \in Nat
<1>1. IsFiniteSet(C) /\ Held(shown, C) \subseteq C
  BY KeysAssumption DEF Held
<1> QED
  BY <1>1, FS_Subset, FS_CardinalityType

LEMMA HeldShrinks ==
  ASSUME NEW C \in Caches, NEW old, NEW new, Held(new, C) \subseteq Held(old, C),
         Cardinality(Held(old, C)) <= CacheLimit + 1
  PROVE  Cardinality(Held(new, C)) <= CacheLimit + 1
<1>1. /\ Cardinality(Held(new, C)) <= Cardinality(Held(old, C))
      /\ Cardinality(Held(new, C)) \in Nat /\ Cardinality(Held(old, C)) \in Nat
  BY HeldFinite, FS_Subset
<1> QED
  BY <1>1, LimitsAssumption

(* An insertion leaves room for what it inserts.                           *)
LEMMA InsertBounded ==
  ASSUME NEW shown \in [Keys -> Shown], NEW C \in Caches, NEW k \in Keys, NEW v \in Shown,
         Insert(shown, k, v), Cardinality(Held(shown, C)) <= CacheLimit + 1
  PROVE  Cardinality(Held(cache', C)) <= CacheLimit + 1
<1>1. PICK D \in Dropped(shown, k) :
        cache' = [j \in Keys |-> IF j = k THEN v ELSE IF j \in D THEN None ELSE shown[j]]
  BY DEF Insert
<1>2. C \subseteq Asked /\ Asked \subseteq Keys /\ IsFiniteSet(C)
  BY KeysAssumption DEF Asked, Keys
<1>3. None \notin Files /\ CacheLimit \in Nat /\ CacheTarget \in 0 .. CacheLimit
  BY NamesAssumption, LimitsAssumption
<1>4. CASE k \notin C
  <2>1. \A j \in C : cache'[j] \in {shown[j], None}
    BY <1>1, <1>2, <1>4
  <2>2. Held(cache', C) \subseteq Held(shown, C)
    BY <1>3, <2>1 DEF Held
  <2> QED
    BY <2>2, HeldShrinks
<1>5. CASE k \in C
  <2> DEFINE E == Cached(shown, k)
  <2>1. E = {j \in C : shown[j] # None}
    BY <1>2, <1>5, KeysAssumption DEF Cached
  <2>2. IsFiniteSet(E) /\ IsFiniteSet(E \ D) /\ Cardinality(E) \in Nat
    BY <1>2, <2>1, FS_Subset, FS_CardinalityType
  <2>3. Cardinality(E \ D) <= CacheLimit /\ Cardinality(E \ D) \in Nat
    <3>1. CASE Cardinality(E) > CacheLimit
      <4>1. Cardinality(E \ D) = CacheTarget
        BY <1>1, <3>1 DEF Dropped
      <4> QED
        BY <1>3, <4>1
    <3>2. CASE ~(Cardinality(E) > CacheLimit)
      <4>1. D = {}
        BY <1>1, <3>2 DEF Dropped
      <4>2. E \ D = E
        BY <4>1
      <4> QED
        BY <1>3, <2>2, <3>2, <4>2
    <3> QED
      BY <3>1, <3>2
  <2>4. Held(cache', C) \subseteq (E \ D) \cup {k}
    BY <1>1, <1>2, <1>3, <2>1 DEF Held
  <2>5. IsFiniteSet((E \ D) \cup {k}) /\ Cardinality((E \ D) \cup {k}) <= Cardinality(E \ D) + 1
        /\ Cardinality((E \ D) \cup {k}) \in Nat
    <3> HIDE DEF E
    <3>1. IsFiniteSet((E \ D) \cup {k})
          /\ Cardinality((E \ D) \cup {k}) = IF k \in E \ D THEN Cardinality(E \ D) ELSE Cardinality(E \ D) + 1
      BY <2>2, FS_AddElement
    <3> QED
      BY <2>3, <3>1
  <2>6. Cardinality(Held(cache', C)) <= Cardinality((E \ D) \cup {k})
        /\ Cardinality(Held(cache', C)) \in Nat
    BY <2>4, <2>5, HeldFinite, FS_Subset
  <2> QED
    BY <1>3, <2>3, <2>5, <2>6
<1> QED
  BY <1>4, <1>5

LEMMA CacheStep == Types /\ CacheBounded /\ [Next]_vars => CacheBounded'
<1> SUFFICES ASSUME Types, CacheBounded, [Next]_vars, NEW C \in Caches
             PROVE  Cardinality(Held(cache', C)) <= CacheLimit + 1
  BY DEF CacheBounded, Held
<1>0. TypeOK /\ cache \in [Keys -> Shown] /\ C \subseteq Keys
  BY DEF Types, TypeOK, Keys, Asked
<1>a. {None, Placeholder, NoFile} \cap Files = {}
  BY NamesAssumption
<1>b. Cardinality(Held(cache, C)) <= CacheLimit + 1
  BY DEF CacheBounded, Held
<1>1. CASE TakeReport
  <2>1. Held(cache', C) \subseteq Held(cache, C)
    BY <1>0, <1>1, <1>a DEF TakeReport, ResetPerFileState, Held
  <2> QED
    BY <1>b, <2>1, HeldShrinks
<1>2. ASSUME NEW k \in Keys, Request(k) \/ Refresh(k)
      PROVE  Cardinality(Held(cache', C)) <= CacheLimit + 1
  <2>1. PICK shown \in {cache, [cache EXCEPT ![k] = None]} : Start(shown, k)
    BY <1>2 DEF Request, Refresh
  <2>2. shown \in [Keys -> Shown] /\ Held(shown, C) \subseteq Held(cache, C)
    BY <1>0, <1>a, <2>1, ShownType DEF Held
  <2>3. Cardinality(Held(shown, C)) <= CacheLimit + 1
    BY <1>b, <2>2, HeldShrinks
  <2>4. CASE Insert(shown, k, Placeholder)
    BY <2>2, <2>3, <2>4, InsertBounded, ShownType
  <2>5. CASE cache' \in {shown, [shown EXCEPT ![k] = Placeholder], [shown EXCEPT ![k] = NoFile]}
    <3>1. Held(cache', C) \subseteq Held(shown, C)
      BY <1>0, <1>a, <2>2, <2>5 DEF Held
    <3> QED
      BY <2>3, <3>1, HeldShrinks
  <2> QED
    BY <2>1, <2>4, <2>5 DEF Start, RequestAt, DecompileAt
<1>3. CASE TakeResult
  <2>1. CASE Insert(cache, Head(results).key, Head(results).file)
    <3>1. results # <<>> /\ results \in Seq(Job)
      BY <1>0, <1>3 DEF TakeResult, TypeOK
    <3>2. Head(results) \in Job
      BY <3>1, SetOfTail
    <3>3. Head(results).key \in Keys /\ Head(results).file \in Shown
      BY <3>2, ShownType DEF Job
    <3> QED
      BY <1>0, <1>b, <2>1, <3>3, InsertBounded
  <2>2. CASE UNCHANGED cache
    BY <1>b, <2>2
  <2> QED
    BY <1>3, <2>1, <2>2 DEF TakeResult
<1>4. CASE UNCHANGED cache
  BY <1>b, <1>4
<1> QED
  BY <1>1, <1>2, <1>3, <1>4
  DEF Next, ScanFiles, ScanSends, ScanPanics, FinishScan, WorkerTakes, WorkerAnswers,
      WorkerPanics, SetBookmark, ConfirmDialog, Annotate, DbWorks, vars, ui

-----------------------------------------------------------------------------
(* The theorems.                                                           *)

LEMMA InitInv == Init => Inv
<1> SUFFICES ASSUME Init PROVE Inv
  OBVIOUS
<1>1. <<>> \in Seq(Files) /\ <<>> \in Seq(Files \cup {Done}) /\ <<>> \in Seq(Job)
      /\ <<>> \in Seq(Command) /\ Len(<<>>) = 0 /\ DOMAIN <<>> = {}
  OBVIOUS
<1>2. TypeOK
  BY <1>1, KeysAssumption DEF Init, TypeOK, Shown
<1>3. CacheBounded
  <2> SUFFICES ASSUME NEW C \in Caches PROVE Cardinality({k \in C : cache[k] \in Files}) <= CacheLimit + 1
    BY DEF CacheBounded
  <2>1. {k \in C : cache[k] \in Files} = {}
    BY NamesAssumption DEF Init, Keys, Asked
  <2> QED
    BY <2>1, FS_EmptySet, LimitsAssumption
<1>4. PlaceholderIsPending
  BY KeysAssumption, NamesAssumption DEF Init, PlaceholderIsPending, Keys
<1>5. ReportsBounded
  BY <1>1, LimitsAssumption DEF Init, ReportsBounded
<1>6. CreatedBefore(commands, db, Len(commands) + 1, asked)
  BY <1>1 DEF Init, CreatedBefore
<1>7. EditsFollowCreates
  BY <1>1, <1>6 DEF Init, EditsFollowCreates
<1> QED
  BY <1>1, <1>2, <1>3, <1>4, <1>5, <1>7
  DEF Init, Inv, OpenedFirst, PendingIsCurrent, PendingInFlight, StoredWhereOpened

LEMMA StepInv == Inv /\ [Next]_vars => Inv'
BY TypesStep, ReportsBoundedStep, CacheStep, PendingCurrentStep, InFlightStep, PlaceholderStep,
   EditsStep, StoredStep, Zenon
DEF Inv, Types

LEMMA Invariance == Spec => []Inv
BY InitInv, StepInv, PTL DEF Spec

(* All state of the application, its threads and channels stays within its *)
(* types, the queued jobs and commands of any length included.             *)
THEOREM TypesKept == Spec => []TypeOK
<1>1. Inv => TypeOK
  BY DEF Inv
<1> QED
  BY <1>1, Invariance, PTL

(* Any number of files scanned leaves at most MAX_REPORTS in memory        *)
(* (poll_scan_results).                                                    *)
THEOREM MemoryBounded == Spec => []ReportsBounded
<1>1. Inv => ReportsBounded
  BY DEF Inv
<1> QED
  BY <1>1, Invariance, PTL

(* Whatever a cache's limit and target, and whichever entries are dropped, *)
(* it holds at most one result more than the limit (drain_job_results).    *)
THEOREM CachesStayBounded == Spec => []CacheBounded
<1>1. Inv => CacheBounded
  BY DEF Inv
<1> QED
  BY <1>1, Invariance, PTL

(* No key is pending under the generation of an earlier file: the test of  *)
(* finish_job sees only the present one.                                   *)
THEOREM NothingOldIsPending == Spec => []PendingIsCurrent
<1>1. Inv => PendingIsCurrent
  BY DEF Inv
<1> QED
  BY <1>1, Invariance, PTL

(* While the worker lives, a key marked pending has a job in its queue, at *)
(* the worker or among its answers (enqueue_job, finish_job).              *)
THEOREM PendingIsOnItsWay == Spec => []PendingInFlight
<1>1. Inv => PendingInFlight
  BY DEF Inv
<1> QED
  BY <1>1, Invariance, PTL

(* While the worker lives, "Decompiling..." is shown only for a pending    *)
(* job (decompile_at, drain_job_results).                                  *)
THEOREM PlaceholdersAwaitText == Spec => []PlaceholderIsPending
<1>1. Inv => PlaceholderIsPending
  BY DEF Inv
<1> QED
  BY <1>1, Invariance, PTL

(* However many commands the database worker is behind, an annotation is   *)
(* written to the project the UI had asked for last, or to none: outside a *)
(* scan that of the path opened, during one that of the path before.       *)
THEOREM WrittenWhereOpened == Spec => []StoredWhereOpened
<1>1. Inv => StoredWhereOpened
  BY DEF Inv
<1> QED
  BY <1>1, Invariance, PTL
=============================================================================
