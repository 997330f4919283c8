--------------------------- MODULE ServerJobsProofs ---------------------------
(***************************************************************************)
(* The job table for any set of requests and any limit: its entries tell   *)
(* how far their tasks are, a job is never heard going backwards, and the  *)
(* table outgrows its limit by no more than the jobs that came back after  *)
(* their eviction.                                                         *)
(***************************************************************************)
EXTENDS ServerJobs, FiniteSetTheorems, TLAPS

(* No two requests have the same id.                                       *)
IdsDiffer ==
  \A r, q \in Requests : r # q /\ id[r] # 0 => id[r] # id[q]

(* Ids come from the counter, and a request has one from Allocate on.      *)
IdsAllocated ==
  \A r \in Requests : id[r] < nextId /\ (stage[r] = "new" <=> id[r] = 0)

(* A task is recorded as having revived its job only at stages it reached. *)
RevivedSoFar ==
  \A r \in Requests, s \in Statuses :
    <<r, s>> \in revived =>
      /\ stage[r] \in {"running", "panicked"} \cup Outcomes
      /\ stage[r] = "running" => s = "running"

IInv == TypeOK /\ IdsDiffer /\ IdsAllocated /\ EntriesTellTheirTask /\ RevivedSoFar

LEMMA InitIInv == Init => IInv
<1>1. SUFFICES ASSUME Init PROVE IInv
  OBVIOUS
<1>2. DOMAIN jobs = {}
  BY <1>1 DEF Init
<1>3. TypeOK
  BY <1>1, <1>2 DEF Init, TypeOK, Stages, Statuses
<1>4. QED
  BY <1>1, <1>2, <1>3 DEF Init, IInv, IdsDiffer, IdsAllocated, EntriesTellTheirTask,
     RevivedSoFar

(* The entries of a table in which there is room are entries of the table. *)
LEMMA RoomForKeeps ==
  ASSUME NEW table \in RoomFor(jobs)
  PROVE  /\ DOMAIN table \subseteq DOMAIN jobs
         /\ \A i \in DOMAIN table : table[i] = jobs[i]
BY DEF RoomFor, Drop

LEMMA AllocateIInv == ASSUME IInv, NEW r \in Requests, Allocate(r) PROVE IInv'
<1> USE DEF IInv, TypeOK, Allocate
<1>1. /\ id' = [id EXCEPT ![r] = nextId] /\ nextId' = nextId + 1
      /\ stage' = [stage EXCEPT ![r] = "allocated"] /\ jobs' = jobs
      /\ revived' = revived /\ heard' = heard
  OBVIOUS
<1>2. TypeOK'
  BY <1>1 DEF Stages
<1>3. IdsDiffer'
  BY <1>1 DEF IdsDiffer, IdsAllocated
<1>4. IdsAllocated'
  BY <1>1 DEF IdsAllocated
<1>5. EntriesTellTheirTask'
  BY <1>1 DEF EntriesTellTheirTask, StatusAt
<1>6. RevivedSoFar'
  BY <1>1 DEF RevivedSoFar, Outcomes
<1>7. QED
  BY <1>2, <1>3, <1>4, <1>5, <1>6

LEMMA CancelIInv == ASSUME IInv, NEW r \in Requests, Cancel(r) PROVE IInv'
<1> USE DEF IInv, TypeOK, Cancel
<1>1. TypeOK'
  BY DEF Stages
<1>2. IdsDiffer' /\ IdsAllocated'
  BY DEF IdsDiffer, IdsAllocated
<1>3. id[r] \notin DOMAIN jobs
  BY DEF EntriesTellTheirTask, StatusAt, Statuses, Outcomes
<1>4. EntriesTellTheirTask'
  BY <1>3 DEF EntriesTellTheirTask, StatusAt
<1>5. RevivedSoFar'
  BY DEF RevivedSoFar, Outcomes
<1>6. QED
  BY <1>1, <1>2, <1>4, <1>5

LEMMA QueueIInv == ASSUME IInv, NEW r \in Requests, Queue(r) PROVE IInv'
<1> USE DEF IInv, TypeOK
<1>1. PICK table \in RoomFor(jobs) : jobs' = Enter(table, id[r], "queued")
  BY DEF Queue
<1>2. /\ stage[r] = "allocated" /\ stage' = [stage EXCEPT ![r] = "queued"]
      /\ UNCHANGED <<nextId, id, heard, revived>>
  BY DEF Queue
<1>3. /\ DOMAIN jobs' = DOMAIN table \cup {id[r]}
      /\ \A i \in DOMAIN jobs' : jobs'[i] = IF i = id[r] THEN "queued" ELSE jobs[i]
      /\ DOMAIN table \subseteq DOMAIN jobs
  BY <1>1, RoomForKeeps DEF Enter
<1>4. id[r] \in 1 .. nextId - 1
  BY <1>2 DEF IdsAllocated
<1>5. TypeOK'
  BY <1>2, <1>3, <1>4 DEF Stages, Statuses
<1>6. IdsDiffer' /\ IdsAllocated'
  BY <1>2 DEF IdsDiffer, IdsAllocated
<1>7. EntriesTellTheirTask'
  <2>1. SUFFICES ASSUME NEW q \in Requests, id[q] \in DOMAIN jobs'
                 PROVE  jobs'[id[q]] = StatusAt(stage'[q])
    BY <1>2 DEF EntriesTellTheirTask
  <2>2. CASE q = r
    BY <1>2, <1>3, <2>1, <2>2 DEF StatusAt
  <2>3. CASE q # r
    BY <1>2, <1>3, <1>4, <2>1, <2>3 DEF IdsDiffer, EntriesTellTheirTask
  <2>4. QED
    BY <2>2, <2>3
<1>8. RevivedSoFar'
  BY <1>2 DEF RevivedSoFar, Outcomes
<1>9. QED
  BY <1>5, <1>6, <1>7, <1>8

LEMMA UpdateIInv ==
  ASSUME IInv, NEW r \in Requests, NEW s \in {"running"} \cup Outcomes, Update(r, s),
         stage[r] \in {"queued", "running"}
  PROVE  IInv'
<1> USE DEF IInv, TypeOK
<1>1. /\ jobs' = Enter(jobs, id[r], s)
      /\ stage' = [stage EXCEPT ![r] = s]
      /\ revived' \in {revived, revived \cup {<<r, s>>}}
      /\ UNCHANGED <<nextId, id, heard>>
  BY DEF Update
<1>2. /\ DOMAIN jobs' = DOMAIN jobs \cup {id[r]}
      /\ \A i \in DOMAIN jobs' : jobs'[i] = IF i = id[r] THEN s ELSE jobs[i]
  BY <1>1 DEF Enter
<1>3. id[r] \in 1 .. nextId - 1
  BY DEF IdsAllocated
<1>4. TypeOK'
  BY <1>1, <1>2, <1>3 DEF Stages, Statuses, Outcomes
<1>5. IdsDiffer' /\ IdsAllocated'
  BY <1>1 DEF IdsDiffer, IdsAllocated, Outcomes
<1>6. EntriesTellTheirTask'
  <2>1. SUFFICES ASSUME NEW q \in Requests, id[q] \in DOMAIN jobs'
                 PROVE  jobs'[id[q]] = StatusAt(stage'[q])
    BY <1>1 DEF EntriesTellTheirTask
  <2>2. CASE q = r
    BY <1>1, <1>2, <2>1, <2>2 DEF StatusAt, Outcomes
  <2>3. CASE q # r
    BY <1>1, <1>2, <1>3, <2>1, <2>3 DEF IdsDiffer, EntriesTellTheirTask
  <2>4. QED
    BY <2>2, <2>3
<1>7. RevivedSoFar'
  BY <1>1 DEF RevivedSoFar, Outcomes
<1>8. QED
  BY <1>4, <1>5, <1>6, <1>7

LEMMA PanicIInv == ASSUME IInv, NEW r \in Requests, Panic(r) PROVE IInv'
<1> USE DEF IInv, TypeOK, Panic
<1>1. TypeOK'
  BY DEF Stages
<1>2. IdsDiffer' /\ IdsAllocated'
  BY DEF IdsDiffer, IdsAllocated
<1>3. EntriesTellTheirTask'
  BY DEF EntriesTellTheirTask, StatusAt
<1>4. RevivedSoFar'
  BY DEF RevivedSoFar, Outcomes
<1>5. QED
  BY <1>1, <1>2, <1>3, <1>4

LEMMA GetJobIInv == ASSUME IInv, NEW r \in Requests, GetJob(r) PROVE IInv'
<1> USE DEF IInv, TypeOK, GetJob
<1>1. TypeOK'
  OBVIOUS
<1>2. IdsDiffer' /\ IdsAllocated' /\ EntriesTellTheirTask' /\ RevivedSoFar'
  BY DEF IdsDiffer, IdsAllocated, EntriesTellTheirTask, RevivedSoFar
<1>3. QED
  BY <1>1, <1>2

LEMMA NextIInv == IInv /\ [Next]_vars => IInv'
<1>1. SUFFICES ASSUME IInv, [Next]_vars PROVE IInv'
  OBVIOUS
<1>2. CASE UNCHANGED vars
  BY <1>1, <1>2 DEF vars, IInv, TypeOK, IdsDiffer, IdsAllocated, EntriesTellTheirTask,
     RevivedSoFar
<1>3. ASSUME NEW r \in Requests,
             \/ Allocate(r) \/ Cancel(r) \/ Queue(r) \/ Begin(r) \/ Finish(r)
             \/ Panic(r) \/ GetJob(r)
      PROVE  IInv'
  <2>1. CASE Allocate(r) \/ Cancel(r) \/ Queue(r) \/ Panic(r) \/ GetJob(r)
    BY <1>1, <2>1, AllocateIInv, CancelIInv, QueueIInv, PanicIInv, GetJobIInv
  <2>2. CASE Begin(r)
    BY <1>1, <2>2, UpdateIInv DEF Begin
  <2>3. CASE Finish(r)
    <3>1. PICK s \in Outcomes : Update(r, s)
      BY <2>3 DEF Finish
    <3>2. QED
      BY <1>1, <2>3, <3>1, UpdateIInv DEF Finish
  <2>4. QED
    BY <1>3, <2>1, <2>2, <2>3
<1>4. QED
  BY <1>1, <1>2, <1>3 DEF Next

(* Tables, counters and histories keep their types.                        *)
THEOREM TypesKept == Spec => []TypeOK
<1>1. IInv => TypeOK
  BY DEF IInv
<1>2. QED
  BY InitIInv, NextIInv, <1>1, PTL DEF Spec

(* Whatever requests and tasks interleave, an entry tells how far the task *)
(* of its one job is (start_scan_job).                                     *)
THEOREM EntriesAreCurrent == Spec => []EntriesTellTheirTask
<1>1. IInv => EntriesTellTheirTask
  BY DEF IInv
<1>2. QED
  BY InitIInv, NextIInv, <1>1, PTL DEF Spec

(* A job that was evicted after its task had ended does not come back: no  *)
(* other request can be given its id (start_scan_job, update).             *)
THEOREM EvictedForGood == Spec => ForgottenForGood
<1>1. ASSUME IInv, [Next]_vars,
             NEW r \in Requests, stage[r] \in Outcomes \cup {"panicked"},
             id[r] \notin DOMAIN jobs
      PROVE  id[r] \notin DOMAIN jobs'
  <2>1. id[r] # 0 /\ \A q \in Requests : q # r => id[q] # id[r]
    BY <1>1 DEF IInv, IdsAllocated, IdsDiffer, Outcomes
  <2>2. CASE UNCHANGED jobs
    BY <1>1, <2>2
  <2>3. ASSUME NEW q \in Requests, Queue(q) PROVE id[r] \notin DOMAIN jobs'
    <3>1. PICK table \in RoomFor(jobs) : jobs' = Enter(table, id[q], "queued")
      BY <2>3 DEF Queue
    <3>2. q # r
      BY <1>1, <2>3 DEF Queue, Outcomes
    <3>3. DOMAIN jobs' = DOMAIN table \cup {id[q]}
      BY <3>1 DEF Enter
    <3>4. QED
      BY <1>1, <2>1, <3>2, <3>3, RoomForKeeps
  <2>4. ASSUME NEW q \in Requests, NEW s, Update(q, s), q # r
        PROVE  id[r] \notin DOMAIN jobs'
    <3>1. DOMAIN jobs' = DOMAIN jobs \cup {id[q]}
      BY <2>4 DEF Update, Enter
    <3>2. QED
      BY <1>1, <2>1, <2>4, <3>1
  <2>5. ASSUME NEW q \in Requests, Begin(q) \/ Finish(q) PROVE id[r] \notin DOMAIN jobs'
    <3>1. q # r
      BY <1>1, <2>5 DEF Begin, Finish, Outcomes
    <3>2. \E s : Update(q, s)
      BY <2>5 DEF Begin, Finish
    <3>3. QED
      BY <2>4, <3>1, <3>2
  <2>6. QED
    BY <1>1, <2>2, <2>3, <2>5 DEF Next, Allocate, Cancel, Panic, GetJob, vars
<1>2. IInv /\ [Next]_vars
        => [\A r \in Requests :
              stage[r] \in Outcomes \cup {"panicked"} /\ id[r] \notin DOMAIN jobs
                => id[r] \notin DOMAIN jobs']_vars
  BY <1>1
<1>3. QED
  BY InitIInv, NextIInv, <1>2, PTL DEF Spec, ForgottenForGood

-----------------------------------------------------------------------------
(* The size of the table.                                                  *)

Sized == IsFiniteSet(DOMAIN jobs) /\ IsFiniteSet(revived) /\ TableBounded

LEMMA Sizes ==
  ASSUME NEW S, IsFiniteSet(S), NEW x
  PROVE  /\ Cardinality(S) \in Nat
         /\ IsFiniteSet(S \cup {x})
         /\ Cardinality(S \cup {x}) = IF x \in S THEN Cardinality(S) ELSE Cardinality(S) + 1
         /\ IsFiniteSet(S \ {x})
         /\ x \in S => Cardinality(S \ {x}) = Cardinality(S) - 1
<1>1. Cardinality(S) \in Nat
  BY FS_CardinalityType
<1>2. QED
  BY <1>1, FS_AddElement, FS_RemoveElement

LEMMA InitSized == Init => Sized
<1>1. SUFFICES ASSUME Init PROVE Sized
  OBVIOUS
<1>2. DOMAIN jobs = {} /\ revived = {}
  BY <1>1 DEF Init
<1>3. QED
  BY <1>2, FS_EmptySet, ServerAssumption DEF Sized, TableBounded

LEMMA QueueSized == ASSUME IInv, Sized, NEW r \in Requests, Queue(r) PROVE Sized'
<1> DEFINE n == Cardinality(DOMAIN jobs)
           k == Cardinality(revived)
<1>1. PICK table \in RoomFor(jobs) : jobs' = Enter(table, id[r], "queued")
  BY DEF Queue
<1>2. revived' = revived /\ n \in Nat /\ k \in Nat /\ n <= Limit + k
  BY Sizes DEF Queue, Sized, TableBounded
<1>3. DOMAIN jobs' = DOMAIN table \cup {id[r]}
  BY <1>1 DEF Enter
<1>4. /\ IsFiniteSet(DOMAIN table) /\ Cardinality(DOMAIN table) \in Nat
      /\ Cardinality(DOMAIN table) + 1 <= Limit + k
  <2>1. CASE n >= Limit
    <3>1. PICK i \in DOMAIN jobs : DOMAIN table = DOMAIN jobs \ {i}
      BY <1>1, <2>1 DEF RoomFor, Drop
    <3>2. IsFiniteSet(DOMAIN table) /\ Cardinality(DOMAIN table) = n - 1
      BY <3>1, Sizes DEF Sized
    <3>3. Cardinality(DOMAIN table) \in Nat
      BY <3>2, Sizes
    <3>4. QED
      BY <1>2, <3>2, <3>3, ServerAssumption
  <2>2. CASE ~(n >= Limit)
    <3>1. table = jobs
      BY <1>1, <2>2 DEF RoomFor
    <3>2. QED
      BY <1>2, <2>2, <3>1, ServerAssumption DEF Sized
  <2>3. QED
    BY <2>1, <2>2
<1>5. IsFiniteSet(DOMAIN jobs')
  <2>1. IsFiniteSet(DOMAIN table \cup {id[r]})
    BY <1>4, Sizes
  <2>2. QED
    BY <1>3, <2>1
<1>6. /\ Cardinality(DOMAIN jobs') \in Nat
      /\ Cardinality(DOMAIN jobs') \in {Cardinality(DOMAIN table), Cardinality(DOMAIN table) + 1}
  <2>1. Cardinality(DOMAIN table \cup {id[r]})
          \in {Cardinality(DOMAIN table), Cardinality(DOMAIN table) + 1}
    BY <1>4, Sizes
  <2>2. QED
    BY <1>3, <1>4, <2>1
<1>7. QED
  BY <1>2, <1>4, <1>5, <1>6, ServerAssumption DEF Sized, TableBounded

LEMMA UpdateSized ==
  ASSUME IInv, Sized, NEW r \in Requests, NEW s \in Statuses, Update(r, s),
         <<r, s>> \notin revived
  PROVE  Sized'
<1> DEFINE n == Cardinality(DOMAIN jobs)
           k == Cardinality(revived)
<1>1. n \in Nat /\ k \in Nat /\ n <= Limit + k
  BY Sizes DEF Sized, TableBounded
<1>2. DOMAIN jobs' = DOMAIN jobs \cup {id[r]}
  BY DEF Update, Enter
<1>3. CASE id[r] \in DOMAIN jobs
  <2>1. DOMAIN jobs' = DOMAIN jobs /\ revived' = revived
    BY <1>2, <1>3 DEF Update
  <2>2. QED
    BY <1>1, <2>1 DEF Sized, TableBounded
<1>4. CASE id[r] \notin DOMAIN jobs
  <2>1. revived' = revived \cup {<<r, s>>}
    BY <1>4 DEF Update
  <2>2. IsFiniteSet(revived') /\ Cardinality(revived') = k + 1
    BY <2>1, Sizes DEF Sized
  <2>3. IsFiniteSet(DOMAIN jobs') /\ Cardinality(DOMAIN jobs') = n + 1
    BY <1>2, <1>4, Sizes DEF Sized
  <2>4. QED
    BY <1>1, <2>2, <2>3, ServerAssumption DEF Sized, TableBounded
<1>5. QED
  BY <1>3, <1>4

LEMMA NextSized == IInv /\ Sized /\ [Next]_vars => Sized'
<1>1. SUFFICES ASSUME IInv, Sized, [Next]_vars PROVE Sized'
  OBVIOUS
<1>2. CASE UNCHANGED <<jobs, revived>>
  BY <1>1, <1>2 DEF Sized, TableBounded
<1>3. ASSUME NEW r \in Requests, Queue(r) PROVE Sized'
  BY <1>1, <1>3, QueueSized
<1>4. ASSUME NEW r \in Requests, Begin(r) PROVE Sized'
  <2>1. <<r, "running">> \notin revived
    BY <1>1, <1>4 DEF IInv, RevivedSoFar, Begin, Outcomes, Statuses
  <2>2. QED
    BY <1>1, <1>4, <2>1, UpdateSized DEF Begin, Statuses
<1>5. ASSUME NEW r \in Requests, Finish(r) PROVE Sized'
  <2>1. PICK s \in Outcomes : Update(r, s)
    BY <1>5 DEF Finish
  <2>2. <<r, s>> \notin revived
    BY <1>1, <1>5, <2>1 DEF IInv, RevivedSoFar, Finish, Outcomes, Statuses
  <2>3. QED
    BY <1>1, <2>1, <2>2, UpdateSized DEF Statuses
<1>6. QED
  BY <1>1, <1>2, <1>3, <1>4, <1>5 DEF Next, Allocate, Cancel, Panic, GetJob, vars

(* The table outgrows its limit by no more than the jobs that were entered *)
(* again after an eviction (start_scan_job, update).                       *)
THEOREM SizeBounded == Spec => []TableBounded
<1>1. Sized => TableBounded
  BY DEF Sized
<1>2. QED
  BY InitIInv, NextIInv, InitSized, NextSized, <1>1, PTL DEF Spec

-----------------------------------------------------------------------------
(* What clients hear.                                                      *)

Spawned == {"queued", "running", "panicked"} \cup Outcomes

(* Nobody has heard more of a job than its task has done.                  *)
HeardBehind ==
  \A r \in Requests :
    heard[r] # "none" => /\ stage[r] \in Spawned
                         /\ Rank(heard[r]) <= Rank(StatusAt(stage[r]))

LEMMA RankType == \A s : Rank(s) \in 0 .. 3
BY DEF Rank

(* A task only gets on.                                                    *)
LEMMA StageClimbs ==
  ASSUME IInv, [Next]_vars, NEW r \in Requests, stage[r] \in Spawned
  PROVE  stage'[r] \in Spawned /\ Rank(StatusAt(stage[r])) <= Rank(StatusAt(stage'[r]))
<1>0. stage \in [Requests -> Stages]
  BY DEF IInv, TypeOK
<1>1. CASE stage'[r] = stage[r]
  BY <1>1, RankType
<1>2. CASE stage[r] = "queued" /\ stage'[r] = "running"
  BY <1>2 DEF Spawned, Rank, StatusAt
<1>3. CASE stage[r] = "running" /\ stage'[r] \in Outcomes \cup {"panicked"}
  BY <1>3 DEF Spawned, Outcomes, Rank, StatusAt
<1>4. \/ stage'[r] = stage[r]
      \/ stage[r] = "queued" /\ stage'[r] = "running"
      \/ stage[r] = "running" /\ stage'[r] \in Outcomes \cup {"panicked"}
  <2>1. ASSUME NEW q \in Requests, Allocate(q) \/ Cancel(q) \/ Queue(q)
        PROVE  stage'[r] = stage[r]
    BY <1>0, <2>1 DEF Allocate, Cancel, Queue, Spawned, Outcomes
  <2>2. ASSUME NEW q \in Requests, Begin(q) \/ Finish(q) \/ Panic(q)
        PROVE  \/ stage'[r] = stage[r]
               \/ stage[r] = "queued" /\ stage'[r] = "running"
               \/ stage[r] = "running" /\ stage'[r] \in Outcomes \cup {"panicked"}
    BY <1>0, <2>2 DEF Begin, Finish, Panic, Update
  <2>3. QED
    BY <2>1, <2>2 DEF Next, GetJob, vars
<1>5. QED
  BY <1>1, <1>2, <1>3, <1>4

(* What a client hears next: what it heard before, or what the task's      *)
(* stage says.                                                             *)
LEMMA HearsStage ==
  ASSUME IInv, [Next]_vars, NEW r \in Requests
  PROVE  \/ heard'[r] = heard[r]
         \/ /\ heard'[r] = StatusAt(stage[r]) /\ stage'[r] = stage[r]
            /\ stage[r] \in Spawned
<1>0. heard \in [Requests -> Statuses \cup {"none"}] /\ stage \in [Requests -> Stages]
  BY DEF IInv, TypeOK
<1>1. ASSUME NEW q \in Requests, GetJob(q), q = r
      PROVE  heard'[r] = StatusAt(stage[r]) /\ stage' = stage /\ stage[r] \in Spawned
  <2>1. heard'[r] = jobs[id[r]] /\ id[r] \in DOMAIN jobs /\ stage' = stage
    BY <1>0, <1>1 DEF GetJob
  <2>2. stage[r] \in Spawned
    BY <1>0, <1>1 DEF GetJob, Stages, Spawned, Outcomes
  <2>3. QED
    BY <2>1, <2>2 DEF IInv, EntriesTellTheirTask
<1>2. ASSUME NEW q \in Requests, GetJob(q), q # r PROVE heard'[r] = heard[r]
  BY <1>0, <1>2 DEF GetJob
<1>3. QED
  BY <1>1, <1>2 DEF Next, Allocate, Cancel, Queue, Begin, Finish, Panic, Update, vars

LEMMA InitHeard == Init => HeardBehind
BY DEF Init, HeardBehind

LEMMA NextHeard == IInv /\ HeardBehind /\ [Next]_vars => HeardBehind'
<1>1. SUFFICES ASSUME IInv, HeardBehind, [Next]_vars, NEW r \in Requests, heard'[r] # "none"
               PROVE  stage'[r] \in Spawned /\ Rank(heard'[r]) <= Rank(StatusAt(stage'[r]))
  BY DEF HeardBehind
<1>2. CASE heard'[r] = heard[r]
  <2>1. stage[r] \in Spawned /\ Rank(heard[r]) <= Rank(StatusAt(stage[r]))
    BY <1>1, <1>2 DEF HeardBehind
  <2>2. stage'[r] \in Spawned /\ Rank(StatusAt(stage[r])) <= Rank(StatusAt(stage'[r]))
    BY <1>1, <2>1, StageClimbs
  <2>3. \A a, b, c \in 0 .. 3 : a <= b /\ b <= c => a <= c
    OBVIOUS
  <2>4. QED
    BY <1>2, <2>1, <2>2, <2>3, RankType
<1>3. CASE heard'[r] = StatusAt(stage[r]) /\ stage'[r] = stage[r] /\ stage[r] \in Spawned
  BY <1>3, RankType
<1>4. QED
  BY <1>1, <1>2, <1>3, HearsStage

(* Whoever polls a job never hears it going backwards, whatever is evicted *)
(* and entered again meanwhile (start_scan_job, get_job).                  *)
THEOREM HeardInOrder == Spec => NeverBackwards
<1>1. ASSUME IInv, HeardBehind, [Next]_vars, NEW r \in Requests
      PROVE  Rank(heard'[r]) >= Rank(heard[r])
  <2>1. CASE heard'[r] = heard[r]
    BY <2>1, RankType
  <2>2. CASE heard'[r] = StatusAt(stage[r])
    <3>1. CASE heard[r] = "none"
      BY <3>1, RankType DEF Rank
    <3>2. CASE heard[r] # "none"
      BY <1>1, <2>2, <3>2 DEF HeardBehind
    <3>3. QED
      BY <3>1, <3>2
  <2>3. QED
    BY <1>1, <2>1, <2>2, HearsStage
<1>2. IInv /\ HeardBehind /\ [Next]_vars
        => [\A r \in Requests : Rank(heard'[r]) >= Rank(heard[r])]_vars
  BY <1>1
<1>3. QED
  BY InitIInv, NextIInv, InitHeard, NextHeard, <1>2, PTL DEF Spec, NeverBackwards
=============================================================================
