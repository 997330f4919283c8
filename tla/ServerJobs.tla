------------------------------ MODULE ServerJobs ------------------------------
(***************************************************************************)
(* The asynchronous scan jobs of the HTTP server (freakre-server/main.rs). *)
(* A request allocates an id, waits for the write lock of the job table,   *)
(* enters the job as queued and spawns a blocking task, which enters it    *)
(* again as running and again with its outcome.  A full table loses an     *)
(* entry of the hash map's choosing, whatever its job is doing; a task     *)
(* enters its job whether or not the entry is still there.                 *)
(***************************************************************************)
EXTENDS Naturals, FiniteSets

CONSTANTS
  Requests,       \* POST /api/jobs/scan requests for an existing file
  Limit           \* 256, entries from which a new job evicts one

ASSUME ServerAssumption == IsFiniteSet(Requests) /\ Limit \in Nat \ {0}

VARIABLES
  nextId,         \* next_job_id
  id,             \* the id a request was given, 0 before
  stage,          \* where the request, then its task, is
  jobs,           \* the table: id -> status
  heard,          \* history: the last status a client polling it was told
  revived         \* history: the jobs whose task entered them again after
                  \* their eviction, as <<request, stage>>
vars == <<nextId, id, stage, jobs, heard, revived>>

Stages == {"new", "allocated", "cancelled", "queued", "running", "panicked",
           "completed", "failed"}
Outcomes == {"completed", "failed"}
Statuses == {"queued", "running"} \cup Outcomes

(* How far a status is along.                                              *)
Rank(s) == CASE s = "none" -> 0 [] s = "queued" -> 1 [] s = "running" -> 2 [] OTHER -> 3

(* The status a job should be entered under at a stage of its task.        *)
StatusAt(s) == IF s = "panicked" THEN "running" ELSE s

Drop(table, i) == [j \in DOMAIN table \ {i} |-> table[j]]
Enter(table, i, s) == [j \in DOMAIN table \cup {i} |-> IF j = i THEN s ELSE table[j]]

Init ==
  /\ nextId = 1
  /\ id = [r \in Requests |-> 0]
  /\ stage = [r \in Requests |-> "new"]
  /\ jobs = [i \in {} |-> "queued"]
  /\ heard = [r \in Requests |-> "none"]
  /\ revived = {}

(* Mutant: the counter is read, and written back only by the insertion.    *)
Allocate_Peeks(r) ==
  /\ stage[r] = "new"
  /\ id' = [id EXCEPT ![r] = nextId]
  /\ nextId' = IF \E q \in Requests : stage[q] = "allocated" THEN nextId ELSE nextId + 1
  /\ stage' = [stage EXCEPT ![r] = "allocated"]
  /\ UNCHANGED <<jobs, heard, revived>>

(* allocate_job_id: one atomic fetch_add.                                  *)
Allocate(r) ==
  /\ stage[r] = "new"
  /\ id' = [id EXCEPT ![r] = nextId]
  /\ nextId' = nextId + 1
  /\ stage' = [stage EXCEPT ![r] = "allocated"]
  /\ UNCHANGED <<jobs, heard, revived>>

(* The client hangs up while the handler waits for the lock.               *)
Cancel(r) ==
  /\ stage[r] = "allocated"
  /\ stage' = [stage EXCEPT ![r] = "cancelled"]
  /\ UNCHANGED <<nextId, id, jobs, heard, revived>>

(* Mutant: room is made only when the table is over its limit.             *)
RoomFor_OneMore(table) ==
  IF Cardinality(DOMAIN table) > Limit
    THEN {Drop(table, i) : i \in DOMAIN table}
    ELSE {table}

(* The tables in which a new job may be entered.                           *)
RoomFor(table) ==
  IF Cardinality(DOMAIN table) >= Limit
    THEN {Drop(table, i) : i \in DOMAIN table}
    ELSE {table}

(* Mutant: the task is spawned first and the job is entered afterwards.    *)
Queue_AfterSpawn(r) ==
  /\ \/ stage[r] = "allocated" /\ stage' = [stage EXCEPT ![r] = "queued"] /\ UNCHANGED jobs
     \/ /\ stage[r] \in {"queued", "running"} \cup Outcomes /\ UNCHANGED stage
        /\ \E table \in RoomFor(jobs) : jobs' = Enter(table, id[r], "queued")
  /\ UNCHANGED <<nextId, id, heard, revived>>

(* Under the write lock the job is entered as queued; then it is spawned.  *)
Queue(r) ==
  /\ stage[r] = "allocated"
  /\ \E table \in RoomFor(jobs) : jobs' = Enter(table, id[r], "queued")
  /\ stage' = [stage EXCEPT ![r] = "queued"]
  /\ UNCHANGED <<nextId, id, heard, revived>>

(* Mutant: only a job that is not entered any more is entered again.       *)
Update_Absent(r, s) ==
  /\ jobs' = IF id[r] \in DOMAIN jobs THEN jobs ELSE Enter(jobs, id[r], s)
  /\ stage' = [stage EXCEPT ![r] = s]
  /\ revived' = IF id[r] \in DOMAIN jobs THEN revived ELSE revived \cup {<<r, s>>}
  /\ UNCHANGED <<nextId, id, heard>>

(* The closure update of the task.                                         *)
Update(r, s) ==
  /\ jobs' = Enter(jobs, id[r], s)
  /\ stage' = [stage EXCEPT ![r] = s]
  /\ revived' = IF id[r] \in DOMAIN jobs THEN revived ELSE revived \cup {<<r, s>>}
  /\ UNCHANGED <<nextId, id, heard>>

Begin(r) == stage[r] = "queued" /\ Update(r, "running")

(* The scan fails when its YARA rules can not be loaded.                   *)
Finish(r) == stage[r] = "running" /\ \E s \in Outcomes : Update(r, s)

(* Nothing catches a panic of the scanner: the entry stays as it is.       *)
Panic(r) ==
  /\ stage[r] = "running"
  /\ stage' = [stage EXCEPT ![r] = "panicked"]
  /\ UNCHANGED <<nextId, id, jobs, heard, revived>>

(* GET /api/jobs/:id by whoever was given the id; "job not found" tells    *)
(* nothing.                                                                *)
GetJob(r) ==
  /\ stage[r] \notin {"new", "allocated", "cancelled"}
  /\ id[r] \in DOMAIN jobs
  /\ heard' = [heard EXCEPT ![r] = jobs[id[r]]]
  /\ UNCHANGED <<nextId, id, stage, jobs, revived>>

Next ==
  \E r \in Requests :
    \/ Allocate(r) \/ Cancel(r) \/ Queue(r) \/ Begin(r) \/ Finish(r) \/ Panic(r)
    \/ GetJob(r)

Spec == Init /\ [][Next]_vars

-----------------------------------------------------------------------------
(* Properties.                                                             *)

TypeOK ==
  /\ nextId \in Nat \ {0}
  /\ id \in [Requests -> Nat]
  /\ stage \in [Requests -> Stages]
  /\ DOMAIN jobs \subseteq 1 .. nextId - 1
  /\ \A i \in DOMAIN jobs : jobs[i] \in Statuses
  /\ heard \in [Requests -> Statuses \cup {"none"}]
  /\ revived \subseteq Requests \X Statuses

(* An entry tells how far the task of its one job is: requests that        *)
(* interleave never share an entry, and no entry is behind its task.       *)
EntriesTellTheirTask ==
  \A r \in Requests : id[r] \in DOMAIN jobs => jobs[id[r]] = StatusAt(stage[r])

(* The table outgrows its limit only by jobs that were evicted while their *)
(* task was on its way and entered again by it, without an eviction.       *)
TableBounded == Cardinality(DOMAIN jobs) <= Limit + Cardinality(revived)

(* Who polls a job never hears it going backwards.                         *)
NeverBackwards == [][\A r \in Requests : Rank(heard'[r]) >= Rank(heard[r])]_vars

(* A job whose task has ended and whose entry was evicted is gone for      *)
(* good.                                                                   *)
ForgottenForGood ==
  [][\A r \in Requests :
       stage[r] \in Outcomes \cup {"panicked"} /\ id[r] \notin DOMAIN jobs
         => id[r] \notin DOMAIN jobs']_vars

=============================================================================
