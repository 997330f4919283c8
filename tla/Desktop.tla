------------------------------- MODULE Desktop -------------------------------
(***************************************************************************)
(* The desktop application of FreakRE around its threads (desktop-ui,      *)
(* app.rs).  The UI thread owns the application state and is called once   *)
(* per frame; it talks over channels to                                    *)
(*   - a scan thread per "open files" command, which sends one report per  *)
(*     file and then Done,                                                 *)
(*   - one analysis worker, which runs queued jobs in order,               *)
(*   - one database worker, which owns the open project database.          *)
(*                                                                         *)
(* A file stands for its bytes and everything computed from them.  A cache *)
(* entry is the file it was computed from.                                 *)
(***************************************************************************)
EXTENDS Naturals, Sequences, SequencesExt, FiniteSets

CONSTANTS
  Files,          \* files the user opens
  Autos,          \* sequence of the jobs queued when a scan ends
  Caches,         \* jobs the user asks for, by the cache their results go to
  Decompiles,     \* those whose cache shows a placeholder meanwhile
  Outlives,       \* jobs whose result a new report does not reset
  OldProjects,    \* files whose project an earlier session left on disk
  MaxReports,     \* MAX_REPORTS, files kept open
  CacheLimit,     \* entries of a cache before it is thinned
  CacheTarget,    \* entries left when it is thinned
  MaxScans,       \* bound: scans the user starts
  MaxPaths,       \* bound: files per scan
  MaxEdits,       \* bound: annotations the user makes
  None, Placeholder, NoFile, Done      \* not files

Asked == UNION Caches
Keys == ToSet(Autos) \cup Asked
Shown == Files \cup {None, Placeholder, NoFile}
Job == [key : Keys, file : Files]
Command == [op : {"create"}, path : Files] \cup
           [op : {"edit"}, path : Files \cup {None}, asked : Files \cup {None}, scanning : BOOLEAN]
Paths == UNION {[1 .. n -> Files] : n \in 1 .. MaxPaths}

ASSUME KeysAssumption ==
  /\ Autos \in Seq(ToSet(Autos))
  /\ Decompiles \subseteq Asked /\ Outlives \subseteq Keys \ Decompiles
  /\ Asked \cap ToSet(Autos) = {}
  /\ \A C \in Caches : IsFiniteSet(C)
  /\ \A C, D \in Caches : C = D \/ C \cap D = {}
  /\ OldProjects \subseteq Files
ASSUME NamesAssumption ==
  /\ \A n \in {None, Placeholder, NoFile, Done} : n \notin Files /\ n \notin Nat /\ n \notin Job
  /\ Placeholder \notin {None, NoFile}
ASSUME LimitsAssumption ==
  /\ MaxReports \in Nat \ {0}
  /\ CacheLimit \in Nat /\ CacheTarget \in 0 .. CacheLimit
ASSUME BoundsAssumption == MaxScans \in Nat /\ MaxPaths \in Nat /\ MaxEdits \in Nat

VARIABLES
  reports,        \* the reports kept, the current one last
  generation,     \* report_generation
  pending,        \* pending_jobs: the generation a key was queued under
  cache,          \* what is shown for a key, by the file it came from
  isScanning,
  opened,         \* current_file_path
  scanLeft,       \* scan thread: files still to scan
  scanThread,     \* "none", "running", "gone"
  scanMsgs,       \* channel scan thread -> UI
  jobs,           \* channel UI -> analysis worker: [key, file]
  running,        \* the job the worker is at
  worker,         \* "alive", "gone" after a panic
  results,        \* channel analysis worker -> UI
  commands,       \* channel UI -> database worker
  db,             \* the project the database worker has open, by its file
  onDisk,         \* files that have a project database beside them
  asked,          \* history: the path a project was last asked for
  stored,         \* history: annotations by the project they went to and
                  \* what was opened, asked for and under way when made
  scans, edits    \* how many the user made

ui     == <<reports, generation, pending, cache, isScanning, opened>>
scan   == <<scanLeft, scanThread, scanMsgs>>
work   == <<jobs, running, worker, results>>
store  == <<commands, db, onDisk, asked, stored>>
counts == <<scans, edits>>
vars   == <<ui, scan, work, store, counts>>

Current == Last(reports)

Init ==
  /\ reports = <<>> /\ generation = 0
  /\ pending = [k \in Keys |-> None]
  /\ cache = [k \in Keys |-> None]
  /\ isScanning = FALSE /\ opened = None
  /\ scanLeft = <<>> /\ scanThread = "none" /\ scanMsgs = <<>>
  /\ jobs = <<>> /\ running = None /\ worker = "alive" /\ results = <<>>
  /\ commands = <<>> /\ db = None /\ onDisk = OldProjects /\ asked = None /\ stored = {}
  /\ scans = 0 /\ edits = 0

-----------------------------------------------------------------------------
(* Opening files: the scan thread.                                         *)

ScanFiles(paths) ==
  /\ scans < MaxScans
  /\ ~isScanning
  /\ isScanning' = TRUE
  /\ opened' = Head(paths)
  /\ scanLeft' = paths /\ scanThread' = "running" /\ scanMsgs' = <<>>
  /\ scans' = scans + 1
  /\ UNCHANGED <<reports, generation, pending, cache, work, store, edits>>

ScanSends ==
  /\ scanThread = "running"
  /\ IF scanLeft = <<>>
       THEN /\ scanMsgs' = Append(scanMsgs, Done)
            /\ scanThread' = "gone"
            /\ UNCHANGED scanLeft
       ELSE /\ scanMsgs' = Append(scanMsgs, Head(scanLeft))
            /\ scanLeft' = Tail(scanLeft)
            /\ UNCHANGED scanThread
  /\ UNCHANGED <<ui, work, store, counts>>

ScanPanics ==
  /\ scanThread = "running"
  /\ scanThread' = "gone"
  /\ UNCHANGED <<ui, scanLeft, scanMsgs, work, store, counts>>

(* Mutant: what is shown of the previous file is not cleared.              *)
ResetPerFileState_KeepsCache ==
  /\ pending' = [k \in Keys |-> None]
  /\ generation' = generation + 1
  /\ UNCHANGED cache

(* reset_per_file_analysis_state.                                          *)
ResetPerFileState ==
  /\ cache' = [k \in Keys |-> IF k \in Outlives THEN cache[k] ELSE None]
  /\ pending' = [k \in Keys |-> None]
  /\ generation' = generation + 1

(* Mutant: any message is taken for a report.                              *)
TakeReport_AnyMessage ==
  /\ isScanning /\ scanMsgs # <<>>
  /\ scanMsgs' = Tail(scanMsgs)
  /\ reports' = Append(IF Len(reports) >= MaxReports THEN Tail(reports) ELSE reports,
                       Head(scanMsgs))
  /\ ResetPerFileState
  /\ UNCHANGED <<isScanning, opened, scanLeft, scanThread, work, store, counts>>

(* poll_scan_results, a report: the oldest of MAX_REPORTS makes room.      *)
TakeReport ==
  /\ isScanning /\ scanMsgs # <<>> /\ Head(scanMsgs) \in Files
  /\ scanMsgs' = Tail(scanMsgs)
  /\ reports' = Append(IF Len(reports) >= MaxReports THEN Tail(reports) ELSE reports,
                       Head(scanMsgs))
  /\ ResetPerFileState
  /\ UNCHANGED <<isScanning, opened, scanLeft, scanThread, work, store, counts>>

-----------------------------------------------------------------------------
(* Analysis jobs.                                                          *)

(* The indices of a list of keys that are not pending, in increasing order. *)
Unqueued(keys) ==
  LET S == {i \in DOMAIN keys : pending[keys[i]] = None}
  IN {s \in [1 .. Cardinality(S) -> S] : \A i, j \in DOMAIN s : i < j => s[i] < s[j]}

(* Mutant: a key is marked pending although nothing may have been queued.  *)
Enqueue_MarksFirst(keys) ==
  \E s \in Unqueued(keys) :
    /\ jobs' = IF worker = "alive" /\ running = None
                 THEN jobs \o [i \in DOMAIN s |-> [key |-> keys[s[i]], file |-> Current]]
                 ELSE jobs
    /\ pending' = [k \in Keys |-> IF k \in ToSet(keys) THEN generation ELSE pending[k]]

(* enqueue_job for several keys in order: one already pending is skipped,  *)
(* one that can not be sent is not marked.                                 *)
Enqueue(keys) ==
  IF worker = "alive"
    THEN \E s \in Unqueued(keys) :
           /\ jobs' = jobs \o [i \in DOMAIN s |-> [key |-> keys[s[i]], file |-> Current]]
           /\ pending' = [k \in Keys |-> IF \E i \in DOMAIN s : k = keys[s[i]]
                                            THEN generation ELSE pending[k]]
    ELSE UNCHANGED <<jobs, pending>>

(* Mutant: only the message Done ends a scan.                              *)
ScanOver_NeedsDone == scanMsgs # <<>> /\ Head(scanMsgs) = Done

(* Done was received, or the channel is empty and its sender is gone.      *)
ScanOver ==
  \/ scanMsgs # <<>> /\ Head(scanMsgs) = Done
  \/ scanMsgs = <<>> /\ scanThread = "gone"

(* poll_scan_results, the end: the standard analyses are queued for the    *)
(* current report and a project database is created beside the first file. *)
FinishScan ==
  /\ isScanning /\ ScanOver
  /\ isScanning' = FALSE
  /\ scanMsgs' = <<>>
  /\ IF reports # <<>> THEN Enqueue(Autos) ELSE UNCHANGED <<jobs, pending>>
  /\ commands' = Append(commands, [op |-> "create", path |-> opened])
  /\ asked' = opened
  /\ UNCHANGED <<reports, generation, cache, opened, scanLeft, scanThread, running,
                 worker, results, db, onDisk, stored, counts>>

(* The keys with an entry in the cache k belongs to.                       *)
Cached(shown, k) == {j \in Asked : shown[j] # None /\ \E C \in Caches : {j, k} \subseteq C}

(* What the cache of k may lose before an insertion when it is over its    *)
(* limit (evict_cache_by_distance keeps the entries nearest to the cursor, *)
(* which may be anywhere).                                                 *)
Dropped(shown, k) ==
  IF Cardinality(Cached(shown, k)) > CacheLimit
    THEN {D \in SUBSET Cached(shown, k) :
            Cardinality(Cached(shown, k) \ D) = CacheTarget}
    ELSE {{}}

Insert(shown, k, v) ==
  \E D \in Dropped(shown, k) :
    cache' = [j \in Keys |-> IF j = k THEN v ELSE IF j \in D THEN None ELSE shown[j]]

(* build_cfg_at, enqueue_xref_view_scan, request_*: queued if a file is    *)
(* open and it is not pending; what is shown stays.                        *)
RequestAt(shown, k) ==
  /\ reports # <<>>
  /\ Enqueue(<<k>>)
  /\ cache' = shown

(* decompile_at: a placeholder is shown while the job is pending.          *)
DecompileAt(shown, k) ==
  IF pending[k] # None
    THEN /\ cache' = [shown EXCEPT ![k] = Placeholder]
         /\ UNCHANGED <<jobs, pending>>
    ELSE IF reports = <<>>
    THEN /\ cache' = [shown EXCEPT ![k] = NoFile]
         /\ UNCHANGED <<jobs, pending>>
    ELSE /\ Insert(shown, k, Placeholder)
         /\ Enqueue(<<k>>)

Start(shown, k) ==
  /\ IF k \in Decompiles THEN DecompileAt(shown, k) ELSE RequestAt(shown, k)
  /\ UNCHANGED <<reports, generation, isScanning, opened, scan, running, worker,
                 results, store, counts>>

(* A view needs k, or the user starts an analysis from the menu.           *)
Request(k) == (k \in Asked => cache[k] = None) /\ Start(cache, k)

(* The user has what is shown for k made again.                            *)
Refresh(k) ==
  /\ k \in Asked /\ cache[k] # None
  /\ Start([cache EXCEPT ![k] = None], k)

WorkerTakes ==
  /\ worker = "alive" /\ running = None /\ jobs # <<>>
  /\ running' = Head(jobs)
  /\ jobs' = Tail(jobs)
  /\ UNCHANGED <<ui, scan, worker, results, store, counts>>

WorkerAnswers ==
  /\ worker = "alive" /\ running # None
  /\ results' = Append(results, running)
  /\ running' = None
  /\ UNCHANGED <<ui, scan, jobs, worker, store, counts>>

(* run_job is not guarded against panics; both channel ends go with it.    *)
WorkerPanics ==
  /\ worker = "alive" /\ running # None
  /\ worker' = "gone"
  /\ running' = None /\ jobs' = <<>>
  /\ UNCHANGED <<ui, scan, results, store, counts>>

(* finish_job: the key is no longer pending; TRUE if it was, under the     *)
(* present generation.                                                     *)
Fresh(k) == pending[k] = generation

(* drain_job_results, one result.                                          *)
TakeResult ==
  /\ results # <<>>
  /\ LET r == Head(results) IN
       /\ IF Fresh(r.key) THEN Insert(cache, r.key, r.file) ELSE UNCHANGED cache
       /\ pending' = [pending EXCEPT ![r.key] = None]
  /\ results' = Tail(results)
  /\ UNCHANGED <<reports, generation, isScanning, opened, scan, jobs, running,
                 worker, store, counts>>

-----------------------------------------------------------------------------
(* The project database.                                                   *)

(* The user annotates what is shown; asked and isScanning are recorded for *)
(* the properties.                                                         *)
Annotate ==
  /\ edits < MaxEdits
  /\ commands' = Append(commands, [op |-> "edit", path |-> opened, asked |-> asked,
                                  scanning |-> isScanning])
  /\ edits' = edits + 1
  /\ UNCHANGED <<ui, scan, work, db, onDisk, asked, stored, scans>>

(* A bookmark is set by a shortcut, and those are off during a scan.       *)
SetBookmark == ~isScanning /\ Annotate

(* The dialogs for names and comments need no file, stay open when a scan  *)
(* starts and take keys through its overlay.                               *)
ConfirmDialog == Annotate

(* Mutant: a project that can not be created leaves the old one open.      *)
CreateProject_KeepsOpen(path) ==
  /\ db' = IF path \in onDisk THEN db ELSE path
  /\ onDisk' = onDisk \cup {path}
  /\ UNCHANGED stored

(* A project that exists already is not opened, and none stays open.       *)
CreateProject(path) ==
  /\ db' = IF path \in onDisk THEN None ELSE path
  /\ onDisk' = onDisk \cup {path}
  /\ UNCHANGED stored

(* Without an open project an edit is dropped.                             *)
StoreEdit(c) ==
  /\ stored' = IF db = None THEN stored
               ELSE stored \cup {[project |-> db, path |-> c.path, asked |-> c.asked,
                                  scanning |-> c.scanning]}
  /\ UNCHANGED <<db, onDisk>>

(* The database worker takes one command.                                  *)
DbWorks ==
  /\ commands # <<>>
  /\ commands' = Tail(commands)
  /\ LET c == Head(commands) IN
       \/ c.op = "create" /\ CreateProject(c.path)
       \/ c.op = "edit" /\ StoreEdit(c)
  /\ UNCHANGED <<ui, scan, work, asked, counts>>

-----------------------------------------------------------------------------
Next ==
  \/ \E paths \in Paths : ScanFiles(paths)
  \/ ScanSends \/ ScanPanics \/ TakeReport \/ FinishScan
  \/ \E k \in Keys : Request(k) \/ Refresh(k)
  \/ WorkerTakes \/ WorkerAnswers \/ WorkerPanics \/ TakeResult
  \/ SetBookmark \/ ConfirmDialog \/ DbWorks

(* The threads run and every frame drains the channels; nothing makes the  *)
(* user act.                                                               *)
Fairness ==
  /\ WF_vars(ScanSends) /\ WF_vars(TakeReport) /\ WF_vars(FinishScan)
  /\ WF_vars(WorkerTakes) /\ WF_vars(WorkerAnswers) /\ WF_vars(TakeResult)
  /\ WF_vars(DbWorks)

Spec == Init /\ [][Next]_vars /\ Fairness

-----------------------------------------------------------------------------
(* Properties.                                                             *)

TypeOK ==
  /\ reports \in Seq(Files) /\ generation \in Nat
  /\ pending \in [Keys -> Nat \cup {None}]
  /\ cache \in [Keys -> Shown]
  /\ isScanning \in BOOLEAN /\ opened \in Files \cup {None}
  /\ scanLeft \in Seq(Files) /\ scanThread \in {"none", "running", "gone"}
  /\ scanMsgs \in Seq(Files \cup {Done})
  /\ jobs \in Seq(Job) /\ running \in Job \cup {None} /\ results \in Seq(Job)
  /\ worker \in {"alive", "gone"}
  /\ commands \in Seq(Command)
  /\ db \in Files \cup {None} /\ onDisk \subseteq Files /\ asked \in Files \cup {None}
  /\ stored \subseteq [project : Files, path : Files \cup {None}, asked : Files \cup {None},
                       scanning : BOOLEAN]

InFlight == ToSet(jobs) \cup {running} \cup ToSet(results)

(* At most MAX_REPORTS files are kept in memory (poll_scan_results).       *)
ReportsBounded == Len(reports) <= MaxReports

(* A cache holds at most one result more than its limit, although it is    *)
(* thinned only before some of the insertions.                             *)
CacheBounded ==
  \A C \in Caches : Cardinality({k \in C : cache[k] \in Files}) <= CacheLimit + 1

(* Whatever is pending is pending under the present generation.            *)
PendingIsCurrent == \A k \in Keys : pending[k] \in {None, generation}

(* While the worker lives, a pending key has a job on its way: it will not *)
(* stay pending, and blocked, forever.                                     *)
PendingInFlight ==
  worker = "alive" =>
    \A k \in Keys : pending[k] # None => \E j \in InFlight : j # None /\ j.key = k

(* While the worker lives, "Decompiling..." is shown only for a job that   *)
(* is still pending, so that its text will replace it.                     *)
PlaceholderIsPending ==
  worker = "alive" =>
    \A k \in Decompiles : cache[k] = Placeholder => pending[k] # None

(* "Results queued for an older binary are discarded instead of being      *)
(* applied to the new one" (finish_job): what is shown was computed from   *)
(* the current file.                                                       *)
ShownIsCurrent == \A k \in Keys : cache[k] \in Files => cache[k] = Current

(* However far behind the database worker is, it writes an annotation to   *)
(* no other project than the one the UI had asked for last when it was made*)
(* and, unless a scan was running, to that of the path opened.  During a   *)
(* scan the path is that of the new file already, the project is not.      *)
StoredWhereOpened ==
  \A e \in stored : e.project = e.asked /\ (~e.scanning => e.project = e.path)

(* "is_scanning cannot get stuck true forever": a scan ends, even one      *)
(* whose thread panicked.                                                  *)
ScansEnd == isScanning ~> ~isScanning

(* A queued job is answered or forgotten, unless the worker panicked.      *)
JobsEnd == \A k \in Keys : pending[k] # None ~> (pending[k] = None \/ worker = "gone")

(* Nothing the user started goes on for ever, whichever thread dies.       *)
WorkEnds == ScansEnd /\ JobsEnd
=============================================================================
