# FreakRE in TLA+

FreakRE is a reverse-engineering toolkit in Rust: 48 crates that read executable
files, look for malicious content, lift machine code to an intermediate
representation (IR), decompile it, and keep the analyst's annotations in a
project database. It has a desktop application, an HTTP server and command-line
tools. This directory holds TLA+ modules of the parts of it that are hard to get
right by testing, the configurations under which TLC checks them, and proofs
that TLAPS checks. `src/` below is the repository.

Running it: `tlc -config <Run>.cfg <Module>` for each row of the table of runs,
`tlapm <Module>Proofs.tla` for the proofs. `PROJECT.json` lists runs, theorems,
hazards, findings, the mutants that show each property can fail, and for every
definition the source lines it models.

---------------------------------------------------------------------------
## 1. Inventory

Most of the workspace is sequential and keeps no state between calls: parsers,
lifters and detectors are functions from bytes to a report. State and order
matter in the components below. The others are in the last table of this
section.

### SSA constant propagation - `freakre-ir/src/sccp.rs`

*State:* a lattice value per SSA version (absent = unknown, Const, Over), the
executable edges and blocks, a FIFO of blocks with a set beside it, the number
of edges of the previous round; then the function being rewritten with its
predecessor and successor caches.
*Operations:* visit the phis and instructions of a block, refine a value and
queue the blocks that use it, mark the live edges of a terminator, start another
round from the entry while the number of edges still changes, drop dead blocks,
collapse phis and fold branches until nothing changes.
*Interactions:* called by the decompiler between `to_ssa` and `ssa_gvn`; what it
returns goes to dead-code removal and `from_ssa`.
*Hard:* the order in which edges and values appear decides what is visited
again; restarting keeps the values but forgets the edges; termination and
soundness rest on a monotone lattice; a rewrite pass uses facts that the same
pass changes.
*Correct if:* the queue loses and duplicates nothing, values only climb, the
pass ends, it ends at a fixpoint, no edge stays that was marked on too little
knowledge, and the rewritten function computes what the original did.

### Project database - `project-db/src/lib.rs`, `undo.rs`

*State:* sled trees of functions, bookmarks, labels, comments, types; two trees
of cross-references (by source and by target); in memory an undo and a redo
stack of actions, with a limit.
*Operations:* add, update and remove records; add cross-references; undo, redo;
flush; open and create.
*Interactions:* owned by the database worker of the desktop application.
*Hard:* an action must be reverted to exactly what was there; both indexes must
change together, in edits, undos, redos and crashes; stacks at their limit;
an undo that fails; a crash between a write and the next flush.
*Correct if:* the two indexes agree in memory and on disk, the stacks stay
bounded and connect the contents the project really had, and the whole behaves
like a history of contents.

### Desktop application - `desktop-ui/src/app.rs`

*State:* up to four scanned files, a generation number, the jobs pending under
it, result caches; an unbounded channel to and from one analysis worker, one
channel per scan from its scan thread, one to the database worker.
*Operations:* open files, take a report, end a scan, request, refresh and queue
analyses, take results, annotate; the threads' own steps.
*Interactions:* four kinds of threads over channels. The UI thread alone owns
the application's state and drains the channels once per frame.
*Hard:* results that arrive after another file was opened, threads that panic,
a database worker that is behind, caches that are thinned only sometimes.
*Correct if:* what is shown belongs to the file shown, no key stays pending
without a job, every scan ends, annotations reach no project but the one asked
for when they were made, and memory stays bounded.

### Server jobs - `freakre-server/src/main.rs`

*State:* an atomic id counter and a table of jobs behind an async lock.
*Operations:* start a scan job (allocate, lock, evict, enter, spawn), the task's
own entries, look a job up.
*Hard:* handlers interleave at every await; a client may hang up there; the
task may overtake its request; a full table evicts any entry, also that of a
running task; a scanner that panics.
*Correct if:* an entry belongs to one job and tells how far it is, a client
never sees a job go backwards, the table is bounded.

### SSA construction and destruction - `freakre-ir/src/ssa.rs`

*State:* none between calls; within one, the dominator tree, frontiers, version
counters and stacks, a substitution, a table of computed values.
*Operations:* `to_ssa`, `remove_trivial_phis`, `ssa_gvn`, `ssa_dce`, `from_ssa`,
in the order `decompile_function_inner` calls them.
*Hard:* dominators and frontiers come from an iteration; the table of values must
be that of the dominators and no sibling's; phis are parallel copies and become
moves in a row on edges that may have to be split; all versions of a register
share one name afterwards.
*Correct if:* the tree is the one the paths define, each pass keeps SSA form,
and the function that comes out does what went in.

### Control-flow structuring - `decompiler/src/structuring.rs`, `ast_to_c.rs`

*State:* within one call, the blocks visited, those whose instructions are already
written, those written twice, and the targets of gotos, which survive from the
first of its two passes to the second.
*Operations:* loops with their kinds and exits, switches (explicit, from a chain of
comparisons, from a jump table), short circuits, break arms, merge points,
copies of small blocks in place of a goto, labels.
*Interactions:* gets what SSA destruction leaves, or the function as it came;
its tree is simplified and printed as C.
*Hard:* each block is written where the traversal comes to it first; where a region
ends depends on boundaries handed down, on the loop around it and on what was
visited before; a goto is known only after its target was written.
*Correct if:* no block is missing, every goto has its label, and the C text does
what the function does.

### Data-flow analyses - `dataflow/src/worklist.rs`, `reaching_definitions.rs`, `live_variables.rs`, `value_set.rs`

*State:* a set of blocks to visit, two facts per block, a budget of visits; for
value sets a stack of blocks and two states per block.
*Operations:* the solver and its two instances, value sets with their own
iteration, joins and widening.
*Interactions:* `DataFlowAnalysis::analyze` runs them one after the other for the
decompile job of the desktop and for `decompile` of the tools.
*Hard:* whom a change is told to, in an order fixed by block numbers; budgets that
run out; what a variable unknown to some predecessors is.
*Correct if:* facts hold of some path, all of them when the solver reports
convergence, values cover every execution, and the analyses end.

### Control-flow graphs - `cfg-builder/src/lib.rs`

*State:* a stack of offsets, the instructions decoded; then blocks and edges,
dominators and loops.
*Operations:* recursive descent and linear sweep with `max_instructions`,
leaders, blocks, edges, the dominator iteration, `detect_loops`.
*Hard:* entries met in any order, overlapping instructions, the limit within a
descent, targets outside the region; a dominator iteration that is not the
textbook's.
*Correct if:* what is decoded is what can be reached, edges are the ways code
goes on, dominators and loops are genuine, and everything ends.

### GPU scan - `gpu-scan/src/lib.rs`, `shaders.rs`, `fallback.rs`

*State:* whether a device is in use and why not, a poison flag that the device's
error callback sets, the buffers of the running scan.
*Operations:* literal scans, entropy maps, read-back, the fall back to the CPU.
*Interactions:* the device's invocations run beside each other; its callback runs
at any time.
*Hard:* slots are claimed and filled in any order and past the cap; a command may
be rejected between the check and the answer; data of more than one pass.
*Correct if:* an answer is the CPU's, no slot is used twice, every scan returns.

### Not modelled, a model planned

| part | state, operations | hard | correct if |
| --- | --- | --- | --- |
| call chains, `project-db/src/xrefs.rs` | visited set, path | sharing of the visited set | chains are those of the graph |
| signature overlay and generator, `func-sigs/src/db.rs`, `tools/fsig-gen` | process-wide overlay, one-time load; cancel flag, temporary output | crash before the rename | loaded once; output is whole |
| function discovery, `func-finder` | seeds, visited set, limits | overlapping functions | functions partition the code reached |

### Not modelled, with the reason

| part | reason |
| --- | --- |
| lifters, decoding | one table-driven translation per instruction, no state |
| the other IR optimisations, the validator | pure peepholes over one block, each a table of cases |
| exception regions, copy coalescing, stack slots, expression simplification and printing of the decompiler | pure rewriting of trees and lists; unit tests per rule fit better |
| use-def chains, taint tracking | read off the facts of the solver, which are modelled |
| type recovery | constraint solving over type trees without interaction |
| emulator, scripting | interpreters; the instruction semantics is out of TLC's reach |
| scanner, content analyzers, parsers, pattern engines, plugins, diffing, symbols, utilities | pure functions over bytes without state between calls; fuzz targets and unit tests fit them better |

These parts hold most of the lines of the workspace (parsers, lifters and rule
tables alone more than half), which is why the modules here stand for a small
share of the lines and for most of the state.

---------------------------------------------------------------------------
## 2. Modules

| module | models | checked through | proved in |
| --- | --- | --- | --- |
| `Sccp` | the constant propagation pass | `MCSccp` | `SccpProofs` |
| `SccpExec` | `Sccp`, then the original and the rewritten function executed side by side | `MCSccpExec` | `SccpExecProofs` |
| `ProjectHistory` | abstract: a project is its content and the contents remembered | refined by `ProjectDb` | - |
| `ProjectDb` | the database with its trees, actions and stacks | `MCProjectDb` | `ProjectDbProofs` |
| `Desktop` | UI thread, scan threads, analysis worker, database worker | `MCDesktop` | `DesktopProofs` |
| `ServerJobs` | the scan jobs of the server | `MCServerJobs` | `ServerJobsProofs` |
| `Ssa` | SSA construction, clean-up and destruction, then both functions executed | `MCSsa`, `MCStructuring` | - |
| `Structuring` | `Ssa`, then the tree of statements, executed beside the function it was made from | `MCStructuring` | - |
| `Worklist` | the data-flow solver with its two instances | `MCDataflow` | `DataflowProofs` |
| `ValueSets` | value-set analysis | `MCDataflow` | `DataflowProofs` |
| `Dataflow` | the three analyses in a row, then the function executed | `MCDataflow` | `DataflowProofs` |
| `GpuScan` | the scanner, the device's invocations and its error callback | `MCGpuScan` | `GpuScanProofs` |
| `CfgBuilder` | disassembly, blocks and edges | `MCCfg` | `CfgProofs` |
| `CfgLoops` | dominators and loops of what `CfgBuilder` built | `MCCfg` | `CfgProofs` |

Definitions whose name has a suffix (`Refine_Silent`) are mutants: a plausible
mistake in the definition that follows them. They are used by no specification.

### Sccp

One action is one step of the loops of `sccp()`: `Pop` takes a block from the
FIFO, `VisitPhi`, `VisitDef`, `VisitJump` and `VisitOther` handle one phi or
instruction, `LeaveBlock` ends the visit. `NextRound` is the restart of the
outer loop, which clears the executable edges and blocks but not the lattice;
`DropDeadBlocks` is its exit followed by the removal of blocks; `Rewrite` is one
pass of the rewriting loop. `Refine` is `merge_lattice` with `notify_uses`;
`QueueBlocks` is the closure `queue_block`; blocks are queued in source order,
as in the code (`InOrder`).

A function is a record of phis and instructions per block. `IsProgram` says
what `to_ssa` guarantees and the pass relies on, and nothing about dominance, so
that the theorems need none of it. Registers, widths and expression trees are
abstracted: an operand is a version, an integer or `Opaque`; arithmetic wraps at
`Half`; `add`, `sub`, `eq`, `lts`, `neg`, `copy` stand for the operations the
pass folds, `rol` for one it does not, `load` for the definitions it never
tracks, `ijmp` for a jump to an unknown place.

### SccpExec

When `Sccp` is done the original function runs on any values on entry and any
loaded values, and the rewritten one runs with it, each in a store of its own.
The execution of SSA is not code of the repository; it is what SSA means (all
phis of a block read before any is written) and is marked external. The functions
executed are in the form `to_ssa` leaves (`DefinedOnce`, `IsStrict`): one
definition per version, a phi input for every edge, and on every path to a use a
definition of what it reads, which is how `AssignedOnEntry` puts dominance
without dominators. `SsaForm` of module `Ssa` checks the same form of what
`to_ssa` returns; the analysis itself, and the theorems about it, need none of
it. An executed function may read its arguments. `FromEntry` is what depends on
them: the least set of versions that has the values on entry and what phis and
instructions other than loads make of a member. `PassComplete` says three things
of an executed function: no join that is read was taken for a constant although a
live edge brings a version of `FromEntry` (`EntryApart`); when a round ends its
joins have seen all live edges (`Covered`); and no live phi reads a phi that was
removed (`RemovedApart`). It also states what follows: what is read and held
constant by a join arrives by each of its edges (`JoinsAgree`), and the rewritten
function uses no version whose definition is gone (`NothingDangles`), where an
input by an edge that is not executable is no use.

### ProjectHistory and ProjectDb

Each public operation takes `&mut self` and runs to its end, so it is one
action. `AddObject` is `add_function`/`add_bookmark`, `SetNote` is
`set_label`/`set_comment`/`set_type`, `RemoveRecord` the five removals,
`UpdateFunction` and `AddXref` themselves. `Undo`, `Redo` and their failing
variants follow `undo.rs`. sled makes a write visible at once and durable at a
flush it does on its own or when asked: `Flush` may happen at any time, `Reopen`
may follow any step, whatever was flushed. `past` and `future` are history
variables: the content before each action of `undo`, after each of `redo`.

`AddsAreNew` says whether callers add objects only where there is none. The code
does not check it (see the findings); with it the database implements
`ProjectHistory`: `INSTANCE ProjectHistory WITH now <- Content, saved <- disk`.

### Desktop

| action | code |
| --- | --- |
| `ScanFiles` | `scan_files`, with a fresh channel and thread |
| `ScanSends`, `ScanPanics` | the scan thread |
| `TakeReport`, `FinishScan` | `poll_scan_results`: a report, with `reset_per_file_analysis_state`; the end by `Done` or by a closed channel, which queues the standard analyses and sends `DbCommand::Create` |
| `Request`, `Refresh` | `build_cfg_at`, `decompile_at`, `request_*`, `enqueue_xref_view_scan` and the refresh of the decompiler view, each with `enqueue_job` |
| `WorkerTakes`, `WorkerAnswers`, `WorkerPanics` | the analysis worker around `run_job` |
| `TakeResult` | one result in `drain_job_results` with `finish_job` and the thinning of a cache |
| `SetBookmark` | the bookmark shortcut in `handle_keyboard_shortcuts`, off during a scan |
| `ConfirmDialog` | `rename_dialog` and `comment_dialog` (`views.rs`), at any time |
| `DbWorks` | the database worker, one command |

A file stands for its bytes and everything computed from them, so a cache entry
is the file it was computed from. `selected_report` is only ever set to `None`,
so the report shown is the last one. The overlay over a running scan blocks the
pointer only: shortcuts check `is_scanning`, but a dialog that was open when a
file was dropped is drawn on, keeps the focus and can be confirmed by keyboard.
So annotations are made at any time, by shortcut between scans, and analyses may
be asked for at any time. Each edit command records what was opened and asked for
when it was made (`asked` is a history variable, the path of the last
`DbCommand::Create`). One `poll` call drains several messages; the model takes them one at a
time, which allows more interleavings than the code has. `Caches` groups the keys
by the cache their results go to; which entries a thinning drops depends on the
cursor, so `Dropped` is any set of the right size.

### ServerJobs

`Allocate` is the `fetch_add`; `Queue` is what happens under the write lock and
the spawn; `Begin`, `Finish` and `Panic` are the blocking task, which enters the
job again whether or not it is still in the table; `Cancel` drops the handler at
its only await before the job is entered; `GetJob` is a poll by the client. The
spawn is part of `Queue`: nothing can come between it and the release of the
lock that any other request could tell.

### Ssa

One action per pass: `Build` (or `Refuse`, when `to_ssa` returns an error and the
decompiler keeps the function as it is), `Trim`, `Number`, `Retrim`, `Discard`,
`Leave`. Constant propagation, which the decompiler runs between `Trim` and
`Number`, is `Sccp`. The bodies of the passes are operators named for the code's
functions; recursion in the code is recursion here, which is why this module is
only model-checked. `Start` and `RunBlock` execute `ir` and the lowered function
block by block on the same inputs; a use of an undefined name yields `Undef`.
The execution is external, as in `SccpExec`. Widths, types and labels are left
out; an operand is a base with a version.

### Structuring

`Structuring` extends `Ssa`: `Structure` takes the function from any of the three
places the code may come from (lowered, refused, or SSA switched off) and makes
the tree with one operator per function of `structuring.rs`. `Region` is
`process_region`, cut into its cases: `Revisit` for a block met again,
`PlainBlock`, `Branch`, `LeaveLoop`, `BothWays` for the terminators. The
`StructContext` is the record `ctx` that every operator takes and returns.
`Structured` is the two passes, of which the second gets the targets of gotos of
the first. Statements and conditions are records; an expression is the
instruction it is made from.

`StartBoth` and `RunBoth` execute the function and the tree from one load, call,
store or return to the next. The tree is executed as the C that `ast_to_c.rs`
prints: a stack of frames, with what `break` and `continue` mean there (a `break`
in a switch leaves the switch), cases falling through where no `break` is
printed (`CaseCode`), the update of a `for` before its test, and jumps to labels.
C itself is external. `Fuel` bounds the steps between two observations and ends
silent loops.

### Worklist, ValueSets, Dataflow

`Visit(b)` is one turn of the loop of `solve`: the smallest block of the
`BTreeSet`, its merge, its transfer, and its readers if the *merged* fact
changed, as in the code. `Own` and `Lost` are the instances' gen and kill sets.
`VisitValues` is one turn of the value-set loop: `EntryState` the join or
widening of the predecessors' exit states, `Along` the states the block goes
through, `PushSuccs` the successors told of a changed exit state. `BeginLive`, `StartValues` and
`Finish` are the ends of the analyses, by an empty worklist or by the budget.
`RunBlock` then executes the function with any loaded values.

### GpuScan

`Ask` is an entry point with its check of `active_inner`; `Acquire`, `BeginPass`,
`Claim`, `Store`, `Miss`, `ReadCount`, `ReadMatches` a literal scan, of which
`Claim` and `Store` are the two halves of a shader invocation; `MapChunk` and
`MapDone` an entropy map. `Reject` and the failing alternatives are commands the
device refuses, which reach the poison flag through the callback and leave zeroes
in the staging buffer; `ReadFails` is a failing map, `FallBack` what an `Err`
does to the scanner; `Uncaptured` is an error of nobody's command. wgpu and the
device are external.

### CfgBuilder and CfgLoops

`Pop`, `Descend`, `Linear` and `Break` are the steps of the two sweeps, `Sort`,
`BuildBlocks` and `ConnectEdges` the phases after them. An instruction is its
length, its kind and its targets; decoding is external. `CfgLoops` continues on
the finished graph. `Begin` enters `DominatorTree::compute`; `Walk`, `Leave` and
`Ordering` are the depth-first search of `reverse_postorder`, one edge of the
block on top of the stack at a time; `Refine` is one block of a sweep over that
order, `Again` starts the next sweep if one changed a dominator. `Intersect` has
the two fingers of the code and its step limit (`Limit`, 1000 in the code), and
is given `idom[p]` as the code gives it. `DetectLoops` is `detect_loops`. No
caller outside the crate uses these two.

---------------------------------------------------------------------------
## 3. Runs

Passing runs:

| run | instance | properties |
| --- | --- | --- |
| `sccp` | 519 functions of eight families; diamonds, loops, switches, joins with a dead arm and functions of an argument then executed on inputs 0 and 1 | `TypeOK`, `FixpointReached`, `PassComplete`, `NoSpeculativeEdges`, `Terminates`, `ConstantsHold`, `SameBehaviour` |
| `projectdb` | function, bookmark and type with two contents, one cross-reference, stacks of 2 | `TypeOK`, `XrefsAgree`, `ImplementsHistory` |
| `desktop` | two files, two scans, one automatic analysis, one decompilation, one annotation, an old project on disk | `TypeOK`, `PendingInFlight`, `PlaceholderIsPending`, `StoredWhereOpened`, `WorkEnds` |
| `server_jobs` | three requests, a table of one entry | `TypeOK`, `EntriesTellTheirTask`, `TableBounded`, `NeverBackwards` |
| `decompile` | functions of six graphs over two variables and two registers, modulo 4; all graphs of four blocks; nested loops, counted loops, switches | `TreeIsRight`, `SsaForm`, `EffectsKept`, `TreeComplete`, `PlainCodeKept` |
| `dataflow` | 631 functions of six graphs over two variables; 7 visits, 10 turns | `TypeOK`, `NothingInvented`, `StaleConfined`, `ValuesSettled`, `ValuesCover`, `Terminates` |
| `gpu_scan` | two scans of up to five candidates or seven bytes; passes of 4 candidates, chunks of 3 windows, 2 match slots | `TypeOK`, `LiteralExact`, `WindowsExact`, `ScansReturn` |
| `cfg` | regions of three to five instructions | `TypeOK`, `DecodesReachable`, `EdgesFollowCode`, `DominatorsSound`, `LoopsNatural`, `Terminates` |

Runs that TLC must find violated, one per finding of section 5:
`sccp_late_edge`, `desktop_stale`, `ssa_names`, `structuring_trace`.

### What the runs show, and why the bounds suffice

*sccp.* The functions (module `MCSccp`) are in the shape `to_ssa` leaves them:
not pruned, live-ins as version 0, a phi at every join of a variable assigned in
an arm or a loop. Each family fixes a control-flow graph and varies constants,
loads, copies, comparisons and operations that fold to nothing, so that every
test can be constant, unknown, known only in a later round, or undefined. There
are joins with an edge that becomes live late, nested joins, loops whose body
changes its own test, switches with a missing default, duplicate cases and a
fall-through into an unknown jump. Integers have two bits, which is enough to
wrap. The lattice has height two, so the restarts are exercised within two or
three rounds.

`FixpointReached` is stated over edges and instructions and checked on all
families. For phis the same statement is `PhisCoverLiveEdges`; it fails on
`LateEdges`. `ConstantsHold` and `SameBehaviour` fail there, on `LiveInJoins`
and on `Cascades`; only the families without late edges, without a join of a
constant and a value on entry, and without a phi of another removed phi are executed
(`Executed`), and there the pass is right to the last read and jump. `Arguments`
are 42 functions among them that test, add to, load from, join, loop on and return
the argument `a0`.
`PassComplete` is these three conditions put as an invariant (`Covered`,
`EntryApart`, `RemovedApart`), with what follows from them (`JoinsAgree`,
`NothingDangles`): it holds on the executed families, each of the others violates
one part, and the theorems about guesses, constants and behaviour assume it.

*projectdb.* Two contents tell old from new; two stack entries make a push drop
the oldest while redo holds one; one record of each kind (object with update,
object without, note) meets every operation. The slots share one address; the
cross-reference joins two. Records that do not decode
(`Undecodable`) are not in this run, since a removal of one is not undoable by
design of the code; type correctness, index agreement and the bound on the
stacks are proved with them.

*desktop.* Two scans are needed for a result of one file to meet the other, and
suffice, as nothing of the first file survives the second reset but messages in
flight. `MaxReports` is 1 so that a second report evicts the first;
`CacheLimit` is 0, so that any entry of a cache thins it. `OldProjects` lets a
project exist from an earlier session. The automatic analysis is the one whose
result outlives a reset (`xrefs`); in `desktop_stale` it is one whose result does
not (`ml`). Paths, scans and edits are bounded by `MaxPaths`, `MaxScans` and
`MaxEdits` in guards; the proofs need no bound.

*server_jobs.* With three requests and one entry an evicted job can come back
while another is entered and a third is evicted by it. Requests are
interchangeable (symmetry; the run has no liveness property).

*decompile.* `Diamonds`, `Whiles`, `Selfs` (a critical edge from a block to itself and
two edges to one block), `Chains` (two joins reached over critical edges),
`Tangles` (a loop with two entries, a switch that names a block twice) and
`Knots` (the graph on which one sweep over the dominators does not do) vary the
bodies of their blocks over copies, equal sums with swapped operands, loads,
calls and an add with carry; `Refused` holds one function per error. Two
variables and two registers are what it takes for one to be overwritten while
the other is read. Arithmetic modulo 4 tells the sums apart. `EffectsKept` is
`SameEffects` where value numbering let no version of a register stand for
another one; without that condition it is the finding `ssa_names`.

All of these are structured as well, once lowered and once as they came. Added
for the structurer (`MCStructuring`) are all graphs of four blocks that end in a
return, with a call in every block and with calls in the blocks that do not
branch, so that each block shows in the trace; nested loops and loops with
arms, breaks and two ways out; counted loops; switches of the three kinds.
`TreeComplete` holds on all of them with two exceptions it names. `PlainCodeKept`
is `SameTrace` for the functions `IsPlain` describes, a good third of those
structured: conditionals, `while` and `do` loops nested properly, and switches
whose cases return. The other shapes are the ones on which `SameTrace` fails;
they are listed in section 5. A run over all graphs of five blocks with calls
in any of the blocks (over 30,000 plain functions, not kept as it takes too
long) found no further shape. Four blocks hold one loop or two branches that
share a join, which is where boundaries, exits and visited blocks first meet.

*dataflow.* Six graphs hold a line, a diamond, a loop, a self-loop, a loop whose
latch has the smaller number and one through the entry. `MaxVisits` and
`MaxTurns` are reached by the loops and not by the others, so both ends of each
analysis occur; widening sets in after three turns and gives `Top` for ranges
wider than 5 of 32 integers; the diamond computes with the range it has joined.
`ValuesCover` is claimed for functions whose entry writes every variable,
without negations and adds with carry, whose analysis converged and in which no
range wraps around the ends of the integers (`Tame`); section 5 says what
happens without.

*gpu_scan.* Four candidates fill a pass, so five need a second one; two slots
and up to four hits reach the cap and pass it. Every position set of the needle
is tried, and all window and step lengths up to 3, so the last window is and is
not on the stride. With two scans the second meets the state the first left.
What the device rejects is excluded from `LiteralExact` and `WindowsExact`
(`Clean`): the code returns zeroes there (section 5).

*cfg.* `Small` is every combination of three instructions of 18 kinds before a
return, with targets outside on both sides; `Turned` has the loops with several
exits, entries and nestings that four jumps can form; `Overlapping` has
instructions of two and three bytes with jumps into their middle; `Configured`
has prologue seeds, limits from 1 and linear sweeps. `EdgesFollowCode` is
claimed where instructions do not overlap and the limit was not reached.
`DominatorsSound` and `LoopsNatural` are claimed where `Limit` is at least twice
the number of blocks (`Ample`): 10, for the at most five blocks here.

The systems other than `projectdb` may stop: a pass returns, requests are all
served, the user does nothing. Their configurations switch the deadlock check
off; `projectdb` never stops and keeps it.

### Fairness

`Sccp`, `Dataflow` and `CfgLoops` are sequential calls: weak fairness of their
steps says that they run; the executions beside them are not fair.
`Desktop` has weak fairness for the steps of the threads (`ScanSends`,
`WorkerTakes`, `WorkerAnswers`, `DbWorks`), because the operating system runs
them and no job blocks on another, and for the UI's handlers (`TakeReport`,
`FinishScan`, `TakeResult`), because every frame drains the channels and frames
are requested while a scan runs or a job is pending. Panics and everything the
user does are not fair. Under it a scan ends even when the scan thread panics,
since a closed channel counts as the end, and a job is answered or forgotten
unless the worker panicked (`WorkEnds`). `GpuScan` has weak fairness for the work
of a scan: `device.poll(Wait)` waits for what was submitted, and the device
drivers' watchdogs end what hangs. `ProjectDb`, `ServerJobs`, `Ssa` and
`Structuring` claim safety only.

### How each property can fail

For every property there is a mutant of a mapped definition under which TLC
finds it violated in the same run, for example: users of a changed value are not
queued (`Refine_Silent`), the reverse cross-reference is not written
(`LinkXref_ForwardOnly`), a key is marked pending before it is queued
(`Enqueue_MarksFirst`), a phi does not count as a definition (`PhiSites_Once`),
what one arm computes is in the table of the other (`Scope_Global`), the labels of
the first structuring pass are not carried to the second
(`Structured_OnePass`), a loop test is not negated (`LoopTest_NoNot`), a change is
told to the blocks it came from (`Dependents_Deps`), the counter of the scan
before is kept (`Acquire_KeepsCounter`), a jump falls through
(`EdgesOf_JumpFalls`), the walk from a tail does not stop at the header
(`LoopBlocks_PastHeader`).

---------------------------------------------------------------------------
## 4. Proofs

| module | theorems | inductive invariant |
| --- | --- | --- |
| `SccpProofs` | `TypeCorrect`, `WorklistIsMirrored`, `EdgesAreLive`, `LatticeOnlyClimbs`, `FixpointIsReached`, `GuessesAreDropped`, `RoundsSettle` | `Inv`, `SettledBehind`, `Restarted` |
| `SccpExecProofs` | `ConstantsAreRight`, `BehaviourIsKept`, `EveryEdgeAgrees`, `NoUseIsLost`, `PassKeepsBehaviour`, `RewrittenReadsAssigned` | `Derived`, `Tracked`, `Follows`; `Rewritten`, `CopiesHold`, `StoresAgree`; `Rooted`, `Lasting` |
| `ProjectDbProofs` | `TypesKept`, `IndexesAgree`, `HistoryStaysBounded`, `UndoIsExact`, `Refinement` | types, agreement, bound; with `Careful` also the linked history |
| `DesktopProofs` | `TypesKept`, `MemoryBounded`, `CachesStayBounded`, `NothingOldIsPending`, `PendingIsOnItsWay`, `PlaceholdersAwaitText`, `WrittenWhereOpened` | `Inv` |
| `ServerJobsProofs` | `TypesKept`, `EntriesAreCurrent`, `EvictedForGood`, `SizeBounded`, `HeardInOrder` | `IInv`, `Sized`, `HeardBehind` |
| `DataflowProofs` | `TypeCorrect`, `NothingIsInvented`, `StaleIsConfined`, `ValuesAreSettled`, `ValuesAreCovered` | `IInv` with `MovedFollows`; `VInv` with `Sheltered` |
| `GpuScanProofs` | `TypeCorrect`, `SlotsAreOwned`, `LiteralScanIsExact`, `EntropyMapIsExact` | `IInv` with `Progress`, `NoGaps`, `Counted`, `Mapping` |
| `CfgProofs` | `TypeCorrect`, `DescentIsExact`, `EdgesAreWays`, `DominatorsAreSound`, `LoopsAreNatural` | `IInv` with `Within`, `Covered`; `Cut`; `TreeInv` with `Search`, `Sweeping`; `Linked` |

*SccpProofs* holds for any set of well-formed functions, any integer width and
any number of versions. A block under visit must be known executable before the
edges leaving it can be: `EdgesJoinLiveBlocks` alone is not inductive, `Inv` adds
that. `FixpointIsReached` rests on `SettledBehind`: an instruction of a live block
that is not queued, and that is behind `pc` if its block is under visit, has
nothing left to mark or refine. A refinement unsettles only readers of the
version, and their blocks are queued by it; a new round queues the one block it
leaves live; when the queue is empty everything is behind. The lattice lemmas (`MergeType`, `MergeClimbs`, the types of `EvalPhi`,
`EvalInst`, `LiveTargets`) carry the visits; `LeastNat` gives the least index
that orders the targets of a terminator.

`GuessesAreDropped` assumes `[]RoundsCover`: when a round ends, the phis of its
blocks have seen the edges it marked. Then the end of the first round is a
fixpoint (`SettledIsFixpoint`), and every later round starts from the lattice of
a fixpoint: it marks only edges that are live under it, and those the round
before had marked already, so its visits refine nothing (`Restarted`, with
`MergeIdle` and `RefineIdle`). It marks no more edges than the round before; if
it marks as many, it marked the same ones (`EdgesCounted`), and each of them is
live under the final lattice. `RoundsSettle` is the other half: no round after
the first changes the lattice, so the second round is only there to find out
which edges the first had to guess. Without the hypothesis the theorem is false:
section 5 has the function.

*SccpExecProofs* holds for any functions in the form `to_ssa` leaves, any values
on entry and any loaded values. `Derived` says where lattice values come from: a
version without a definition stays unknown, and no version is held higher than
its one definition evaluates to (`EvalInstMonotone`, since the lattice only
climbs below it). `Tracked` is definite assignment along the execution:
everything every path to this point assigns has a value. That the original reads
nothing it has not assigned (the lemma `NothingEarly`) follows at once; it is what
makes an unknown operand harmless. `Follows`: the
execution stays in live blocks, and what is read and held constant has its
constant. An assignment keeps it by `FixpointReached` and `Derived`, which pin
the lattice value to the folded one; a jump keeps it because control goes along
a marked edge (`JumpsAreMarked`) and the joins agree on it. `[]JoinsAgree` is
the hypothesis of `ConstantsAreRight`, and it is needed: `LateEdges` and
`LiveInJoins` violate it and the conclusion.

`BehaviourIsKept` is that the pass is right: the rewritten function cannot be
told from the original. `Copies` are the pairs of a version and what it always
equals, a constant of the lattice or another version: a phi equals `x` if each
input that comes by a live edge is `x` or equals it, and `x` is assigned on that
edge. A phi of a loop may carry itself around, so the copies are the largest set
of pairs that justify each other (`CopiesJustified`), not the least one.
The provers need two facts about it that look obvious and are not. Equality of
this kind is transitive (`CopyOfCopy`). And it survives a loop: when a loop is
entered again and `x` gets a new value, its copies still hold the old one; but a
block that assigns `x` is also reached on a path that has not assigned it
(`FirstTime`), so no copy of `x` is among what every path to that block assigns
(`CopyLeftBehind`), and a strict function cannot read one before it is assigned
anew. No notion of dominance is needed beyond `Without`, the blocks that can be
entered before a version is assigned.

The rest has three parts. `Rewritten`, of the pass: every operand it left is the
original one or a copy of it, every instruction is where it was, and a test was
folded only if it is a copy of an integer; this holds through each of the passes,
as what a collapsed phi is replaced by is what survives of its inputs
(`CollapsedCopies`, `PhiValueCopies`). `CopiesHold`, of the original execution:
what is assigned equals what it copies. `StoresAgree`, of both: the two stores
agree on all versions whose definition is left. `[]JoinsAgree` makes the
constants right; `[]NothingDangles`, that no use is left of a removed phi, makes
an operand readable in the second store. `Cascades` violates that one and the
conclusion.

The other theorems discharge these hypotheses. `EveryEdgeAgrees` derives
`[]JoinsAgree` from `[]EntryApart` and `[]Covered`. A phi that covers its live
edges and is held constant has by each of them that constant or a value not yet
known, and `EntryApart` says that none of these depends on a value on entry. So it
remains to show that nothing else is unknown. `Rooted`: after the first round each
live block is reached along live edges, and the joins that go into the rewriting
cover them. Then no version is left unknown that is read and not in `FromEntry`
(`AllValued`): the blocks on whose every path what is assigned is known or in
`FromEntry` contain the entry and are closed under live edges. For the first
instruction of a block that is neither would have only known operands, as what
reads a member of `FromEntry` is a member (`FromEntryKeeps`), and with known
operands (`EvalKnown`) `FixpointReached` would make it known. How the function
uses its arguments elsewhere is free. `NoUseIsLost` derives `[]NothingDangles` from `[]Covered` and
`[]RemovedApart`. `Lasting`: the live inputs of the phis never change, as
nothing they read is removed; what collapses is determined by these inputs, so it
does so in the first pass, which rewrites all other uses; later passes remove
nothing that is used. At the start every use is defined because the function is
strict (`DefinedLive`). `PassKeepsBehaviour` puts both together: its
conditions are on the analysis, none is on the execution. Under them
`RewrittenReadsAssigned` says that a substitution never makes the rewritten
function read a version before its definition.

*ProjectDbProofs* holds for any slots, contents, cross-references and stack
limit. Types, agreement and the bound need no assumption on callers, and hold
with records that do not decode and through crashes. The bound is of both
stacks together: a push empties redo, undo and redo only move an action.
`UndoIsExact` and `Refinement` are proved under
`Careful == AddsAreNew = TRUE /\ Undecodable = {}`, which is in the statement of
the theorem: without it they are false (findings). They rest on
`Linked`: every action in `undo` leads from the remembered content before it to
the next one, the last to the present, and symmetrically for `redo`. It is why a
revert, which knows only one record, restores all of the content.

*DesktopProofs* holds for any files, jobs, caches, limits and numbers of scans
and edits. The arguments: a result that is not fresh is of a key that is not
pending (`PendingIsCurrent`), so taking it removes no placeholder's job; each
key pending has a job in `jobs`, at the worker or in `results`, and is cleared
exactly when a result with that key is taken. For `WrittenWhereOpened` the
property says nothing about commands still queued, so the invariant
`EditsFollowCreates` says it of each: before every queued edit, the last queued
creation, or else the project now open, is the one asked for when the edit was
made; and the same would hold of an edit made now. Outside a scan, once a scan has
ended, what is asked for is the path opened (`OpenedFirst`). During one it is not,
and the theorem says so. `PendingIsCurrent` also shows that the test for the
generation in `finish_job` never rejects what the reset did not already forget.

*ServerJobsProofs* holds for any number of requests and any table limit.
`EntriesTellTheirTask` needs that ids differ between requests and were given out
by the counter. `HeardInOrder` needs `HeardBehind`: nobody has heard more of a
task than it has done. `TableBounded` needs the history variable `revived`: each entry
beyond the limit is one that an evicted job's task made again.

*DataflowProofs* holds for any functions, variables and budgets, value sets and
execution included. `NothingInvented` compares with the least closed sets of
blocks (`Reached`, `Needed`), so it needs the moved facts, too: `MovedFollows`
says that a block's moved fact is the transfer of its merged one, or that both
are empty and the block has not been visited; since the smallest block is always
taken first, all later ones are then waiting as well. That is also the exact
reason why a change may be missed, and `StaleConfined` follows from it.
`ValuesAreSettled` is about every moment of the value-set loop: a visit changes
one exit state, and either it stays what it was or all that read it are on the
stack. `ValuesAreCovered` is the soundness of the analysis in the range it is
sound in. Its lemmas go operator by operator: a join and a widening allow what
either side allows (`JoinCovers`, `WidenCovers`), the result of an operation on
two concrete values is among those of the abstract ones if the bounds of a range
wrap together (`BinopCovers`, from `WrapBetween`: then everything between the
bounds wraps with them), so one instruction (`TransferCovers`), a block
(`AlongCovers`) and a join over blocks (`JoinAtCovers`) stay within their states.
`Sheltered` adds what makes this inductive: behind the entry block no variable
is unknown, so no predecessor that was executed is silent in a join.

*GpuScanProofs* holds for any requests, cap, group and pass sizes, with errors of
the device anywhere. The claimed slots are a bijection with the numbers below
the counter (`SlotsOwned`, `NoGaps`), every hit is pending or has claimed
(`Progress`), so the counter ends at the number of hits, and what is read back
are hits, each once (`Counted`; the two counting lemmas rest on
`FiniteSetTheorems`). An entropy map read so far is that of the first windows, in
whole chunks (`Mapping`); that the windows reach the last byte is arithmetic on
`Starts` (`Strides`, `Division`).

*CfgProofs* holds for any code. `Within`: everything decoded, stacked or
running lies in each set of offsets closed under the ways code goes on;
`Covered`: what follows a decoded instruction is decoded, stacked or running,
or the limit was reached. When the stack is empty the decoded offsets are
therefore the least closed set. `EdgesAreWays` adds `Cut`: the blocks are those
cut from the decoded offsets, and their edges are read off the last
instructions. Instructions are a finite set of numbers in order (`Ordered`), so
the lemmas about ranks (`InOrder`, `Neighbours`, `Successor`) say which
instruction is the next one; without overlaps it is the one control falls to
(`Inner`, `AfterTail`).

`DominatorsAreSound` and `LoopsAreNatural` start from `Linked`: in a finished
graph the predecessors of a block are the blocks it is a successor of
(`SourcesAre`). `Search` is about the depth-first search: each visited block is
on the path or in the order and never in both, what a block has looked at is
visited, and each block of the order but the entry has a predecessor that is
earlier in the order or still on the path (`Parented`). So a sweep over the order
always finds a predecessor that has a dominator, and dominators climb in the
order (`Climbs`). Two fingers therefore move towards the front with each step and
meet within twice as many steps as there are blocks, at a block above both
(`IntersectMeets`); the new dominator of a block is above every predecessor that
has one (`NewIdomMeets`). `Sweeping` adds that the blocks a running sweep has
passed without a change still have the dominator their predecessors give. After
a sweep that changed nothing this holds of all blocks: those that a block is
not above, in the tree, form a set closed under the successors that do not enter
it, so nothing else is reached without passing it (`DominatorsRight`). Nothing in this
needs the tree to be the deepest one, which it is not (section 5). A loop is the
least set closed under predecessors outside its header; a block of it that can be
reached without passing the header would reach the tail the same way
(`LoopsRight`).

The constants' assumptions are named in the modules that declare them and TLC
evaluates them in every run. The strengthenings were checked with TLC on the
instances above before they were proved. Some theorems state invariants that no
run lists, as TLC's time is better spent on properties that are not proved:
`WorklistIsMirrored`, `EdgesAreLive`, `HistoryStaysBounded`, `UndoIsExact`,
`MemoryBounded`, `CachesStayBounded`, `NothingOldIsPending`, `EvictedForGood`,
`SlotsAreOwned`, `LatticeOnlyClimbs`, `RoundsSettle`, `RewrittenReadsAssigned`.

Only model-checked: liveness (TLAPS has no rule for weak fairness here),
the three conditions in `PassComplete` (hypotheses of the theorems that derive its
other two parts; each is false of some function the pass may be given, see the
runs),
all of `Ssa` and `Structuring` (recursive operators). What is
proved of a function that is defined recursively over the naturals (`Along`,
`ExecAlong`, `JoinAt`, `Sources`, `Intersect`, `NewIdom`, `Kept`), that it exists
and what it computes, is proved by the least number where it fails, which the
library's minimum principle for well-founded sets provides (`LeastNat`).

---------------------------------------------------------------------------
## 5. Where code and documentation disagree

Each is a run TLC finds violated, with the sentence it violates quoted in
`PROJECT.json`.

| run | what happens | source |
| --- | --- | --- |
| `sccp_late_edge` | a new edge to a block that is executable already does not queue it, so a phi never sees that input and may stay a wrong constant | `sccp.rs:279` |
| `desktop_stale` | the reset forgets under which generation a job was queued; if the same job is queued for the new file first, the old file's result is accepted as its own and the right one is dropped | `app.rs:696` |
| `ssa_names` | value numbering lets a version of a register stand for a later one; both get the register's name, which may have been overwritten in between | `ssa.rs:1526` |
| `structuring_trace` | a loop arm that does something before it breaks gets the instructions of the block behind the loop, which are then missing on the loop's own exit | `structuring.rs:1113` |

Seen while modelling, without a run of their own:

*SSA.*
- A value on entry has no lattice entry in `sccp` and reads as unknown, so a join
  of it with a constant becomes that constant (`sccp.rs:367`; the family
  `LiveInJoins` shows it).
- The rounds stop when two of them mark equally many edges (`sccp.rs:165`), which
  need not be the same edges under the same lattice: where a late edge delays a
  phi, the second round may make constant a condition the first and the second
  marked both ways, and the dead arm survives, against "until the round stops
  changing the edge set" (`sccp.rs:94-98`). The family `Guesses` of `MCSccp` is
  such a function; `NoSpeculativeEdges` is false of it.
- The value of a removed phi is substituted once and not into kept phis when it
  is a constant; uses of a removed phi remain (`sccp.rs:236`; `Cascades`).
- Kept phis may name predecessors that were removed (`sccp.rs:219`); `from_ssa`
  fails with `UnknownBlock` on such an input and the decompiler falls back.
- Folding a branch leaves the successor caches as they were (`sccp.rs:253`).
- An entry block that is a loop header has one listed predecessor only, so it
  gets no phi and reads the value on entry for ever (`ssa.rs:459`, against
  447-448 and 745-748; `MCEntryLoops` in `MCSsa` holds such functions).

*Structuring.* `SameTrace` also fails
- when the arm of a branch ends at an enclosing merge point but the inner branch
  goes on at its own: with edges 1 to 2 and 3, 2 to 3 and 4, 3 to 4 the path
  1, 2, 3 skips block 3 in the text (`structuring.rs:625`, against 286-290 and 1397);
- when an empty test on the false edge is folded: the two targets of the `||` that
  results are swapped (`structuring.rs:735`, against the comment of the test at
  2325);
- for a counted loop, whose latch is both the update and the end of the body
  (`structuring.rs:983`);
- for a `while` loop whose header computes its condition: the test reads the
  value of the round before (`structuring.rs:842` calls the copy harmless), or
  of before the loop if the header calls;
- for a `while` header both ways of which stay in the loop, and a loop with two
  back edges or two exits that meet again;
- for a switch whose dispatching block does something, whose cases share a target
  or go on behind it (they fall into the next case), whose chain compares with
  `<`, or that has a `break` of the loop around it.

A goto to the latch of a `do` loop has no label when the latch is the header of a
loop itself (`structuring.rs:1028`).

*Data flow.*
- The solver re-queues the readers of a block only if its *merged* fact changed
  (`worklist.rs:193`): a block whose merged fact stays empty while its transferred
  fact becomes non-empty tells nobody, so a definition in a loop latch is missing
  at uses in the loop header although `solve` reports convergence, against
  `use_def_chains.rs:3` and `worklist.rs:132-134`.
- `StaleConfined` bounds what the solver loses; live variables lose uses even in
  straight-line code, since a backward analysis is visited in forward order.
- A negated range stays as it is, an add with carry keeps the old value of its
  destination, and a variable that one predecessor has not written is taken from
  the others alone (`value_set.rs:226`).
- A range one bound of which passes the greatest integer is kept with its bounds
  the wrong way round (`value_set.rs:388-396`), so it allows nothing
  (the family `Wrapping` of `MCDataflow`; `Tame` excludes it).
- 200 turns for a whole function: where they run out the states are those of an
  iteration that has not converged, and nothing says so. `lib.rs:20` speaks of
  monotone frameworks; value sets are none.

*Control-flow graphs.*
- `DominatorTree` intersects with `idom[p]` in place of `p` (`lib.rs:966-971`).
  Dominators found are genuine, but some are missed and with them loops
  (`MCBackward` in `MCCfg`); the comment at 914 gives the entry no immediate
  dominator, the code gives it itself.
- `intersect` gives up after 1000 steps and returns where one finger happens to
  be (`lib.rs:1028-1030`). Its comment speaks of malformed graphs and irreducible
  loops, but a well-formed graph with two arms of together more than 1000
  dominators that meet again is enough, and the block named then need not
  dominate. TLC shows it at smaller limits with correspondingly shorter arms;
  `Ample` excludes it.
- A call in the middle of a block gives its target no predecessor
  (`lib.rs:724`; `MCCallees`), a fall-through may lead to an overlapping
  instruction, and prologues may use up `max_instructions` before the entry.

*GPU scan.*
- Each pass numbers its invocations from 0 (`lib.rs:646`): data of more than
  65,535 x 64 candidates is counted wrongly, against "an always-exact total
  count" (`lib.rs:21`). `LiteralExact` therefore speaks of one pass.
- A command rejected in the middle of a scan returns zeroes as a result;
  `fallback_reason()` stays empty after an uncaptured error.

*Project database and desktop.*
- Adding an object over an existing one is recorded as a creation; its undo
  deletes both (`project-db/src/lib.rs:337`). `AddsAreNew` excludes it.
- Removing a record that does not decode reports an error after the record is
  gone, and nothing is recorded for undo (`lib.rs:379`).
- A file opened again cannot create its project again, no project is open then,
  and annotations are dropped silently (`app.rs:453`, `views.rs:2617`).
- "While scanning, all interaction is blocked by the progress overlay"
  (`app.rs:1091`): the overlay blocks the pointer only. A rename or comment dialog
  left open sends its edit during a scan (`views.rs:2605`, `views.rs:2662`), when
  `current_file_path` is the new file and the database worker still has the
  project of the one before. `StoredWhereOpened` says that it goes to that one or
  is dropped. OK does not close either dialog, since the copy of the flag taken
  before is written back (`views.rs:2626`, `views.rs:2685`).
- `xref_db` is not among the caches `reset_per_file_analysis_state` clears,
  although its comment says every one is (`app.rs:919-941`); `Outlives` models it.
- A panic in `run_job` ends the only analysis worker; keys pending then stay so
  (`app.rs:419`). `PendingInFlight` and `PlaceholderIsPending` are claimed for a
  living worker.

*Others.*
- A job whose scanner panicked stays `running` in the server's table
  (`main.rs:221`).
- A text overlay of signatures is installed and counted, but a scan consults the
  binary overlay only (`func-sigs/src/db.rs:866`, against `lib.rs:31-33`).

---------------------------------------------------------------------------
## 6. Plan

Done: the core (`Sccp`, `ProjectDb`, `Desktop`, `ServerJobs`), then `Ssa`,
`Dataflow`, `GpuScan` and `CfgBuilder` with their proofs, and `Structuring` on
top of `Ssa`. Left, in order of importance:

1. The composition `Ssa -> Sccp -> Ssa -> Structuring` on one function, and the
   copy coalescing between the last two.
2. *XrefIndex*: `find_call_chains` against paths of the graph, on top of
   `ProjectDb`.
3. *SigOverlay*, *FsigGen*: one-time load of the overlay; whole output after a crash.
4. Function discovery over `CfgBuilder`.
5. Composition of `Desktop` and `ProjectDb`: the database worker's `db` as an
   instance of `ProjectDb`, annotations and undo across scans.

Theorems next: termination measures as
safety (the lattice has finite height, each round but the last changes the
number of edges).
