------------------------------ MODULE Worklist ------------------------------
(***************************************************************************)
(* The worklist solver of the data-flow crate (dataflow/src/worklist.rs)   *)
(* and its two instances, reaching definitions (forward) and live          *)
(* variables (backward).                                                   *)
(*                                                                         *)
(* A function is a list of basic blocks with their successor lists, the    *)
(* way IrFunction::build_cfg leaves it; blocks are numbered from 1 and     *)
(* block 1 is the entry.  Constants and symbols among the operands are     *)
(* left out of the facts: they are never defined and only ride along.      *)
(***************************************************************************)
EXTENDS Integers, Sequences, FiniteSets, SequencesExt

CONSTANTS
    FunctionSet,   \* the IR functions that are analysed
    Vars,          \* IR variables
    None,          \* the dst of an instruction that defines nothing
    MaxVisits      \* max_iterations of the solver

Ops == {"add", "sub", "mul", "neg", "copy", "adc", "load", "call", "store", "jump"}

IsInst(i) ==
    /\ i.op \in Ops
    /\ i.dst \in Vars \cup {None}
    /\ i.op \in {"store", "jump"} => i.dst = None
    /\ i.args \in Seq(Vars \cup Int)
    /\ i.op \in {"add", "sub", "mul"} => Len(i.args) = 2
    /\ i.op \in {"neg", "copy"} => Len(i.args) = 1
    /\ i.op = "adc" => Len(i.args) = 3

IsFunction(f) ==
    LET n == Len(f.insts) IN
    /\ n \in Nat \ {0}
    /\ DOMAIN f.insts = 1..n /\ DOMAIN f.to = 1..n
    /\ \A b \in 1..n :
         /\ Len(f.insts[b]) \in Nat /\ DOMAIN f.insts[b] = 1..Len(f.insts[b])
         /\ \A k \in DOMAIN f.insts[b] : IsInst(f.insts[b][k])
         /\ ToSet(f.to[b]) \subseteq 1..n

ASSUME FunctionsAssumption ==
    /\ None \notin Vars \cup Int
    /\ Vars \cap Int = {}
    /\ MaxVisits \in Nat
    /\ \A f \in FunctionSet : IsFunction(f)

VARIABLES
    func,      \* the function under analysis
    stage,     \* which analysis runs: "reaching", "live", "values", then "done"
    merged,    \* in_facts of a forward analysis, out_facts of a backward one
    moved,     \* the facts on the other side of the block
    queue,     \* the worklist, a BTreeSet of block indices
    visits,    \* iterations of the running solver
    answers    \* what the finished analyses returned

solver == <<merged, moved, queue, visits>>

-----------------------------------------------------------------------------
(***************************************************************************)
(* The function                                                            *)
(***************************************************************************)
Blocks   == DOMAIN func.insts
Code(b)  == func.insts[b]
Succs(b) == ToSet(func.to[b])
Preds(b) == {a \in Blocks : b \in Succs(a)}

Sources(b, k) == ToSet(Code(b)[k].args) \cap Vars
Defines(b, v) == \E k \in DOMAIN Code(b) : Code(b)[k].dst = v
DefsOf(b)     == {<<Code(b)[k].dst, b, k>> : k \in {i \in DOMAIN Code(b) : Code(b)[i].dst # None}}
AllDefs       == UNION {DefsOf(b) : b \in Blocks}

-----------------------------------------------------------------------------
(***************************************************************************)
(* The two frameworks.  A block generates the last definition of every     *)
(* variable it writes and kills all other definitions of these variables,  *)
(* its own shadowed ones included; it uses what it reads before writing.   *)
(***************************************************************************)
Gen(b)  == {d \in DefsOf(b) : \A k \in DOMAIN Code(b) : k > d[3] => Code(b)[k].dst # d[1]}
Kill(b) == {d \in AllDefs : Defines(b, d[1])} \ Gen(b)

Use(b) == {v \in Vars : \E k \in DOMAIN Code(b) :
              /\ v \in Sources(b, k)
              /\ \A j \in DOMAIN Code(b) : j < k => Code(b)[j].dst # v}
Def(b) == {v \in Vars : Defines(b, v)}

Own(st, b)  == IF st = "reaching" THEN Gen(b) ELSE Use(b)
Lost(st, b) == IF st = "reaching" THEN Kill(b) ELSE Def(b)

(* Mutant: nothing is ever killed. *)
Transfer_NoKill(st, b, fact) == Own(st, b) \cup fact

Transfer(st, b, fact) == Own(st, b) \cup (fact \ Lost(st, b))

(* deps: where a block's merged fact comes from; reverse_deps: who reads it. *)
Deps(st, b)    == IF st = "reaching" THEN Preds(b) ELSE Succs(b)
Readers(st, b) == {a \in Blocks : b \in Deps(st, a)}

-----------------------------------------------------------------------------
(***************************************************************************)
(* The solver.  All facts start empty, except that the transfer function   *)
(* is applied to the boundary (the entry, or the blocks without            *)
(* successors) before the first visit.                                     *)
(***************************************************************************)
Boundary(st) == IF st = "reaching" THEN {1} ELSE {b \in Blocks : Succs(b) = {}}

NoFacts   == [b \in Blocks |-> {}]
Seeds(st) == [b \in Blocks |-> IF b \in Boundary(st) THEN Transfer(st, b, {}) ELSE {}]

InitSolver ==
    /\ merged = NoFacts
    /\ moved  = Seeds("reaching")
    /\ queue  = Blocks
    /\ visits = 0

Solving    == stage \in {"reaching", "live"}
IsFirst(b) == b \in queue /\ \A a \in queue : b <= a      \* pop_first

(* Mutant: a change is told to the blocks it came from. *)
Dependents_Deps(st, b) == Deps(st, b)

Dependents(st, b) == Readers(st, b)

Visit(b) ==
    LET fact == UNION {moved[d] : d \in Deps(stage, b)} IN
    /\ Solving /\ IsFirst(b) /\ visits < MaxVisits
    /\ visits' = visits + 1
    /\ merged' = [merged EXCEPT ![b] = fact]
    /\ moved'  = [moved EXCEPT ![b] = Transfer(stage, b, fact)]
    /\ queue'  = (queue \ {b}) \cup (IF fact # merged[b] THEN Dependents(stage, b) ELSE {})
    /\ UNCHANGED <<func, stage, answers>>

(* Mutant: the solver goes on when its visits are used up. *)
Returned_Drained == Solving /\ queue = {}

(* solve() returns true when the worklist ran empty and false when the visits
   ran out; the facts are copied into the result either way. *)
Returned == Solving /\ (queue = {} \/ visits >= MaxVisits)
Answered == [s \in DOMAIN answers \cup {stage} |->
               IF s = stage THEN [merged |-> merged, converged |-> queue = {}] ELSE answers[s]]

(* Mutant: the second analysis starts from the facts of the first. *)
BeginLive_KeepsFacts ==
    /\ Returned /\ stage = "reaching"
    /\ answers' = Answered
    /\ stage' = "live" /\ queue' = Blocks /\ visits' = 0
    /\ UNCHANGED <<func, merged, moved>>

(* analyze() of the second solver, once the first has returned. *)
BeginLive ==
    /\ Returned /\ stage = "reaching"
    /\ answers' = Answered
    /\ stage'  = "live"
    /\ merged' = NoFacts
    /\ moved'  = Seeds("live")
    /\ queue'  = Blocks
    /\ visits' = 0
    /\ UNCHANGED func

=============================================================================
