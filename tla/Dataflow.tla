------------------------------ MODULE Dataflow ------------------------------
(***************************************************************************)
(* DataFlowAnalysis::analyze (dataflow/src/lib.rs): reaching definitions,  *)
(* live variables and value sets of one function, one after the other, as  *)
(* the desktop's decompile job calls it.  Once the answers stand, the      *)
(* function is executed block by block beside them: a load or a call       *)
(* yields any input and a terminator any of its targets.                   *)
(***************************************************************************)
EXTENDS ValueSets

CONSTANT Inputs      \* what registers hold on entry and what loads yield

ASSUME InputsAssumption == Inputs \subseteq Ints

VARIABLES
    at,      \* the block the execution enters next; None before it starts and after it ends
    env      \* the values of the variables there

vars == <<func, stage, solver, answers, valueVars, at, env>>

Init ==
    /\ func \in FunctionSet
    /\ stage = "reaching"
    /\ answers = <<>>
    /\ InitSolver
    /\ InitValues
    /\ at = None
    /\ env = <<>>

VisitBlock == \E b \in queue : Visit(b) /\ UNCHANGED <<valueVars, at, env>>
StartLive  == BeginLive /\ UNCHANGED <<valueVars, at, env>>

StartValues ==
    /\ Returned /\ stage = "live"
    /\ answers' = Answered
    /\ stage' = "values"
    /\ UNCHANGED <<func, solver, valueVars, at, env>>

VisitState == VisitValues /\ UNCHANGED <<at, env>>

Finish ==
    /\ stage = "values"
    /\ stack = <<>> \/ turns >= MaxTurns
    /\ stage' = "done"
    /\ at' = 1
    /\ env' \in [Vars -> Inputs]
    /\ UNCHANGED <<func, solver, answers, valueVars>>

(* One instruction of the execution, with r for what it loads. *)
Exec(e, i, r) ==
    LET arg(k) == IF i.args[k] \in Int THEN i.args[k] ELSE e[i.args[k]] IN
    CASE i.op \in {"add", "sub", "mul"} -> [e EXCEPT ![i.dst] = Arith(i.op, arg(1), arg(2))]
      [] i.op = "neg"  -> [e EXCEPT ![i.dst] = Wrap(-arg(1))]
      [] i.op = "copy" -> [e EXCEPT ![i.dst] = arg(1)]
      [] i.op = "adc"  -> [e EXCEPT ![i.dst] = Wrap(arg(1) + arg(2) + arg(3))]
      [] i.op \in {"load", "call"} /\ i.dst # None -> [e EXCEPT ![i.dst] = r]
      [] OTHER -> e

(* The values a block goes through from e on. *)
ExecAlong(code, e, r) ==
    LET after[k \in 0 .. Len(code)] == IF k = 0 THEN e ELSE Exec(after[k - 1], code[k], r)
    IN  after

RunBlock ==
    /\ stage = "done" /\ at \in Blocks
    /\ \E r \in Inputs : env' = ExecAlong(Code(at), env, r)[Len(Code(at))]
    /\ at' \in IF Succs(at) = {} THEN {None} ELSE Succs(at)
    /\ UNCHANGED <<func, stage, solver, answers, valueVars>>

Next == VisitBlock \/ StartLive \/ StartValues \/ VisitState \/ Finish \/ RunBlock

(* The analysis runs to its end; the execution need not go on. *)
Spec == Init /\ [][Next]_vars /\ WF_vars(VisitBlock \/ StartLive \/ StartValues \/ VisitState \/ Finish)

-----------------------------------------------------------------------------
(***************************************************************************)
(* Properties                                                              *)
(***************************************************************************)
TypeOK ==
    /\ func \in FunctionSet
    /\ stage \in {"reaching", "live", "values", "done"}
    /\ DOMAIN merged = Blocks /\ DOMAIN moved = Blocks
    /\ \A b \in Blocks : LET facts == IF stage = "reaching" THEN AllDefs ELSE Vars
                         IN  merged[b] \subseteq facts /\ moved[b] \subseteq facts
    /\ queue \subseteq Blocks
    /\ visits \in 0 .. MaxVisits

(* A definition d reaches the blocks that lie in every set closed under "its
   block lets it through to its successors, and so does every block that does
   not write its variable". *)
Reached(d) ==
    LET Open(S) == /\ d \in Gen(d[2]) => Succs(d[2]) \subseteq S
                   /\ \A x \in S : ~Defines(x, d[1]) => Succs(x) \subseteq S
    IN  {b \in Blocks : \A S \in SUBSET Blocks : Open(S) => b \in S}

(* A variable is needed where a block begins if the block reads it first, or
   leaves it alone and a successor needs it. *)
Needed(v) ==
    LET Open(S) == \A b \in Blocks :
                     v \in Use(b) \/ (~Defines(b, v) /\ Succs(b) \cap S # {}) => b \in S
    IN  {b \in Blocks : \A S \in SUBSET Blocks : Open(S) => b \in S}

(* Nothing is reported that no path of the function accounts for: a definition
   in a block's fact reaches the block, a variable live behind a block is
   needed by one of its successors.  Holds at every moment, whatever order the
   blocks are visited in and wherever the solver gives up. *)
NothingInvented ==
    \A b \in Blocks :
        /\ stage = "reaching" => \A d \in merged[b] : b \in Reached(d)
        /\ stage = "live" => \A v \in merged[b] : Succs(b) \cap Needed(v) # {}

(* The solver re-queues the readers of a block only when its merged fact has
   changed.  What this can lose is confined: a block off the worklist misses a
   fact of a dependency only if that dependency is no boundary block, was first
   visited no earlier than the block itself, and its own merged fact is still empty. *)
StaleConfined ==
    Solving => \A b \in Blocks \ queue : \A d \in Deps(stage, b) :
        \/ moved[d] \subseteq merged[b]
        \/ merged[d] = {} /\ b <= d /\ d \notin Boundary(stage)

(* A block that does not wait on the stack holds what its predecessors'
   present exit states and its own instructions make. *)
ValuesSettled ==
    \A b \in Blocks \ ToSet(stack) :
        /\ \E late \in BOOLEAN : entries[b] = EntryState(b, exits, late)
        /\ exits[b] = ExitState(b, entries[b])

(* The bounds of a range have not wrapped around one without the other, nor
   different numbers of times. *)
KeepsWidth(i, state) ==
    LET l == EvalAbstract(i.args[1], state)
        r == EvalAbstract(i.args[2], state)
        a == AbstractBinop(i.op, l, r)
    IN  i.op \in {"add", "sub", "mul"} /\ IsRange(a) =>
          a[3] - a[2] = IF i.op = "mul" THEN (l[3] - l[2]) * r[2] ELSE (l[3] - l[2]) + (r[3] - r[2])

(* What the value sets promise in functions whose entry block writes every
   variable, that hold no negation and no add with carry and in which no range
   passes the ends of the integers, and where the analysis converged: the
   execution never leaves them. *)
Tame ==
    /\ stack = <<>>
    /\ \A v \in Vars : Defines(1, v)
    /\ \A b \in Blocks : \A k \in DOMAIN Code(b) :
          /\ Code(b)[k].op \notin {"neg", "adc"}
          /\ KeepsWidth(Code(b)[k], Along(Code(b), entries[b])[k - 1])

ValuesCover ==
    stage = "done" /\ Tame /\ at \in Blocks =>
        \A v \in DOMAIN entries[at] : env[v] \in Gamma(entries[at][v])

(* The three analyses always come to an end. *)
Terminates == <>(stage = "done")

=============================================================================
