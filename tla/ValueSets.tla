----------------------------- MODULE ValueSets ------------------------------
(***************************************************************************)
(* Value-set analysis (dataflow/src/value_set.rs): which values a variable *)
(* may hold where a block begins and ends.  Blocks wait on a stack; a      *)
(* block is run abstractly from the join of its predecessors' exit states, *)
(* and its successors are pushed when its exit state changed.              *)
(*                                                                         *)
(* Strided intervals are left out: no transfer function builds one.        *)
(***************************************************************************)
EXTENDS Worklist

CONSTANTS
    Half,          \* integers are -Half .. Half-1 (2^63 in the code)
    MaxTurns,      \* MAX_ITERATIONS, 200 in the code
    WidenAfter,    \* the turn after which joins widen, 50 in the code
    WideLimit      \* the width of the widest range, 2^32 - 1 in the code

Ints == -Half .. Half - 1

ASSUME ValueSetsAssumption ==
    /\ Half \in Nat \ {0}
    /\ MaxTurns \in Nat /\ WidenAfter \in Nat /\ WideLimit \in Nat
    /\ \A f \in FunctionSet : \A b \in DOMAIN f.insts : \A k \in DOMAIN f.insts[b] :
          ToSet(f.insts[b][k].args) \subseteq Vars \cup Ints

VARIABLES
    stack,     \* the blocks still to be visited, the next one last
    entries,   \* entry_states: block -> (variable -> abstract value)
    exits,     \* exit_states
    turns      \* iterations

valueVars == <<stack, entries, exits, turns>>

-----------------------------------------------------------------------------
(***************************************************************************)
(* Abstract values                                                         *)
(***************************************************************************)
Bottom      == <<"bottom", 0, 0>>
Top         == <<"top", 0, 0>>
Const(c)    == <<"const", c, c>>
Between(l, h) == <<"range", l, h>>

IsConst(a) == a[1] = "const"
IsRange(a) == a[1] = "range"

Wrap(n)  == ((n + Half) % (2 * Half)) - Half
Least(m, n)    == IF m <= n THEN m ELSE n
Greatest(m, n) == IF m <= n THEN n ELSE m

Join(a, b) ==
    IF a = Bottom THEN b
    ELSE IF b = Bottom THEN a
    ELSE IF Top \in {a, b} THEN Top
    ELSE IF a = b /\ IsConst(a) THEN a
    ELSE Between(Least(a[2], b[2]), Greatest(a[3], b[3]))

Widen(a, b) ==
    LET j == Join(a, b) IN
    IF IsRange(j) /\ Wrap(j[3] - j[2]) > WideLimit THEN Top ELSE j

(* The concrete values an abstract one stands for. *)
Gamma(a) == IF a = Bottom THEN {} ELSE IF a = Top THEN Ints ELSE a[2] .. a[3]

Arith(op, m, n) ==
    CASE op = "add" -> Wrap(m + n)
      [] op = "sub" -> Wrap(m - n)
      [] op = "mul" -> Wrap(m * n)

AbstractBinop(op, a, b) ==
    IF IsConst(a) /\ IsConst(b) THEN Const(Arith(op, a[2], b[2]))
    ELSE IF IsRange(a) /\ IsConst(b) /\ (op = "mul" => b[2] >= 0)
         THEN Between(Arith(op, a[2], b[2]), Arith(op, a[3], b[2]))
    ELSE IF IsConst(a) /\ IsRange(b) /\ op = "add"
         THEN Between(Wrap(a[2] + b[2]), Wrap(a[2] + b[3]))
    ELSE IF IsConst(a) /\ IsRange(b) /\ op = "sub"
         THEN Between(Wrap(a[2] - b[3]), Wrap(a[2] - b[2]))
    ELSE Top

-----------------------------------------------------------------------------
(***************************************************************************)
(* Transfer function.  A state maps the variables written so far; the      *)
(* others are read as Top.                                                 *)
(***************************************************************************)
EvalAbstract(o, state) ==
    IF o \in Int THEN Const(o) ELSE IF o \in DOMAIN state THEN state[o] ELSE Top

Put(state, v, a) ==
    IF v = None THEN state ELSE [u \in DOMAIN state \cup {v} |-> IF u = v THEN a ELSE state[u]]

(* Mutant: a load keeps what was known of its destination. *)
TransferInst_LoadKeeps(state, i) ==
    LET arg(k) == EvalAbstract(i.args[k], state) IN
    CASE i.op \in {"add", "sub", "mul"} -> Put(state, i.dst, AbstractBinop(i.op, arg(1), arg(2)))
      [] i.op = "copy" -> Put(state, i.dst, arg(1))
      [] OTHER -> state

(* Negation maps a constant to its negative and anything else to itself; an
   add with carry is not treated at all. *)
TransferInst(state, i) ==
    LET arg(k) == EvalAbstract(i.args[k], state) IN
    CASE i.op \in {"add", "sub", "mul"} -> Put(state, i.dst, AbstractBinop(i.op, arg(1), arg(2)))
      [] i.op = "neg"  -> Put(state, i.dst, IF IsConst(arg(1)) THEN Const(Wrap(-arg(1)[2])) ELSE arg(1))
      [] i.op = "copy" -> Put(state, i.dst, arg(1))
      [] i.op \in {"load", "call"} -> Put(state, i.dst, Top)
      [] OTHER -> state

(* The states a block goes through from s on, one per instruction. *)
Along(code, s) ==
    LET after[k \in 0 .. Len(code)] == IF k = 0 THEN s ELSE TransferInst(after[k - 1], code[k])
    IN  after

ExitState(b, entry) == Along(Code(b), entry)[Len(Code(b))]

(* What the states `from' of some blocks make of v, joined in the order of *)
(* the blocks; a state that does not know v is silent.                     *)
JoinAt(from, v, late) ==
    LET upTo[k \in 0 .. Len(func.insts)] ==
            IF k = 0 THEN Bottom
            ELSE IF k \in DOMAIN from /\ v \in DOMAIN from[k]
            THEN IF late THEN Widen(upTo[k - 1], from[k][v]) ELSE Join(upTo[k - 1], from[k][v])
            ELSE upTo[k - 1]
    IN  upTo[Len(func.insts)]

JoinAll(from, late) == [v \in UNION {DOMAIN from[a] : a \in DOMAIN from} |-> JoinAt(from, v, late)]

EntryState(b, xs, late) == IF b = 1 THEN <<>> ELSE JoinAll([a \in Preds(b) |-> xs[a]], late)

-----------------------------------------------------------------------------
(***************************************************************************)
(* The analysis                                                            *)
(***************************************************************************)
InitValues ==
    /\ stack   = [b \in Blocks |-> b]
    /\ entries = [b \in Blocks |-> <<>>]
    /\ exits   = [b \in Blocks |-> <<>>]
    /\ turns   = 0

(* Mutant: the successors are told nothing. *)
PushSuccs_None(below, b) == stack' = below

(* The successors of b that do not wait yet, in the order b lists them. *)
PushSuccs(below, b) ==
    LET new   == Succs(b) \ ToSet(below)
        First(t) == CHOOSE k \in DOMAIN func.to[b] :
                       func.to[b][k] = t /\ \A j \in DOMAIN func.to[b] : func.to[b][j] = t => k <= j
    IN  \E s \in Injection(1 .. Cardinality(new), new) :
          /\ \A i, j \in DOMAIN s : i < j => First(s[i]) < First(s[j])
          /\ stack' = below \o s

VisitValues ==
    LET b     == Last(stack)
        entry == EntryState(b, exits, turns + 1 > WidenAfter)
        exit  == ExitState(b, entry)
    IN
    /\ stage = "values" /\ stack # <<>> /\ turns < MaxTurns
    /\ turns'   = turns + 1
    /\ entries' = [entries EXCEPT ![b] = entry]
    /\ exits'   = [exits EXCEPT ![b] = exit]
    /\ IF exit # exits[b] THEN PushSuccs(Front(stack), b) ELSE stack' = Front(stack)
    /\ UNCHANGED <<func, stage, answers, solver>>

=============================================================================
