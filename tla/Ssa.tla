--------------------------------- MODULE Ssa ---------------------------------
(***************************************************************************)
(* SSA construction, clean-up and destruction (freakre-ir/src/ssa.rs), one *)
(* action per pass in the order decompile_function_inner runs them: to_ssa,*)
(* remove_trivial_phis, ssa_gvn, remove_trivial_phis, ssa_dce, from_ssa.   *)
(* Constant propagation, which runs between the first two clean-ups, has a *)
(* module of its own (Sccp).  When the lowered function stands, it is run  *)
(* beside the one that went in.                                            *)
(*                                                                         *)
(* Blocks are numbered in source order; block 1 is the entry.  An operand  *)
(* is <<base, version>>: a version of a variable or register, the plain    *)
(* variable where the version is Pending, the literal n in <<Lit, n>>.     *)
(***************************************************************************)
EXTENDS Integers, Sequences, FiniteSets, SequencesExt, TLC

CONSTANTS
    SourceSet,    \* the IR functions the pipeline is called on
    BaseOrder,    \* numbered variables and registers, in the order of BaseVar
    Regs,         \* the registers among them
    Lit, None,    \* the tags of a literal and of "no destination"
    Mod,          \* integers are 0 .. Mod-1 (2^64 in the code)
    Inputs,       \* values on entry and results of loads and calls
    Undef         \* the value of a name that was never assigned

Pending == -1
Bases   == ToSet(BaseOrder)
Plain   == {<<v, Pending>> : v \in Bases}

Commutative == {"add", "mul", "eq", "ne"}
PureOps     == {"add", "mul", "sub", "adc", "copy", "eq", "ne", "ltu"}
ReadOps     == {"load", "call"}
Terminators == {"br", "cbr", "switch", "ret", "ijmp"}

Inst(op, dst, args, to) == [op |-> op, dst |-> dst, args |-> args, to |-> to]
NoDst == <<None, 0>>

IsSource(f) ==
    \A b \in DOMAIN f.insts : \A k \in DOMAIN f.insts[b] : LET i == f.insts[b][k] IN
        /\ i.op \in PureOps \cup ReadOps \cup {"store"} \cup Terminators
        /\ i.dst \in Plain \cup {NoDst}
        /\ i.op \in PureOps => i.dst # NoDst
        /\ \A a \in ToSet(i.args) : a \in Plain \/ a[1] = Lit
        /\ i.to # <<>> => i.op \in {"br", "cbr", "switch"}

ASSUME SsaAssumption ==
    /\ Regs \subseteq Bases
    /\ {Lit, None} \cap Bases = {}
    /\ Mod \in Nat \ {0} /\ Inputs \subseteq 0 .. Mod - 1
    /\ Undef \notin Inputs
    /\ \A f \in SourceSet : IsSource(f)

VARIABLES
    ir,       \* the function the decompiler came with
    fn,       \* what the passes have made of it
    phase,    \* the pass that ran last; "refused" keeps the function as it was
    reused,   \* the versions that stand for others since value numbering
    at,       \* the block the execution enters next; None before it starts and after it ends
    env,      \* the variables of ir, and
    outEnv,   \* those of the lowered function
    seen      \* what the last block did: under ir, under the lowered function

vars == <<ir, fn, phase, reused, at, env, outEnv, seen>>

-----------------------------------------------------------------------------
(***************************************************************************)
(* Graph, reverse postorder, dominators                                    *)
(***************************************************************************)
Blocks(f)      == DOMAIN f.insts
Targets(f, b)  == IF f.insts[b] = <<>> THEN <<>> ELSE Last(f.insts[b]).to
Succs(f, b)    == ToSet(Targets(f, b))
PredList(f, b) == SelectSeq([a \in Blocks(f) |-> a], LAMBDA a : b \in Succs(f, a))

RECURSIVE Walk(_, _, _)
Walk(f, w, b) ==
    LET below == FoldLeft(LAMBDA u, s : IF s \in u.visited THEN u ELSE Walk(f, u, s),
                          [w EXCEPT !.visited = @ \cup {b}],
                          SelectSeq(Targets(f, b), LAMBDA t : t \in Blocks(f)))
    IN  [below EXCEPT !.post = Append(@, b)]

RpoOrder(f) == Reverse(Walk(f, [visited |-> {}, post |-> <<>>], 1).post)

RECURSIVE Intersect(_, _, _, _)
Intersect(a, b, idom, rpo) ==
    LET rank(x) == CHOOSE i \in DOMAIN rpo : rpo[i] = x IN
    IF a = b THEN a
    ELSE IF rank(a) > rank(b) THEN Intersect(idom[a], b, idom, rpo)
    ELSE Intersect(a, idom[b], idom, rpo)

(* One pass over the blocks; a block takes what its predecessors with a
   dominator agree on. *)
Sweep(f, rpo, idom) ==
    FoldLeft(LAMBDA d, b :
        LET ps == SelectSeq(PredList(f, b), LAMBDA p : p \in DOMAIN d) IN
        IF b = 1 \/ ps = <<>> THEN d
        ELSE (b :> FoldLeft(LAMBDA x, p : Intersect(p, x, d, rpo), ps[1], Tail(ps))) @@ d,
        idom, rpo)

RECURSIVE Settle(_, _, _)
Settle(f, rpo, idom) ==
    LET next == Sweep(f, rpo, idom) IN IF next = idom THEN idom ELSE Settle(f, rpo, next)

(* Mutant: one pass is taken to be enough. *)
Dominators_OneSweep(f) == Sweep(f, RpoOrder(f), 1 :> 1)

Dominators(f) == Settle(f, RpoOrder(f), 1 :> 1)

RECURSIVE Dominates(_, _, _)
Dominates(idom, a, b) == a = b \/ (b # 1 /\ Dominates(idom, a, idom[b]))

(* The blocks from p up to, but without, the block top. *)
RECURSIVE Climb(_, _, _)
Climb(idom, p, top) ==
    IF p = top THEN {} ELSE IF idom[p] = p THEN {p} ELSE {p} \cup Climb(idom, idom[p], top)

Frontiers(f, idom) ==
    [b \in Blocks(f) |->
        {j \in DOMAIN idom : /\ Len(PredList(f, j)) >= 2
                             /\ \E p \in ToSet(PredList(f, j)) : b \in Climb(idom, p, idom[j])}]

-----------------------------------------------------------------------------
(***************************************************************************)
(* to_ssa                                                                  *)
(***************************************************************************)
(* Anything else is refused: TerminatorInMiddle, UnknownBlock, UnreachableBlocks. *)
Accepts(f) ==
    /\ \A b \in Blocks(f) : \A k \in DOMAIN f.insts[b] :
          f.insts[b][k].op \in Terminators => k = Len(f.insts[b])
    /\ \A b \in Blocks(f) : Succs(f, b) \subseteq Blocks(f)
    /\ ToSet(RpoOrder(f)) = Blocks(f)

DefBlocks(f, v) == {b \in Blocks(f) : \E k \in DOMAIN f.insts[b] : f.insts[b][k].dst[1] = v}

RECURSIVE Spread(_, _)
Spread(df, S) == LET T == S \cup UNION {df[b] : b \in S} IN IF T = S THEN S ELSE Spread(df, T)

(* Mutant: a phi does not count as a definition. *)
PhiSites_Once(f, df, v) == UNION {df[b] : b \in DefBlocks(f, v)}

PhiSites(f, df, v) == UNION {df[b] : b \in Spread(df, DefBlocks(f, v))}

RECURSIVE Preorder(_, _)
Preorder(idom, b) ==
    FoldLeft(LAMBDA s, k : s \o Preorder(idom, k), <<b>>,
             SetToSortSeq({k \in DOMAIN idom : idom[k] = b /\ k # b}, <))

(* c holds the counters and the tops of the version stacks; a block begins
   with the tops its immediate dominator ended with. *)
Define(c, v) == [c EXCEPT !.count[v] = @ + 1, !.top[v] = c.count[v] + 1]

RenameInst(c, i) ==
    LET args == [k \in DOMAIN i.args |->
                   IF i.args[k][1] = Lit THEN i.args[k] ELSE <<i.args[k][1], c.top[i.args[k][1]]>>]
        v    == i.dst[1]
        d    == IF v = None THEN c ELSE Define(c, v)
    IN  [d EXCEPT !.out = Append(@, [i EXCEPT !.args = args,
                                              !.dst  = IF v = None THEN @ ELSE <<v, d.top[v]>>])]

RenameBlock(f, idom, sites, r, b) ==
    LET start == [count |-> r.count, out |-> <<>>,
                  top |-> IF b = 1 THEN [v \in Bases |-> 0] ELSE r.tops[idom[b]]]
        phis  == SelectSeq(BaseOrder, LAMBDA v : b \in sites[v])
        c     == FoldLeft(Define, start, phis)
        d     == FoldLeft(RenameInst, c, f.insts[b])
    IN  [count |-> d.count,
         tops  |-> (b :> d.top) @@ r.tops,
         dsts  |-> (b :> [k \in DOMAIN phis |-> <<phis[k], c.top[phis[k]]>>]) @@ r.dsts,
         insts |-> (b :> d.out) @@ r.insts]

ToSsa(f) ==
    LET idom  == Dominators(f)
        df    == Frontiers(f, idom)
        sites == [v \in Bases |-> PhiSites(f, df, v)]
        r     == FoldLeft(LAMBDA acc, b : RenameBlock(f, idom, sites, acc, b),
                          [count |-> [v \in Bases |-> 0], tops |-> <<>>, dsts |-> <<>>, insts |-> <<>>],
                          Preorder(idom, 1))
        Phi(b, d) == [dst |-> d,
                      in |-> [p \in ToSet(PredList(f, b)) |-> <<d[1], r.tops[p][d[1]]>>]]
    IN  [insts |-> [b \in Blocks(f) |-> r.insts[b]],
         phis  |-> [b \in Blocks(f) |-> [k \in DOMAIN r.dsts[b] |-> Phi(b, r.dsts[b][k])]]]

-----------------------------------------------------------------------------
(***************************************************************************)
(* The clean-up passes                                                     *)
(***************************************************************************)
RECURSIVE ResolveVar(_, _)
ResolveVar(v, subst) == IF v \in DOMAIN subst THEN ResolveVar(subst[v], subst) ELSE v

Resolved(i, subst) == [i EXCEPT !.args = [k \in DOMAIN @ |-> ResolveVar(@[k], subst)]]

Substituted(f, subst) ==
    [insts |-> [b \in Blocks(f) |-> [k \in DOMAIN f.insts[b] |-> Resolved(f.insts[b][k], subst)]],
     phis  |-> [b \in Blocks(f) |->
                  [k \in DOMAIN f.phis[b] |->
                     [f.phis[b][k] EXCEPT !.in = [p \in DOMAIN @ |-> ResolveVar(@[p], subst)]]]]]

PhiList(f) == FlattenSeq(f.phis)

(* The inputs of a phi other than itself; it is trivial when there is one. *)
Survivors(phi) == {phi.in[p] : p \in DOMAIN phi.in} \ {phi.dst}

(* One trivial phi after the other enters the substitution, unless its
   survivor already stands for the phi itself. *)
TrivialPhis(f) ==
    FoldLeft(LAMBDA subst, phi :
        IF Cardinality(Survivors(phi)) # 1 THEN subst
        ELSE LET s == CHOOSE v \in Survivors(phi) : TRUE
             IN  IF ResolveVar(s, subst) = phi.dst THEN subst ELSE (phi.dst :> s) @@ subst,
        <<>>, PhiList(f))

WithoutPhis(f, subst) ==
    [Substituted(f, subst) EXCEPT !.phis =
        [b \in DOMAIN @ |-> SelectSeq(@[b], LAMBDA phi : phi.dst \notin DOMAIN subst)]]

RECURSIVE RemoveTrivialPhis(_)
RemoveTrivialPhis(f) ==
    LET subst == TrivialPhis(f)
    IN  IF subst = <<>> THEN f ELSE RemoveTrivialPhis(WithoutPhis(f, subst))

(* Two orders of the operands of a commutative operation are one key. *)
GvnKey(i) ==
    <<i.op, IF i.op \in Commutative THEN {i.args, Reverse(i.args)} ELSE {i.args}>>

(* The values computed so far in b's dominators and in b itself. *)
NumberInst(g, inst) ==
    LET i == Resolved(inst, g.subst) IN
    IF i.op \notin PureOps THEN g
    ELSE IF GvnKey(i) \in DOMAIN g.table
         THEN [g EXCEPT !.subst = (i.dst :> g.table[GvnKey(i)]) @@ @]
         ELSE [g EXCEPT !.table = (GvnKey(i) :> i.dst) @@ @]

(* Mutant: what one arm computes is still in the table for the other. *)
Scope_Global(g, idom, b) == [subst |-> g.subst, table |-> g.last]

Scope(g, idom, b) ==
    [subst |-> g.subst, table |-> IF b = 1 THEN <<>> ELSE g.tables[idom[b]]]

NumberBlock(f, idom, g, b) ==
    LET h == FoldLeft(NumberInst, Scope(g, idom, b), f.insts[b])
    IN  [subst |-> h.subst, last |-> h.table, tables |-> (b :> h.table) @@ g.tables]

GvnSubst(f) ==
    LET idom == Dominators(f)
    IN  FoldLeft(LAMBDA g, b : NumberBlock(f, idom, g, b),
                 [subst |-> <<>>, last |-> <<>>, tables |-> <<>>], Preorder(idom, 1)).subst

Numbered(f, subst) ==
    [Substituted(f, subst) EXCEPT !.insts =
        [b \in DOMAIN @ |-> SelectSeq(@[b], LAMBDA i : i.dst \notin DOMAIN subst)]]

Read(f) ==
    UNION {UNION {ToSet(f.insts[b][k].args) : k \in DOMAIN f.insts[b]} : b \in Blocks(f)}
    \cup UNION {{f.phis[b][k].in[p] : p \in DOMAIN f.phis[b][k].in} :
                  <<b, k>> \in {<<c, j>> \in Blocks(f) \X (1 .. Len(BaseOrder)) : j <= Len(f.phis[c])}}

RECURSIVE SsaDce(_)
SsaDce(f) ==
    LET kept == [f EXCEPT !.insts = [b \in DOMAIN @ |->
                    SelectSeq(@[b], LAMBDA i : i.op \in PureOps => i.dst \in Read(f))]]
    IN  IF kept = f THEN f ELSE SsaDce(kept)

-----------------------------------------------------------------------------
(***************************************************************************)
(* from_ssa: every version of a register gets the register's name, every   *)
(* version of a numbered variable a name of its own.                       *)
(***************************************************************************)
Concrete(v) == IF v[1] \in Regs THEN <<v[1], Pending>> ELSE v

Lower(i) == [i EXCEPT !.args = [k \in DOMAIN @ |-> Concrete(@[k])], !.dst = Concrete(@)]

EdgeCopies(f, p, b) ==
    LET moved(phi) == phi.in[p] # phi.dst /\ Concrete(phi.in[p]) # Concrete(phi.dst)
        phis       == SelectSeq(f.phis[b], moved)
    IN  [k \in DOMAIN phis |-> Inst("copy", Concrete(phis[k].dst), <<Concrete(phis[k].in[p])>>, <<>>)]

(* The critical edges that carry copies, in the order their blocks are made. *)
Splits(f) ==
    SetToSortSeq({e \in Blocks(f) \X Blocks(f) :
                     /\ e[2] \in Succs(f, e[1]) /\ Cardinality(Succs(f, e[1])) > 1
                     /\ EdgeCopies(f, e[1], e[2]) # <<>>},
                 LAMBDA d, e : d[1] < e[1] \/ (d[1] = e[1] /\ d[2] < e[2]))

(* Where p's branch to t goes once the splits are in place. *)
SplitId(f, p, t) ==
    IF \E k \in DOMAIN Splits(f) : Splits(f)[k] = <<p, t>>
    THEN Len(f.insts) + CHOOSE k \in DOMAIN Splits(f) : Splits(f)[k] = <<p, t>>
    ELSE t

LowerBlock(f, b) ==
    LET code   == [k \in DOMAIN f.insts[b] |-> Lower(f.insts[b][k])]
        copies == IF Cardinality(Succs(f, b)) = 1 THEN EdgeCopies(f, b, Targets(f, b)[1]) ELSE <<>>
    IN  IF code # <<>> /\ Last(code).op \in Terminators
        THEN Front(code) \o copies
             \o <<[Last(code) EXCEPT !.to = [k \in DOMAIN @ |-> SplitId(f, b, @[k])]]>>
        ELSE code

FromSsa(f) ==
    LET splits == Splits(f)
        mids   == [k \in DOMAIN splits |->
                     Append(EdgeCopies(f, splits[k][1], splits[k][2]),
                            Inst("br", NoDst, <<>>, <<splits[k][2]>>))]
        insts  == [b \in Blocks(f) |-> LowerBlock(f, b)] \o mids
    IN  [insts |-> insts, phis |-> [b \in DOMAIN insts |-> <<>>]]

-----------------------------------------------------------------------------
(***************************************************************************)
(* The pipeline                                                            *)
(***************************************************************************)
Init ==
    /\ ir \in SourceSet
    /\ fn = ir
    /\ phase = "ir"
    /\ reused = {}
    /\ at = None
    /\ env = <<>> /\ outEnv = <<>> /\ seen = <<None, None>>

Pass(from, to, f) ==
    /\ phase = from /\ phase' = to
    /\ fn' = f
    /\ UNCHANGED <<ir, at, env, outEnv, seen>>

Build   == Accepts(ir) /\ Pass("ir", "built", ToSsa(ir)) /\ UNCHANGED reused
Refuse  == ~Accepts(ir) /\ Pass("ir", "refused", ir) /\ UNCHANGED reused
Trim    == Pass("built", "trimmed", RemoveTrivialPhis(fn)) /\ UNCHANGED reused
Number  ==
    /\ Pass("trimmed", "numbered", Numbered(fn, GvnSubst(fn)))
    /\ reused' = {GvnSubst(fn)[v] : v \in DOMAIN GvnSubst(fn)}
Retrim  == Pass("numbered", "retrimmed", RemoveTrivialPhis(fn)) /\ UNCHANGED reused
Discard == Pass("retrimmed", "swept", SsaDce(fn)) /\ UNCHANGED reused
Leave   == Pass("swept", "lowered", FromSsa(fn)) /\ UNCHANGED reused

-----------------------------------------------------------------------------
(***************************************************************************)
(* Execution of both functions, block by block                             *)
(***************************************************************************)
Value(e, a) == IF a[1] = Lit THEN a[2] ELSE IF a \in DOMAIN e THEN e[a] ELSE Undef

Compute(op, x) ==
    IF Undef \in ToSet(x) THEN Undef
    ELSE CASE op = "add"  -> (x[1] + x[2]) % Mod
           [] op = "sub"  -> (x[1] - x[2]) % Mod
           [] op = "mul"  -> (x[1] * x[2]) % Mod
           [] op = "adc"  -> (x[1] + x[2] + x[3]) % Mod
           [] op = "eq"   -> IF x[1] = x[2] THEN 1 ELSE 0
           [] op = "ne"   -> IF x[1] = x[2] THEN 0 ELSE 1
           [] op = "ltu"  -> IF x[1] < x[2] THEN 1 ELSE 0
           [] op = "copy" -> x[1]

(* x holds the variables, what was observed, and the results still to come. *)
Step(x, i) ==
    LET vals  == [k \in DOMAIN i.args |-> Value(x.env, i.args[k])]
        Set(r) == IF i.dst = NoDst THEN x.env ELSE (i.dst :> r) @@ x.env
    IN  IF i.op \in PureOps THEN [x EXCEPT !.env = Set(Compute(i.op, vals))]
        ELSE IF i.op \in ReadOps
             THEN [env |-> Set(Head(x.results)), results |-> Tail(x.results),
                   obs |-> Append(x.obs, <<i.op, vals>>)]
        ELSE IF i.op \in {"store", "ret", "ijmp"} THEN [x EXCEPT !.obs = Append(@, <<i.op, vals>>)]
        ELSE x

(* A switch takes its n-th target on n, its last one by default. *)
Goto(f, b, e) ==
    LET i == Last(f.insts[b])
        c == Value(e, i.args[1])
    IN  IF Targets(f, b) = <<>> THEN None
        ELSE IF Len(i.to) = 1 THEN i.to[1]
        ELSE IF i.op = "cbr" THEN i.to[IF c = 0 THEN 2 ELSE 1]
        ELSE IF c \in 0 .. Len(i.to) - 2 THEN i.to[c + 1]
        ELSE Last(i.to)

RunOne(f, b, e, results) ==
    LET x == FoldLeft(Step, [env |-> e, results |-> results, obs |-> <<>>], f.insts[b])
    IN  [env |-> x.env, obs |-> x.obs, to |-> Goto(f, b, x.env)]

(* A block and, behind it, the split block of the edge it leaves by. *)
Run(f, b, e, results) ==
    LET x == RunOne(f, b, e, results)
    IN  IF x.to # None /\ x.to > Len(ir.insts)
        THEN LET y == RunOne(f, x.to, x.env, <<>>) IN [y EXCEPT !.obs = x.obs]
        ELSE x

(* The variables a function reads. *)
Uses(f) == Plain \cap UNION {ToSet(i.args) : i \in UNION {ToSet(f.insts[b]) : b \in Blocks(f)}}

(* The lowered function calls a variable's value on entry version 0 of it, a
   register's by the register's name. *)
Entered(e) == [a \in DOMAIN e \cup {<<v[1], 0>> : v \in DOMAIN e} |-> e[<<a[1], Pending>>]]

Start ==
    /\ phase = "lowered" /\ at = None /\ env = <<>>
    /\ env' \in [Uses(ir) -> Inputs]
    /\ outEnv' = Entered(env')
    /\ at' = 1
    /\ UNCHANGED <<ir, fn, phase, reused, seen>>

RunBlock ==
    /\ at \in Blocks(ir)
    /\ \E results \in [1 .. Len(SelectSeq(ir.insts[at], LAMBDA i : i.op \in ReadOps)) -> Inputs] :
         LET x == Run(ir, at, env, results)
             y == Run(fn, at, outEnv, results)
         IN  /\ env' = x.env /\ outEnv' = y.env
             /\ at' = x.to
             /\ seen' = <<<<x.obs, x.to>>, <<y.obs, y.to>>>>
    /\ UNCHANGED <<ir, fn, phase, reused>>

Next == Build \/ Refuse \/ Trim \/ Number \/ Retrim \/ Discard \/ Leave \/ Start \/ RunBlock

Spec == Init /\ [][Next]_vars

-----------------------------------------------------------------------------
(***************************************************************************)
(* Properties                                                              *)
(***************************************************************************)
InSsa == phase \in {"built", "trimmed", "numbered", "retrimmed", "swept"}

(* a dominates b when some set that holds the entry and all successors of its
   members other than a does not hold b. *)
Separates(f, a, b) ==
    \E S \in SUBSET Blocks(f) :
        /\ a # 1 => 1 \in S
        /\ \A x \in S \ {a} : Succs(f, x) \subseteq S
        /\ b \notin S

(* The iterative algorithm finds the dominators that the paths of the function
   define, and DF(b) is what its comment says: the blocks y such that b
   dominates a predecessor of y but does not strictly dominate y. *)
TreeIsRight ==
    phase = "ir" /\ Accepts(ir) =>
        LET idom == Dominators(ir)
            df   == Frontiers(ir, idom)
        IN  \A a, b \in Blocks(ir) :
              /\ Dominates(idom, a, b) <=> a = b \/ Separates(ir, a, b)
              /\ b \in df[a] <=> /\ \E p \in ToSet(PredList(ir, b)) : Dominates(idom, a, p)
                                 /\ ~(a # b /\ Dominates(idom, a, b))

(* Where a version is defined: <<block, 0>> by a phi, <<block, k>> by the
   k-th instruction. *)
DefSites(f, v) ==
    {<<b, 0>> : b \in {c \in Blocks(f) : \E k \in DOMAIN f.phis[c] : f.phis[c][k].dst = v}}
    \cup {s \in UNION {{b} \X DOMAIN f.insts[b] : b \in Blocks(f)} : f.insts[s[1]][s[2]].dst = v}

(* v holds a value whenever control is just before instruction k of block b. *)
Available(f, idom, v, b, k) ==
    v[1] # Lit /\ v[2] # 0 =>
        \E s \in DefSites(f, v) : IF s[1] = b THEN s[2] < k ELSE Dominates(idom, s[1], b)

(* After every pass the function is in SSA form: a version has one definition
   and is defined on every path that leads to a use, a phi input by the end of
   its predecessor.  Value numbering and the removal of phis rename uses across
   blocks, and dead code goes by counting them: each could leave a use without
   its definition. *)
SsaForm ==
    InSsa =>
        LET idom == Dominators(fn) IN
        /\ \A v \in Read(fn) : v[1] # Lit /\ v[2] # 0 => Cardinality(DefSites(fn, v)) = 1
        /\ \A b \in Blocks(fn) :
             /\ \A k \in DOMAIN fn.insts[b] : \A a \in ToSet(fn.insts[b][k].args) :
                    Available(fn, idom, a, b, k)
             /\ \A k \in DOMAIN fn.phis[b] : \A p \in DOMAIN fn.phis[b][k].in :
                    Available(fn, idom, fn.phis[b][k].in[p], p, Len(fn.insts[p]) + 1)

(* The lowered function loads, stores, calls, branches and returns as the
   original does, block for block, on any values, through critical edges,
   loops and switches. *)
SameEffects == seen[1] = seen[2]

(* The same where no version of a register stands for another version: only
   these share a name with values that are still needed. *)
EffectsKept == (\A v \in reused : v[1] \notin Regs) => SameEffects

=============================================================================
