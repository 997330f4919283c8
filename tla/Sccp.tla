-------------------------------- MODULE Sccp --------------------------------
(***************************************************************************)
(* Sparse conditional constant propagation over the SSA form of a function *)
(* (freakre-ir/src/sccp.rs), as the decompiler calls it between to_ssa and *)
(* ssa_gvn.  The analysis is a loop of rounds; a round drains a FIFO of    *)
(* blocks, and a block is visited phi by phi and instruction by            *)
(* instruction.  One action below is one such visit step, so that the      *)
(* order in which edges, lattice values and queue entries appear is the    *)
(* order of the code.  When two rounds in a row mark the same number of    *)
(* edges, the function is rewritten in passes until a pass changes         *)
(* nothing.                                                                *)
(*                                                                         *)
(* The function under analysis is any element of Programs.  Its blocks are *)
(* numbered in source order and block 1 is the entry.                      *)
(***************************************************************************)
EXTENDS Integers, Sequences, FiniteSets, Functions

CONSTANTS
    Programs,    \* the SSA functions the pass may be called on
    Vers,        \* SSA versions (VersionedVar)
    None,        \* "no version" and "no count"
    Opaque,      \* a WideConst, StringRef or Symbol operand
    Top, Over,   \* the lattice values that are not constants
    Half         \* integers are -Half .. Half-1 (2^63 in the code)

Operands == Vers \cup Int \cup {Opaque}
Lattice  == Int \cup {Top, Over}

ASSUME ConstantsAssumption ==
    /\ Half \in Nat \ {0}
    /\ Vers \cap Int = {}
    /\ {None, Opaque, Top, Over} \cap (Vers \cup Int) = {}
    /\ Top # Over

-----------------------------------------------------------------------------
(***************************************************************************)
(* SSA instructions.  `to' lists the branch targets of an instruction that *)
(* is not a switch case; `cases' those of a switch with their values.      *)
(***************************************************************************)
PureOps  == {"add", "sub", "eq", "lts", "neg", "copy", "rol"}
DefOps   == PureOps \cup {"load"}
JumpOps  == {"br", "cbr", "switch"}
OtherOps == {"store", "ret", "ijmp"}

Inst(op, dst, args, cases, to) ==
    [op |-> op, dst |-> dst, args |-> args, cases |-> cases, to |-> to]

Binary == {"add", "sub", "eq", "lts", "rol"}
Unary  == {"neg", "copy", "cbr", "switch"}

IsInst(i, blocks) ==
    /\ i \in [op : DefOps \cup JumpOps \cup OtherOps, dst : Vers \cup {None},
              args : Seq(Operands), cases : Seq(Int \X blocks), to : Seq(blocks)]
    /\ i.op \in Binary => Len(i.args) = 2
    /\ i.op \in Unary  => Len(i.args) = 1
    /\ i.op \in DefOps <=> i.dst \in Vers
    /\ i.op = "br"     => Len(i.to) = 1
    /\ i.op = "cbr"    => Len(i.to) = 2

IsPhi(p, blocks) ==
    /\ DOMAIN p = {"dst", "in"}
    /\ p.dst \in Vers
    /\ DOMAIN p.in \subseteq blocks
    /\ \A q \in DOMAIN p.in : p.in[q] \in Vers

(* A well-formed function: what to_ssa produces, as far as the pass needs. *)
IsProgram(p) ==
    LET blocks  == DOMAIN p.insts
        List(s) == Len(s) \in Nat /\ DOMAIN s = 1..Len(s)
    IN
    /\ List(p.insts) /\ 1 \in blocks
    /\ \A b \in blocks :
         /\ List(p.phis[b]) /\ List(p.insts[b])
         /\ \A k \in DOMAIN p.phis[b] : IsPhi(p.phis[b][k], blocks)
         /\ \A k \in DOMAIN p.insts[b] : IsInst(p.insts[b][k], blocks)

ASSUME ProgramsAssumption == \A p \in Programs : IsProgram(p)

(* The targets of a terminator whatever its condition, in case order. *)
AllTargets(i) ==
    IF i.op \notin JumpOps THEN <<>>
    ELSE [k \in DOMAIN i.cases |-> i.cases[k][2]] \o i.to

Succs(p, b) == UNION {Range(AllTargets(p.insts[b][k])) : k \in DOMAIN p.insts[b]}
Preds(p, b) == {a \in DOMAIN p.insts : b \in Succs(p, a)}

-----------------------------------------------------------------------------
(***************************************************************************)
(* Constant folding and the lattice                                        *)
(***************************************************************************)
Wrap(n) == ((n + Half) % (2 * Half)) - Half
Flag(b) == IF b THEN 1 ELSE 0

Foldable == PureOps \ {"rol"}

Fold(op, a) ==
    CASE op = "add"  -> Wrap(a[1] + a[2])
      [] op = "sub"  -> Wrap(a[1] - a[2])
      [] op = "eq"   -> Flag(a[1] = a[2])
      [] op = "lts"  -> Flag(a[1] < a[2])
      [] op = "neg"  -> Wrap(-a[1])
      [] op = "copy" -> a[1]

(* The order Top < Const < Over the pass only ever climbs. *)
AtMost(l, m) == l = m \/ l = Top \/ m = Over

SsaLattice(o, l) == IF o \in Int THEN o ELSE IF o \in Vers THEN l[o] ELSE Over

(* Mutant: the first constant wins. *)
MergeLattice_FirstWins(old, new) == IF old = Top THEN new ELSE old

MergeLattice(old, new) ==
    IF old = Over \/ new = Top THEN old
    ELSE IF old = Top \/ old = new THEN new
    ELSE Over

EvalPhi(p, b, l, edges) ==
    LET live == {q \in DOMAIN p.in : <<q, b>> \in edges}
        vals == {l[p.in[q]] : q \in live} \ {Top}
    IN  IF vals = {} THEN Top
        ELSE IF \A x, y \in vals : x = y THEN CHOOSE x \in vals : TRUE
        ELSE Over

EvalInst(i, l) ==
    LET vals == [k \in DOMAIN i.args |-> SsaLattice(i.args[k], l)]
    IN  IF i.op = "load" THEN Over
        ELSE IF Range(vals) \subseteq Int
             THEN IF i.op \in Foldable THEN Fold(i.op, vals) ELSE Over
        ELSE IF Over \in Range(vals) THEN Over
        ELSE Top

(* Mutant: a switch without a default falls to block 0. *)
LiveTargets_DefaultZero(i, l) ==
    IF i.op = "switch" /\ i.to = <<>> /\ SsaLattice(i.args[1], l) \in Int THEN <<0>>
    ELSE AllTargets(i)

(* The targets a terminator may take when the lattice is l. *)
LiveTargets(i, l) ==
    LET c    == SsaLattice(i.args[1], l)
        hits == {k \in DOMAIN i.cases : i.cases[k][1] = c}
    IN  IF i.op = "br" \/ c \notin Int THEN AllTargets(i)
        ELSE IF i.op = "cbr" THEN IF c = 0 THEN <<i.to[2]>> ELSE <<i.to[1]>>
        ELSE IF hits = {} THEN i.to
        ELSE <<i.cases[CHOOSE k \in hits : \A j \in hits : k <= j][2]>>

-----------------------------------------------------------------------------
(***************************************************************************)
(* The rewrite                                                             *)
(***************************************************************************)
(* p without the blocks outside live, its caches filtered alike. *)
Restricted(p, live) ==
    [phis  |-> [b \in live |-> p.phis[b]],
     insts |-> [b \in live |-> p.insts[b]],
     preds |-> [b \in live |-> Preds(p, b) \cap live],
     succs |-> [b \in live |-> Succs(p, b) \cap live]]

SubstituteVal(o, l) == IF o \in Vers /\ l[o] \in Int THEN l[o] ELSE o

(* The distinct values of a phi over the executable edges into b. *)
Survivors(p, b, l, edges) ==
    {SubstituteVal(p.in[q], l) : q \in {r \in DOMAIN p.in : <<r, b>> \in edges}}

(* Mutant: any surviving input will do. *)
Collapses_AnySurvivor(p, b, l, edges) == Survivors(p, b, l, edges) # {}

Collapses(p, b, l, edges) == Cardinality(Survivors(p, b, l, edges)) = 1

(* What a use of a collapsed phi becomes. *)
PhiValue(o, l, edges) ==
    LET phis      == UNION {{<<o.phis[b][k], b>> : k \in DOMAIN o.phis[b]} : b \in DOMAIN o.phis}
        gone      == {x \in phis : Collapses(x[1], x[2], l, edges)}
        phiOf(v)  == CHOOSE x \in gone : x[1].dst = v
    IN  [v \in {x[1].dst : x \in gone} |->
            CHOOSE s \in Survivors(phiOf(v)[1], phiOf(v)[2], l, edges) : TRUE]

Replace(x, values, l) ==
    IF x \in DOMAIN values THEN values[x] ELSE SubstituteVal(x, l)

(* A kept phi takes a substituted input only when that is a version. *)
ReplaceInput(v, values, l) ==
    LET r == Replace(v, values, l) IN IF r \in Vers THEN r ELSE v

FoldBranch(i) ==
    IF i.op = "cbr" /\ i.args[1] \in Int
    THEN Inst("br", None, <<>>, <<>>, <<i.to[IF i.args[1] # 0 THEN 1 ELSE 2]>>)
    ELSE i

(* The phis of block b that do not collapse, in their order. *)
Kept(phis, b, l, edges) ==
    LET upTo[n \in 0 .. Len(phis)] ==
            IF n = 0 THEN <<>>
            ELSE IF Collapses(phis[n], b, l, edges) THEN upTo[n - 1]
            ELSE Append(upTo[n - 1], phis[n])
    IN  upTo[Len(phis)]

RewritePass(o, l, edges) ==
    LET values    == PhiValue(o, l, edges)
        phi(p)    == [p EXCEPT !.in = [q \in DOMAIN p.in |-> ReplaceInput(p.in[q], values, l)]]
        inst(i)   == FoldBranch([i EXCEPT !.args =
                        [k \in DOMAIN i.args |-> Replace(i.args[k], values, l)]])
        kept(b)   == Kept(o.phis[b], b, l, edges)
    IN  [o EXCEPT
            !.phis  = [b \in DOMAIN o.phis |->
                        [k \in DOMAIN kept(b) |-> phi(kept(b)[k])]],
            !.insts = [b \in DOMAIN o.insts |->
                        [k \in DOMAIN o.insts[b] |-> inst(o.insts[b][k])]]]

-----------------------------------------------------------------------------
VARIABLES
    prog,        \* the function as sccp receives it
    lat,         \* lattice value of every version (absent in the code = Top)
    execEdges,   \* edges marked executable in this round
    execBlocks,  \* blocks marked executable in this round
    blockWl,     \* the FIFO of blocks to (re)visit
    inBlockWl,   \* the set mirroring the FIFO
    cur, pc,     \* block under visit (0: none) and the next phi or instruction
    prevEdges,   \* number of edges the previous round marked
    phase,       \* "analyse", "rewrite" or "done"
    out          \* the function as rewritten so far

queue == <<blockWl, inBlockWl>>
round == <<execEdges, execBlocks>>
vars  == <<prog, lat, round, queue, cur, pc, prevEdges, phase, out>>

Blocks == DOMAIN prog.insts
Entry  == 1

Init ==
    /\ prog \in Programs
    /\ lat = [v \in Vers |-> Top]
    /\ execEdges = {} /\ execBlocks = {Entry}
    /\ blockWl = <<Entry>> /\ inBlockWl = {Entry}
    /\ cur = 0 /\ pc = 1
    /\ prevEdges = None
    /\ phase = "analyse"
    /\ out = Restricted(prog, DOMAIN prog.insts)

-----------------------------------------------------------------------------
(***************************************************************************)
(* The blocks that use a version, as operand or as phi input.              *)
(***************************************************************************)
UsesIn(b, v) ==
    \/ \E k \in DOMAIN prog.phis[b] : v \in Range(prog.phis[b][k].in)
    \/ \E k \in DOMAIN prog.insts[b] : v \in Range(prog.insts[b][k].args)

Uses(v) == {b \in Blocks : UsesIn(b, v)}

(* S as a sequence in increasing order of rank: a set with one element. *)
InOrder(S, rank) ==
    {s \in Injection(1..Cardinality(S), S) :
        \A i, j \in DOMAIN s : i < j => rank[s[i]] < rank[s[j]]}

(* queue_block on every block of S that is not queued yet. *)
QueueBlocks(S, rank) ==
    \E s \in InOrder(S \ inBlockWl, rank) :
        /\ blockWl' = blockWl \o s
        /\ inBlockWl' = inBlockWl \cup S

(* Mutant: the users are told of every evaluation. *)
Refine_AlwaysTells(dst, new) ==
    /\ lat' = [lat EXCEPT ![dst] = MergeLattice(lat[dst], new)]
    /\ QueueBlocks(Uses(dst), [b \in Blocks |-> b])

(* merge_lattice: refine dst and, if it changed, queue the blocks using it. *)
Refine(dst, new) ==
    LET merged == MergeLattice(lat[dst], new) IN
    /\ lat' = [lat EXCEPT ![dst] = merged]
    /\ IF merged = lat[dst] THEN UNCHANGED queue
       ELSE QueueBlocks(Uses(dst), [b \in Blocks |-> b])

Phis     == prog.phis[cur]
BodyLen  == Len(Phis) + Len(prog.insts[cur])
Visiting == phase = "analyse" /\ cur # 0
AtInst   == Visiting /\ pc > Len(Phis) /\ pc <= BodyLen
CurInst  == prog.insts[cur][pc - Len(Phis)]

(* Mutant: a popped block stays in the set of queued blocks. *)
Pop_KeepsSeen ==
    /\ phase = "analyse" /\ cur = 0 /\ blockWl # <<>>
    /\ cur' = Head(blockWl) /\ pc' = 1
    /\ blockWl' = Tail(blockWl)
    /\ execBlocks' = execBlocks \cup {cur'}
    /\ UNCHANGED <<prog, lat, execEdges, inBlockWl, prevEdges, phase, out>>

Pop ==
    /\ phase = "analyse" /\ cur = 0 /\ blockWl # <<>>
    /\ cur' = Head(blockWl) /\ pc' = 1
    /\ blockWl' = Tail(blockWl) /\ inBlockWl' = inBlockWl \ {cur'}
    /\ execBlocks' = execBlocks \cup {cur'}
    /\ UNCHANGED <<prog, lat, execEdges, prevEdges, phase, out>>

VisitPhi ==
    /\ Visiting /\ pc <= Len(Phis)
    /\ Refine(Phis[pc].dst, EvalPhi(Phis[pc], cur, lat, execEdges))
    /\ pc' = pc + 1
    /\ UNCHANGED <<prog, round, cur, prevEdges, phase, out>>

VisitDef ==
    /\ AtInst /\ CurInst.op \in DefOps
    /\ Refine(CurInst.dst, EvalInst(CurInst, lat))
    /\ pc' = pc + 1
    /\ UNCHANGED <<prog, round, cur, prevEdges, phase, out>>

(* mark_edge to every live target: only a new edge to a block that was not *)
(* executable yet queues the block.                                        *)
VisitJump ==
    /\ AtInst /\ CurInst.op \in JumpOps
    /\ LET ts    == LiveTargets(CurInst, lat)
           first == [t \in Range(ts) |-> CHOOSE k \in DOMAIN ts :
                        ts[k] = t /\ \A j \in DOMAIN ts : ts[j] = t => k <= j]
       IN  /\ execEdges' = execEdges \cup {<<cur, t>> : t \in Range(ts)}
           /\ execBlocks' = execBlocks \cup Range(ts)
           /\ QueueBlocks(Range(ts) \ execBlocks, first)
    /\ pc' = pc + 1
    /\ UNCHANGED <<prog, lat, cur, prevEdges, phase, out>>

VisitOther ==
    /\ AtInst /\ CurInst.op \in OtherOps
    /\ pc' = pc + 1
    /\ UNCHANGED <<prog, lat, round, queue, cur, prevEdges, phase, out>>

LeaveBlock ==
    /\ Visiting /\ pc > BodyLen
    /\ cur' = 0 /\ pc' = 1
    /\ UNCHANGED <<prog, lat, round, queue, prevEdges, phase, out>>

(* A drained queue ends the round: another one starts unless the number of *)
(* executable edges is that of the round before.                           *)
RoundOver == phase = "analyse" /\ cur = 0 /\ blockWl = <<>>

NextRound ==
    /\ RoundOver /\ prevEdges # Cardinality(execEdges)
    /\ prevEdges' = Cardinality(execEdges)
    /\ execEdges' = {} /\ execBlocks' = {Entry}
    /\ QueueBlocks({Entry}, [b \in Blocks |-> b])
    /\ UNCHANGED <<prog, lat, cur, pc, phase, out>>

(* Mutant: the first round is taken for the last. *)
DropDeadBlocks_FirstRound ==
    /\ RoundOver
    /\ phase' = "rewrite"
    /\ out' = Restricted(prog, execBlocks)
    /\ UNCHANGED <<prog, lat, round, queue, cur, pc, prevEdges>>

DropDeadBlocks ==
    /\ RoundOver /\ prevEdges = Cardinality(execEdges)
    /\ phase' = "rewrite"
    /\ out' = Restricted(prog, execBlocks)
    /\ UNCHANGED <<prog, lat, round, queue, cur, pc, prevEdges>>

Rewrite ==
    /\ phase = "rewrite"
    /\ out' = RewritePass(out, lat, execEdges)
    /\ phase' = IF out' = out THEN "done" ELSE "rewrite"
    /\ UNCHANGED <<prog, lat, round, queue, cur, pc, prevEdges>>

Next ==
    \/ Pop \/ VisitPhi \/ VisitDef \/ VisitJump \/ VisitOther \/ LeaveBlock
    \/ NextRound \/ DropDeadBlocks \/ Rewrite

(* The pass is one sequential call: it runs until it returns. *)
Spec == Init /\ [][Next]_vars /\ WF_vars(Next)

-----------------------------------------------------------------------------
OutOK ==
    /\ DOMAIN out = {"phis", "insts", "preds", "succs"}
    /\ DOMAIN out.insts = DOMAIN out.phis

TypeOK ==
    /\ prog \in Programs
    /\ lat \in [Vers -> Lattice]
    /\ execEdges \subseteq Blocks \X Blocks
    /\ execBlocks \subseteq Blocks
    /\ blockWl \in Seq(Blocks) /\ inBlockWl \subseteq Blocks
    /\ cur \in Blocks \cup {0} /\ pc \in Nat \ {0}
    /\ prevEdges \in Nat \cup {None}
    /\ phase \in {"analyse", "rewrite", "done"}
    /\ OutOK

(* The set beside the FIFO mirrors it, so that no block is queued twice    *)
(* and none is dropped because a stale entry says it is already queued.    *)
WorklistMirrored ==
    /\ inBlockWl = Range(blockWl)
    /\ IsInjective(blockWl)

(* Every executable edge joins two executable blocks.  The rewrite keeps   *)
(* blocks by exec_blocks and phi inputs by exec_edges; were they to        *)
(* disagree, a live edge would end in a removed block.                     *)
EdgesJoinLiveBlocks == execEdges \subseteq execBlocks \X execBlocks

(* A lattice value only ever climbs, across visits, rounds and the rewrite *)
(* ("the lattice is monotonic", sccp.rs:97): the argument for both the     *)
(* termination of the pass and its restarts.                               *)
LatticeClimbs == [][\A v \in Vers : AtMost(lat[v], lat'[v])]_vars

Analysed == phase # "analyse"

(* When the analysis stops, every live block's live targets are executable *)
(* and every definition of a live block is at least what its operands give *)
(* it: comparing edge counts of two rounds is a sound test for a fixpoint. *)
FixpointReached ==
    Analysed => \A b \in execBlocks : \A k \in DOMAIN prog.insts[b] :
        LET i == prog.insts[b][k] IN
        /\ i.op \in JumpOps => {<<b, t>> : t \in Range(LiveTargets(i, lat))} \subseteq execEdges
        /\ i.op \in DefOps => AtMost(EvalInst(i, lat), lat[i.dst])

(* No edge marked while a condition was still unknown survives: each edge  *)
(* left is live under the final lattice and each live block but the entry  *)
(* is the target of one.  It is what the rounds are restarted for          *)
(* (sccp.rs:94-98).                                                        *)
NoSpeculativeEdges ==
    Analysed =>
        /\ \A e \in execEdges : \E k \in DOMAIN prog.insts[e[1]] :
             LET i == prog.insts[e[1]][k] IN
             i.op \in JumpOps /\ e[2] \in Range(LiveTargets(i, lat))
        /\ \A b \in execBlocks \ {Entry} : \E a \in execBlocks : <<a, b>> \in execEdges

(* Each phi of a live block covers all its executable inputs ("each        *)
(* executable incoming edge contributes", sccp.rs:112).                    *)
PhisCoverLiveEdges ==
    Analysed => \A b \in execBlocks : \A k \in DOMAIN prog.phis[b] :
        LET p == prog.phis[b][k] IN
        AtMost(EvalPhi(p, b, lat, execEdges), lat[p.dst])

(* When a round ends, the phis of its blocks have seen all the edges it    *)
(* marked, so that the next round starts from complete joins.              *)
RoundsCover ==
    RoundOver => \A b \in execBlocks : \A k \in DOMAIN prog.phis[b] :
        LET p == prog.phis[b][k] IN
        AtMost(EvalPhi(p, b, lat, execEdges), lat[p.dst])

(* The versions a function defines and those it reads. *)
Defined(o) ==
    UNION {{o.phis[b][k].dst : k \in DOMAIN o.phis[b]}
           \cup {o.insts[b][k].dst : k \in DOMAIN o.insts[b]} : b \in DOMAIN o.insts}
Read(o) ==
    Vers \cap UNION {(UNION {Range(o.phis[b][k].in) : k \in DOMAIN o.phis[b]})
                     \cup (UNION {Range(o.insts[b][k].args) : k \in DOMAIN o.insts[b]})
                     : b \in DOMAIN o.insts}
LiveIns(o) == Read(o) \ Defined(o)

(* The pass returns. *)
Terminates == <>(phase = "done")
=============================================================================
