------------------------------- MODULE CfgLoops -------------------------------
(***************************************************************************)
(* Dominators and natural loops of a control-flow graph                    *)
(* (cfg-builder/src/lib.rs, DominatorTree and detect_loops), computed on   *)
(* the graphs the builder makes.  Block 1 is the entry.                    *)
(***************************************************************************)
EXTENDS CfgBuilder

CONSTANT Limit     \* steps an intersection may take (LIMIT, 1000)

ASSUME LimitAssumption == Limit \in Nat

VARIABLES
    phase,    \* idle, order, dominators, loops
    path,     \* stack of the depth-first search: <<block, next successor>>
    visited,
    order,    \* postorder so far, the last block first
    idom,     \* immediate dominators found so far; a block without one is not in the domain
    pos,      \* place in the order of the running sweep
    changed,  \* whether the sweep has changed a dominator
    loops     \* [header, blocks, tail]

tree == <<phase, path, visited, order, idom, pos, changed, loops>>
vars == <<builder, tree>>

-----------------------------------------------------------------------------
Succs(k) == [i \in DOMAIN blocks[k].succ |-> blocks[k].succ[i][1]]
Preds(k) == ToSet(blocks[k].pred)

Rank(k) == CHOOSE i \in DOMAIN order : order[i] = k

(* The finger of the later block goes up.  Every block with a dominator is on
   the order, so two blocks have two ranks. *)
Climb(d) ==
    [e \in (DOMAIN d) \X (DOMAIN d) |->
        IF e[1] = e[2] THEN e
        ELSE IF Rank(e[1]) > Rank(e[2]) THEN <<d[e[1]], e[2]>> ELSE <<e[1], d[e[2]]>>]

(* Mutant: one of the two is taken. *)
Intersect_TakesFirst(d, a, b) == a

Intersect(d, a, b) ==
    LET fingers[n \in 0 .. Limit] == IF n = 0 THEN <<a, b>> ELSE Climb(d)[fingers[n - 1]]
    IN  fingers[Limit][1]

(* The first predecessor with a dominator, intersected with the dominators of
   the others; 0 if there is none. *)
Meet(d, x, p) ==
    IF p \notin DOMAIN d \/ p = x THEN x
    ELSE IF x = 0 THEN p
    ELSE Intersect(d, d[p], x)

NewIdom(d, k) ==
    LET ps == blocks[k].pred
        upTo[n \in 0 .. Len(ps)] == IF n = 0 THEN 0 ELSE Meet(d, upTo[n - 1], ps[n])
    IN  upTo[Len(ps)]

(* The block and all above it in the tree. *)
Dominators(d, b) ==
    {a \in DOMAIN blocks : \A S \in SUBSET DOMAIN blocks :
        b \in S /\ (\A k \in S \cap DOMAIN d : d[k] \in S) => a \in S}

(* Mutant: the walk does not stop at the header. *)
LoopBlocks_PastHeader(tail, header) ==
    {header} \cup {k \in DOMAIN blocks : \A S \in SUBSET DOMAIN blocks :
                      tail \in S /\ (\A j \in S : Preds(j) \subseteq S) => k \in S}

(* The header and what reaches the tail without passing it. *)
LoopBlocks(tail, header) ==
    {header} \cup {k \in DOMAIN blocks : \A S \in SUBSET DOMAIN blocks :
                      tail \in S /\ (\A j \in S \ {header} : Preds(j) \ {header} \subseteq S) => k \in S}

-----------------------------------------------------------------------------
LoopsInit ==
    /\ Init
    /\ phase = "idle" /\ path = <<>> /\ visited = {} /\ order = <<>>
    /\ idom = <<>> /\ pos = 1 /\ changed = FALSE /\ loops = {}

Construct == Build /\ UNCHANGED tree

(* compute: the entry dominates itself; reverse_postorder starts from it. *)
Begin ==
    /\ stage = "graph" /\ phase = "idle" /\ blocks # <<>>
    /\ phase' = "order" /\ path' = <<<<1, 1>>>> /\ visited' = {1} /\ idom' = << 1 >>
    /\ UNCHANGED <<builder, order, pos, changed, loops>>

(* The next edge of the block on top. *)
Walk ==
    LET node == Last(path)[1]
        i    == Last(path)[2]
        to   == Succs(node)[i]
        rest == Append(Front(path), <<node, i + 1>>)
    IN
    /\ phase = "order" /\ path # <<>> /\ i <= Len(Succs(node))
    /\ path' = IF to \in visited THEN rest ELSE Append(rest, <<to, 1>>)
    /\ visited' = visited \cup {to}
    /\ UNCHANGED <<builder, phase, order, idom, pos, changed, loops>>

Leave ==
    LET node == Last(path)[1] IN
    /\ phase = "order" /\ path # <<>> /\ Last(path)[2] > Len(Succs(node))
    /\ path' = Front(path)
    /\ order' = <<node>> \o order
    /\ UNCHANGED <<builder, phase, visited, idom, pos, changed, loops>>

Ordering ==
    /\ phase = "order" /\ path = <<>>
    /\ phase' = "dominators"
    /\ UNCHANGED <<builder, path, visited, order, idom, pos, changed, loops>>

(* One block of a sweep. *)
Refine ==
    LET k == order[pos]
        x == NewIdom(idom, k)
    IN
    /\ phase = "dominators" /\ pos <= Len(order)
    /\ pos' = pos + 1
    /\ IF k = 1 \/ x = 0 THEN UNCHANGED <<idom, changed>>
       ELSE /\ idom' = [b \in DOMAIN idom \cup {k} |-> IF b = k THEN x ELSE idom[b]]
            /\ changed' = (changed \/ idom' # idom)
    /\ UNCHANGED <<builder, phase, path, visited, order, loops>>

Again ==
    /\ phase = "dominators" /\ pos > Len(order) /\ changed
    /\ pos' = 1 /\ changed' = FALSE
    /\ UNCHANGED <<builder, phase, path, visited, order, idom, loops>>

BackEdges == {e \in (DOMAIN blocks) \X (DOMAIN blocks) : e[2] \in ToSet(Succs(e[1])) \cap Dominators(idom, e[1])}

DetectLoops ==
    /\ phase = "dominators" /\ pos > Len(order) /\ ~changed
    /\ phase' = "loops"
    /\ loops' = {[header |-> e[2], tail |-> e[1], blocks |-> LoopBlocks(e[1], e[2])] : e \in BackEdges}
    /\ UNCHANGED <<builder, path, visited, order, idom, pos, changed>>

Next == Construct \/ Begin \/ Walk \/ Leave \/ Ordering \/ Refine \/ Again \/ DetectLoops

Spec == LoopsInit /\ [][Next]_vars /\ WF_vars(Next)

-----------------------------------------------------------------------------
(***************************************************************************)
(* Properties                                                              *)
(***************************************************************************)
(* The blocks reached from the entry without passing block a. *)
ReachedWithout(a) ==
    {k \in DOMAIN blocks : \A S \in SUBSET DOMAIN blocks :
        {1} \ {a} \subseteq S /\ (\A j \in S : ToSet(Succs(j)) \ {a} \subseteq S) => k \in S}

Reached == ReachedWithout(0)

TrulyDominates(a, b) == b \notin ReachedWithout(a)

(* No intersection runs out of steps. *)
Ample == 2 * Len(blocks) <= Limit

(* What the tree calls a dominator is on every path from the entry, and every
   block that is reached is in the tree. *)
DominatorsSound ==
    phase = "loops" /\ Ample =>
        /\ DOMAIN idom = Reached /\ \A k \in Reached : idom[k] \in Reached
        /\ \A b \in Reached : \A a \in Dominators(idom, b) : TrulyDominates(a, b)

(* A loop is entered at its header only: the header is on every path to its
   blocks, and what leads into another block of it belongs to it; every block
   can go round. *)
LoopsNatural ==
    Ample => \A l \in loops :
        /\ l.header \in ToSet(Succs(l.tail))
        /\ \A k \in l.blocks \cap Reached : TrulyDominates(l.header, k)
        /\ \A k \in l.blocks \ {l.header} : Preds(k) \subseteq l.blocks
        /\ \A k \in l.blocks \ {l.header, l.tail} : \E s \in ToSet(Succs(k)) : s \in l.blocks

(* The search, the sweeps and the loops come to an end. *)
Terminates == <>(phase = "loops" \/ (stage = "graph" /\ blocks = <<>>))

=============================================================================
