----------------------------- MODULE Structuring -----------------------------
(***************************************************************************)
(* Control-flow structuring (decompiler/src/structuring.rs): the function  *)
(* the SSA passes leave, or the one that came in when they are switched    *)
(* off or refuse it, becomes a tree of loops, conditionals and switches    *)
(* with a goto where nothing else fits.  When the tree stands it is run    *)
(* beside the function, as the C text that ast_to_c.rs makes of it.        *)
(*                                                                         *)
(* Exception regions (calls of a handler by name) and the clean-ups of     *)
(* flags, copies and stack slots that run before the structurer are left   *)
(* out, and so are the limits that small functions do not reach.           *)
(***************************************************************************)
EXTENDS Ssa

CONSTANTS
    MaxChain,     \* comparisons followed to make a switch, 32 in the code
    Fuel          \* steps without an observation after which a run counts as silent

ASSUME StructuringAssumption == MaxChain \in Nat /\ Fuel \in Nat

VARIABLES
    text,      \* the statements of the tree
    spot,      \* where the two runs are: [code |-> <<block, index>>, text |-> frames]; None when they are not
    heard      \* what they did last, <<under the function, under the tree>>

treeVars   == <<text, spot, heard>>
decompiler == <<vars, treeVars>>

-----------------------------------------------------------------------------
(***************************************************************************)
(* Statements and conditions                                               *)
(***************************************************************************)
Do(i)      == [s |-> "inst", inst |-> i]
Jump(to)   == [s |-> "goto", to |-> to]
Label(b)   == [s |-> "label", at |-> b]
Return(i)  == [s |-> "return", inst |-> i]
Break      == [s |-> "break"]
Continue   == [s |-> "continue"]
If(c, t, e)      == [s |-> "if", cond |-> c, then |-> t, else |-> e]
While(c, b)      == [s |-> "while", cond |-> c, body |-> b]
DoWhile(b, c)    == [s |-> "do", cond |-> c, body |-> b]
For(i, c, u, b)  == [s |-> "for", init |-> i, cond |-> c, update |-> u, body |-> b]
SwitchOn(v, cs, d) == [s |-> "switch", on |-> v, cases |-> cs, default |-> d]

True      == [c |-> "true"]
Var(v)    == [c |-> "var", v |-> v]
Not(x)    == [c |-> "not", of |-> x]
And(x, y) == [c |-> "and", l |-> x, r |-> y]
Or(x, y)  == [c |-> "or", l |-> x, r |-> y]

-----------------------------------------------------------------------------
(***************************************************************************)
(* Blocks and their edges: an edge to a block that does not exist is       *)
(* skipped, a second edge to the same block is not counted.                *)
(***************************************************************************)
NoEnd == Inst("none", NoDst, <<>>, <<>>)
EndOf(f, b) ==
    IF b \in Blocks(f) /\ f.insts[b] # <<>> /\ Last(f.insts[b]).op \in Terminators THEN Last(f.insts[b]) ELSE NoEnd

Body(f, b)  == IF b \in Blocks(f) THEN SelectSeq(f.insts[b], LAMBDA i : i.op \notin Terminators) ELSE <<>>
Stmts(f, b) == LET body == Body(f, b) IN [k \in DOMAIN body |-> Do(body[k])]

Out(f, b) ==
    FoldLeft(LAMBDA s, t : IF t \in ToSet(s) \/ t \notin Blocks(f) THEN s ELSE Append(s, t), <<>>, EndOf(f, b).to)

Into(f, b)    == {a \in Blocks(f) : b \in ToSet(Out(f, a))}
Sorted(f, S)  == SelectSeq([b \in Blocks(f) |-> b], LAMBDA b : b \in S)
FirstOf(s)    == IF s = <<>> THEN None ELSE s[1]

RECURSIVE DominatesIn(_, _, _)
DominatesIn(idom, a, b) ==
    a = b \/ (b \in DOMAIN idom /\ idom[b] # b /\ DominatesIn(idom, a, idom[b]))

(* A search is confined to a scope: blocks outside are met but not left. *)
RECURSIVE Closure(_, _, _)
Closure(f, scope, S) ==
    LET T == S \cup UNION {ToSet(Out(f, b)) : b \in S \cap scope} IN IF T = S THEN S ELSE Closure(f, scope, T)

Reaches(f, a, b, scope) == b \in Closure(f, scope, {a})

(* Two searches take turns; the first block that one takes from its queue and
   the other has met is the merge point. *)
RECURSIVE MeetInTurn(_, _, _, _, _, _)
MeetInTurn(f, a, b, scope, x, y) ==
    LET Met(p, q) == p.queue # <<>> /\ Head(p.queue) \in q.met \ {a, b}
        Expand(p) ==
            IF p.queue = <<>> THEN p
            ELSE LET new == IF Head(p.queue) \in scope
                            THEN SelectSeq(Out(f, Head(p.queue)), LAMBDA t : t \notin p.met) ELSE <<>>
                 IN  [met |-> p.met \cup ToSet(new), queue |-> Tail(p.queue) \o new]
        x2 == Expand(x)
    IN  IF Met(x, y) /\ Head(x.queue) \in scope THEN Head(x.queue)
        ELSE IF Met(y, x2) THEN Head(y.queue)
        ELSE IF x2.queue = <<>> /\ Expand(y).queue = <<>> THEN None
        ELSE MeetInTurn(f, a, b, scope, x2, Expand(y))

(* Where the two ways of a branch join again. *)
MergePoint(f, a, b, scope) ==
    LET ab == Reaches(f, a, b, scope)
        ba == Reaches(f, b, a, scope)
        start(t) == [met |-> {t}, queue |-> <<t>>]
    IN  IF a = b THEN a
        ELSE IF ab /\ ~ba THEN IF b \in scope THEN b ELSE None
        ELSE IF ba /\ ~ab THEN IF a \in scope THEN a ELSE None
        ELSE MeetInTurn(f, a, b, scope, start(a), start(b))

(* The blocks of a set, breadth first from one of them, the others behind. *)
RECURSIVE BreadthFirst(_, _, _, _)
BreadthFirst(f, S, queue, out) ==
    IF queue = <<>> THEN out \o Sorted(f, S \ ToSet(out))
    ELSE LET b == Head(queue) IN
         IF b \notin S \/ b \in ToSet(out) THEN BreadthFirst(f, S, Tail(queue), out)
         ELSE BreadthFirst(f, S, Tail(queue) \o Out(f, b), Append(out, b))

-----------------------------------------------------------------------------
(***************************************************************************)
(* Loops                                                                   *)
(***************************************************************************)
(* The blocks from which the latch is reached without passing the header. *)
RECURSIVE NaturalLoop(_, _, _)
NaturalLoop(f, h, S) ==
    LET T == S \cup UNION {Into(f, b) : b \in S \ {h}} IN IF T = S THEN S ELSE NaturalLoop(f, h, T)

PreHeader(f, h, body) ==
    FirstOf(SelectSeq(Sorted(f, Into(f, h) \ (body \cup {h})),
                      LAMBDA b : \E i \in ToSet(Body(f, b)) : i.op \in {"copy", "add", "sub"}))

Classify(f, h, latch, body) ==
    LET tested == EndOf(f, latch).op = "cbr" IN
    IF EndOf(f, h).op = "br" /\ tested THEN "do"
    ELSE IF /\ tested
            /\ PreHeader(f, h, body) # None
            /\ \E i \in ToSet(Body(f, latch)) : i.op \in {"add", "sub"} THEN "for"
    ELSE "while"

(* Every edge to a dominator closes a loop; a header's first one says what
   kind of loop it is, the others only widen the body. *)
Loops(f, idom) ==
    LET edges == FlattenSeq([b \in Blocks(f) |->
                    LET back == SelectSeq(Out(f, b), LAMBDA h : DominatesIn(idom, h, b))
                    IN  [k \in DOMAIN back |-> <<b, back[k]>>]])
        add(loops, e) ==
            LET h    == e[2]
                body == NaturalLoop(f, h, {e[1], h})
                kind == Classify(f, h, e[1], body)
            IN  IF h \in DOMAIN loops THEN [loops EXCEPT ![h].body = @ \cup body]
                ELSE (h :> [latch |-> e[1], body |-> body, kind |-> kind,
                            pre |-> IF kind = "for" THEN PreHeader(f, h, body) ELSE None]) @@ loops
    IN  FoldLeft(add, <<>>, edges)

(* The first way out of a loop: of the header, of the latch, of the others. *)
LoopExit(g, h) ==
    LET body == g.loops[h].body IN
    FirstOf(SelectSeq(Out(g.f, h) \o Out(g.f, g.loops[h].latch)
                          \o FoldLeft(LAMBDA s, b : s \o Out(g.f, b), <<>>, Sorted(g.f, body)),
                      LAMBDA t : t \notin body))

-----------------------------------------------------------------------------
(***************************************************************************)
(* Switches                                                                *)
(***************************************************************************)
Comparisons == {"eq", "ne", "ltu"}

(* The first comparison of a variable with a constant that defines cond:
   << variable, constant, does the true edge mean equal >>. *)
Compared(f, cond) ==
    LET all   == FlattenSeq(f.insts)
        IsVar(a) == a[1] \notin Regs \cup {Lit}
        found == SelectSeq(all, LAMBDA i : /\ i.op \in Comparisons /\ i.dst = cond /\ IsVar(cond)
                                           /\ \/ IsVar(i.args[1]) /\ i.args[2][1] = Lit
                                              \/ IsVar(i.args[2]) /\ i.args[1][1] = Lit)
    IN  IF found = <<>> THEN None
        ELSE LET i == found[1]
                 k == IF i.args[1][1] = Lit THEN 1 ELSE 2
             IN  <<i.args[3 - k], i.args[k][2], i.op = "eq">>

CaseTarget(f, b) == LET e == EndOf(f, b) IN IF Compared(f, e.args[1])[3] THEN e.to[1] ELSE e.to[2]
OtherTarget(f, b) == LET e == EndOf(f, b) IN IF Compared(f, e.args[1])[3] THEN e.to[2] ELSE e.to[1]

TestsVar(f, b, v) ==
    LET e == EndOf(f, b) IN e.op = "cbr" /\ Compared(f, e.args[1]) # None /\ Compared(f, e.args[1])[1] = v

(* Comparisons of one variable, each reached from the one before only. *)
RECURSIVE Chain(_, _, _, _, _)
Chain(f, v, b, cases, left) ==
    LET more == (Compared(f, EndOf(f, b).args[1])[2] :> CaseTarget(f, b)) @@ cases
        next == OtherTarget(f, b)
    IN  IF left > 0 /\ Cardinality(Into(f, next)) = 1 /\ TestsVar(f, next, v)
        THEN Chain(f, v, next, more, left - 1)
        ELSE [on |-> v, cases |-> more, default |-> IF left > 1 THEN next ELSE None]

NoSwitch == [on |-> None, cases |-> <<>>, default |-> None]

ChainSwitch(f, b) ==
    LET e == EndOf(f, b) IN
    IF e.op # "cbr" \/ Compared(f, e.args[1]) = None THEN NoSwitch
    ELSE LET sw == Chain(f, Compared(f, e.args[1])[1], b, <<>>, MaxChain)
         IN  IF Cardinality(DOMAIN sw.cases) >= 3 THEN sw ELSE NoSwitch

TableSwitch(f, b) ==
    LET loads == SelectSeq(Body(f, b), LAMBDA i : i.op = "load" /\ i.args[1][1] \notin Regs \cup {Lit})
        v     == Last(loads).args[1]
        tests == SelectSeq(Sorted(f, Into(f, b)), LAMBDA p : TestsVar(f, p, v))
        add(cases, p) == (Compared(f, EndOf(f, p).args[1])[2] :> CaseTarget(f, p)) @@ cases
    IN  IF loads = <<>> \/ tests = <<>> THEN NoSwitch
        ELSE [on |-> v, cases |-> FoldLeft(add, <<>>, tests), default |-> None]

SwitchOf(f, b) ==
    LET e == EndOf(f, b) IN
    CASE e.op = "switch" ->
            [on |-> e.args[1], cases |-> [n \in 0 .. Len(e.to) - 2 |-> e.to[n + 1]], default |-> Last(e.to)]
      [] e.op = "ijmp" -> TableSwitch(f, b)
      [] OTHER -> ChainSwitch(f, b)

Switches(f) ==
    LET found(b) == SwitchOf(f, b)
    IN  [b \in {a \in Blocks(f) : found(a) # NoSwitch} |-> found(b)]

Graph(f) ==
    LET idom == Dominators(f)
    IN  [f |-> f, idom |-> idom, loops |-> Loops(f, idom), switches |-> Switches(f)]

-----------------------------------------------------------------------------
(***************************************************************************)
(* Regions.  c is the context of one pass over the function:               *)
(*   visited     blocks that have been taken up                            *)
(*   emitted     blocks whose instructions a break arm has already written *)
(*   duplicated  blocks written a second time in place of a goto           *)
(*   inline      the block that may be taken up again right now            *)
(*   gotos       blocks some goto leads to                                 *)
(* l is the header of the innermost loop, or None; bounds are the blocks   *)
(* where the region ends.  The result is the context and the statements.   *)
(***************************************************************************)
Result(c, out)  == [ctx |-> c, out |-> out]
Visit(c, b)     == [c EXCEPT !.visited = @ \cup {b}]
GotoTo(c, out, b) == Result([c EXCEPT !.gotos = @ \cup {b}], Append(out, Jump(b)))

EndsWithJump(out) == out # <<>> /\ Last(out).s \in {"break", "continue", "goto", "return"}

RECURSIVE TrimContinue(_)
TrimContinue(out) == IF out # <<>> /\ Last(out) = Continue THEN TrimContinue(Front(out)) ELSE out

BodyOf(g, l)  == g.loops[l].body
ScopeOf(g, l) == IF l = None THEN Blocks(g.f) ELSE BodyOf(g, l)

(* A jump to b is a continue of the loop. *)
Continues(g, l, b) == l # None /\ b = l /\ g.loops[l].kind # "do"

BackEdge(g, from, to) == from # to /\ DominatesIn(g.idom, to, from)

CondOf(f, b) == Var(EndOf(f, b).args[1])

(* Mutant: the test of a loop whose body is on the false edge is not negated. *)
LoopTest_NoNot(g, h) == IF EndOf(g.f, h).op = "cbr" THEN CondOf(g.f, h) ELSE True

(* A loop goes on while its test leads into the body. *)
LoopTest(g, h) ==
    LET e == EndOf(g.f, h) IN
    IF e.op # "cbr" THEN True
    ELSE IF e.to[2] \in BodyOf(g, h) /\ e.to[1] \notin BodyOf(g, h) THEN Not(CondOf(g.f, h)) ELSE CondOf(g.f, h)

MayCopy(g, c, b) ==
    /\ b \in Blocks(g.f) \ (c.duplicated \cup c.gotos)
    /\ b \notin DOMAIN g.loops \cup DOMAIN g.switches
    /\ Len(Body(g.f, b)) <= 2

CopiesReturn(g, c, b) == MayCopy(g, c, b) /\ EndOf(g.f, b).op = "ret"

(* A visited block of one or two instructions is written out once more when
   there is a way on from it. *)
Inlines(g, c, b) ==
    LET e == EndOf(g.f, b) IN
    /\ MayCopy(g, c, b) /\ Body(g.f, b) # <<>>
    /\ \/ e.op = "ret"
       \/ e.op = "br" /\ (e.to[1] \notin c.visited \/ CopiesReturn(g, c, e.to[1]))
       \/ e.op = "cbr" /\ ~(ToSet(e.to) \subseteq c.visited)

(* inner does nothing but test for itself, on the way from from only, and one
   of its ways is the other way of from. *)
Foldable(g, l, bounds, c, from, inner, other) ==
    /\ inner \in Blocks(g.f) \ (bounds \cup c.visited \cup {other})
    /\ inner \notin DOMAIN g.loops \cup DOMAIN g.switches
    /\ l # None => {inner, other} \subseteq BodyOf(g, l)
    /\ Body(g.f, inner) = <<>> /\ Into(g.f, inner) = {from}
    /\ EndOf(g.f, inner).op = "cbr" /\ other \in ToSet(EndOf(g.f, inner).to)

(* b with a test behind one of its ways: a && b on the true edge, a || b on
   the false edge. *)
Folded(g, c, b, inner, other, isAnd) ==
    LET e   == EndOf(g.f, inner)
        neg == other = e.to[IF isAnd THEN 1 ELSE 2]
        y   == IF neg THEN Not(CondOf(g.f, inner)) ELSE CondOf(g.f, inner)
    IN  [cond |-> IF isAnd THEN And(CondOf(g.f, b), y) ELSE Or(CondOf(g.f, b), y),
         yes |-> e.to[IF e.to[1] = other THEN 2 ELSE 1], no |-> other, ctx |-> Visit(c, inner)]

(* The condition of a branch and its two targets. *)
FoldShortCircuit(g, l, bounds, c, b) ==
    LET to == EndOf(g.f, b).to
    IN  IF Foldable(g, l, bounds, c, b, to[1], to[2]) THEN Folded(g, c, b, to[1], to[2], TRUE)
        ELSE IF Foldable(g, l, bounds, c, b, to[2], to[1]) THEN Folded(g, c, b, to[2], to[1], FALSE)
        ELSE [cond |-> CondOf(g.f, b), yes |-> to[1], no |-> to[2], ctx |-> c]

(* One part after the other: the context of the last, the statements of each. *)
Collect(r, s) == [ctx |-> s.ctx, outs |-> Append(r.outs, s.out)]
NoParts(c)    == [ctx |-> c, outs |-> <<>>]

RECURSIVE Region(_, _, _, _, _, _)

(* A block that has been taken up before. *)
Revisit(g, b, l, c, bounds, out) ==
    IF Continues(g, l, b) THEN Result(c, Append(out, Continue))
    ELSE IF l # None /\ LoopExit(g, l) = b THEN Result(c, Append(out, Break))
    ELSE IF Inlines(g, c, b)
         THEN Region(g, b, l, [c EXCEPT !.duplicated = @ \cup {b}, !.inline = @ \cup {b}], bounds, out)
    ELSE IF CopiesReturn(g, c, b)
         THEN Result([c EXCEPT !.duplicated = @ \cup {b}],
                     Append(out \o Stmts(g.f, b), Return(EndOf(g.f, b))))
    ELSE GotoTo(c, out, b)

(* The way out of loop l to t.  When it ends just before the block behind the
   loop, the instructions of that block are written here. *)
BreakArmEnd(g, t, l, exit, arm) ==
    IF EndsWithJump(arm.out) THEN arm
    ELSE IF exit \notin arm.ctx.emitted /\ Reaches(g.f, t, exit, BodyOf(g, l) \cup {exit, t})
    THEN Result([arm.ctx EXCEPT !.emitted = @ \cup {exit}], Append(arm.out \o Stmts(g.f, exit), Break))
    ELSE Result(arm.ctx, Append(arm.out, Break))

BreakArm(g, t, l, c, bounds) ==
    IF LoopExit(g, l) = t \/ t \in c.visited THEN Result(c, <<Break>>)
    ELSE BreakArmEnd(g, t, l, LoopExit(g, l),
                     Region(g, t, l, c, bounds \cup (Blocks(g.f) \ (BodyOf(g, l) \cup {t})), <<>>))

(* A branch out of loop l: both ways leave it, or the region goes on along
   the one that does not.  r holds the ways out. *)
LeaveLoop(g, t, l, bounds, out, r) ==
    LET yesStays == t.yes \in BodyOf(g, l) IN
    IF Len(r.outs) = 2
    THEN Result(r.ctx, Append(out, IF r.outs = <<<<Break>>, <<Break>>>> THEN Break
                                   ELSE If(t.cond, r.outs[1], r.outs[2])))
    ELSE Region(g, IF yesStays THEN t.yes ELSE t.no, l, r.ctx, bounds,
                Append(out, If(IF yesStays THEN Not(t.cond) ELSE t.cond, r.outs[1], <<>>)))

(* The ways of a branch, r, up to the point where they meet. *)
JoinWays(g, b, t, l, bounds, out, merge, r) ==
    LET more == Append(out, If(t.cond, r.outs[1], r.outs[2])) IN
    IF r.outs = <<<<Continue>>, <<Continue>>>> THEN Result(r.ctx, Append(out, Continue))
    ELSE IF merge \in {None, b} \cup r.ctx.visited THEN Result(r.ctx, more)
    ELSE Region(g, merge, l, r.ctx, bounds, more)

BothWays(g, b, t, l, bounds, out, merge) ==
    JoinWays(g, b, t, l, bounds, out, merge,
             FoldLeft(LAMBDA r, x : Collect(r, Region(g, x, l, r.ctx, bounds \cup ({merge} \ {None}), <<>>)),
                      NoParts(t.ctx), <<t.yes, t.no>>))

Branch(g, b, l, bounds, out, t) ==
    IF l # None /\ g.loops[l].kind = "do" /\ g.loops[l].latch = b THEN Result(t.ctx, out)
    ELSE IF l # None /\ ~({t.yes, t.no} \subseteq BodyOf(g, l))
    THEN LeaveLoop(g, t, l, bounds, out,
                   FoldLeft(LAMBDA r, x : Collect(r, BreakArm(g, x, l, r.ctx, bounds)), NoParts(t.ctx),
                            SelectSeq(<<t.yes, t.no>>, LAMBDA x : x \notin BodyOf(g, l))))
    ELSE BothWays(g, b, t, l, bounds, out, MergePoint(g.f, t.yes, t.no, ScopeOf(g, l)))

PlainBlock(g, b, l, c, bounds, out) ==
    LET d    == [Visit(c, b) EXCEPT !.emitted = @ \ {b}]
        more == IF b \in c.emitted THEN out ELSE out \o Stmts(g.f, b)
        e    == EndOf(g.f, b)
    IN  CASE e.op = "br" ->
               IF ~BackEdge(g, b, e.to[1]) THEN Region(g, e.to[1], l, d, bounds, more)
               ELSE IF Continues(g, l, e.to[1]) THEN Result(d, Append(more, Continue))
               ELSE GotoTo(d, more, e.to[1])
          [] e.op = "cbr"  -> Branch(g, b, l, bounds, more, FoldShortCircuit(g, l, bounds, d, b))
          [] e.op = "ret"  -> Result(d, Append(more, Return(e)))
          [] e.op = "ijmp" -> Result(d, Append(more, Do(e)))
          [] OTHER -> Result(d, more)

(* The blocks of a loop that are not taken up yet; the latch of a do loop
   leaves its test to the loop. *)
LoopBody(g, h, c) ==
    LET add(r, b) ==
            IF b \in r.ctx.visited THEN r
            ELSE Collect(r, IF b = g.loops[h].latch /\ g.loops[h].kind = "do"
                            THEN Result(Visit(r.ctx, b), Stmts(g.f, b))
                            ELSE Region(g, b, h, r.ctx, {}, <<>>))
    IN  FoldLeft(add, NoParts(c), BreadthFirst(g.f, BodyOf(g, h), <<h>>, <<>>))

(* The instructions of a while loop's header are computed once before the
   first test and again at the top of every round. *)
LoopStmts(g, h, early, body) ==
    LET loop  == g.loops[h]
        pure  == \A i \in ToSet(Body(g.f, h)) : i.op \notin {"call", "store"}
        e     == EndOf(g.f, loop.latch)
        again == IF e.to[1] # h /\ e.to[2] = h THEN Not(CondOf(g.f, loop.latch)) ELSE CondOf(g.f, loop.latch)
    IN  CASE loop.kind = "while" -> Append(IF pure THEN Stmts(g.f, h) ELSE <<>>, While(LoopTest(g, h), body))
          [] loop.kind = "do"    -> <<DoWhile(body, again)>>
          [] loop.kind = "for"   -> <<For(IF early THEN Stmts(g.f, loop.pre) ELSE <<>>, LoopTest(g, h),
                                          Stmts(g.f, loop.latch), body)>>

LoopEnd(g, h, early, r) ==
    [ctx  |-> r.ctx,
     out  |-> LoopStmts(g, h, early, TrimContinue(Stmts(g.f, h) \o FlattenSeq(r.outs))),
     next |-> FirstOf(SelectSeq(<<LoopExit(g, h)>>, LAMBDA b : b \notin r.ctx.visited))]

StructureLoop(g, h, c) ==
    LET loop  == g.loops[h]
        early == loop.kind = "for" /\ loop.pre \notin c.visited
    IN  LoopEnd(g, h, early, LoopBody(g, h, Visit(IF early THEN Visit(c, loop.pre) ELSE c, h)))

SwitchTargets(sw) == Range(sw.cases) \cup ({sw.default} \ {None})

(* The first block in number that all the cases lead to. *)
SwitchJoin(g, b, targets) ==
    FirstOf(Sorted(g.f, {x \in Blocks(g.f) \ (targets \cup {b}) :
                            targets # {} /\ \A t \in targets : Reaches(g.f, t, x, Blocks(g.f))}))

(* Each target is written at its first case; the cases behind it that share
   it are left empty. *)
SwitchArms(g, b, l, c, ends) ==
    LET sw == g.switches[b]
        add(acc, t) ==
            IF t \in acc.done THEN Collect(acc, Result(acc.ctx, <<>>)) @@ acc
            ELSE [done |-> acc.done \cup {t}] @@ Collect(acc, Region(g, t, l, acc.ctx, ends \ {t}, <<>>))
        values == SetToSortSeq(DOMAIN sw.cases, <)
    IN  FoldLeft(add, [done |-> {}] @@ NoParts(Visit(c, b)),
                 [k \in DOMAIN values |-> sw.cases[values[k]]]
                     \o (IF sw.default = None THEN <<>> ELSE <<sw.default>>))

SwitchEnd(g, b, join, r) ==
    LET sw     == g.switches[b]
        values == SetToSortSeq(DOMAIN sw.cases, <)
        shared(k) == \E j \in 1 .. k - 1 : sw.cases[values[j]] = sw.cases[values[k]]
        fresh  == SelectSeq(<<join, sw.default>>, LAMBDA t : t # None)
                  \o SelectSeq(Out(g.f, b), LAMBDA t : t \notin SwitchTargets(sw))
    IN  [ctx  |-> r.ctx,
         out  |-> <<SwitchOn(sw.on,
                        [k \in DOMAIN values |-> [value |-> values[k], body |-> r.outs[k],
                                                  falls |-> shared(k) \/ ~EndsWithJump(r.outs[k])]],
                        IF sw.default = None THEN <<>> ELSE Last(r.outs))>>,
         next |-> FirstOf(SelectSeq(fresh, LAMBDA t : t \notin r.ctx.visited))]

StructureSwitch(g, b, l, c, bounds, join) ==
    SwitchEnd(g, b, join,
              SwitchArms(g, b, l, c, bounds \cup SwitchTargets(g.switches[b]) \cup ({join} \ {None})))

(* The region goes on behind a loop or a switch. *)
GoOn(g, l, bounds, out, r) ==
    IF r.next = None THEN Result(r.ctx, out \o r.out)
    ELSE Region(g, r.next, l, r.ctx, bounds, out \o r.out)

TakeUp(g, b, l, c, bounds, out) ==
    IF b \in DOMAIN g.loops THEN GoOn(g, l, bounds, out, StructureLoop(g, b, c))
    ELSE IF b \in DOMAIN g.switches
    THEN GoOn(g, l, bounds, out,
              StructureSwitch(g, b, l, c, bounds, SwitchJoin(g, b, SwitchTargets(g.switches[b]))))
    ELSE PlainBlock(g, b, l, c, bounds, out)

Region(g, b, l, c, bounds, out) ==
    IF b \in bounds THEN Result(c, out)
    ELSE IF b \in c.visited \ c.inline THEN Revisit(g, b, l, c, bounds, out)
    ELSE TakeUp(g, b, l, [c EXCEPT !.inline = @ \ {b}], bounds,
                IF b \in c.gotos THEN Append(out, Label(b)) ELSE out)

(* One pass over the function, given where gotos lead. *)
Traverse(g, gotos) ==
    Region(g, 1, None, [visited |-> {}, emitted |-> {}, duplicated |-> {}, inline |-> {}, gotos |-> gotos], {}, <<>>)

(* Mutant: the tree of the first pass, which labels only what a goto had led to
   before, is taken. *)
Structured_OnePass(g) == Traverse(g, {}).out

(* A pass that only finds where gotos lead, and one that writes. *)
Structured(g) == Traverse(g, Traverse(g, {}).ctx.gotos).out

-----------------------------------------------------------------------------
(***************************************************************************)
(* Execution of the C text, from one observation to the next.  What is     *)
(* left to do is a stack of frames, innermost first: the statements of a   *)
(* frame, whether a loop or a switch put it there, and what is left of the *)
(* frame below it after a break.                                           *)
(***************************************************************************)
Frame(rest, of, after) == [rest |-> rest, of |-> of, after |-> after]
Plainly(rest)          == Frame(rest, "block", <<>>)

(* What follows a round of a loop: its update and its test. *)
NextRound(s) ==
    CASE s.s \in {"while", "again"} -> <<s>>
      [] s.s = "do"  -> <<[s EXCEPT !.s = "again"]>>
      [] s.s = "for" -> Append(s.update, [s EXCEPT !.init = <<>>])

(* A case falls into the next one unless a break is printed behind it. *)
CaseCode(s, k) ==
    FlattenSeq([j \in 1 .. Len(s.cases) - k + 1 |->
                   LET case == s.cases[j + k - 1] IN IF case.falls THEN case.body ELSE Append(case.body, Break)])
    \o s.default

CaseStart(s, n) ==
    IF \E k \in DOMAIN s.cases : s.cases[k].value = n
    THEN CHOOSE k \in DOMAIN s.cases : s.cases[k].value = n
    ELSE Len(s.cases) + 1

(* The frames with which execution goes on behind the label of block b. *)
RECURSIVE FindLabel(_, _)
FindLabel(stmts, b) ==
    LET Inside(k) ==
            LET s     == stmts[k]
                rest  == SubSeq(stmts, k + 1, Len(stmts))
                As(frames, of, below) ==
                    IF frames = <<>> THEN <<>>
                    ELSE Front(frames) \o <<Frame(Last(frames).rest, of, rest), Plainly(below)>>
            IN  CASE s = Label(b)   -> <<Plainly(rest)>>
                  [] s.s = "if"     -> As(FindLabel(s.then, b) \o FindLabel(s.else, b), "block", rest)
                  [] s.s \in {"while", "do", "for"} -> As(FindLabel(s.body, b), "loop", NextRound(s) \o rest)
                  [] s.s = "switch" -> As(FindLabel(CaseCode(s, 1), b), "switch", rest)
                  [] OTHER -> <<>>
        found == SelectSeq([k \in DOMAIN stmts |-> Inside(k)], LAMBDA frames : frames # <<>>)
    IN  IF found = <<>> THEN <<>> ELSE found[1]

RECURSIVE Holds(_, _)
Holds(e, x) ==
    CASE x.c = "true" -> TRUE
      [] x.c = "var"  -> Value(e, x.v) # 0
      [] x.c = "not"  -> ~Holds(e, x.of)
      [] x.c = "and"  -> Holds(e, x.l) /\ Holds(e, x.r)
      [] x.c = "or"   -> Holds(e, x.l) \/ Holds(e, x.r)

(* The stack without the frames above the innermost one of these. *)
RECURSIVE Unwind(_, _)
Unwind(frames, kinds) == IF frames[1].of \in kinds THEN frames ELSE Unwind(Tail(frames), kinds)

(* The stack after a statement that only directs control. *)
Direct(frames, e, tree) ==
    LET s       == Head(frames[1].rest)
        rest    == Tail(frames[1].rest)
        Below(r) == [frames EXCEPT ![1].rest = r]
        Enter(code, of, below) == <<Frame(code, of, rest)>> \o Below(below)
        loop    == Unwind(frames, {"loop"})
        inner   == Unwind(frames, {"loop", "switch"})
    IN  CASE s.s = "label"    -> Below(rest)
          [] s.s = "goto"     -> FindLabel(tree, s.to)
          [] s.s = "break"    -> [Tail(inner) EXCEPT ![1].rest = inner[1].after]
          [] s.s = "continue" -> Tail(loop)
          [] s.s = "if"       -> Enter(IF Holds(e, s.cond) THEN s.then ELSE s.else, "block", rest)
          [] s.s = "switch"   -> Enter(CaseCode(s, CaseStart(s, Value(e, s.on))), "switch", rest)
          [] s.s = "do"       -> Enter(s.body, "loop", NextRound(s) \o rest)
          [] s.s = "for" /\ s.init # <<>> -> Below(s.init \o <<[s EXCEPT !.init = <<>>]>> \o rest)
          [] OTHER -> IF Holds(e, s.cond) THEN Enter(s.body, "loop", NextRound(s) \o rest) ELSE Below(rest)

Observable  == ReadOps \cup {"store", "ret", "ijmp"}
Values(e, i) == [k \in DOMAIN i.args |-> Value(e, i.args[k])]

(* Up to the next observation, the end, or the end of patience. *)
RECURSIVE RunText(_, _, _, _)
RunText(frames, e, tree, fuel) ==
    LET rest == frames[1].rest
        s    == Head(rest)
        next == [frames EXCEPT ![1].rest = Tail(rest)]
    IN  IF fuel = 0 THEN [what |-> <<"silent">>, dst |-> NoDst, spot |-> frames, env |-> e]
        ELSE IF frames = <<>> THEN [what |-> <<"end">>, dst |-> NoDst, spot |-> frames, env |-> e]
        ELSE IF rest = <<>> THEN RunText(Tail(frames), e, tree, fuel)
        ELSE IF s.s \notin {"inst", "return"} THEN RunText(Direct(frames, e, tree), e, tree, fuel - 1)
        ELSE IF s.inst.op \in Observable
             THEN [what |-> <<s.inst.op, Values(e, s.inst)>>, dst |-> s.inst.dst, spot |-> next, env |-> e]
        ELSE RunText(next, (s.inst.dst :> Compute(s.inst.op, Values(e, s.inst))) @@ e, tree, fuel - 1)

RECURSIVE RunCode(_, _, _, _)
RunCode(f, spotAt, e, fuel) ==
    LET b == spotAt[1]
        i == f.insts[b][spotAt[2]]
        next == <<b, spotAt[2] + 1>>
    IN  IF fuel = 0 THEN [what |-> <<"silent">>, dst |-> NoDst, spot |-> spotAt, env |-> e]
        ELSE IF b = None THEN [what |-> <<"end">>, dst |-> NoDst, spot |-> spotAt, env |-> e]
        ELSE IF spotAt[2] > Len(f.insts[b]) THEN RunCode(f, <<Goto(f, b, e), 1>>, e, fuel - 1)
        ELSE IF i.op \in Observable
             THEN [what |-> <<i.op, Values(e, i)>>, dst |-> i.dst, spot |-> next, env |-> e]
        ELSE IF i.op \in PureOps
             THEN RunCode(f, next, (i.dst :> Compute(i.op, Values(e, i))) @@ e, fuel - 1)
        ELSE RunCode(f, next, e, fuel - 1)

-----------------------------------------------------------------------------
(***************************************************************************)
(* The rest of the pipeline                                                *)
(***************************************************************************)
InitTree == Init /\ text = <<>> /\ spot = None /\ heard = <<None, None>>

Structure(from) ==
    /\ phase = from /\ at = None /\ env = <<>>
    /\ phase' = "structured"
    /\ text' = Structured(Graph(fn))
    /\ UNCHANGED <<ir, fn, reused, at, env, outEnv, seen, spot, heard>>

(* The C text is run when the function can be. *)
StartBoth ==
    /\ phase = "structured" /\ env = <<>>
    /\ \A b \in Blocks(fn) : /\ Succs(fn, b) \subseteq Blocks(fn)
                             /\ \A k \in DOMAIN fn.insts[b] : fn.insts[b][k].op \in Terminators => k = Len(fn.insts[b])
    /\ \E e \in [Uses(ir) -> Inputs] : env' = Entered(e) /\ outEnv' = Entered(e)
    /\ spot' = [code |-> <<1, 1>>, text |-> <<Plainly(text)>>]
    /\ UNCHANGED <<ir, fn, phase, reused, at, seen, text, heard>>

RunBoth ==
    /\ phase = "structured" /\ spot # None
    /\ LET x == RunCode(fn, spot.code, env, Fuel)
           y == RunText(spot.text, outEnv, text, Fuel)
           Given(e, dst, r) == IF dst = NoDst THEN e ELSE (dst :> r) @@ e
       IN  /\ \E r \in IF x.dst = NoDst THEN {Undef} ELSE Inputs :
                 env' = Given(x.env, x.dst, r) /\ outEnv' = Given(y.env, y.dst, r)
           /\ heard' = <<x.what, y.what>>
           /\ spot' = IF x.what = y.what /\ x.what[1] \in ReadOps \cup {"store"}
                      THEN [code |-> x.spot, text |-> y.spot] ELSE None
    /\ UNCHANGED <<ir, fn, phase, reused, at, seen, text>>

NextTree ==
    \/ Next /\ UNCHANGED treeVars
    \/ \E from \in {"ir", "lowered", "refused"} : Structure(from)
    \/ StartBoth
    \/ RunBoth

SpecTree == InitTree /\ [][NextTree]_decompiler

-----------------------------------------------------------------------------
(***************************************************************************)
(* Properties                                                              *)
(***************************************************************************)
RECURSIVE Parts(_)
Parts(stmts) ==
    FlattenSeq([k \in DOMAIN stmts |->
        LET s == stmts[k] IN
        <<s>> \o (CASE s.s = "if" -> Parts(s.then) \o Parts(s.else)
                    [] s.s \in {"while", "do"} -> Parts(s.body)
                    [] s.s = "for" -> Parts(s.init) \o Parts(s.update) \o Parts(s.body)
                    [] s.s = "switch" -> Parts(CaseCode(s, 1))
                    [] OTHER -> <<>>)])

(* No text is missing: every goto leads to exactly one label, and whatever a
   reachable block does for others to see stands in the tree.  Left out are the
   latches of do loops, whose labels nobody writes, and functions with
   switches, whose dispatching blocks leave nothing but the switch. *)
DoLatches(g) == {g.loops[h].latch : h \in {x \in DOMAIN g.loops : g.loops[x].kind = "do"}}

GotosLand(latches) ==
    \A s \in ToSet(Parts(text)) : s.s = "goto" /\ s.to \notin latches =>
        Len(SelectSeq(Parts(text), LAMBDA t : t = Label(s.to))) = 1

EffectsWritten ==
    \A b \in Closure(fn, Blocks(fn), {1}) : \A i \in ToSet(fn.insts[b]) :
        i.op \in Observable => \E s \in ToSet(Parts(text)) : s.s \in {"inst", "return"} /\ s.inst = i

TreeComplete ==
    phase = "structured" /\ env = <<>> =>
        LET g == Graph(fn) IN
        /\ GotosLand(DoLatches(g))
        /\ g.switches = <<>> => EffectsWritten

(* The C text loads, calls, stores and returns as the function does, which is
   what the structurer's comments say of each of its rewritings; see the
   findings. *)
SameTrace == heard[1] = heard[2]

(* What is left of a graph when blocks are taken into the one before them:
   the only way on, an arm that ends or meets the other way, one of two arms
   that meet. *)
RECURSIVE Shrink(_)
Shrink(succ) ==
    LET before(b) == {a \in DOMAIN succ : b \in succ[a]}
        IsArm(a, b) ==
            /\ b \notin {1, a} /\ before(b) = {a}
            /\ \/ succ[a] = {b}
               \/ \E x \in succ[a] \ {b} :
                     succ[b] \subseteq {x} \/ (before(x) = {a} /\ succ[x] = succ[b] /\ Cardinality(succ[b]) = 1)
        arms == {p \in (DOMAIN succ) \X (DOMAIN succ) : IsArm(p[1], p[2])}
    IN  IF arms = {} THEN succ
        ELSE LET p == CHOOSE q \in arms : TRUE
             IN  Shrink([a \in (DOMAIN succ) \ {p[2]} |->
                            IF a = p[1] THEN (succ[a] \ {p[2]}) \cup succ[p[2]] ELSE succ[a]])

(* The innermost loop around a block. *)
LoopAround(g, b) ==
    LET around == {h \in DOMAIN g.loops : b \in BodyOf(g, h)}
    IN  IF around = {} THEN None ELSE CHOOSE h \in around : \A x \in around : BodyOf(g, h) \subseteq BodyOf(g, x)

(* Nothing is left but the entry when a continue and a break end their arms
   and the block behind a loop follows on its header. *)
WellNested(g) ==
    LET ways(b) ==
            LET l == LoopAround(g, b) IN
            IF l = None THEN Succs(g.f, b)
            ELSE (Succs(g.f, b) \ {l, LoopExit(g, l)}) \cup (IF b = l THEN {LoopExit(g, l)} \ {None} ELSE {})
    IN  DOMAIN Shrink([b \in Blocks(g.f) |-> ways(b)]) = {1}

(* A do loop whose latch is no header, or a while loop that comes back without
   a test, whose header, when it tests, does nothing else and may leave.  Its
   other ways out never come to what is behind its exit. *)
PlainLoop(g, h) ==
    LET loop == g.loops[h]
        exit == LoopExit(g, h)
        out  == UNION {Succs(g.f, b) : b \in loop.body} \ (loop.body \cup {exit})
    IN
    /\ Closure(g.f, Blocks(g.f), out) \cap Closure(g.f, Blocks(g.f), {exit}) = {}
    /\ Cardinality({b \in Into(g.f, h) : DominatesIn(g.idom, h, b)}) = 1
    /\ \/ loop.kind = "do" /\ loop.latch \notin DOMAIN g.loops
       \/ /\ loop.kind = "while" /\ EndOf(g.f, loop.latch).op = "br"
          /\ EndOf(g.f, h).op = "cbr" => Body(g.f, h) = <<>> /\ ~(Succs(g.f, h) \subseteq loop.body)

(* A test behind the false edge of b that FoldShortCircuit would make part of
   it. *)
OrFolds(f, b) ==
    LET to == EndOf(f, b).to IN
    EndOf(f, b).op = "cbr" /\ Body(f, to[2]) = <<>> /\ EndOf(f, to[2]).op = "cbr" /\ to[1] \in Succs(f, to[2])

PlainSwitch(g, b) ==
    LET cases == g.switches[b].cases IN
    /\ EndOf(g.f, b).op = "switch" /\ Body(g.f, b) = <<>>
    /\ Cardinality(Range(cases) \cup {g.switches[b].default}) = Cardinality(DOMAIN cases) + 1
    /\ \A t \in Range(cases) : EndOf(g.f, t).op = "ret"

IsPlain(g) ==
    /\ \A h \in DOMAIN g.loops : PlainLoop(g, h)
    /\ WellNested(g)
    /\ \A b \in Blocks(g.f) : ~OrFolds(g.f, b)
    /\ \A b \in DOMAIN g.switches : PlainSwitch(g, b)

(* It does for functions of nested conditionals, while and do loops and
   switches whose cases return, whatever their blocks do and in whichever order
   they are numbered: every block runs as often and in the order it did. *)
PlainCodeKept == SameTrace \/ ~IsPlain(Graph(fn))
=============================================================================
