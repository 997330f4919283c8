------------------------------- MODULE MCSccp -------------------------------
(***************************************************************************)
(* SSA functions for the runs of Sccp and SccpExec, in the shape to_ssa    *)
(* and remove_trivial_phis leave them (not pruned: a variable defined in a *)
(* loop or an arm gets a phi at the join even if nothing reads it).  The   *)
(* variables are `a' (a0 is its value on entry), `c' and `d' for tests and *)
(* `y' for results.  Each family fixes a control-flow graph and varies the *)
(* instructions.                                                           *)
(***************************************************************************)
EXTENDS Sccp, TLC

CONSTANTS a0, a1, a2, a3, a4, c0, c1, c2, d1, y1

MCVers == {a0, a1, a2, a3, a4, c0, c1, c2, d1, y1}

Def(dst, op, args) == Inst(op, dst, args, <<>>, <<>>)
Br(t)              == Inst("br", None, <<>>, <<>>, <<t>>)
CBr(c, t, f)       == Inst("cbr", None, <<c>>, <<>>, <<t, f>>)
Switch(x, cs, d)   == Inst("switch", None, <<x>>, cs, d)
Ret(x)             == Inst("ret", None, <<x>>, <<>>, <<>>)
Store(x)           == Inst("store", None, <<x>>, <<>>, <<>>)
Phi(dst, in)       == [dst |-> dst, in |-> in]

Fn(phis, insts) == [phis |-> [b \in DOMAIN insts |-> IF b \in DOMAIN phis THEN phis[b] ELSE <<>>],
                    insts |-> insts]

Source(dst)    == {Def(dst, "copy", <<0>>), Def(dst, "copy", <<1>>), Def(dst, "load", <<0>>)}
Some(dst)      == {Def(dst, "copy", <<1>>), Def(dst, "load", <<0>>)}
Cond(dst, arg) == {Def(dst, "load", <<0>>), Def(dst, "copy", <<0>>), Def(dst, "eq", <<arg, 1>>),
                   Def(dst, "rol", <<arg, 1>>)}
Step(dst, arg) == {Def(dst, "copy", <<1>>), Def(dst, "add", <<arg, 1>>), Def(dst, "load", <<arg>>)}

(* if (c1) a = .. else a = ..; if (a == 1) return y else return a *)
Diamonds ==
    {Fn(4 :> <<Phi(a4, 2 :> a2 @@ 3 :> a3)>>,
        << <<i1, i2, CBr(c1, 2, 3)>>,
           <<i3, Br(4)>>,
           <<i4, Store(a3), Br(4)>>,
           <<Def(y1, "add", <<a4, 1>>), Def(d1, "eq", <<a4, 1>>), CBr(d1, 5, 6)>>,
           <<Ret(y1)>>,
           <<Ret(a4)>> >>) :
      i1 \in Source(a1), i2 \in Cond(c1, a1), i3 \in Step(a2, a1), i4 \in Source(a3)}

(* a = ..; while (c1) a = ..; return a + 1 *)
Loops ==
    {Fn(2 :> <<Phi(a2, 1 :> a1 @@ 3 :> a3), Phi(c2, 1 :> c0 @@ 3 :> c1)>>,
        << <<i1, Br(2)>>,
           <<i2, CBr(c1, 3, 4)>>,
           <<i3, Br(2)>>,
           <<Def(y1, "add", <<a2, 1>>), Ret(y1)>> >>) :
      i1 \in Source(a1), i2 \in Cond(c1, a2) \cup {Def(c1, "lts", <<a2, 1>>)}, i3 \in Step(a3, a2)}

(* switch (a) { case 0: y = ..; case 1: jump to an unknown place; default: return a } *)
Switches ==
    {Fn(4 :> <<Phi(c2, 1 :> c0 @@ 2 :> c1)>>,
        << <<i1, Switch(a1, <<<<0, 2>>, <<1, 3>>, <<0, 4>>>>, d)>>,
           <<i2, CBr(c1, 4, 5)>>,
           <<Inst("ijmp", None, <<a1>>, <<>>, <<>>)>>,
           <<Ret(a1)>>,
           <<Ret(Opaque)>> >>) :
      i1 \in Source(a1) \cup {Def(a1, "copy", <<Opaque>>), Def(a1, "neg", <<1>>)},
      i2 \in Cond(c1, a1), d \in {<<>>, <<4>>}}

(* A join of three arms, the last of which a constant test may remove. *)
DeadArms ==
    {Fn(5 :> <<Phi(a4, 2 :> a1 @@ 3 :> a2 @@ 4 :> a3)>>,
        << <<Def(c1, "load", <<0>>), CBr(c1, 2, 3)>>,
           <<i1, Br(5)>>,
           <<i2, i3, CBr(d1, 4, 5)>>,
           <<i4, Br(5)>>,
           <<Ret(a4)>> >>) :
      i1 \in Source(a1), i2 \in Source(a2), i3 \in Cond(d1, a2), i4 \in Step(a3, a2)}

(* if (a0 ..) a = a0 .. else a = a0 ..; while (a0 ..) a = ..; return a: a   *)
(* function of its argument.                                               *)
OfArgument(dst) == {Def(dst, "copy", <<a0>>), Def(dst, "add", <<a0, 1>>), Def(dst, "load", <<a0>>)}

Arguments ==
    {Fn(4 :> <<Phi(a3, 2 :> a1 @@ 3 :> a2)>>,
        << <<i1, CBr(c1, 2, 3)>>,
           <<i2, Br(4)>>,
           <<i3, Store(a0), Br(4)>>,
           <<Def(d1, "eq", <<a3, 1>>), CBr(d1, 5, 6)>>,
           <<Ret(a0)>>,
           <<Ret(a3)>> >>) :
      i1 \in Cond(c1, a0), i2 \in OfArgument(a1), i3 \in OfArgument(a2)}
    \cup
    {Fn(2 :> <<Phi(a2, 1 :> a1 @@ 3 :> a3)>>,
        << <<i1, Br(2)>>,
           <<Def(c1, "lts", <<a2, a0>>), CBr(c1, 3, 4)>>,
           <<i2, Br(2)>>,
           <<Def(y1, "add", <<a2, a0>>), Ret(y1)>> >>) :
      i1 \in OfArgument(a1), i2 \in Step(a3, a2) \ Source(a3)}

Regular == Diamonds \cup Loops \cup Switches \cup DeadArms \cup Arguments

(* a = 0; if (c1) { a = 1; if (..) {} } return a *)
LateEdges ==
    {Fn(4 :> <<Phi(a3, 1 :> a1 @@ 3 :> a2)>>,
        << <<i1, i2, CBr(c1, 2, 4)>>,
           <<i3, Br(3)>>,
           <<Store(a2), Br(4)>>,
           <<Def(y1, "add", <<a3, 1>>), Ret(y1)>> >>) :
      i1 \in Source(a1), i2 \in Cond(c1, a1), i3 \in Step(a2, a1)}

(* if (c1) a = ..; return a: on the other path a is what it was on entry *)
LiveInJoins ==
    {Fn(3 :> <<Phi(a2, 1 :> a0 @@ 2 :> a1)>>,
        << <<i1, CBr(c1, 2, 3)>>,
           <<i2, Br(3)>>,
           <<Def(y1, "add", <<a2, 1>>), Ret(y1)>> >>) :
      i1 \in Cond(c1, a0), i2 \in Source(a1)}

(* Two joins in a row, each of which may lose an arm to a constant test. *)
Cascades ==
    {Fn(3 :> <<Phi(a2, 1 :> a0 @@ 2 :> a1)>> @@ 5 :> <<Phi(a4, 3 :> a2 @@ 4 :> a3)>>,
        << <<i1, CBr(c1, IF swap THEN 3 ELSE 2, IF swap THEN 2 ELSE 3)>>,
           <<i2, Br(3)>>,
           <<i3, CBr(d1, 4, 5)>>,
           <<i4, Br(5)>>,
           <<Ret(a4)>> >>) :
      i1 \in Cond(c1, a0), i2 \in Some(a1), i3 \in Cond(d1, a2), i4 \in Some(a3),
      swap \in BOOLEAN}

(* A guess the rounds keep: each of the first two marks ten edges, but the *)
(* second turns a3 from unknown into a constant after its test was marked  *)
(* both ways.  Not among AllFamilies: NoSpeculativeEdges is false of it.   *)
Guesses ==
    {Fn(5 :> <<Phi(a3, 2 :> a2 @@ 4 :> a1 @@ 8 :> a4)>> @@ 8 :> <<Phi(a4, 4 :> a1 @@ 6 :> a3)>>,
        << <<Def(a1, "copy", <<1>>), Def(c1, "load", <<0>>), CBr(c1, 2, 3)>>,
           <<Def(a2, "add", <<a0, 1>>), Br(5)>>,
           <<Br(4)>>,
           <<CBr(c1, 5, 8)>>,
           <<CBr(a3, 6, 7)>>,
           <<Br(8)>>,
           <<Ret(a3)>>,
           <<Br(5)>> >>)}

AllFamilies == Regular \cup LateEdges \cup LiveInJoins \cup Cascades
=============================================================================
