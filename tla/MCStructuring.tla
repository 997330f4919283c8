---------------------------- MODULE MCStructuring ----------------------------
(* The functions of MCSsa and functions whose graphs tell the structurer's
   cases apart; most of their blocks call, so a run tells which blocks it
   passed. *)
EXTENDS MCSsa, Structuring

Call(b) == Def(rcx, "call", <<C(b)>>)
Calls(ends) == Fn([b \in DOMAIN ends |-> <<Call(b), ends[b]>>])
Tests(ends) == Fn([b \in DOMAIN ends |-> IF Len(ends[b].to) = 2 THEN <<ends[b]>> ELSE <<Call(b), ends[b]>>])
Both(ends)  == {Calls(ends), Tests(ends)}

(* All the graphs of four blocks whose last one returns. *)
Ends   == {Br(t) : t \in 2..4} \cup {CBr(rcx, p[1], p[2]) : p \in {q \in (2..4) \X (2..4) : q[1] # q[2]}} \cup {Ret(rcx)}
Graphs == {<<x, y, z, Ret(rcx)>> : x \in Ends, y \in Ends, z \in Ends}
Fours  == UNION {Both(g) : g \in {h \in Graphs : Accepts(Calls(h))}}

(* Loops in loops, with and without a way out of both, and a loop that is left
   and continued from inside an arm. *)
Nested ==
    Both(<<Br(2), CBr(rcx, 3, 6), CBr(rcx, 4, 5), Br(3), Br(2), Ret(rcx)>>)
    \cup Both(<<Br(2), Br(3), CBr(rcx, 3, 4), CBr(rcx, 2, 5), Ret(rcx)>>)
    \cup Both(<<Br(2), CBr(rcx, 3, 6), CBr(rcx, 4, 6), CBr(rcx, 2, 5), Br(2), Ret(rcx)>>)
    \cup Both(<<CBr(rcx, 2, 6), CBr(rcx, 3, 4), Br(5), Br(5), CBr(rcx, 2, 6), Ret(rcx)>>)
    \cup Both(<<CBr(rcx, 2, 3), CBr(rcx, 4, 5), CBr(rcx, 4, 5), Br(6), Br(6), Ret(rcx)>>)

(* An arm, a break and a do loop inside a loop. *)
Inside ==
    Both(<<Br(2), CBr(rcx, 3, 6), CBr(rcx, 4, 5), Br(5), Br(2), Ret(rcx)>>)
    \cup Both(<<Br(2), CBr(rcx, 3, 5), CBr(rcx, 4, 5), Br(2), Ret(rcx)>>)
    \cup Both(<<Br(2), CBr(rcx, 3, 6), CBr(rcx, 4, 5), Br(6), Br(2), Ret(rcx)>>)
    \cup Both(<<Br(2), CBr(rcx, 3, 6), Br(4), CBr(rcx, 3, 5), Br(2), Ret(rcx)>>)
    \cup Both(<<Br(2), Br(3), CBr(rcx, 4, 5), Br(5), CBr(rcx, 2, 6), Ret(rcx)>>)

(* A counter is set before the loop and moved by the latch. *)
Counted ==
    {Fn(<<<<Def(va, "copy", <<C(0)>>), Br(2)>>, head \o <<CBr(vb, 3, 4)>>,
          <<Call(3), Def(va, "add", <<V(va), C(1)>>), Def(vb, "ne", <<V(va), C(2)>>), CBr(vb, 2, 4)>>,
          <<Ret(va)>>>>) : head \in {<<>>, <<Call(2)>>}}

Dispatch(ends) == Fn(<<<<Switch(va, <<2, 3, 4>>)>>, <<Call(2), ends[1]>>, <<Call(3), ends[2]>>, <<Call(4), ends[3]>>,
                       <<Call(5), Ret(rcx)>>>>)
Tested(x, t, e, b) == <<Def(x, "eq", <<V(va), C(b)>>), CBr(x, t, e)>>
Switched ==
    {Dispatch(<<Ret(rcx), Ret(rcx), e>>) : e \in {Br(5), Ret(rcx)}}
    \cup {Dispatch(<<Br(5), e, Br(5)>>) : e \in {Br(4), Br(5), Ret(va)}}
    \cup {Fn(<<Tested(vb, 4, 2, 0), Tested(rax, 5, 3, 1), Tested(vb, 6, 7, 2),
               <<Call(4), Br(7)>>, <<Call(5), Br(7)>>, <<Call(6), Ret(rcx)>>, <<Ret(va)>>>>)}
    \cup {Fn(<<Tested(vb, 2, 3, 1), <<Def(rcx, "load", <<V(va)>>), Inst("ijmp", <<N, 0>>, <<V(rcx)>>, <<>>)>>,
               <<Call(3), Ret(rcx)>>>>)}

MCShapes == Fours \cup Nested \cup Inside \cup Counted \cup Switched
MCTexts  == MCSources \cup MCShapes

(* A loop with an arm that does something before it breaks: the code behind the
   loop is reached both ways. *)
MCBreaks == {Tests(<<Br(2), CBr(rcx, 3, 6), CBr(rcx, 4, 5), Br(6), Br(2), Ret(rcx)>>)}
=============================================================================
