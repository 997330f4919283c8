-------------------------------- MODULE MCSsa --------------------------------
(* Functions of several graphs over two numbered variables and two registers. *)
EXTENDS Ssa

CONSTANTS va, vb, rax, rcx, L, N

MCOrder == <<va, vb, rax, rcx>>
MCRegs  == {rax, rcx}

V(x)  == <<x, Pending>>
C(n)  == <<L, n>>
Def(x, op, args) == Inst(op, V(x), args, <<>>)
Store(x)      == Inst("store", <<N, 0>>, <<V(x)>>, <<>>)
Br(t)         == Inst("br", <<N, 0>>, <<>>, <<t>>)
CBr(x, t, e)  == Inst("cbr", <<N, 0>>, <<V(x)>>, <<t, e>>)
Switch(x, ts) == Inst("switch", <<N, 0>>, <<V(x)>>, ts)
Ret(x)        == Inst("ret", <<N, 0>>, <<V(x)>>, <<>>)

Fn(blocks) == [insts |-> blocks]

Sum(x) == Def(x, "add", <<V(rcx), C(1)>>)
Mus(x) == Def(x, "add", <<C(1), V(rcx)>>)
Bodies ==
    {<<>>,
     <<Sum(va)>>,
     <<Mus(vb), Sum(va), Store(va)>>,
     <<Def(va, "copy", <<V(vb)>>), Def(vb, "sub", <<V(va), V(rax)>>)>>,
     <<Def(rax, "load", <<V(va)>>), Def(vb, "adc", <<V(rax), V(vb), C(1)>>)>>,
     <<Def(rcx, "call", <<V(rax), V(vb)>>)>>}

Heads == {<<>>, <<Sum(va)>>, <<Sum(rax), Def(vb, "load", <<V(rax)>>)>>}

Diamonds ==
    {Fn(<<h \o <<CBr(rcx, 2, 3)>>, x \o <<Br(4)>>, y \o <<Br(4)>>,
          <<Mus(vb), Store(va), Store(vb), Ret(rax)>>>>) : h \in Heads, x \in Bodies, y \in Bodies}

Whiles ==
    {Fn(<<h \o <<Br(2)>>, x \o <<CBr(rcx, 3, 4)>>, y \o <<Br(2)>>, <<Store(va), Store(rax), Ret(vb)>>>>)
        : h \in Heads, x \in Bodies, y \in Bodies}

(* Block 2 loops to itself over a critical edge; both edges of 3 lead to 2. *)
Selfs ==
    {Fn(<<h \o <<Br(2)>>, x \o <<CBr(vb, 2, 3)>>, <<Store(va), CBr(va, 2, 2)>>>>) : h \in Heads, x \in Bodies}

(* Two joins in a row, both reached over critical edges. *)
Chains ==
    {Fn(<<h \o <<CBr(rcx, 2, 3)>>, x \o <<Br(3)>>, <<CBr(vb, 4, 5)>>, y \o <<Br(5)>>, <<Store(vb), Ret(va)>>>>)
        : h \in Heads, x \in Bodies, y \in Bodies}

(* A loop with two entries and a switch that names one block twice. *)
Tangles ==
    {Fn(<<<<Switch(rcx, <<2, 3, 2>>)>>, x \o <<CBr(vb, 3, 4)>>, y \o <<Switch(va, <<2, 4>>)>>,
          <<Store(rax), Store(vb), Ret(va)>>>>) : x \in Bodies, y \in Bodies}

(* Two sweeps are needed here: the graph of six blocks in Cooper, Harvey and
   Kennedy's paper. *)
Knots ==
    {Fn(<<<<CBr(rcx, 2, 3)>>, <<Br(6)>>, x \o <<CBr(rax, 5, 4)>>,
          <<Def(va, "load", <<C(0)>>), Br(5)>>, <<CBr(va, 4, 6)>>, y \o <<Store(vb), Br(5)>>>>)
        : x \in Bodies, y \in {<<>>, <<Sum(vb)>>}}

Refused ==
    {Fn(<<<<Br(2)>>, <<Ret(va)>>, <<Sum(va), Br(2)>>>>), Fn(<<<<CBr(va, 2, 7)>>, <<Ret(va)>>>>),
     Fn(<<<<Br(2), Sum(va)>>, <<Ret(va)>>>>)}

MCSources == Diamonds \cup Whiles \cup Selfs \cup Chains \cup Tangles \cup Knots \cup Refused

(* The entry is a loop header. *)
MCEntryLoops ==
    {Fn(<<x \o <<Store(va), CBr(rcx, 1, 2)>>, <<Ret(rax)>>>>) : x \in {<<>>, <<Def(va, "add", <<V(va), C(1)>>)>>}}
    \cup {Fn(<<<<Store(rax), Def(rcx, "load", <<V(rax)>>), Def(rax, "add", <<V(va), C(1)>>), CBr(rcx, 1, 2)>>,
               <<Ret(va)>>>>)}
=============================================================================
