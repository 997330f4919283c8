----------------------------- MODULE MCDataflow -----------------------------
(* Small functions of six shapes over two variables. *)
EXTENDS Dataflow

CONSTANTS x, y

MCVars == {x, y}

I(op, dst, args) == [op |-> op, dst |-> dst, args |-> args]

SetBoth == <<I("copy", x, <<0>>), I("load", y, <<x>>)>>
Bodies ==
    {<<>>,
     <<I("copy", x, <<1>>)>>,
     <<I("copy", x, <<3>>), I("copy", x, <<2>>)>>,
     <<I("add", x, <<x, 1>>)>>,
     <<I("store", None, <<y>>), I("copy", y, <<x>>)>>,
     <<I("sub", y, <<4, x>>), I("mul", x, <<y, 2>>)>>,
     <<I("call", x, <<>>)>>}
Entries == {<<>>, SetBoth, <<I("copy", x, <<0>>), I("copy", y, <<5>>)>>}

Line     == <<<<2>>, <<3>>, <<>>>>
Diamond  == <<<<2, 3>>, <<4>>, <<4>>, <<>>>>
Loop     == <<<<2>>, <<3, 4>>, <<2>>, <<>>>>
SelfLoop == <<<<2>>, <<2, 3>>, <<>>>>
Latch1st == <<<<3>>, <<3>>, <<2, 4>>, <<>>>>
EntryLoop == <<<<2>>, <<1, 3>>, <<>>>>

Three(to, tails) == {[insts |-> <<e, b, t>>, to |-> to] : e \in Entries, b \in Bodies, t \in tails}
Four(to, tails)  == {[insts |-> <<e, b, c, t>>, to |-> to] : e \in Entries, b \in Bodies, c \in Bodies, t \in tails}

UseX == {<<I("jump", None, <<x>>)>>}
Spread == {<<I("sub", y, <<4, x>>), I("mul", x, <<y, 2>>), I("add", y, <<y, 1>>)>>}
Carry == {[insts |-> <<SetBoth, <<I("adc", x, <<x, y, 0>>)>>, <<I("neg", y, <<x>>)>>>>, to |-> Line]}

(* A range with one bound beyond the greatest integer is left as an empty one:
   not among MCFunctions, as Tame excludes it. *)
Wrapping ==
    {[insts |-> <<<<I("copy", x, <<14>>), I("load", y, <<x>>)>>, <<I("copy", x, <<15>>)>>,
                  <<I("add", x, <<x, 1>>)>>, <<I("jump", None, <<x>>)>>>>,
      to |-> <<<<2, 3>>, <<3>>, <<4>>, <<>>>>]}

MCFunctions ==
    Three(Line, Bodies) \cup Three(SelfLoop, UseX) \cup Three(EntryLoop, UseX)
    \cup Four(Diamond, Spread) \cup Four(Loop, UseX) \cup Four(Latch1st, UseX) \cup Carry
=============================================================================
