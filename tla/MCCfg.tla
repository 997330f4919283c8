-------------------------------- MODULE MCCfg --------------------------------
(* Regions of a few offsets, and the shapes that need more. *)
EXTENDS CfgLoops

I(kind, to) == [len |-> 1, kind |-> kind, to |-> to]
N     == I("normal", {})
R     == I("ret", {})
J(t)  == I("jump", {t})
B(t)  == I("branch", {t})
C(t)  == I("call", {t})
X     == I("jump", {})                                \* an indirect jump
W(i, n) == [i EXCEPT !.len = n]                       \* an instruction of n bytes

Region(is, prologues, cap, descend) ==
    [inst |-> [o \in 0 .. Len(is) - 1 |-> is[o + 1]], size |-> Len(is),
     prologues |-> prologues, cap |-> cap, descend |-> descend]

Plainly(is) == Region(is, <<>>, 100, TRUE)

(* Every way three instructions and a return can hang together; jumps may
   leave the region on both sides. *)
Menu  == {N, R, X} \cup {k : k \in {J(t) : t \in 0 .. 3} \cup {B(t) : t \in -1 .. 4} \cup {C(t) : t \in 0 .. 3}}
Small == {Plainly(<<a, b, c, R>>) : a, b, c \in Menu}

(* Four instructions that jump and branch, with the loops of several exits,
   entries and nestings among them. *)
Turns  == {N, R} \cup {J(t) : t \in {0, 2, 3}} \cup {B(t) : t \in {0, 1, 2}}
Turned == {Plainly(<<a, b, c, d, R>>) : a \in {B(2), B(3), N}, b, c, d \in Turns}

(* Long instructions: jumps into the middle of one, an end cut off. *)
Longs == {N, W(N, 2), W(N, 3), W(B(1), 2), W(J(2), 2), W(C(3), 2), B(2)}
Overlapping == {Plainly(<<a, b, c, d>>) : a, b, c \in Longs, d \in {R, W(N, 2)}}

(* Prologues as further entries, little room, linear sweep. *)
Some == {<<J(3), N, R, R>>, <<C(2), R, B(0), R>>, <<N, N, J(0), N>>, <<R, J(0), N, X>>,
         <<W(N, 2), R, B(1), R>>, <<W(B(3), 3), N, N, W(R, 2)>>}
Configured ==
    {Region(is, ps, cap, d) : is \in Some, ps \in {<<>>, <<2>>, <<0, 1>>, <<1, 3>>}, cap \in {1, 2, 3, 100}, d \in BOOLEAN}
        \cup {Region(<<>>, <<>>, 100, d) : d \in BOOLEAN}

MCCodes == Small \cup Turned \cup Overlapping \cup Configured

(* An if whose body lies before its head, in a loop. *)
MCBackward == {Plainly(<<J(2), J(3), B(1), B(2), R>>)}

(* A call in the middle of a block, to the code behind the return. *)
MCCallees == {Plainly(<<C(3), N, R, N, R>>)}
=============================================================================
