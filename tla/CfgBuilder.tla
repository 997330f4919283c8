------------------------------ MODULE CfgBuilder ------------------------------
(***************************************************************************)
(* The control-flow graph builder (cfg-builder/src/lib.rs): disassembly by *)
(* recursive descent or linear sweep, leaders, basic blocks, edges.        *)
(*                                                                         *)
(* Code is what the decoder answers at every offset, whether or not an     *)
(* instruction was meant to begin there: a length, a kind and the targets  *)
(* resolve_branch_target finds (none or one), relative to base_va; a       *)
(* target may lie outside the region on either side.  Instructions may     *)
(* overlap.                                                                *)
(***************************************************************************)
EXTENDS Integers, Sequences, FiniteSets, SequencesExt

CONSTANT CodeSet    \* [inst, size, prologues, cap, descend]

Kinds     == {"normal", "branch", "jump", "call", "ret"}
Branching == {"branch", "jump", "call"}
Terminal  == {"ret", "jump"}

IsCode(c) ==
    /\ c.size \in Nat /\ c.cap \in Nat /\ c.descend \in BOOLEAN
    /\ c.prologues \in Seq(0 .. c.size - 1)
    /\ DOMAIN c.inst = 0 .. c.size - 1
    /\ \A o \in DOMAIN c.inst :
         /\ c.inst[o].len \in Nat \ {0} /\ c.inst[o].kind \in Kinds
         /\ \A t, u \in c.inst[o].to : t = u /\ t \in Int
         /\ c.inst[o].kind \notin Branching => c.inst[o].to = {}

ASSUME CodeAssumption == \A c \in CodeSet : IsCode(c)

VARIABLES
    code,      \* the region and the configuration
    stage,     \* sweep, blocks, edges, graph
    pending,   \* stack of offsets to descend into
    at,        \* offset of the running sweep, or Idle
    decoded,   \* offsets of the instructions found
    blocks     \* [start, end, succ, pred]; succ lists <<block, edge type>>

builder == <<code, stage, pending, at, decoded, blocks>>

Idle == -1

-----------------------------------------------------------------------------
(***************************************************************************)
(* Disassembly                                                             *)
(***************************************************************************)
Kind(o)       == code.inst[o].kind
NextOffset(o) == IF o + code.inst[o].len <= code.size THEN o + code.inst[o].len ELSE code.size
Only(T)       == IF T = {} THEN <<>> ELSE <<CHOOSE t \in T : TRUE>>
InRegion(o)   == {t \in code.inst[o].to : 0 <= t /\ t < code.size}

(* The prologues (find_function_starts) lie over the entry point. *)
Init ==
    /\ code \in CodeSet
    /\ stage = "sweep"
    /\ pending = IF code.descend THEN <<0>> \o code.prologues ELSE <<>>
    /\ at = IF code.descend THEN Idle ELSE 0
    /\ decoded = {} /\ blocks = <<>>

Pop ==
    /\ stage = "sweep" /\ at = Idle /\ pending # <<>>
    /\ pending' = Front(pending)
    /\ at' = IF Last(pending) >= code.size \/ Last(pending) \in decoded THEN Idle ELSE Last(pending)
    /\ UNCHANGED <<code, stage, decoded, blocks>>

(* Mutant: max_instructions is not looked at. *)
Decodable_NoCap == 0 <= at /\ at < code.size

Decodable == 0 <= at /\ at < code.size /\ Cardinality(decoded) < code.cap

(* Mutant: the way on is followed after a jump, and its target is not. *)
Descend_StraightOn ==
    /\ stage = "sweep" /\ code.descend
    /\ Decodable /\ at \notin decoded
    /\ decoded' = decoded \cup {at}
    /\ at' = IF Kind(at) = "ret" THEN Idle ELSE NextOffset(at)
    /\ UNCHANGED <<code, stage, pending, blocks>>

Descend ==
    /\ stage = "sweep" /\ code.descend
    /\ Decodable /\ at \notin decoded
    /\ decoded' = decoded \cup {at}
    /\ pending' = pending \o Only(InRegion(at) \ decoded')
    /\ at' = IF Kind(at) \in Terminal THEN Idle ELSE NextOffset(at)
    /\ UNCHANGED <<code, stage, blocks>>

Linear ==
    /\ stage = "sweep" /\ ~code.descend
    /\ Decodable
    /\ decoded' = decoded \cup {at}
    /\ at' = NextOffset(at)
    /\ UNCHANGED <<code, stage, pending, blocks>>

(* Mutant: a known instruction does not end the sweep. *)
Break_EndOnly ==
    /\ stage = "sweep" /\ at # Idle
    /\ ~Decodable
    /\ at' = Idle
    /\ UNCHANGED <<code, stage, pending, decoded, blocks>>

(* The end of the region, a known instruction or max_instructions. *)
Break ==
    /\ stage = "sweep" /\ at # Idle
    /\ ~Decodable \/ (code.descend /\ at \in decoded)
    /\ at' = Idle
    /\ UNCHANGED <<code, stage, pending, decoded, blocks>>

Sort ==
    /\ stage = "sweep" /\ at = Idle /\ pending = <<>>
    /\ stage' = "blocks"
    /\ UNCHANGED <<code, pending, at, decoded, blocks>>

-----------------------------------------------------------------------------
(***************************************************************************)
(* Blocks and edges                                                        *)
(***************************************************************************)
Below(S, o)  == {p \in S : p < o}
Ordered(S)   == [k \in 1 .. Cardinality(S) |-> CHOOSE o \in S : Cardinality(Below(S, o)) = k - 1]
Instructions == Ordered(decoded)

(* The first offset, branch and jump targets, and what follows a branch, a
   jump or a return.  A call and its target start nothing. *)
Leaders ==
    LET insts == Instructions IN
    {0} \cup (UNION {InRegion(o) : o \in {p \in decoded : Kind(p) \in {"branch", "jump"}}})
        \cup {insts[k] : k \in {j \in 2 .. Len(insts) : Kind(insts[j - 1]) \in {"branch", "jump", "ret"}}}

Starts == Ordered((decoded \cap Leaders) \cup {o \in decoded : Below(decoded, o) = {}})

BuildBlocks ==
    /\ stage = "blocks"
    /\ stage' = "edges"
    /\ LET starts == Starts IN
       blocks' = [k \in DOMAIN starts |->
                    [start |-> starts[k], succ |-> <<>>, pred |-> <<>>,
                     end |-> IF k < Len(starts) THEN starts[k + 1] ELSE NextOffset(Last(Instructions))]]
    /\ UNCHANGED <<code, pending, at, decoded>>

Members(k) == {o \in decoded : blocks[k].start <= o /\ o < blocks[k].end}
LastOf(k)  == CHOOSE o \in Members(k) : \A p \in Members(k) : p <= o

(* Mutant: a jump falls through. *)
EdgesOf_JumpFalls(k) ==
    LET o     == LastOf(k)
        taken == {<<j, Kind(o)>> : j \in {i \in DOMAIN blocks : blocks[i].start \in InRegion(o)}}
        next  == IF k < Len(blocks) /\ Kind(o) # "ret" THEN <<<<k + 1, "fall">>>> ELSE <<>>
    IN  Only(taken) \o next

(* The taken edge first, where the target begins a block; then the next block
   in offset order, except after a jump or a return. *)
EdgesOf(k) ==
    LET o     == LastOf(k)
        taken == {<<j, Kind(o)>> : j \in {i \in DOMAIN blocks : blocks[i].start \in InRegion(o)}}
        next  == IF k < Len(blocks) /\ Kind(o) \notin Terminal THEN <<<<k + 1, "fall">>>> ELSE <<>>
    IN  Only(taken) \o next

(* One entry per edge, by source: a block may be listed twice. *)
Sources(edges, k) ==
    LET upTo[j \in 0 .. Len(edges)] ==
            IF j = 0 THEN <<>>
            ELSE upTo[j - 1] \o [i \in 1 .. Cardinality({n \in DOMAIN edges[j] : edges[j][n][1] = k}) |-> j]
    IN  upTo[Len(edges)]

ConnectEdges ==
    /\ stage = "edges"
    /\ stage' = "graph"
    /\ LET edges == [k \in DOMAIN blocks |-> EdgesOf(k)]
       IN  blocks' = [k \in DOMAIN blocks |-> [blocks[k] EXCEPT !.succ = edges[k], !.pred = Sources(edges, k)]]
    /\ UNCHANGED <<code, pending, at, decoded>>

Build == Pop \/ Descend \/ Linear \/ Break \/ Sort \/ BuildBlocks \/ ConnectEdges

BuilderSpec == Init /\ [][Build]_builder

-----------------------------------------------------------------------------
(***************************************************************************)
(* Properties                                                              *)
(***************************************************************************)
TypeOK ==
    /\ IsCode(code)
    /\ stage \in {"sweep", "blocks", "edges", "graph"}
    /\ pending \in Seq(0 .. code.size)
    /\ at \in Idle .. code.size
    /\ decoded \subseteq 0 .. code.size - 1
    /\ Cardinality(decoded) <= code.cap

Entries == ({0} \cup ToSet(code.prologues)) \cap 0 .. code.size - 1

(* Where control can go from an instruction: a call returns. *)
Onward(o) ==
    InRegion(o) \cup (IF Kind(o) \in Terminal THEN {} ELSE {NextOffset(o)} \cap 0 .. code.size - 1)

Closed(S) == Entries \subseteq S /\ \A o \in S \cap DOMAIN code.inst : Onward(o) \subseteq S

CapHit == Cardinality(decoded) >= code.cap

(* Recursive descent decodes what can be reached from the entry point and the
   prologues, in whatever order the stack takes it, and nothing else: no
   padding or data is taken for code (lib.rs:338-342).  What max_instructions
   cuts off is only missing. *)
DecodesReachable ==
    code.descend =>
        /\ \A S \in SUBSET DOMAIN code.inst : Closed(S) => decoded \subseteq S
        /\ stage # "sweep" /\ ~CapHit => Closed(decoded)

(* Decoded instructions do not overlap and none is missing. *)
Overlap == \E o, p \in decoded : o < p /\ p < NextOffset(o)
Plain   == ~CapHit /\ ~Overlap

(* Where the code is plain, a block is left only at its last instruction and
   entered only at its first (calls aside), and its edges are the ways on from
   its last instruction: target first, then the next instruction, which is the
   next block's although gaps may lie between blocks. *)
EdgesFollowCode ==
    stage = "graph" /\ Plain /\ code.descend =>
        \A k \in DOMAIN blocks :
            /\ \A o \in Members(k) \ {LastOf(k)} : Kind(o) \in {"normal", "call"} /\ NextOffset(o) \in Members(k)
            /\ \A o \in decoded : Kind(o) \in {"branch", "jump"} => InRegion(o) \cap Members(k) \subseteq {blocks[k].start}
            /\ {blocks[e[1]].start : e \in ToSet(blocks[k].succ)}
                 = {t \in Onward(LastOf(k)) : Kind(LastOf(k)) = "call" => t \in {blocks[j].start : j \in DOMAIN blocks}}

=============================================================================
