------------------------------ MODULE SccpExec ------------------------------
(***************************************************************************)
(* A function before and after constant propagation, executed side by      *)
(* side.  Once the pass of Sccp is done, the original function runs on any *)
(* values on entry and any loaded values, and the rewritten one runs along *)
(* with it on the same values, its own variables in a separate store.  The *)
(* pass is right when the two cannot be told apart.                        *)
(***************************************************************************)
EXTENDS Sccp

CONSTANTS
    Executed,    \* the functions of Programs that are executed after the pass
    Inputs,      \* values a variable may have on entry and a load may return
    Undef        \* the value of a variable that was never assigned

(* Every version has one definition, as to_ssa leaves it. *)
DefinedOnce(p) ==
    LET phis  == UNION {{<<b, "phi", k>> : k \in DOMAIN p.phis[b]} : b \in DOMAIN p.insts}
        insts == UNION {{<<b, "inst", k>> : k \in {j \in DOMAIN p.insts[b] : p.insts[b][j].op \in DefOps}} :
                           b \in DOMAIN p.insts}
        Dst(d) == IF d[2] = "phi" THEN p.phis[d[1]][d[3]].dst ELSE p.insts[d[1]][d[3]].dst
    IN  \A d, e \in phis \cup insts : Dst(d) = Dst(e) => d = e

(* The versions b has defined before its instruction k, and in all. *)
DefinedBefore(p, b, k) == {p.insts[b][j].dst : j \in {n \in DOMAIN p.insts[b] : n < k /\ p.insts[b][n].op \in DefOps}}

DefinedIn(p, b) == {p.phis[b][k].dst : k \in DOMAIN p.phis[b]} \cup DefinedBefore(p, b, Len(p.insts[b]) + 1)

(* What every path from the entry to b has assigned before it enters b: the*)
(* paths that have not assigned v stay within a set S that omits b.        *)
AssignedOnEntry(p, b) ==
    LiveIns(p) \cup
    {v \in Vers : \E S \in SUBSET DOMAIN p.insts :
        /\ Entry \in S /\ b \notin S
        /\ \A a \in S : v \in DefinedIn(p, a) \/ Succs(p, a) \subseteq S}

(* Definitions dominate uses: an operand is assigned on every path to it, a*)
(* phi input on every path to the edge it comes by, and each edge gives all*)
(* the phis of its target an input.                                        *)
IsStrict(p) ==
    /\ p.phis[Entry] = <<>>
    /\ \A b \in DOMAIN p.insts :
         /\ \A k \in DOMAIN p.insts[b] :
              Vers \cap Range(p.insts[b][k].args) \subseteq
                 AssignedOnEntry(p, b) \cup {p.phis[b][j].dst : j \in DOMAIN p.phis[b]} \cup DefinedBefore(p, b, k)
         /\ \A j, k \in DOMAIN p.insts[b] :
              p.insts[b][k].op \in JumpOps /\ p.insts[b][j].op \in DefOps => j < k
         /\ \A a \in Preds(p, b) : \A k \in DOMAIN p.phis[b] :
              a \in DOMAIN p.phis[b][k].in /\ p.phis[b][k].in[a] \in AssignedOnEntry(p, a) \cup DefinedIn(p, a)

ASSUME ExecAssumption ==
    /\ Executed \subseteq Programs
    /\ \A p \in Executed : DefinedOnce(p) /\ IsStrict(p)
    /\ Inputs \subseteq Int /\ Undef \notin Int \cup {Opaque}

VARIABLES
    env, outEnv, \* the variables of the original and of the rewritten function
    at, ip       \* the block being executed (0: not started) and the instruction

execVars == <<env, outEnv, at, ip>>

Idle == [v \in Vers |-> Undef]

ExecInit == Init /\ env = Idle /\ outEnv = Idle /\ at = 0 /\ ip = 1

Value(o, e) == IF o \in Vers THEN e[o] ELSE o
Values(i, e) == [k \in DOMAIN i.args |-> Value(i.args[k], e)]

Orig == prog.insts[at][ip]
New  == out.insts[at][ip]

(* An instruction this model does not compute yields n, any value. *)
Result(i, e, n) ==
    LET a == Values(i, e) IN
    IF i.op \in Foldable /\ Range(a) \subseteq Int THEN Fold(i.op, a)
    ELSE IF Undef \in Range(a) THEN Undef
    ELSE n

(* The block control goes to, 0 when the function is left. *)
Goto(i, e) ==
    LET c    == Value(i.args[1], e)
        hits == {k \in DOMAIN i.cases : i.cases[k][1] = c}
    IN  CASE i.op = "br" -> i.to[1]
          [] i.op = "cbr" -> i.to[IF c = 0 THEN 2 ELSE 1]
          [] i.op = "switch" /\ hits # {} ->
               i.cases[CHOOSE k \in hits : \A j \in hits : k <= j][2]
          [] i.op = "switch" /\ hits = {} /\ i.to # <<>> -> i.to[1]
          [] OTHER -> 0

(* All phis of b read their inputs for the edge from a before any is set. *)
EnterBlock(phis, e, a) ==
    LET set == {k \in DOMAIN phis : a \in DOMAIN phis[k].in}
    IN  [v \in Vers |-> IF \E k \in set : phis[k].dst = v
                        THEN e[phis[CHOOSE k \in set : phis[k].dst = v].in[a]]
                        ELSE e[v]]

Start ==
    /\ phase = "done" /\ prog \in Executed /\ at = 0
    /\ \E e \in [LiveIns(prog) -> Inputs] :
         env' = [v \in Vers |-> IF v \in DOMAIN e THEN e[v] ELSE Undef]
    /\ outEnv' = env'
    /\ at' = Entry /\ ip' = 1
    /\ UNCHANGED vars

Running == at # 0 /\ ip \in DOMAIN prog.insts[at]

Assign ==
    /\ Running /\ Orig.op \in DefOps
    /\ \E n \in Inputs :
         /\ env'    = [env EXCEPT ![Orig.dst] = Result(Orig, env, n)]
         /\ outEnv' = [outEnv EXCEPT ![New.dst] = Result(New, outEnv, n)]
    /\ ip' = ip + 1
    /\ UNCHANGED <<vars, at>>

Effect ==
    /\ Running /\ Orig.op = "store"
    /\ ip' = ip + 1
    /\ UNCHANGED <<vars, env, outEnv, at>>

Jump ==
    /\ Running /\ Orig.op \in JumpOps
    /\ LET b == Goto(Orig, env) IN
         /\ b \in DOMAIN out.insts
         /\ env' = EnterBlock(prog.phis[b], env, at)
         /\ outEnv' = EnterBlock(out.phis[b], outEnv, at)
         /\ at' = b
    /\ ip' = 1
    /\ UNCHANGED vars

Analyse == Next /\ UNCHANGED execVars

ExecNext == Analyse \/ Start \/ Assign \/ Effect \/ Jump

(* The pass runs until it returns; nothing makes anyone call the function. *)
ExecSpec ==
    /\ ExecInit /\ [][ExecNext]_<<vars, execVars>>
    /\ WF_<<vars, execVars>>(Analyse)

-----------------------------------------------------------------------------
(* A version the lattice holds constant has that value in every execution, *)
(* each time around a loop, wherever an instruction reads it ("anything it *)
(* cannot prove constant is left alone", sccp.rs:22).                      *)
ReadByInsts == UNION {UNION {Range(prog.insts[b][k].args) : k \in DOMAIN prog.insts[b]} : b \in Blocks}

ConstantsHold ==
    phase = "done" => \A v \in Vers \cap ReadByInsts :
        lat[v] \in Int /\ env[v] # Undef => env[v] = lat[v]

(* The rewritten function cannot be told from the original: at the same    *)
(* instruction it reads, stores, loads from and returns the same values,   *)
(* control goes the same way, and never to a block the pass removed.       *)
SameBehaviour ==
    Running =>
        IF Orig.op \in JumpOps
        THEN /\ Goto(New, outEnv) = Goto(Orig, env)
             /\ Goto(Orig, env) # 0 => Goto(Orig, env) \in DOMAIN out.insts
        ELSE Values(New, outEnv) = Values(Orig, env)

(* In an executed function, a join that is read and held constant has that *)
(* constant on every edge it is entered by: no edge was missed and no value*)
(* on entry is taken for the constant it meets.                            *)
JoinsAgree ==
    phase = "done" /\ prog \in Executed => \A b \in execBlocks : \A k \in DOMAIN prog.phis[b] :
        LET p == prog.phis[b][k] IN
        p.dst \in Read(prog) /\ lat[p.dst] \in Int =>
            \A q \in DOMAIN p.in : <<q, b>> \in execEdges => lat[p.in[q]] = lat[p.dst]

(* What a function on its way through the pass reads when it is executed:  *)
(* a phi reads the inputs that come by an executable edge.                 *)
LiveInputs(p, b) == {p.in[q] : q \in {r \in DOMAIN p.in : <<r, b>> \in execEdges}}

Used(o) ==
    Vers \cap UNION {(UNION {LiveInputs(o.phis[b][k], b) : k \in DOMAIN o.phis[b]})
                     \cup (UNION {Range(o.insts[b][k].args) : k \in DOMAIN o.insts[b]})
                     : b \in DOMAIN o.insts}

(* The rewritten function reads no version whose definition it has lost.   *)
NothingDangles ==
    phase = "done" /\ prog \in Executed => Used(out) \cap Defined(prog) \subseteq Defined(out)

(* The original function reads no variable it has not assigned. *)
ReadsAssigned == Running => Undef \notin Range(Values(Orig, env))

(* Nor does the rewritten one, which a substitution could make read a      *)
(* version before its definition.  A plain jump tests nothing.             *)
NewReadsAssigned == Running /\ New.op # "br" => Undef \notin Range(Values(New, outEnv))

(* What depends on a value on entry: the least set of versions with those  *)
(* values and with all that phis and instructions other than loads make of *)
(* a member.  A value on entry has no lattice entry (sccp.rs:367), so these*)
(* may stay unknown.                                                       *)
KeepsDependents(p, S) ==
    /\ LiveIns(p) \subseteq S
    /\ \A b \in DOMAIN p.insts :
         /\ \A k \in DOMAIN p.phis[b] :
              Range(p.phis[b][k].in) \cap S # {} => p.phis[b][k].dst \in S
         /\ \A k \in DOMAIN p.insts[b] :
              /\ p.insts[b][k].op \in DefOps \ {"load"}
              /\ Range(p.insts[b][k].args) \cap S # {}
              => p.insts[b][k].dst \in S

FromEntry ==
    [p \in Executed |->
        LET kept == {S \in SUBSET Vers : KeepsDependents(p, S)}
        IN  {v \in Vers : \A S \in kept : v \in S}]

(* No join that is read was taken for a constant although an edge brings it*)
(* what depends on a value on entry: not the case of LiveInJoins.          *)
EntryApart ==
    phase = "done" /\ prog \in Executed => \A b \in execBlocks : \A k \in DOMAIN prog.phis[b] :
        LET p == prog.phis[b][k] IN
        p.dst \in Read(prog) /\ lat[p.dst] \in Int => LiveInputs(p, b) \cap FromEntry[prog] = {}

(* At the end of a round the phis have seen every edge the round marked    *)
(* ("each executable incoming edge contributes", sccp.rs:112): not the case*)
(* of LateEdges.                                                           *)
Covered == prog \in Executed => RoundsCover

(* No phi reads a phi that was removed: a substitution is made once a pass,*)
(* is not followed through a second removed phi, and a kept phi takes no   *)
(* constant (sccp.rs:230-245).  Not the case of Cascades.                  *)
Joined(o) == UNION {{o.phis[b][k].dst : k \in DOMAIN o.phis[b]} : b \in DOMAIN o.insts}

Apart ==
    \A b \in execBlocks : \A k \in DOMAIN prog.phis[b] :
        LiveInputs(prog.phis[b][k], b) \cap Joined(prog) \subseteq Joined(out)

RemovedApart == phase = "done" /\ prog \in Executed => Apart

(* The pass leaves nothing out on an executed function: no edge brings a   *)
(* join that is read and held constant anything else, and no use is left of*)
(* a phi that was removed.  The theorems on constants and behaviour assume *)
(* these two, and derive the first from EntryApart and Covered, the other  *)
(* from Covered and RemovedApart.                                          *)
PassComplete ==
    /\ EntryApart /\ Covered /\ RemovedApart
    /\ JoinsAgree /\ NothingDangles
=============================================================================
