--------------------------- MODULE ProjectDbProofs ---------------------------
(***************************************************************************)
(* What holds of the project database for every set of records and         *)
(* cross-references and every limit of the undo stack: the types, the      *)
(* agreement of both cross-reference indexes and the bound of the history; *)
(* and, where callers add objects only at free addresses and every record  *)
(* decodes, that undo and redo keep the promise of ProjectHistory.         *)
(***************************************************************************)
EXTENDS ProjectDb, SequenceTheorems, TLAPS

-----------------------------------------------------------------------------
(* Sequences                                                               *)

LEMMA TrimType ==
  ASSUME NEW S, NEW s \in Seq(S), NEW e \in S
  PROVE  Trim(Append(s, e)) \in Seq(S)
BY HeadTailProperties DEF Trim

LEMMA FrontType ==
  ASSUME NEW S, NEW s \in Seq(S), s # <<>>
  PROVE  /\ Front(s) \in Seq(S) /\ Last(s) \in S
         /\ Len(Front(s)) = Len(s) - 1 /\ Len(s) > 0
         /\ \A i \in 1 .. Len(s) - 1 : Front(s)[i] = s[i]
<1>1. Len(s) \in Nat /\ Len(s) > 0 /\ s = [i \in 1 .. Len(s) |-> s[i]]
  BY EmptySeq
<1>2. /\ SubSeq(s, 1, Len(s) - 1) \in Seq(S)
      /\ Len(SubSeq(s, 1, Len(s) - 1)) = Len(s) - 1
      /\ \A i \in 1 .. Len(s) - 1 : SubSeq(s, 1, Len(s) - 1)[i] = s[i]
  BY <1>1, SubSeqProperties
<1> QED
  BY <1>1, <1>2 DEF Front, Last

LEMMA TrimLength ==
  ASSUME NEW S, NEW s \in Seq(S), NEW e \in S
  PROVE  Len(Trim(Append(s, e))) = IF Len(s) + 1 > MaxSize THEN Len(s) ELSE Len(s) + 1
<1>1. /\ Append(s, e) \in Seq(S) /\ Append(s, e) # <<>>
      /\ Len(Append(s, e)) = Len(s) + 1 /\ Len(s) \in Nat
  BY AppendProperties, EmptySeq, LenProperties
<1>2. Len(Tail(Append(s, e))) = Len(s)
  BY <1>1, HeadTailProperties
<1> QED
  BY <1>1, <1>2, MaxSizeAssumption DEF Trim

LEMMA FrontLast ==
  ASSUME NEW S, NEW s \in Seq(S), s # <<>>
  PROVE  Append(Front(s), Last(s)) = s
<1>1. /\ Front(s) \in Seq(S) /\ Last(s) \in S /\ Len(Front(s)) = Len(s) - 1
      /\ Len(s) \in Nat /\ Len(s) > 0
      /\ \A i \in 1 .. Len(s) - 1 : Front(s)[i] = s[i]
  BY FrontType, LenProperties
<1> DEFINE t == Append(Front(s), Last(s))
<1>2. /\ t \in Seq(S) /\ Len(t) = Len(s) /\ t[Len(s)] = Last(s)
      /\ \A i \in 1 .. Len(s) - 1 : t[i] = s[i]
  BY <1>1, AppendProperties
<1>3. \A i \in 1 .. Len(s) : t[i] = s[i]
  BY <1>1, <1>2 DEF Last
<1> HIDE DEF t
<1>4. t = s
  BY <1>2, <1>3, SeqEqual
<1> QED
  BY <1>4 DEF t

-----------------------------------------------------------------------------
(* Contents and the actions of a history                                   *)

LEMMA XrefSites == \A x \in Xrefs : x.from \in Addrs /\ x.to \in Addrs
BY DEF Addrs, Sited

LEMMA PutType ==
  ASSUME NEW c \in Contents, NEW s \in Slots, NEW v \in Payload \cup {None}
  PROVE  Put(c, s, v) \in Contents
BY DEF Put, Contents

LEMMA LinkType ==
  ASSUME NEW c \in Contents, NEW x \in Xrefs
  PROVE  LinkXref(c, x) \in Contents /\ UnlinkXref(c, x) \in Contents
<1>1. x.from \in Addrs /\ x.to \in Addrs
  BY XrefSites
<1>2. /\ [c.outgoing EXCEPT ![x.from] = @ \cup {x}] \in [Addrs -> SUBSET Xrefs]
      /\ [c.outgoing EXCEPT ![x.from] = @ \ {x}] \in [Addrs -> SUBSET Xrefs]
  BY <1>1 DEF Contents
<1>3. /\ [c.incoming EXCEPT ![x.to] = @ \cup {x}] \in [Addrs -> SUBSET Xrefs]
      /\ [c.incoming EXCEPT ![x.to] = @ \ {x}] \in [Addrs -> SUBSET Xrefs]
  BY <1>1 DEF Contents
<1> QED
  BY <1>2, <1>3 DEF Contents, LinkXref, UnlinkXref

(* The four kinds of recorded action.                                      *)
LEMMA ActionCases ==
  ASSUME NEW act \in Actions
  PROVE  \/ act.op = "create" /\ act.slot \in Slots /\ act.rec \in Payload
         \/ act.op = "delete" /\ act.slot \in Slots /\ act.rec \in Payload
         \/ /\ act.op = "change" /\ act.slot \in Slots
            /\ act.old \in Payload \cup {None} /\ act.new \in Payload \cup {None}
         \/ act.op = "link" /\ act.xref \in Xrefs
BY DEF Actions, Create, Delete, Change, Link

LEMMA StepType ==
  ASSUME NEW c \in Contents, NEW act \in Actions
  PROVE  Apply(c, act) \in Contents /\ Revert(c, act) \in Contents
BY ActionCases, PutType, LinkType DEF Apply, Revert

LEMMA PutAgrees ==
  ASSUME NEW c \in Contents, NEW s, NEW v, Agree(c)
  PROVE  Agree(Put(c, s, v))
BY DEF Agree, Put, Contents

LEMMA LinkAgrees ==
  ASSUME NEW c \in Contents, NEW x \in Xrefs, Agree(c)
  PROVE  Agree(LinkXref(c, x)) /\ Agree(UnlinkXref(c, x))
<1>1. x.from \in Addrs /\ x.to \in Addrs
  BY XrefSites
<1>2. \A a \in Addrs :
        /\ LinkXref(c, x).outgoing[a] = c.outgoing[a] \cup (IF a = x.from THEN {x} ELSE {})
        /\ LinkXref(c, x).incoming[a] = c.incoming[a] \cup (IF a = x.to THEN {x} ELSE {})
        /\ UnlinkXref(c, x).outgoing[a] = c.outgoing[a] \ (IF a = x.from THEN {x} ELSE {})
        /\ UnlinkXref(c, x).incoming[a] = c.incoming[a] \ (IF a = x.to THEN {x} ELSE {})
  BY <1>1 DEF LinkXref, UnlinkXref, Contents
<1>3. Agree(LinkXref(c, x))
  BY <1>1, <1>2, XrefSites DEF Agree
<1>4. Agree(UnlinkXref(c, x))
  BY <1>1, <1>2, XrefSites DEF Agree
<1> QED
  BY <1>3, <1>4

LEMMA StepAgrees ==
  ASSUME NEW c \in Contents, NEW act \in Actions, Agree(c)
  PROVE  Agree(Apply(c, act)) /\ Agree(Revert(c, act))
BY ActionCases, PutAgrees, LinkAgrees DEF Apply, Revert

-----------------------------------------------------------------------------
(* Types, agreement of the indexes, bound of the history                   *)

(* The history variables keep pace with the stacks.                        *)
Paced == Len(past) = Len(undo) /\ Len(future) = Len(redo)

Sound == TypeOK /\ XrefsAgree /\ HistoryBounded /\ Paced

(* An edit that records act.                                               *)
LEMMA PushSound ==
  ASSUME Sound, NEW act \in Actions, NEW c \in Contents, Agree(c),
         Become(c), Push(act), UNCHANGED disk
  PROVE  Sound' /\ Content' = c
<1>1. Content' = c
  BY DEF Become, Content, Contents
<1>2. TypeOK'
  BY <1>1, TrimType, EmptySeq DEF Sound, TypeOK, Push
<1>3. XrefsAgree'
  BY <1>1 DEF Sound, XrefsAgree
<1>4. Len(undo') <= MaxSize /\ redo' = <<>>
  BY MaxSizeAssumption, HeadTailProperties, AppendProperties, LenProperties
     DEF Sound, TypeOK, HistoryBounded, Push, Trim
<1>5. HistoryBounded'
  BY <1>2, <1>4, MaxSizeAssumption DEF HistoryBounded, TypeOK
<1>6. Paced'
  BY HeadTailProperties, AppendProperties, LenProperties
     DEF Sound, TypeOK, Paced, Push, Trim
<1> QED
  BY <1>1, <1>2, <1>3, <1>5, <1>6 DEF Sound

LEMMA UndoSound ==
  ASSUME Sound, Undo
  PROVE  Sound' /\ Content' = Revert(Content, Last(undo))
<1> DEFINE c == Revert(Content, Last(undo))
<1>0. undo # <<>> /\ past # <<>>
  BY EmptySeq DEF Sound, TypeOK, Paced, Undo
<1>1. c \in Contents /\ Agree(c) /\ Content \in Contents
  BY <1>0, FrontType, StepType, StepAgrees DEF Sound, TypeOK, XrefsAgree
<1>2. Content' = c
  BY <1>1 DEF Undo, Become, Content, Contents
<1>3. TypeOK'
  <2>1. undo' \in Seq(Actions) /\ redo' \in Seq(Actions)
    BY <1>0, FrontType, AppendProperties DEF Sound, TypeOK, Undo
  <2>2. past' \in Seq(Contents) /\ future' \in Seq(Contents)
    BY <1>0, <1>1, FrontType, AppendProperties DEF Sound, TypeOK, Undo
  <2> QED
    BY <1>1, <1>2, <2>1, <2>2 DEF Sound, TypeOK, Undo
<1>4. XrefsAgree'
  BY <1>1, <1>2 DEF Sound, XrefsAgree, Undo
<1>5. HistoryBounded' /\ Paced'
  <2>1. Last(undo) \in Actions
    BY <1>0, FrontType DEF Sound, TypeOK
  <2>2. Len(undo') = Len(undo) - 1 /\ Len(past') = Len(past) - 1
    BY <1>0, FrontType DEF Sound, TypeOK, Undo
  <2>3. Len(redo') = Len(redo) + 1 /\ Len(future') = Len(future) + 1
    BY <1>1, <2>1, AppendProperties DEF Sound, TypeOK, Undo
  <2>4. Len(undo) \in Nat /\ Len(redo) \in Nat
    BY LenProperties DEF Sound, TypeOK
  <2> QED
    BY <2>2, <2>3, <2>4, MaxSizeAssumption DEF Sound, HistoryBounded, Paced
<1> QED
  BY <1>2, <1>3, <1>4, <1>5 DEF Sound

(* An undo makes undo shorter and redo longer.                             *)
LEMMA UndoMoves ==
  ASSUME Sound, Undo
  PROVE  Len(undo') = Len(undo) - 1 /\ Len(redo') = Len(redo) + 1
         /\ Len(undo) \in Nat /\ Len(redo) \in Nat /\ redo' # <<>>
<1>1. undo \in Seq(Actions) /\ redo \in Seq(Actions) /\ undo # <<>>
  BY DEF Sound, TypeOK, Undo
<1>2. Last(undo) \in Actions /\ Len(Front(undo)) = Len(undo) - 1
  BY <1>1, FrontType
<1> QED
  BY <1>1, <1>2, AppendProperties, LenProperties DEF Undo

LEMMA RedoSound ==
  ASSUME Sound, Redo
  PROVE  Sound' /\ Content' = Apply(Content, Last(redo))
<1> DEFINE c == Apply(Content, Last(redo))
<1>0. redo # <<>> /\ future # <<>>
  BY EmptySeq DEF Sound, TypeOK, Paced, Redo
<1>1. c \in Contents /\ Agree(c) /\ Content \in Contents
  BY <1>0, FrontType, StepType, StepAgrees DEF Sound, TypeOK, XrefsAgree
<1>2. Content' = c
  BY <1>1 DEF Redo, Become, Content, Contents
<1>3. TypeOK'
  BY <1>0, <1>1, <1>2, FrontType, TrimType DEF Sound, TypeOK, Redo
<1>4. XrefsAgree'
  BY <1>1, <1>2 DEF Sound, XrefsAgree, Redo
<1>5. HistoryBounded' /\ Paced'
  <2>1. Len(redo') = Len(redo) - 1 /\ Len(future') = Len(future) - 1
    BY <1>0, FrontType DEF Sound, TypeOK, Redo
  <2>2. Last(redo) \in Actions
    BY <1>0, FrontType DEF Sound, TypeOK
  <2>3. /\ Len(undo') = IF Len(undo) + 1 > MaxSize THEN Len(undo) ELSE Len(undo) + 1
        /\ Len(past') = IF Len(past) + 1 > MaxSize THEN Len(past) ELSE Len(past) + 1
    BY <1>1, <2>2, TrimLength DEF Sound, TypeOK, Redo
  <2>4. Len(undo) \in Nat /\ Len(redo) \in Nat /\ Len(redo) > 0
    BY <1>0, FrontType, LenProperties DEF Sound, TypeOK
  <2> QED
    BY <2>1, <2>3, <2>4, MaxSizeAssumption DEF Sound, HistoryBounded, Paced
<1> QED
  BY <1>2, <1>3, <1>4, <1>5 DEF Sound

(* A failed undo leaves the stack as it was.                               *)
LEMMA FailureIsSilent ==
  ASSUME Sound, UndoFails \/ RedoFails
  PROVE  UNCHANGED vars
<1>1. CASE UndoFails
  <2>1. undo \in Seq(Actions) /\ undo # <<>> /\ Len(undo) <= MaxSize
    BY <1>1, LenProperties, MaxSizeAssumption DEF Sound, TypeOK, HistoryBounded, UndoFails
  <2>2. Append(Front(undo), Last(undo)) = undo
    BY <2>1, FrontLast
  <2> QED
    BY <1>1, <2>1, <2>2, LenProperties, MaxSizeAssumption DEF UndoFails, Trim, vars
<1>2. CASE RedoFails
  <2>1. redo \in Seq(Actions) /\ redo # <<>>
    BY <1>2 DEF Sound, TypeOK, RedoFails
  <2>2. Append(Front(redo), Last(redo)) = redo
    BY <2>1, FrontLast
  <2> QED
    BY <1>2, <2>2 DEF RedoFails, vars
<1> QED
  BY <1>1, <1>2
-----------------------------------------------------------------------------
(* The edits                                                               *)

(* A step that leads to content c and records act.                         *)
Records(act, c) == Become(c) /\ Push(act) /\ UNCHANGED disk

(* Every edit but the removal of an undecodable record records an action   *)
(* of the right type.                                                      *)
Recorded ==
  \E act \in Actions, c \in Contents : Records(act, c) /\ Agree(c)

(* Every step is recorded, walks the history, or leaves it alone.          *)
LEMMA NextCases ==
  ASSUME Sound, Next
  PROVE  \/ Recorded
         \/ \E s \in Slots : /\ recs[s] \in Undecodable
                            /\ Become(Put(Content, s, None))
                            /\ UNCHANGED <<disk, stacks>>
         \/ Undo \/ UndoFails \/ Redo \/ RedoFails \/ Flush \/ Reopen
<1>0. Content \in Contents /\ Agree(Content) /\ recs \in [Slots -> Payload \cup {None}]
  BY DEF Sound, TypeOK, XrefsAgree, Content, Contents
<1>1. ASSUME NEW s \in Slots, NEW v \in Readable, AddObject(s, v)
      PROVE  Recorded
  <2>1. Put(Content, s, v) \in Contents /\ Agree(Put(Content, s, v))
    BY <1>0, PutType, PutAgrees DEF Readable
  <2>2. Create(s, v) \in Actions
    BY DEF Actions, Readable
  <2> QED
    BY <1>1, <2>1, <2>2 DEF AddObject, Recorded, Records
<1>2. ASSUME NEW s \in Slots, NEW v \in Readable, UpdateFunction(s, v) \/ SetNote(s, v)
      PROVE  Recorded
  <2>1. Put(Content, s, v) \in Contents /\ Agree(Put(Content, s, v))
    BY <1>0, PutType, PutAgrees DEF Readable
  <2>2. Change(s, recs[s], v) \in Actions
    BY <1>0 DEF Actions, Readable
  <2> QED
    BY <1>2, <2>1, <2>2 DEF UpdateFunction, SetNote, Recorded, Records
<1>3. ASSUME NEW s \in Slots, RemoveRecord(s), recs[s] \notin Undecodable
      PROVE  Recorded
  <2>1. Put(Content, s, None) \in Contents /\ Agree(Put(Content, s, None))
    BY <1>0, PutType, PutAgrees
  <2>2. recs[s] \in Payload
    BY <1>0, <1>3 DEF RemoveRecord
  <2>3. Delete(s, recs[s]) \in Actions /\ Change(s, recs[s], None) \in Actions
    BY <2>2 DEF Actions
  <2> QED
    BY <1>3, <2>1, <2>3 DEF RemoveRecord, Recorded, Records
<1>4. ASSUME NEW s \in Slots, RemoveRecord(s), recs[s] \in Undecodable
      PROVE  /\ Become(Put(Content, s, None))
             /\ UNCHANGED <<disk, stacks>>
  BY <1>4 DEF RemoveRecord
<1>5. ASSUME NEW x \in Xrefs, AddXref(x)
      PROVE  Recorded
  <2>1. LinkXref(Content, x) \in Contents /\ Agree(LinkXref(Content, x))
    BY <1>0, LinkType, LinkAgrees
  <2>2. Link(x) \in Actions
    BY DEF Actions
  <2> QED
    BY <1>5, <2>1, <2>2 DEF AddXref, Recorded, Records
<1> QED
  BY <1>1, <1>2, <1>3, <1>4, <1>5 DEF Next

LEMMA NextSound ==
  ASSUME Sound, [Next]_vars
  PROVE  Sound'
<1>1. CASE Recorded
  BY <1>1, PushSound DEF Recorded, Records
<1>2. ASSUME NEW s \in Slots, Become(Put(Content, s, None)), UNCHANGED <<disk, stacks>>
      PROVE  Sound'
  <2>1. Content \in Contents /\ Agree(Content)
    BY DEF Sound, TypeOK, XrefsAgree
  <2>2. Put(Content, s, None) \in Contents /\ Agree(Put(Content, s, None))
    BY <2>1, PutType, PutAgrees
  <2>3. Content' = Put(Content, s, None)
    BY <1>2, <2>2 DEF Become, Content, Contents
  <2> QED
    BY <1>2, <2>2, <2>3 DEF Sound, TypeOK, XrefsAgree, HistoryBounded, Paced, stacks
<1>3. CASE Undo
  BY <1>3, UndoSound
<1>4. CASE Redo
  BY <1>4, RedoSound
<1>5. CASE UndoFails \/ RedoFails \/ UNCHANGED vars
  <2>1. UNCHANGED vars
    BY <1>5, FailureIsSilent
  <2> QED
    BY <2>1 DEF vars, Sound, TypeOK, XrefsAgree, HistoryBounded, Paced, Content
<1>6. CASE Flush
  BY <1>6 DEF Flush, stacks, Sound, TypeOK, XrefsAgree, HistoryBounded, Paced, Content
<1>7. CASE Reopen
  <2>1. Content' = disk
    BY <1>7 DEF Reopen, Become, Content, Contents, Sound, TypeOK
  <2> QED
    BY <1>7, <2>1, MaxSizeAssumption, EmptySeq
       DEF Reopen, Sound, TypeOK, XrefsAgree, HistoryBounded, Paced
<1> QED
  BY <1>1, <1>2, <1>3, <1>4, <1>5, <1>6, <1>7, NextCases

LEMMA InitSound == Init => Sound
<1> SUFFICES ASSUME Init PROVE Sound
  OBVIOUS
<1>1. PICK L \in SUBSET Xrefs :
        /\ outgoing = [a \in Addrs |-> {x \in L : x.from = a}]
        /\ incoming = [a \in Addrs |-> {x \in L : x.to = a}]
  BY DEF Init
<1>2. Content \in Contents
  BY <1>1 DEF Init, Content, Contents
<1>3. Agree(Content)
  BY <1>1, XrefSites DEF Agree, Content
<1> QED
  BY <1>2, <1>3, EmptySeq, MaxSizeAssumption
     DEF Init, Sound, TypeOK, XrefsAgree, HistoryBounded, Paced

(* Types, agreement of the indexes and the bound, in every state.          *)
THEOREM Soundness == Spec => []Sound
<1> QED
  BY InitSound, NextSound, PTL DEF Spec

(* The trees, the durable content and both stacks keep their types.        *)
THEOREM TypesKept == Spec => []TypeOK
BY Soundness, PTL DEF Sound

(* The forward and the backward cross-reference index agree, in memory and *)
(* on disk, after any edits, undos, redos and crashes (add_xref_internal   *)
(* and remove_xref_internal).                                              *)
THEOREM IndexesAgree == Spec => []XrefsAgree
BY Soundness, PTL DEF Sound

(* Undo and redo together stay within UndoStack::max_size.                 *)
THEOREM HistoryStaysBounded == Spec => []HistoryBounded
BY Soundness, PTL DEF Sound
-----------------------------------------------------------------------------
(* Chains of actions                                                       *)

LEMMA ChainAppend ==
  ASSUME NEW a \in Seq(Actions), NEW b \in Seq(Contents), NEW act \in Actions,
         NEW c \in Contents, NEW d, Chain(a, b, c), Leads(act, c, d)
  PROVE  Chain(Append(a, act), Append(b, c), d)
<1>1. /\ Len(Append(a, act)) = Len(a) + 1 /\ Append(a, act)[Len(a) + 1] = act
      /\ \A i \in 1 .. Len(a) : Append(a, act)[i] = a[i]
  BY AppendProperties
<1>2. /\ Len(Append(b, c)) = Len(b) + 1 /\ Append(b, c)[Len(b) + 1] = c
      /\ \A i \in 1 .. Len(b) : Append(b, c)[i] = b[i]
  BY AppendProperties
<1>3. Len(a) \in Nat /\ Len(b) = Len(a)
  BY LenProperties DEF Chain
<1>4. ASSUME NEW i \in 1 .. Len(a) + 1
      PROVE  Leads(Append(a, act)[i], Append(b, c)[i],
                   IF i = Len(a) + 1 THEN d ELSE Append(b, c)[i + 1])
  <2>1. CASE i = Len(a) + 1
    BY <1>1, <1>2, <1>3, <2>1
  <2>2. CASE i = Len(a) /\ i > 0
    BY <1>1, <1>2, <1>3, <2>2 DEF Chain
  <2>3. CASE i < Len(a)
    BY <1>1, <1>2, <1>3, <2>3 DEF Chain
  <2> QED
    BY <1>3, <2>1, <2>2, <2>3
<1> QED
  BY <1>1, <1>2, <1>3, <1>4 DEF Chain

LEMMA ChainTail ==
  ASSUME NEW a \in Seq(Actions), NEW b \in Seq(Contents), NEW c,
         Chain(a, b, c), a # <<>>
  PROVE  Chain(Tail(a), Tail(b), c)
<1>1. Len(a) \in Nat /\ Len(a) > 0 /\ Len(b) = Len(a) /\ b # <<>>
  BY LenProperties, EmptySeq DEF Chain
<1>2. /\ Len(Tail(a)) = Len(a) - 1 /\ Len(Tail(b)) = Len(a) - 1
      /\ \A i \in 1 .. Len(a) - 1 : Tail(a)[i] = a[i + 1] /\ Tail(b)[i] = b[i + 1]
  BY <1>1, HeadTailProperties
<1>3. ASSUME NEW i \in 1 .. Len(a) - 1
      PROVE  Leads(Tail(a)[i], Tail(b)[i], IF i = Len(a) - 1 THEN c ELSE Tail(b)[i + 1])
  <2>1. i + 1 \in 1 .. Len(a)
    BY <1>1
  <2>2. Leads(a[i + 1], b[i + 1], IF i + 1 = Len(a) THEN c ELSE b[i + 2])
    BY <1>1, <2>1 DEF Chain
  <2> QED
    BY <1>1, <1>2, <2>2
<1> QED
  BY <1>1, <1>2, <1>3 DEF Chain

LEMMA ChainTrim ==
  ASSUME NEW a \in Seq(Actions), NEW b \in Seq(Contents), NEW act \in Actions,
         NEW c \in Contents, NEW d, Chain(a, b, c), Leads(act, c, d)
  PROVE  Chain(Trim(Append(a, act)), Trim(Append(b, c)), d)
<1>1. Chain(Append(a, act), Append(b, c), d)
  BY ChainAppend
<1>2. /\ Append(a, act) \in Seq(Actions) /\ Append(b, c) \in Seq(Contents)
      /\ Append(a, act) # <<>>
  BY AppendProperties
<1>3. Chain(Tail(Append(a, act)), Tail(Append(b, c)), d)
  BY <1>1, <1>2, ChainTail
<1>4. Len(Append(a, act)) = Len(Append(b, c))
  BY <1>1 DEF Chain
<1> QED
  BY <1>1, <1>3, <1>4 DEF Trim

LEMMA ChainFront ==
  ASSUME NEW a \in Seq(Actions), NEW b \in Seq(Contents), NEW c,
         Chain(a, b, c), a # <<>>
  PROVE  /\ Leads(Last(a), Last(b), c)
         /\ Chain(Front(a), Front(b), Last(b))
<1>1. Len(a) \in Nat /\ Len(a) > 0 /\ Len(b) = Len(a) /\ b # <<>>
  BY LenProperties, EmptySeq DEF Chain
<1>2. /\ Len(Front(a)) = Len(a) - 1 /\ Len(Front(b)) = Len(a) - 1
      /\ \A i \in 1 .. Len(a) - 1 : Front(a)[i] = a[i] /\ Front(b)[i] = b[i]
  BY <1>1, FrontType
<1>3. Leads(Last(a), Last(b), c)
  BY <1>1 DEF Chain, Last
<1>4. ASSUME NEW i \in 1 .. Len(a) - 1
      PROVE  Leads(Front(a)[i], Front(b)[i], IF i = Len(a) - 1 THEN Last(b) ELSE Front(b)[i + 1])
  <2>1. Leads(a[i], b[i], b[i + 1])
    BY <1>1 DEF Chain
  <2> QED
    BY <1>1, <1>2, <2>1 DEF Last
<1> QED
  BY <1>1, <1>2, <1>3, <1>4 DEF Chain

LEMMA BackChainAppend ==
  ASSUME NEW a \in Seq(Actions), NEW b \in Seq(Contents), NEW act \in Actions,
         NEW c \in Contents, NEW d, BackChain(a, b, c), Leads(act, d, c)
  PROVE  BackChain(Append(a, act), Append(b, c), d)
<1>1. /\ Len(Append(a, act)) = Len(a) + 1 /\ Append(a, act)[Len(a) + 1] = act
      /\ \A i \in 1 .. Len(a) : Append(a, act)[i] = a[i]
  BY AppendProperties
<1>2. /\ Len(Append(b, c)) = Len(b) + 1 /\ Append(b, c)[Len(b) + 1] = c
      /\ \A i \in 1 .. Len(b) : Append(b, c)[i] = b[i]
  BY AppendProperties
<1>3. Len(a) \in Nat /\ Len(b) = Len(a)
  BY LenProperties DEF BackChain
<1>4. ASSUME NEW i \in 1 .. Len(a) + 1
      PROVE  Leads(Append(a, act)[i], IF i = Len(a) + 1 THEN d ELSE Append(b, c)[i + 1],
                   Append(b, c)[i])
  <2>1. CASE i = Len(a) + 1
    BY <1>1, <1>2, <1>3, <2>1
  <2>2. CASE i = Len(a) /\ i > 0
    BY <1>1, <1>2, <1>3, <2>2 DEF BackChain
  <2>3. CASE i < Len(a)
    BY <1>1, <1>2, <1>3, <2>3 DEF BackChain
  <2> QED
    BY <1>3, <2>1, <2>2, <2>3
<1> QED
  BY <1>1, <1>2, <1>3, <1>4 DEF BackChain

LEMMA BackChainFront ==
  ASSUME NEW a \in Seq(Actions), NEW b \in Seq(Contents), NEW c,
         BackChain(a, b, c), a # <<>>
  PROVE  /\ Leads(Last(a), c, Last(b))
         /\ BackChain(Front(a), Front(b), Last(b))
<1>1. Len(a) \in Nat /\ Len(a) > 0 /\ Len(b) = Len(a) /\ b # <<>>
  BY LenProperties, EmptySeq DEF BackChain
<1>2. /\ Len(Front(a)) = Len(a) - 1 /\ Len(Front(b)) = Len(a) - 1
      /\ \A i \in 1 .. Len(a) - 1 : Front(a)[i] = a[i] /\ Front(b)[i] = b[i]
  BY <1>1, FrontType
<1>3. Leads(Last(a), c, Last(b))
  BY <1>1 DEF BackChain, Last
<1>4. ASSUME NEW i \in 1 .. Len(a) - 1
      PROVE  Leads(Front(a)[i], IF i = Len(a) - 1 THEN Last(b) ELSE Front(b)[i + 1], Front(b)[i])
  <2>1. Leads(a[i], b[i + 1], b[i])
    BY <1>1 DEF BackChain
  <2> QED
    BY <1>1, <1>2, <2>1 DEF Last
<1> QED
  BY <1>1, <1>2, <1>3, <1>4 DEF BackChain

-----------------------------------------------------------------------------
(* What each edit records leads from the old content to the new one.       *)

LEMMA PutLeads ==
  ASSUME NEW c \in Contents, NEW s \in Slots, NEW v
  PROVE  /\ c.recs[s] = None => Leads(Create(s, v), c, Put(c, s, v))
         /\ Leads(Delete(s, c.recs[s]), c, Put(c, s, None))
         /\ Leads(Change(s, c.recs[s], v), c, Put(c, s, v))
<1>1. Put(Put(c, s, v), s, c.recs[s]) = c /\ Put(Put(c, s, None), s, c.recs[s]) = c
  BY DEF Put, Contents
<1>2. /\ Apply(c, Create(s, v)) = Put(c, s, v)
      /\ Apply(c, Delete(s, c.recs[s])) = Put(c, s, None)
      /\ Apply(c, Change(s, c.recs[s], v)) = Put(c, s, v)
  BY DEF Apply, Create, Delete, Change
<1>3. \A d : /\ Revert(d, Create(s, v)) = Put(d, s, None)
             /\ Revert(d, Delete(s, c.recs[s])) = Put(d, s, c.recs[s])
             /\ Revert(d, Change(s, c.recs[s], v)) = Put(d, s, c.recs[s])
  BY DEF Revert, Create, Delete, Change
<1> QED
  BY <1>1, <1>2, <1>3 DEF Leads

LEMMA AddThenRemove ==
  ASSUME NEW f \in [Addrs -> SUBSET Xrefs], NEW a \in Addrs, NEW x, x \notin f[a]
  PROVE  [[f EXCEPT ![a] = @ \cup {x}] EXCEPT ![a] = @ \ {x}] = f
<1> DEFINE g == [f EXCEPT ![a] = @ \cup {x}]
<1>1. g[a] = f[a] \cup {x} /\ \A b \in Addrs \ {a} : g[b] = f[b]
  OBVIOUS
<1>2. g[a] \ {x} = f[a]
  BY <1>1
<1>3. DOMAIN g = Addrs
  OBVIOUS
<1> HIDE DEF g
<1>4. [g EXCEPT ![a] = @ \ {x}] = [b \in Addrs |-> f[b]]
  BY <1>1, <1>2, <1>3
<1> QED
  BY <1>4 DEF g

LEMMA LinkLeads ==
  ASSUME NEW c \in Contents, NEW x \in Xrefs, Agree(c), x \notin c.outgoing[x.from]
  PROVE  Leads(Link(x), c, LinkXref(c, x))
<1>1. x.from \in Addrs /\ x.to \in Addrs /\ x \notin c.incoming[x.to]
  BY XrefSites DEF Agree
<1> DEFINE d == LinkXref(c, x)
<1>2. /\ [d.outgoing EXCEPT ![x.from] = @ \ {x}] = c.outgoing
      /\ [d.incoming EXCEPT ![x.to] = @ \ {x}] = c.incoming
      /\ d.recs = c.recs
  <2>1. c.outgoing \in [Addrs -> SUBSET Xrefs] /\ c.incoming \in [Addrs -> SUBSET Xrefs]
    BY DEF Contents
  <2>2. /\ [[c.outgoing EXCEPT ![x.from] = @ \cup {x}] EXCEPT ![x.from] = @ \ {x}] = c.outgoing
        /\ [[c.incoming EXCEPT ![x.to] = @ \cup {x}] EXCEPT ![x.to] = @ \ {x}] = c.incoming
    BY <1>1, <2>1, AddThenRemove
  <2>3. /\ d.outgoing = [c.outgoing EXCEPT ![x.from] = @ \cup {x}]
        /\ d.incoming = [c.incoming EXCEPT ![x.to] = @ \cup {x}]
        /\ d.recs = c.recs
    BY DEF LinkXref
  <2> HIDE DEF d
  <2> QED
    BY <2>2, <2>3
<1> HIDE DEF d
<1>3. UnlinkXref(d, x) = [recs |-> c.recs, outgoing |-> c.outgoing, incoming |-> c.incoming]
  BY <1>2 DEF UnlinkXref
<1>4. UnlinkXref(d, x) = c
  BY <1>3 DEF Contents
<1>5. Apply(c, Link(x)) = LinkXref(c, x) /\ Revert(d, Link(x)) = UnlinkXref(d, x)
  BY DEF Apply, Revert, Link
<1> QED
  BY <1>4, <1>5 DEF Leads, d
-----------------------------------------------------------------------------
(* Undo and redo keep the promise of a history, given that callers add     *)
(* objects only where there are none and that every record decodes.        *)

Careful == AddsAreNew = TRUE /\ Undecodable = {}

(* The steps a careful caller sees.                                        *)
LEMMA CarefulCases ==
  ASSUME Careful, Sound, Next
  PROVE  \/ \E act \in Actions, c \in Contents :
              Records(act, c) /\ Agree(c) /\ Leads(act, Content, c)
         \/ Undo \/ UndoFails \/ Redo \/ RedoFails \/ Flush \/ Reopen
<1> DEFINE Faithful == \E act \in Actions, c \in Contents :
              Records(act, c) /\ Agree(c) /\ Leads(act, Content, c)
<1>0. /\ Content \in Contents /\ Agree(Content)
      /\ recs \in [Slots -> Payload \cup {None}] /\ Content.recs = recs
      /\ Content.outgoing = outgoing
  BY DEF Sound, TypeOK, XrefsAgree, Content, Contents
<1>1. ASSUME NEW s \in Slots, NEW v \in Readable, AddObject(s, v)
      PROVE  Faithful
  <2>1. Put(Content, s, v) \in Contents /\ Agree(Put(Content, s, v))
    BY <1>0, PutType, PutAgrees DEF Readable
  <2>2. Create(s, v) \in Actions
    BY DEF Actions, Readable
  <2>3. Leads(Create(s, v), Content, Put(Content, s, v))
    BY <1>0, <1>1, PutLeads DEF AddObject, Careful
  <2> QED
    BY <1>1, <2>1, <2>2, <2>3 DEF AddObject, Records
<1>2. ASSUME NEW s \in Slots, NEW v \in Readable, UpdateFunction(s, v) \/ SetNote(s, v)
      PROVE  Faithful
  <2>1. Put(Content, s, v) \in Contents /\ Agree(Put(Content, s, v))
    BY <1>0, PutType, PutAgrees DEF Readable
  <2>2. Change(s, recs[s], v) \in Actions
    BY <1>0 DEF Actions, Readable
  <2>3. Leads(Change(s, recs[s], v), Content, Put(Content, s, v))
    BY <1>0, PutLeads
  <2> QED
    BY <1>2, <2>1, <2>2, <2>3 DEF UpdateFunction, SetNote, Records
<1>3. ASSUME NEW s \in Slots, RemoveRecord(s)
      PROVE  Faithful
  <2>1. Put(Content, s, None) \in Contents /\ Agree(Put(Content, s, None))
    BY <1>0, PutType, PutAgrees
  <2>2. recs[s] \in Payload /\ recs[s] \notin Undecodable
    BY <1>0, <1>3 DEF RemoveRecord, Careful
  <2>3. Delete(s, recs[s]) \in Actions /\ Change(s, recs[s], None) \in Actions
    BY <2>2 DEF Actions
  <2>4. /\ Leads(Delete(s, recs[s]), Content, Put(Content, s, None))
        /\ Leads(Change(s, recs[s], None), Content, Put(Content, s, None))
    BY <1>0, PutLeads
  <2> QED
    BY <1>3, <2>1, <2>2, <2>3, <2>4 DEF RemoveRecord, Records
<1>4. ASSUME NEW x \in Xrefs, AddXref(x)
      PROVE  Faithful
  <2>1. LinkXref(Content, x) \in Contents /\ Agree(LinkXref(Content, x))
    BY <1>0, LinkType, LinkAgrees
  <2>2. Link(x) \in Actions
    BY DEF Actions
  <2>3. Leads(Link(x), Content, LinkXref(Content, x))
    BY <1>0, <1>4, LinkLeads DEF AddXref
  <2> QED
    BY <1>4, <2>1, <2>2, <2>3 DEF AddXref, Records
<1> QED
  BY <1>1, <1>2, <1>3, <1>4 DEF Next

LEMMA CarefulNext ==
  ASSUME Careful, Sound, Linked, [Next]_vars
  PROVE  /\ Linked'
         /\ Undo => Content' = Last(past)
         /\ [History!Next]_<<past, Content, future, disk>>
<1>0. /\ Content \in Contents /\ undo \in Seq(Actions) /\ redo \in Seq(Actions)
      /\ past \in Seq(Contents) /\ future \in Seq(Contents)
      /\ Len(past) = Len(undo) /\ Len(future) = Len(redo)
  BY DEF Sound, TypeOK, Paced
<1> DEFINE Goal == /\ Linked'
                   /\ Undo => Content' = Last(past)
                   /\ [History!Next]_<<past, Content, future, disk>>
<1>1. ASSUME NEW act \in Actions, NEW c \in Contents,
             Records(act, c), Agree(c), Leads(act, Content, c)
      PROVE  Goal
  <2>1. Content' = c
    BY <1>1, PushSound DEF Records
  <2>2. Chain(undo', past', Content')
    BY <1>0, <1>1, <2>1, ChainTrim DEF Records, Push, Linked
  <2>3. BackChain(redo', future', Content')
    BY <1>1, EmptySeq DEF Records, Push, BackChain
  <2>4. History!Edit
    BY <1>1 DEF History!Edit, History!Recent, Records, Push, Trim
  <2>5. ~ Undo
    BY <1>1, UndoMoves DEF Records, Push
  <2> QED
    BY <2>2, <2>3, <2>4, <2>5 DEF Linked, History!Next
<1>2. CASE Undo
  <2>1. undo # <<>> /\ past # <<>>
    BY <1>0, <1>2, EmptySeq DEF Undo
  <2>2. Content' = Revert(Content, Last(undo))
    BY <1>2, UndoSound
  <2>3. /\ Leads(Last(undo), Last(past), Content)
        /\ Chain(Front(undo), Front(past), Last(past))
    BY <1>0, <2>1, ChainFront DEF Linked
  <2>4. Content' = Last(past)
    BY <2>2, <2>3 DEF Leads
  <2>5. Last(undo) \in Actions
    BY <1>0, <2>1, FrontType
  <2>6. BackChain(redo', future', Content')
    BY <1>0, <1>2, <2>3, <2>4, <2>5, BackChainAppend DEF Undo, Linked
  <2>7. History!Undo
    BY <1>2, <2>1, <2>4 DEF History!Undo, Undo, History!Last, History!Front, Last, Front
  <2> QED
    BY <1>2, <2>3, <2>4, <2>6, <2>7 DEF Linked, Undo, History!Next
<1>3. CASE Redo
  <2>1. redo # <<>> /\ future # <<>>
    BY <1>0, <1>3, EmptySeq DEF Redo
  <2>2. Content' = Apply(Content, Last(redo))
    BY <1>3, RedoSound
  <2>3. /\ Leads(Last(redo), Content, Last(future))
        /\ BackChain(Front(redo), Front(future), Last(future))
    BY <1>0, <2>1, BackChainFront DEF Linked
  <2>4. Content' = Last(future)
    BY <2>2, <2>3 DEF Leads
  <2>5. Last(redo) \in Actions
    BY <1>0, <2>1, FrontType
  <2>6. Chain(undo', past', Content')
    BY <1>0, <1>3, <2>3, <2>4, <2>5, ChainTrim DEF Redo, Linked
  <2>7. History!Redo
    BY <1>3, <2>1, <2>4 DEF History!Redo, History!Recent, Redo, Trim, History!Last, History!Front, Last, Front
  <2>8. ~ Undo
    <3>1. Len(redo') = Len(redo) - 1
      BY <1>0, <1>3, <2>1, FrontType DEF Redo
    <3> QED
      BY <3>1, UndoMoves
  <2> QED
    BY <1>3, <2>3, <2>4, <2>6, <2>7, <2>8 DEF Linked, Redo, History!Next
<1>4. CASE UndoFails \/ RedoFails \/ UNCHANGED vars
  <2>1. UNCHANGED vars
    BY <1>4, FailureIsSilent
  <2>2. ~ Undo
    BY <2>1, UndoMoves DEF vars
  <2> QED
    BY <2>1, <2>2 DEF vars, Linked, Content
<1>5. CASE Flush
  <2>1. History!Save
    BY <1>5 DEF Flush, History!Save, Content, stacks
  <2>2. ~ Undo
    BY <1>5, UndoMoves DEF Flush, stacks
  <2> QED
    BY <1>5, <2>1, <2>2 DEF Flush, Linked, Content, stacks, History!Next
<1>6. CASE Reopen
  <2>1. Content' = disk
    BY <1>6 DEF Reopen, Become, Content, Contents, Sound, TypeOK
  <2>2. Linked'
    BY <1>6, EmptySeq DEF Reopen, Linked, Chain, BackChain
  <2>3. History!Reopen
    BY <1>6, <2>1 DEF Reopen, History!Reopen
  <2>4. ~ Undo
    BY <1>6, UndoMoves DEF Reopen
  <2> QED
    BY <2>2, <2>3, <2>4 DEF History!Next
<1> QED
  BY <1>1, <1>2, <1>3, <1>4, <1>5, <1>6, CarefulCases

LEMMA InitLinked == Init => Linked
BY EmptySeq DEF Init, Linked, Chain, BackChain

(* The recorded actions always connect the contents the project went       *)
(* through (Action, apply_action, revert_action).                          *)
THEOREM HistoryLinked == ASSUME Careful PROVE Spec => []Linked
<1> QED
  BY Soundness, InitLinked, CarefulNext, PTL DEF Spec

(* Undo brings back the whole content from before the last edit.           *)
THEOREM UndoIsExact == ASSUME Careful PROVE Spec => UndoRestores
<1> QED
  BY Soundness, HistoryLinked, CarefulNext, PTL DEF Spec, UndoRestores

(* The database with its two stacks of actions implements an abstract      *)
(* history of whole contents.                                              *)
THEOREM Refinement == ASSUME Careful PROVE Spec => ImplementsHistory
<1>1. Init => History!Init
  BY DEF Init, History!Init
<1> QED
  BY <1>1, Soundness, HistoryLinked, CarefulNext, PTL
     DEF Spec, ImplementsHistory, History!Spec, History!vars
=============================================================================
