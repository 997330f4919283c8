----------------------------- MODULE ProjectDb -----------------------------
(***************************************************************************)
(* The project database of FreakRE (crate project-db): keyed records       *)
(* (functions, bookmarks, labels, comments, types), a two-way index of     *)
(* cross-references, and the undo/redo stacks over both.                   *)
(*                                                                         *)
(* Every public operation runs to its end behind &mut self, so each is one *)
(* action here.  The trees live in sled: a write is visible at once and    *)
(* durable after a flush, and a transaction is durable as a whole.  The    *)
(* undo stacks live in memory only.                                        *)
(*                                                                         *)
(* Payloads are opaque.  The vectors of the cross-reference index are sets *)
(* here (they hold no duplicates and nothing depends on their order); the  *)
(* modification time and Action::Batch, which nothing constructs, are left *)
(* out.                                                                    *)
(***************************************************************************)
EXTENDS Naturals, Sequences, SequencesExt

CONSTANTS
  Slots,          \* the keys in use: pairs <<tree, address>>
  Payload,        \* contents of a record
  Undecodable,    \* the contents bounded_deserialize rejects
  Xrefs,          \* cross-references: records with fields from and to
  MaxSize,        \* UndoStack::max_size
  None,           \* no record under a key
  AddsAreNew      \* TRUE: callers add objects only where there is none

Objects == {"functions", "bookmarks"}
Notes   == {"labels", "comments", "types"}
Decoded == {"functions", "bookmarks", "types"}    \* labels and comments are read lossily
Sited(x) == {x.from, x.to}
Addrs   == UNION {Sited(x) : x \in Xrefs}

ASSUME SlotsAssumption == Slots \subseteq (Objects \cup Notes) \X Nat
ASSUME PayloadAssumption == None \notin Payload /\ Undecodable \subseteq Payload
ASSUME XrefsAssumption == \A x \in Xrefs : DOMAIN x = {"from", "to"}
ASSUME MaxSizeAssumption == MaxSize \in Nat
ASSUME AddsAssumption == AddsAreNew \in BOOLEAN

Readable == Payload \ Undecodable

VARIABLES
  recs,           \* the keyed trees
  outgoing,       \* keys "f:<address>" of the xrefs tree
  incoming,       \* keys "t:<address>" of the xrefs tree
  undo, redo,     \* UndoStack: actions, the top last
  disk,           \* what sled has made durable: [recs, outgoing, incoming]
  past, future    \* history variables: the content before each action of
                  \* undo, and after each action of redo

Content == [recs |-> recs, outgoing |-> outgoing, incoming |-> incoming]
stacks  == <<undo, redo, past, future>>
vars    == <<recs, outgoing, incoming, undo, redo, disk, past, future>>

-----------------------------------------------------------------------------
(* The contents of a database and the actions of its history.              *)

Contents == [recs : [Slots -> Payload \cup {None}],
             outgoing : [Addrs -> SUBSET Xrefs],
             incoming : [Addrs -> SUBSET Xrefs]]

Create(s, v)   == [op |-> "create", slot |-> s, rec |-> v]
Delete(s, v)   == [op |-> "delete", slot |-> s, rec |-> v]
Change(s, o, n) == [op |-> "change", slot |-> s, old |-> o, new |-> n]
Link(x)        == [op |-> "link", xref |-> x]

Actions ==
  {Create(s, v) : s \in Slots, v \in Payload}
    \cup {Delete(s, v) : s \in Slots, v \in Payload}
    \cup {Change(s, o, n) : s \in Slots, o \in Payload \cup {None}, n \in Payload \cup {None}}
    \cup {Link(x) : x \in Xrefs}

Put(c, s, v) == [c EXCEPT !.recs = [@ EXCEPT ![s] = v]]

(* Mutant: only the forward entry is written.                              *)
LinkXref_ForwardOnly(c, x) ==
  [c EXCEPT !.outgoing[x.from] = @ \cup {x}]

(* Both entries of a cross-reference, in one transaction.                  *)
LinkXref(c, x) ==
  [recs |-> c.recs,
   outgoing |-> [c.outgoing EXCEPT ![x.from] = @ \cup {x}],
   incoming |-> [c.incoming EXCEPT ![x.to] = @ \cup {x}]]

UnlinkXref(c, x) ==
  [recs |-> c.recs,
   outgoing |-> [c.outgoing EXCEPT ![x.from] = @ \ {x}],
   incoming |-> [c.incoming EXCEPT ![x.to] = @ \ {x}]]

Apply(c, act) ==
  CASE act.op = "create" -> Put(c, act.slot, act.rec)
    [] act.op = "delete" -> Put(c, act.slot, None)
    [] act.op = "change" -> Put(c, act.slot, act.new)
    [] act.op = "link"   -> LinkXref(c, act.xref)

Revert(c, act) ==
  CASE act.op = "create" -> Put(c, act.slot, None)
    [] act.op = "delete" -> Put(c, act.slot, act.rec)
    [] act.op = "change" -> Put(c, act.slot, act.old)
    [] act.op = "link"   -> UnlinkXref(c, act.xref)

-----------------------------------------------------------------------------
(* UndoStack.                                                              *)

Trim(s) == IF Len(s) > MaxSize THEN Tail(s) ELSE s

Push(act) ==
  /\ undo' = Trim(Append(undo, act))
  /\ past' = Trim(Append(past, Content))
  /\ redo' = <<>>
  /\ future' = <<>>

Become(c) ==
  /\ recs' = c.recs
  /\ outgoing' = c.outgoing
  /\ incoming' = c.incoming

-----------------------------------------------------------------------------
(* A project database with some readable or damaged records is opened.     *)
Init ==
  /\ recs \in [Slots -> Payload \cup {None}]
  /\ \A s \in Slots : recs[s] \in Undecodable => s[1] \in Decoded
  /\ \E L \in SUBSET Xrefs :
       /\ outgoing = [a \in Addrs |-> {x \in L : x.from = a}]
       /\ incoming = [a \in Addrs |-> {x \in L : x.to = a}]
  /\ undo = <<>> /\ redo = <<>> /\ past = <<>> /\ future = <<>>
  /\ disk = Content

(* Mutant: the record that was replaced is noted as the created one.       *)
AddObject_NotesOld(s, v) ==
  /\ s[1] \in Objects
  /\ AddsAreNew => recs[s] = None
  /\ Become(Put(Content, s, v))
  /\ Push(Create(s, recs[s]))
  /\ UNCHANGED disk

(* add_function, add_bookmark: what was under the key is not looked at.    *)
AddObject(s, v) ==
  /\ s[1] \in Objects
  /\ AddsAreNew => recs[s] = None
  /\ Become(Put(Content, s, v))
  /\ Push(Create(s, v))
  /\ UNCHANGED disk

(* update_function reads the old record first and gives up if it cannot.   *)
UpdateFunction(s, v) ==
  /\ s[1] = "functions"
  /\ recs[s] \notin Undecodable
  /\ Become(Put(Content, s, v))
  /\ Push(Change(s, recs[s], v))
  /\ UNCHANGED disk

(* set_label, set_comment, set_type: the same, for notes.                  *)
SetNote(s, v) ==
  /\ s[1] \in Notes
  /\ recs[s] \notin Undecodable
  /\ Become(Put(Content, s, v))
  /\ Push(Change(s, recs[s], v))
  /\ UNCHANGED disk

(* delete_function, remove_bookmark, remove_label, remove_comment,         *)
(* remove_type: the record is removed, then decoded for the history.  A    *)
(* record that does not decode makes the call fail after the removal.      *)
RemoveRecord(s) ==
  /\ recs[s] # None
  /\ Become(Put(Content, s, None))
  /\ IF recs[s] \in Undecodable
       THEN UNCHANGED stacks
       ELSE Push(IF s[1] \in Objects THEN Delete(s, recs[s])
                                     ELSE Change(s, recs[s], None))
  /\ UNCHANGED disk

AddXref(x) ==
  /\ x \notin outgoing[x.from]
  /\ Become(LinkXref(Content, x))
  /\ Push(Link(x))
  /\ UNCHANGED disk

(* Mutant: an action that failed to revert is lost.                        *)
UndoFails_Drops ==
  /\ undo # <<>>
  /\ undo' = Front(undo)
  /\ UNCHANGED <<recs, outgoing, incoming, redo, disk, past, future>>

(* A failed revert puts the action back where it was.                      *)
UndoFails ==
  /\ undo # <<>>
  /\ undo' = Trim(Append(Front(undo), Last(undo)))
  /\ UNCHANGED <<recs, outgoing, incoming, redo, disk, past, future>>

Undo ==
  /\ undo # <<>>
  /\ Become(Revert(Content, Last(undo)))
  /\ undo' = Front(undo)
  /\ redo' = Append(redo, Last(undo))
  /\ past' = Front(past)
  /\ future' = Append(future, Content)
  /\ UNCHANGED disk

RedoFails ==
  /\ redo # <<>>
  /\ redo' = Append(Front(redo), Last(redo))
  /\ UNCHANGED <<recs, outgoing, incoming, undo, disk, past, future>>

Redo ==
  /\ redo # <<>>
  /\ Become(Apply(Content, Last(redo)))
  /\ redo' = Front(redo)
  /\ undo' = Trim(Append(undo, Last(redo)))
  /\ future' = Front(future)
  /\ past' = Trim(Append(past, Content))
  /\ UNCHANGED disk

(* flush, or the periodic flush of sled.                                   *)
Flush ==
  /\ disk' = Content
  /\ UNCHANGED <<recs, outgoing, incoming, stacks>>

(* The process ends, orderly or not, and open_inner reads what is durable. *)
Reopen ==
  /\ Become(disk)
  /\ undo' = <<>> /\ redo' = <<>> /\ past' = <<>> /\ future' = <<>>
  /\ UNCHANGED disk

Next ==
  \/ \E s \in Slots : \E v \in Readable :
       AddObject(s, v) \/ UpdateFunction(s, v) \/ SetNote(s, v)
  \/ \E s \in Slots : RemoveRecord(s)
  \/ \E x \in Xrefs : AddXref(x)
  \/ Undo \/ UndoFails \/ Redo \/ RedoFails
  \/ Flush \/ Reopen

Spec == Init /\ [][Next]_vars

-----------------------------------------------------------------------------
(* Properties.                                                             *)

(* The trees, what is durable and both stacks hold values of their types.  *)
TypeOK ==
  /\ Content \in Contents /\ disk \in Contents
  /\ undo \in Seq(Actions) /\ redo \in Seq(Actions)
  /\ past \in Seq(Contents) /\ future \in Seq(Contents)

(* A cross-reference is filed under its own addresses only, and in the     *)
(* forward index exactly when it is in the backward one.                   *)
Agree(c) ==
  \A x \in Xrefs : \A a \in Addrs :
    /\ x \in c.outgoing[a] <=> (a = x.from /\ x \in c.incoming[x.to])
    /\ x \in c.incoming[a] <=> (a = x.to /\ x \in c.outgoing[x.from])

(* "Bidirectional xref tracking" (lib.rs:15): callers() and callees() tell *)
(* the same story after any edits, undos, redos and crashes.               *)
XrefsAgree == Agree(Content) /\ Agree(disk)

(* What undo and redo hold never exceeds the limit of the undo stack       *)
(* together, although only pushes onto undo are trimmed.                   *)
HistoryBounded == Len(undo) + Len(redo) <= MaxSize

(* Reverting and applying an action leads from one content to the other.   *)
Leads(act, from, to) == Apply(from, act) = to /\ Revert(to, act) = from

(* acts leads step by step through the contents before it to last.         *)
Chain(acts, before, last) ==
  /\ Len(before) = Len(acts)
  /\ \A i \in 1 .. Len(acts) :
       Leads(acts[i], before[i], IF i = Len(acts) THEN last ELSE before[i + 1])

(* acts, from its end, leads step by step from first through after.        *)
BackChain(acts, after, first) ==
  /\ Len(after) = Len(acts)
  /\ \A i \in 1 .. Len(acts) :
       Leads(acts[i], IF i = Len(acts) THEN first ELSE after[i + 1], after[i])

(* The recorded actions connect the contents the project went through: the *)
(* top of undo leads to the present one, the top of redo starts there.     *)
Linked == Chain(undo, past, Content) /\ BackChain(redo, future, Content)

(* An undo brings back the content from before the last edit, all of it.   *)
UndoRestores == [][undo # <<>> /\ Undo => Content' = Last(past)]_vars

(* The database keeps the promise of an abstract history.                  *)
History == INSTANCE ProjectHistory WITH
  Limit <- MaxSize, now <- Content, saved <- disk

ImplementsHistory == History!Spec
=============================================================================
