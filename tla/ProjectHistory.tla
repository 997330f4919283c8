--------------------------- MODULE ProjectHistory ---------------------------
(***************************************************************************)
(* What the undo/redo of a FreakRE project promises, without saying how:   *)
(* a project has a content, the contents it had before the recent edits    *)
(* and the contents it had before the recent undos.  An edit is one step   *)
(* of the user; undo and redo walk along the remembered contents.  A       *)
(* project that is opened again has the content last saved, no memory.     *)
(***************************************************************************)
EXTENDS Naturals, Sequences, SequencesExt

CONSTANT Limit              \* how many contents are remembered

VARIABLES past, now, future, saved

vars == <<past, now, future, saved>>

(* The latest Limit entries of a history that grew by one.                 *)
Recent(s) == IF Len(s) > Limit THEN Tail(s) ELSE s

Init == past = <<>> /\ future = <<>> /\ saved = now

(* Any change of the content: the old one is remembered, the undone ones   *)
(* are forgotten.                                                          *)
Edit ==
  /\ past' = Recent(Append(past, now))
  /\ future' = <<>>
  /\ UNCHANGED saved

Undo ==
  /\ past # <<>>
  /\ now' = Last(past)
  /\ past' = Front(past)
  /\ future' = Append(future, now)
  /\ UNCHANGED saved

Redo ==
  /\ future # <<>>
  /\ now' = Last(future)
  /\ future' = Front(future)
  /\ past' = Recent(Append(past, now))
  /\ UNCHANGED saved

Save == saved' = now /\ UNCHANGED <<past, now, future>>

Reopen == now' = saved /\ past' = <<>> /\ future' = <<>> /\ UNCHANGED saved

Next == Edit \/ Undo \/ Redo \/ Save \/ Reopen

Spec == Init /\ [][Next]_vars
=============================================================================
