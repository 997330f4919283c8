----------------------------- MODULE MCSccpExec -----------------------------
(* The families of MCSccp, executed before and after the pass. *)
EXTENDS MCSccp, SccpExec
=============================================================================
