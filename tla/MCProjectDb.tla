---------------------------- MODULE MCProjectDb ----------------------------
(* A small project: one function, one bookmark and one type at address 1,  *)
(* and one cross-reference between two addresses.                          *)
EXTENDS ProjectDb

CONSTANTS p, q

OneOfEach == {<<"functions", 1>>, <<"bookmarks", 1>>, <<"types", 1>>}
OneFunction == {<<"functions", 1>>}

Call == {[from |-> 1, to |-> 2]}
=============================================================================
