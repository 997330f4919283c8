------------------------------ MODULE MCDesktop ------------------------------
(* Two files, an automatic analysis whose result is reset per file (ml)    *)
(* and one whose result is not (xrefs), and two decompilations.            *)
EXTENDS Desktop, TLC

CONSTANTS A, B, ml, xrefs, code, code2

MlOnly == <<ml>>
XrefsOnly == <<xrefs>>
NoJobs == <<>>

Interchangeable == Permutations({code, code2}) \cup Permutations({A, B})
=============================================================================
