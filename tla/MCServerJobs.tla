----------------------------- MODULE MCServerJobs -----------------------------
(* Three requests over a table of one.                                     *)
EXTENDS ServerJobs, TLC

CONSTANTS r1, r2, r3

Interchangeable == Permutations({r1, r2, r3})
=============================================================================
