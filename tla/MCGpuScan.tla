------------------------------ MODULE MCGpuScan ------------------------------
EXTENDS GpuScan

LiteralsTo(n) ==
    UNION {[op : {"literal"}, last : {k}, hits : SUBSET (0 .. k), short : BOOLEAN] : k \in 0 .. n}
Maps == [op : {"entropy"}, len : 0 .. 7, window : 0 .. 3, step : 0 .. 3]

(* The last candidate of the third kind lies beyond the first pass. *)
MCRequests ==
    LiteralsTo(3) \cup Maps
    \cup {[op |-> "literal", last |-> 4, hits |-> h, short |-> TRUE] : h \in {{1}, {1, 4}}}
MCLong == LiteralsTo(4)
==============================================================================
