------------------------------ MODULE MCOwnership ----------------------------
(***************************************************************************)
(* The values Storage is checked with: the allocator alone, in two builds  *)
(* with all its sizes, and threads with caches over a small static region, *)
(* soon full.                                                              *)
(***************************************************************************)
EXTENDS Storage

\* The guest's one static region and the regions native Linux maps.
MCAlone == {[configured |-> 16, page |-> 1, direct |-> MaxUnits + 1, expands |-> FALSE],
            [configured |-> 12, page |-> 4, direct |-> 5, expands |-> TRUE]}
MCShared == {[configured |-> 11, page |-> 1, direct |-> MaxUnits + 1, expands |-> FALSE]}
MCBuilds == MCAlone \cup MCShared

MCMaxCalls == <<3, 2, 2>>

Symmetry == Permutations(Threads)
=============================================================================
