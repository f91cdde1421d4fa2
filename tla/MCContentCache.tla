--------------------------- MODULE MCContentCache ---------------------------
(***************************************************************************)
(* A small cache for TLC: two small contents fit into a cache of 5 bytes,  *)
(* a large one is as much as an eviction leaves, a full one is more than   *)
(* that, and a huge one is more than the limit.                            *)
(***************************************************************************)
EXTENDS ContentCache, TLC

CONSTANTS small, large, full, huge

Bytes == (small :> 2) @@ (large :> 4) @@ (full :> 5) @@ (huge :> 6)

Alike == Permutations(Key)

=============================================================================
