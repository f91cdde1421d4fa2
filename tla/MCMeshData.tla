----------------------------- MODULE MCMeshData -----------------------------
(***************************************************************************)
(* Three nodes for TLC: a relay, a gateway and a leaf, all in range.       *)
(***************************************************************************)
EXTENDS MeshData

=============================================================================
