------------------------------ MODULE MCTrustDB ------------------------------
(***************************************************************************)
(* A small web of trust for TLC.  All peers are alike.                     *)
(***************************************************************************)
EXTENDS TrustDB, TLC

Alike == Permutations(Peer)

=============================================================================
