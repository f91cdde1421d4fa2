------------------------------ MODULE MCTunnel ------------------------------
(***************************************************************************)
(* A gateway with three connections, one of which is a proxy's, for TLC.   *)
(***************************************************************************)
EXTENDS Tunnel

\* The state without told, a history that no action and no property of Tunnel
\* reads: states that differ in it only are one state to TLC.
WithoutTold ==
  <<running, dish, pc, sessions, peer, remotes, unstarted, failures, round, leaf>>

=============================================================================
