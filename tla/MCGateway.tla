----------------------------- MODULE MCGateway -----------------------------
(***************************************************************************)
(* A gateway with two connections for TLC.                                 *)
(***************************************************************************)
EXTENDS GatewaySessions

=============================================================================
