--------------------------- MODULE MCStoreForward ---------------------------
(***************************************************************************)
(* Small queues for TLC: an urgent message u and an ordinary one v.        *)
(***************************************************************************)
EXTENDS StoreForward, TLC

CONSTANTS u, v

\* u goes first.
Urgency == (u :> 1) @@ (v :> 3)

=============================================================================
