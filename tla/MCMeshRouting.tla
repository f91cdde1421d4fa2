--------------------------- MODULE MCMeshRouting ---------------------------
(***************************************************************************)
(* Small meshes for TLC: the gateway g, the relay a in its range, and the  *)
(* relay b, which hears only a.                                            *)
(***************************************************************************)
EXTENDS MeshRouting

CONSTANTS g, a, b

\* g is heard by a; a and b hear each other.
Line == {<<g, a>>, <<a, b>>, <<b, a>>}

\* g and a hear each other.
Pair == {<<g, a>>, <<a, g>>}

=============================================================================
