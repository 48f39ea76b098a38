------------------------- MODULE MCConnectLifecycle -------------------------
(* Small instances of ConnectLifecycle. *)
EXTENDS ConnectLifecycle, TLC

CONSTANTS c1, c2

Symmetry == Permutations(Callers)
=============================================================================
