--------------------------- MODULE MC_BridgeLink ---------------------------
(* TLC instance of BridgeLink. *)
EXTENDS BridgeLink, TLC

Symmetry == Permutations(Sid)

=============================================================================
