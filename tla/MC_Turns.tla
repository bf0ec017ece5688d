------------------------------ MODULE MC_Turns ------------------------------
(* TLC instance of Turns.  The two messages are interchangeable. *)
EXTENDS Turns, TLC

Symmetry == Permutations(Msg)

=============================================================================
