---------------------------- MODULE MC_Approvals ----------------------------
(* TLC instance of Approvals: all requests are for one tool. *)
EXTENDS Approvals, TLC

SameTool == [r \in Req |-> CHOOSE t \in Tool : TRUE]

Symmetry == Permutations(Req)

=============================================================================
