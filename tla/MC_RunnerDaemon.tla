-------------------------- MODULE MC_RunnerDaemon --------------------------
(* TLC instance of RunnerDaemon. *)
EXTENDS RunnerDaemon, TLC

Symmetry == Permutations(Sid) \cup Permutations(Inst)

=============================================================================
