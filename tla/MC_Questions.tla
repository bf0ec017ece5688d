---------------------------- MODULE MC_Questions ----------------------------
(* TLC instance of Questions: a single-select question, then a multiSelect one. *)
EXTENDS Questions

SecondIsMulti == {1}

=============================================================================
