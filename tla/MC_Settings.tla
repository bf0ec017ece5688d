---------------------------- MODULE MC_Settings ----------------------------
(* TLC instance of Settings. *)
EXTENDS Settings

=============================================================================
