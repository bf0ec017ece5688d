------------------------ MODULE MC_SessionLifecycle ------------------------
(* TLC instance of SessionLifecycle; the Macs that may be asleep at a boot *)
(* are interchangeable, the others that are not the default one, too, and  *)
(* so are the commands under way.                                          *)
EXTENDS SessionLifecycle, TLC

Symmetry ==
  Permutations(Away) \cup Permutations(Mac \ (Away \cup {Home})) \cup Permutations(Slot)

=============================================================================
