SPECIFICATION Spec
CONSTANTS
  Sid = {s1, s2}
  Rpc = {r1}
SYMMETRY Symmetry
INVARIANTS
  TypeOK
  NoStrandedTurn
  NoStrandedCall
  LinkCarriesSessions
  OpenedOnThisLink
  ClosedForGood
CHECK_DEADLOCK FALSE
