SPECIFICATION Spec
CONSTANTS
  Msg = {m1, m2}
  None = None
  MaxEvents = 2
  MaxFaults = 1
SYMMETRY Symmetry
INVARIANTS
  TypeOK
  AnswerIsWhole
  TurnHasEnd
  NothingStale
CHECK_DEADLOCK FALSE
