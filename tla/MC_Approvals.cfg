SPECIFICATION Spec
CONSTANTS
  Req = {r1, r2}
  Tool = {bash}
  ToolOf <- SameTool
  AutoAllow = {}
SYMMETRY Symmetry
INVARIANTS
  TypeOK
  OneDecision
  EntriesCanDecide
  DecisionArrives
  RowHasAnswerer
PROPERTIES
  GateHolds
  ExpiredIsFinal
CHECK_DEADLOCK FALSE
