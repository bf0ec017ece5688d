SPECIFICATION Spec
CONSTANTS
  Sid = {s1}
  Rpc = {r1}
PROPERTIES
  TurnEndsAfterDrop
  ReopeningEnds
CHECK_DEADLOCK FALSE
