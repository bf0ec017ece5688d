SPECIFICATION Spec
CONSTANTS
  Sid = {s1}
  Rpc = {r1}
PROPERTIES
  ReconnectsForever
CHECK_DEADLOCK FALSE
