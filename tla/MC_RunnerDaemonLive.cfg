SPECIFICATION Spec
CONSTANTS
  Sid = {s1}
  Inst = {i1, i2}
  Asked = {}
  None = None
PROPERTIES
  CloseIsAnswered
  TeardownTerminates
  IdleIsReaped
CHECK_DEADLOCK FALSE
