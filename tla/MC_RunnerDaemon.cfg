SPECIFICATION Spec
CONSTANTS
  Sid = {s1, s2}
  Inst = {i1, i2}
  Asked = {i1, i2}
  None = None
SYMMETRY Symmetry
INVARIANTS
  TypeOK
  ClientsAreOwned
  ClosedIsLastWord
  TeardownLeavesNothing
CHECK_DEADLOCK FALSE
