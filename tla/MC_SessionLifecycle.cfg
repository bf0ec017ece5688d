SPECIFICATION Spec
CONSTANTS
  Mac = {studio, laptop}
  Home = studio
  Away = {laptop}
  Slot = {c1, c2}
  None = None
SYMMETRY Symmetry
INVARIANTS
  TypeOK
  ReopensFindLatest
  TalksToLatest
  StoreMatchesTable
PROPERTIES
  ClosedStaysClosed
CHECK_DEADLOCK FALSE
