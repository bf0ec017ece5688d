SPECIFICATION Spec
CONSTANTS
  Mac = {studio, laptop}
  Home = studio
  Away = {}
  Slot = {c1}
  None = None
INVARIANTS
  OrphansCanResume
CHECK_DEADLOCK FALSE
