SPECIFICATION Spec
CONSTANTS
  Value = {on, off}
  Default = on
  MaxChanges = 3
  MaxFaults = 2
INVARIANTS
  TypeOK
  SettingsAgree
  ThinkingApplies
CHECK_DEADLOCK FALSE
