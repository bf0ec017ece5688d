SPECIFICATION Spec
CONSTANTS
  Req = {r1}
  Tool = {bash}
  ToolOf <- SameTool
  AutoAllow = {bash}
PROPERTIES
  SavedIsAnswered
  RowsSettle
CHECK_DEADLOCK FALSE
