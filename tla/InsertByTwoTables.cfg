SPECIFICATION Spec
CONSTANTS
  PageLength = 33
  Statement = Statement
  SchemaColumns = SchemaColumns
  Handles <- BothHandles
  Schema <- OnlySchema
  SelfDescribing = FALSE
  CellLengths = {8, 12}
  Deletable = {}
  MaxRowId = 3
  MaxPages = 8
INVARIANT NoDecreasingRowId
CHECK_DEADLOCK FALSE
