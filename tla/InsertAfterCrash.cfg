SPECIFICATION CrashSpec
CONSTANTS
  PageLength = 33
  Statement = Statement
  SchemaColumns = SchemaColumns
  Handles <- JustStatements
  Schema = {}
  SelfDescribing = FALSE
  CellLengths = {8, 12}
  Deletable = {}
  MaxRowId = 3
  MaxPages = 8
INVARIANT NoDecreasingRowId
CHECK_DEADLOCK FALSE
