SPECIFICATION FairCrashSpec
CONSTANTS
  PageLength = 28
  Statement = Statement
  SchemaColumns = SchemaColumns
  Handles <- JustStatements
  Schema = {}
  SelfDescribing = FALSE
  CellLengths = {8}
  Deletable = {1,2,3}
  MaxRowId = 3
  MaxPages = 6
INVARIANTS
  NoDanglingPage

  
CHECK_DEADLOCK FALSE
