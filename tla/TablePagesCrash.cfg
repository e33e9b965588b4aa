SPECIFICATION CrashSpec
CONSTANTS
  PageLength = 33
  Statement = Statement
  SchemaColumns = SchemaColumns
  Handles <- JustStatements
  Schema = {}
  SelfDescribing = FALSE
  CellLengths = {8, 12}
  Deletable = {}
  MaxRowId = 6
  MaxPages = 8
INVARIANTS
  
  SlotsBelowCells
  NoDanglingPage
  AckedRowsSurvive
CHECK_DEADLOCK FALSE
