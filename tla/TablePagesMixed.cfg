SPECIFICATION Spec
CONSTANTS
  PageLength = 33
  Statement = Statement
  SchemaColumns = SchemaColumns
  Handles <- OnlySchema
  Schema <- OnlySchema
  SelfDescribing = TRUE
  CellLengths = {8, 9}
  Deletable = {2,3,6}
  MaxRowId = 10
  MaxPages = 30
INVARIANTS
  SlotsBelowCells
  ScanShowsLiveRows
  ChainIsTree
  OwnRowIsCurrent
PROPERTIES
  ImplementsRecordStore
CHECK_DEADLOCK FALSE
