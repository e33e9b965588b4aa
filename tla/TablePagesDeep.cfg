SPECIFICATION FairSpec
CONSTANTS
  PageLength = 28
  Statement = Statement
  SchemaColumns = SchemaColumns
  Handles <- JustStatements
  Schema = {}
  SelfDescribing = FALSE
  CellLengths = {8, 18}
  Deletable = {1, 2, 3, 4, 5, 6}
  MaxRowId = 6
  MaxPages = 30
INVARIANTS
  TypeOK
  SlotsBelowCells
  NoDanglingPage
  NoDecreasingRowId
  AllocatesFreshPage
  CopiesAreCurrent
  ChainIsTree
PROPERTIES
  AppendTerminates
CHECK_DEADLOCK FALSE
