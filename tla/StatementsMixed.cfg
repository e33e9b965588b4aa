SPECIFICATION FairSpec
CONSTANTS
  NULL = NULL
  ColumnDefs <- Twins
  Literals <- NullOneTwo
  Operators = {"EQUAL", "LESS_EQUAL"}
  InsertLists <- Whole
  LeafCapacity = 2
  MaxRowId = 3
  MaxLeaves = 2
INVARIANTS
  TypeOK
  RowsFitTheirCells
  EffectSoFar
PROPERTIES
  UniqueLostBySecondMatch
  StatementEnds
CHECK_DEADLOCK FALSE
