SPECIFICATION Spec
CONSTANTS
  NULL = NULL
  ColumnDefs <- KeyAndText
  Literals <- NullOneTwo
  Operators = {"EQUAL", "LESS_EQUAL"}
  InsertLists <- Whole
  LeafCapacity = 2
  MaxRowId = 3
  MaxLeaves = 2
INVARIANTS
  UniqueHolds
CHECK_DEADLOCK FALSE
