SPECIFICATION CrashSpec
CONSTANTS
  NULL = NULL
  ColumnDefs <- TextAndKey
  Literals <- NullOneTwoLong
  Operators = {"LESS", "GREATER_EQUAL"}
  InsertLists <- Partial
  LeafCapacity = 1
  MaxRowId = 2
  MaxLeaves = 1
INVARIANTS
  NotNullHolds
  EffectSoFar
  
PROPERTIES
  UnreadableRowFreezes
  UniqueLostBySecondMatch
CHECK_DEADLOCK FALSE
