SPECIFICATION FairSpec
CONSTANTS
  t1 = t1
  t2 = t2
  a = a
  b = b
  c = c
  Names <- TwoNames
  Columns <- ThreeColumns
  Definitions <- WithTwins
  SchemaColumns <- OneAndTwo
  LeafCapacity = 3
  MaxOrdinal = 127
  MaxLeaves = 3
INVARIANTS
  TypeOK
  RowsHaveFiles
PROPERTIES
  DropRemovesFile
  ImplementsTableDirectory
CHECK_DEADLOCK FALSE
