SPECIFICATION CrashSpec
CONSTANTS
  t1 = t1
  t2 = t2
  a = a
  b = b
  c = c
  Names <- OneAndSchemaTable
  Columns <- ThreeColumns
  Definitions <- OneAndThree
  SchemaColumns <- OneAndTwo
  LeafCapacity = 3
  MaxOrdinal = 2
  MaxLeaves = 2
INVARIANTS
  
  RowsHaveFiles
  OneEntry
  
  NoMixedDefinition

  
  
CHECK_DEADLOCK FALSE
