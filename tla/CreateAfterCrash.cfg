SPECIFICATION CrashSpec
CONSTANTS
  t1 = t1
  t2 = t2
  a = a
  b = b
  c = c
  Names <- TwoNames
  Columns <- ThreeColumns
  Definitions <- OneAndThree
  SchemaColumns <- OneAndTwo
  LeafCapacity = 2
  MaxOrdinal = 127
  MaxLeaves = 2
INVARIANT NoEntryMeansNoFile
CHECK_DEADLOCK FALSE
