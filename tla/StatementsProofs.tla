-------------------------- MODULE StatementsProofs --------------------------
(***************************************************************************)
(* Theorems about Statements, for every table, workload and leaf capacity, *)
(* with statements that throw and processes that are killed half way: what *)
(* one invariant says of the rows that are stored, and, in the second      *)
(* half, what a scan makes of them, followed from place to place.          *)
(***************************************************************************)
EXTENDS Statements, SequenceFacts, FiniteSetTheorems

-----------------------------------------------------------------------------
(* Which fields a cell gives back as they were written: all but the TEXT  *)
(* of 244 bytes and more, of which none reads back, however long it is.    *)

LongText(field) == field.type = "TEXT" /\ field.length >= 244

LEMMA TypeCodesDiffer ==
  ASSUME NEW t \in DOMAIN Width, NEW u \in DOMAIN Width, TypeCode[t] = TypeCode[u]
  PROVE  t = u
BY DEF Width, TypeCode

LEMMA FixedField ==
  ASSUME NEW t \in DOMAIN Width
  PROVE  /\ TypeCode[t] \in 0..11
         /\ FieldOf(TypeCode[t]) = [type |-> t, length |-> Width[t]]
<1>1. TypeCode[t] \in 0..11 /\ TypeCode.TEXT = 12
  BY DEF Width, TypeCode
<1>2. (CHOOSE u \in DOMAIN Width : TypeCode[u] = TypeCode[t]) = t
  BY TypeCodesDiffer
<1>3. FieldOf(TypeCode[t]) = [type |-> CHOOSE u \in DOMAIN Width : TypeCode[u] = TypeCode[t],
                              length |-> Width[CHOOSE u \in DOMAIN Width : TypeCode[u] = TypeCode[t]]]
  BY <1>1 DEF FieldOf
<1> QED BY <1>1, <1>2, <1>3

(* The code of a TEXT that is shorter than 244 bytes gives its length.     *)
LEMMA ShortText ==
  ASSUME NEW field \in [type : {"TEXT"}, length : Nat], field.length < 244
  PROVE  IsTypeCode(CodeOf(field)) /\ FieldOf(CodeOf(field)) = field
<1>1. CodeOf(field) = (12 + field.length) % 256
  BY DEF CodeOf, TypeCode
<1>2. 12 + field.length \in 0..255
  OBVIOUS
<1>3. CodeOf(field) = 12 + field.length
  BY <1>1, <1>2
<1>4. TypeCode.TEXT = 12
  BY DEF TypeCode
<1>5. FieldOf(CodeOf(field)) = [type |-> "TEXT", length |-> field.length]
  BY <1>3, <1>4 DEF FieldOf
<1> QED BY <1>3, <1>4, <1>5 DEF IsTypeCode

(* Of a longer one it is that of another type, of a shorter TEXT or of     *)
(* none, and a row that has one cannot come back as it went in.            *)
LEMMA LongTextIsLost ==
  ASSUME NEW field \in [type : {"TEXT"}, length : Nat], field.length >= 244,
         IsTypeCode(CodeOf(field))
  PROVE  FieldOf(CodeOf(field)) # field
<1>1. CodeOf(field) \in 0..255 /\ TypeCode.TEXT = 12
  BY DEF CodeOf, TypeCode
<1>2. CASE CodeOf(field) >= 12
  <2>1. FieldOf(CodeOf(field)).length = CodeOf(field) - 12
    BY <1>1, <1>2 DEF FieldOf
  <2> QED BY <1>1, <2>1
<1>3. CASE CodeOf(field) < 12
  <2>1. CodeOf(field) \in FixedCodes
    BY <1>1, <1>3 DEF IsTypeCode
  <2>2. PICK t \in DOMAIN Width : CodeOf(field) = TypeCode[t]
    BY <2>1 DEF FixedCodes
  <2>3. FieldOf(CodeOf(field)) = [type |-> t, length |-> Width[t]]
    BY <2>2, FixedField
  <2>4. t # "TEXT"
    BY DEF Width
  <2> QED BY <2>3, <2>4
<1> QED BY <1>1, <1>2, <1>3

(* A field comes back from its type code (table_leaf_page.cpp:194-268) as  *)
(* it was written (table_leaf_page.cpp:52-67) exactly if it is not a TEXT  *)
(* of 244 bytes or more: NULL and each type of fixed width always, a TEXT  *)
(* up to 243 bytes, and no longer one although INSERT takes it.            *)
THEOREM ReadsBackExactly ==
  ASSUME NEW field \in Field
  PROVE  IsTypeCode(CodeOf(field)) /\ FieldOf(CodeOf(field)) = field <=> ~ LongText(field)
<1>1. ASSUME NEW t \in DOMAIN Width, field = [type |-> t, length |-> Width[t]]
      PROVE  IsTypeCode(CodeOf(field)) /\ FieldOf(CodeOf(field)) = field /\ ~ LongText(field)
  <2>1. field.type = t /\ t # "TEXT"
    BY <1>1 DEF Width
  <2>2. CodeOf(field) = TypeCode[t]
    BY <2>1 DEF CodeOf
  <2> QED BY <1>1, <2>1, <2>2, FixedField DEF IsTypeCode, FixedCodes, LongText
<1>2. CASE field \in [type : {"TEXT"}, length : Nat]
  BY <1>2, ShortText, LongTextIsLost DEF LongText
<1> QED BY <1>1, <1>2 DEF Field

-----------------------------------------------------------------------------
(* The rows that statements leave in the table.                            *)

(* What INSERT and UPDATE may leave in a row: values of the workload that  *)
(* obey NOT NULL, no longer than those the cell was made for.              *)
StoredValue == Literals \union {NULL}
StoredData ==
  {data \in [Columns -> StoredValue] : \A c \in Columns : ColumnDefs[c].not_null => data[c] # NULL}
StoredRow ==
  {row \in [row_id : Nat, data : StoredData, room : Nat] : PayloadLength(row.data) <= row.room}
StoredLeaf == [rows : Seq(StoredRow), used : 0..LeafCapacity]

(* UPDATE has checked the value it sets before the scan sets it: between   *)
(* the check and the last row the statement must not change.               *)
StatementOK ==
  /\ pc \in {"idle", "insert"} \union Scans
  /\ pc = "select" => stmt \in [where : Where \union {NoCondition}, shown : Seq(Nat)]
  /\ pc = "delete" => stmt \in [where : Where]
  /\ pc = "update" => /\ stmt \in [where : Where, column : Columns, value : StoredValue]
                      /\ ColumnDefs[stmt.column].not_null => stmt.value # NULL
CursorInTable ==
  pc \in Scans => /\ cursor \in Nat \X Nat
                  /\ cursor[1] \in 1..Len(leaves)
                  /\ cursor[2] \in 1..Len(leaves[cursor[1]].rows)+1
StoredInv ==
  /\ leaves \in Seq(StoredLeaf) /\ leaves # << >>
  /\ next_row_id \in Nat
  /\ unique \subseteq Columns
  /\ StatementOK
  /\ CursorInTable
  /\ before \in Seq(StoredLeaf)

-----------------------------------------------------------------------------
(* Sequences of rows and leaves.                                            *)

LEMMA Replaced ==
  ASSUME NEW S, NEW s \in Seq(S), NEW i \in 1..Len(s), NEW e \in S
  PROVE  [s EXCEPT ![i] = e] \in Seq(S) /\ Len([s EXCEPT ![i] = e]) = Len(s)
BY ExceptSeq

(* The row under the cursor is a stored one, of a leaf of the table.       *)
LEMMA RowHere ==
  ASSUME StoredInv, AtRow
  PROVE  /\ cursor[1] \in 1..Len(leaves) /\ leaves[cursor[1]] \in StoredLeaf
         /\ leaves[cursor[1]].rows \in Seq(StoredRow)
         /\ cursor[2] \in 1..Len(leaves[cursor[1]].rows)
         /\ Here \in StoredRow
<1>1. pc \in Scans /\ cursor[1] \in 1..Len(leaves) /\ cursor[2] \in 1..Len(leaves[cursor[1]].rows)+1
  BY DEF StoredInv, CursorInTable, AtRow
<1>2. leaves[cursor[1]] \in StoredLeaf
  BY <1>1, ElementOfSeq DEF StoredInv
<1>3. leaves[cursor[1]].rows \in Seq(StoredRow)
  BY <1>2 DEF StoredLeaf
<1>4. cursor[2] \in 1..Len(leaves[cursor[1]].rows)
  BY <1>1, <1>3, LenProperties DEF AtRow
<1>5. Here \in StoredRow
  BY <1>3, <1>4, ElementOfSeq DEF Here
<1> QED BY <1>1, <1>2, <1>3, <1>4, <1>5

(* A leaf whose rows are replaced by stored ones.                          *)
LEMMA RowsReplaced ==
  ASSUME StoredInv, NEW l \in 1..Len(leaves), NEW rows \in Seq(StoredRow),
         leaves' = [leaves EXCEPT ![l].rows = rows]
  PROVE  /\ leaves' \in Seq(StoredLeaf) /\ Len(leaves') = Len(leaves) /\ leaves' # << >>
         /\ leaves'[l].rows = rows
<1>1. leaves \in Seq(StoredLeaf) /\ leaves[l] \in StoredLeaf
  BY ElementOfSeq DEF StoredInv
<1>2. PICK leaf : leaf = [leaves[l] EXCEPT !.rows = rows]
  OBVIOUS
<1>3. leaf \in StoredLeaf /\ leaf.rows = rows
  BY <1>1, <1>2 DEF StoredLeaf
<1>4. leaves' = [leaves EXCEPT ![l] = leaf]
  BY <1>2
<1>5. leaves' \in Seq(StoredLeaf) /\ Len(leaves') = Len(leaves)
  <2>1. PICK new : new = [leaves EXCEPT ![l] = leaf]
    OBVIOUS
  <2>2. new \in Seq(StoredLeaf) /\ Len(new) = Len(leaves)
    BY <1>1, <1>3, <2>1, ExceptSeq
  <2>3. leaves' = new
    BY <1>4, <2>1
  <2> QED BY <2>2, <2>3
<1>6. leaves'[l] = leaf
  <2>1. l \in DOMAIN leaves
    BY <1>1, LenProperties
  <2> QED BY <1>4, <2>1
<1> QED BY <1>3, <1>5, <1>6, EmptySeq, LenProperties DEF StoredInv

(* A row that is appended, to the last leaf or as the first of a new one.  *)
LEMMA AppendedRow ==
  ASSUME StoredInv, NEW row \in StoredRow
  PROVE  AppendRow(row) \in Seq(StoredLeaf) /\ AppendRow(row) # << >>
<1>1. leaves \in Seq(StoredLeaf) /\ Len(leaves) \in Nat /\ Len(leaves) \in 1..Len(leaves)
  BY EmptySeq, LenProperties DEF StoredInv
<1>2. leaves[Len(leaves)] \in StoredLeaf
  BY <1>1, ElementOfSeq
<1>3. CASE Last(leaves).used < LeafCapacity
  <2>1. PICK rows : rows = Append(leaves[Len(leaves)].rows, row)
    OBVIOUS
  <2>2. PICK used : used = leaves[Len(leaves)].used + 1
    OBVIOUS
  <2>3. rows \in Seq(StoredRow) /\ used \in 0..LeafCapacity
    <3>1. leaves[Len(leaves)].rows \in Seq(StoredRow) /\ leaves[Len(leaves)].used \in 0..LeafCapacity
      BY <1>2 DEF StoredLeaf
    <3>2. leaves[Len(leaves)].used < LeafCapacity
      BY <1>1, <1>3 DEF Last
    <3>3. LeafCapacity \in Nat
      BY StatementsAssumption
    <3> QED BY <2>1, <2>2, <3>1, <3>2, <3>3, AppendProperties
  <2>4. PICK longer : longer = [leaves[Len(leaves)] EXCEPT !.rows = rows]
    OBVIOUS
  <2>5. PICK leaf : leaf = [longer EXCEPT !.used = used]
    OBVIOUS
  <2>6. longer \in StoredLeaf
    BY <1>2, <2>3, <2>4 DEF StoredLeaf
  <2>7. leaf \in StoredLeaf
    BY <2>3, <2>5, <2>6 DEF StoredLeaf
  <2>8. AppendRow(row) = [leaves EXCEPT ![Len(leaves)] = leaf]
    BY <1>2, <1>3, <2>1, <2>2, <2>4, <2>5 DEF AppendRow, StoredLeaf
  <2>9. [leaves EXCEPT ![Len(leaves)] = leaf] \in Seq(StoredLeaf)
        /\ Len([leaves EXCEPT ![Len(leaves)] = leaf]) = Len(leaves)
    BY <1>1, <2>7, Replaced
  <2> QED BY <1>1, <2>8, <2>9, EmptySeq
<1>4. CASE ~ (Last(leaves).used < LeafCapacity)
  <2>1. PICK leaf : leaf = [rows |-> <<row>>, used |-> 1]
    OBVIOUS
  <2>2. leaf \in StoredLeaf
    BY <2>1, StatementsAssumption DEF StoredLeaf
  <2>3. AppendRow(row) = Append(leaves, leaf)
    BY <1>4, <2>1 DEF AppendRow
  <2> QED BY <1>1, <2>2, <2>3, AppendProperties
<1> QED BY <1>3, <1>4

-----------------------------------------------------------------------------
(* Columns and the values an INSERT puts into them.                         *)

LEMMA ColumnRange ==
  /\ Columns = 1..Len(ColumnDefs) /\ Len(ColumnDefs) \in Nat
  /\ \A c \in Columns : ColumnDefs[c].type \in ColumnTypes
<1>1. PICK def : def = [name : STRING, type : ColumnTypes, not_null : BOOLEAN, unique : BOOLEAN]
  OBVIOUS
<1>2. ColumnDefs \in Seq(def)
  BY <1>1, StatementsAssumption
<1>3. Columns = 1..Len(ColumnDefs) /\ Len(ColumnDefs) \in Nat
  BY <1>2, LenProperties DEF Columns
<1>4. ASSUME NEW c \in Columns PROVE ColumnDefs[c].type \in ColumnTypes
  <2>1. ColumnDefs[c] \in def
    BY <1>2, <1>3, ElementOfSeq
  <2> QED BY <1>1, <2>1
<1> QED BY <1>3, <1>4

(* A name of the table is that of a first column and of a last one.        *)
LEMMA FirstNamedType ==
  ASSUME NEW name \in Names
  PROVE  FirstNamed(name) \in Columns
<1>1. PICK S : S = {c \in Columns : ColumnDefs[c].name = name}
  OBVIOUS
<1>2. S # {} /\ S \subseteq Nat
  BY <1>1, ColumnRange DEF Names
<1>3. PICK c \in S : \A d \in S : c <= d
  BY <1>2, FirstPosition
<1>4. ASSUME NEW d \in 1..c-1 PROVE ColumnDefs[d].name # name
  <2>1. c \in Nat /\ c <= Len(ColumnDefs) /\ d \in Nat /\ d < c /\ d >= 1
    BY <1>1, <1>3, <1>4, ColumnRange
  <2>2. d \in Columns /\ ~ (c <= d)
    BY <2>1, ColumnRange
  <2> QED BY <1>1, <1>3, <2>2
<1>5. \E e \in Columns : ColumnDefs[e].name = name /\ \A d \in 1..e-1 : ColumnDefs[d].name # name
  BY <1>1, <1>3, <1>4
<1> QED BY <1>5 DEF FirstNamed

LEMMA LastNamedType ==
  ASSUME NEW name \in Names
  PROVE  LastNamed(name) \in Columns
<1>1. PICK S : S = {c \in Columns : ColumnDefs[c].name = name}
  OBVIOUS
<1>2. S # {} /\ S \subseteq 1..Len(ColumnDefs)
  BY <1>1, ColumnRange DEF Names
<1>3. PICK c \in S : \A d \in S : d <= c
  BY <1>2, ColumnRange, LastPosition
<1>4. ASSUME NEW d \in c+1..Len(ColumnDefs) PROVE ColumnDefs[d].name # name
  <2>1. c \in Nat /\ c >= 1 /\ d \in Nat /\ d > c /\ d <= Len(ColumnDefs)
    BY <1>1, <1>3, <1>4, ColumnRange
  <2>2. d \in Columns /\ ~ (d <= c)
    BY <2>1, ColumnRange
  <2> QED BY <1>1, <1>3, <2>2
<1>5. \E e \in Columns :
        ColumnDefs[e].name = name /\ \A d \in e+1..Len(ColumnDefs) : ColumnDefs[d].name # name
  BY <1>1, <1>3, <1>4
<1> QED BY <1>5 DEF LastNamed

LEMMA OnType ==
  ASSUME NEW c \in Columns, NEW condition \in Condition
  PROVE  On(c, condition) \in Where
BY DEF On, Condition, Where

(* A row put together from a column list and literals of the statement.    *)
LEMMA NewRowType ==
  ASSUME NEW list \in InsertLists, NEW literals \in [Given(list) -> Literals]
  PROVE  NewRow(list, literals) \in [Columns -> StoredValue]
<1>1. \E n \in Nat : Given(list) = 1..n
  <2>1. list \in Seq(Names)
    BY StatementsAssumption
  <2> QED BY <2>1, ColumnRange, LenProperties DEF Given
<1>2. ASSUME NEW c \in Columns, NEW given, given = {j \in Given(list) : Target(list, j) = c},
             given # {}
      PROVE  literals[CHOOSE j \in given : \A k \in given : k <= j] \in StoredValue
  <2>1. given \subseteq Given(list)
    BY <1>2
  <2>2. \E j \in given : \A k \in given : k <= j
    BY <1>1, <1>2, <2>1, LastPosition
  <2> QED BY <2>1, <2>2 DEF StoredValue
<1>3. ASSUME NEW c \in Columns PROVE NewRow(list, literals)[c] \in StoredValue
  <2>1. PICK given : given = {j \in Given(list) : Target(list, j) = c}
    OBVIOUS
  <2>2. NewRow(list, literals)[c]
          = IF given = {} THEN NULL
            ELSE literals[CHOOSE j \in given : \A k \in given : k <= j]
    BY <2>1 DEF NewRow
  <2>3. NULL \in StoredValue
    BY DEF StoredValue
  <2> QED BY <1>2, <2>1, <2>2, <2>3
<1> QED BY <1>3 DEF NewRow

LEMMA StoredValueType ==
  ASSUME NEW v \in StoredValue
  PROVE  v \in Value /\ (v = NULL \/ v \in 1..253)
<1>1. v \in 1..243 \/ v = 251 \/ v = 253 \/ v = NULL
  BY StatementsAssumption DEF StoredValue
<1> QED BY <1>1 DEF Value

(* The length of a payload is a number: a row has finitely many bytes.     *)
LEMMA PayloadLengthType ==
  ASSUME NEW data \in [Columns -> StoredValue]
  PROVE  PayloadLength(data) \in Nat /\ IsFiniteSet(ValueBytes(data))
<1>1. \A c \in Columns : Bytes(data[c], c) \in 0..253
  <2> TAKE c \in Columns
  <2>1. data[c] = NULL \/ data[c] \in 1..253
    BY StoredValueType
  <2>2. ColumnDefs[c].type # "TEXT" => Width[ColumnDefs[c].type] \in 0..8
    BY ColumnRange DEF ColumnTypes, Width, TypeCode
  <2> QED BY <2>1, <2>2 DEF Bytes
<1>2. ValueBytes(data) \subseteq Columns \X (1..253)
  BY <1>1 DEF ValueBytes
<1>3. IsFiniteSet(Columns \X (1..253))
  <2>1. ASSUME NEW n \in Nat PROVE IsFiniteSet(1..n)
    BY FS_Interval
  <2>2. IsFiniteSet(1..253)
    <3>1. PICK n \in Nat : n = 253
      OBVIOUS
    <3>2. IsFiniteSet(1..n)
      BY <2>1
    <3> QED BY <3>1, <3>2
  <2>3. IsFiniteSet(Columns)
    BY <2>1, ColumnRange, Zenon
  <2> QED BY <2>2, <2>3, FS_Product
<1>4. IsFiniteSet(ValueBytes(data)) /\ Cardinality(ValueBytes(data)) \in Nat
  BY <1>2, <1>3, FS_Subset, FS_CardinalityType
<1> QED BY <1>4, ColumnRange DEF PayloadLength

-----------------------------------------------------------------------------
LEMMA StoredInit == Init => StoredInv
<1> SUFFICES ASSUME Init PROVE StoredInv
  OBVIOUS
<1>1. PICK leaf : leaf = [rows |-> << >>, used |-> 0]
  OBVIOUS
<1>2. leaf \in StoredLeaf
  BY <1>1, StatementsAssumption DEF StoredLeaf
<1>3. leaves = <<leaf>>
  BY <1>1 DEF Init
<1>4. leaves \in Seq(StoredLeaf) /\ leaves # << >>
  BY <1>2, <1>3
<1> QED BY <1>4, EmptySeq DEF Init, StoredInv, StatementOK, CursorInTable, Scans

(* An INSERT, between its row and next_row_id.                             *)
LEMMA InsertKeeps ==
  ASSUME StoredInv, NEW list \in InsertLists, NEW literals \in [Given(list) -> Literals],
         Insert(list, literals)
  PROVE  StoredInv'
<1>1. PICK data : data = NewRow(list, literals)
  OBVIOUS
<1>2. data \in StoredData /\ PayloadLength(data) \in Nat
  BY <1>1, NewRowType, PayloadLengthType DEF Insert, Accepts, StoredData
<1>3. PICK row : row = [row_id |-> next_row_id, data |-> data, room |-> PayloadLength(data)]
  OBVIOUS
<1>4. row \in StoredRow
  BY <1>2, <1>3 DEF StoredRow, StoredInv
<1>5. leaves' = AppendRow(row)
  BY <1>1, <1>3 DEF Insert
<1>6. leaves' \in Seq(StoredLeaf) /\ leaves' # << >>
  BY <1>4, <1>5, AppendedRow
<1>7. pc' \in {"idle", "insert"} /\ UNCHANGED <<next_row_id, unique, stmt, cursor, before>>
  BY DEF Insert
<1> QED BY <1>6, <1>7 DEF StoredInv, StatementOK, CursorInTable, Scans

(* A step of a scan from a row to the same place or the next.              *)
LEMMA RowStepKeeps ==
  ASSUME StoredInv, AtRow, NEW rows \in Seq(StoredRow),
         leaves' = [leaves EXCEPT ![cursor[1]].rows = rows],
         \/ cursor' = cursor /\ Len(rows) = Len(leaves[cursor[1]].rows) - 1
         \/ GoesOn /\ Len(rows) = Len(leaves[cursor[1]].rows),
         UNCHANGED <<next_row_id, unique, pc, stmt, before>>
  PROVE  StoredInv'
<1>1. /\ leaves' \in Seq(StoredLeaf) /\ Len(leaves') = Len(leaves) /\ leaves' # << >>
      /\ leaves'[cursor[1]].rows = rows
  BY RowHere, RowsReplaced
<1>2. /\ cursor \in Nat \X Nat /\ cursor[1] \in 1..Len(leaves)
      /\ cursor[2] \in 1..Len(leaves[cursor[1]].rows)
  BY RowHere DEF StoredInv, CursorInTable, AtRow
<1>3. Len(rows) \in Nat /\ Len(leaves[cursor[1]].rows) \in Nat
  BY RowHere, LenProperties
<1>4. /\ cursor' \in Nat \X Nat /\ cursor'[1] = cursor[1]
      /\ cursor'[2] \in 1..Len(rows)+1
  BY <1>2, <1>3 DEF GoesOn
<1>5. CursorInTable'
  BY <1>1, <1>2, <1>4 DEF CursorInTable
<1> QED BY <1>1, <1>5 DEF StoredInv, StatementOK

(* A scan that looks at a row, shows it perhaps, and goes on.              *)
LEMMA PassKeeps ==
  ASSUME StoredInv, AtRow, GoesOn, UNCHANGED <<leaves, next_row_id, unique, pc, before>>,
         StatementOK'
  PROVE  StoredInv'
<1>1. /\ cursor \in Nat \X Nat /\ cursor[1] \in 1..Len(leaves)
      /\ cursor[2] \in 1..Len(leaves[cursor[1]].rows)
  BY RowHere DEF StoredInv, CursorInTable, AtRow
<1>2. Len(leaves[cursor[1]].rows) \in Nat
  BY RowHere, LenProperties
<1>3. /\ cursor' \in Nat \X Nat /\ cursor'[1] = cursor[1]
      /\ cursor'[2] \in 1..Len(leaves[cursor[1]].rows)+1
  BY <1>1, <1>2 DEF GoesOn
<1> QED BY <1>1, <1>3 DEF StoredInv, CursorInTable

(* A scan that comes to the first place of a leaf.                         *)
LEMMA LeafBeginKeeps ==
  ASSUME StoredInv, NEW l \in 1..Len(leaves), cursor' = <<l, 1>>,
         UNCHANGED <<leaves, next_row_id, unique>>, before' \in Seq(StoredLeaf), StatementOK'
  PROVE  StoredInv'
<1>1. leaves[l].rows \in Seq(StoredRow)
  <2>1. leaves[l] \in StoredLeaf
    BY ElementOfSeq DEF StoredInv
  <2> QED BY <2>1 DEF StoredLeaf
<1>2. Len(leaves[l].rows) \in Nat /\ Len(leaves) \in Nat
  BY <1>1, LenProperties DEF StoredInv
<1>3. cursor' \in Nat \X Nat /\ cursor'[1] = l /\ cursor'[2] \in 1..Len(leaves[l].rows)+1
  BY <1>2
<1> QED BY <1>3 DEF StoredInv, CursorInTable

LEMMA BeginKeeps ==
  ASSUME StoredInv, NEW kind, NEW statement, Begin(kind, statement), StatementOK'
  PROVE  StoredInv'
<1>1. 1 \in 1..Len(leaves)
  BY EmptySeq, LenProperties DEF StoredInv
<1> QED BY <1>1, LeafBeginKeeps DEF Begin, StoredInv

(* A row that UPDATE has set keeps its place in its cell: the values are   *)
(* no longer than those they replace, which were no longer than the first. *)
LEMMA UpdatedRow ==
  ASSUME StoredInv, AtRow, pc = "update", ~ Grows(Here.data)
  PROVE  [Here EXCEPT !.data = Updated(Here.data)] \in StoredRow
<1>1. /\ stmt.column \in Columns /\ stmt.value \in StoredValue
      /\ ColumnDefs[stmt.column].not_null => stmt.value # NULL
  BY DEF StoredInv, StatementOK
<1>2. /\ Here \in [row_id : Nat, data : StoredData, room : Nat]
      /\ Here.data \in StoredData /\ Here.room \in Nat
      /\ PayloadLength(Here.data) <= Here.room
  BY RowHere DEF StoredRow
<1>3. PICK data : data = Updated(Here.data)
  OBVIOUS
<1>4. data \in StoredData
  BY <1>1, <1>2, <1>3 DEF Updated, StoredData
<1>5. PayloadLength(data) \in Nat /\ PayloadLength(Here.data) \in Nat
  BY <1>2, <1>4, PayloadLengthType DEF StoredData
<1>6. PayloadLength(data) <= Here.room
  <2>1. ~ (PayloadLength(data) > PayloadLength(Here.data))
    BY <1>3 DEF Grows
  <2> QED BY <1>2, <1>5, <2>1
<1>7. PICK row : row = [Here EXCEPT !.data = data]
  OBVIOUS
<1>8. /\ row \in [row_id : Nat, data : StoredData, room : Nat]
      /\ row.data = data /\ row.room = Here.room
  BY <1>2, <1>4, <1>7
<1>9. row \in StoredRow
  BY <1>6, <1>8 DEF StoredRow
<1> QED BY <1>3, <1>7, <1>9

LEMMA StoredStep ==
  ASSUME StoredInv, [Next \/ Crash]_vars
  PROVE  StoredInv'
<1>1. ASSUME NEW list \in InsertLists, NEW literals \in [Given(list) -> Literals],
             Insert(list, literals)
      PROVE  StoredInv'
  BY <1>1, InsertKeeps
<1>2. CASE CountRow
  BY <1>2 DEF CountRow, StoredInv, StatementOK, CursorInTable, Scans
<1>3. CASE BeginSelectAll
  <2>1. StatementOK'
    BY <1>3, EmptySeq DEF BeginSelectAll, Begin, StatementOK, Scans
  <2> QED BY <1>3, <2>1, BeginKeeps DEF BeginSelectAll
<1>4. ASSUME NEW condition \in Condition, BeginSelect(condition) PROVE StoredInv'
  <2>1. PICK where \in Where : Begin("select", [where |-> where, shown |-> << >>])
    BY <1>4, FirstNamedType, OnType DEF BeginSelect, Condition
  <2>2. StatementOK'
    BY <2>1, EmptySeq DEF Begin, StatementOK, Scans
  <2> QED BY <2>1, <2>2, BeginKeeps
<1>5. ASSUME NEW condition \in Condition, BeginDelete(condition) PROVE StoredInv'
  <2>1. PICK where \in Where : Begin("delete", [where |-> where])
    BY <1>5, LastNamedType, OnType DEF BeginDelete, Condition
  <2>2. StatementOK'
    BY <2>1 DEF Begin, StatementOK, Scans
  <2> QED BY <2>1, <2>2, BeginKeeps
<1>6. ASSUME NEW condition \in Condition, NEW name \in Names, NEW value \in Literals,
             BeginUpdate(condition, name, value)
      PROVE  StoredInv'
  <2>1. PICK c \in Columns : c = FirstNamed(name)
    BY FirstNamedType
  <2>2. PICK where \in Where : where = On(LastNamed(condition.name), condition)
    BY LastNamedType, OnType DEF Condition
  <2>3. /\ Begin("update", [where |-> where, column |-> c, value |-> value])
        /\ ColumnDefs[c].not_null => value # NULL
    BY <1>6, <2>1, <2>2 DEF BeginUpdate, Allows
  <2>4. PICK statement : statement = [where |-> where, column |-> c, value |-> value]
    OBVIOUS
  <2>5. /\ statement \in [where : Where, column : Columns, value : StoredValue]
        /\ statement.column = c /\ statement.value = value
    BY <2>4 DEF StoredValue
  <2>6. stmt' = statement /\ pc' = "update"
    BY <2>3, <2>4 DEF Begin
  <2>7. StatementOK'
    BY <2>3, <2>5, <2>6 DEF StatementOK, Scans
  <2> QED BY <2>3, <2>7, BeginKeeps
<1>7. CASE PassRow
  <2>1. StatementOK'
    BY <1>7 DEF PassRow, StoredInv, StatementOK
  <2> QED BY <1>7, <2>1, PassKeeps DEF PassRow
<1>8. CASE ShowRow
  <2>1. stmt.shown \in Seq(Nat) /\ stmt \in [where : Where \union {NoCondition}, shown : Seq(Nat)]
    BY <1>8 DEF ShowRow, StoredInv, StatementOK
  <2>2. Here.row_id \in Nat
    BY <1>8, RowHere DEF ShowRow, StoredRow
  <2>3. PICK shown : shown = Append(stmt.shown, Here.row_id)
    OBVIOUS
  <2>4. shown \in Seq(Nat)
    BY <2>1, <2>2, <2>3, AppendProperties
  <2>5. stmt' = [stmt EXCEPT !.shown = shown] /\ pc = "select" /\ pc' = "select"
    BY <1>8, <2>3 DEF ShowRow
  <2>6. stmt' \in [where : Where \union {NoCondition}, shown : Seq(Nat)]
    BY <2>1, <2>4, <2>5
  <2>7. StatementOK'
    BY <2>5, <2>6 DEF StatementOK, Scans
  <2> QED BY <1>8, <2>7, PassKeeps DEF ShowRow
<1>9. CASE DeleteRow
  <2>1. PICK rows : rows = RemoveAt(leaves[cursor[1]].rows, cursor[2])
    OBVIOUS
  <2>2. AtRow /\ rows \in Seq(StoredRow) /\ Len(rows) = Len(leaves[cursor[1]].rows) - 1
    BY <1>9, <2>1, RowHere, Removed DEF DeleteRow
  <2>3. leaves' = [leaves EXCEPT ![cursor[1]].rows = rows]
    BY <1>9, <2>1 DEF DeleteRow
  <2> QED BY <1>9, <2>2, <2>3, RowStepKeeps DEF DeleteRow
<1>10. CASE UpdateRow
  <2>1. PICK row : row = [Here EXCEPT !.data = Updated(Here.data)]
    OBVIOUS
  <2>2. row \in StoredRow /\ AtRow
    BY <1>10, <2>1, UpdatedRow DEF UpdateRow
  <2>3. PICK rows : rows = [leaves[cursor[1]].rows EXCEPT ![cursor[2]] = row]
    OBVIOUS
  <2>4. rows \in Seq(StoredRow) /\ Len(rows) = Len(leaves[cursor[1]].rows)
    BY <2>2, <2>3, RowHere, Replaced
  <2>5. leaves' = [leaves EXCEPT ![cursor[1]].rows = rows]
    BY <1>10, <2>1, <2>3 DEF UpdateRow, Here
  <2> QED BY <1>10, <2>2, <2>4, <2>5, RowStepKeeps DEF UpdateRow
<1>11. CASE NextLeaf
  <2>1. cursor[1] \in 1..Len(leaves) /\ Len(leaves) \in Nat
    BY <1>11, LenProperties DEF NextLeaf, StoredInv, CursorInTable
  <2>2. PICK l \in 1..Len(leaves) : l = cursor[1] + 1
    BY <1>11, <2>1 DEF NextLeaf
  <2>3. StatementOK'
    BY <1>11 DEF NextLeaf, StoredInv, StatementOK
  <2>4. cursor' = <<l, 1>> /\ before' \in Seq(StoredLeaf)
    BY <1>11, <2>2 DEF NextLeaf, StoredInv
  <2> QED BY <1>11, <2>3, <2>4, LeafBeginKeeps DEF NextLeaf
<1>12. CASE RowThrows \/ ScanEnds \/ Crash
  BY <1>12, EmptySeq DEF RowThrows, ScanEnds, Crash, End, StoredInv, StatementOK, CursorInTable,
     Scans
<1>13. ASSUME NEW name \in Names, CreateIndex(name) PROVE StoredInv'
  <2>1. unique' \subseteq Columns
    BY <1>13, FirstNamedType DEF CreateIndex, StoredInv
  <2> QED BY <1>13, <2>1 DEF CreateIndex, StoredInv, StatementOK, CursorInTable
<1>14. CASE UNCHANGED vars
  BY <1>14 DEF vars, StoredInv, StatementOK, CursorInTable
<1>15. CASE StatementStep
  BY <1>2, <1>7, <1>8, <1>9, <1>10, <1>11, <1>12, <1>15 DEF StatementStep
<1> QED BY <1>1, <1>3, <1>4, <1>5, <1>6, <1>12, <1>13, <1>14, <1>15 DEF Next

(* The fields of a stored row, and those that have a type code at all.     *)
LEMMA FieldInType ==
  ASSUME NEW data \in StoredData, NEW c \in Columns
  PROVE  FieldIn(data, c) \in Field
<1>1. data[c] = NULL \/ data[c] \in 1..253
  BY StoredValueType DEF StoredData
<1>2. ColumnDefs[c].type \in DOMAIN Width \/ ColumnDefs[c].type = "TEXT"
  BY ColumnRange DEF ColumnTypes, TypeCode, Width
<1>3. "TEXT" \notin DOMAIN Width /\ "NULL_TYPE" \in DOMAIN Width /\ Width["NULL_TYPE"] = 0
  BY DEF Width
<1>4. CASE data[c] = NULL
  <2>1. FieldIn(data, c) = [type |-> "NULL_TYPE", length |-> Width["NULL_TYPE"]]
    BY <1>3, <1>4 DEF FieldIn, Bytes
  <2> QED BY <1>3, <2>1 DEF Field
<1>5. CASE data[c] # NULL /\ ColumnDefs[c].type \in DOMAIN Width
  <2>1. FieldIn(data, c) = [type |-> ColumnDefs[c].type, length |-> Width[ColumnDefs[c].type]]
    BY <1>3, <1>5 DEF FieldIn, Bytes
  <2> QED BY <1>5, <2>1 DEF Field
<1>6. CASE data[c] # NULL /\ ColumnDefs[c].type = "TEXT"
  <2>1. FieldIn(data, c) = [type |-> "TEXT", length |-> data[c]]
    BY <1>6 DEF FieldIn, Bytes
  <2> QED BY <1>1, <1>6, <2>1 DEF Field
<1> QED BY <1>2, <1>4, <1>5, <1>6

LEMMA FieldInShort ==
  ASSUME NEW data \in StoredData, NEW c \in Columns, IsTypeCode(CodeOf(FieldIn(data, c)))
  PROVE  ~ LongText(FieldIn(data, c))
<1> SUFFICES ASSUME LongText(FieldIn(data, c)) PROVE FALSE
  OBVIOUS
<1>1. data[c] \in Literals \union {NULL}
  BY DEF StoredData, StoredValue
<1>2. data[c] # NULL /\ ColumnDefs[c].type = "TEXT" /\ FieldIn(data, c) = [type |-> "TEXT", length |-> data[c]]
  BY DEF LongText, FieldIn, Bytes
<1>3. data[c] >= 244
  BY <1>2 DEF LongText
<1>4. data[c] = 251 \/ data[c] = 253
  <2>1. data[c] \in 1..243 \/ data[c] = 251 \/ data[c] = 253
    <3>1. Literals \subseteq 1..243 \union {251, 253, NULL}
      BY StatementsAssumption
    <3>2. PICK short : short = 1..243
      OBVIOUS
    <3>3. data[c] \in short \union {251, 253, NULL}
      BY <1>1, <1>2, <3>1, <3>2, Zenon
    <3> QED BY <1>2, <3>2, <3>3, Zenon
  <2>2. PICK length : length = data[c]
    OBVIOUS
  <2>3. ~ (length \in 1..243)
    BY <1>3, <2>2
  <2> QED BY <2>1, <2>2, <2>3
<1>5. CodeOf(FieldIn(data, c)) = (12 + data[c]) % 256
  BY <1>2 DEF CodeOf, TypeCode
<1>6. CodeOf(FieldIn(data, c)) = 7 \/ CodeOf(FieldIn(data, c)) = 9
  BY <1>4, <1>5
<1>7. 7 \notin FixedCodes /\ 9 \notin FixedCodes /\ TypeCode.TEXT = 12
  BY DEF FixedCodes, Width, TypeCode
<1> QED BY <1>6, <1>7 DEF IsTypeCode

LEMMA StoredInvariant == CrashSpec => []StoredInv
<1>1. Init => StoredInv
  BY StoredInit
<1>2. StoredInv /\ [Next \/ Crash]_vars => StoredInv'
  BY StoredStep
<1> QED BY <1>1, <1>2, PTL DEF CrashSpec

-----------------------------------------------------------------------------
(* What the invariant says of the rows of the table.                        *)

LEMMA StoredRows ==
  ASSUME StoredInv, NEW row \in Rows
  PROVE  row \in StoredRow
<1>1. PICK l \in DOMAIN leaves : row \in ToSet(leaves[l].rows)
  BY DEF Rows
<1>2. leaves[l] \in StoredLeaf
  BY <1>1, ElementOfSeq, LenProperties DEF StoredInv
<1>3. leaves[l].rows \in Seq(StoredRow)
  BY <1>2 DEF StoredLeaf
<1>4. PICK i \in DOMAIN leaves[l].rows : row = leaves[l].rows[i]
  BY <1>1 DEF ToSet
<1> QED BY <1>3, <1>4, ElementOfSeq, LenProperties

LEMMA StoredIsTyped ==
  /\ StoredData \subseteq RowData
  /\ StoredRow \subseteq Row
  /\ StoredLeaf \subseteq Leaf
<1>1. StoredData \subseteq RowData
  BY StoredValueType DEF StoredData, RowData
<1>2. StoredRow \subseteq Row
  BY <1>1 DEF StoredRow, Row
<1>3. ASSUME NEW leaf \in StoredLeaf PROVE leaf \in Leaf
  <2>1. leaf.rows \in Seq(Row)
    <3>1. leaf.rows \in Seq(StoredRow)
      BY DEF StoredLeaf
    <3> QED BY <1>2, <3>1, SeqMonotonic
  <2> QED BY <2>1 DEF StoredLeaf, Leaf
<1> QED BY <1>1, <1>2, <1>3

(* Whatever the statements, and wherever one ends, every variable has its  *)
(* type and a scan is at a row of the table or behind the last of a leaf.  *)
THEOREM TypeCorrect == CrashSpec => []TypeOK
<1>1. StoredInv => TypeOK
  <2> SUFFICES ASSUME StoredInv PROVE TypeOK
    OBVIOUS
  <2>1. leaves \in Seq(Leaf) /\ before \in Seq(Leaf)
    BY StoredIsTyped, SeqMonotonic DEF StoredInv
  <2>2. pc = "update" => stmt \in [where : Where, column : Columns, value : Value]
    BY StoredValueType DEF StoredInv, StatementOK
  <2>3. pc \in Scans =>
          cursor[1] \in DOMAIN leaves /\ cursor[2] \in 1..Len(leaves[cursor[1]].rows)+1
    BY <2>1, LenProperties DEF StoredInv, CursorInTable
  <2> QED BY <2>1, <2>2, <2>3 DEF StoredInv, StatementOK, TypeOK
<1> QED BY <1>1, StoredInvariant, PTL

(* No row ever has NULL in a NOT NULL column, however its statement ends:  *)
(* INSERT checks the row it appends (ast.cpp:130), UPDATE the one value it *)
(* sets in every row (ast.cpp:294), and what is checked is what is stored. *)
THEOREM NotNullKept == CrashSpec => []NotNullHolds
<1>1. StoredInv => NotNullHolds
  BY StoredRows DEF StoredRow, StoredData, NotNullHolds
<1> QED BY <1>1, StoredInvariant, PTL

(* The values of a row never need more bytes than its cell was given when  *)
(* the row was inserted: however often it is updated, values that shrink   *)
(* and grow again stay within what updateRecord compares them with         *)
(* (table_leaf_page.cpp:320), so no update reaches into the next cell.     *)
THEOREM UpdatesStayInTheirCells == CrashSpec => []RowsFitTheirCells
<1>1. StoredInv => RowsFitTheirCells
  BY StoredRows DEF StoredRow, RowsFitTheirCells
<1> QED BY <1>1, StoredInvariant, PTL

(* A row that can be read reads back as the fields written, for every      *)
(* table and workload with the literals of StatementsAssumption: no type   *)
(* is taken for another, and no length of a TEXT that fits its code.       *)
THEOREM RowsComeBack == CrashSpec => []RowsReadBack
<1>1. StoredInv => RowsReadBack
  <2> SUFFICES ASSUME StoredInv, NEW row \in Rows, Readable(row.data), NEW c \in Columns
               PROVE  FieldOf(CodeOf(FieldIn(row.data, c))) = FieldIn(row.data, c)
    BY DEF RowsReadBack
  <2>1. row.data \in StoredData /\ IsTypeCode(CodeOf(FieldIn(row.data, c)))
    BY StoredRows DEF StoredRow, Readable
  <2>2. PICK field : field = FieldIn(row.data, c)
    OBVIOUS
  <2>3. field \in Field
    BY <2>1, <2>2, FieldInType
  <2>4. ~ LongText(field)
    BY <2>1, <2>2, FieldInShort
  <2> QED BY <2>2, <2>3, <2>4, ReadsBackExactly
<1> QED BY <1>1, StoredInvariant, PTL

-----------------------------------------------------------------------------
(* AtPlaces as the function of the first i rows that it is the last value of. *)
Picks(f, rows, places, n) ==
  f = [i \in 0..n |->
         IF i = 0 THEN << >>
         ELSE IF i \in places THEN Append(f[i-1], rows[i]) ELSE f[i-1]]
Pickable(rows, places, n) == \E f : Picks(f, rows, places, n)

LEMMA PicksFirst ==
  ASSUME NEW rows, NEW places, NEW n \in Nat, NEW f, Picks(f, rows, places, n)
  PROVE  f[0] = << >>
<1>1. 0 \in 0..n
  OBVIOUS
<1> QED BY <1>1 DEF Picks

LEMMA PicksNext ==
  ASSUME NEW rows, NEW places, NEW n \in Nat, NEW f, Picks(f, rows, places, n), NEW i \in 1..n
  PROVE  f[i] = IF i \in places THEN Append(f[i-1], rows[i]) ELSE f[i-1]
<1>1. i \in 0..n /\ i # 0
  OBVIOUS
<1> QED BY <1>1 DEF Picks

LEMMA AlwaysPickable ==
  ASSUME NEW rows, NEW places, NEW n \in Nat
  PROVE  Pickable(rows, places, n)
<1>1. PICK A : A = {m \in Nat : Pickable(rows, places, m)}
  OBVIOUS
<1>2. 0 \in A
  <2>1. PICK f : f = [i \in 0..0 |-> << >>]
    OBVIOUS
  <2>2. Picks(f, rows, places, 0)
    BY <2>1 DEF Picks
  <2> QED BY <1>1, <2>2 DEF Pickable
<1>3. ASSUME NEW m \in 0..n-1, m \in A PROVE m+1 \in A
  <2>1. PICK f : Picks(f, rows, places, m)
    BY <1>1, <1>3 DEF Pickable
  <2>2. PICK last : last = IF m+1 \in places THEN Append(f[m], rows[m+1]) ELSE f[m]
    OBVIOUS
  <2>3. PICK g : g = [i \in 0..m+1 |-> IF i = m+1 THEN last ELSE f[i]]
    OBVIOUS
  <2>4. ASSUME NEW i \in 0..m+1
        PROVE  g[i] = IF i = 0 THEN << >>
                      ELSE IF i \in places THEN Append(g[i-1], rows[i]) ELSE g[i-1]
    <3>1. CASE i = m+1
      <4>1. g[i] = last /\ i # 0 /\ i-1 = m /\ g[m] = f[m]
        BY <2>3, <3>1
      <4> QED BY <2>2, <3>1, <4>1
    <3>2. CASE i # m+1 /\ i # 0
      <4>1. i \in 1..m /\ g[i] = f[i] /\ g[i-1] = f[i-1]
        BY <2>3, <3>2
      <4> QED BY <2>1, <3>2, <4>1, PicksFirst, PicksNext
    <3>3. CASE i # m+1 /\ i = 0
      BY <2>1, <2>3, <3>3, PicksFirst, PicksNext
    <3> QED BY <3>1, <3>2, <3>3
  <2>5. Picks(g, rows, places, m+1)
    BY <2>3, <2>4 DEF Picks
  <2> QED BY <1>1, <2>5 DEF Pickable
<1>4. 0..n \subseteq A
  BY <1>2, <1>3, UpTo
<1> QED BY <1>1, <1>4

LEMMA AtPlacesPicks ==
  ASSUME NEW S, NEW rows \in Seq(S), NEW places
  PROVE  \E f : Picks(f, rows, places, Len(rows)) /\ AtPlaces(rows, places) = f[Len(rows)]
<1>1. Len(rows) \in Nat
  BY LenProperties
<1>2. PICK f : f = CHOOSE g : Picks(g, rows, places, Len(rows))
  OBVIOUS
<1>3. Picks(f, rows, places, Len(rows))
  BY <1>1, <1>2, AlwaysPickable, Zenon DEF Pickable
<1>4. AtPlaces(rows, places) = f[Len(rows)]
  BY <1>2 DEF AtPlaces, Picks
<1> QED BY <1>3, <1>4

LEMMA PicksType ==
  ASSUME NEW S, NEW rows \in Seq(S), NEW n \in Nat, n = Len(rows),
         NEW places, NEW f, Picks(f, rows, places, n)
  PROVE  f[n] \in Seq(S)
<1>1. PICK A : A = {i \in 0..n : f[i] \in Seq(S)}
  OBVIOUS
<1>2. 0 \in A
  <2>1. f[0] = << >>
    BY PicksFirst
  <2>2. 0 \in 0..n /\ << >> \in Seq(S)
    BY EmptySeq
  <2> QED BY <1>1, <2>1, <2>2
<1>3. ASSUME NEW i \in 0..n-1, i \in A PROVE i+1 \in A
  <2>1. i+1 \in 1..n /\ i+1-1 = i
    OBVIOUS
  <2>2. rows[i+1] \in S /\ f[i] \in Seq(S)
    BY <1>1, <1>3, <2>1, ElementOfSeq
  <2>3. f[i+1] = IF i+1 \in places THEN Append(f[i+1-1], rows[i+1]) ELSE f[i+1-1]
    BY <2>1, PicksNext
  <2>4. f[i+1] \in Seq(S)
    BY <2>1, <2>2, <2>3, AppendProperties
  <2> QED BY <1>1, <2>1, <2>4
<1>4. 0..n \subseteq A
  BY <1>2, <1>3, UpTo
<1> QED BY <1>1, <1>4

(* Rows and places that agree up to n are picked alike up to n.            *)
LEMMA PicksAgree ==
  ASSUME NEW n \in Nat, NEW m \in Nat, n <= m,
         NEW rows, NEW places, NEW f, Picks(f, rows, places, n),
         NEW others, NEW marked, NEW g, Picks(g, others, marked, m),
         \A i \in 1..n : others[i] = rows[i],
         \A i \in 1..n : i \in marked <=> i \in places
  PROVE  f[n] = g[n]
<1>1. PICK A : A = {i \in 0..n : f[i] = g[i]}
  OBVIOUS
<1>2. 0 \in A
  BY <1>1, PicksFirst
<1>3. ASSUME NEW i \in 0..n-1, i \in A PROVE i+1 \in A
  <2>1. i+1 \in 1..n /\ i+1 \in 1..m /\ i+1-1 = i /\ f[i] = g[i]
    BY <1>1, <1>3
  <2>2. rows[i+1] = others[i+1] /\ (i+1 \in places <=> i+1 \in marked)
    BY <2>1
  <2>3. f[i+1] = IF i+1 \in places THEN Append(f[i+1-1], rows[i+1]) ELSE f[i+1-1]
    BY <2>1, PicksNext
  <2>4. g[i+1] = IF i+1 \in marked THEN Append(g[i+1-1], others[i+1]) ELSE g[i+1-1]
    BY <2>1, PicksNext
  <2>5. f[i+1] = g[i+1]
    BY <2>1, <2>2, <2>3, <2>4
  <2> QED BY <1>1, <2>1, <2>5
<1>4. 0..n \subseteq A
  BY <1>2, <1>3, UpTo
<1> QED BY <1>1, <1>4

(* The rows at some places are rows; one row more is picked or not.        *)
LEMMA AtPlacesType ==
  ASSUME NEW S, NEW rows \in Seq(S), NEW places
  PROVE  /\ AtPlaces(rows, places) \in Seq(S)
         /\ rows = << >> => AtPlaces(rows, places) = << >>
<1>1. PICK f : Picks(f, rows, places, Len(rows)) /\ AtPlaces(rows, places) = f[Len(rows)]
  BY AtPlacesPicks
<1>2. AtPlaces(rows, places) \in Seq(S)
  BY <1>1, LenProperties, PicksType
<1>3. ASSUME rows = << >> PROVE AtPlaces(rows, places) = << >>
  <2>1. Len(rows) = 0
    BY <1>3, EmptySeq
  <2> QED BY <1>1, <2>1, PicksFirst
<1> QED BY <1>2, <1>3

LEMMA AtPlacesAppend ==
  ASSUME NEW S, NEW rows \in Seq(S), NEW row \in S, NEW places, NEW marked,
         \A i \in 1..Len(rows) : i \in marked <=> i \in places
  PROVE  AtPlaces(Append(rows, row), marked)
           = IF Len(rows)+1 \in marked THEN Append(AtPlaces(rows, places), row)
             ELSE AtPlaces(rows, places)
<1>1. PICK more : more = Append(rows, row)
  OBVIOUS
<1>2. /\ more \in Seq(S) /\ Len(rows) \in Nat /\ Len(more) = Len(rows)+1
      /\ more[Len(rows)+1] = row
      /\ \A i \in 1..Len(rows) : more[i] = rows[i]
  BY <1>1, AppendProperties, LenProperties
<1>3. PICK f : Picks(f, rows, places, Len(rows)) /\ AtPlaces(rows, places) = f[Len(rows)]
  BY AtPlacesPicks
<1>4. PICK g : Picks(g, more, marked, Len(more)) /\ AtPlaces(more, marked) = g[Len(more)]
  BY <1>2, AtPlacesPicks
<1>5. PICK n \in Nat : n = Len(rows)
  BY <1>2
<1>6. PICK m \in Nat : m = Len(more)
  BY <1>2
<1>7. f[n] = g[n]
  BY <1>2, <1>3, <1>4, <1>5, <1>6, PicksAgree
<1>8. m \in 1..m /\ m-1 = n /\ n+1 = m
  BY <1>2, <1>5, <1>6
<1>9. Picks(g, more, marked, m)
  BY <1>4, <1>6
<1>10. g[m] = IF m \in marked THEN Append(g[m-1], more[m]) ELSE g[m-1]
  BY <1>8, <1>9, PicksNext
<1> QED BY <1>1, <1>2, <1>3, <1>4, <1>5, <1>6, <1>7, <1>8, <1>10

-----------------------------------------------------------------------------
(* What a statement makes of rows, as a function of the statement.          *)

SelectingBy(where, rows) == {i \in DOMAIN rows : Satisfied(where, rows[i].data)}
UpdatedBy(s, row) == [row EXCEPT !.data = [@ EXCEPT ![s.column] = s.value]]
EffectOn(kind, s, rows) ==
  IF kind = "select" THEN rows
  ELSE IF kind = "delete" THEN AtPlaces(rows, DOMAIN rows \ SelectingBy(s.where, rows))
  ELSE [i \in DOMAIN rows |->
          IF i \in SelectingBy(s.where, rows) THEN UpdatedBy(s, rows[i]) ELSE rows[i]]

(* The first v rows of a leaf are treated, the others as they were. *)
Treated(kind, s, rows, then, v) ==
  /\ v \in 0..Len(then)
  /\ rows = EffectOn(kind, s, SubSeq(then, 1, v)) \o SubSeq(then, v+1, Len(then))

(* A statement as scans have it. *)
OfKind(kind, s) ==
  /\ kind \in Scans
  /\ kind = "update" => s.column \in Columns /\ s.value \in Value

LEMMA UpdatedByType ==
  ASSUME NEW s, OfKind("update", s), NEW row \in Row
  PROVE  UpdatedBy(s, row) \in Row
<1>1. PICK data : data = [row.data EXCEPT ![s.column] = s.value]
  OBVIOUS
<1>2. data \in RowData
  BY <1>1 DEF OfKind, Row, RowData
<1>3. UpdatedBy(s, row) = [row EXCEPT !.data = data]
  BY <1>1 DEF UpdatedBy
<1> QED BY <1>2, <1>3 DEF Row

LEMMA EffectType ==
  ASSUME NEW kind, NEW s, OfKind(kind, s), NEW rows \in Seq(Row)
  PROVE  EffectOn(kind, s, rows) \in Seq(Row)
<1>1. CASE kind = "select"
  BY <1>1 DEF EffectOn
<1>2. CASE kind = "delete"
  BY <1>2, AtPlacesType DEF EffectOn
<1>3. CASE kind = "update"
  <2>1. PICK n \in Nat : n = Len(rows) /\ DOMAIN rows = 1..n
    BY LenProperties
  <2>2. PICK f : f = EffectOn(kind, s, rows)
    OBVIOUS
  <2>3. DOMAIN f = 1..n /\ f = [i \in 1..n |-> f[i]]
    BY <1>3, <2>1, <2>2 DEF EffectOn
  <2>4. ASSUME NEW i \in 1..n PROVE f[i] \in Row
    <3>1. rows[i] \in Row
      BY <2>1, ElementOfSeq
    <3>2. UpdatedBy(s, rows[i]) \in Row
      BY <1>3, <3>1, UpdatedByType
    <3>3. f[i] = UpdatedBy(s, rows[i]) \/ f[i] = rows[i]
      BY <1>3, <2>1, <2>2 DEF EffectOn
    <3> QED BY <3>1, <3>2, <3>3
  <2>5. f \in [1..n -> Row]
    BY <2>3, <2>4
  <2> QED BY <2>2, <2>5
<1> QED BY <1>1, <1>2, <1>3 DEF OfKind, Scans

LEMMA EffectOnNone ==
  ASSUME NEW kind, NEW s, OfKind(kind, s)
  PROVE  EffectOn(kind, s, << >>) = << >>
<1>0. << >> \in Seq(Row) /\ Len(<< >>) = 0 /\ DOMAIN << >> = {}
  BY EmptySeq
<1>1. CASE kind = "select"
  BY <1>1 DEF EffectOn
<1>2. CASE kind = "delete"
  BY <1>0, <1>2, AtPlacesType DEF EffectOn
<1>3. CASE kind = "update"
  <2>1. PICK f : f = EffectOn(kind, s, << >>)
    OBVIOUS
  <2>2. DOMAIN f = {} /\ f \in Seq(Row)
    BY <1>0, <1>3, <2>1, EffectType DEF EffectOn
  <2>3. Len(f) = 0
    BY <2>2, LenProperties
  <2> QED BY <2>1, <2>2, <2>3, EmptySeq
<1> QED BY <1>1, <1>2, <1>3 DEF OfKind, Scans

(* One row more is treated by itself. *)
LEMMA EffectOnMore ==
  ASSUME NEW kind, NEW s, OfKind(kind, s), NEW rows \in Seq(Row), NEW row \in Row
  PROVE  /\ kind = "select" \/ ~ Satisfied(s.where, row.data) =>
              EffectOn(kind, s, Append(rows, row)) = Append(EffectOn(kind, s, rows), row)
         /\ kind = "delete" /\ Satisfied(s.where, row.data) =>
              EffectOn(kind, s, Append(rows, row)) = EffectOn(kind, s, rows)
         /\ kind = "update" /\ Satisfied(s.where, row.data) =>
              EffectOn(kind, s, Append(rows, row))
                = Append(EffectOn(kind, s, rows), UpdatedBy(s, row))
<1>1. PICK n \in Nat : n = Len(rows) /\ DOMAIN rows = 1..n
  BY LenProperties
<1>2. PICK more : more = Append(rows, row)
  OBVIOUS
<1>3. /\ more \in Seq(Row) /\ Len(more) = n+1 /\ DOMAIN more = 1..n+1
      /\ more[n+1] = row /\ \A i \in 1..n : more[i] = rows[i]
  BY <1>1, <1>2, AppendProperties, LenProperties
<1>4. CASE kind = "select"
  BY <1>4 DEF EffectOn
<1>5. CASE kind = "delete"
  <2>1. PICK places : places = DOMAIN rows \ SelectingBy(s.where, rows)
    OBVIOUS
  <2>2. PICK marked : marked = DOMAIN more \ SelectingBy(s.where, more)
    OBVIOUS
  <2>3. \A i \in 1..n : i \in marked <=> i \in places
    BY <1>1, <1>3, <2>1, <2>2 DEF SelectingBy
  <2>4. n+1 \in marked <=> ~ Satisfied(s.where, row.data)
    BY <1>3, <2>2 DEF SelectingBy
  <2>5. AtPlaces(more, marked)
          = IF n+1 \in marked THEN Append(AtPlaces(rows, places), row) ELSE AtPlaces(rows, places)
    BY <1>1, <1>2, <2>3, AtPlacesAppend
  <2>6. /\ EffectOn(kind, s, more) = AtPlaces(more, marked)
        /\ EffectOn(kind, s, rows) = AtPlaces(rows, places)
    BY <1>5, <2>1, <2>2 DEF EffectOn
  <2> QED BY <1>2, <1>5, <2>4, <2>5, <2>6
<1>6. CASE kind = "update"
  <2>1. PICK last : last = IF Satisfied(s.where, row.data) THEN UpdatedBy(s, row) ELSE row
    OBVIOUS
  <2>2. last \in Row
    BY <1>6, <2>1, UpdatedByType
  <2>3. PICK f \in Seq(Row) : f = EffectOn(kind, s, rows)
    BY EffectType
  <2>4. PICK g \in Seq(Row) : g = EffectOn(kind, s, more)
    BY <1>3, EffectType
  <2>5. /\ DOMAIN f = 1..n
        /\ \A i \in 1..n : f[i] = IF Satisfied(s.where, rows[i].data) THEN UpdatedBy(s, rows[i]) ELSE rows[i]
    BY <1>1, <1>6, <2>3 DEF EffectOn, SelectingBy
  <2>6. /\ DOMAIN g = 1..n+1
        /\ \A i \in 1..n+1 : g[i] = IF Satisfied(s.where, more[i].data) THEN UpdatedBy(s, more[i]) ELSE more[i]
    BY <1>3, <1>6, <2>4 DEF EffectOn, SelectingBy
  <2>7. Len(f) = n /\ Len(g) = n+1
    BY <2>5, <2>6, LenProperties
  <2>8. PICK h : h = Append(f, last)
    OBVIOUS
  <2>9. h \in Seq(Row) /\ Len(h) = n+1 /\ h[n+1] = last /\ \A i \in 1..n : h[i] = f[i]
    BY <2>2, <2>7, <2>8, AppendProperties
  <2>10. \A i \in 1..n+1 : i \in 1..n \/ i = n+1
    OBVIOUS
  <2>11. \A i \in 1..n : g[i] = f[i]
    BY <1>3, <2>5, <2>6
  <2>12. g[n+1] = last
    BY <1>3, <2>1, <2>6
  <2>13. \A i \in 1..n+1 : g[i] = h[i]
    BY <2>9, <2>10, <2>11, <2>12
  <2>14. g = h
    BY <2>7, <2>9, <2>13, SeqEqual
  <2> QED BY <1>2, <1>6, <2>1, <2>3, <2>4, <2>8, <2>14
<1> QED BY <1>4, <1>5, <1>6 DEF OfKind, Scans

(* The row at place k is the next of those the scan began with.            *)
NextIs(kind, s, rows, then, v, k, front, back) ==
  /\ v \in Nat /\ v+1 \in 1..Len(then) /\ rows[k] = then[v+1] /\ rows[k] \in Row
  /\ front = EffectOn(kind, s, SubSeq(then, 1, v))
  /\ back = SubSeq(then, v+2, Len(then))
  /\ Middle(Row, rows, k, front, rows[k], back)
  /\ SubSeq(then, 1, v) \in Seq(Row)
  /\ SubSeq(then, 1, v+1) = Append(SubSeq(then, 1, v), rows[k])

LEMMA TreatedHere ==
  ASSUME NEW kind, NEW s, OfKind(kind, s), NEW then \in Seq(Row), NEW rows,
         NEW v, NEW k, Treated(kind, s, rows, then, v), Reaches(rows, then, v, k)
  PROVE  \E front, back : NextIs(kind, s, rows, then, v, k, front, back)
<1>1. PICK n \in Nat : n = Len(then)
  BY LenProperties
<1>2. v \in 0..n /\ v \in Nat
  BY <1>1 DEF Treated
<1>3. SubSeq(then, 1, v) \in Seq(Row)
  <2>1. \A i \in 1..n : then[i] \in Row
    BY <1>1, ElementOfSeq
  <2>2. \A i \in 1..v : then[i] \in Row
    BY <1>2, <2>1
  <2> QED BY <1>2, <2>2, SubSeqProperties
<1>4. PICK front \in Seq(Row) : front = EffectOn(kind, s, SubSeq(then, 1, v))
  BY <1>3, EffectType
<1>5. Resting(rows, front, then, v)
  BY <1>4 DEF Treated, Resting
<1>6. PICK back : back = SubSeq(then, v+2, Len(then))
  OBVIOUS
<1>7. /\ v+1 \in 1..Len(then) /\ rows[k] = then[v+1]
      /\ SubSeq(then, 1, v+1) = Append(SubSeq(then, 1, v), rows[k])
      /\ Middle(Row, rows, k, front, rows[k], back)
  BY <1>5, <1>6, NextOfRest
<1>8. rows[k] \in Row
  BY <1>7 DEF Middle
<1>9. NextIs(kind, s, rows, then, v, k, front, back)
  BY <1>2, <1>3, <1>4, <1>6, <1>7, <1>8 DEF NextIs
<1> QED BY <1>9

(* One row more is treated: left, removed or changed.                      *)
TreatedNext(kind, s, rows, then, v) == Treated(kind, s, rows, then, v+1)

LEMMA TreatedMore ==
  ASSUME NEW kind, NEW s, NEW then, NEW rows, NEW new, NEW v, NEW k, NEW front, NEW back,
         NextIs(kind, s, rows, then, v, k, front, back),
         NEW after, after = EffectOn(kind, s, Append(SubSeq(then, 1, v), rows[k])),
         new = after \o back
  PROVE  TreatedNext(kind, s, new, then, v)
<1>1. /\ v \in Nat /\ v+1 \in 1..Len(then)
      /\ SubSeq(then, 1, v+1) = Append(SubSeq(then, 1, v), rows[k])
      /\ back = SubSeq(then, v+2, Len(then))
  BY DEF NextIs
<1>2. PICK w \in 1..Len(then) : w = v+1
  BY <1>1
<1>3. w \in 0..Len(then) /\ w+1 = v+2
  BY <1>1, <1>2
<1>4. new = EffectOn(kind, s, SubSeq(then, 1, w)) \o SubSeq(then, w+1, Len(then))
  BY <1>1, <1>2, <1>3
<1> QED BY <1>2, <1>3, <1>4 DEF TreatedNext, Treated

(* What one more row adds to the rows treated, by what becomes of it.      *)
LEMMA EffectHere ==
  ASSUME NEW kind, NEW s, OfKind(kind, s), NEW rows, NEW then, NEW v, NEW k, NEW front, NEW back,
         NextIs(kind, s, rows, then, v, k, front, back)
  PROVE  /\ kind = "select" \/ ~ Satisfied(s.where, rows[k].data) =>
              EffectOn(kind, s, Append(SubSeq(then, 1, v), rows[k])) = Append(front, rows[k])
         /\ kind = "delete" /\ Satisfied(s.where, rows[k].data) =>
              EffectOn(kind, s, Append(SubSeq(then, 1, v), rows[k])) = front
         /\ kind = "update" /\ Satisfied(s.where, rows[k].data) =>
              EffectOn(kind, s, Append(SubSeq(then, 1, v), rows[k]))
                = Append(front, UpdatedBy(s, rows[k]))
<1>1. PICK first \in Seq(Row) : first = SubSeq(then, 1, v)
  BY DEF NextIs
<1>2. front = EffectOn(kind, s, first)
  BY <1>1 DEF NextIs
<1>3. PICK e \in Row : e = rows[k]
  BY DEF NextIs
<1>4. PICK more : more = EffectOn(kind, s, Append(first, e))
  OBVIOUS
<1>5. /\ kind = "select" \/ ~ Satisfied(s.where, e.data) => more = Append(front, e)
      /\ kind = "delete" /\ Satisfied(s.where, e.data) => more = front
      /\ kind = "update" /\ Satisfied(s.where, e.data) => more = Append(front, UpdatedBy(s, e))
  BY <1>2, <1>4, EffectOnMore
<1> QED BY <1>1, <1>3, <1>4, <1>5

LEMMA TreatedKept ==
  ASSUME NEW kind, NEW s, OfKind(kind, s), NEW then \in Seq(Row), NEW rows,
         NEW v, NEW k, Treated(kind, s, rows, then, v), Reaches(rows, then, v, k),
         kind = "select" \/ ~ Satisfied(s.where, rows[k].data)
  PROVE  TreatedNext(kind, s, rows, then, v)
<1>1. PICK front, back : NextIs(kind, s, rows, then, v, k, front, back)
  BY TreatedHere
<1>2. PICK after : after = EffectOn(kind, s, Append(SubSeq(then, 1, v), rows[k]))
  OBVIOUS
<1>3. after = Append(front, rows[k])
  BY <1>1, <1>2, EffectHere
<1>4. rows = after \o back
  BY <1>1, <1>3 DEF NextIs, Middle
<1> QED BY <1>1, <1>2, <1>4, TreatedMore

LEMMA TreatedRemoved ==
  ASSUME NEW s, OfKind("delete", s), NEW then \in Seq(Row), NEW rows,
         NEW v, NEW k, Treated("delete", s, rows, then, v), Reaches(rows, then, v, k),
         Satisfied(s.where, rows[k].data)
  PROVE  TreatedNext("delete", s, RemoveAt(rows, k), then, v)
<1>1. PICK front, back : NextIs("delete", s, rows, then, v, k, front, back)
  BY TreatedHere
<1>2. PICK after : after = EffectOn("delete", s, Append(SubSeq(then, 1, v), rows[k]))
  OBVIOUS
<1>3. after = front
  BY <1>1, <1>2, EffectHere
<1>4. RemoveAt(rows, k) = front \o back
  <2>1. Middle(Row, rows, k, front, rows[k], back)
    BY <1>1 DEF NextIs
  <2> QED BY <2>1, MiddleGone
<1>5. PICK new : new = RemoveAt(rows, k)
  OBVIOUS
<1>6. new = after \o back
  BY <1>3, <1>4, <1>5
<1> QED BY <1>1, <1>2, <1>5, <1>6, TreatedMore

LEMMA TreatedChanged ==
  ASSUME NEW s, OfKind("update", s), NEW then \in Seq(Row), NEW rows,
         NEW v, NEW k, Treated("update", s, rows, then, v), Reaches(rows, then, v, k),
         Satisfied(s.where, rows[k].data), NEW d, d = UpdatedBy(s, rows[k])
  PROVE  TreatedNext("update", s, [rows EXCEPT ![k] = d], then, v)
<1>1. PICK front, back : NextIs("update", s, rows, then, v, k, front, back)
  BY TreatedHere
<1>2. PICK after : after = EffectOn("update", s, Append(SubSeq(then, 1, v), rows[k]))
  OBVIOUS
<1>3. after = Append(front, d)
  BY <1>1, <1>2, EffectHere
<1>4. PICK new : new = [rows EXCEPT ![k] = d]
  OBVIOUS
<1>5. d \in Row /\ Middle(Row, rows, k, front, rows[k], back)
  BY <1>1, UpdatedByType DEF NextIs
<1>6. Middle(Row, new, k, front, d, back)
  BY <1>4, <1>5, MiddleNew
<1>7. new = after \o back
  BY <1>3, <1>6 DEF Middle
<1>8. TreatedNext("update", s, new, then, v)
  BY <1>1, <1>2, <1>7, TreatedMore
<1> QED BY <1>4, <1>8, Zenon

LEMMA TreatedNone ==
  ASSUME NEW kind, NEW s, OfKind(kind, s), NEW then \in Seq(Row), NEW rows
  PROVE  Treated(kind, s, rows, then, 0) <=> rows = then
<1>1. PICK n \in Nat : n = Len(then)
  BY LenProperties
<1>2. SubSeq(then, 1, 0) = << >>
  BY SubSeqEmpty
<1>3. SubSeq(then, 0+1, Len(then)) = then
  BY SubSeqFull
<1>4. EffectOn(kind, s, SubSeq(then, 1, 0)) \o SubSeq(then, 0+1, Len(then)) = << >> \o then
  BY <1>2, <1>3, EffectOnNone
<1>5. << >> \o then = then
  BY ConcatEmptySeq
<1>6. 0 \in 0..Len(then)
  BY <1>1
<1> QED BY <1>4, <1>5, <1>6 DEF Treated

-----------------------------------------------------------------------------
(* The scan of a statement.                                                 *)

(* Passed, of leaves, history and cursor.                                  *)
PassedIn(now, then, i) == Len(then) - (Len(now) - i + 1)
PassedBy(ls, bf, cur, l) ==
  IF l < cur[1] THEN Len(bf[l].rows)
  ELSE IF l = cur[1] THEN PassedIn(ls[l].rows, bf[l].rows, cur[2]) ELSE 0

LEMMA PassedIs == \A l : Passed(l) = PassedBy(leaves, before, cursor, l)
BY DEF Passed, Visited, PassedBy, PassedIn

(* Every leaf is what the statement makes of the rows passed, and the rows *)
(* ahead: the same leaves as when the statement began.                     *)
TreatedSoFar ==
  pc \in Scans =>
    /\ Len(before) = Len(leaves)
    /\ \A l \in 1..Len(leaves) :
         Treated(pc, stmt, leaves[l].rows, before[l].rows, PassedBy(leaves, before, cursor, l))

LEMMA StatementKind ==
  ASSUME StoredInv, pc \in Scans
  PROVE  OfKind(pc, stmt)
BY StoredValueType DEF StoredInv, StatementOK, OfKind

LEMMA LeafRows ==
  ASSUME NEW ls \in Seq(StoredLeaf), NEW l \in 1..Len(ls)
  PROVE  ls[l].rows \in Seq(Row) /\ ls[l].rows \in Seq(StoredRow) /\ Len(ls[l].rows) \in Nat
<1>1. ls[l] \in StoredLeaf
  BY ElementOfSeq
<1>2. ls[l].rows \in Seq(StoredRow)
  BY <1>1 DEF StoredLeaf
<1>3. ls[l].rows \in Seq(Row)
  BY <1>2, StoredIsTyped, SeqMonotonic
<1> QED BY <1>2, <1>3, LenProperties

(* The row under the cursor is the next of its leaf.                       *)
LEMMA ReachesHere ==
  ASSUME StoredInv, TreatedSoFar, AtRow, NEW c, c = cursor[1]
  PROVE  /\ c \in 1..Len(leaves) /\ c \in 1..Len(before) /\ OfKind(pc, stmt) /\ pc \in Scans
         /\ leaves[c].rows \in Seq(Row) /\ before[c].rows \in Seq(Row)
         /\ Treated(pc, stmt, leaves[c].rows, before[c].rows,
                    PassedIn(leaves[c].rows, before[c].rows, cursor[2]))
         /\ Reaches(leaves[c].rows, before[c].rows,
                    PassedIn(leaves[c].rows, before[c].rows, cursor[2]), cursor[2])
         /\ Here = leaves[c].rows[cursor[2]]
<1>1. c \in 1..Len(leaves) /\ pc \in Scans /\ cursor[2] \in 1..Len(leaves[c].rows)
  BY RowHere DEF AtRow
<1>2. Len(before) = Len(leaves) /\ c \in 1..Len(before)
  BY <1>1 DEF TreatedSoFar
<1>3. leaves[c].rows \in Seq(Row) /\ Len(leaves[c].rows) \in Nat
  BY <1>1, LeafRows DEF StoredInv
<1>4. before[c].rows \in Seq(Row) /\ Len(before[c].rows) \in Nat
  BY <1>2, LeafRows DEF StoredInv
<1>5. PICK v : v = PassedIn(leaves[c].rows, before[c].rows, cursor[2])
  OBVIOUS
<1>6. Treated(pc, stmt, leaves[c].rows, before[c].rows, v)
  <2>1. PassedBy(leaves, before, cursor, c) = v
    <3>1. c \in Nat
      BY <1>1
    <3> QED BY <1>5, <3>1 DEF PassedBy
  <2> QED BY <1>1, <2>1 DEF TreatedSoFar
<1>7. v \in Nat /\ v <= Len(before[c].rows)
  BY <1>4, <1>6 DEF Treated
<1>8. Reaches(leaves[c].rows, before[c].rows, v, cursor[2])
  BY <1>1, <1>3, <1>5, <1>7 DEF Reaches, PassedIn
<1>9. Here = leaves[c].rows[cursor[2]]
  BY DEF Here
<1>10. OfKind(pc, stmt)
  BY <1>1, StatementKind
<1> QED BY <1>1, <1>2, <1>3, <1>4, <1>5, <1>6, <1>8, <1>9, <1>10

(* A step of the scan that treats one row of the leaf under the cursor.    *)
LEMMA RowTreated ==
  ASSUME StoredInv, TreatedSoFar, AtRow, NEW c, c = cursor[1], NEW v,
         v = PassedIn(leaves[c].rows, before[c].rows, cursor[2]),
         Len(leaves') = Len(leaves),
         \A l \in 1..Len(leaves) : l # c => leaves'[l] = leaves[l],
         TreatedNext(pc, stmt, leaves'[c].rows, before[c].rows, v),
         cursor'[1] = c, PassedIn(leaves'[c].rows, before[c].rows, cursor'[2]) = v+1,
         UNCHANGED <<pc, before>>, stmt' = stmt \/ pc = "select"
  PROVE  TreatedSoFar'
<1>1. /\ c \in 1..Len(leaves) /\ pc \in Scans /\ Len(before) = Len(leaves) /\ c \in Nat
  BY ReachesHere DEF TreatedSoFar
<1>2. ASSUME NEW l \in 1..Len(leaves)
      PROVE  Treated(pc, stmt, leaves'[l].rows, before[l].rows,
                     PassedBy(leaves', before, cursor', l))
  <2>1. CASE l = c
    <3>1. PassedBy(leaves', before, cursor', l) = v+1
      BY <1>1, <2>1 DEF PassedBy
    <3> QED BY <2>1, <3>1 DEF TreatedNext
  <2>2. CASE l # c
    <3>1. PassedBy(leaves', before, cursor', l) = PassedBy(leaves, before, cursor, l)
      BY <2>2 DEF PassedBy
    <3>2. Treated(pc, stmt, leaves[l].rows, before[l].rows, PassedBy(leaves, before, cursor, l))
      BY <1>1 DEF TreatedSoFar
    <3> QED BY <2>2, <3>1, <3>2
  <2> QED BY <2>1, <2>2
<1>3. ASSUME NEW l \in 1..Len(leaves)
      PROVE  Treated(pc', stmt', leaves'[l].rows, before'[l].rows,
                     PassedBy(leaves', before', cursor', l))
  <2>1. before' = before /\ pc' = pc
    OBVIOUS
  <2>2. Treated(pc, stmt, leaves'[l].rows, before[l].rows,
                PassedBy(leaves', before, cursor', l))
    BY <1>2
  <2>3. CASE stmt' = stmt
    BY <2>1, <2>2, <2>3
  <2>4. CASE pc = "select"
    BY <2>1, <2>2, <2>4 DEF Treated, EffectOn
  <2> QED BY <2>3, <2>4
<1> QED BY <1>1, <1>3 DEF TreatedSoFar

(* The places of a scan that goes on, and of one that stays where a row is *)
(* deleted.                                                                *)
LEMMA PassedOneMore ==
  ASSUME StoredInv, TreatedSoFar, AtRow, NEW c, c = cursor[1], NEW rows \in Seq(Row), NEW i,
         \/ i = cursor[2]+1 /\ Len(rows) = Len(leaves[c].rows)
         \/ i = cursor[2] /\ Len(rows) = Len(leaves[c].rows) - 1
  PROVE  PassedIn(rows, before[c].rows, i)
           = PassedIn(leaves[c].rows, before[c].rows, cursor[2]) + 1
<1>1. leaves[c].rows \in Seq(Row) /\ before[c].rows \in Seq(Row)
  BY ReachesHere
<1>2. PICK n \in Nat : n = Len(leaves[c].rows)
  BY <1>1, LenProperties
<1>3. PICK m \in Nat : m = Len(before[c].rows)
  BY <1>1, LenProperties
<1>4. PICK k \in Nat : k = cursor[2]
  BY DEF StoredInv, CursorInTable, AtRow
<1>5. (i = k+1 /\ Len(rows) = n) \/ (i = k /\ Len(rows) = n-1)
  BY <1>2, <1>4
<1>6. PassedIn(leaves[c].rows, before[c].rows, cursor[2]) = m - (n - k + 1)
  BY <1>2, <1>3, <1>4 DEF PassedIn
<1>7. PassedIn(rows, before[c].rows, i) = m - (Len(rows) - i + 1)
  BY <1>3 DEF PassedIn
<1>8. CASE i = k+1 /\ Len(rows) = n
  BY <1>6, <1>7, <1>8
<1>9. CASE i = k /\ Len(rows) = n-1
  BY <1>6, <1>7, <1>9
<1> QED BY <1>5, <1>8, <1>9

LEMMA GoesOnFrom ==
  ASSUME StoredInv, AtRow, GoesOn
  PROVE  cursor'[1] = cursor[1] /\ cursor'[2] = cursor[2]+1
BY DEF StoredInv, CursorInTable, AtRow, GoesOn

LEMMA PassTreats ==
  ASSUME StoredInv, TreatedSoFar, PassRow \/ ShowRow
  PROVE  TreatedSoFar'
<1>1. /\ AtRow /\ GoesOn /\ UNCHANGED <<leaves, pc, before>>
      /\ pc = "select" \/ ~ Satisfied(stmt.where, Here.data)
      /\ stmt' = stmt \/ pc = "select"
  BY DEF PassRow, ShowRow
<1>2. PICK c : c = cursor[1]
  OBVIOUS
<1>3. PICK v : v = PassedIn(leaves[c].rows, before[c].rows, cursor[2])
  OBVIOUS
<1>4. /\ leaves[c].rows \in Seq(Row) /\ before[c].rows \in Seq(Row) /\ OfKind(pc, stmt)
      /\ Treated(pc, stmt, leaves[c].rows, before[c].rows, v)
      /\ Reaches(leaves[c].rows, before[c].rows, v, cursor[2])
      /\ Here = leaves[c].rows[cursor[2]]
  BY <1>1, <1>2, <1>3, ReachesHere
<1>5. TreatedNext(pc, stmt, leaves[c].rows, before[c].rows, v)
  BY <1>1, <1>4, TreatedKept
<1>6. cursor'[1] = c /\ cursor'[2] = cursor[2]+1
  BY <1>1, <1>2, GoesOnFrom
<1>7. PassedIn(leaves[c].rows, before[c].rows, cursor'[2]) = v+1
  BY <1>1, <1>2, <1>3, <1>4, <1>6, PassedOneMore
<1>8. leaves' = leaves
  BY <1>1
<1>9. /\ Len(leaves') = Len(leaves)
      /\ \A l \in 1..Len(leaves) : l # c => leaves'[l] = leaves[l]
      /\ TreatedNext(pc, stmt, leaves'[c].rows, before[c].rows, v)
      /\ PassedIn(leaves'[c].rows, before[c].rows, cursor'[2]) = v+1
  BY <1>5, <1>7, <1>8
<1> QED BY <1>1, <1>2, <1>3, <1>6, <1>9, RowTreated

(* A leaf whose rows are others than before, the others as they were.      *)
LEMMA OneLeafChanges ==
  ASSUME StoredInv, NEW c \in 1..Len(leaves), NEW rows \in Seq(StoredRow),
         leaves' = [leaves EXCEPT ![c].rows = rows]
  PROVE  /\ Len(leaves') = Len(leaves) /\ leaves'[c].rows = rows /\ rows \in Seq(Row)
         /\ \A l \in 1..Len(leaves) : l # c => leaves'[l] = leaves[l]
<1>1. Len(leaves') = Len(leaves) /\ leaves'[c].rows = rows
  BY RowsReplaced
<1>2. DOMAIN leaves = 1..Len(leaves)
  BY LenProperties DEF StoredInv
<1>3. rows \in Seq(Row)
  BY StoredIsTyped, SeqMonotonic
<1> QED BY <1>1, <1>2, <1>3

LEMMA DeleteTreats ==
  ASSUME StoredInv, TreatedSoFar, DeleteRow
  PROVE  TreatedSoFar'
<1>1. /\ AtRow /\ pc = "delete" /\ UNCHANGED <<pc, stmt, cursor, before>>
      /\ Satisfied(stmt.where, Here.data)
  BY DEF DeleteRow
<1>2. PICK c : c = cursor[1]
  OBVIOUS
<1>3. PICK v : v = PassedIn(leaves[c].rows, before[c].rows, cursor[2])
  OBVIOUS
<1>4. /\ c \in 1..Len(leaves)
      /\ leaves[c].rows \in Seq(Row) /\ before[c].rows \in Seq(Row) /\ OfKind("delete", stmt)
      /\ Treated("delete", stmt, leaves[c].rows, before[c].rows, v)
      /\ Reaches(leaves[c].rows, before[c].rows, v, cursor[2])
      /\ Here = leaves[c].rows[cursor[2]]
  BY <1>1, <1>2, <1>3, ReachesHere
<1>5. PICK rows : rows = RemoveAt(leaves[c].rows, cursor[2])
  OBVIOUS
<1>6. rows \in Seq(StoredRow) /\ Len(rows) = Len(leaves[c].rows) - 1
  BY <1>1, <1>2, <1>5, RowHere, Removed
<1>7. leaves' = [leaves EXCEPT ![c].rows = rows]
  BY <1>2, <1>5 DEF DeleteRow
<1>8. /\ Len(leaves') = Len(leaves) /\ leaves'[c].rows = rows /\ rows \in Seq(Row)
      /\ \A l \in 1..Len(leaves) : l # c => leaves'[l] = leaves[l]
  BY <1>4, <1>6, <1>7, OneLeafChanges
<1>9. TreatedNext("delete", stmt, rows, before[c].rows, v)
  BY <1>1, <1>4, <1>5, TreatedRemoved
<1>10. PassedIn(rows, before[c].rows, cursor[2]) = v+1
  BY <1>1, <1>2, <1>3, <1>6, <1>8, PassedOneMore
<1>11. /\ TreatedNext(pc, stmt, leaves'[c].rows, before[c].rows, v)
       /\ PassedIn(leaves'[c].rows, before[c].rows, cursor'[2]) = v+1
       /\ cursor'[1] = c
  BY <1>1, <1>2, <1>8, <1>9, <1>10
<1> QED BY <1>1, <1>2, <1>3, <1>8, <1>11, RowTreated

LEMMA UpdateTreats ==
  ASSUME StoredInv, TreatedSoFar, UpdateRow
  PROVE  TreatedSoFar'
<1>1. /\ AtRow /\ pc = "update" /\ GoesOn /\ UNCHANGED <<pc, stmt, before>>
      /\ Satisfied(stmt.where, Here.data) /\ ~ Grows(Here.data)
  BY DEF UpdateRow
<1>2. PICK c : c = cursor[1]
  OBVIOUS
<1>3. PICK v : v = PassedIn(leaves[c].rows, before[c].rows, cursor[2])
  OBVIOUS
<1>4. /\ c \in 1..Len(leaves)
      /\ leaves[c].rows \in Seq(Row) /\ before[c].rows \in Seq(Row) /\ OfKind("update", stmt)
      /\ Treated("update", stmt, leaves[c].rows, before[c].rows, v)
      /\ Reaches(leaves[c].rows, before[c].rows, v, cursor[2])
      /\ Here = leaves[c].rows[cursor[2]]
  BY <1>1, <1>2, <1>3, ReachesHere
<1>5. PICK row : row = [Here EXCEPT !.data = Updated(Here.data)]
  OBVIOUS
<1>6. row \in StoredRow /\ row = UpdatedBy(stmt, Here)
  BY <1>1, <1>5, UpdatedRow DEF UpdatedBy, Updated
<1>7. PICK rows : rows = [leaves[c].rows EXCEPT ![cursor[2]] = row]
  OBVIOUS
<1>8. rows \in Seq(StoredRow) /\ Len(rows) = Len(leaves[c].rows)
  BY <1>1, <1>2, <1>6, <1>7, RowHere, Replaced
<1>9. leaves' = [leaves EXCEPT ![c].rows = rows]
  BY <1>2, <1>5, <1>7 DEF UpdateRow, Here
<1>10. /\ Len(leaves') = Len(leaves) /\ leaves'[c].rows = rows /\ rows \in Seq(Row)
       /\ \A l \in 1..Len(leaves) : l # c => leaves'[l] = leaves[l]
  BY <1>4, <1>8, <1>9, OneLeafChanges
<1>11. TreatedNext("update", stmt, rows, before[c].rows, v)
  BY <1>1, <1>4, <1>6, <1>7, TreatedChanged
<1>12. cursor'[1] = c /\ cursor'[2] = cursor[2]+1
  BY <1>1, <1>2, GoesOnFrom
<1>13. PassedIn(rows, before[c].rows, cursor'[2]) = v+1
  BY <1>1, <1>2, <1>3, <1>8, <1>10, <1>12, PassedOneMore
<1>14. /\ TreatedNext(pc, stmt, leaves'[c].rows, before[c].rows, v)
       /\ PassedIn(leaves'[c].rows, before[c].rows, cursor'[2]) = v+1
  BY <1>1, <1>10, <1>11, <1>13
<1> QED BY <1>1, <1>2, <1>3, <1>10, <1>12, <1>14, RowTreated

(* Behind its last row all the rows of a leaf are treated, and before its  *)
(* first none.                                                             *)
LEMMA NextLeafPasses ==
  ASSUME StoredInv, TreatedSoFar, NextLeaf, NEW l \in 1..Len(leaves)
  PROVE  PassedBy(leaves, before, cursor', l) = PassedBy(leaves, before, cursor, l)
<1>1. /\ pc \in Scans /\ ~ AtRow /\ cursor[1] < Len(leaves) /\ cursor' = <<cursor[1]+1, 1>>
  BY DEF NextLeaf
<1>2. PICK c \in Nat : c = cursor[1] /\ c \in 1..Len(leaves)
  BY <1>1 DEF StoredInv, CursorInTable
<1>3. leaves[l].rows \in Seq(Row) /\ Len(before) = Len(leaves)
  BY <1>1, LeafRows DEF TreatedSoFar, StoredInv
<1>4. PICK n \in Nat : n = Len(leaves[l].rows)
  BY LeafRows DEF StoredInv
<1>5. before[l].rows \in Seq(Row)
  BY <1>3, LeafRows DEF StoredInv
<1>6. PICK m \in Nat : m = Len(before[l].rows)
  BY <1>5, LenProperties
<1>7. CASE l = c
  <2>1. cursor[2] = n+1
    BY <1>1, <1>2, <1>4, <1>7 DEF StoredInv, CursorInTable, AtRow
  <2>2. PassedIn(leaves[l].rows, before[l].rows, cursor[2]) = m - (n - (n+1) + 1)
    BY <1>4, <1>6, <2>1 DEF PassedIn
  <2>3. PassedBy(leaves, before, cursor, l) = m
    BY <1>2, <1>7, <2>2 DEF PassedBy
  <2>4. l < cursor'[1]
    BY <1>1, <1>2, <1>7
  <2> QED BY <1>6, <2>3, <2>4 DEF PassedBy
<1>8. CASE l = c+1
  <2>1. PassedBy(leaves, before, cursor, l) = 0
    BY <1>2, <1>8 DEF PassedBy
  <2>2. Treated(pc, stmt, leaves[l].rows, before[l].rows, 0)
    BY <1>1, <2>1 DEF TreatedSoFar
  <2>3. leaves[l].rows = before[l].rows
    BY <1>1, <1>5, <2>2, StatementKind, TreatedNone
  <2>4. PassedIn(leaves[l].rows, before[l].rows, 1) = 0
    <3>1. n = m
      BY <1>4, <1>6, <2>3
    <3>2. PassedIn(leaves[l].rows, before[l].rows, 1) = n - (n - 1 + 1)
      BY <1>4, <1>6, <3>1 DEF PassedIn
    <3> QED BY <3>2
  <2>5. cursor'[1] = l /\ cursor'[2] = 1
    BY <1>1, <1>2, <1>8
  <2> QED BY <2>1, <2>4, <2>5 DEF PassedBy
<1>9. CASE l # c /\ l # c+1
  <2>1. cursor'[1] = c+1 /\ cursor[1] = c
    BY <1>1, <1>2
  <2>2. (l < c+1 <=> l < c) /\ l # c+1 /\ l # c
    BY <1>9
  <2> QED BY <2>1, <2>2 DEF PassedBy
<1> QED BY <1>7, <1>8, <1>9

LEMMA BeginTreats ==
  ASSUME StoredInv, StoredInv', NEW kind \in Scans, NEW statement, Begin(kind, statement)
  PROVE  /\ TreatedSoFar'
         /\ \A l \in 1..Len(leaves) : PassedBy(leaves', before', cursor', l) = 0
<1>1. pc' = kind /\ stmt' = statement /\ cursor' = <<1, 1>> /\ before' = leaves /\ leaves' = leaves
  BY DEF Begin
<1>2. OfKind(kind, statement)
  <2>1. OfKind(pc', stmt')
    BY <1>1, StoredValueType DEF StoredInv, StatementOK, OfKind
  <2> QED BY <1>1, <2>1
<1>3. ASSUME NEW l \in 1..Len(leaves)
      PROVE  /\ PassedBy(leaves, leaves, cursor', l) = 0
             /\ Treated(kind, statement, leaves[l].rows, leaves[l].rows, 0)
  <2>1. leaves[l].rows \in Seq(Row)
    BY LeafRows DEF StoredInv
  <2>2. PICK n \in Nat : n = Len(leaves[l].rows)
    BY <2>1, LenProperties
  <2>3. PassedIn(leaves[l].rows, leaves[l].rows, 1) = n - (n - 1 + 1)
    BY <2>2 DEF PassedIn
  <2>4. PassedBy(leaves, leaves, cursor', l) = 0
    BY <1>1, <2>2, <2>3 DEF PassedBy
  <2> QED BY <1>2, <2>1, <2>4, TreatedNone
<1> QED BY <1>1, <1>3 DEF TreatedSoFar

LEMMA TreatedStep ==
  ASSUME StoredInv, StoredInv', TreatedSoFar, [Next \/ Crash]_vars
  PROVE  TreatedSoFar'
<1>1. CASE pc' \notin Scans
  BY <1>1 DEF TreatedSoFar
<1>2. ASSUME NEW list \in InsertLists, NEW literals \in [Given(list) -> Literals],
             Insert(list, literals)
      PROVE  TreatedSoFar'
  BY <1>2 DEF Insert, TreatedSoFar, Scans
<1>3. CASE CountRow \/ RowThrows \/ ScanEnds \/ Crash
  BY <1>3 DEF CountRow, RowThrows, ScanEnds, Crash, End, TreatedSoFar, Scans
<1>4. ASSUME NEW kind \in Scans, NEW statement, Begin(kind, statement) PROVE TreatedSoFar'
  BY <1>4, BeginTreats
<1>5. CASE BeginSelectAll
  BY <1>4, <1>5 DEF BeginSelectAll, Scans
<1>6. ASSUME NEW condition \in Condition, BeginSelect(condition) PROVE TreatedSoFar'
  BY <1>4, <1>6 DEF BeginSelect, Scans
<1>7. ASSUME NEW condition \in Condition, BeginDelete(condition) PROVE TreatedSoFar'
  BY <1>4, <1>7 DEF BeginDelete, Scans
<1>8. ASSUME NEW condition \in Condition, NEW name \in Names, NEW value \in Literals,
             BeginUpdate(condition, name, value)
      PROVE  TreatedSoFar'
  BY <1>4, <1>8 DEF BeginUpdate, Scans
<1>9. CASE PassRow \/ ShowRow
  BY <1>9, PassTreats
<1>10. CASE DeleteRow
  BY <1>10, DeleteTreats
<1>11. CASE UpdateRow
  BY <1>11, UpdateTreats
<1>12. CASE NextLeaf
  <2>1. UNCHANGED <<leaves, pc, stmt, before>>
    BY <1>12 DEF NextLeaf
  <2>2. \A l \in 1..Len(leaves) :
          PassedBy(leaves, before, cursor', l) = PassedBy(leaves, before, cursor, l)
    BY <1>12, NextLeafPasses
  <2> QED BY <2>1, <2>2 DEF TreatedSoFar
<1>13. ASSUME NEW name \in Names, CreateIndex(name) PROVE TreatedSoFar'
  BY <1>13 DEF CreateIndex, TreatedSoFar, Scans
<1>14. CASE UNCHANGED vars
  BY <1>14 DEF vars, TreatedSoFar
<1>15. CASE StatementStep
  BY <1>3, <1>9, <1>10, <1>11, <1>12, <1>15 DEF StatementStep
<1> QED BY <1>2, <1>3, <1>5, <1>6, <1>7, <1>8, <1>13, <1>14, <1>15 DEF Next

-----------------------------------------------------------------------------
(* What SELECT has shown.                                                   *)

SelectedBy(where, rows) == AtPlaces(rows, SelectingBy(where, rows))
IdsOf(rows) == [i \in DOMAIN rows |-> rows[i].row_id]
PartsOf(ls, bf, cur) == [l \in DOMAIN ls |-> SubSeq(bf[l].rows, 1, PassedBy(ls, bf, cur, l))]
ShownSoFar ==
  pc = "select" =>
    stmt.shown = IdsOf(SelectedBy(stmt.where, FlattenSeq(PartsOf(leaves, before, cursor))))

LEMMA SelectedMore ==
  ASSUME NEW where, NEW rows \in Seq(Row), NEW row \in Row
  PROVE  /\ SelectedBy(where, rows) \in Seq(Row)
         /\ SelectedBy(where, Append(rows, row))
              = IF Satisfied(where, row.data) THEN Append(SelectedBy(where, rows), row)
                ELSE SelectedBy(where, rows)
<1>1. PICK n \in Nat : n = Len(rows) /\ DOMAIN rows = 1..n
  BY LenProperties
<1>2. PICK more : more = Append(rows, row)
  OBVIOUS
<1>3. /\ more \in Seq(Row) /\ DOMAIN more = 1..n+1
      /\ more[n+1] = row /\ \A i \in 1..n : more[i] = rows[i]
  BY <1>1, <1>2, AppendProperties, LenProperties
<1>4. PICK places : places = SelectingBy(where, rows)
  OBVIOUS
<1>5. PICK marked : marked = SelectingBy(where, more)
  OBVIOUS
<1>6. \A i \in 1..n : i \in marked <=> i \in places
  BY <1>1, <1>3, <1>4, <1>5 DEF SelectingBy
<1>7. n+1 \in marked <=> Satisfied(where, row.data)
  BY <1>3, <1>5 DEF SelectingBy
<1>8. AtPlaces(more, marked)
        = IF n+1 \in marked THEN Append(AtPlaces(rows, places), row) ELSE AtPlaces(rows, places)
  BY <1>1, <1>2, <1>6, AtPlacesAppend
<1>9. AtPlaces(rows, places) \in Seq(Row)
  BY AtPlacesType
<1> QED BY <1>2, <1>4, <1>5, <1>7, <1>8, <1>9 DEF SelectedBy

LEMMA IdsMore ==
  ASSUME NEW rows \in Seq(Row), NEW row \in Row
  PROVE  IdsOf(Append(rows, row)) = Append(IdsOf(rows), row.row_id)
<1>1. PICK n \in Nat : n = Len(rows) /\ DOMAIN rows = 1..n
  BY LenProperties
<1>2. PICK more : more = Append(rows, row)
  OBVIOUS
<1>3. /\ more \in Seq(Row) /\ DOMAIN more = 1..n+1
      /\ more[n+1] = row /\ \A i \in 1..n : more[i] = rows[i]
  BY <1>1, <1>2, AppendProperties, LenProperties
<1>4. PICK f : f = IdsOf(rows)
  OBVIOUS
<1>5. PICK g : g = IdsOf(more)
  OBVIOUS
<1>6. \A i \in 1..n : rows[i] \in Row
  BY <1>1, ElementOfSeq
<1>7. f \in [1..n -> Nat] /\ \A i \in 1..n : f[i] = rows[i].row_id
  BY <1>1, <1>4, <1>6 DEF IdsOf, Row
<1>8. g = [i \in 1..n+1 |-> more[i].row_id]
  BY <1>3, <1>5 DEF IdsOf
<1>9. \A i \in 1..n+1 : i \in 1..n \/ i = n+1
  OBVIOUS
<1>10. row.row_id \in Nat
  BY DEF Row
<1>11. g \in [1..n+1 -> Nat] /\ g[n+1] = row.row_id /\ \A i \in 1..n : g[i] = f[i]
  <2>1. n+1 \in 1..n+1 /\ \A i \in 1..n : i \in 1..n+1
    OBVIOUS
  <2>2. \A i \in 1..n : g[i] = f[i]
    BY <1>3, <1>7, <1>8, <2>1
  <2>3. g[n+1] = row.row_id
    BY <1>3, <1>8, <2>1
  <2>4. \A i \in 1..n+1 : g[i] \in Nat
    BY <1>7, <1>9, <1>10, <2>2, <2>3
  <2> QED BY <1>8, <2>2, <2>3, <2>4
<1>12. f \in Seq(Nat) /\ Len(f) = n /\ g \in Seq(Nat) /\ Len(g) = n+1
  <2>1. f \in Seq(Nat) /\ Len(f) = n
    BY <1>7
  <2>2. PICK m \in Nat : m = n+1
    OBVIOUS
  <2>3. g \in [1..m -> Nat]
    BY <1>11, <2>2
  <2>4. g \in Seq(Nat) /\ Len(g) = m
    BY <2>3
  <2> QED BY <2>1, <2>2, <2>4
<1>13. PICK h : h = Append(f, row.row_id)
  OBVIOUS
<1>14. h \in Seq(Nat) /\ Len(h) = n+1 /\ h[n+1] = row.row_id /\ \A i \in 1..n : h[i] = f[i]
  BY <1>10, <1>12, <1>13, AppendProperties
<1>15. \A i \in 1..n+1 : g[i] = h[i]
  BY <1>9, <1>11, <1>14
<1>16. g = h
  BY <1>12, <1>14, <1>15, SeqEqual
<1> QED BY <1>2, <1>4, <1>5, <1>13, <1>16

(* The rows passed, leaf by leaf.                                          *)
WithinLeaves(ls, bf, cur) ==
  /\ ls \in Seq(StoredLeaf) /\ ls # << >>
  /\ bf \in Seq(StoredLeaf) /\ Len(bf) = Len(ls)
  /\ \A l \in 1..Len(ls) : PassedBy(ls, bf, cur, l) \in 0..Len(bf[l].rows)

LEMMA ScansWithinLeaves ==
  /\ StoredInv /\ TreatedSoFar /\ pc \in Scans => WithinLeaves(leaves, before, cursor)
  /\ StoredInv' /\ TreatedSoFar' /\ pc' \in Scans => WithinLeaves(leaves', before', cursor')
<1>1. StoredInv /\ TreatedSoFar /\ pc \in Scans => WithinLeaves(leaves, before, cursor)
  BY DEF StoredInv, TreatedSoFar, Treated, WithinLeaves
<1>2. StoredInv' /\ TreatedSoFar' /\ pc' \in Scans => WithinLeaves(leaves', before', cursor')
  BY DEF StoredInv, TreatedSoFar, Treated, WithinLeaves
<1> QED BY <1>1, <1>2

LEMMA PartsType ==
  ASSUME NEW ls, NEW bf, NEW cur, WithinLeaves(ls, bf, cur), NEW parts, parts = PartsOf(ls, bf, cur)
  PROVE  /\ parts \in Seq(Seq(Row)) /\ Len(parts) = Len(ls) /\ parts # << >>
         /\ \A l \in 1..Len(ls) :
              parts[l] = SubSeq(bf[l].rows, 1, PassedBy(ls, bf, cur, l))
<1>1. PICK n \in Nat : n = Len(ls) /\ n # 0 /\ DOMAIN ls = 1..n
  BY EmptySeq, LenProperties DEF WithinLeaves
<1>2. bf \in Seq(StoredLeaf) /\ Len(bf) = n
  BY <1>1 DEF WithinLeaves
<1>3. ASSUME NEW l \in 1..n PROVE parts[l] \in Seq(Row)
  <2>1. bf[l].rows \in Seq(Row)
    BY <1>2, <1>3, LeafRows
  <2>2. PICK v : v = PassedBy(ls, bf, cur, l)
    OBVIOUS
  <2>3. PICK m \in Nat : m = Len(bf[l].rows)
    BY <2>1, LenProperties
  <2>4. v \in 0..m
    BY <1>1, <2>2, <2>3 DEF WithinLeaves
  <2>5. PICK then : then = bf[l].rows
    OBVIOUS
  <2>6. \A i \in 1..m : then[i] \in Row
    BY <2>1, <2>3, <2>5, ElementOfSeq
  <2>7. \A i \in 1..v : then[i] \in Row
    BY <2>4, <2>6
  <2>8. SubSeq(then, 1, v) \in Seq(Row)
    BY <2>4, <2>7, SubSeqProperties
  <2>9. parts[l] = SubSeq(then, 1, v)
    BY <1>1, <2>2, <2>5 DEF PartsOf
  <2> QED BY <2>8, <2>9
<1>4. parts = [l \in 1..n |-> parts[l]]
  BY <1>1 DEF PartsOf
<1>5. parts \in [1..n -> Seq(Row)]
  BY <1>3, <1>4
<1>6. parts \in Seq(Seq(Row)) /\ Len(parts) = n
  BY <1>5
<1>7. \A l \in 1..n : parts[l] = SubSeq(bf[l].rows, 1, PassedBy(ls, bf, cur, l))
  BY <1>1 DEF PartsOf
<1> QED BY <1>1, <1>6, <1>7, EmptySeq

(* A SELECT that goes on has passed the row under its cursor too.          *)
LEMMA PartsMore ==
  ASSUME StoredInv, TreatedSoFar, StoredInv', TreatedSoFar', AtRow, GoesOn,
         UNCHANGED <<leaves, before, pc>>
  PROVE  /\ FlattenSeq(PartsOf(leaves, before, cursor)) \in Seq(Row)
         /\ FlattenSeq(PartsOf(leaves', before', cursor'))
              = Append(FlattenSeq(PartsOf(leaves, before, cursor)), Here)
<1>1. PICK parts : parts = PartsOf(leaves, before, cursor)
  OBVIOUS
<1>2. PICK more : more = PartsOf(leaves', before', cursor')
  OBVIOUS
<1>3. pc \in Scans /\ pc' \in Scans /\ leaves' = leaves /\ before' = before
  BY DEF AtRow
<1>4. /\ parts \in Seq(Seq(Row)) /\ Len(parts) = Len(leaves) /\ parts # << >>
      /\ \A l \in 1..Len(leaves) :
           parts[l] = SubSeq(before[l].rows, 1, PassedBy(leaves, before, cursor, l))
  BY <1>1, <1>3, ScansWithinLeaves, PartsType
<1>5. /\ more \in Seq(Seq(Row)) /\ Len(more) = Len(leaves)
      /\ \A l \in 1..Len(leaves) :
           more[l] = SubSeq(before[l].rows, 1, PassedBy(leaves, before, cursor', l))
  <2>1. /\ more \in Seq(Seq(Row)) /\ Len(more) = Len(leaves')
        /\ \A l \in 1..Len(leaves') :
             more[l] = SubSeq(before'[l].rows, 1, PassedBy(leaves', before', cursor', l))
    BY <1>2, <1>3, ScansWithinLeaves, PartsType
  <2> QED BY <1>3, <2>1
<1>6. PICK c : c = cursor[1]
  OBVIOUS
<1>7. PICK v : v = PassedIn(leaves[c].rows, before[c].rows, cursor[2])
  OBVIOUS
<1>8. /\ c \in 1..Len(leaves) /\ OfKind(pc, stmt)
      /\ leaves[c].rows \in Seq(Row) /\ before[c].rows \in Seq(Row)
      /\ Treated(pc, stmt, leaves[c].rows, before[c].rows, v)
      /\ Reaches(leaves[c].rows, before[c].rows, v, cursor[2])
      /\ Here = leaves[c].rows[cursor[2]]
  BY <1>6, <1>7, ReachesHere
<1>9. PICK front, back :
        NextIs(pc, stmt, leaves[c].rows, before[c].rows, v, cursor[2], front, back)
  BY <1>8, TreatedHere
<1>10. Here \in Row /\ SubSeq(before[c].rows, 1, v+1) = Append(SubSeq(before[c].rows, 1, v), Here)
  BY <1>8, <1>9 DEF NextIs
<1>11. cursor'[1] = c /\ cursor'[2] = cursor[2]+1 /\ c \in Nat
  BY <1>6, <1>8, GoesOnFrom
<1>12. PassedIn(leaves[c].rows, before[c].rows, cursor'[2]) = v+1
  BY <1>6, <1>7, <1>8, <1>11, PassedOneMore
<1>13. /\ PassedBy(leaves, before, cursor, c) = v
       /\ PassedBy(leaves, before, cursor', c) = v+1
  BY <1>6, <1>7, <1>11, <1>12 DEF PassedBy
<1>14. \A l \in 1..Len(leaves) : l # c =>
         PassedBy(leaves, before, cursor', l) = PassedBy(leaves, before, cursor, l)
  BY <1>6, <1>11 DEF PassedBy
<1>15. more[c] = Append(parts[c], Here)
  <2>1. parts[c] = SubSeq(before[c].rows, 1, v) /\ more[c] = SubSeq(before[c].rows, 1, v+1)
    BY <1>4, <1>5, <1>8, <1>13
  <2> QED BY <1>10, <2>1
<1>16. \A l \in 1..Len(leaves) : l # c => more[l] = parts[l]
  BY <1>4, <1>5, <1>14
<1>17. ASSUME NEW l \in 1..Len(leaves), l > c PROVE parts[l] = << >>
  <2>1. PassedBy(leaves, before, cursor, l) = 0
    BY <1>6, <1>11, <1>17 DEF PassedBy
  <2>2. parts[l] = SubSeq(before[l].rows, 1, 0)
    BY <1>4, <2>1
  <2> QED BY <2>2, SubSeqEmpty
<1>18. AppendedIn(parts, more, c, Here)
  BY <1>4, <1>5, <1>8, <1>15, <1>16, <1>17 DEF AppendedIn
<1>19. FlattenSeq(more) = Append(FlattenSeq(parts), Here)
  BY <1>4, <1>5, <1>10, <1>18, FlattenAppend
<1>20. FlattenSeq(parts) \in Seq(Row)
  BY <1>4, FlattenType
<1> QED BY <1>1, <1>2, <1>19, <1>20

LEMMA PassShows ==
  ASSUME StoredInv, TreatedSoFar, StoredInv', TreatedSoFar', ShownSoFar, PassRow \/ ShowRow,
         pc = "select"
  PROVE  ShownSoFar'
<1>1. AtRow /\ GoesOn /\ UNCHANGED <<leaves, pc, before>>
  BY DEF PassRow, ShowRow
<1>2. PICK rows \in Seq(Row) : rows = FlattenSeq(PartsOf(leaves, before, cursor))
  BY <1>1, PartsMore
<1>3. FlattenSeq(PartsOf(leaves', before', cursor')) = Append(rows, Here)
  BY <1>1, <1>2, PartsMore
<1>4. Here \in Row
  BY <1>1, RowHere, StoredIsTyped
<1>5. PICK where : where = stmt.where
  OBVIOUS
<1>6. /\ SelectedBy(where, rows) \in Seq(Row)
      /\ SelectedBy(where, Append(rows, Here))
           = IF Satisfied(where, Here.data) THEN Append(SelectedBy(where, rows), Here)
             ELSE SelectedBy(where, rows)
  BY <1>4, SelectedMore
<1>7. stmt.shown = IdsOf(SelectedBy(where, rows))
  BY <1>2, <1>5 DEF ShownSoFar
<1>8. stmt \in [where : Where \union {NoCondition}, shown : Seq(Nat)]
  BY DEF StoredInv, StatementOK
<1>9. CASE PassRow
  <2>1. stmt' = stmt /\ ~ Satisfied(where, Here.data)
    BY <1>5, <1>9 DEF PassRow
  <2> QED BY <1>3, <1>5, <1>6, <1>7, <2>1 DEF ShownSoFar
<1>10. CASE ShowRow
  <2>1. /\ stmt' = [stmt EXCEPT !.shown = Append(@, Here.row_id)]
        /\ Satisfied(where, Here.data)
    BY <1>5, <1>10 DEF ShowRow
  <2>2. stmt'.where = where /\ stmt'.shown = Append(stmt.shown, Here.row_id)
    BY <1>5, <1>8, <2>1
  <2>3. IdsOf(Append(SelectedBy(where, rows), Here))
          = Append(IdsOf(SelectedBy(where, rows)), Here.row_id)
    BY <1>4, <1>6, IdsMore
  <2> QED BY <1>3, <1>6, <1>7, <2>1, <2>2, <2>3 DEF ShownSoFar
<1> QED BY <1>9, <1>10

LEMMA BeginShows ==
  ASSUME StoredInv, StoredInv', TreatedSoFar', NEW statement, Begin("select", statement),
         statement.shown = << >>
  PROVE  ShownSoFar'
<1>1. PICK parts : parts = PartsOf(leaves', before', cursor')
  OBVIOUS
<1>2. pc' \in Scans /\ stmt' = statement /\ leaves' = leaves
  BY DEF Begin, Scans
<1>3. /\ parts \in Seq(Seq(Row)) /\ Len(parts) = Len(leaves') /\ parts # << >>
      /\ \A l \in 1..Len(leaves') :
           parts[l] = SubSeq(before'[l].rows, 1, PassedBy(leaves', before', cursor', l))
  BY <1>1, <1>2, ScansWithinLeaves, PartsType
<1>4. \A l \in 1..Len(leaves) : PassedBy(leaves', before', cursor', l) = 0
  BY BeginTreats DEF Scans
<1>5. ASSUME NEW l \in 1..Len(parts) PROVE parts[l] = << >>
  <2>1. parts[l] = SubSeq(before'[l].rows, 1, 0)
    BY <1>2, <1>3, <1>4
  <2> QED BY <2>1, SubSeqEmpty
<1>6. FlattenSeq(parts) = << >>
  BY <1>3, <1>5, FlattenEmpty
<1>7. << >> \in Seq(Row) /\ DOMAIN << >> = {}
  BY EmptySeq
<1>8. AtPlaces(<< >>, SelectingBy(stmt'.where, << >>)) = << >>
  BY <1>7, AtPlacesType
<1>9. IdsOf(<< >>) = << >>
  <2>1. PICK f : f = IdsOf(<< >>)
    OBVIOUS
  <2>2. f \in [1..0 -> Nat]
    BY <1>7, <2>1 DEF IdsOf
  <2>3. f \in Seq(Nat) /\ Len(f) = 0
    BY <2>2
  <2> QED BY <2>1, <2>3, EmptySeq
<1> QED BY <1>1, <1>2, <1>6, <1>8, <1>9 DEF ShownSoFar, SelectedBy

LEMMA ShownStep ==
  ASSUME StoredInv, StoredInv', TreatedSoFar, TreatedSoFar', ShownSoFar, [Next \/ Crash]_vars
  PROVE  ShownSoFar'
<1>1. ASSUME NEW list \in InsertLists, NEW literals \in [Given(list) -> Literals],
             Insert(list, literals)
      PROVE  ShownSoFar'
  BY <1>1 DEF Insert, ShownSoFar
<1>2. CASE CountRow \/ RowThrows \/ ScanEnds \/ Crash
  BY <1>2 DEF CountRow, RowThrows, ScanEnds, Crash, End, ShownSoFar
<1>3. CASE BeginSelectAll
  BY <1>3, BeginShows DEF BeginSelectAll
<1>4. ASSUME NEW condition \in Condition, BeginSelect(condition) PROVE ShownSoFar'
  BY <1>4, BeginShows DEF BeginSelect
<1>5. ASSUME NEW condition \in Condition, BeginDelete(condition) PROVE ShownSoFar'
  BY <1>5 DEF BeginDelete, Begin, ShownSoFar
<1>6. ASSUME NEW condition \in Condition, NEW name \in Names, NEW value \in Literals,
             BeginUpdate(condition, name, value)
      PROVE  ShownSoFar'
  BY <1>6 DEF BeginUpdate, Begin, ShownSoFar
<1>7. CASE PassRow \/ ShowRow
  <2>1. CASE pc = "select"
    BY <1>7, <2>1, PassShows
  <2>2. CASE pc # "select"
    BY <1>7, <2>2 DEF PassRow, ShowRow, ShownSoFar
  <2> QED BY <2>1, <2>2
<1>8. CASE DeleteRow \/ UpdateRow
  BY <1>8 DEF DeleteRow, UpdateRow, ShownSoFar
<1>9. CASE NextLeaf
  <2>1. UNCHANGED <<leaves, pc, stmt, before>>
    BY <1>9 DEF NextLeaf
  <2>2. DOMAIN leaves = 1..Len(leaves)
    BY LenProperties DEF StoredInv
  <2>3. \A l \in DOMAIN leaves :
          PassedBy(leaves, before, cursor', l) = PassedBy(leaves, before, cursor, l)
    BY <1>9, <2>2, NextLeafPasses
  <2>4. PartsOf(leaves, before, cursor') = PartsOf(leaves, before, cursor)
    BY <2>3 DEF PartsOf
  <2> QED BY <2>1, <2>4 DEF ShownSoFar
<1>10. ASSUME NEW name \in Names, CreateIndex(name) PROVE ShownSoFar'
  BY <1>10 DEF CreateIndex, ShownSoFar
<1>11. CASE UNCHANGED vars
  BY <1>11 DEF vars, ShownSoFar
<1>12. CASE StatementStep
  BY <1>2, <1>7, <1>8, <1>9, <1>12 DEF StatementStep
<1> QED BY <1>1, <1>2, <1>3, <1>4, <1>5, <1>6, <1>10, <1>11, <1>12 DEF Next

LEMMA ScanInvariant == CrashSpec => [](StoredInv /\ TreatedSoFar /\ ShownSoFar)
<1>1. Init => TreatedSoFar /\ ShownSoFar
  BY DEF Init, TreatedSoFar, ShownSoFar, Scans
<1>2. StoredInv /\ StoredInv' /\ TreatedSoFar /\ ShownSoFar /\ [Next \/ Crash]_vars
        => TreatedSoFar' /\ ShownSoFar'
  BY TreatedStep, ShownStep
<1> QED BY <1>1, <1>2, StoredInvariant, PTL DEF CrashSpec

(* At every instant of a scan, whatever the statement and however it ends, *)
(* the table is what the statement makes of the rows its scan has passed,  *)
(* followed by the rows ahead as they were, and SELECT has shown those it  *)
(* selects of the rows passed, in order: no row is skipped and none is     *)
(* treated twice, although DELETE moves the rows under its own index       *)
(* (ast.cpp:260-261) and UPDATE changes what its condition looks at.       *)
THEOREM ScansTreatRowsOnce == CrashSpec => []EffectSoFar
<1>1. ASSUME StoredInv, TreatedSoFar, ShownSoFar, pc \in Scans PROVE EffectSoFar
  <2>1. DOMAIN leaves = 1..Len(leaves)
    BY LenProperties DEF StoredInv
  <2>2. ASSUME NEW rows PROVE EffectOn(pc, stmt, rows) = Applied(rows)
    BY DEF EffectOn, Applied, SelectingBy, Selecting, UpdatedBy, Updated
  <2>3. ASSUME NEW l \in DOMAIN leaves
        PROVE  /\ Passed(l) \in 0..Len(before[l].rows)
               /\ leaves[l].rows = Applied(SubSeq(before[l].rows, 1, Passed(l)))
                                     \o SubSeq(before[l].rows, Passed(l)+1, Len(before[l].rows))
    <3>1. Treated(pc, stmt, leaves[l].rows, before[l].rows, Passed(l))
      BY <1>1, <2>1, PassedIs DEF TreatedSoFar
    <3> QED BY <2>2, <3>1 DEF Treated
  <2>4. PartsOf(leaves, before, cursor)
          = [l \in DOMAIN leaves |-> SubSeq(before[l].rows, 1, Passed(l))]
    BY PassedIs DEF PartsOf
  <2>5. ASSUME NEW rows PROVE Selected(rows) = SelectedBy(stmt.where, rows)
    BY DEF Selected, SelectedBy, Selecting, SelectingBy
  <2> QED BY <1>1, <2>3, <2>4, <2>5 DEF EffectSoFar, ShownSoFar, IdsOf
<1>2. StoredInv /\ TreatedSoFar /\ ShownSoFar => EffectSoFar
  BY <1>1 DEF EffectSoFar
<1> QED BY <1>2, ScanInvariant, PTL

-----------------------------------------------------------------------------
(* The rows of the table, place by place.                                   *)

At(ls, l, i) == ls[l].rows[i]
Precedes(m, j, l, i) == m < l \/ (m = l /\ j < i)
Place(ls, l, i) == l \in 1..Len(ls) /\ i \in 1..Len(ls[l].rows)

LEMMA RowsArePlaces ==
  /\ StoredInv => \A row : row \in Rows <=> \E l, i : Place(leaves, l, i) /\ row = At(leaves, l, i)
  /\ StoredInv' => \A row : row \in Rows' <=> \E l, i : Place(leaves', l, i) /\ row = At(leaves', l, i)
<1>1. ASSUME NEW ls \in Seq(StoredLeaf), NEW row
      PROVE  (\E l \in DOMAIN ls : row \in ToSet(ls[l].rows))
               <=> \E l, i : Place(ls, l, i) /\ row = At(ls, l, i)
  <2>1. DOMAIN ls = 1..Len(ls)
    BY LenProperties
  <2>2. ASSUME NEW l \in 1..Len(ls)
        PROVE  row \in ToSet(ls[l].rows) <=> \E i \in 1..Len(ls[l].rows) : row = ls[l].rows[i]
    <3>1. ls[l].rows \in Seq(Row)
      BY LeafRows
    <3>2. DOMAIN ls[l].rows = 1..Len(ls[l].rows)
      BY <3>1, LenProperties
    <3> QED BY <3>2 DEF ToSet
  <2> QED BY <2>1, <2>2 DEF Place, At
<1>2. StoredInv => \A row : row \in Rows <=> \E l \in DOMAIN leaves : row \in ToSet(leaves[l].rows)
  BY DEF Rows
<1>3. StoredInv' => \A row : row \in Rows' <=> \E l \in DOMAIN leaves' : row \in ToSet(leaves'[l].rows)
  BY DEF Rows
<1>4. (StoredInv => leaves \in Seq(StoredLeaf)) /\ (StoredInv' => leaves' \in Seq(StoredLeaf))
  BY DEF StoredInv
<1> QED BY <1>1, <1>2, <1>3, <1>4

LEMMA PlaceType ==
  ASSUME NEW ls \in Seq(StoredLeaf), NEW l, NEW i, Place(ls, l, i)
  PROVE  l \in Nat /\ i \in Nat /\ At(ls, l, i) \in StoredRow /\ At(ls, l, i).row_id \in Nat
<1>1. ls[l].rows \in Seq(StoredRow) /\ Len(ls[l].rows) \in Nat
  BY LeafRows DEF Place
<1>2. At(ls, l, i) \in StoredRow
  BY <1>1, ElementOfSeq DEF Place, At
<1> QED BY <1>1, <1>2 DEF Place, StoredRow

(* The row that an INSERT appends is behind all others.                    *)
LEMMA InsertPlaces ==
  ASSUME StoredInv, NEW row \in StoredRow, leaves' = AppendRow(row)
  PROVE  \E l, i :
           /\ Place(leaves', l, i) /\ At(leaves', l, i) = row /\ l = Len(leaves')
           /\ Len(leaves) <= Len(leaves')
           /\ \A m, j : Place(leaves', m, j) =>
                \/ m = l /\ j = i
                \/ /\ Place(leaves, m, j) /\ At(leaves', m, j) = At(leaves, m, j)
                   /\ Precedes(m, j, l, i)
<1>1. PICK n \in Nat : n = Len(leaves) /\ n \in 1..n /\ leaves \in Seq(StoredLeaf)
  BY EmptySeq, LenProperties DEF StoredInv
<1>2. leaves[n].rows \in Seq(StoredRow) /\ Len(leaves[n].rows) \in Nat
  BY <1>1, LeafRows
<1>3. CASE Last(leaves).used < LeafCapacity
  <2>1. PICK rows : rows = Append(leaves[n].rows, row)
    OBVIOUS
  <2>2. /\ rows \in Seq(StoredRow) /\ Len(rows) = Len(leaves[n].rows)+1
        /\ rows[Len(leaves[n].rows)+1] = row
        /\ \A j \in 1..Len(leaves[n].rows) : rows[j] = leaves[n].rows[j]
    BY <1>2, <2>1, AppendProperties
  <2>3. PICK leaf : leaf = [[leaves[n] EXCEPT !.rows = rows] EXCEPT !.used = leaves[n].used + 1]
    OBVIOUS
  <2>4. leaves' = [leaves EXCEPT ![n] = leaf]
    BY <1>1, <1>3, <2>1, <2>3 DEF AppendRow
  <2>5. leaf.rows = rows
    <3>1. leaves[n] \in StoredLeaf
      BY <1>1, ElementOfSeq
    <3>2. PICK longer : longer = [leaves[n] EXCEPT !.rows = rows]
      OBVIOUS
    <3>3. longer \in [rows : Seq(StoredRow), used : 0..LeafCapacity] /\ longer.rows = rows
      BY <2>2, <3>1, <3>2 DEF StoredLeaf
    <3> QED BY <2>3, <3>2, <3>3
  <2>6. /\ Len(leaves') = n /\ leaves'[n].rows = rows
        /\ \A m \in 1..n : m # n => leaves'[m] = leaves[m]
    <3>1. leaves[n] \in StoredLeaf
      BY <1>1, ElementOfSeq
    <3>2. rows \in Seq(StoredRow) /\ leaf.rows \in Seq(StoredRow)
      BY <2>2, <2>5
    <3>3. DOMAIN leaves = 1..n
      BY <1>1, LenProperties
    <3>4. Len(leaves') = n
      <4>1. Len(leaves') \in Nat /\ DOMAIN leaves' = 1..Len(leaves')
        <5>1. leaves' \in Seq(StoredLeaf)
          BY AppendedRow
        <5> QED BY <5>1, LenProperties
      <4>2. DOMAIN leaves' = 1..n
        BY <2>4, <3>3
      <4>3. PICK m \in Nat : m = Len(leaves') /\ 1..m = 1..n
        BY <4>1, <4>2
      <4>4. n \in 1..m
        BY <1>1, <4>3
      <4>5. m \in 1..n
        BY <4>3, <4>4
      <4> QED BY <4>3, <4>4, <4>5
    <3> QED BY <1>1, <2>4, <2>5, <3>3, <3>4
  <2>7. PICK i \in Nat : i = Len(leaves[n].rows)+1
    BY <1>2
  <2>8. Place(leaves', n, i) /\ At(leaves', n, i) = row
    BY <1>1, <1>2, <2>2, <2>6, <2>7 DEF Place, At
  <2>9. ASSUME NEW m, NEW j, Place(leaves', m, j)
        PROVE  \/ m = n /\ j = i
               \/ /\ Place(leaves, m, j) /\ At(leaves', m, j) = At(leaves, m, j)
                  /\ Precedes(m, j, n, i)
    <3>1. m \in 1..n /\ j \in 1..Len(leaves'[m].rows)
      BY <2>6, <2>9 DEF Place
    <3>2. CASE m # n
      <4>1. leaves'[m] = leaves[m] /\ m < n
        BY <1>1, <2>6, <3>1, <3>2
      <4> QED BY <1>1, <3>1, <4>1 DEF Place, At, Precedes
    <3>3. CASE m = n
      <4>1. j \in 1..i
        BY <2>2, <2>6, <2>7, <3>1, <3>3
      <4>2. CASE j # i
        <5>1. j \in 1..Len(leaves[n].rows) /\ j < i
          BY <1>2, <2>7, <4>1, <4>2
        <5> QED BY <1>1, <2>2, <2>6, <3>3, <5>1 DEF Place, At, Precedes
      <4> QED BY <3>3, <4>2
    <3> QED BY <3>2, <3>3
  <2> QED BY <1>1, <2>6, <2>8, <2>9
<1>4. CASE ~ (Last(leaves).used < LeafCapacity)
  <2>1. PICK leaf : leaf = [rows |-> <<row>>, used |-> 1]
    OBVIOUS
  <2>2. leaf \in StoredLeaf
    BY <2>1, StatementsAssumption DEF StoredLeaf
  <2>3. leaves' = Append(leaves, leaf)
    BY <1>4, <2>1 DEF AppendRow
  <2>4. PICK l \in Nat : l = n+1
    BY <1>1
  <2>5. Len(leaves') = l /\ leaves'[l] = leaf /\ \A m \in 1..n : leaves'[m] = leaves[m]
    BY <1>1, <2>2, <2>3, <2>4, AppendProperties
  <2>6. Len(leaf.rows) = 1 /\ leaf.rows[1] = row
    BY <2>1
  <2>7. Place(leaves', l, 1) /\ At(leaves', l, 1) = row
    BY <1>1, <2>4, <2>5, <2>6 DEF Place, At
  <2>8. ASSUME NEW m, NEW j, Place(leaves', m, j)
        PROVE  \/ m = l /\ j = 1
               \/ /\ Place(leaves, m, j) /\ At(leaves', m, j) = At(leaves, m, j)
                  /\ Precedes(m, j, l, 1)
    <3>1. m \in 1..l /\ j \in 1..Len(leaves'[m].rows)
      BY <2>5, <2>8 DEF Place
    <3>2. CASE m = l
      <4>1. j \in 1..1
        BY <2>5, <2>6, <3>1, <3>2
      <4> QED BY <3>2, <4>1
    <3>3. CASE m # l
      <4>1. m \in 1..n /\ m < l
        BY <1>1, <2>4, <3>1, <3>3
      <4>2. leaves'[m] = leaves[m]
        BY <2>5, <4>1
      <4> QED BY <1>1, <3>1, <4>1, <4>2 DEF Place, At, Precedes
    <3> QED BY <3>2, <3>3
  <2>9. n <= l
    BY <1>1, <2>4
  <2> QED BY <1>1, <2>5, <2>7, <2>8, <2>9
<1> QED BY <1>3, <1>4

(* A row deleted: those behind it in its leaf move up one place.           *)
Shifted(c, k, l, i) == IF l = c /\ i >= k THEN i+1 ELSE i
OthersMove(ls, new, c, k) ==
  \A l, i : Place(new, l, i) =>
    /\ Place(ls, l, Shifted(c, k, l, i))
    /\ At(new, l, i) = At(ls, l, Shifted(c, k, l, i))
OthersStay(ls, new, c, k) ==
  \A l, i : Place(ls, l, i) /\ ~ (l = c /\ i = k) =>
    \E j : Place(new, l, j) /\ At(new, l, j) = At(ls, l, i)

LEMMA DeletePlaces ==
  ASSUME StoredInv, AtRow, NEW c, c = cursor[1], NEW k, k = cursor[2],
         leaves' = [leaves EXCEPT ![c].rows = RemoveAt(@, k)]
  PROVE  /\ Place(leaves, c, k) /\ At(leaves, c, k) = Here /\ Len(leaves') = Len(leaves)
         /\ OthersMove(leaves, leaves', c, k) /\ OthersStay(leaves, leaves', c, k)
<1>1. /\ c \in 1..Len(leaves) /\ leaves[c].rows \in Seq(StoredRow) /\ k \in 1..Len(leaves[c].rows)
  BY RowHere
<1>2. PICK old \in Seq(StoredRow) : old = leaves[c].rows
  BY <1>1
<1>3. PICK n \in Nat : n = Len(old) /\ k \in 1..n /\ k \in Nat
  BY <1>1, <1>2, LenProperties
<1>4. PICK rows : rows = RemoveAt(old, k)
  OBVIOUS
<1>5. /\ rows \in Seq(StoredRow) /\ Len(rows) = n-1
      /\ \A j \in 1..n-1 : rows[j] = IF j < k THEN old[j] ELSE old[j+1]
  BY <1>3, <1>4, Removed, RemovedAt
<1>6. leaves' = [leaves EXCEPT ![c].rows = rows]
  BY <1>2, <1>4
<1>7. /\ Len(leaves') = Len(leaves) /\ leaves'[c].rows = rows
      /\ \A l \in 1..Len(leaves) : l # c => leaves'[l] = leaves[l]
  BY <1>1, <1>5, <1>6, OneLeafChanges
<1>8. Place(leaves, c, k) /\ At(leaves, c, k) = Here
  BY <1>1 DEF Place, At, Here
<1>9. ASSUME NEW l, NEW i, Place(leaves', l, i)
      PROVE  /\ Place(leaves, l, Shifted(c, k, l, i))
             /\ At(leaves', l, i) = At(leaves, l, Shifted(c, k, l, i))
  <2>1. CASE l # c
    <3>1. Shifted(c, k, l, i) = i /\ leaves'[l] = leaves[l]
      BY <1>7, <1>9, <2>1 DEF Shifted, Place
    <3> QED BY <1>7, <1>9, <3>1 DEF Place, At
  <2>2. CASE l = c
    <3>1. i \in 1..n-1
      BY <1>5, <1>7, <1>9, <2>2 DEF Place
    <3>2. CASE i < k
      <4>1. Shifted(c, k, l, i) = i /\ i \in 1..n
        BY <1>3, <3>1, <3>2 DEF Shifted
      <4> QED BY <1>1, <1>2, <1>3, <1>5, <1>7, <2>2, <3>1, <3>2, <4>1 DEF Place, At
    <3>3. CASE ~ (i < k)
      <4>1. Shifted(c, k, l, i) = i+1 /\ i+1 \in 1..n
        BY <1>3, <2>2, <3>1, <3>3 DEF Shifted
      <4> QED BY <1>1, <1>2, <1>3, <1>5, <1>7, <2>2, <3>1, <3>3, <4>1 DEF Place, At
    <3> QED BY <3>2, <3>3
  <2> QED BY <2>1, <2>2
<1>10. ASSUME NEW l, NEW i, Place(leaves, l, i), ~ (l = c /\ i = k)
       PROVE  \E j : Place(leaves', l, j) /\ At(leaves', l, j) = At(leaves, l, i)
  <2>1. CASE l # c
    BY <1>7, <1>10, <2>1 DEF Place, At
  <2>2. CASE l = c
    <3>1. i \in 1..n /\ i # k
      BY <1>2, <1>3, <1>10, <2>2 DEF Place
    <3>2. PICK j \in 1..n-1 : rows[j] = old[i]
      <4>1. CASE i < k
        <5>1. i \in 1..n-1
          BY <1>3, <3>1, <4>1
        <5> QED BY <1>5, <4>1, <5>1
      <4>2. CASE i > k
        <5>1. PICK j \in 1..n-1 : j+1 = i /\ ~ (j < k)
          <6>1. i-1 \in 1..n-1 /\ i-1+1 = i /\ ~ (i-1 < k)
            BY <1>3, <3>1, <4>2
          <6> QED BY <6>1
        <5> QED BY <1>5, <5>1
      <4> QED BY <1>3, <3>1, <4>1, <4>2
    <3>3. Place(leaves', l, j) /\ At(leaves', l, j) = At(leaves, l, i)
      BY <1>1, <1>2, <1>5, <1>7, <2>2, <3>2 DEF Place, At
    <3> QED BY <3>3
  <2> QED BY <2>1, <2>2
<1>11. OthersStay(leaves, leaves', c, k)
  BY <1>10, Zenon DEF OthersStay
<1>12. OthersMove(leaves, leaves', c, k)
  BY <1>9, Zenon DEF OthersMove
<1> QED BY <1>7, <1>8, <1>11, <1>12

(* A row updated: all others stay as and where they are.                   *)
LEMMA UpdatePlaces ==
  ASSUME StoredInv, UpdateRow, NEW c, c = cursor[1], NEW k, k = cursor[2]
  PROVE  /\ Place(leaves, c, k) /\ At(leaves, c, k) = Here /\ Len(leaves') = Len(leaves)
         /\ At(leaves', c, k) = UpdatedBy(stmt, Here) /\ UpdatedBy(stmt, Here) \in StoredRow
         /\ \A l, i : Place(leaves', l, i) <=> Place(leaves, l, i)
         /\ \A l, i : Place(leaves, l, i) /\ ~ (l = c /\ i = k) =>
              At(leaves', l, i) = At(leaves, l, i)
<1>1. /\ AtRow /\ pc = "update" /\ ~ Grows(Here.data)
      /\ leaves' = [leaves EXCEPT ![cursor[1]].rows[cursor[2]].data = Updated(@)]
  BY DEF UpdateRow
<1>2. /\ c \in 1..Len(leaves) /\ leaves[c].rows \in Seq(StoredRow) /\ k \in 1..Len(leaves[c].rows)
  BY <1>1, RowHere
<1>3. PICK row : row = [Here EXCEPT !.data = Updated(Here.data)]
  OBVIOUS
<1>4. row \in StoredRow /\ row = UpdatedBy(stmt, Here)
  BY <1>1, <1>3, UpdatedRow DEF UpdatedBy, Updated
<1>5. PICK old \in Seq(StoredRow) : old = leaves[c].rows
  BY <1>2
<1>6. PICK rows : rows = [old EXCEPT ![k] = row]
  OBVIOUS
<1>7. rows \in Seq(StoredRow) /\ Len(rows) = Len(old) /\ DOMAIN old = 1..Len(old)
  BY <1>2, <1>4, <1>5, <1>6, Replaced, LenProperties
<1>8. leaves' = [leaves EXCEPT ![c].rows = rows]
  BY <1>1, <1>3, <1>5, <1>6 DEF Here
<1>9. /\ Len(leaves') = Len(leaves) /\ leaves'[c].rows = rows
      /\ \A l \in 1..Len(leaves) : l # c => leaves'[l] = leaves[l]
  BY <1>2, <1>7, <1>8, OneLeafChanges
<1>10. rows[k] = row /\ \A j \in 1..Len(old) : j # k => rows[j] = old[j]
  BY <1>2, <1>5, <1>6, <1>7
<1>11. Place(leaves, c, k) /\ At(leaves, c, k) = Here
  BY <1>2 DEF Place, At, Here
<1>12. \A l, i : Place(leaves', l, i) <=> Place(leaves, l, i)
  BY <1>5, <1>7, <1>9 DEF Place
<1>13. At(leaves', c, k) = row
  BY <1>9, <1>10 DEF At
<1>14. ASSUME NEW l, NEW i, Place(leaves, l, i), ~ (l = c /\ i = k)
       PROVE  At(leaves', l, i) = At(leaves, l, i)
  <2>1. CASE l # c
    BY <1>9, <1>14, <2>1 DEF Place, At
  <2>2. CASE l = c
    BY <1>5, <1>9, <1>10, <1>14, <2>2 DEF Place, At
  <2> QED BY <2>1, <2>2
<1> QED BY <1>4, <1>9, <1>11, <1>12, <1>13, <1>14

-----------------------------------------------------------------------------
(* Row ids: they grow from place to place, as davisbase_tables counts them. *)

IdsInOrder(ls) ==
  \A l, i, m, j : Place(ls, l, i) /\ Place(ls, m, j) /\ Precedes(l, i, m, j) =>
    At(ls, l, i).row_id < At(ls, m, j).row_id

(* A crash behind an INSERT leaves the row its id, which is not counted:   *)
(* that row is in the last leaf.                                           *)
IdsCounted(ls, next) ==
  \A l, i : Place(ls, l, i) =>
    At(ls, l, i).row_id <= next /\ (At(ls, l, i).row_id = next => l = Len(ls))

UnreadableLast(ls) ==
  \A l, i, m, j : Place(ls, l, i) /\ Place(ls, m, j) /\ ~ Readable(At(ls, l, i).data) =>
    At(ls, m, j).row_id <= At(ls, l, i).row_id

OrderInv ==
  IdsInOrder(leaves) /\ IdsCounted(leaves, next_row_id) /\ UnreadableLast(leaves)

(* A place is told by its row id.                                          *)
LEMMA IdsTellPlaces ==
  ASSUME NEW ls \in Seq(StoredLeaf), IdsInOrder(ls), NEW l, NEW i, NEW m, NEW j,
         Place(ls, l, i), Place(ls, m, j), At(ls, l, i).row_id = At(ls, m, j).row_id
  PROVE  l = m /\ i = j
<1>1. l \in Nat /\ i \in Nat /\ m \in Nat /\ j \in Nat /\ At(ls, l, i).row_id \in Nat
  BY PlaceType
<1>2. PICK id \in Nat : id = At(ls, l, i).row_id /\ id = At(ls, m, j).row_id
  BY <1>1
<1>3. ~ Precedes(l, i, m, j)
  <2>1. Precedes(l, i, m, j) => id < id
    BY <1>2 DEF IdsInOrder
  <2> QED BY <2>1
<1>4. ~ Precedes(m, j, l, i)
  <2>1. Precedes(m, j, l, i) => id < id
    BY <1>2 DEF IdsInOrder
  <2> QED BY <2>1
<1> QED BY <1>1, <1>3, <1>4 DEF Precedes

(* The row of an INSERT has a higher id than all others, and no other row  *)
(* of the table is unreadable.                                             *)
LEMMA InsertOrders ==
  ASSUME StoredInv, StoredInv', OrderInv, AllReadable, ~ Decreases,
         NEW row \in StoredRow, row.row_id = next_row_id, leaves' = AppendRow(row),
         next_row_id' = next_row_id
  PROVE  OrderInv'
<1>1. leaves \in Seq(StoredLeaf) /\ leaves' \in Seq(StoredLeaf) /\ next_row_id \in Nat
      /\ Len(leaves) \in Nat /\ Len(leaves) # 0
  BY EmptySeq, LenProperties DEF StoredInv
<1>2. PICK l, i :
        /\ Place(leaves', l, i) /\ At(leaves', l, i) = row /\ l = Len(leaves')
        /\ Len(leaves) <= Len(leaves')
        /\ \A m, j : Place(leaves', m, j) =>
             \/ m = l /\ j = i
             \/ /\ Place(leaves, m, j) /\ At(leaves', m, j) = At(leaves, m, j)
                /\ Precedes(m, j, l, i)
  BY InsertPlaces
<1>3. l \in Nat /\ i \in Nat
  BY <1>1, <1>2, PlaceType
<1>4. ASSUME NEW m, NEW j, Place(leaves, m, j)
      PROVE  At(leaves, m, j).row_id < next_row_id
  <2>1. m \in Nat /\ j \in Nat /\ At(leaves, m, j).row_id \in Nat
    BY <1>1, <1>4, PlaceType
  <2>2. At(leaves, m, j).row_id <= next_row_id
        /\ (At(leaves, m, j).row_id = next_row_id => m = Len(leaves))
    BY <1>4 DEF OrderInv, IdsCounted
  <2>3. CASE m = Len(leaves)
    <3>1. PICK n : n = Len(leaves[m].rows)
      OBVIOUS
    <3>2. n \in Nat /\ j \in 1..n /\ leaves[m].rows \in Seq(Row)
      BY <1>1, <1>4, <3>1, LeafRows DEF Place
    <3>3. Place(leaves, m, n)
      BY <1>1, <1>4, <3>1, <3>2 DEF Place
    <3>4. At(leaves, m, n).row_id \in Nat
      BY <1>1, <3>3, PlaceType
    <3>5. leaves[m].rows # << >> /\ Last(Last(leaves).rows) = At(leaves, m, n)
      BY <2>3, <3>1, <3>2, EmptySeq DEF Last, At
    <3>6. ~ (At(leaves, m, n).row_id >= next_row_id)
      BY <2>3, <3>5 DEF Decreases, Last
    <3>7. CASE j = n
      BY <1>1, <2>1, <3>4, <3>6, <3>7
    <3>8. CASE j # n
      <4>1. Precedes(m, j, m, n)
        BY <3>2, <3>8 DEF Precedes
      <4>2. At(leaves, m, j).row_id < At(leaves, m, n).row_id
        BY <1>4, <3>3, <4>1 DEF OrderInv, IdsInOrder
      <4> QED BY <1>1, <2>1, <3>4, <3>6, <4>2
    <3> QED BY <3>7, <3>8
  <2>4. CASE m # Len(leaves)
    BY <1>1, <2>1, <2>2, <2>4
  <2> QED BY <2>3, <2>4
<1>5. ASSUME NEW m, NEW j, Place(leaves', m, j)
      PROVE  \/ m = l /\ j = i /\ At(leaves', m, j).row_id = next_row_id
             \/ /\ Place(leaves, m, j) /\ At(leaves', m, j) = At(leaves, m, j)
                /\ At(leaves', m, j).row_id < next_row_id /\ Precedes(m, j, l, i)
                /\ Readable(At(leaves', m, j).data)
  <2>1. CASE m = l /\ j = i
    BY <1>2, <2>1
  <2>2. CASE ~ (m = l /\ j = i)
    <3>1. Place(leaves, m, j) /\ At(leaves', m, j) = At(leaves, m, j) /\ Precedes(m, j, l, i)
      BY <1>2, <1>5, <2>2
    <3>2. At(leaves, m, j) \in Rows
      BY <3>1, RowsArePlaces
    <3> QED BY <1>4, <3>1, <3>2 DEF AllReadable
  <2> QED BY <2>1, <2>2
<1>6. \A m, j : Place(leaves', m, j) => m \in Nat /\ j \in Nat /\ At(leaves', m, j).row_id \in Nat
  BY <1>1, PlaceType
<1>7. IdsInOrder(leaves')
  <2> SUFFICES ASSUME NEW g, NEW h, NEW m, NEW j, Place(leaves', g, h), Place(leaves', m, j),
                      Precedes(g, h, m, j)
               PROVE  At(leaves', g, h).row_id < At(leaves', m, j).row_id
    BY DEF IdsInOrder
  <2>1. CASE ~ (g = l /\ h = i) /\ ~ (m = l /\ j = i)
    <3>1. /\ Place(leaves, g, h) /\ At(leaves', g, h) = At(leaves, g, h)
          /\ Place(leaves, m, j) /\ At(leaves', m, j) = At(leaves, m, j)
      BY <1>5, <2>1
    <3> QED BY <3>1 DEF OrderInv, IdsInOrder
  <2>2. CASE ~ (g = l /\ h = i) /\ m = l /\ j = i
    <3>1. At(leaves', g, h).row_id < next_row_id
      BY <1>5, <2>2
    <3>2. At(leaves', m, j).row_id = next_row_id
      BY <1>2, <2>2
    <3> QED BY <3>1, <3>2
  <2>3. CASE g = l /\ h = i
    <3>1. (m = l /\ j = i) \/ Precedes(m, j, l, i)
      BY <1>5
    <3> QED BY <1>3, <1>6, <2>3, <3>1 DEF Precedes
  <2> QED BY <2>1, <2>2, <2>3
<1>8. IdsCounted(leaves', next_row_id)
  <2> SUFFICES ASSUME NEW m, NEW j, Place(leaves', m, j)
               PROVE  /\ At(leaves', m, j).row_id <= next_row_id
                      /\ At(leaves', m, j).row_id = next_row_id => m = Len(leaves')
    BY DEF IdsCounted
  <2>1. At(leaves', m, j).row_id \in Nat
    BY <1>6
  <2> QED BY <1>1, <1>2, <1>5, <2>1
<1>9. UnreadableLast(leaves')
  <2> SUFFICES ASSUME NEW g, NEW h, NEW m, NEW j, Place(leaves', g, h), Place(leaves', m, j),
                      ~ Readable(At(leaves', g, h).data)
               PROVE  At(leaves', m, j).row_id <= At(leaves', g, h).row_id
    BY DEF UnreadableLast
  <2>1. At(leaves', g, h).row_id = next_row_id
    BY <1>5
  <2>2. At(leaves', m, j).row_id \in Nat /\ At(leaves', m, j).row_id <= next_row_id
    BY <1>6, <1>8 DEF IdsCounted
  <2> QED BY <2>1, <2>2
<1> QED BY <1>7, <1>8, <1>9 DEF OrderInv

-----------------------------------------------------------------------------
(* Readable rows.                                                           *)

(* A type code of any type but a long TEXT.                                *)
LEMMA ShortFieldReads ==
  ASSUME NEW field \in Field, ~ LongText(field)
  PROVE  IsTypeCode(CodeOf(field))
<1>1. CASE field.type = "TEXT"
  <2>1. field.length \in Nat /\ field.length < 244
    <3>1. "TEXT" \notin DOMAIN Width
      BY DEF Width
    <3>2. field.length \in Nat
      BY <1>1, <3>1 DEF Field
    <3> QED BY <1>1, <3>2 DEF LongText
  <2>2. CodeOf(field) = (12 + field.length) % 256
    BY <1>1 DEF CodeOf, TypeCode
  <2>3. PICK length \in Nat : length = field.length
    BY <2>1
  <2>4. (12 + length) % 256 = 12 + length
    BY <2>1, <2>3
  <2> QED BY <2>2, <2>3, <2>4 DEF IsTypeCode, TypeCode
<1>2. CASE field.type # "TEXT"
  <2>1. PICK type \in DOMAIN Width : field = [type |-> type, length |-> Width[type]]
    BY <1>2 DEF Field
  <2>2. CodeOf(field) = TypeCode[type]
    BY <1>2, <2>1 DEF CodeOf
  <2> QED BY <2>1, <2>2 DEF IsTypeCode, FixedCodes
<1> QED BY <1>1, <1>2

(* A value that needs more bytes makes its row longer.                     *)
LEMMA LongerValue ==
  ASSUME NEW data \in [Columns -> StoredValue], NEW new \in [Columns -> StoredValue],
         NEW c \in Columns, \A d \in Columns : d # c => new[d] = data[d],
         Bytes(new[c], c) \in Nat, Bytes(data[c], c) \in Nat,
         Bytes(new[c], c) > Bytes(data[c], c)
  PROVE  PayloadLength(new) > PayloadLength(data)
<1>1. PICK S : S = ValueBytes(data)
  OBVIOUS
<1>2. PICK T : T = ValueBytes(new)
  OBVIOUS
<1>3. IsFiniteSet(S) /\ IsFiniteSet(T)
  BY <1>1, <1>2, PayloadLengthType
<1>4. PICK m \in Nat : m = Bytes(new[c], c)
  OBVIOUS
<1>5. PICK n \in Nat : n = Bytes(data[c], c) /\ n < m
  BY <1>4
<1>6. S \subseteq T
  <2> SUFFICES ASSUME NEW d \in Columns, NEW i \in 1..Bytes(data[d], d)
               PROVE  <<d, i>> \in T
    BY <1>1 DEF ValueBytes
  <2>1. i \in 1..Bytes(new[d], d)
    <3>1. CASE d = c
      BY <1>4, <1>5, <3>1
    <3>2. CASE d # c
      BY <3>2
    <3> QED BY <3>1, <3>2
  <2> QED BY <1>2, <2>1 DEF ValueBytes
<1>7. <<c, m>> \in T
  <2>1. m \in 1..Bytes(new[c], c)
    BY <1>4, <1>5
  <2> QED BY <1>2, <2>1 DEF ValueBytes
<1>8. <<c, m>> \notin S
  <2>1. ~ (m \in 1..n)
    BY <1>5
  <2> QED BY <1>1, <1>5, <2>1 DEF ValueBytes
<1>9. Cardinality(S) <= Cardinality(T) /\ Cardinality(S) # Cardinality(T)
  BY <1>3, <1>6, <1>7, <1>8, FS_Subset
<1>10. Cardinality(S) \in Nat /\ Cardinality(T) \in Nat /\ Len(ColumnDefs) \in Nat
  BY <1>3, FS_CardinalityType, ColumnRange
<1> QED BY <1>1, <1>2, <1>9, <1>10 DEF PayloadLength

(* An update makes no row unreadable: a TEXT that would not read back is   *)
(* longer than every one that does.                                        *)
LEMMA UpdateReads ==
  ASSUME StoredInv, AtRow, pc = "update", Readable(Here.data), ~ Grows(Here.data)
  PROVE  Readable(Updated(Here.data))
<1>1. PICK data : data = Here.data
  OBVIOUS
<1>2. data \in StoredData /\ stmt.column \in Columns /\ stmt.value \in StoredValue
  BY <1>1, RowHere DEF StoredRow, StoredInv, StatementOK
<1>3. PICK new : new = Updated(data)
  OBVIOUS
<1>4. PICK c \in Columns : c = stmt.column
  BY <1>2
<1>5. /\ data \in [Columns -> StoredValue] /\ new \in [Columns -> StoredValue]
      /\ new[c] = stmt.value /\ \A d \in Columns : d # c => new[d] = data[d]
  BY <1>2, <1>3, <1>4 DEF Updated, StoredData
<1>6. new \in StoredData
  <2>1. [Here EXCEPT !.data = Updated(Here.data)] \in StoredRow
    BY UpdatedRow
  <2>2. [Here EXCEPT !.data = Updated(Here.data)].data = new
    BY <1>1, <1>3, RowHere DEF StoredRow
  <2> QED BY <2>1, <2>2 DEF StoredRow
<1>7. ASSUME NEW d \in Columns PROVE IsTypeCode(CodeOf(FieldIn(new, d)))
  <2>1. CASE d # c
    <3>1. FieldIn(new, d) = FieldIn(data, d)
      BY <1>5, <2>1 DEF FieldIn
    <3> QED BY <1>1, <3>1 DEF Readable
  <2>2. CASE d = c
    <3>1. FieldIn(new, c) \in Field
      BY <1>6, FieldInType
    <3>2. CASE ~ LongText(FieldIn(new, c))
      BY <2>2, <3>1, <3>2, ShortFieldReads
    <3>3. CASE LongText(FieldIn(new, c))
      <4>1. ColumnDefs[c].type = "TEXT" /\ new[c] # NULL /\ new[c] >= 244
        BY <3>3 DEF LongText, FieldIn, Bytes
      <4>2. new[c] \in 1..253
        BY <1>5, <4>1, StoredValueType
      <4>3. ~ LongText(FieldIn(data, c))
        BY <1>1, <1>2, FieldInShort DEF Readable
      <4>4. data[c] = NULL \/ (data[c] \in 1..253 /\ data[c] < 244)
        <5>1. data[c] = NULL \/ data[c] \in 1..253
          BY <1>5, StoredValueType
        <5> QED BY <4>1, <4>3, <5>1 DEF LongText, FieldIn, Bytes
      <4>5. Bytes(new[c], c) = new[c] /\ Bytes(data[c], c) = IF data[c] = NULL THEN 0 ELSE data[c]
        BY <4>1 DEF Bytes
      <4>6. /\ Bytes(new[c], c) \in Nat /\ Bytes(data[c], c) \in Nat
            /\ Bytes(new[c], c) > Bytes(data[c], c)
        BY <4>1, <4>2, <4>4, <4>5
      <4>7. PayloadLength(new) > PayloadLength(data)
        BY <1>5, <4>6, LongerValue
      <4> QED BY <1>1, <1>3, <4>7 DEF Grows
    <3> QED BY <3>2, <3>3
  <2> QED BY <2>1, <2>2
<1> QED BY <1>1, <1>3, <1>7 DEF Readable

LEMMA DeleteOrders ==
  ASSUME StoredInv, StoredInv', OrderInv, DeleteRow
  PROVE  OrderInv'
<1>1. PICK c : c = cursor[1]
  OBVIOUS
<1>2. PICK k : k = cursor[2]
  OBVIOUS
<1>3. AtRow /\ leaves' = [leaves EXCEPT ![c].rows = RemoveAt(@, k)] /\ next_row_id' = next_row_id
  BY <1>1, <1>2 DEF DeleteRow
<1>4. /\ Place(leaves, c, k) /\ Len(leaves') = Len(leaves)
      /\ OthersMove(leaves, leaves', c, k)
  BY <1>1, <1>2, <1>3, DeletePlaces
<1>5. leaves \in Seq(StoredLeaf) /\ leaves' \in Seq(StoredLeaf)
  BY DEF StoredInv
<1>6. \A l, i : Place(leaves', l, i) => l \in Nat /\ i \in Nat
  BY <1>5, PlaceType
<1>7. c \in Nat /\ k \in Nat
  BY <1>4, <1>5, PlaceType
<1>8. IdsInOrder(leaves')
  <2> SUFFICES ASSUME NEW l, NEW i, NEW m, NEW j, Place(leaves', l, i), Place(leaves', m, j),
                      Precedes(l, i, m, j)
               PROVE  At(leaves', l, i).row_id < At(leaves', m, j).row_id
    BY DEF IdsInOrder
  <2>1. l \in Nat /\ i \in Nat /\ m \in Nat /\ j \in Nat
    BY <1>6
  <2>2. Precedes(l, Shifted(c, k, l, i), m, Shifted(c, k, m, j))
    BY <1>7, <2>1 DEF Precedes, Shifted
  <2> QED BY <1>4, <2>2 DEF OthersMove, OrderInv, IdsInOrder
<1>9. IdsCounted(leaves', next_row_id)
  BY <1>4 DEF OthersMove, OrderInv, IdsCounted
<1>10. UnreadableLast(leaves')
  BY <1>4 DEF OthersMove, OrderInv, UnreadableLast
<1> QED BY <1>3, <1>8, <1>9, <1>10 DEF OrderInv

LEMMA UpdateOrders ==
  ASSUME StoredInv, StoredInv', OrderInv, UpdateRow
  PROVE  OrderInv'
<1>1. PICK c : c = cursor[1]
  OBVIOUS
<1>2. PICK k : k = cursor[2]
  OBVIOUS
<1>3. /\ AtRow /\ pc = "update" /\ Readable(Here.data) /\ ~ Grows(Here.data)
      /\ next_row_id' = next_row_id
  BY DEF UpdateRow, Satisfied, Evaluates
<1>4. /\ Place(leaves, c, k) /\ At(leaves, c, k) = Here /\ Len(leaves') = Len(leaves)
      /\ At(leaves', c, k) = UpdatedBy(stmt, Here)
      /\ \A l, i : Place(leaves', l, i) <=> Place(leaves, l, i)
      /\ \A l, i : Place(leaves, l, i) /\ ~ (l = c /\ i = k) =>
           At(leaves', l, i) = At(leaves, l, i)
  BY <1>1, <1>2, UpdatePlaces
<1>5. Here \in StoredRow
  BY <1>3, RowHere
<1>6. UpdatedBy(stmt, Here).row_id = Here.row_id /\ UpdatedBy(stmt, Here).data = Updated(Here.data)
  BY <1>5 DEF UpdatedBy, Updated, StoredRow
<1>7. Readable(Updated(Here.data))
  BY <1>3, UpdateReads
<1>8. \A l, i : Place(leaves, l, i) =>
        /\ At(leaves', l, i).row_id = At(leaves, l, i).row_id
        /\ ~ Readable(At(leaves', l, i).data) => ~ Readable(At(leaves, l, i).data)
  BY <1>4, <1>6, <1>7
<1>9. IdsInOrder(leaves')
  BY <1>4, <1>8 DEF OrderInv, IdsInOrder
<1>10. IdsCounted(leaves', next_row_id)
  BY <1>4, <1>8 DEF OrderInv, IdsCounted
<1>11. UnreadableLast(leaves')
  BY <1>4, <1>8 DEF OrderInv, UnreadableLast
<1> QED BY <1>3, <1>9, <1>10, <1>11 DEF OrderInv

LEMMA OrderStep ==
  ASSUME StoredInv, StoredInv', OrderInv, [Next \/ Crash]_vars
  PROVE  OrderInv'
<1>1. ASSUME NEW list \in InsertLists, NEW literals \in [Given(list) -> Literals],
             Insert(list, literals)
      PROVE  OrderInv'
  <2>1. PICK data : data = NewRow(list, literals)
    OBVIOUS
  <2>2. PICK row : row = [row_id |-> next_row_id, data |-> data, room |-> PayloadLength(data)]
    OBVIOUS
  <2>3. /\ Accepts(data) /\ ~ Decreases /\ leaves' = AppendRow(row) /\ next_row_id' = next_row_id
    BY <1>1, <2>1, <2>2 DEF Insert
  <2>4. data \in StoredData /\ PayloadLength(data) \in Nat
    BY <2>1, <2>3, NewRowType, PayloadLengthType DEF Accepts, StoredData
  <2>5. row \in StoredRow /\ row.row_id = next_row_id
    BY <2>2, <2>4 DEF StoredRow, StoredInv
  <2>6. AllReadable
    BY <2>3 DEF Accepts
  <2> QED BY <2>3, <2>5, <2>6, InsertOrders
<1>2. CASE CountRow
  <2>1. leaves' = leaves /\ next_row_id' = next_row_id + 1 /\ next_row_id \in Nat
    BY <1>2 DEF CountRow, StoredInv
  <2>2. leaves \in Seq(StoredLeaf)
    BY DEF StoredInv
  <2>3. IdsCounted(leaves, next_row_id + 1)
    <3> SUFFICES ASSUME NEW l, NEW i, Place(leaves, l, i)
                 PROVE  /\ At(leaves, l, i).row_id <= next_row_id + 1
                        /\ At(leaves, l, i).row_id # next_row_id + 1
      BY DEF IdsCounted
    <3>1. At(leaves, l, i).row_id \in Nat /\ At(leaves, l, i).row_id <= next_row_id
      BY <2>2, PlaceType DEF OrderInv, IdsCounted
    <3> QED BY <2>1, <3>1
  <2> QED BY <2>1, <2>3 DEF OrderInv
<1>3. CASE UNCHANGED <<leaves, next_row_id>>
  BY <1>3 DEF OrderInv
<1>4. CASE DeleteRow
  BY <1>4, DeleteOrders
<1>5. CASE UpdateRow
  BY <1>5, UpdateOrders
<1>6. CASE BeginSelectAll \/ (\E condition \in Condition : BeginSelect(condition))
             \/ (\E condition \in Condition : BeginDelete(condition))
  BY <1>3, <1>6 DEF BeginSelectAll, BeginSelect, BeginDelete, Begin
<1>7. CASE \E condition \in Condition, name \in Names, value \in Literals :
             BeginUpdate(condition, name, value)
  BY <1>3, <1>7 DEF BeginUpdate, Begin
<1>8. CASE PassRow \/ ShowRow \/ RowThrows \/ NextLeaf \/ ScanEnds \/ Crash
  BY <1>3, <1>8 DEF PassRow, ShowRow, RowThrows, NextLeaf, ScanEnds, Crash
<1>9. CASE \E name \in Names : CreateIndex(name)
  BY <1>3, <1>9 DEF CreateIndex
<1>10. CASE UNCHANGED vars
  BY <1>3, <1>10 DEF vars
<1>11. CASE StatementStep
  BY <1>2, <1>4, <1>5, <1>8, <1>11 DEF StatementStep
<1> QED BY <1>1, <1>6, <1>7, <1>8, <1>9, <1>10, <1>11 DEF Next

LEMMA OrderInvariant == CrashSpec => []OrderInv
<1>1. Init => OrderInv
  <2> SUFFICES ASSUME Init PROVE OrderInv
    OBVIOUS
  <2>1. PICK leaf : leaf = [rows |-> << >>, used |-> 0]
    OBVIOUS
  <2>2. leaves = <<leaf>> /\ leaf.rows = << >>
    BY <2>1 DEF Init
  <2>3. \A l, i : ~ Place(leaves, l, i)
    <3>1. Len(leaves) = 1 /\ leaves[1] = leaf /\ Len(leaf.rows) = 0
      BY <2>2
    <3> QED BY <3>1 DEF Place
  <2> QED BY <2>3 DEF OrderInv, IdsInOrder, IdsCounted, UnreadableLast
<1>2. StoredInv /\ StoredInv' /\ OrderInv /\ [Next \/ Crash]_vars => OrderInv'
  BY OrderStep
<1> QED BY <1>1, <1>2, StoredInvariant, PTL DEF CrashSpec

-----------------------------------------------------------------------------
(* Unreadable rows.                                                         *)

(* Only rows that can be read are deleted or overwritten.                  *)
LEMMA UnreadableStays ==
  ASSUME StoredInv, StoredInv', DeleteRow \/ UpdateRow, NEW row \in Rows, ~ Readable(row.data)
  PROVE  row \in Rows' /\ unique' = unique
<1>1. PICK c : c = cursor[1]
  OBVIOUS
<1>2. PICK k : k = cursor[2]
  OBVIOUS
<1>3. AtRow /\ Readable(Here.data) /\ unique' = unique
  BY DEF DeleteRow, UpdateRow, Satisfied, Evaluates
<1>4. PICK l, i : Place(leaves, l, i) /\ row = At(leaves, l, i)
  BY RowsArePlaces
<1>5. CASE DeleteRow
  <2>1. leaves' = [leaves EXCEPT ![c].rows = RemoveAt(@, k)]
    BY <1>1, <1>2, <1>5 DEF DeleteRow
  <2>2. At(leaves, c, k) = Here /\ OthersStay(leaves, leaves', c, k)
    BY <1>1, <1>2, <1>3, <2>1, DeletePlaces
  <2>3. PICK j : Place(leaves', l, j) /\ At(leaves', l, j) = row
    BY <1>3, <1>4, <2>2 DEF OthersStay
  <2> QED BY <1>3, <2>3, RowsArePlaces
<1>6. CASE UpdateRow
  <2>1. /\ At(leaves, c, k) = Here
        /\ Place(leaves', l, i)
        /\ ~ (l = c /\ i = k) => At(leaves', l, i) = At(leaves, l, i)
    BY <1>1, <1>2, <1>4, <1>6, UpdatePlaces
  <2>2. At(leaves', l, i) = row
    BY <1>3, <1>4, <2>1
  <2> QED BY <1>3, <2>1, <2>2, RowsArePlaces
<1> QED BY <1>5, <1>6

LEMMA FreezeStep ==
  ASSUME StoredInv, StoredInv', OrderInv', [Next \/ Crash]_vars, NEW row \in Rows,
         ~ Readable(row.data)
  PROVE  row \in Rows' /\ unique' = unique /\ \A other \in Rows' : other.row_id <= row.row_id
<1>1. ~ AllReadable
  BY DEF AllReadable
<1>2. row \in Rows' /\ unique' = unique
  <2>1. CASE UNCHANGED <<leaves, unique>>
    BY <2>1 DEF Rows
  <2>2. CASE DeleteRow \/ UpdateRow
    BY <2>2, UnreadableStays
  <2>3. CASE BeginSelectAll \/ (\E condition \in Condition : BeginSelect(condition))
               \/ (\E condition \in Condition : BeginDelete(condition))
    BY <2>1, <2>3 DEF BeginSelectAll, BeginSelect, BeginDelete, Begin
  <2>4. CASE \E condition \in Condition, name \in Names, value \in Literals :
               BeginUpdate(condition, name, value)
    BY <2>1, <2>4 DEF BeginUpdate, Begin
  <2>5. CASE CountRow \/ PassRow \/ ShowRow \/ RowThrows \/ NextLeaf \/ ScanEnds \/ Crash
    BY <2>1, <2>5 DEF CountRow, PassRow, ShowRow, RowThrows, NextLeaf, ScanEnds, Crash
  <2>6. CASE UNCHANGED vars
    BY <2>1, <2>6 DEF vars
  <2>7. CASE \E list \in InsertLists : \E literals \in [Given(list) -> Literals] :
               Insert(list, literals)
    BY <1>1, <2>7 DEF Insert, Accepts
  <2>8. CASE \E name \in Names : CreateIndex(name)
    BY <1>1, <2>8 DEF CreateIndex
  <2>9. CASE StatementStep
    BY <2>2, <2>5, <2>9 DEF StatementStep
  <2> QED BY <2>3, <2>4, <2>5, <2>6, <2>7, <2>8, <2>9 DEF Next
<1>3. ASSUME NEW other \in Rows' PROVE other.row_id <= row.row_id
  <2>1. PICK l, i : Place(leaves', l, i) /\ row = At(leaves', l, i)
    BY <1>2, RowsArePlaces
  <2>2. PICK m, j : Place(leaves', m, j) /\ other = At(leaves', m, j)
    BY <1>3, RowsArePlaces
  <2> QED BY <2>1, <2>2 DEF OrderInv, UnreadableLast
<1> QED BY <1>2, <1>3

(* A row that cannot be read stays, the last of its table, and no INSERT   *)
(* or CREATE INDEX gets past it: those scan all rows first, and DELETE and *)
(* UPDATE read a row before they change it (ast.cpp:243, table.cpp:199).   *)
THEOREM UnreadableRowsFreeze == CrashSpec => UnreadableRowFreezes
<1>1. StoredInv /\ StoredInv' /\ OrderInv' /\ [Next \/ Crash]_vars
        => [\A row \in Rows : ~ Readable(row.data) =>
              /\ row \in Rows'
              /\ \A other \in Rows' : other.row_id <= row.row_id
              /\ unique' = unique]_vars
  BY FreezeStep
<1> QED BY <1>1, StoredInvariant, OrderInvariant, PTL DEF CrashSpec, UnreadableRowFreezes

-----------------------------------------------------------------------------
(* Unique columns.                                                          *)

(* The scan has passed a row that its condition selects.                   *)
PassedMatch(ls, bf, cur, where) ==
  \E l \in 1..cur[1] : \E i \in 1..PassedBy(ls, bf, cur, l) :
    Satisfied(where, bf[l].rows[i].data)

Matched ==
  pc = "update" /\ stmt.column \in unique /\ Taken(stmt.value, stmt.column)
    => PassedMatch(leaves, before, cursor, stmt.where)

LEMMA PassedByIsNat ==
  ASSUME StoredInv, TreatedSoFar, pc \in Scans, NEW l \in 1..Len(leaves)
  PROVE  PassedBy(leaves, before, cursor, l) \in Nat
BY DEF TreatedSoFar, Treated

(* One row further, the rows passed are those passed and the one under the *)
(* cursor.                                                                 *)
LEMMA OneRowFurther ==
  ASSUME StoredInv, TreatedSoFar, AtRow, GoesOn, NEW c, c = cursor[1],
         Len(leaves'[c].rows) = Len(leaves[c].rows), leaves'[c].rows \in Seq(Row),
         before' = before,
         NEW l \in 1..Len(leaves)
  PROVE  PassedBy(leaves', before', cursor', l)
           = IF l = c THEN PassedBy(leaves, before, cursor, l) + 1
             ELSE PassedBy(leaves, before, cursor, l)
<1>1. PICK rows \in Seq(Row) : rows = leaves'[c].rows
  OBVIOUS
<1>2. cursor'[1] = c /\ cursor'[2] = cursor[2]+1
  BY GoesOnFrom
<1>3. PassedIn(rows, before[c].rows, cursor'[2])
        = PassedIn(leaves[c].rows, before[c].rows, cursor[2]) + 1
  BY <1>1, <1>2, PassedOneMore
<1>4. c \in Nat /\ l \in Nat
  BY ReachesHere
<1>5. CASE l = c
  BY <1>1, <1>2, <1>3, <1>4, <1>5 DEF PassedBy
<1>6. CASE l # c
  BY <1>2, <1>6 DEF PassedBy
<1> QED BY <1>5, <1>6

LEMMA MatchStays ==
  ASSUME NEW n \in Nat, NEW c \in 1..n, NEW d \in 1..n, c <= d,
         NEW ls, NEW bf, NEW cur, cur[1] = c, NEW new, NEW further, further[1] = d,
         \A l \in 1..n : PassedBy(ls, bf, cur, l) \in Nat /\ PassedBy(new, bf, further, l) \in Nat,
         \A l \in 1..n : PassedBy(ls, bf, cur, l) <= PassedBy(new, bf, further, l),
         NEW where, PassedMatch(ls, bf, cur, where)
  PROVE  PassedMatch(new, bf, further, where)
<1>1. PICK l \in 1..c : \E i \in 1..PassedBy(ls, bf, cur, l) : Satisfied(where, bf[l].rows[i].data)
  BY DEF PassedMatch
<1>2. PICK i \in 1..PassedBy(ls, bf, cur, l) : Satisfied(where, bf[l].rows[i].data)
  BY <1>1
<1>3. l \in 1..n /\ l \in 1..d
  OBVIOUS
<1>4. PICK v \in Nat : v = PassedBy(ls, bf, cur, l)
  BY <1>3
<1>5. PICK w \in Nat : w = PassedBy(new, bf, further, l) /\ v <= w
  BY <1>3, <1>4
<1>6. i \in 1..w
  BY <1>2, <1>4, <1>5
<1> QED BY <1>2, <1>3, <1>5, <1>6 DEF PassedMatch

LEMMA PassRowMatched ==
  ASSUME StoredInv, TreatedSoFar, Matched, PassRow
  PROVE  Matched'
<1>1. AtRow /\ GoesOn /\ UNCHANGED <<leaves, unique, pc, stmt, before>>
  BY DEF PassRow
<1> SUFFICES ASSUME Matched, pc = "update", PassedMatch(leaves, before, cursor, stmt.where)
             PROVE  PassedMatch(leaves', before', cursor', stmt'.where)
  BY <1>1 DEF Matched, Taken, Rows
<1>2. PICK c : c = cursor[1]
  OBVIOUS
<1>3. c \in 1..Len(leaves) /\ leaves[c].rows \in Seq(Row) /\ Len(leaves) \in Nat
  BY <1>1, <1>2, ReachesHere, LenProperties DEF StoredInv
<1>4. ASSUME NEW l \in 1..Len(leaves)
      PROVE  /\ PassedBy(leaves, before, cursor, l) \in Nat
             /\ PassedBy(leaves, before, cursor', l) \in Nat
             /\ PassedBy(leaves, before, cursor, l) <= PassedBy(leaves, before, cursor', l)
  <2>1. PassedBy(leaves, before, cursor, l) \in Nat
    BY <1>1, PassedByIsNat DEF AtRow
  <2>2. PassedBy(leaves', before', cursor', l)
           = IF l = c THEN PassedBy(leaves, before, cursor, l) + 1
             ELSE PassedBy(leaves, before, cursor, l)
    BY <1>1, <1>2, <1>3, OneRowFurther
  <2>3. PassedBy(leaves', before', cursor', l) = PassedBy(leaves, before, cursor', l)
    BY <1>1
  <2> QED BY <2>1, <2>2, <2>3
<1>5. cursor'[1] = c
  BY <1>1, <1>2, GoesOnFrom
<1>6. c <= c
  BY <1>3
<1>7. \A l \in 1..Len(leaves) :
        /\ PassedBy(leaves, before, cursor, l) \in Nat
        /\ PassedBy(leaves, before, cursor', l) \in Nat
  BY <1>4
<1>8. \A l \in 1..Len(leaves) :
        PassedBy(leaves, before, cursor, l) <= PassedBy(leaves, before, cursor', l)
  BY <1>4
<1>9. PassedMatch(leaves, before, cursor', stmt.where)
  BY <1>2, <1>3, <1>5, <1>6, <1>7, <1>8, MatchStays
<1> QED BY <1>1, <1>9

LEMMA NextLeafMatched ==
  ASSUME StoredInv, TreatedSoFar, TreatedSoFar', StoredInv', Matched, NextLeaf
  PROVE  Matched'
<1>1. /\ UNCHANGED <<leaves, unique, pc, stmt, before>> /\ pc \in Scans
      /\ cursor' = <<cursor[1]+1, 1>> /\ cursor[1] < Len(leaves)
  BY DEF NextLeaf
<1> SUFFICES ASSUME Matched, pc = "update", PassedMatch(leaves, before, cursor, stmt.where)
             PROVE  PassedMatch(leaves', before', cursor', stmt'.where)
  BY <1>1 DEF Matched, Taken, Rows
<1>2. PICK c : c = cursor[1] /\ c \in 1..Len(leaves) /\ Len(leaves) \in Nat
  BY <1>1, LenProperties DEF StoredInv, CursorInTable
<1>3. ASSUME NEW l \in 1..Len(leaves)
      PROVE  /\ PassedBy(leaves, before, cursor, l) \in Nat
             /\ PassedBy(leaves, before, cursor', l) = PassedBy(leaves, before, cursor, l)
  BY <1>1, PassedByIsNat, NextLeafPasses
<1>4. cursor'[1] = c+1 /\ c+1 \in 1..Len(leaves) /\ c <= c+1
  BY <1>1, <1>2
<1>5. \A l \in 1..Len(leaves) :
        PassedBy(leaves, before, cursor, l) <= PassedBy(leaves, before, cursor', l)
  BY <1>3
<1>6. PassedMatch(leaves, before, cursor', stmt.where)
  BY <1>2, <1>3, <1>4, <1>5, MatchStays
<1> QED BY <1>1, <1>6

(* The row that an UPDATE changes is one that its condition selects.       *)
LEMMA UpdateMatched ==
  ASSUME StoredInv, TreatedSoFar, UpdateRow
  PROVE  Matched'
<1>1. /\ AtRow /\ pc = "update" /\ GoesOn /\ UNCHANGED <<pc, stmt, before>>
      /\ Satisfied(stmt.where, Here.data)
  BY DEF UpdateRow
<1>2. PICK c : c = cursor[1]
  OBVIOUS
<1>3. PICK v : v = PassedIn(leaves[c].rows, before[c].rows, cursor[2])
  OBVIOUS
<1>4. /\ c \in 1..Len(leaves) /\ leaves[c].rows \in Seq(Row) /\ before[c].rows \in Seq(Row)
      /\ OfKind(pc, stmt)
      /\ Treated(pc, stmt, leaves[c].rows, before[c].rows, v)
      /\ Reaches(leaves[c].rows, before[c].rows, v, cursor[2])
      /\ Here = leaves[c].rows[cursor[2]]
  BY <1>1, <1>2, <1>3, ReachesHere
<1>5. PICK front, back : NextIs(pc, stmt, leaves[c].rows, before[c].rows, v, cursor[2], front, back)
  BY <1>4, TreatedHere
<1>6. v \in Nat /\ before[c].rows[v+1] = Here
  BY <1>4, <1>5 DEF NextIs
<1>7. Len(leaves') = Len(leaves)
      /\ Len(leaves'[c].rows) = Len(leaves[c].rows) /\ leaves'[c].rows \in Seq(Row)
  <2>1. PICK row : row = [Here EXCEPT !.data = Updated(Here.data)]
    OBVIOUS
  <2>2. row \in StoredRow
    BY <1>1, <2>1, UpdatedRow DEF UpdateRow
  <2>3. PICK rows : rows = [leaves[c].rows EXCEPT ![cursor[2]] = row]
    OBVIOUS
  <2>4. rows \in Seq(StoredRow) /\ Len(rows) = Len(leaves[c].rows)
    BY <1>1, <1>2, <2>2, <2>3, RowHere, Replaced
  <2>5. leaves' = [leaves EXCEPT ![c].rows = rows]
    BY <1>2, <2>1, <2>3 DEF UpdateRow, Here
  <2>6. Len(leaves') = Len(leaves) /\ leaves'[c].rows = rows /\ rows \in Seq(Row)
    BY <1>4, <2>4, <2>5, OneLeafChanges
  <2> QED BY <2>4, <2>6
<1>8. PassedBy(leaves, before, cursor, c) = v
  BY <1>2, <1>3, <1>4 DEF PassedBy
<1>9. PassedBy(leaves', before', cursor', c) = v+1
  <2>1. PassedBy(leaves', before', cursor', c)
          = IF c = c THEN PassedBy(leaves, before, cursor, c) + 1
            ELSE PassedBy(leaves, before, cursor, c)
    BY <1>1, <1>2, <1>4, <1>7, OneRowFurther
  <2> QED BY <1>8, <2>1
<1>10. cursor'[1] = c /\ c \in 1..c
  BY <1>1, <1>2, <1>4, GoesOnFrom
<1>11. v+1 \in 1..v+1
  BY <1>6
<1>12. Satisfied(stmt.where, before[c].rows[v+1].data)
  BY <1>1, <1>6
<1>13. PassedMatch(leaves', before', cursor', stmt'.where)
  BY <1>1, <1>9, <1>10, <1>11, <1>12 DEF PassedMatch
<1> QED BY <1>13 DEF Matched

LEMMA MatchedStep ==
  ASSUME StoredInv, StoredInv', TreatedSoFar, TreatedSoFar', Matched, [Next \/ Crash]_vars
  PROVE  Matched'
<1>1. CASE \E list \in InsertLists : \E literals \in [Given(list) -> Literals] :
             Insert(list, literals)
  <2>1. pc' # "update"
    BY <1>1 DEF Insert
  <2> QED BY <2>1 DEF Matched
<1>2. CASE CountRow \/ RowThrows \/ ScanEnds \/ Crash
  <2>1. pc' # "update"
    BY <1>2 DEF CountRow, RowThrows, ScanEnds, Crash, End
  <2> QED BY <2>1 DEF Matched
<1>3. CASE BeginSelectAll \/ (\E condition \in Condition : BeginSelect(condition))
             \/ (\E condition \in Condition : BeginDelete(condition))
  <2>1. pc' # "update"
    BY <1>3 DEF BeginSelectAll, BeginSelect, BeginDelete, Begin
  <2> QED BY <2>1 DEF Matched
<1>4. ASSUME NEW condition \in Condition, NEW name \in Names, NEW value \in Literals,
             BeginUpdate(condition, name, value)
      PROVE  Matched'
  <2>1. /\ stmt' = [where |-> On(LastNamed(condition.name), condition),
                    column |-> FirstNamed(name), value |-> value]
        /\ leaves' = leaves /\ unique' = unique
        /\ Allows(FirstNamed(name), value)
    BY <1>4 DEF BeginUpdate, Begin
  <2>2. stmt'.column = FirstNamed(name) /\ stmt'.value = value
    BY <2>1
  <2>3. stmt'.column \in unique' => ~ Taken(stmt'.value, stmt'.column)
    BY <2>1, <2>2 DEF Allows
  <2>4. Taken(stmt.value, stmt.column)' => Taken(stmt'.value, stmt'.column)
    BY <2>1 DEF Taken, Rows
  <2> QED BY <2>3, <2>4 DEF Matched
<1>5. CASE \E name \in Names : CreateIndex(name)
  <2>1. pc' # "update"
    BY <1>5 DEF CreateIndex
  <2> QED BY <2>1 DEF Matched
<1>6. CASE ShowRow \/ DeleteRow
  <2>1. pc' # "update"
    BY <1>6 DEF ShowRow, DeleteRow
  <2> QED BY <2>1 DEF Matched
<1>7. CASE UNCHANGED vars
  BY <1>7 DEF vars, Matched, Taken, Rows
<1>8. CASE StatementStep
  BY <1>2, <1>6, <1>8, PassRowMatched, NextLeafMatched, UpdateMatched DEF StatementStep
<1> QED BY <1>1, <1>2, <1>3, <1>4, <1>5, <1>7, <1>8 DEF Next

(* What an UPDATE does to a place, as one statement of its own.            *)
UpdatedFrom(ls, new, c, k, s) ==
  /\ Place(ls, c, k) /\ At(new, c, k) = UpdatedBy(s, At(ls, c, k))
  /\ \A l, i : Place(new, l, i) => Place(ls, l, i)
  /\ \A l, i : Place(ls, l, i) /\ ~ (l = c /\ i = k) => At(new, l, i) = At(ls, l, i)
DistinctAt(ls, u) ==
  \A l, i, m, j : Place(ls, l, i) /\ Place(ls, m, j)
                    /\ At(ls, l, i).data[u] = At(ls, m, j).data[u] =>
    At(ls, l, i) = At(ls, m, j)

LEMMA DistinctIsAt ==
  /\ StoredInv => \A u \in Columns : Distinct(u) <=> DistinctAt(leaves, u)
  /\ StoredInv' => \A u \in Columns : Distinct(u)' <=> DistinctAt(leaves', u)
<1>1. ASSUME NEW rows, NEW ls, NEW u,
             \A row : row \in rows <=> \E l, i : Place(ls, l, i) /\ row = At(ls, l, i)
      PROVE  (\A row, other \in rows : row.data[u] = other.data[u] => row = other)
               <=> DistinctAt(ls, u)
  <2>1. ASSUME \A row, other \in rows : row.data[u] = other.data[u] => row = other
        PROVE  DistinctAt(ls, u)
    <3>1. \A l, i : Place(ls, l, i) => At(ls, l, i) \in rows
      BY <1>1, Zenon
    <3> QED BY <2>1, <3>1 DEF DistinctAt
  <2>2. ASSUME DistinctAt(ls, u), NEW row \in rows, NEW other \in rows,
               row.data[u] = other.data[u]
        PROVE  row = other
    <3>1. PICK l, i : Place(ls, l, i) /\ row = At(ls, l, i)
      BY <1>1, Zenon
    <3>2. PICK m, j : Place(ls, m, j) /\ other = At(ls, m, j)
      BY <1>1, Zenon
    <3> QED BY <2>2, <3>1, <3>2 DEF DistinctAt
  <2> QED BY <2>1, <2>2
<1>2. StoredInv => \A u \in Columns : Distinct(u) <=> DistinctAt(leaves, u)
  <2> SUFFICES ASSUME StoredInv, NEW u \in Columns PROVE Distinct(u) <=> DistinctAt(leaves, u)
    OBVIOUS
  <2>1. \A row : row \in Rows <=> \E l, i : Place(leaves, l, i) /\ row = At(leaves, l, i)
    BY RowsArePlaces
  <2>2. (\A row, other \in Rows : row.data[u] = other.data[u] => row = other)
          <=> DistinctAt(leaves, u)
    BY <1>1, <2>1, Zenon
  <2> QED BY <2>2, Zenon DEF Distinct
<1>3. StoredInv' => \A u \in Columns : Distinct(u)' <=> DistinctAt(leaves', u)
  <2> SUFFICES ASSUME StoredInv', NEW u \in Columns PROVE Distinct(u)' <=> DistinctAt(leaves', u)
    OBVIOUS
  <2>1. \A row : row \in Rows' <=> \E l, i : Place(leaves', l, i) /\ row = At(leaves', l, i)
    BY RowsArePlaces
  <2>2. (\A row, other \in Rows' : row.data[u] = other.data[u] => row = other)
          <=> DistinctAt(leaves', u)
    BY <1>1, <2>1, Zenon
  <2> QED BY <2>2, Zenon DEF Distinct
<1> QED BY <1>2, <1>3

LEMMA UpdateIsFrom ==
  ASSUME StoredInv, UpdateRow
  PROVE  /\ AtRow /\ pc = "update" /\ unique' = unique
         /\ OfKind("update", stmt)
         /\ UpdatedFrom(leaves, leaves', cursor[1], cursor[2], stmt)
<1>1. PICK c : c = cursor[1]
  OBVIOUS
<1>2. PICK k : k = cursor[2]
  OBVIOUS
<1>3. /\ Place(leaves, c, k) /\ At(leaves, c, k) = Here
      /\ At(leaves', c, k) = UpdatedBy(stmt, Here)
      /\ \A l, i : Place(leaves', l, i) <=> Place(leaves, l, i)
      /\ \A l, i : Place(leaves, l, i) /\ ~ (l = c /\ i = k) =>
           At(leaves', l, i) = At(leaves, l, i)
  BY <1>1, <1>2, UpdatePlaces
<1>4. AtRow /\ pc = "update" /\ unique' = unique
  BY DEF UpdateRow
<1>5. OfKind("update", stmt)
  BY <1>4, StatementKind DEF Scans
<1>6. UpdatedFrom(leaves, leaves', c, k, stmt)
  BY <1>3 DEF UpdatedFrom
<1> QED BY <1>1, <1>2, <1>4, <1>5, <1>6

(* Whatever column it sets, an update of one row keeps values distinct in  *)
(* all columns but this one; and in this one if no other row has the value.*)
LEMMA UpdateKeepsOthers ==
  ASSUME NEW ls \in Seq(StoredLeaf), NEW new \in Seq(StoredLeaf), IdsInOrder(ls),
         NEW c, NEW k, NEW s, OfKind("update", s), UpdatedFrom(ls, new, c, k, s),
         NEW u \in Columns, DistinctAt(ls, u),
         u = s.column => \A m, j : Place(ls, m, j) => At(ls, m, j).data[u] # s.value
  PROVE  DistinctAt(new, u)
<1>1. Place(ls, c, k) /\ At(new, c, k) = UpdatedBy(s, At(ls, c, k))
  BY DEF UpdatedFrom
<1>2. PICK here : here = At(ls, c, k)
  OBVIOUS
<1>3. here \in StoredRow /\ here.data \in StoredData
  BY <1>1, <1>2, PlaceType DEF StoredRow
<1>4. PICK there : there = UpdatedBy(s, here)
  OBVIOUS
<1>5. there.data[u] = IF u = s.column THEN s.value ELSE here.data[u]
  <2>1. PICK data : data = [here.data EXCEPT ![s.column] = s.value]
    OBVIOUS
  <2>2. there = [here EXCEPT !.data = data]
    BY <1>4, <2>1 DEF UpdatedBy
  <2>3. there.data = data
    BY <1>3, <2>2 DEF StoredRow
  <2>4. here.data \in [Columns -> StoredValue]
    BY <1>3 DEF StoredData
  <2> QED BY <2>1, <2>3, <2>4
<1>6. ASSUME NEW m, NEW j, Place(new, m, j), ~ (m = c /\ j = k)
      PROVE  /\ Place(ls, m, j) /\ At(new, m, j) = At(ls, m, j)
             /\ there.data[u] # At(new, m, j).data[u]
  <2>1. Place(ls, m, j) /\ At(new, m, j) = At(ls, m, j)
    BY <1>6 DEF UpdatedFrom
  <2>2. CASE u = s.column
    BY <1>5, <2>1, <2>2
  <2>3. CASE u # s.column
    <3>1. here # At(ls, m, j)
      BY <1>1, <1>2, <1>6, <2>1, IdsTellPlaces
    <3>2. here.data[u] # At(ls, m, j).data[u]
      BY <1>1, <1>2, <2>1, <3>1 DEF DistinctAt
    <3> QED BY <1>5, <2>1, <2>3, <3>2
  <2> QED BY <2>1, <2>2, <2>3
<1>7. At(new, c, k) = there
  BY <1>1, <1>2, <1>4
<1> SUFFICES ASSUME NEW l, NEW i, NEW m, NEW j, Place(new, l, i), Place(new, m, j),
                    At(new, l, i).data[u] = At(new, m, j).data[u]
             PROVE  At(new, l, i) = At(new, m, j)
  BY DEF DistinctAt
<1>8. CASE l = c /\ i = k
  BY <1>6, <1>7, <1>8
<1>9. CASE m = c /\ j = k
  BY <1>6, <1>7, <1>9
<1>10. CASE ~ (l = c /\ i = k) /\ ~ (m = c /\ j = k)
  BY <1>6, <1>10 DEF DistinctAt
<1> QED BY <1>8, <1>9, <1>10

LEMMA UpdateDistinct ==
  ASSUME StoredInv, StoredInv', OrderInv, UniqueHolds, UpdateRow, NEW u \in unique, ~ Distinct(u)'
  PROVE  stmt.column = u /\ Taken(stmt.value, stmt.column)
<1>1. u \in Columns
  BY DEF StoredInv
<1>2. DistinctAt(leaves, u) /\ ~ DistinctAt(leaves', u)
  BY <1>1, DistinctIsAt DEF UniqueHolds
<1>3. OfKind("update", stmt) /\ UpdatedFrom(leaves, leaves', cursor[1], cursor[2], stmt)
  BY UpdateIsFrom
<1>4. leaves \in Seq(StoredLeaf) /\ leaves' \in Seq(StoredLeaf) /\ IdsInOrder(leaves)
  BY DEF StoredInv, OrderInv
<1>5. ~ (u = stmt.column => \A m, j : Place(leaves, m, j) => At(leaves, m, j).data[u] # stmt.value)
  BY <1>1, <1>2, <1>3, <1>4, UpdateKeepsOthers
<1>6. PICK m, j : Place(leaves, m, j) /\ At(leaves, m, j).data[u] = stmt.value
  BY <1>5
<1>7. At(leaves, m, j) \in Rows
  BY <1>6, RowsArePlaces
<1> QED BY <1>5, <1>6, <1>7 DEF Taken

LEMMA DeleteDistinct ==
  ASSUME StoredInv, StoredInv', DeleteRow, UniqueHolds
  PROVE  UniqueHolds'
<1>1. PICK c : c = cursor[1]
  OBVIOUS
<1>2. PICK k : k = cursor[2]
  OBVIOUS
<1>3. AtRow /\ leaves' = [leaves EXCEPT ![c].rows = RemoveAt(@, k)] /\ unique' = unique
  BY <1>1, <1>2 DEF DeleteRow
<1>4. OthersMove(leaves, leaves', c, k)
  BY <1>1, <1>2, <1>3, DeletePlaces
<1>5. Rows' \subseteq Rows
  BY <1>4, RowsArePlaces DEF OthersMove
<1> QED BY <1>3, <1>5 DEF UniqueHolds, Distinct

(* The row of an INSERT has values that no row of the table has.           *)
LEMMA InsertDistinct ==
  ASSUME StoredInv, StoredInv', NEW row \in StoredRow, leaves' = AppendRow(row),
         unique' = unique, UniqueHolds, \A u \in unique : ~ Taken(row.data[u], u)
  PROVE  UniqueHolds'
<1>1. Rows' \subseteq Rows \union {row}
  <2>1. PICK l, i :
          /\ Place(leaves', l, i) /\ At(leaves', l, i) = row /\ l = Len(leaves')
          /\ Len(leaves) <= Len(leaves')
          /\ \A m, j : Place(leaves', m, j) =>
               \/ m = l /\ j = i
               \/ /\ Place(leaves, m, j) /\ At(leaves', m, j) = At(leaves, m, j)
                  /\ Precedes(m, j, l, i)
    BY InsertPlaces
  <2> QED BY <2>1, RowsArePlaces
<1>2. \A u \in unique : Distinct(u)' 
  BY <1>1 DEF UniqueHolds, Distinct, Taken
<1> QED BY <1>2 DEF UniqueHolds

LEMMA UniqueStep ==
  ASSUME StoredInv, StoredInv', TreatedSoFar, OrderInv, Matched, [Next \/ Crash]_vars,
         UniqueHolds, ~ UniqueHolds'
  PROVE  /\ pc = "update" /\ stmt.column \in unique
         /\ PassedMatch(leaves, before, cursor, stmt.where)
<1>1. ~ UNCHANGED <<leaves, unique>>
  BY DEF UniqueHolds, Distinct, Rows
<1>2. ASSUME NEW list \in InsertLists, NEW literals \in [Given(list) -> Literals],
             Insert(list, literals)
      PROVE  FALSE
  <2>1. PICK data : data = NewRow(list, literals)
    OBVIOUS
  <2>2. PICK row : row = [row_id |-> next_row_id, data |-> data, room |-> PayloadLength(data)]
    OBVIOUS
  <2>3. Accepts(data) /\ leaves' = AppendRow(row) /\ unique' = unique
    BY <1>2, <2>1, <2>2 DEF Insert
  <2>4. data \in StoredData /\ PayloadLength(data) \in Nat
    BY <2>1, <2>3, NewRowType, PayloadLengthType DEF Accepts, StoredData
  <2>5. row \in StoredRow /\ row.data = data
    BY <2>2, <2>4 DEF StoredRow, StoredInv
  <2>6. \A u \in unique : ~ Taken(row.data[u], u)
    BY <2>3, <2>5 DEF Accepts
  <2> QED BY <2>3, <2>5, <2>6, InsertDistinct
<1>3. ASSUME NEW name \in Names, CreateIndex(name) PROVE FALSE
  <2>1. leaves' = leaves /\ unique' = unique \union {FirstNamed(name)} /\ Distinct(FirstNamed(name))
    BY <1>3 DEF CreateIndex
  <2> QED BY <2>1 DEF UniqueHolds, Distinct, Rows
<1>4. CASE DeleteRow
  BY <1>4, DeleteDistinct
<1>5. CASE UpdateRow
  <2>1. PICK u \in unique : ~ Distinct(u)'
    BY <1>5, UpdateIsFrom DEF UniqueHolds
  <2>2. stmt.column = u /\ Taken(stmt.value, stmt.column)
    BY <1>5, <2>1, UpdateDistinct
  <2> QED BY <1>5, <2>1, <2>2, UpdateIsFrom DEF Matched
<1>6. CASE BeginSelectAll \/ (\E condition \in Condition : BeginSelect(condition))
             \/ (\E condition \in Condition : BeginDelete(condition))
  BY <1>1, <1>6 DEF BeginSelectAll, BeginSelect, BeginDelete, Begin
<1>7. CASE \E condition \in Condition, name \in Names, value \in Literals :
             BeginUpdate(condition, name, value)
  BY <1>1, <1>7 DEF BeginUpdate, Begin
<1>8. CASE CountRow \/ PassRow \/ ShowRow \/ RowThrows \/ NextLeaf \/ ScanEnds \/ Crash
  BY <1>1, <1>8 DEF CountRow, PassRow, ShowRow, RowThrows, NextLeaf, ScanEnds, Crash
<1>9. CASE UNCHANGED vars
  BY <1>1, <1>9 DEF vars
<1>10. CASE StatementStep
  BY <1>4, <1>5, <1>8, <1>10 DEF StatementStep
<1> QED BY <1>2, <1>3, <1>6, <1>7, <1>8, <1>9, <1>10 DEF Next

LEMMA MatchedInvariant == CrashSpec => [](StoredInv /\ TreatedSoFar /\ OrderInv /\ Matched)
<1>1. Init => Matched
  BY DEF Init, Matched
<1>2. StoredInv /\ StoredInv' /\ TreatedSoFar /\ TreatedSoFar' /\ Matched /\ [Next \/ Crash]_vars
        => Matched'
  BY MatchedStep
<1>3. StoredInv /\ TreatedSoFar /\ ShownSoFar => StoredInv /\ TreatedSoFar
  OBVIOUS
<1> QED BY <1>1, <1>2, <1>3, ScanInvariant, OrderInvariant, PTL DEF CrashSpec

(* Of all steps of all statements, whole or cut short, only an UPDATE of a *)
(* unique column makes a value occur twice, and only behind a row that its *)
(* condition selected before: its check looks for rows that have the value *)
(* already, not for how many are about to get it (ast.cpp:301, 317).       *)
THEOREM UniqueLostOnlySo == CrashSpec => UniqueLostBySecondMatch
<1>1. StoredInv /\ TreatedSoFar /\ OrderInv /\ Matched
        /\ (StoredInv /\ TreatedSoFar /\ OrderInv /\ Matched)' /\ [Next \/ Crash]_vars
        => [UniqueHolds /\ ~ UniqueHolds' =>
              /\ pc = "update" /\ stmt.column \in unique
              /\ \E l \in 1..cursor[1] :
                   \E i \in 1..Passed(l) :
                     Satisfied(stmt.where, before[l].rows[i].data)]_vars
  BY UniqueStep, PassedIs DEF PassedMatch
<1> QED BY <1>1, MatchedInvariant, PTL DEF CrashSpec, UniqueLostBySecondMatch
=============================================================================
