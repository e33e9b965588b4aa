----------------------------- MODULE Statements -----------------------------
(***************************************************************************)
(* INSERT, SELECT, DELETE, UPDATE and CREATE INDEX on one table, row by    *)
(* row (src/ast.cpp, with the value conversions of                         *)
(* src/sdl/column_value.cpp and TableLeafPage::updateRecord).  A statement *)
(* scans the leaves and commits each row it changes before it looks at the *)
(* next one; an exception or a crash on the way leaves the rows as they    *)
(* are by then.  A statement refused before its first write changes        *)
(* nothing: it is a stuttering step.                                       *)
(*                                                                         *)
(* A value is the number of digits of 1, 11, 111, ...: such a literal, a   *)
(* number up to 19 digits and quoted beyond, converts to every type that   *)
(* has room for its digits, compares the same way as any of them, and      *)
(* takes as many bytes as it has digits as a TEXT.                         *)
(***************************************************************************)
EXTENDS Integers, Sequences, SequencesExt, FiniteSets, CellFormat

CONSTANTS
  NULL,           \* NullValue
  ColumnDefs,     \* the columns: name, type, not_null, and unique for primary_key \/ unique
  Literals,       \* literals of the workload: NULL or a number of digits
  Operators,      \* comparison operators of its WHERE clauses
  InsertLists,    \* column lists of its INSERT statements, << >> where the SQL has none
  LeafCapacity,   \* cells that a leaf has bytes for
  MaxRowId,       \* bound on the workload: no row id above it is inserted
  MaxLeaves       \* bound on the workload: no INSERT begins with more leaves

Columns == DOMAIN ColumnDefs
Names == {ColumnDefs[c].name : c \in Columns}

(* A TEXT of more than 243 bytes reads back as another type or a shorter   *)
(* TEXT; those of 251 and 253, which do not read back at all, stand for    *)
(* the rows that this damages.                                             *)
ASSUME StatementsAssumption ==
  /\ ColumnDefs \in Seq([name : STRING, type : ColumnTypes, not_null : BOOLEAN, unique : BOOLEAN])
  /\ Literals \subseteq 1..243 \union {251, 253, NULL}
  /\ NULL \notin Nat
  /\ InsertLists \subseteq Seq(Names)
  /\ Operators \subseteq {"LESS_EQUAL", "LESS", "EQUAL", "GREATER_EQUAL", "GREATER"}
  /\ LeafCapacity \in Nat \ {0}
  /\ MaxRowId \in Nat /\ MaxLeaves \in Nat

VARIABLES
  leaves,         \* the leaves in scan order: their rows, and the cells they ever held
  next_row_id,    \* of the table's row in davisbase_tables
  unique,         \* columns that davisbase_columns has as PRIMARY KEY or UNIQUE
  pc,             \* "idle", or the statement under way
  stmt,           \* its WHERE clause, what UPDATE sets, the row ids SELECT has shown
  cursor,         \* leaf and cell its scan has come to
  before          \* history: the leaves when the statement began

vars == <<leaves, next_row_id, unique, pc, stmt, cursor, before>>

Value == Nat \union {NULL}
RowData == [Columns -> Value]
Row == [row_id : Nat, data : RowData, room : Nat]   \* room: payload_length of the cell
Leaf == [rows : Seq(Row), used : 0..LeafCapacity]

(* The rows of the table; their ids differ. *)
Rows == UNION {ToSet(leaves[l].rows) : l \in DOMAIN leaves}

Init ==
  /\ leaves = <<[rows |-> << >>, used |-> 0]>>
  /\ next_row_id = 1
  /\ unique = {c \in Columns : ColumnDefs[c].unique}
  /\ pc = "idle"
  /\ stmt = << >>
  /\ cursor = << >>
  /\ before = << >>

-----------------------------------------------------------------------------
(* Values.                                                                  *)

(* The digits up to which 11...1 is in the range of a type. *)
Digits == [TINYINT |-> 3, SMALLINT |-> 5, INT |-> 10, BIGINT |-> 19, FLOAT |-> 309,
           YEAR |-> 3, TIME |-> 10, DATETIME |-> 20, DATE |-> 20]

(* createColumnValue throws unless the literal converts; NULL always does. *)
Casts(literal, c) ==
  literal # NULL /\ ColumnDefs[c].type # "TEXT" => literal <= Digits[ColumnDefs[c].type]

Bytes(value, c) ==
  IF value = NULL THEN 0 ELSE IF ColumnDefs[c].type = "TEXT" THEN value
  ELSE Width[ColumnDefs[c].type]
ValueBytes(data) == UNION {{c} \X (1..Bytes(data[c], c)) : c \in Columns}

(* TableLeafCellPayload::length: the number of columns, a type code for    *)
(* each, and their values.                                                 *)
PayloadLength(data) == 1 + Len(ColumnDefs) + Cardinality(ValueBytes(data))

FieldIn(data, c) == [type |-> IF data[c] = NULL THEN "NULL_TYPE" ELSE ColumnDefs[c].type,
                     length |-> Bytes(data[c], c)]

(* getCell of the row does not throw. *)
Readable(data) == \A c \in Columns : IsTypeCode(CodeOf(FieldIn(data, c)))
AllReadable == \A row \in Rows : Readable(row.data)

(* isWhereSatisfied converts the literal to the type of the row's value:   *)
(* a NULL literal then has no value of that type to give.                  *)
NoCondition == << >>
Evaluates(where, data) ==
  /\ Readable(data)
  /\ where # NoCondition /\ data[where.column] # NULL =>
       where.literal # NULL /\ Casts(where.literal, where.column)

Compare(op, a, b) ==
  \/ op = "LESS_EQUAL" /\ a <= b
  \/ op = "LESS" /\ a < b
  \/ op = "EQUAL" /\ a = b
  \/ op = "GREATER_EQUAL" /\ a >= b
  \/ op = "GREATER" /\ a > b

Satisfied(where, data) ==
  /\ Evaluates(where, data)
  /\ where # NoCondition =>
       IF data[where.column] = NULL
       THEN where.op \in {"LESS_EQUAL", "EQUAL", "GREATER_EQUAL"} /\ where.literal = NULL
       ELSE Compare(where.op, data[where.column], where.literal)

(* No value of the column is in two rows. *)
Distinct(c) == \A row, other \in Rows : row.data[c] = other.data[c] => row = other

(* A table may have a name twice.  INSERT, SELECT, SET and CREATE INDEX    *)
(* stop at the first; the WHERE of DELETE and UPDATE goes on to the last.  *)
FirstNamed(name) ==
  CHOOSE c \in Columns : ColumnDefs[c].name = name /\ \A d \in 1..c-1 : ColumnDefs[d].name # name
LastNamed(name) ==
  CHOOSE c \in Columns :
    ColumnDefs[c].name = name /\ \A d \in c+1..Len(ColumnDefs) : ColumnDefs[d].name # name

Condition == [name : Names, op : Operators, literal : Literals]
Where == [column : Columns, op : Operators, literal : Literals]
On(c, condition) == [column |-> c, op |-> condition.op, literal |-> condition.literal]

Taken(value, c) == \E row \in Rows : row.data[c] = value

-----------------------------------------------------------------------------
(* INSERT: its checks and the append of the row, then next_row_id.          *)

Given(list) == IF list = << >> THEN Columns ELSE DOMAIN list
Target(list, j) == IF list = << >> THEN j ELSE FirstNamed(list[j])

(* The row of a list of columns and their literals: a column listed twice  *)
(* gets the last one, a column not listed NULL.                            *)
NewRow(list, literals) ==
  [c \in Columns |->
     LET given == {j \in Given(list) : Target(list, j) = c}
     IN  IF given = {} THEN NULL
         ELSE literals[CHOOSE j \in given : \A k \in given : k <= j]]

(* Mutant: the table is only scanned for a column that is unique. *)
AcceptsUnscanned(data) ==
  /\ \A c \in Columns : ColumnDefs[c].not_null => data[c] # NULL
  /\ \A c \in unique : AllReadable /\ ~ Taken(data[c], c)

(* The scan for values taken reads every row, whatever is unique. *)
Accepts(data) ==
  /\ \A c \in Columns : ColumnDefs[c].not_null => data[c] # NULL
  /\ AllReadable
  /\ \A c \in unique : ~ Taken(data[c], c)

(* TableLeafPage::appendRecord refuses a row id that a crash left behind.  *)
Decreases ==
  Last(leaves).rows # << >> /\ Last(Last(leaves).rows).row_id >= next_row_id

(* Mutant: one row more than there are bytes for. *)
AppendRowOverfull(row) ==
  IF Last(leaves).used <= LeafCapacity
  THEN [leaves EXCEPT ![Len(leaves)].rows = Append(@, row), ![Len(leaves)].used = @ + 1]
  ELSE Append(leaves, [rows |-> <<row>>, used |-> 1])

AppendRow(row) ==
  IF Last(leaves).used < LeafCapacity
  THEN [leaves EXCEPT ![Len(leaves)].rows = Append(@, row), ![Len(leaves)].used = @ + 1]
  ELSE Append(leaves, [rows |-> <<row>>, used |-> 1])

(* A new leaf is entered under its minRowId, which reads its first row:    *)
(* the INSERT ends there if it cannot, the leaf written but not counted.   *)
InParent(data) == Readable(data) \/ Last(leaves).used < LeafCapacity

Insert(list, literals) ==
  LET data == NewRow(list, literals)
  IN  /\ pc = "idle"
      /\ next_row_id <= MaxRowId /\ Len(leaves) <= MaxLeaves
      /\ \A j \in Given(list) : Casts(literals[j], Target(list, j))
      /\ Accepts(data)
      /\ ~ Decreases
      /\ leaves' = AppendRow([row_id |-> next_row_id, data |-> data,
                              room |-> PayloadLength(data)])
      /\ pc' = IF InParent(data) THEN "insert" ELSE "idle"
      /\ UNCHANGED <<next_row_id, unique, stmt, cursor, before>>

CountRow ==
  /\ pc = "insert"
  /\ next_row_id' = next_row_id + 1
  /\ pc' = "idle"
  /\ UNCHANGED <<leaves, unique, stmt, cursor, before>>

-----------------------------------------------------------------------------
(* SELECT, DELETE and UPDATE: mapOverRecords over the leaves.               *)

Begin(kind, statement) ==
  /\ pc = "idle"
  /\ pc' = kind
  /\ stmt' = statement
  /\ cursor' = <<1, 1>>
  /\ before' = leaves
  /\ UNCHANGED <<leaves, next_row_id, unique>>

(* SELECT without a condition, and one whose literal has been converted    *)
(* once in advance.                                                        *)
BeginSelectAll == Begin("select", [where |-> NoCondition, shown |-> << >>])
BeginSelect(condition) ==
  LET c == FirstNamed(condition.name)
  IN  /\ Casts(condition.literal, c)
      /\ Begin("select", [where |-> On(c, condition), shown |-> << >>])

BeginDelete(condition) ==
  Begin("delete", [where |-> On(LastNamed(condition.name), condition)])

(* Mutant: the null constraint is not checked. *)
AllowsNull(c, value) == Casts(value, c) /\ (c \in unique => AllReadable /\ ~ Taken(value, c))

(* The checks of UPDATE, of which the last does not ask how many rows the  *)
(* condition selects.                                                      *)
Allows(c, value) ==
  /\ ColumnDefs[c].not_null => value # NULL
  /\ Casts(value, c)
  /\ c \in unique => AllReadable /\ ~ Taken(value, c)

(* Mutant: the column that is checked is not the one that is set. *)
BeginUpdateCheckingLast(condition, name, value) ==
  /\ pc = "idle"
  /\ Allows(LastNamed(name), value)
  /\ Begin("update", [where |-> On(LastNamed(condition.name), condition),
                      column |-> FirstNamed(name), value |-> value])

BeginUpdate(condition, name, value) ==
  LET c == FirstNamed(name)
  IN  /\ pc = "idle"
      /\ Allows(c, value)
      /\ Begin("update", [where |-> On(LastNamed(condition.name), condition),
                          column |-> c, value |-> value])

End ==
  /\ pc' = "idle"
  /\ stmt' = << >>
  /\ cursor' = << >>
  /\ before' = << >>

Scans == {"select", "delete", "update"}
AtRow == pc \in Scans /\ cursor[2] <= Len(leaves[cursor[1]].rows)
Here == leaves[cursor[1]].rows[cursor[2]]
Updated(data) == [data EXCEPT ![stmt.column] = stmt.value]

(* Mutant: the comparison is off by one. *)
GrowsByTwo(data) == PayloadLength(Updated(data)) > PayloadLength(data) + 1

(* TableLeafPage::updateRecord compares the lengths of the values, now and *)
(* then; it never looks at the room there is.                              *)
Grows(data) == PayloadLength(Updated(data)) > PayloadLength(data)

GoesOn == cursor' = [cursor EXCEPT ![2] = @ + 1]

(* Mutant: the index is decremented for every row. *)
PassRowStaying ==
  /\ AtRow
  /\ Evaluates(stmt.where, Here.data) /\ ~ Satisfied(stmt.where, Here.data)
  /\ UNCHANGED vars

PassRow ==
  /\ AtRow
  /\ Evaluates(stmt.where, Here.data) /\ ~ Satisfied(stmt.where, Here.data)
  /\ GoesOn
  /\ UNCHANGED <<leaves, next_row_id, unique, pc, stmt, before>>

ShowRow ==
  /\ pc = "select" /\ AtRow
  /\ Satisfied(stmt.where, Here.data)
  /\ stmt' = [stmt EXCEPT !.shown = Append(@, Here.row_id)]
  /\ GoesOn
  /\ UNCHANGED <<leaves, next_row_id, unique, pc, before>>

(* Mutant: the index moves on past the slot that took the deleted one's place. *)
DeleteRowSkipping ==
  /\ pc = "delete" /\ AtRow
  /\ Satisfied(stmt.where, Here.data)
  /\ leaves' = [leaves EXCEPT ![cursor[1]].rows = RemoveAt(@, cursor[2])]
  /\ GoesOn
  /\ UNCHANGED <<next_row_id, unique, pc, stmt, before>>

(* deleteRecord, and CellIndex(i - 1), which the loop increments. *)
DeleteRow ==
  /\ pc = "delete" /\ AtRow
  /\ Satisfied(stmt.where, Here.data)
  /\ leaves' = [leaves EXCEPT ![cursor[1]].rows = RemoveAt(@, cursor[2])]
  /\ UNCHANGED <<next_row_id, unique, pc, stmt, cursor, before>>

(* Mutant: the page is changed in memory only. *)
UpdateRowUncommitted ==
  /\ pc = "update" /\ AtRow
  /\ Satisfied(stmt.where, Here.data)
  /\ ~ Grows(Here.data)
  /\ GoesOn
  /\ UNCHANGED <<leaves, next_row_id, unique, pc, stmt, before>>

(* The cell keeps its header: row id and payload_length.                   *)
UpdateRow ==
  /\ pc = "update" /\ AtRow
  /\ Satisfied(stmt.where, Here.data)
  /\ ~ Grows(Here.data)
  /\ leaves' = [leaves EXCEPT ![cursor[1]].rows[cursor[2]].data = Updated(@)]
  /\ GoesOn
  /\ UNCHANGED <<next_row_id, unique, pc, stmt, before>>

(* Rows visited before keep their changes. *)
RowThrows ==
  /\ AtRow
  /\ \/ ~ Evaluates(stmt.where, Here.data)
     \/ pc = "update" /\ Satisfied(stmt.where, Here.data) /\ Grows(Here.data)
  /\ End
  /\ UNCHANGED <<leaves, next_row_id, unique>>

NextLeaf ==
  /\ pc \in Scans /\ ~ AtRow
  /\ cursor[1] < Len(leaves)
  /\ cursor' = <<cursor[1] + 1, 1>>
  /\ UNCHANGED <<leaves, next_row_id, unique, pc, stmt, before>>

ScanEnds ==
  /\ pc \in Scans /\ ~ AtRow
  /\ cursor[1] = Len(leaves)
  /\ End
  /\ UNCHANGED <<leaves, next_row_id, unique>>

-----------------------------------------------------------------------------
(* CREATE INDEX, and crashes.                                               *)

(* Mutant: values that occur twice are not looked for. *)
CreateIndexUnchecked(name) ==
  /\ pc = "idle"
  /\ AllReadable
  /\ unique' = unique \union {FirstNamed(name)}
  /\ UNCHANGED <<leaves, next_row_id, pc, stmt, cursor, before>>

(* The scan for a value that occurs twice, then makeColumnUnique, with or  *)
(* without UNIQUE: nothing in the code reads is_unique.                    *)
CreateIndex(name) ==
  /\ pc = "idle"
  /\ AllReadable
  /\ Distinct(FirstNamed(name))
  /\ unique' = unique \union {FirstNamed(name)}
  /\ UNCHANGED <<leaves, next_row_id, pc, stmt, cursor, before>>

Crash ==
  /\ pc # "idle"
  /\ End
  /\ UNCHANGED <<leaves, next_row_id, unique>>

StatementStep ==
  \/ CountRow
  \/ PassRow
  \/ ShowRow
  \/ DeleteRow
  \/ UpdateRow
  \/ RowThrows
  \/ NextLeaf
  \/ ScanEnds

Next ==
  \/ \E list \in InsertLists : \E literals \in [Given(list) -> Literals] :
       Insert(list, literals)
  \/ BeginSelectAll
  \/ \E condition \in Condition : BeginSelect(condition)
  \/ \E condition \in Condition : BeginDelete(condition)
  \/ \E condition \in Condition, name \in Names, value \in Literals :
       BeginUpdate(condition, name, value)
  \/ \E name \in Names : CreateIndex(name)
  \/ StatementStep

Spec == Init /\ [][Next]_vars
FairSpec == Spec /\ WF_vars(StatementStep)
CrashSpec == Init /\ [][Next \/ Crash]_vars

-----------------------------------------------------------------------------
(* Correctness.                                                             *)

TypeOK ==
  /\ leaves \in Seq(Leaf) /\ leaves # << >>
  /\ next_row_id \in Nat
  /\ unique \subseteq Columns
  /\ pc \in {"idle", "insert"} \union Scans
  /\ pc = "select" => stmt \in [where : Where \union {NoCondition}, shown : Seq(Nat)]
  /\ pc = "delete" => stmt \in [where : Where]
  /\ pc = "update" => stmt \in [where : Where, column : Columns, value : Value]
  /\ pc \in Scans =>
       cursor[1] \in DOMAIN leaves /\ cursor[2] \in 1..Len(leaves[cursor[1]].rows)+1
  /\ before \in Seq(Leaf)

(* No row, whoever wrote it and however its statement ended, has NULL in a *)
(* NOT NULL column: INSERT checks the row (ast.cpp:130), UPDATE the value  *)
(* it sets (ast.cpp:294), CREATE INDEX changes neither.                    *)
NotNullHolds ==
  \A row \in Rows, c \in Columns : ColumnDefs[c].not_null => row.data[c] # NULL

(* The values of a row fit in the bytes its cell was given when it was     *)
(* appended, so that updates in place never reach into the next cell:      *)
(* payload_length is not stored again, and updateRecord only compares new  *)
(* values with old ones (table_leaf_page.cpp:320).                         *)
RowsFitTheirCells == \A row \in Rows : PayloadLength(row.data) <= row.room

(* Columns that are PRIMARY KEY or UNIQUE have no value, NULL included, in *)
(* two rows: the "Uniquness constraint" of ast.cpp:301-309.                *)
UniqueHolds == \A c \in unique : Distinct(c)

(* The rows at some of their places, in order. *)
AtPlaces(rows, places) ==
  LET upTo[i \in 0..Len(rows)] ==
        IF i = 0 THEN << >>
        ELSE IF i \in places THEN Append(upTo[i-1], rows[i]) ELSE upTo[i-1]
  IN  upTo[Len(rows)]

(* A reference for what SELECT shows of a list of rows, and what DELETE    *)
(* and UPDATE make of it.                                                  *)
Selecting(rows) == {i \in DOMAIN rows : Satisfied(stmt.where, rows[i].data)}
Selected(rows) == AtPlaces(rows, Selecting(rows))
Applied(rows) ==
  IF pc = "select" THEN rows
  ELSE IF pc = "delete" THEN AtPlaces(rows, DOMAIN rows \ Selecting(rows))
  ELSE [i \in DOMAIN rows |->
          IF i \in Selecting(rows) THEN [rows[i] EXCEPT !.data = Updated(@)] ELSE rows[i]]

(* The rows of its leaf that the scan has passed. *)
Visited ==
  Len(before[cursor[1]].rows) - (Len(leaves[cursor[1]].rows) - cursor[2] + 1)

Passed(l) == IF l < cursor[1] THEN Len(before[l].rows) ELSE IF l = cursor[1] THEN Visited ELSE 0

(* At every instant of a scan the table is what the statement makes of the *)
(* rows its scan has passed, and the rows ahead as they were, and SELECT   *)
(* has shown those it selects of the rows passed, in order: so a statement *)
(* that returns has treated every row, each exactly once, although DELETE  *)
(* moves rows under its own index (ast.cpp:260-261), and one that throws   *)
(* or is killed has treated those before the row it threw at.              *)
EffectSoFar ==
  pc \in Scans =>
    /\ \A l \in DOMAIN leaves :
         LET then == before[l].rows
         IN  /\ Passed(l) \in 0..Len(then)
             /\ leaves[l].rows = Applied(SubSeq(then, 1, Passed(l)))
                                   \o SubSeq(then, Passed(l) + 1, Len(then))
    /\ pc = "select" =>
         LET chosen == Selected(FlattenSeq([l \in DOMAIN leaves |->
                                              SubSeq(before[l].rows, 1, Passed(l))]))
         IN  stmt.shown = [i \in DOMAIN chosen |-> chosen[i].row_id]

(* Every row that can be read at all reads back as the fields that were    *)
(* written: no type, and no length of a TEXT, is taken for another         *)
(* (table_leaf_page.cpp:64, 194).                                          *)
RowsReadBack ==
  \A row \in Rows : Readable(row.data) =>
    \A c \in Columns : FieldOf(CodeOf(FieldIn(row.data, c))) = FieldIn(row.data, c)

(* A row that cannot be read is the last one for good: the table takes no  *)
(* other row and no index, and nothing removes or overwrites it.  Each     *)
(* statement that would throws at that row, INSERT too, whose scan is for  *)
(* unique values; the rows before it can still be deleted.                 *)
UnreadableRowFreezes ==
  [][\A row \in Rows : ~ Readable(row.data) =>
       /\ row \in Rows'
       /\ \A other \in Rows' : other.row_id <= row.row_id
       /\ unique' = unique]_vars

(* Uniqueness is lost in one way only: an UPDATE that sets a unique column *)
(* reaches a second row that its condition selects.  Neither INSERT nor    *)
(* CREATE INDEX, nor an UPDATE that selects one row, nor a statement cut   *)
(* short leaves a value in two rows.                                       *)
UniqueLostBySecondMatch ==
  [][UniqueHolds /\ ~ UniqueHolds' =>
       /\ pc = "update" /\ stmt.column \in unique
       /\ \E l \in 1..cursor[1] :
            \E i \in 1..Passed(l) :
              Satisfied(stmt.where, before[l].rows[i].data)]_vars

(* Statements end: a scan that deletes the rows under its own index still  *)
(* comes to the end of its leaves.                                         *)
StatementEnds == pc # "idle" ~> pc = "idle"
=============================================================================
