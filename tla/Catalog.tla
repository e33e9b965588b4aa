------------------------------ MODULE Catalog ------------------------------
(***************************************************************************)
(* The tables of a database: their files in the directory, and the rows    *)
(* that davisbase_tables and davisbase_columns hold about them             *)
(* (src/sdl/database.cpp).  The constructor opens the two schema tables,   *)
(* or creates them; createTable, removeTable and makeColumnUnique change   *)
(* files and rows one write at a time; and the process may end between any *)
(* two of these writes, or be told to when it is idle.                     *)
(*                                                                         *)
(* A schema table is a sequence of leaves, each with the rows it holds and *)
(* the slots its page has given out: a deleted row's bytes stay taken.  An *)
(* append to one of them is two steps, the row and its next_row_id; the    *)
(* page writes inside a split are TablePages' subject.                     *)
(***************************************************************************)
EXTENDS Integers, Sequences, SequencesExt

CONSTANTS
  Names,          \* names the workload gives its tables
  Columns,        \* names it gives their columns
  Definitions,    \* the column lists of its CREATE TABLE statements
  SchemaColumns,  \* schema table -> the names of its columns (5 and 7 of them)
  LeafCapacity,   \* rows that a page of a schema table has bytes for
  MaxOrdinal,     \* greatest ordinal_position a TINYINT holds (127)
  MaxLeaves       \* bound on the workload: no CREATE TABLE begins with more leaves

SchemaOrder == <<"davisbase_tables", "davisbase_columns">>
SchemaTables == ToSet(SchemaOrder)
INITIAL_ROW_ID == 1

ASSUME CatalogAssumption ==
  /\ SchemaColumns \in [SchemaTables -> Seq(STRING) \ {<< >>}]
  /\ Definitions \subseteq Seq(Columns) \ {<< >>}
  /\ LeafCapacity \in Nat \ {0}
  /\ MaxOrdinal \in Nat

VARIABLES
  files,          \* table name -> is its file "empty", or does page 0 exist ("paged")
  schema,         \* schema table -> the leaves of the file that was opened as it
  next,           \* schema table -> next_row_id_ of its Table object
  known,          \* schema table -> how many column_definitions_ that object has
  unlinked,       \* the schema tables whose file this process has removed
  pc,             \* the next write of the statement under way, "idle", or "down"
  op,             \* its table name and what it has left to write
  cursor,         \* leaf and index of removeTable's scan of davisbase_columns
  attempted,      \* history: name -> the columns its latest CREATE TABLE was to write
  created         \* history: name -> its columns, once CREATE TABLE has returned

session == <<next, known, unlinked>>
history == <<attempted, created>>
vars == <<files, schema, session, pc, op, cursor, history>>

tables == schema.davisbase_tables
columns == schema.davisbase_columns

TableRow == [row_id : Nat, table : Names \union SchemaTables, next_row_id : Nat]
ColumnRow == [row_id : Nat, table : Names \union SchemaTables,
              column : Columns \union STRING, unique : BOOLEAN]
Leaf(Row) == [rows : Seq(Row), used : 0..LeafCapacity]
EmptyLeaf == [rows |-> << >>, used |-> 0]

Rows(leaves) == FlattenSeq([i \in DOMAIN leaves |-> leaves[i].rows])

(* The rows about a table, in the order of the scan that finds them.       *)
RowsAbout(rows, name) ==
  LET found[n \in 0..Len(rows)] ==
        IF n = 0 THEN << >>
        ELSE IF rows[n].table = name THEN Append(found[n-1], rows[n]) ELSE found[n-1]
  IN  found[Len(rows)]
OfTable(name) == RowsAbout(Rows(columns), name)

(* getColumnsInfo, its modifiers reduced to the one a statement changes.   *)
ColumnsInfo(name) ==
  LET rows == OfTable(name)
  IN  [i \in DOMAIN rows |-> [column |-> rows[i].column, unique |-> rows[i].unique]]

(* Where the rows about a table are, and the one a scan meets first.       *)
At(leaves, name) ==
  {at \in (1..Len(leaves)) \X (1..LeafCapacity) :
     at[2] <= Len(leaves[at[1]].rows) /\ leaves[at[1]].rows[at[2]].table = name}
Before(a, b) == a[1] < b[1] \/ (a[1] = b[1] /\ a[2] <= b[2])
First(places) == CHOOSE at \in places : \A other \in places : Before(at, other)

(* The scans of getTable and getTableInfo. *)
HasEntry(name) == At(tables, name) # {}
Entry(name) == LET at == First(At(tables, name)) IN tables[at[1]].rows[at[2]]

(* An empty directory, and no process. *)
Init ==
  /\ files = << >>
  /\ schema = [s \in SchemaTables |-> << >>]
  /\ next = [s \in SchemaTables |-> 0]
  /\ known = [s \in SchemaTables |-> 0]
  /\ unlinked = {}
  /\ pc = "down"
  /\ op = << >>
  /\ cursor = << >>
  /\ attempted = << >>
  /\ created = << >>

-----------------------------------------------------------------------------
(* Table::appendRecord on a schema table.                                   *)

Put(function, name, value) ==
  [n \in DOMAIN function \union {name} |-> IF n = name THEN value ELSE function[n]]
Without(function, name) == [n \in DOMAIN function \ {name} |-> function[n]]

(* Mutant: the row is appended whatever its row id and its columns. *)
CanAppendAlways(s) == TRUE

(* createRowData wants one value per column; appendCell, a row id that is  *)
(* above the last one of the leaf.                                         *)
CanAppend(s) ==
  /\ known[s] = Len(SchemaColumns[s])
  /\ LET rows == Last(schema[s]).rows IN rows # << >> => Last(rows).row_id < next[s]

(* Mutant: one row more than there are bytes for. *)
AppendRowOverfull(leaves, row) ==
  IF Last(leaves).used <= LeafCapacity
  THEN [leaves EXCEPT ![Len(leaves)].rows = Append(@, row),
                      ![Len(leaves)].used = @ + 1]
  ELSE Append(leaves, [rows |-> <<row>>, used |-> 1])

AppendRow(leaves, row) ==
  IF Last(leaves).used < LeafCapacity
  THEN [leaves EXCEPT ![Len(leaves)].rows = Append(@, row),
                      ![Len(leaves)].used = @ + 1]
  ELSE Append(leaves, [rows |-> <<row>>, used |-> 1])

(* updateNextRowId: the first row about that table, if there is one. *)
StoreNext(leaves, name, row_id) ==
  IF At(leaves, name) = {} THEN leaves
  ELSE LET at == First(At(leaves, name))
       IN  [leaves EXCEPT ![at[1]].rows[at[2]].next_row_id = row_id]

(* setNextRowId of a schema table: the Table object, and the row about it. *)
CountRow(s) ==
  /\ next' = [next EXCEPT ![s] = @ + 1]
  /\ schema' = [schema EXCEPT !.davisbase_tables = StoreNext(@, s, next'[s])]

EndStatement ==
  /\ pc' = "idle"
  /\ op' = << >>
  /\ cursor' = << >>

-----------------------------------------------------------------------------
(* The start of the process: Database::initializeSchema.                    *)

BothFilesExist == SchemaTables \subseteq DOMAIN files

(* Mutant: the files that exist are opened as new ones are. *)
OpenTruncating ==
  /\ pc = "down"
  /\ BothFilesExist
  /\ op' = [left |-> SchemaOrder]
  /\ pc' = "truncate"
  /\ UNCHANGED <<files, schema, session, cursor, history>>

(* Both files exist.  A page that cannot be read, or a row that is not     *)
(* found, is an exception that nothing catches: the process stays down.    *)
OpenExisting ==
  /\ pc = "down"
  /\ BothFilesExist
  /\ \A s \in SchemaTables : files[s] = "paged" /\ HasEntry(s)
  /\ next' = [s \in SchemaTables |-> Entry(s).next_row_id]
  /\ known' = [s \in SchemaTables |-> Len(ColumnsInfo(s))]
  /\ pc' = "idle"
  /\ UNCHANGED <<files, schema, unlinked, op, cursor, history>>

(* One of them does not: both are made anew, whatever the other holds. *)
BeginBootstrap ==
  /\ pc = "down"
  /\ ~ BothFilesExist
  /\ op' = [left |-> SchemaOrder]
  /\ pc' = "truncate"
  /\ UNCHANGED <<files, schema, session, cursor, history>>

(* The next element of a loop, and the phase that follows the loop. *)
GoOn(phase, left) ==
  IF Len(op.left) > 1
  THEN op' = [left |-> Tail(op.left)] /\ UNCHANGED pc
  ELSE op' = [left |-> left] /\ pc' = phase

TruncateSchemaFile ==
  LET s == Head(op.left)
  IN  /\ pc = "truncate"
      /\ files' = Put(files, s, "empty")
      /\ schema' = [schema EXCEPT ![s] = << >>]
      /\ attempted' = Put(attempted, s, SchemaColumns[s])
      /\ GoOn("write_roots", SchemaOrder)
      /\ UNCHANGED <<session, cursor, created>>

WriteSchemaRoot ==
  LET s == Head(op.left)
  IN  /\ pc = "write_roots"
      /\ files' = Put(files, s, "paged")
      /\ schema' = [schema EXCEPT ![s] = <<EmptyLeaf>>]
      /\ next' = [next EXCEPT ![s] = INITIAL_ROW_ID]
      /\ known' = [known EXCEPT ![s] = Len(SchemaColumns[s])]
      /\ GoOn("bootstrap_tables", SchemaOrder)
      /\ UNCHANGED <<unlinked, cursor, history>>

ColumnsOf(s) ==
  [i \in DOMAIN SchemaColumns[s] |-> [table |-> s, column |-> SchemaColumns[s][i]]]

(* While bootstrapping_schema_ is set no next_row_id is stored. *)
BootstrapTableRow ==
  /\ pc = "bootstrap_tables"
  /\ schema' = [schema EXCEPT !.davisbase_tables =
                  AppendRow(@, [row_id |-> next.davisbase_tables,
                                table |-> Head(op.left), next_row_id |-> 0])]
  /\ next' = [next EXCEPT !.davisbase_tables = @ + 1]
  /\ GoOn("bootstrap_columns", ColumnsOf("davisbase_tables") \o ColumnsOf("davisbase_columns"))
  /\ UNCHANGED <<files, known, unlinked, cursor, history>>

BootstrapColumnRow ==
  /\ pc = "bootstrap_columns"
  /\ schema' = [schema EXCEPT !.davisbase_columns =
                  AppendRow(@, [row_id |-> next.davisbase_columns, table |-> Head(op.left).table,
                                column |-> Head(op.left).column, unique |-> FALSE])]
  /\ next' = [next EXCEPT !.davisbase_columns = @ + 1]
  /\ GoOn("store_entries", SchemaOrder)
  /\ UNCHANGED <<files, known, unlinked, cursor, history>>

StoreEntry ==
  LET s == Head(op.left)
  IN  /\ pc = "store_entries"
      /\ schema' = [schema EXCEPT !.davisbase_tables = StoreNext(@, s, next[s])]
      /\ IF Len(op.left) > 1 THEN GoOn("idle", << >>) ELSE op' = << >> /\ pc' = "idle"
      /\ UNCHANGED <<files, session, cursor, history>>

-----------------------------------------------------------------------------
(* CREATE TABLE: Database::createTable.                                     *)

(* Mutant: a file that exists is taken over. *)
BeginCreateAnyway(name, definition) ==
  /\ pc = "idle"
  /\ Len(tables) <= MaxLeaves /\ Len(columns) <= MaxLeaves
  /\ files' = Put(files, name, "empty")
  /\ op' = [name |-> name, columns |-> definition]
  /\ attempted' = Put(attempted, name, definition)
  /\ pc' = "write_root"
  /\ UNCHANGED <<schema, session, cursor, created>>

(* A file that exists is refused; one that does not is created. *)
BeginCreate(name, definition) ==
  /\ pc = "idle"
  /\ Len(tables) <= MaxLeaves /\ Len(columns) <= MaxLeaves
  /\ name \notin DOMAIN files
  /\ files' = Put(files, name, "empty")
  /\ op' = [name |-> name, columns |-> definition]
  /\ attempted' = Put(attempted, name, definition)
  /\ pc' = "write_root"
  /\ UNCHANGED <<schema, session, cursor, created>>

(* Table::create commits an empty leaf. *)
WriteRoot ==
  /\ pc = "write_root"
  /\ files' = Put(files, op.name, "paged")
  /\ pc' = "append_table"
  /\ UNCHANGED <<schema, session, op, cursor, history>>

AppendTableRow ==
  /\ pc = "append_table"
  /\ CanAppend("davisbase_tables")
  /\ schema' = [schema EXCEPT !.davisbase_tables =
                  AppendRow(@, [row_id |-> next.davisbase_tables, table |-> op.name,
                                next_row_id |-> INITIAL_ROW_ID])]
  /\ pc' = "count_table"
  /\ UNCHANGED <<files, session, op, cursor, history>>

CountTableRow ==
  /\ pc = "count_table"
  /\ CountRow("davisbase_tables")
  /\ pc' = "append_column"
  /\ UNCHANGED <<files, known, unlinked, op, cursor, history>>

Ordinal == Len(attempted[op.name]) - Len(op.columns) + 1

AppendColumnRow ==
  /\ pc = "append_column"
  /\ op.columns # << >>
  /\ Ordinal <= MaxOrdinal
  /\ CanAppend("davisbase_columns")
  /\ schema' = [schema EXCEPT !.davisbase_columns =
                  AppendRow(@, [row_id |-> next.davisbase_columns, table |-> op.name,
                                column |-> Head(op.columns), unique |-> FALSE])]
  /\ pc' = "count_column"
  /\ UNCHANGED <<files, session, op, cursor, history>>

CountColumnRow ==
  /\ pc = "count_column"
  /\ CountRow("davisbase_columns")
  /\ op' = [op EXCEPT !.columns = Tail(@)]
  /\ pc' = "append_column"
  /\ UNCHANGED <<files, known, unlinked, cursor, history>>

(* An ordinal that its TINYINT does not hold, a row id that a kill left    *)
(* behind, or column definitions that one left out: the exception leaves   *)
(* what was written in place.                                              *)
CreateThrows ==
  /\ \/ pc = "append_table" /\ ~ CanAppend("davisbase_tables")
     \/ /\ pc = "append_column"
        /\ op.columns # << >>
        /\ Ordinal > MaxOrdinal \/ ~ CanAppend("davisbase_columns")
  /\ EndStatement
  /\ UNCHANGED <<files, schema, session, history>>

CreateReturns ==
  /\ pc = "append_column"
  /\ op.columns = << >>
  /\ created' = Put(created, op.name,
                    [i \in DOMAIN attempted[op.name] |->
                       [column |-> attempted[op.name][i], unique |-> FALSE]])
  /\ EndStatement
  /\ UNCHANGED <<files, schema, session, attempted>>

-----------------------------------------------------------------------------
(* DROP TABLE: Database::removeTable.                                       *)

(* Mutant: the count is decremented, the gap not closed. *)
DeleteLastOf(leaves, at) == [leaves EXCEPT ![at[1]].rows = Front(@)]

(* Page::deleteRecord. *)
DeleteAt(leaves, at) == [leaves EXCEPT ![at[1]].rows = RemoveAt(@, at[2])]

(* Mutant: the file goes first. *)
BeginDropRemovingFile(name) ==
  /\ pc = "idle"
  /\ name \in DOMAIN files
  /\ op' = [name |-> name]
  /\ created' = Without(created, name)
  /\ files' = Without(files, name)
  /\ pc' = "drop_table"
  /\ UNCHANGED <<schema, session, cursor, attempted>>

(* A file that is not there is an error; then the statement is past its    *)
(* checks.                                                                 *)
BeginDrop(name) ==
  /\ pc = "idle"
  /\ name \in DOMAIN files
  /\ op' = [name |-> name]
  /\ created' = Without(created, name)
  /\ pc' = "drop_table"
  /\ UNCHANGED <<files, schema, session, cursor, attempted>>

(* The scan of davisbase_tables deletes one row, if there is one, and ends *)
(* by returning the cell count.                                            *)
DropTableRow ==
  /\ pc = "drop_table"
  /\ schema' = [schema EXCEPT !.davisbase_tables =
                  IF At(@, op.name) = {} THEN @ ELSE DeleteAt(@, First(At(@, op.name)))]
  /\ cursor' = <<1, 1>>
  /\ pc' = "drop_columns"
  /\ UNCHANGED <<files, session, op, history>>

ColumnRowsAhead == {at \in At(columns, op.name) : Before(cursor, at)}

(* Mutant: the index moves on past the slot that took the deleted one's place. *)
DropColumnRowSkipping ==
  /\ pc = "drop_columns"
  /\ ColumnRowsAhead # {}
  /\ schema' = [schema EXCEPT !.davisbase_columns = DeleteAt(@, First(ColumnRowsAhead))]
  /\ cursor' = <<First(ColumnRowsAhead)[1], First(ColumnRowsAhead)[2] + 1>>
  /\ UNCHANGED <<files, session, pc, op, history>>

(* The scan of davisbase_columns goes on from the slot it has deleted,     *)
(* where the next row is now.                                              *)
DropColumnRow ==
  /\ pc = "drop_columns"
  /\ ColumnRowsAhead # {}
  /\ schema' = [schema EXCEPT !.davisbase_columns = DeleteAt(@, First(ColumnRowsAhead))]
  /\ cursor' = First(ColumnRowsAhead)
  /\ UNCHANGED <<files, session, pc, op, history>>

(* Mutant: the file is only removed while its entry is there. *)
RemoveFileOfEntry ==
  /\ pc = "drop_columns"
  /\ ColumnRowsAhead = {}
  /\ HasEntry(op.name)
  /\ files' = Without(files, op.name)
  /\ EndStatement
  /\ UNCHANGED <<schema, session, history>>

(* A schema table is not refused: the open stream keeps what it has, but   *)
(* no later process finds it.                                              *)
RemoveFile ==
  /\ pc = "drop_columns"
  /\ ColumnRowsAhead = {}
  /\ files' = Without(files, op.name)
  /\ unlinked' = unlinked \union ({op.name} \intersect SchemaTables)
  /\ EndStatement
  /\ UNCHANGED <<schema, next, known, history>>

-----------------------------------------------------------------------------
(* CREATE INDEX, and the end of the process.                                *)

(* makeColumnUnique, once CreateIndexCommand has found the table, the      *)
(* column, and no value twice: one updateRecord of the first row that      *)
(* names both.                                                             *)
MakeColumnUnique(name, column) ==
  LET places == {at \in At(columns, name) : columns[at[1]].rows[at[2]].column = column}
  IN  /\ pc = "idle"
      /\ HasEntry(name) /\ name \in DOMAIN files /\ files[name] = "paged"
      /\ places # {}
      /\ schema' = [schema EXCEPT !.davisbase_columns
                      [First(places)[1]].rows[First(places)[2]].unique = TRUE]
      /\ created' = IF name \notin DOMAIN created THEN created
                    ELSE [created EXCEPT ![name] =
                            [@ EXCEPT ![CHOOSE i \in DOMAIN @ :
                                          /\ @[i].column = column
                                          /\ \A j \in 1..i-1 : @[j].column # column].unique = TRUE]]
      /\ UNCHANGED <<files, session, pc, op, cursor, attempted>>

(* What a later process finds under the name of a schema table: the file   *)
(* this one had open, or a table of that name that was created after it    *)
(* was removed.                                                            *)
OnDisk(s) ==
  IF s \notin unlinked THEN schema[s]
  ELSE IF s \in DOMAIN files /\ files[s] = "paged" THEN <<EmptyLeaf>> ELSE << >>

(* The tables of a process that has removed a schema table end with it.    *)
End ==
  /\ schema' = [s \in SchemaTables |-> OnDisk(s)]
  /\ next' = [s \in SchemaTables |-> 0]
  /\ known' = [s \in SchemaTables |-> 0]
  /\ unlinked' = {}
  /\ pc' = "down"
  /\ op' = << >>
  /\ cursor' = << >>
  /\ created' = IF unlinked = {} THEN created ELSE << >>
  /\ UNCHANGED <<files, attempted>>

Exit == pc = "idle" /\ End

(* Killed between two writes. *)
Kill == pc \notin {"idle", "down"} /\ End

StatementStep ==
  \/ WriteRoot
  \/ AppendTableRow
  \/ CountTableRow
  \/ AppendColumnRow
  \/ CountColumnRow
  \/ CreateThrows
  \/ CreateReturns
  \/ DropTableRow
  \/ DropColumnRow
  \/ RemoveFile

Start ==
  \/ OpenExisting
  \/ BeginBootstrap
  \/ TruncateSchemaFile
  \/ WriteSchemaRoot
  \/ BootstrapTableRow
  \/ BootstrapColumnRow
  \/ StoreEntry

Next ==
  \/ \E name \in Names, definition \in Definitions : BeginCreate(name, definition)
  \/ \E name \in Names : BeginDrop(name)
  \/ \E name \in Names, column \in Columns : MakeColumnUnique(name, column)
  \/ StatementStep
  \/ Start
  \/ Exit

Spec == Init /\ [][Next]_vars
FairSpec == Spec /\ WF_vars(StatementStep)
CrashSpec == Init /\ [][Next \/ Kill]_vars

-----------------------------------------------------------------------------
(* Correctness.                                                             *)

BootstrapPhases == {"truncate", "write_roots", "bootstrap_tables", "bootstrap_columns",
                    "store_entries"}
DropPhases == {"drop_table", "drop_columns"}
CreatePhases == {"write_root", "append_table", "count_table", "append_column", "count_column"}

TypeOK ==
  /\ files \in [DOMAIN files -> {"empty", "paged"}]
  /\ DOMAIN files \subseteq Names \union SchemaTables
  /\ DOMAIN schema = SchemaTables
  /\ tables \in Seq(Leaf(TableRow))
  /\ columns \in Seq(Leaf(ColumnRow))
  /\ next \in [SchemaTables -> Nat]
  /\ known \in [SchemaTables -> Nat]
  /\ unlinked \subseteq SchemaTables
  /\ pc \in {"down", "idle"} \union BootstrapPhases \union DropPhases \union CreatePhases
  /\ pc \in BootstrapPhases => DOMAIN op = {"left"} /\ op.left # << >>
  /\ pc \in DropPhases => op \in [name : Names]
  /\ pc \in CreatePhases => op \in [name : Names, columns : Seq(Columns)]

(* The names that the rows of a schema table are about.                    *)
NamesIn(leaves) ==
  {leaves[at[1]].rows[at[2]].table :
     at \in {at \in (1..Len(leaves)) \X (1..LeafCapacity) : at[2] <= Len(leaves[at[1]].rows)}}

(* At every instant, between two processes included, a row names a table   *)
(* whose file exists: createTable makes the file before the rows,          *)
(* removeTable removes it after them.  So getTable never finds an entry    *)
(* without a file (database.cpp:315), and a table that is only half there  *)
(* can still be dropped, which starts from the file.                       *)
RowsHaveFiles == NamesIn(tables) \union NamesIn(columns) \subseteq DOMAIN files

(* No two rows of davisbase_tables name the same table: getTableInfo,      *)
(* updatePageCount and updateNextRowId stop at the first.                  *)
OneEntry ==
  \A name \in NamesIn(tables) : \A p, q \in At(tables, name) : p = q

(* A table whose CREATE TABLE returned and that no DROP TABLE has touched  *)
(* has a file with a page, a row in davisbase_tables, and in               *)
(* davisbase_columns exactly its columns, in order, with the indexes made  *)
(* since: whatever else is created, dropped, refused or interrupted.       *)
CreatedTablesAreWhole ==
  \A name \in DOMAIN created :
    /\ name \in DOMAIN files /\ files[name] = "paged"
    /\ HasEntry(name)
    /\ ColumnsInfo(name) = created[name]

ColumnNames(name) == LET info == ColumnsInfo(name) IN [i \in DOMAIN info |-> info[i].column]

(* However CREATE TABLE and DROP TABLE were interrupted, the columns found *)
(* for a name are consecutive ones of a single CREATE TABLE statement, the *)
(* latest: the definitions of two tables of the same name never mix.       *)
NoMixedDefinition ==
  \A name \in Names : ColumnNames(name) # << >> =>
    /\ name \in DOMAIN attempted
    /\ \E from, to \in DOMAIN attempted[name] :
         ColumnNames(name) = SubSeq(attempted[name], from, to)

(* docs/example.md:6-9 creates a table where getTable finds none.          *)
NoEntryMeansNoFile ==
  pc = "idle" => \A name \in Names : ~ HasEntry(name) => name \notin DOMAIN files

(* What OpenExisting needs. *)
WouldOpen ==
  /\ unlinked = {}
  /\ \A s \in SchemaTables : s \in DOMAIN files /\ files[s] = "paged" /\ HasEntry(s)

(* A database that a process could open stays one, whatever is created,    *)
(* refused, interrupted or restarted, until a DROP TABLE names a schema    *)
(* table: main, which does not catch what the constructor throws, would    *)
(* end at once each time from then on.                                     *)
StaysOpenable ==
  [][WouldOpen => WouldOpen' \/ (pc = "drop_table" /\ op.name \in SchemaTables)]_vars

(* A kill while the schema tables are made may leave a database that opens *)
(* and lacks some of their rows.  It never accepts a table: CREATE TABLE   *)
(* returns only where all of them were written, and a next_row_id stored   *)
(* that a later process can append from.                                   *)
CreateReturnsOnWholeSchema ==
  [][\A name \in DOMAIN created' \ DOMAIN created : unlinked = {} =>
       \A s \in SchemaTables :
         /\ HasEntry(s)
         /\ \A i \in DOMAIN Rows(schema[s]) : Rows(schema[s])[i].row_id < Entry(s).next_row_id
         /\ ColumnNames(s) = SchemaColumns[s]]_vars

(* A DROP TABLE that begins gets to remove the file, through whatever rows *)
(* there are.                                                              *)
DropRemovesFile ==
  \A name \in Names : pc = "drop_table" /\ op.name = name ~> name \notin DOMAIN files

(* Between statements the directory is a TableDirectory; a table counts    *)
(* from the return of its CREATE TABLE to the beginning of its DROP TABLE, *)
(* across processes.                                                       *)
Directory == INSTANCE TableDirectory WITH
  definition <- [name \in (DOMAIN files \ SchemaTables)
                            \ (IF pc \in DropPhases \union CreatePhases THEN {op.name} ELSE {})
                  |-> ColumnsInfo(name)]
ImplementsTableDirectory == Directory!Spec
=============================================================================
