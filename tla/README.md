# white-davisbase in TLA+

white-davisbase is an SQL shell in C++17 that keeps each table in a file of its
own, a B+-tree of 512-byte pages. This directory holds TLA+ modules that model
its storage and its statements, TLC configurations that check them on small
instances, and TLAPS proofs of what matters most for every instance.

Paths below are relative to the repository (`src/sdl/table.cpp` is
`src/src/sdl/table.cpp` in `PROJECT.json`, where `src/` is the repository).

## The system

One process, one thread. `main` reads a line, parses it, executes it, prints
what it throws, and reads the next one. There is no concurrency, no log, no
transaction and no locking; what makes the code hard is that a statement is
many writes, any of which may be the last, and that pages, counts and column
definitions are cached in objects that outlive the read that filled them.

| component | source | state | operations |
|---|---|---|---|
| table pages | `src/sdl/table.*`, `page.*`, `table_leaf_page.cpp`, `table_interior_page.cpp` | the file: page 0 the root, leaves chained by right sibling, interior pages with a rightmost child; `Table` objects with cached `page_count`, `next_row_id` and a stream | `appendRecord` (split of leaf, interior page, root), `deleteRecord`, `updateRecord`, scans |
| catalog | `src/sdl/database.*` | the directory of files; `davisbase_tables` (root, page count, next row id, page length of each table) and `davisbase_columns` (one row per column), tables like any other | the constructor (open or bootstrap), `createTable`, `getTable`, `removeTable`, `makeColumnUnique`, `updatePageCount`, `updateNextRowId` |
| statements | `src/ast.*` | none of its own: a statement opens the table, checks, scans | CREATE TABLE, DROP TABLE, INSERT, DELETE, UPDATE, CREATE INDEX, SELECT, SHOW TABLES |
| column values, cell format | `src/sdl/column_value.*`, `table_leaf_page.cpp:7-236`, `src/common.hpp` | none | conversion of literals, comparison, type codes and bytes of a cell |
| parser | `src/parser.*` | none | a line to a `Command` |
| shell | `src/main.cpp` | the `Database` object | the loop |

How they interact: a statement calls `Database::getTable`, which scans the two
schema tables and constructs a `Table`; the statement scans it with a callback
(`mapOverRecords`) that may delete or update the row it is given, and whose
return value may set the index of the loop that called it. An append goes down
the tree by recursive calls that hold copies of the pages, commits pages on the
way up, and calls back into the database to store `page_count` and
`next_row_id` in the table's row of `davisbase_tables`. The two schema tables
are `Table` objects that live as long as the process; `davisbase_tables` keeps
its own row in its own file, so an append to it updates the file it appends to.

What makes each part correct, and where it is hard:

* *table pages*: layout (slots never meet cells), pointers never leave the
  file, tree and sibling chain agree, row ids ascend, rows are neither lost nor
  repeated, a split takes an unused page number; against copies that go stale,
  counts that lag behind the file, and a kill between two writes.
* *catalog*: rows and files belong together, an entry is single, the columns
  of a table are those of its CREATE TABLE, a database that opens once keeps
  opening; against a kill or an exception half way, scans that delete
  under their own index, and statements that name the schema tables.
* *statements*: NOT NULL and uniqueness, each row treated exactly once, nothing
  written beyond a cell, every row read back as it was written; against
  conditions and values that throw in the middle of a scan.

What the code does in some of these cases surprises, and the properties say
how far the damage goes:

* A kill while an empty directory is initialised leaves one of three things:
  an empty file, which every later start throws at (`Table::getPage` at end of
  file, which `main` does not catch); schema tables without the entry it looks
  for, the same; or a database that opens, but whose `next_row_id` is 0 or whose
  column definitions are incomplete, and then every CREATE TABLE throws.
  `CreateReturnsOnWholeSchema` says that this is all: such a database accepts no
  table.
* `DROP TABLE davisbase_columns` is not refused. The process goes on with the
  removed file; the next start finds one schema file missing and truncates the
  other. `StaysOpenable` says that nothing else makes a database that opened
  stop opening.
* A TEXT of 244 bytes or more wraps its type code. Most lengths read back as
  another type or a shorter TEXT; those of 251 and 253 bytes have no type at all,
  and then every scan of the table throws at the row. `UnreadableRowFreezes` says
  what is left of such a table: no INSERT, no index, and the row stays for good.

`PROJECT.json` lists every hazard with its line and the properties aimed at it.

## Modules

| module | models | checked by | proofs |
|---|---|---|---|
| `PageLayout` | the bytes of a page: header, slot array, content area, room, append, delete, child by row id | through TablePages | `TablePagesProofs` |
| `TablePages` | one table file, its catalog row, its `Table` objects; each page or catalog write of an append is an action | `MCTablePages` | `TablePagesProofs`, `TablePagesScanProofs`, `TablePagesTreeProofs`, `TablePagesCrashProofs` |
| `RecordStore` | abstract: a list of rows in id order and the next id | refined by TablePages | `TablePagesScanProofs` |
| `Catalog` | directory, schema tables, the process that opens or makes them; each write of the bootstrap, CREATE TABLE and DROP TABLE is an action | `MCCatalog` | `CatalogProofs`, `CatalogColumnsProofs` |
| `TableDirectory` | abstract: names to column lists | refined by Catalog | `CatalogColumnsProofs` |
| `CellFormat` | type codes and widths of the values in a cell, written and read back | through Statements | `StatementsProofs` |
| `Statements` | INSERT, SELECT, DELETE, UPDATE, CREATE INDEX row by row on one table | `MCStatements` | `StatementsProofs` |
| `SequenceFacts` | nothing: facts about sequences that the proofs need and the library does not state | | itself |

The three state machines meet in what they leave to each other. `Statements`
and `Catalog` see a table as leaves of rows: how an append or a delete gets
there is `TablePages`' subject, and its `ImplementsRecordStore` is what the two
rely on. `TablePages` sees its row of `davisbase_tables` as the variable
`entry`, updated in one step: `updateRecord` of one page.

### TablePages

`file` maps page numbers to pages, `entry` is the catalog row, `table` the
`Table` objects, `frames` the `Page` objects on the call stack, `split` the
page that a split returns to its caller, `pc` the next write. The actions of an
append, in the order of the code: `BeginAppend` (getTable), `Descend` (getPage,
once per level), `LeafThrows` / `LeafAppend` / `SplitLeaf`, `Relink` and
`CountSplit` (commit of the page that was split, setPageCount), then in the
caller `AbsorbSplit` or `SplitInterior`, or `MoveRoot`, `NewRoot` and
`CountRoot` at the root, and `Finish` (setNextRowId). `ReadFails` is an exception
in getPage, with the fail bit it leaves on the stream. `Delete` is one
deleteRecord. `Crash` ends the statement and reopens the tables from disk.

`Handles` are the `Table` objects, `Schema` those that stay open: with
`Schema = {}` each statement opens its own, as for user tables; with a member,
the module also shows what happens to a schema table. `SelfDescribing` makes the
file that of `davisbase_tables`: its `entry` is a row in its own first leaf, so
when that leaf is the root and splits, the copy that becomes the new page holds
the row as it was when the append began (`op.own`), and `NewRoot` undoes the
counts stored since. `live` is a history variable. Deleted cells keep their bytes
(`content` never rises), as in the code.

Left out: the bytes of a cell (its length stays), torn page writes (a page
write is atomic here), I/O errors while writing, `page_no * page_length`
beyond 2 GiB, the page length of a table differing from the default.

### Catalog

`files` says whether a table's file is there and has its page 0; `schema` holds
the leaves of the two schema tables with the slots each page has given out
(`tables` and `columns` for short); `next` and `known` are the `next_row_id` of
their `Table` objects and the number of their column definitions; `unlinked`
the schema tables whose file this process has removed under its own stream.

The process is `down` until it starts. `OpenExisting` needs both files, a page in
each and an entry for each; without both files, `BeginBootstrap` makes both
anew: `TruncateSchemaFile` and `WriteSchemaRoot` for each, `BootstrapTableRow` and
`BootstrapColumnRow` for each row, `StoreEntry` for each row id. `Exit` ends the
process between statements and `Kill` between two writes; `OnDisk` is what the
next one finds. CREATE TABLE is `BeginCreate` (exists check, open_new_file),
`WriteRoot`, `AppendTableRow`, `CountTableRow`, then `AppendColumnRow`,
`CountColumnRow` for each column, and `CreateReturns`, or `CreateThrows` for an
ordinal that is no TINYINT, a row id that decreases, or a schema table that does
not know all its columns. DROP TABLE is `BeginDrop`, `DropTableRow` (its scan stops
after one row, since it returns the cell count), `DropColumnRow` for each row its
scan comes to, and `RemoveFile`. CREATE INDEX is `MakeColumnUnique`. `attempted` and
`created` are history variables.

The page writes inside a split of a schema table are one step here, `TablePages`
takes them apart.

### Statements

`leaves` holds the rows in scan order; each row has its id, its values and
`room`, the payload length its cell was given. `unique` is what
`davisbase_columns` says, `stmt` and `cursor` the scan under way, `before` a
history variable. A statement that is refused before its first write
is a stuttering step. `BeginSelect`, `BeginDelete` and `BeginUpdate` are the checks
up to the scan, `PassRow`, `ShowRow`, `DeleteRow`, `UpdateRow` and `RowThrows` the visit
of a row, `NextLeaf` and `ScanEnds` the loop over leaves; `Insert` and `CountRow` are
the append and its row id.

Values are numbers of digits: k stands for the literal of k ones (1, 11, 111,
...), quoted where it is longer than a number can be. Such literals compare
alike in all ten column types and take the width of the type, or k bytes as
a TEXT; beyond the digits a type holds, the conversion throws. So NULLs, growth,
shrinkage, order and failing conversions all occur with three or four literals,
and a literal of 251 or 253 ones is a TEXT that cannot be read back. A condition
or an assignment names a column by its name, and a table may have a name twice:
SELECT, SET and CREATE INDEX resolve it to the first (`FirstNamed`), the WHERE of
DELETE and UPDATE to the last (`LastNamed`). DEFAULT and AUTO_INCREMENT are parsed
and ignored by the code.

Left out: literals that one type converts or compares in another way than the
rest (a date is not a number of ones); TEXTs of 244 bytes or more that do read
back, wrongly (`ReadsBackExactly` of `StatementsProofs` says which those are).

## Runs

A run whose configuration says `CHECK_DEADLOCK FALSE` may stop because its
workload is bounded (`MaxRowId`, `MaxPages`, `MaxLeaves` end the inserts); the
program itself never deadlocks, it waits for a line.

| run | what it asks | bounds |
|---|---|---|
| `pages_deep` | appends only: layout, pointers, order, allocation, copies, tree = chain, every append ends | 28-byte pages hold one or two cells, so a few rows make three levels and split every kind of page |
| `pages_mixed` | the file of `davisbase_tables`, appends and deletes: every scan shows the live rows, its own row catches up with what was counted; implements `RecordStore` | 33-byte pages, two cell lengths, 10 rows, three of them deletable: first, middle and last of a leaf |
| `pages_crash` | a kill between any two writes: layout, pointers, acknowledged rows | 33-byte pages, 6 rows, no DELETE (see below) |
| `pages_damaged` | kills, then deletes and appends on the damaged file: pointers, termination | 28-byte pages, 3 rows |
| `insert_after_crash` | *violated*: the "decreasing row_id" logic_error after a kill | |
| `insert_by_two_tables` | *violated*: the same without a kill, by INSERT INTO davisbase_columns | |
| `catalog_whole` | the bootstrap, then statements in one process or several, no kills: implements `TableDirectory`; a drop reaches the file | two names, a definition of one column and one with a name twice, 3 rows a leaf |
| `catalog_crash` | kills anywhere, the bootstrap included, ordinals out of range, DROP of a schema table: rows have files, single entries, whole tables, unmixed definitions, a database stays openable, half a bootstrap accepts no table | names t1 and `davisbase_columns`, 3 rows a leaf, ordinals up to 2 |
| `create_after_crash` | *violated*: no entry means no file | |
| `statements_mixed` | each scan has shown or changed exactly what it should of what it has passed; rows stay in their cells; uniqueness; statements end | a TEXT and a SMALLINT NOT NULL of the same name, 3 rows in 2 leaves, literals NULL, 1, 11, `=` and `<=` |
| `statements_crash` | kills, partial column lists, literals out of range, unreadable rows: NOT NULL, effects, reading back, uniqueness | TEXT NOT NULL and DATE, literals NULL, 1, 11 and one of 251 digits, a row a leaf, `<` and `>=` |
| `update_unique` | *violated*: unique columns have no duplicates | |

Small pages are enough because the code compares lengths and counts only: a
page of 28 or 33 bytes takes the same branches as one of 512, sooner. Two names
(`catalog_whole`) are enough for a table to be disturbed by another and to be
created again after a drop; in `catalog_crash` the second is that of a schema
table, so that the workload drops one and creates a table in its place. The schema tables have 1 and 2 columns there instead
of 5 and 7: every phase of the bootstrap has a first write and a last, and their
rows still fill more than one leaf. Three rows in two leaves give a scan a
neighbour to skip, a leaf to enter empty and one to leave; one row a leaf makes
every INSERT open a new leaf, where an unreadable row ends it half way.

`pages_crash` deletes nothing because `AckedRowsSurvive` needs that: a row whose
INSERT was killed after `commitPage` of the new root and before `setPageCount` is
in the file, and the next id and the page count do not know of it. A DELETE that
removes this row, which nobody was told of, lets the next append reach the leaf
again instead of failing; its split takes the uncounted number and writes over
the page that holds the old root, with the acknowledged rows below it. With
`Deletable = {1, ..., 6}` TLC finds such a behaviour. DELETEs of acknowledged rows do
no such harm, as `AckedRowsStay` proves (see Proofs).

What the violated runs show (`findings` in `PROJECT.json` quotes the lines):

1. A kill between the commit of a leaf and `updateNextRowId` makes the table
   refuse every later INSERT with a logic_error that the code takes to be
   impossible.
2. `INSERT INTO davisbase_columns` does the same to CREATE TABLE, without a kill.
3. A kill inside CREATE TABLE or DROP TABLE leaves a file that `getTable` does not
   know and `createTable` refuses, so the pattern of `docs/example.md` fails for
   good. (`DROP TABLE` of that name does repair it: it starts from the file, and
   `RowsHaveFiles` says that it always can.)
4. UPDATE of a unique column with a condition that selects two rows leaves a
   duplicate. `UniqueLostBySecondMatch` says this is the only way.

That CREATE INDEX makes a column unique whether UNIQUE was asked for or not needs
no run: `CreateIndex` has no such input.

Fairness: `FairSpec` and `FairCrashSpec` assume weak fairness of the steps of the
statement under way and of nothing else: the loop in `main` executes a command
to its end, and no statement waits for anything. That a user types, that the
process is started, and that a crash happens, is never assumed.

## Proofs

The theorems about `TablePages` hold for every page length the assumption of
`PageLayout` admits and every set of cell lengths; all theorems leave the bounds
on the workload (`MaxRowId`, `MaxPages`, `MaxLeaves`) open, they may be any value.

* `TypeCorrect` (`TablePagesProofs`): `CrashSpec => []TypeOK`. `TypeOK` is inductive as
  it stands; it says besides types that a write under way has the frame and
  the split page it needs.
* `LayoutCorrect`: `CrashSpec => []SlotsBelowCells`. The invariant is strengthened by
  the same fact about every page copy on the call stack (a copy becomes a page
  when it is committed) and by what pages in hand have room for; a new
  interior page has room for one cell by `PageLengthAssumption`. It holds for
  several `Table` objects and with crashes, where stale copies and counts do
  occur: the layout depends on neither.
* `AppendIsInOrder`, `AppendAllocates` and `OwnRowCatchesUp`: with one `Table` object at
  a time (`OneTableObject`) and without crashes, `NoDecreasingRowId`,
  `AllocatesFreshPage` and `OwnRowIsCurrent`, in the file of `davisbase_tables` as in
  any other. One invariant, `CountInv`: the opened table agrees with `entry`, all
  pages are numbered below the page count (one more while a split is being
  counted), all row ids in the file and in the copies are below the next one
  until the append has written its row. The two violated runs show that both
  hypotheses are needed.
* `PointersStayInFile`: with `OneTableObject` and crashes, `NoDanglingPage`. `PointersInv`
  adds that the pointers of page copies point into the file as well, and that
  the split page is on disk before anyone holds its number; which is what the
  order "new page first, pointer after" in the code gives.
* `CopiesStayCurrent` (second half of `TablePagesProofs`), under the hypotheses of `AppendIsInOrder`:
  `CopiesAreCurrent`. `RightInv` follows the right pointers from the root to the last
  leaf; while a split is not absorbed the tree has no such path, and it begins at
  the page that was split off. The frames on the call stack are distinct pages
  down that path, or down the one that was broken off, and each is what the file
  has, so no write can hit a page that another frame holds.
* `ScansShowLiveRows` and `TableIsRecordStore` (`TablePagesScanProofs`): `ScanShowsLiveRows`
  and the refinement of `RecordStore`. `ChainInv` adds the path of first children and
  the chain of leaves from its end to that of the right path; along the chain row
  ids ascend, and the ids found are those of `live`, and that of the row being
  appended from the write on that puts its leaf into the chain. So a scan has every
  row once and in order. Each write is then an insert, a delete, the use of an id
  in `RecordStore`, or invisible there.
* `ScansFollowTree` (`TablePagesTreeProofs`): `ChainIsTree`. `TreeInv` numbers the leaves in
  the order of the tree and gives every page a span of numbers and a height: an
  interior page spans what its children span, one behind the other. The pages
  under the cells of interior pages are closed, no append changes them any more;
  the open ones are the path to the last leaf. Of an append that is splitting
  pages, the frames stand behind what the frame above has under its cells, and
  the page split off behind the last of them.
* `AckedRowsStay` and `InsertedRowsStay` (`TablePagesCrashProofs`): with `OneTableObject` and
  kills between any two writes, `[]AckedRowsSurvive`; the first for workloads in which
  each DELETE removes rows whose INSERT has returned (`DeletesAcked`), the second
  for those without a DELETE, of which `pages_crash` is one. After a kill tree and
  chain need not agree, and neither the page count nor the next row id is what the
  file says: a kill breaks both `CountInv` and `ChainInv`. `KillInv` says what holds.
  The acknowledged rows are in a line of leaves, each the right sibling of the one
  before, that begins at the leftmost leaf; where its last leaf goes on to does not
  matter. And one of two: the way of an append ends at the last leaf of the line,
  whose rows are all older than the next id, and every page number from the page
  count on is free, so that a split overwrites nothing; or the table is shut, since
  the way ends at a leaf that has the next id already, or at an interior page
  without a rightmost child, and no append gets to a write. While a split is under
  way, the half that moves is a path of its own, to a leaf with the new row, on
  pages that nobody else points to. A row that was never acknowledged keeps the
  table shut, which is why its DELETE is excluded.
* `ReadsBackExactly` (`StatementsProofs`): a field of any type, a TEXT of any length,
  comes back from its type code if and only if it is not a TEXT of 244 bytes or
  more. It needs no state: codes below 12 are distinct, those from 12 to 255
  give the length, and the sum of a longer one has lost it.
* `TypeCorrect`, `NotNullKept`, `UpdatesStayInTheirCells` and `RowsComeBack`
  (`StatementsProofs`): `CrashSpec` implies that `TypeOK`, `NotNullHolds`, `RowsFitTheirCells`
  and `RowsReadBack` always hold, for every table definition, workload and leaf
  capacity, with the literals of `StatementsAssumption`. One invariant carries all four,
  `StoredInv`: every row in the table is one that `StoredData` admits, with a payload
  within its room, and the value that an UPDATE has checked is still the one it
  is about to store. The row an INSERT builds is typed by the last position that
  lists a column, which exists because positions are finitely many; the
  payload length is typed through the fold over a finite set of columns.
* `ScansTreatRowsOnce`, `UnreadableRowsFreeze` and `UniqueLostOnlySo` (second half of
  `StatementsProofs`): `EffectSoFar`, `UnreadableRowFreezes` and
  `UniqueLostBySecondMatch`. The invariant compares the table with `before` place by
  place: rows ahead of the cursor are untouched, those behind it are what the
  statement makes of them, and what a DELETE has taken out shifts the rest of
  the leaf to the cursor. With `OrderInv`, row ids ascend and an unreadable row is the
  last of the table, because an INSERT would have had to read it; `Matched` says
  that an UPDATE whose value is taken in a unique column has passed a row it
  selected.
* `TypeCorrect`, `RowsKeepTheirFiles`, `EntriesStaySingle` and `OpenableStays`
  (`CatalogProofs`): `CrashSpec` implies `[]TypeOK`, `[]RowsHaveFiles`, `[]OneEntry` and
  `StaysOpenable`, for all names, among them those of the schema tables, all
  definitions and every leaf capacity. The first half of the module is about
  leaves: where an append, an update and a delete leave the rows, and that the
  first of some places exists. `CatalogInv` says besides `RowsHaveFiles` and
  `OneEntry`: a CREATE TABLE before its row finds none, a DROP TABLE past its
  first scan has left none and has all column rows ahead of its cursor, a schema
  table that is open has a leaf, and how far the bootstrap has come; without the
  last, a bootstrap could undo a database that opens.
* `DefinitionsDoNotMix` and `TablesStayWhole` (`CatalogColumnsProofs`): `CrashSpec` implies
  `[]NoMixedDefinition` and `[]CreatedTablesAreWhole`. The rows found for a name are a
  sequence, so the first part of the module says what an append, a removal and a
  change somewhere in the leaves do to the sequences found for this name and for
  the others. `ColumnsInv`: the columns found for a name, followed by those still to
  be written, are the latest definition that named it; a DROP TABLE takes the
  first away each time, so what it leaves is a consecutive piece. `CreatedInv`: each
  created table is whole, the table of the statement under way is not among them,
  and there are none while the schema tables are made.
* `CreateNeedsWholeSchema` (`CatalogColumnsProofs`): `CrashSpec => CreateReturnsOnWholeSchema`.
  `SchemaInv` says what a start can find. A schema table refuses rows, because its
  last row is not below the `next_row_id` stored (and then it has no row of another
  table yet) or because its columns are not all there; or it is sound, but for a last
  row that a kill left uncounted. What a process knows of the two tables is what
  they hold, until it drops one of them; and a CREATE TABLE gets past each of its
  writes only on a sound table. The bootstrap stores the row ids last, so while it
  is under way every table with a row refuses.
* `CatalogIsDirectory` (`CatalogColumnsProofs`): `Spec => ImplementsTableDirectory`, for names
  other than those of the schema tables and definitions no longer than `MaxOrdinal`;
  with a longer one CREATE TABLE throws half way, and its file stays. `OrderInv`: once the
  bootstrap is done both schema tables are whole, but for the row that an append has
  not counted yet, so no CREATE TABLE throws; and every file besides theirs belongs to
  a created table or to the statement under way. With `TablesStayWhole` the tables
  found in the catalog are those created, and each change of them is a step of
  `TableDirectory`.

The proofs avoid what the provers cannot do: induction over data is done with
`FirstPosition` of `SequenceFacts` (the first place where something fails, from the
well-founded order of the numbers), and `FlattenSeq`, a recursive function, by the
equations of that function. Operators of the community modules that are defined
with `RECURSIVE` are not used by the modules the theorems are about.

Only model-checked:

* liveness (TLAPS has no ENABLED here): `AppendTerminates`, `DropRemovesFile`,
  `StatementEnds`. `AppendTerminates` also asks whether an append comes to an end on the
  pages that kills have left.

All other invariants and action properties of the passing runs have a theorem.

## Not modelled

* The parser: a pure function from a line to a `Command`, with tests of its own.
  The models begin with the `Command`.
* Printing, prompts, formatting helpers, byte order.
* Torn writes and I/O errors while writing: the code checks no stream after a
  write, and a page write is atomic here.
* `page_no * page_length` from 2 GiB on, and payloads of 64 KiB, whose 16-bit length
  wraps: the code then writes outside its buffer, which no state of a model
  describes. Both are hazards without a property in `PROJECT.json`.
* Literals that one type compares or converts in another way than the others
  (dates, times, fractions).
* INSERT, DELETE and UPDATE of the two schema tables as if they were user tables,
  which the code does not refuse: they can write or remove any row there, so the
  properties of `Catalog` are about a catalog that only CREATE TABLE, DROP TABLE
  and CREATE INDEX change. What an INSERT does to the row ids is
  `insert_by_two_tables`.
* Page lengths other than the default in `davisbase_tables`: no statement sets one.

## Plan

1. Done: `PageLayout`, `TablePages`, `RecordStore` and their proofs; `Catalog` with the
   bootstrap, `TableDirectory`; `CellFormat` and `Statements` with all column types, and
   their proofs.
2. Done: theorems for the invariants the runs check, for every value of the
   constants; what is left is under "Only model-checked".
3. Done: `AckedRowsSurvive`, whatever kills have left of the tree, for every workload
   whose DELETEs are of acknowledged rows.
