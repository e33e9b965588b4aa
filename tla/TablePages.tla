----------------------------- MODULE TablePages -----------------------------
(***************************************************************************)
(* One table file of davisbase: its pages on disk, the catalog row that    *)
(* says how many pages it has and which row id comes next, the Table       *)
(* objects that cache that row, and the appends, deletes and crashes that  *)
(* change them (src/sdl/table.cpp, table.hpp, page.cpp,                    *)
(* table_leaf_page.cpp, table_interior_page.cpp).                          *)
(*                                                                         *)
(* The file is a B+-tree of row ids whose root is always page 0.  An       *)
(* append reads the pages on the rightmost path into memory, and writes    *)
(* what it changes one page or one catalog row at a time.  Every such      *)
(* write is a step of its own here, because the process may die after any  *)
(* of them and because a reader that opens the file sees all of them.      *)
(***************************************************************************)
EXTENDS PageLayout, FiniteSets

CONSTANTS
  Handles,        \* the Table objects that name this file
  Schema,         \* those that live as long as the Database object: Schema.tables, Schema.columns
  SelfDescribing, \* is the file that of davisbase_tables, with the row about itself
  CellLengths,    \* lengths of the leaf cells the workload inserts
  Deletable,      \* row ids the workload's DELETE statements select
  MaxRowId,       \* bound on the workload: no row id above it is inserted
  MaxPages        \* bound on the workload: no append begins with so many pages

INITIAL_ROW_ID == 1

ASSUME WorkloadAssumption ==
  /\ Schema \subseteq Handles
  /\ CellLengths \subseteq Nat \ {0}
  /\ Deletable \subseteq Nat
  /\ SelfDescribing \in BOOLEAN
  /\ SelfDescribing => Schema # {} /\ INITIAL_ROW_ID \notin Deletable

VARIABLES
  file,      \* page number -> page, what is on disk
  entry,     \* the row of this table in davisbase_tables: page_count, next_row_id
  table,     \* Table object -> its cached page_count, next_row_id; its stream's state
  pc,        \* the next write of the append under way, "idle" between statements
  op,        \* the append under way: Table object, length of the cell, entry as it began
  frames,    \* the Page objects on its call stack, the root first
  split,     \* what the split page handed to the caller is: its number, its minRowId
  live       \* history: row ids inserted by statements that returned, and not deleted

disk == <<file, entry>>
vars == <<file, entry, table, pc, op, frames, split, live>>

Entry == [page_count : Nat, next_row_id : RowId]
Table == [page_count : Nat, next_row_id : RowId, good : BOOLEAN]
Frame == [no : Nat, page : Page]

Current == Last(frames)
RowIdToAppend == table[op.handle].next_row_id
PageCount == table[op.handle].page_count

(* A Table object as getTable and initializeSchema construct it. *)
Opened == [page_count |-> entry.page_count,
           next_row_id |-> entry.next_row_id,
           good |-> TRUE]

(* Table::create writes an empty leaf as page 0 and createTable its row. *)
Init ==
  /\ file = [p \in {0} |-> NewPage("leaf")]
  /\ entry = [page_count |-> 1, next_row_id |-> INITIAL_ROW_ID]
  /\ table = [h \in Handles |-> Opened]
  /\ pc = "idle"
  /\ op = << >>
  /\ frames = << >>
  /\ split = << >>
  /\ live = {}

-----------------------------------------------------------------------------
(* Reading: getPage, leafPageByRowId and mapOverLeafPages.                  *)

(* Table::getPage throws outside the file; the fail bit it leaves on the   *)
(* stream makes every later read of that Table object throw as well.       *)
CanRead(h, page_no) == table[h].good /\ page_no \in DOMAIN file

Leaves == {p \in DOMAIN file : file[p].type = "leaf"}
Depths == 0..Cardinality(DOMAIN file)   \* no path of distinct pages is longer

(* The leaf leafPageByRowId returns, NULL_PAGE_NO if a getPage throws.     *)
LeafByRowId(row_id) ==
  LET below[d \in Depths] ==
        [p \in PageNo |->
           IF p \in Leaves THEN p
           ELSE IF d = 0 \/ p \notin DOMAIN file THEN NULL_PAGE_NO
           ELSE below[d-1][ChildPageNoByRowId(file[p], row_id)]]
  IN  below[Cardinality(DOMAIN file)][0]

(* mapOverLeafPages from page_no on: the leaves, and the rows in them.     *)
LeavesFrom(page_no) ==
  LET from[d \in Depths] ==
        [p \in PageNo |->
           IF d = 0 \/ p \notin Leaves THEN << >> ELSE <<p>> \o from[d-1][file[p].right]]
  IN  from[Cardinality(DOMAIN file)][page_no]

RowsFrom(page_no) ==
  LET from[d \in Depths] ==
        [p \in PageNo |->
           IF d = 0 \/ p \notin Leaves THEN << >> ELSE file[p].cells \o from[d-1][file[p].right]]
  IN  from[Cardinality(DOMAIN file)][page_no]

(* Every full scan starts at leftmostLeafPage. *)
ScannedLeaves == LeavesFrom(LeafByRowId(0))
ScannedRows == RowsFrom(LeafByRowId(0))

-----------------------------------------------------------------------------
(* Table::appendRecord.                                                     *)

(* INSERT opens the table; CREATE TABLE appends to the schema's own Table  *)
(* objects, opened when the process started.                               *)
BeginAppend(h, length) ==
  /\ pc = "idle"
  /\ table' = IF h \in Schema THEN table ELSE [table EXCEPT ![h] = Opened]
  /\ table'[h].next_row_id <= MaxRowId
  /\ table'[h].page_count <= MaxPages
  /\ op' = [handle |-> h, length |-> length, own |-> entry]
  /\ pc' = "descend"
  /\ UNCHANGED <<file, entry, frames, split, live>>

PageToVisit ==
  IF frames = << >> THEN 0 ELSE ChildPageNoByRowId(Current.page, RowIdToAppend)

(* Mutant: every page read is taken for a leaf. *)
DescendOnce ==
  /\ pc = "descend"
  /\ CanRead(op.handle, PageToVisit)
  /\ frames' = Append(frames, [no |-> PageToVisit, page |-> file[PageToVisit]])
  /\ pc' = "leaf"
  /\ UNCHANGED <<file, entry, table, op, split, live>>

(* getPage of the root, then of a child from appendRecord of each interior *)
(* page: copies on the call stack, not read again before they are written. *)
Descend ==
  /\ pc = "descend"
  /\ CanRead(op.handle, PageToVisit)
  /\ frames' = Append(frames, [no |-> PageToVisit, page |-> file[PageToVisit]])
  /\ pc' = IF file[PageToVisit].type = "leaf" THEN "leaf" ELSE "descend"
  /\ UNCHANGED <<file, entry, table, op, split, live>>

(* The statement ends with the exception; its Page objects die. *)
Throw ==
  /\ pc' = "idle"
  /\ op' = << >>
  /\ frames' = << >>
  /\ split' = << >>

ReadFails ==
  /\ pc = "descend"
  /\ ~ CanRead(op.handle, PageToVisit)
  /\ Throw
  /\ table' = [table EXCEPT ![op.handle].good = FALSE]
  /\ UNCHANGED <<file, entry, live>>

(* The check at the top of TableLeafPage::appendRecord. *)
RowIdsDecrease ==
  /\ Current.page.cells # << >>
  /\ Last(Current.page.cells) >= RowIdToAppend

(* Mutants: only one of the two checks throws. *)
LeafThrowsDecreasing ==
  pc = "leaf" /\ RowIdsDecrease /\ Throw /\ UNCHANGED <<file, entry, table, live>>
LeafThrowsTooLong ==
  /\ pc = "leaf" /\ ~ HasEnoughSpace(NewPage("leaf"), op.length)
  /\ Throw /\ UNCHANGED <<file, entry, table, live>>

(* logic_error "decreasing row_id", or "Cell doesn't fit into empty page". *)
LeafThrows ==
  /\ pc = "leaf"
  /\ \/ RowIdsDecrease
     \/ ~ HasEnoughSpace(Current.page, op.length) /\ ~ HasEnoughSpace(NewPage("leaf"), op.length)
  /\ Throw
  /\ UNCHANGED <<file, entry, table, live>>

(* commitPage: one page, at page_no * page_length. *)
Write(page_no, page) ==
  file' = [p \in DOMAIN file \union {page_no} |-> IF p = page_no THEN page ELSE file[p]]

(* The Page object of the last frame after a change in memory. *)
WithLastPage(stack, page) == Append(Front(stack), [Last(stack) EXCEPT !.page = page])

LeafAppend ==
  /\ pc = "leaf"
  /\ ~ RowIdsDecrease
  /\ HasEnoughSpace(Current.page, op.length)
  /\ Write(Current.no, AppendCell(Current.page, RowIdToAppend, op.length))
  /\ pc' = "finish"
  /\ UNCHANGED <<entry, table, op, frames, split, live>>

(* The cell goes to a new leaf, written at the page count ... *)
SplitLeaf ==
  /\ pc = "leaf"
  /\ ~ RowIdsDecrease
  /\ ~ HasEnoughSpace(Current.page, op.length)
  /\ HasEnoughSpace(NewPage("leaf"), op.length)
  /\ LET page == AppendCell(NewPage("leaf"), RowIdToAppend, op.length)
     IN  /\ Write(PageCount, page)
         /\ split' = [no |-> PageCount, min_row_id |-> MinRowId(page)]
  /\ frames' = WithLastPage(frames, SetRight(Current.page, PageCount))
  /\ pc' = "relink"
  /\ UNCHANGED <<entry, table, op, live>>

(* Mutant: the split page is linked in memory only. *)
RelinkUnwritten ==
  pc = "relink" /\ pc' = "count" /\ UNCHANGED <<file, entry, table, op, frames, split, live>>

(* ... then the page that was split: a leaf now has a right sibling, an    *)
(* interior page has lost its rightmost child.                             *)
Relink ==
  /\ pc = "relink"
  /\ Write(Current.no, Current.page)
  /\ pc' = "count"
  /\ UNCHANGED <<entry, table, op, frames, split, live>>

(* Mutant: the catalog row is not updated. *)
CountPageInMemory ==
  table' = [table EXCEPT ![op.handle].page_count = @ + 1] /\ UNCHANGED entry

(* setPageCount: the Table object, and its row of davisbase_tables. *)
CountPage ==
  /\ table' = [table EXCEPT ![op.handle].page_count = @ + 1]
  /\ entry' = [entry EXCEPT !.page_count = PageCount + 1]

CountSplit ==
  /\ pc = "count"
  /\ CountPage
  /\ pc' = "return"
  /\ UNCHANGED <<file, op, frames, split, live>>

-----------------------------------------------------------------------------
(* Back in the caller: appendRecord of the parent interior page, or        *)
(* Table::appendRecord when the root was split.                            *)

AtRoot == Len(frames) = 1
Parent == frames[Len(frames) - 1]

(* Mutant: the new child is put to the left of the old one. *)
WithSplitLeft(page, old_child) ==
  SetRight(AppendCell(page, [left_child_page_no |-> split.no, row_id |-> split.min_row_id],
                      InteriorCellLength),
           old_child)

(* TableInteriorPage::appendRecord turns the split into a cell. *)
WithSplit(page, old_child) ==
  SetRight(AppendCell(page, [left_child_page_no |-> old_child, row_id |-> split.min_row_id],
                      InteriorCellLength),
           split.no)

AbsorbSplit ==
  /\ pc = "return"
  /\ ~ AtRoot
  /\ HasEnoughSpace(Parent.page, InteriorCellLength)
  /\ Write(Parent.no, WithSplit(Parent.page, Parent.page.right))
  /\ pc' = "finish"
  /\ UNCHANGED <<entry, table, op, frames, split, live>>

SplitInterior ==
  /\ pc = "return"
  /\ ~ AtRoot
  /\ ~ HasEnoughSpace(Parent.page, InteriorCellLength)
  /\ LET page == WithSplit(NewPage("interior"), Parent.page.right)
     IN  /\ Write(PageCount, page)
         /\ split' = [no |-> PageCount, min_row_id |-> MinRowId(page)]
  /\ frames' = WithLastPage(Front(frames), SetRight(Parent.page, NULL_PAGE_NO))
  /\ pc' = "relink"
  /\ UNCHANGED <<entry, table, op, live>>

(* Mutant: the old root is overwritten before it is moved. *)
MoveRootLater ==
  /\ pc = "return" /\ AtRoot /\ pc' = "root"
  /\ UNCHANGED <<file, entry, table, op, frames, split, live>>

(* The old root moves to a new page number ... *)
MoveRoot ==
  /\ pc = "return"
  /\ AtRoot
  /\ Write(PageCount, Current.page)
  /\ pc' = "root"
  /\ UNCHANGED <<entry, table, op, frames, split, live>>

(* ... and page 0 becomes an interior page above it and its split page.    *)
(* The old root was read before the split was counted: if it is the leaf   *)
(* that has the row about this very table, that row is as it was by then.  *)
NewRoot ==
  /\ pc = "root"
  /\ Write(0, WithSplit(NewPage("interior"), PageCount))
  /\ entry' = IF SelfDescribing /\ Current.page.type = "leaf" THEN op.own ELSE entry
  /\ pc' = "count_root"
  /\ UNCHANGED <<table, op, frames, split, live>>

(* Mutant: the page of the new root is not counted in the catalog row. *)
CountRootInMemory ==
  /\ pc = "count_root"
  /\ CountPageInMemory
  /\ pc' = "finish"
  /\ UNCHANGED <<file, op, frames, split, live>>

CountRoot ==
  /\ pc = "count_root"
  /\ CountPage
  /\ pc' = "finish"
  /\ UNCHANGED <<file, op, frames, split, live>>

(* Mutant: next_row_id changes in memory only. *)
FinishInMemory ==
  /\ pc = "finish"
  /\ table' = [table EXCEPT ![op.handle].next_row_id = @ + 1]
  /\ live' = live \union {RowIdToAppend}
  /\ Throw
  /\ UNCHANGED disk

(* setNextRowId, after which the statement returns. *)
Finish ==
  /\ pc = "finish"
  /\ table' = [table EXCEPT ![op.handle].next_row_id = @ + 1]
  /\ entry' = [entry EXCEPT !.next_row_id = RowIdToAppend + 1]
  /\ live' = live \union {RowIdToAppend}
  /\ Throw
  /\ UNCHANGED file

-----------------------------------------------------------------------------
(* Deletes and crashes.                                                     *)

(* One deleteRecord of a DELETE statement (or of removeTable), on a cell   *)
(* its scan has found.                                                     *)
Delete(h) ==
  /\ pc = "idle"
  /\ h \in Schema => table[h].good
  /\ \E leaf \in Leaves \intersect ToSet(ScannedLeaves) : \E i \in DOMAIN file[leaf].cells :
       /\ file[leaf].cells[i] \in Deletable
       /\ Write(leaf, DeleteRecord(file[leaf], i))
       /\ live' = live \ {file[leaf].cells[i]}
  /\ UNCHANGED <<entry, table, pc, op, frames, split>>

(* The process dies and is started again: initializeSchema opens the two   *)
(* schema tables from what is on disk.                                     *)
Crash ==
  /\ table' = [h \in Handles |-> Opened]
  /\ Throw
  /\ UNCHANGED <<file, entry, live>>

(* One step of the append that is under way. *)
AppendStep ==
  \/ Descend
  \/ ReadFails
  \/ LeafThrows
  \/ LeafAppend
  \/ SplitLeaf
  \/ Relink
  \/ CountSplit
  \/ AbsorbSplit
  \/ SplitInterior
  \/ MoveRoot
  \/ NewRoot
  \/ CountRoot
  \/ Finish

Next ==
  \/ \E h \in Handles, length \in CellLengths : BeginAppend(h, length)
  \/ AppendStep
  \/ \E h \in Handles : Delete(h)

Spec == Init /\ [][Next]_vars
FairSpec == Spec /\ WF_vars(AppendStep)

(* The same process, which may be killed in the middle of a statement. *)
CrashNext == Next \/ Crash
CrashSpec == Init /\ [][CrashNext]_vars
FairCrashSpec == CrashSpec /\ WF_vars(AppendStep)

-----------------------------------------------------------------------------
(* Correctness.                                                             *)

(* Every variable has its type, and an append under way has a Table object *)
(* and at least the pages its next write needs.                            *)
TypeOK ==
  /\ file \in [DOMAIN file -> Page]
  /\ DOMAIN file \subseteq Nat
  /\ entry \in Entry
  /\ table \in [Handles -> Table]
  /\ pc \in {"idle", "descend", "leaf", "relink", "count", "return",
             "root", "count_root", "finish"}
  /\ op \in IF pc = "idle" THEN {<< >>}
           ELSE [handle : Handles, length : CellLengths, own : Entry]
  /\ frames \in Seq(Frame)
  /\ pc \notin {"idle", "descend"} => frames # << >>
  /\ pc = "leaf" => Current.page.type = "leaf"
  /\ pc \in {"relink", "count", "return", "root"} => split \in [no : Nat, min_row_id : RowId]
  /\ live \in SUBSET RowId

(* In no page, whatever was inserted, split or deleted, has the slot array *)
(* run into the cells (both hasEnoughSpace, and the cells that splits and  *)
(* new roots append without asking).                                       *)
SlotsBelowCells == \A p \in DOMAIN file : SlotsFit(file[p])

(* At every instant, a crash included, each page number stored in a page   *)
(* is that of a page in the file: appendRecord writes pages before the     *)
(* pointers to them.                                                       *)
NoDanglingPage ==
  \A p \in DOMAIN file :
    /\ file[p].right \in DOMAIN file \union {NULL_PAGE_NO}
    /\ file[p].type = "interior" =>
         \A i \in DOMAIN file[p].cells : file[p].cells[i].left_child_page_no \in DOMAIN file

(* TableLeafPage::appendRecord calls a row id that does not exceed the     *)
(* last one of the leaf a logic_error (table_leaf_page.cpp:336-337): the   *)
(* leaf an append reaches only has smaller ones.                           *)
NoDecreasingRowId == pc = "leaf" => ~ RowIdsDecrease

(* The page number a split takes, table().pageCount(), is not in use: the  *)
(* catalog row has kept up with the file.                                  *)
AllocatesFreshPage == pc \in {"leaf", "return"} => PageCount \notin DOMAIN file

(* davisbase_tables keeps the row about itself in its own first leaf, and  *)
(* a split of that leaf writes back a copy that is older than its row      *)
(* (table.cpp:99-103).  When an append has ended the row has caught up     *)
(* with the Table object that lives on.                                    *)
OwnRowIsCurrent ==
  SelfDescribing /\ pc = "idle" =>
    \A h \in Schema : /\ table[h].page_count = entry.page_count
                      /\ table[h].next_row_id = entry.next_row_id

(* What appendRecord changes and writes back are copies read on the way    *)
(* down; until the page of a copy is rewritten, the copy is the page.      *)
CopiesAreCurrent ==
  /\ pc \in {"descend", "leaf", "count", "return"} =>
       \A k \in DOMAIN frames : file[frames[k].no] = frames[k].page
  /\ pc = "relink" =>
       \A k \in 1..Len(frames)-1 : file[frames[k].no] = frames[k].page

Increasing(seq) == \A i \in 1..Len(seq)-1 : seq[i] < seq[i+1]

(* A scan of the file, between any two writes, returns exactly the rows    *)
(* inserted and not deleted, in the order of their ids, once each; only    *)
(* the row being inserted may show up early, and only as the last one.     *)
ScanShowsLiveRows ==
  /\ Increasing(ScannedRows)
  /\ \/ ToSet(ScannedRows) = live
     \/ pc # "idle" /\ ToSet(ScannedRows) = live \union {RowIdToAppend}

(* The leaves below page_no in the order of the tree. *)
LeavesBelow(page_no) ==
  LET below[d \in Depths] ==
        [p \in PageNo |->
           IF p \in Leaves THEN <<p>>
           ELSE IF d = 0 \/ p \notin DOMAIN file THEN << >>
           ELSE FlattenSeq([i \in DOMAIN file[p].cells |->
                              below[d-1][file[p].cells[i].left_child_page_no]])
                \o below[d-1][file[p].right]]
  IN  below[Cardinality(DOMAIN file)][page_no]

(* Between statements the two ways through a table agree: the chain of     *)
(* right siblings that scans follow visits the leaves of the tree in the   *)
(* order of the tree, and the path an append takes ends at the last leaf   *)
(* of the chain, so that rows stay sorted.                                 *)
ChainIsTree ==
  pc = "idle" =>
    /\ ScannedLeaves = LeavesBelow(0)
    /\ LeafByRowId(entry.next_row_id) = Last(ScannedLeaves)

(* Rows of statements that returned, and that nobody deleted, can be read  *)
(* back at every instant, whenever the process was killed.                 *)
AckedRowsSurvive == live \subseteq ToSet(ScannedRows)

(* An append ends: its statement returns or throws. *)
AppendTerminates == pc # "idle" ~> pc = "idle"

(* What scans and the catalog row show is a RecordStore. *)
Store == INSTANCE RecordStore WITH rows <- ScannedRows, next_row_id <- entry.next_row_id
ImplementsRecordStore == Store!Spec
=============================================================================
