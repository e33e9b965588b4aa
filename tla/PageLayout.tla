----------------------------- MODULE PageLayout -----------------------------
(***************************************************************************)
(* A page of a table file, as src/sdl/page.cpp, table_leaf_page.cpp and    *)
(* table_interior_page.cpp lay it out.  A page is PageLength bytes: a      *)
(* header of nine bytes (type, cell count, content area offset, right      *)
(* pointer), an array of two-byte cell offsets growing up behind it, and   *)
(* the cells themselves, allocated downwards from the end of the page.     *)
(*                                                                         *)
(* Of the bytes the model keeps the order of the slots, the identity of    *)
(* the cells they point to, the right pointer and the content area offset: *)
(* that is all the code decides on.                                        *)
(***************************************************************************)
EXTENDS Integers, Sequences, SequencesExt

CONSTANT PageLength   \* bytes in a page; DEFAULT_PAGE_LENGTH is 512

HeaderLength == 9         \* bytes 0x00..0x08
SlotLength == 2           \* sizeof(CellOffset)
InteriorCellLength == 8   \* a page number and a row id, four bytes each

NULL_PAGE_NO == -1

(* A page whose only cell is an interior cell must exist: an interior      *)
(* split writes its cell without asking for room.                          *)
ASSUME PageLengthAssumption ==
  /\ PageLength \in Nat
  /\ PageLength >= HeaderLength + SlotLength + InteriorCellLength + 1

PageNo == Int
RowId == Nat
InteriorCell == [left_child_page_no : PageNo, row_id : RowId]
LeafPage ==
  [type : {"leaf"}, cells : Seq(RowId), right : PageNo, content : Nat]
InteriorPage ==
  [type : {"interior"}, cells : Seq(InteriorCell), right : PageNo, content : Nat]
Page == LeafPage \union InteriorPage

-----------------------------------------------------------------------------

(* TableLeafPage::create and TableInteriorPage::create. *)
NewPage(type) ==
  [type |-> type, cells |-> << >>, right |-> NULL_PAGE_NO, content |-> PageLength]

(* Mutants: room for the cell without its slot; for the slot without the cell. *)
HasEnoughSpaceForCell(page, length) ==
  HeaderLength + SlotLength * Len(page.cells) + length < page.content
HasEnoughSpaceForSlot(page, length) ==
  HeaderLength + SlotLength * Len(page.cells) + SlotLength < page.content

(* Does a cell of `length' bytes fit, with its slot?  Both page classes    *)
(* compare with a strict <, so one byte always stays free between the slot *)
(* array and the cells.                                                    *)
HasEnoughSpace(page, length) ==
  HeaderLength + SlotLength * Len(page.cells) + SlotLength + length < page.content

(* Mutant: the new slot goes in front of the others. *)
AppendCellInFront(page, cell, length) ==
  [page EXCEPT !.cells = <<cell>> \o @, !.content = @ - length]

(* appendCell of both page classes: the next slot, and the bytes below the *)
(* content area.                                                           *)
AppendCell(page, cell, length) ==
  [page EXCEPT !.cells = Append(@, cell), !.content = @ - length]

(* setRightSiblingPageNo and setRightmostChildPageNo share bytes 0x05..08. *)
SetRight(page, page_no) == [page EXCEPT !.right = page_no]

(* Mutant: the count is decremented, the gap not closed. *)
DeleteLastRecord(page, index) == [page EXCEPT !.cells = Front(@)]

(* Page::deleteRecord closes the gap in the slot array and decrements the  *)
(* count; the bytes of the cell are not given back to the content area.    *)
DeleteRecord(page, index) == [page EXCEPT !.cells = RemoveAt(@, index)]

(* TableInteriorPage::getChildPageNoByRowId: the left child of the first   *)
(* cell above row_id, the rightmost child if there is none.                *)
ChildPageNoByRowId(page, row_id) ==
  LET above == {i \in DOMAIN page.cells : row_id < page.cells[i].row_id}
  IN  IF above = {} THEN page.right
      ELSE page.cells[CHOOSE i \in above : \A j \in above : i <= j].left_child_page_no

(* minRowId: the row id of the first cell, in either kind of page. *)
MinRowId(page) ==
  IF page.type = "leaf" THEN page.cells[1] ELSE page.cells[1].row_id

(* The slot array has not run into the cells.                              *)
SlotsFit(page) == HeaderLength + SlotLength * Len(page.cells) <= page.content
=============================================================================
