-------------------------- MODULE TablePagesProofs --------------------------
(***************************************************************************)
(* Theorems about TablePages, for every page length, cell length, workload *)
(* and number of Table objects: layout, counts and pointers; and the shape *)
(* of a table file that one Table object at a time appends to, a chain of  *)
(* leaves, whose first is at the end of the leftmost path from the root    *)
(* and whose last at the end of the rightmost one.                         *)
(***************************************************************************)
EXTENDS TablePages, SequenceFacts, SequenceTheorems, FiniteSetTheorems, TLAPS

-----------------------------------------------------------------------------
(* What the operations of PageLayout return: each page class stays what it *)
(* is, and its slot array clear of its cells.                              *)

(* A page fresh from either create has no cells, and room for one interior *)
(* cell without asking (table_leaf_page.cpp:365, table_interior_page.cpp:123). *)
LEMMA NewPageType ==
  /\ NewPage("leaf") \in LeafPage
  /\ NewPage("interior") \in InteriorPage
  /\ SlotsFit(NewPage("leaf"))
  /\ SlotsFit(NewPage("interior"))
BY PageLengthAssumption
   DEF NewPage, LeafPage, InteriorPage, RowId, InteriorCell, PageNo, NULL_PAGE_NO,
       SlotsFit, HeaderLength, SlotLength, InteriorCellLength

(* Appending a row that fits keeps a leaf a leaf (table_leaf_page.cpp:294). *)
LEMMA AppendRow ==
  ASSUME NEW page \in LeafPage, NEW row_id \in RowId, NEW length \in Nat,
         HasEnoughSpace(page, length)
  PROVE  /\ AppendCell(page, row_id, length) \in LeafPage
         /\ SlotsFit(AppendCell(page, row_id, length))
<1>1. page.cells \in Seq(RowId) /\ page.content \in Nat /\ Len(page.cells) \in Nat
  BY LenProperties DEF LeafPage
<1>2. Append(page.cells, row_id) \in Seq(RowId) /\ Len(Append(page.cells, row_id)) = Len(page.cells) + 1
  BY <1>1, AppendProperties
<1>3. page.content - length \in Nat
      /\ HeaderLength + SlotLength * (Len(page.cells) + 1) <= page.content - length
  BY <1>1 DEF HasEnoughSpace, HeaderLength, SlotLength
<1>4. /\ AppendCell(page, row_id, length) \in LeafPage
      /\ AppendCell(page, row_id, length).cells = Append(page.cells, row_id)
      /\ AppendCell(page, row_id, length).content = page.content - length
  BY <1>2, <1>3 DEF AppendCell, LeafPage
<1> QED BY <1>2, <1>3, <1>4 DEF SlotsFit

(* Appending an interior cell where eight bytes are left keeps an interior *)
(* page one (table_interior_page.cpp:61).                                  *)
LEMMA AppendChild ==
  ASSUME NEW page \in InteriorPage, NEW cell \in InteriorCell,
         page.content >= InteriorCellLength
  PROVE  AppendCell(page, cell, InteriorCellLength) \in InteriorPage
<1>1. Append(page.cells, cell) \in Seq(InteriorCell)
  BY AppendProperties DEF InteriorPage
<1>2. page.content - InteriorCellLength \in Nat
  BY DEF InteriorPage, InteriorCellLength
<1> QED BY <1>1, <1>2 DEF AppendCell, InteriorPage

(* Where hasEnoughSpace says yes, the slots stay clear of the new cell      *)
(* (table_interior_page.cpp:72).                                           *)
LEMMA AppendChildFits ==
  ASSUME NEW page \in InteriorPage, NEW cell \in InteriorCell,
         HasEnoughSpace(page, InteriorCellLength)
  PROVE  /\ page.content >= InteriorCellLength
         /\ SlotsFit(AppendCell(page, cell, InteriorCellLength))
<1>1. page.cells \in Seq(InteriorCell) /\ page.content \in Nat /\ Len(page.cells) \in Nat
  BY LenProperties DEF InteriorPage
<1>2. Len(Append(page.cells, cell)) = Len(page.cells) + 1
  BY <1>1, AppendProperties
<1>3. /\ page.content >= InteriorCellLength
      /\ HeaderLength + SlotLength * (Len(page.cells) + 1) <= page.content - InteriorCellLength
  BY <1>1 DEF HasEnoughSpace, HeaderLength, SlotLength, InteriorCellLength
<1>4. /\ AppendCell(page, cell, InteriorCellLength).cells = Append(page.cells, cell)
      /\ AppendCell(page, cell, InteriorCellLength).content = page.content - InteriorCellLength
  BY DEF AppendCell, InteriorPage
<1> QED BY <1>2, <1>3, <1>4 DEF SlotsFit

(* The cells that NewRoot and SplitInterior write without asking fit.      *)
LEMMA NewInteriorHasRoom == HasEnoughSpace(NewPage("interior"), InteriorCellLength)
<1>1. Len(NewPage("interior").cells) = 0 /\ NewPage("interior").content = PageLength
  BY EmptySeq DEF NewPage
<1> QED BY <1>1, PageLengthAssumption DEF HasEnoughSpace, HeaderLength, SlotLength, InteriorCellLength

(* The right pointer is no part of what a page is (bytes 0x05..08).        *)
LEMMA SetRightType ==
  ASSUME NEW right \in PageNo
  PROVE  /\ \A page \in LeafPage : SetRight(page, right) \in LeafPage
         /\ \A page \in InteriorPage : SetRight(page, right) \in InteriorPage
         /\ \A page \in Page : SetRight(page, right) \in Page
         /\ \A page \in Page : SlotsFit(page) => SlotsFit(SetRight(page, right))
BY DEF SetRight, LeafPage, InteriorPage, Page, PageNo, SlotsFit

(* Closing the gap in a slot array: std::copy in page.cpp:44.              *)
LEMMA RemoveAtProperties ==
  ASSUME NEW S, NEW s \in Seq(S), NEW i \in 1..Len(s)
  PROVE  /\ RemoveAt(s, i) \in Seq(S)
         /\ Len(RemoveAt(s, i)) = Len(s) - 1
         /\ \A j \in 1..Len(s)-1 : RemoveAt(s, i)[j] = IF j < i THEN s[j] ELSE s[j+1]
<1>1. /\ i \in Int /\ Len(s) \in Int /\ 1 <= i /\ i <= Len(s)
      /\ \A j \in 1..Len(s) : s[j] \in S
  BY LenProperties, ElementOfSeq
<1>2. ASSUME NEW m \in Int, NEW n \in Int, 1 <= m, n <= Len(s), m <= n+1
      PROVE  /\ SubSeq(s, m, n) \in Seq(S)
             /\ Len(SubSeq(s, m, n)) = n-m+1
             /\ \A j \in 1..n-m+1 : SubSeq(s, m, n)[j] = s[m+j-1]
  <2>1. \A j \in m..n : s[j] \in S
    BY <1>1, <1>2
  <2>2. /\ SubSeq(s, m, n) \in Seq(S)
        /\ Len(SubSeq(s, m, n)) = IF m <= n THEN n-m+1 ELSE 0
        /\ \A j \in 1..n-m+1 : SubSeq(s, m, n)[j] = s[m+j-1]
    BY <2>1, SubSeqProperties
  <2> QED BY <2>2, <1>2
<1>3. PICK front : front = SubSeq(s, 1, i-1)
  OBVIOUS
<1>4. PICK back : back = SubSeq(s, i+1, Len(s))
  OBVIOUS
<1>5. front \in Seq(S) /\ Len(front) = i-1 /\ \A j \in 1..i-1 : front[j] = s[j]
  <2>1. 1 \in Int /\ i-1 \in Int /\ 1 <= (i-1)+1 /\ i-1 <= Len(s)
    BY <1>1
  <2>2. /\ front \in Seq(S)
        /\ Len(front) = (i-1)-1+1
        /\ \A j \in 1..(i-1)-1+1 : front[j] = s[1+j-1]
    BY <1>2, <1>3, <2>1
  <2> QED BY <2>2, <1>1
<1>6. back \in Seq(S) /\ Len(back) = Len(s)-i /\ \A j \in 1..Len(s)-i : back[j] = s[j+i]
  <2>1. i+1 \in Int /\ Len(s) \in Int /\ 1 <= i+1 /\ i+1 <= Len(s)+1
    BY <1>1
  <2>2. /\ back \in Seq(S)
        /\ Len(back) = Len(s)-(i+1)+1
        /\ \A j \in 1..Len(s)-(i+1)+1 : back[j] = s[(i+1)+j-1]
    BY <1>2, <1>4, <2>1
  <2> QED BY <2>2, <1>1
<1>7. /\ front \o back \in Seq(S)
      /\ Len(front \o back) = Len(front) + Len(back)
      /\ \A j \in 1..Len(front)+Len(back) :
           (front \o back)[j] = IF j <= Len(front) THEN front[j] ELSE back[j-Len(front)]
  BY <1>5, <1>6, ConcatProperties
<1>8. ASSUME NEW j \in 1..Len(s)-1
      PROVE  (front \o back)[j] = IF j < i THEN s[j] ELSE s[j+1]
  <2>1. j \in 1..Len(front)+Len(back)
    BY <1>1, <1>5, <1>6
  <2>2. CASE j < i
    <3>1. j \in 1..i-1 /\ j <= Len(front)
      BY <1>1, <1>5, <2>2
    <3> QED BY <2>1, <2>2, <3>1, <1>5, <1>7
  <2>3. CASE ~ (j < i)
    <3>1. ~ (j <= Len(front)) /\ j-Len(front) \in 1..Len(s)-i /\ (j-Len(front))+i = j+1
      BY <1>1, <1>5, <2>3
    <3>2. (front \o back)[j] = back[j-Len(front)]
      BY <2>1, <3>1, <1>7
    <3>3. back[j-Len(front)] = s[(j-Len(front))+i]
      BY <3>1, <1>6
    <3>4. s[(j-Len(front))+i] = s[j+1]
      BY <3>1
    <3>5. (front \o back)[j] = s[j+1]
      BY <3>2, <3>3, <3>4
    <3> QED BY <2>3, <3>5
  <2> QED BY <2>2, <2>3
<1>9. RemoveAt(s, i) = front \o back
  BY <1>3, <1>4 DEF RemoveAt
<1>10. Len(front \o back) = Len(s) - 1
  BY <1>1, <1>5, <1>6, <1>7
<1>11. \A j \in 1..Len(s)-1 : (front \o back)[j] = IF j < i THEN s[j] ELSE s[j+1]
  BY <1>8
<1> QED BY <1>7, <1>9, <1>10, <1>11

(* deleteRecord leaves a shorter list of the same rows (page.cpp:38).      *)
LEMMA DeleteRecordType ==
  ASSUME NEW page \in LeafPage, NEW i \in DOMAIN page.cells
  PROVE  /\ DeleteRecord(page, i) \in LeafPage
         /\ SlotsFit(page) => SlotsFit(DeleteRecord(page, i))
         /\ DeleteRecord(page, i).right = page.right
         /\ \A j \in DOMAIN DeleteRecord(page, i).cells :
              \E k \in DOMAIN page.cells : DeleteRecord(page, i).cells[j] = page.cells[k]
<1>1. page.cells \in Seq(RowId) /\ i \in 1..Len(page.cells) /\ Len(page.cells) \in Nat
      /\ DOMAIN page.cells = 1..Len(page.cells)
  BY LenProperties DEF LeafPage
<1>2. PICK cells : cells = RemoveAt(page.cells, i)
  OBVIOUS
<1>3. /\ cells \in Seq(RowId)
      /\ Len(cells) = Len(page.cells) - 1
      /\ \A j \in 1..Len(page.cells)-1 :
           cells[j] = IF j < i THEN page.cells[j] ELSE page.cells[j+1]
  BY <1>1, <1>2, RemoveAtProperties
<1>4. /\ DeleteRecord(page, i) \in LeafPage
      /\ DeleteRecord(page, i).cells = cells
      /\ DeleteRecord(page, i).content = page.content
      /\ DeleteRecord(page, i).right = page.right
  BY <1>2, <1>3 DEF DeleteRecord, LeafPage
<1>5. SlotsFit(page) => SlotsFit(DeleteRecord(page, i))
  BY <1>1, <1>3, <1>4 DEF SlotsFit, SlotLength, HeaderLength, LeafPage
<1>6. ASSUME NEW j \in DOMAIN cells
      PROVE  \E k \in DOMAIN page.cells : cells[j] = page.cells[k]
  <2>1. j \in 1..Len(page.cells)-1
    BY <1>3, LenProperties
  <2>2. j \in DOMAIN page.cells /\ j+1 \in DOMAIN page.cells
    BY <2>1, <1>1
  <2> QED BY <2>1, <2>2, <1>3
<1> QED BY <1>4, <1>5, <1>6

-----------------------------------------------------------------------------
(* Types, and what an append holds on its call stack.                      *)

(* commitPage changes one page, or adds one (table.cpp:141).               *)
LEMMA WriteEffect ==
  ASSUME NEW page_no, NEW page, Write(page_no, page)
  PROVE  /\ DOMAIN file' = DOMAIN file \union {page_no}
         /\ file'[page_no] = page
         /\ \A p \in DOMAIN file : p # page_no => file'[p] = file[p]
BY DEF Write

LEMMA WriteType ==
  ASSUME file \in [DOMAIN file -> Page], DOMAIN file \subseteq Nat,
         NEW page_no \in Nat, NEW page \in Page, Write(page_no, page)
  PROVE  file' \in [DOMAIN file' -> Page] /\ DOMAIN file' \subseteq Nat
<1>1. /\ DOMAIN file' = DOMAIN file \union {page_no}
      /\ file' = [p \in DOMAIN file \union {page_no} |-> IF p = page_no THEN page ELSE file[p]]
  BY DEF Write
<1>2. \A p \in DOMAIN file \union {page_no} : (IF p = page_no THEN page ELSE file[p]) \in Page
  OBVIOUS
<1> QED BY <1>1, <1>2

(* A page marked as one kind is of that kind.                              *)
LEMMA PageKinds ==
  ASSUME NEW page \in Page
  PROVE  /\ page.type = "leaf" => page \in LeafPage
         /\ page.type = "interior" => page \in InteriorPage
         /\ page.type # "leaf" => page.type = "interior"
BY DEF Page, LeafPage, InteriorPage

-----------------------------------------------------------------------------
(* The call stack of an append.                                             *)

LEMMA TopFrame ==
  ASSUME frames \in Seq(Frame), frames # << >>
  PROVE  /\ Len(frames) \in Nat /\ Len(frames) >= 1 /\ Len(frames) \in 1..Len(frames)
         /\ Current = frames[Len(frames)]
         /\ Current \in Frame /\ Current.no \in Nat /\ Current.page \in Page
<1>1. Len(frames) \in Nat /\ Len(frames) >= 1
  BY EmptySeq, LenProperties
<1>2. Current = frames[Len(frames)]
  BY DEF Current, Last
<1>3. Current \in Frame
  BY <1>1, <1>2, ElementOfSeq
<1> QED BY <1>1, <1>2, <1>3 DEF Frame

LEMMA FramePages ==
  ASSUME frames \in Seq(Frame)
  PROVE  \A k \in 1..Len(frames) : frames[k].no \in Nat /\ frames[k].page \in Page
<1>1. \A k \in 1..Len(frames) : frames[k] \in Frame
  BY ElementOfSeq
<1> QED BY <1>1 DEF Frame

LEMMA ParentFrame ==
  ASSUME frames \in Seq(Frame), frames # << >>, ~ AtRoot
  PROVE  /\ Len(frames) - 1 \in 1..Len(frames) /\ Len(frames) - 1 \in 1..Len(frames)-1
         /\ Parent = frames[Len(frames) - 1]
         /\ Parent \in Frame /\ Parent.no \in Nat /\ Parent.page \in Page
<1>1. Len(frames) \in Nat /\ Len(frames) >= 1
  BY TopFrame
<1>2. Len(frames) - 1 \in 1..Len(frames) /\ Len(frames) - 1 \in 1..Len(frames)-1
  <2>1. PICK n \in Nat : n = Len(frames)
    BY <1>1
  <2>2. n >= 1 /\ n # 1
    BY <1>1, <2>1 DEF AtRoot
  <2> QED BY <2>1, <2>2
<1>3. Parent \in Frame
  BY <1>2, ElementOfSeq DEF Parent
<1> QED BY <1>2, <1>3 DEF Frame, Parent

(* Leaving the last frame.                                                 *)
LEMMA PopFrame ==
  ASSUME NEW s \in Seq(Frame), Len(s) >= 1
  PROVE  /\ Front(s) \in Seq(Frame)
         /\ Len(Front(s)) = Len(s) - 1
         /\ \A k \in 1..Len(s)-1 : Front(s)[k] = s[k]
<1>1. Len(s) \in Nat /\ 1 \in Int /\ Len(s)-1 \in Int
  BY LenProperties
<1>2. \A k \in 1..Len(s)-1 : s[k] \in Frame
  BY <1>1, ElementOfSeq
<1>3. /\ SubSeq(s, 1, Len(s)-1) \in Seq(Frame)
      /\ Len(SubSeq(s, 1, Len(s)-1)) = IF 1 <= Len(s)-1 THEN (Len(s)-1)-1+1 ELSE 0
      /\ \A k \in 1..(Len(s)-1)-1+1 : SubSeq(s, 1, Len(s)-1)[k] = s[1+k-1]
  BY <1>1, <1>2, SubSeqProperties
<1>4. Front(s) = SubSeq(s, 1, Len(s)-1)
  BY DEF Front
<1>5. ASSUME NEW n \in Nat, n >= 1
      PROVE  /\ (IF 1 <= n-1 THEN (n-1)-1+1 ELSE 0) = n-1 /\ (n-1)-1+1 = n-1
             /\ \A k \in 1..n-1 : 1+k-1 = k
  BY <1>5
<1>6. PICK n \in Nat : n = Len(s) /\ n >= 1
  BY <1>1
<1> QED BY <1>3, <1>4, <1>5, <1>6

(* Changing the page of the last frame.                                    *)
LEMMA LastPageReplaced ==
  ASSUME NEW s \in Seq(Frame), Len(s) >= 1, NEW page \in Page
  PROVE  /\ WithLastPage(s, page) \in Seq(Frame)
         /\ Len(WithLastPage(s, page)) = Len(s)
         /\ WithLastPage(s, page) # << >>
         /\ \A k \in 1..Len(s)-1 : WithLastPage(s, page)[k] = s[k]
         /\ WithLastPage(s, page)[Len(s)].no = s[Len(s)].no
         /\ WithLastPage(s, page)[Len(s)].page = page
<1>1. Len(s) \in Nat /\ Len(s) \in 1..Len(s) /\ (Len(s)-1)+1 = Len(s)
  BY LenProperties
<1>2. PICK f : f = [s[Len(s)] EXCEPT !.page = page]
  OBVIOUS
<1>3. s[Len(s)] \in Frame
  BY <1>1, ElementOfSeq
<1>4. f \in Frame /\ f.no = s[Len(s)].no /\ f.page = page
  BY <1>2, <1>3 DEF Frame
<1>5. WithLastPage(s, page) = Append(Front(s), f)
  BY <1>2 DEF WithLastPage, Last
<1>6. /\ Front(s) \in Seq(Frame) /\ Len(Front(s)) = Len(s)-1
      /\ \A k \in 1..Len(s)-1 : Front(s)[k] = s[k]
  BY PopFrame
<1>7. PICK front : front = Front(s)
  OBVIOUS
<1>8. front \in Seq(Frame) /\ Len(front) = Len(s)-1
  BY <1>6, <1>7
<1>9. /\ Append(front, f) \in Seq(Frame)
      /\ Len(Append(front, f)) = Len(front)+1
      /\ \A i \in 1..Len(front) : Append(front, f)[i] = front[i]
      /\ Append(front, f)[Len(front)+1] = f
  BY <1>4, <1>8, AppendProperties
<1>10. Append(front, f) # << >>
  BY <1>4, <1>8, AppendProperties
<1>11. Len(front)+1 = Len(s)
  BY <1>1, <1>8
<1> QED BY <1>4, <1>5, <1>6, <1>7, <1>8, <1>9, <1>10, <1>11

-----------------------------------------------------------------------------
(* Type correctness, with crashes and any number of Table objects.         *)

(* One Table object at a time: each statement opens its own, as for the    *)
(* tables users create, or there is one that lives as long as the process, *)
(* as for those of the schema.                                             *)
OneTableObject == Schema = {} \/ (Schema = Handles /\ \A g, h \in Handles : g = h)

(* The frames above an append's last one are interior pages.               *)
FramesOK ==
  /\ pc = "idle" => frames = << >>
  /\ \A k \in 1..Len(frames)-1 : frames[k].page.type = "interior"
  /\ pc = "descend" => \A k \in 1..Len(frames) : frames[k].page.type = "interior"

(* What the handle of an append under way holds.                           *)
LEMMA Busy ==
  ASSUME TypeOK, pc # "idle"
  PROVE  /\ op.handle \in Handles /\ op.length \in CellLengths /\ op.length \in Nat
         /\ table[op.handle] \in Table
         /\ PageCount \in Nat /\ RowIdToAppend \in RowId
         /\ pc # "descend" => frames # << >>
BY WorkloadAssumption DEF TypeOK, Table, PageCount, RowIdToAppend

(* What a root split of davisbase_tables itself takes its row back to.     *)
LEMMA NewRootEntry ==
  ASSUME TypeOK, NewRoot
  PROVE  entry' \in Entry /\ entry' \in {op.own, entry}
BY DEF NewRoot, TypeOK

(* The frames when a page splits: the leaf's, and the parent's, whose      *)
(* callee has returned.                                                    *)
LEMMA SplitLeafFrames ==
  ASSUME TypeOK, SplitLeaf
  PROVE  /\ frames' \in Seq(Frame) /\ Len(frames') = Len(frames) /\ frames' # << >>
         /\ \A k \in 1..Len(frames)-1 : frames'[k] = frames[k]
         /\ frames'[Len(frames)].no = Current.no
         /\ frames'[Len(frames)].page = SetRight(Current.page, PageCount)
<1>1. frames # << >> /\ frames \in Seq(Frame) /\ PageCount \in PageNo
  BY Busy DEF SplitLeaf, TypeOK, PageNo
<1>2. Current = frames[Len(frames)] /\ SetRight(Current.page, PageCount) \in Page /\ Len(frames) >= 1
  BY <1>1, TopFrame, SetRightType
<1> QED BY <1>1, <1>2, LastPageReplaced DEF SplitLeaf

LEMMA SplitInteriorFrames ==
  ASSUME TypeOK, SplitInterior
  PROVE  /\ frames' \in Seq(Frame) /\ Len(frames') = Len(frames)-1 /\ frames' # << >>
         /\ \A k \in 1..Len(frames)-2 : frames'[k] = frames[k]
         /\ frames'[Len(frames)-1].no = Parent.no
         /\ frames'[Len(frames)-1].page = SetRight(Parent.page, NULL_PAGE_NO)
<1>1. frames # << >> /\ frames \in Seq(Frame) /\ NULL_PAGE_NO \in PageNo /\ ~ AtRoot
  BY Busy DEF SplitInterior, TypeOK, PageNo, NULL_PAGE_NO
<1>2. PICK n : n = Len(frames)-1
  OBVIOUS
<1>3. Parent = frames[n] /\ n \in 1..n /\ SetRight(Parent.page, NULL_PAGE_NO) \in Page
  BY <1>1, <1>2, ParentFrame, SetRightType
<1>4. /\ Front(frames) \in Seq(Frame) /\ Len(Front(frames)) = n
      /\ \A k \in 1..n : Front(frames)[k] = frames[k]
  BY <1>1, <1>2, TopFrame, PopFrame
<1>5. frames' = WithLastPage(Front(frames), SetRight(Parent.page, NULL_PAGE_NO))
  BY DEF SplitInterior
<1>6. n >= 1
  BY <1>3
<1>7. /\ frames' \in Seq(Frame) /\ Len(frames') = n /\ frames' # << >>
      /\ \A k \in 1..n-1 : frames'[k] = Front(frames)[k]
      /\ frames'[n].no = Front(frames)[n].no
      /\ frames'[n].page = SetRight(Parent.page, NULL_PAGE_NO)
  BY <1>3, <1>4, <1>5, <1>6, LastPageReplaced
<1>8. \A k \in 1..Len(frames)-2 : k \in 1..n-1 /\ k \in 1..n
  BY <1>1, <1>2, TopFrame
<1> QED BY <1>2, <1>3, <1>4, <1>7, <1>8

(* The page above the last frame is an interior page.                      *)
LEMMA ParentInterior ==
  ASSUME FramesOK, frames \in Seq(Frame), frames # << >>, ~ AtRoot
  PROVE  Parent.page \in InteriorPage /\ Parent.page.right \in PageNo /\ Parent.no \in Nat
<1>1. Len(frames) - 1 \in 1..Len(frames)-1 /\ Parent = frames[Len(frames)-1]
      /\ Parent.page \in Page /\ Parent.no \in Nat
  BY ParentFrame
<1>2. Parent.page.type = "interior"
  BY <1>1 DEF FramesOK
<1>3. Parent.page \in InteriorPage
  BY <1>1, <1>2, PageKinds
<1> QED BY <1>1, <1>3 DEF InteriorPage

LEMMA TypeInit == Init => TypeOK /\ FramesOK
<1> SUFFICES ASSUME Init PROVE TypeOK /\ FramesOK
  OBVIOUS
<1>1. NewPage("leaf") \in Page
  BY NewPageType DEF Page
<1>2. file \in [DOMAIN file -> Page] /\ DOMAIN file \subseteq Nat
  BY <1>1 DEF Init
<1>3. entry \in Entry /\ Opened \in Table
  BY DEF Init, Entry, Table, Opened, INITIAL_ROW_ID, RowId
<1>4. table \in [Handles -> Table]
  BY <1>3 DEF Init
<1>5. frames \in Seq(Frame) /\ Len(frames) = 0
  BY EmptySeq DEF Init
<1> QED BY <1>2, <1>3, <1>4, <1>5 DEF Init, TypeOK, FramesOK

(* A statement that has ended keeps no Page objects.                       *)
LEMMA Ended ==
  ASSUME Throw
  PROVE  /\ pc' = "idle" /\ op' = << >> /\ frames' = << >>
         /\ frames' \in Seq(Frame) /\ Len(frames') = 0
         /\ FramesOK'
BY EmptySeq DEF Throw, FramesOK

LEMMA Counted ==
  ASSUME TypeOK, pc # "idle", CountPage
  PROVE  table' \in [Handles -> Table] /\ entry' \in Entry
<1>1. PageCount \in Nat /\ PageCount = table[op.handle].page_count /\ op.handle \in Handles
      /\ table[op.handle] \in Table
  BY Busy DEF PageCount
<1>2. [table[op.handle] EXCEPT !.page_count = @ + 1] \in Table
  BY <1>1 DEF Table
<1> QED BY <1>1, <1>2 DEF CountPage, TypeOK, Entry

LEMMA NextRowId ==
  ASSUME NEW t \in Table
  PROVE  [t EXCEPT !.next_row_id = @ + 1] \in Table
BY DEF Table, RowId

(* An interior page with the cell of a split appended.                     *)
LEMMA WithSplitType ==
  ASSUME NEW page \in InteriorPage, NEW old_child \in PageNo,
         split \in [no : Nat, min_row_id : RowId], page.content >= InteriorCellLength
  PROVE  WithSplit(page, old_child) \in InteriorPage
<1>1. [left_child_page_no |-> old_child, row_id |-> split.min_row_id] \in InteriorCell
  BY DEF InteriorCell
<1>2. AppendCell(page, [left_child_page_no |-> old_child, row_id |-> split.min_row_id],
                 InteriorCellLength) \in InteriorPage
  BY <1>1, AppendChild
<1>3. split.no \in PageNo
  BY DEF PageNo
<1> QED BY <1>2, <1>3, SetRightType DEF WithSplit

(* minRowId of a page just created around one cell (table_interior_page.cpp:93). *)
LEMMA MinRowIdOfSplit ==
  ASSUME NEW old_child \in PageNo, NEW length \in Nat, NEW row_id \in RowId
  PROVE  /\ MinRowId(AppendCell(NewPage("leaf"), row_id, length)) = row_id
         /\ MinRowId(WithSplit(NewPage("interior"), old_child)) = split.min_row_id
BY DEF MinRowId, AppendCell, NewPage, WithSplit, SetRight

LEMMA TypeStep == TypeOK /\ FramesOK /\ [CrashNext]_vars => TypeOK' /\ FramesOK'
<1> SUFFICES ASSUME TypeOK, FramesOK, [CrashNext]_vars PROVE TypeOK' /\ FramesOK'
  OBVIOUS
<1> USE DEF TypeOK
<1>1. ASSUME NEW h \in Handles, NEW length \in CellLengths, BeginAppend(h, length)
      PROVE  TypeOK' /\ FramesOK'
  <2>1. Opened \in Table
    BY DEF Opened, Table, Entry
  <2>2. table' \in [Handles -> Table]
    BY <1>1, <2>1 DEF BeginAppend
  <2>3. op' \in [handle : Handles, length : CellLengths, own : Entry]
    BY <1>1 DEF BeginAppend
  <2>4. frames' = << >> /\ Len(frames') = 0
    BY <1>1 DEF BeginAppend, FramesOK
  <2> QED BY <1>1, <2>2, <2>3, <2>4, EmptySeq DEF BeginAppend, FramesOK
<1>2. CASE Descend
  <2>1. PICK f : f = [no |-> PageToVisit, page |-> file[PageToVisit]]
    OBVIOUS
  <2>2. f \in Frame /\ f.page.type \in {"leaf", "interior"} /\ f.page = file[PageToVisit]
    BY <1>2, <2>1, PageKinds DEF Descend, CanRead, Frame
  <2>3. /\ frames' \in Seq(Frame) /\ frames' # << >> /\ Len(frames') = Len(frames) + 1
        /\ \A k \in 1..Len(frames) : frames'[k] = frames[k]
        /\ frames'[Len(frames)+1] = f
    BY <1>2, <2>1, <2>2, AppendProperties DEF Descend
  <2>4. Current' = f
    BY <2>3 DEF Current, Last
  <2>5. FramesOK'
    BY <1>2, <2>2, <2>3, LenProperties DEF Descend, FramesOK
  <2> QED BY <1>2, <2>2, <2>3, <2>4, <2>5 DEF Descend
<1>3. CASE ReadFails
  <2>1. table' \in [Handles -> Table]
    BY <1>3, Busy DEF ReadFails, Table
  <2> QED BY <1>3, <2>1, Ended DEF ReadFails
<1>4. CASE LeafThrows
  BY <1>4, Ended DEF LeafThrows
<1>5. CASE LeafAppend
  <2>1. AppendCell(Current.page, RowIdToAppend, op.length) \in Page
    BY <1>5, Busy, TopFrame, PageKinds, AppendRow DEF LeafAppend, Page
  <2>2. file' \in [DOMAIN file' -> Page] /\ DOMAIN file' \subseteq Nat
    BY <1>5, <2>1, Busy, TopFrame, WriteType DEF LeafAppend
  <2> QED BY <1>5, <2>2 DEF LeafAppend, FramesOK
<1>6. CASE SplitLeaf
  <2>1. AppendCell(NewPage("leaf"), RowIdToAppend, op.length) \in Page
    BY <1>6, Busy, NewPageType, AppendRow DEF SplitLeaf, Page
  <2>2. file' \in [DOMAIN file' -> Page] /\ DOMAIN file' \subseteq Nat
    BY <1>6, <2>1, Busy, WriteType DEF SplitLeaf
  <2>3. split' \in [no : Nat, min_row_id : RowId]
    BY <1>6, Busy, MinRowIdOfSplit DEF SplitLeaf, PageNo
  <2>4. FramesOK'
    BY <1>6, SplitLeafFrames DEF SplitLeaf, FramesOK
  <2> QED BY <1>6, <2>2, <2>3, <2>4, SplitLeafFrames DEF SplitLeaf
<1>7. CASE Relink
  <2>1. file' \in [DOMAIN file' -> Page] /\ DOMAIN file' \subseteq Nat
    BY <1>7, Busy, TopFrame, WriteType DEF Relink
  <2> QED BY <1>7, <2>1 DEF Relink, FramesOK
<1>8. CASE CountSplit
  <2>1. table' \in [Handles -> Table] /\ entry' \in Entry
    BY <1>8, Counted DEF CountSplit
  <2> QED BY <1>8, <2>1 DEF CountSplit, FramesOK
<1>9. CASE AbsorbSplit
  <2>1. Parent.page \in InteriorPage /\ Parent.no \in Nat
    BY <1>9, Busy, ParentInterior DEF AbsorbSplit
  <2>2. Parent.page.content >= InteriorCellLength /\ Parent.page.right \in PageNo
    BY <1>9, <2>1, LenProperties DEF AbsorbSplit, HasEnoughSpace, InteriorPage, HeaderLength,
       SlotLength, InteriorCellLength
  <2>3. WithSplit(Parent.page, Parent.page.right) \in Page
    BY <1>9, <2>1, <2>2, WithSplitType DEF AbsorbSplit, Page
  <2>4. file' \in [DOMAIN file' -> Page] /\ DOMAIN file' \subseteq Nat
    BY <1>9, <2>1, <2>3, WriteType DEF AbsorbSplit
  <2> QED BY <1>9, <2>4 DEF AbsorbSplit, FramesOK
<1>10. CASE SplitInterior
  <2>1. Parent.page \in InteriorPage /\ Parent.no \in Nat /\ Parent.page.right \in PageNo
    BY <1>10, Busy, ParentInterior DEF SplitInterior
  <2>2. NewPage("interior").content >= InteriorCellLength
    BY PageLengthAssumption DEF NewPage, InteriorCellLength, HeaderLength, SlotLength
  <2>3. WithSplit(NewPage("interior"), Parent.page.right) \in Page
    BY <1>10, <2>1, <2>2, NewPageType, WithSplitType DEF SplitInterior, Page
  <2>4. file' \in [DOMAIN file' -> Page] /\ DOMAIN file' \subseteq Nat
    BY <1>10, <2>3, Busy, WriteType DEF SplitInterior
  <2>5. split' \in [no : Nat, min_row_id : RowId]
    BY <1>10, <2>1, Busy, MinRowIdOfSplit DEF SplitInterior, RowId
  <2>6. FramesOK'
    <3>1. \A k \in 1..Len(frames')-1 : k \in 1..Len(frames)-2 /\ k \in 1..Len(frames)-1
      BY <1>10, SplitInteriorFrames, LenProperties
    <3> QED BY <1>10, <3>1, SplitInteriorFrames DEF SplitInterior, FramesOK
  <2> QED BY <1>10, <2>4, <2>5, <2>6, SplitInteriorFrames DEF SplitInterior
<1>11. CASE MoveRoot
  <2>1. file' \in [DOMAIN file' -> Page] /\ DOMAIN file' \subseteq Nat
    BY <1>11, Busy, TopFrame, WriteType DEF MoveRoot
  <2> QED BY <1>11, <2>1 DEF MoveRoot, FramesOK
<1>12. CASE NewRoot
  <2>1. NewPage("interior").content >= InteriorCellLength
    BY PageLengthAssumption DEF NewPage, InteriorCellLength, HeaderLength, SlotLength
  <2>2. WithSplit(NewPage("interior"), PageCount) \in Page
    BY <1>12, <2>1, Busy, NewPageType, WithSplitType DEF NewRoot, Page, PageNo
  <2>3. file' \in [DOMAIN file' -> Page] /\ DOMAIN file' \subseteq Nat
    BY <1>12, <2>2, WriteType DEF NewRoot
  <2> QED BY <1>12, <2>3, NewRootEntry DEF NewRoot, FramesOK
<1>13. CASE CountRoot
  <2>1. table' \in [Handles -> Table] /\ entry' \in Entry
    BY <1>13, Counted DEF CountRoot
  <2> QED BY <1>13, <2>1 DEF CountRoot, FramesOK
<1>14. CASE Finish
  <2>1. table' \in [Handles -> Table] /\ entry' \in Entry /\ live' \in SUBSET RowId
    <3>1. RowIdToAppend \in RowId /\ RowIdToAppend = table[op.handle].next_row_id
          /\ op.handle \in Handles /\ table[op.handle] \in Table
      BY <1>14, Busy DEF Finish, RowIdToAppend
    <3>2. [table[op.handle] EXCEPT !.next_row_id = @ + 1] \in Table
      BY <3>1, NextRowId
    <3>3. RowIdToAppend + 1 \in RowId
      BY <3>1 DEF RowId
    <3> QED BY <1>14, <3>1, <3>2, <3>3 DEF Finish, Entry
  <2> QED BY <1>14, <2>1, Ended DEF Finish
<1>15. ASSUME NEW h \in Handles, Delete(h) PROVE TypeOK' /\ FramesOK'
  <2>0. PICK leaf \in Leaves : \E i \in DOMAIN file[leaf].cells :
          Write(leaf, DeleteRecord(file[leaf], i)) /\ live' = live \ {file[leaf].cells[i]}
    BY <1>15 DEF Delete
  <2>1. PICK i \in DOMAIN file[leaf].cells :
          Write(leaf, DeleteRecord(file[leaf], i)) /\ live' = live \ {file[leaf].cells[i]}
    BY <2>0
  <2>2. leaf \in Nat /\ file[leaf] \in LeafPage
    BY PageKinds DEF Leaves
  <2>3. DeleteRecord(file[leaf], i) \in Page
    BY <2>2, DeleteRecordType DEF Page
  <2>4. file' \in [DOMAIN file' -> Page] /\ DOMAIN file' \subseteq Nat
    BY <2>1, <2>2, <2>3, WriteType
  <2> QED BY <1>15, <2>1, <2>4 DEF Delete, FramesOK
<1>16. CASE Crash
  <2>1. table' \in [Handles -> Table]
    BY <1>16 DEF Crash, Opened, Table, Entry
  <2> QED BY <1>16, <2>1, Ended DEF Crash
<1>17. CASE UNCHANGED vars
  BY <1>17 DEF vars, FramesOK, Current
<1> QED BY <1>1, <1>2, <1>3, <1>4, <1>5, <1>6, <1>7, <1>8, <1>9, <1>10, <1>11, <1>12,
           <1>13, <1>14, <1>15, <1>16, <1>17 DEF CrashNext, Next, AppendStep

(* Whatever the statements, the crashes, and the Table objects that share  *)
(* the file, every page, frame and cached count keeps its type.            *)
THEOREM TypeCorrect == CrashSpec => []TypeOK
<1>1. Init => TypeOK /\ FramesOK
  BY TypeInit
<1>2. TypeOK /\ FramesOK /\ [CrashNext]_vars => (TypeOK /\ FramesOK)'
  BY TypeStep
<1> QED BY <1>1, <1>2, PTL DEF CrashSpec

-----------------------------------------------------------------------------
(* No page of a table file ever loses its slot array to its cells: with    *)
(* several Table objects, and with crashes.                                *)

(* The pages in memory fit as well: they are what Relink and MoveRoot      *)
(* write back without another look.                                        *)
LayoutInv == SlotsBelowCells /\ \A k \in 1..Len(frames) : SlotsFit(frames[k].page)

LEMMA WriteFits ==
  ASSUME SlotsBelowCells, NEW page_no, NEW page, Write(page_no, page), SlotsFit(page)
  PROVE  SlotsBelowCells'
<1>0. /\ DOMAIN file' = DOMAIN file \union {page_no}
      /\ file'[page_no] = page
      /\ \A p \in DOMAIN file : p # page_no => file'[p] = file[p]
  BY WriteEffect
<1>1. ASSUME NEW p \in DOMAIN file' PROVE SlotsFit(file'[p])
  <2>1. CASE p = page_no
    BY <1>0, <2>1
  <2>2. CASE p # page_no
    BY <1>0, <2>2 DEF SlotsBelowCells
  <2> QED BY <2>1, <2>2
<1> QED BY <1>1 DEF SlotsBelowCells, SlotsFit

(* The cell of a split, in a page that has the room.                       *)
LEMMA WithSplitFits ==
  ASSUME NEW page \in InteriorPage, NEW old_child \in PageNo,
         split \in [no : Nat, min_row_id : RowId], HasEnoughSpace(page, InteriorCellLength)
  PROVE  SlotsFit(WithSplit(page, old_child))
<1>1. PICK cell : cell = [left_child_page_no |-> old_child, row_id |-> split.min_row_id]
  OBVIOUS
<1>2. cell \in InteriorCell /\ split.no \in PageNo
  BY <1>1 DEF InteriorCell, PageNo
<1>3. AppendCell(page, cell, InteriorCellLength) \in Page
      /\ SlotsFit(AppendCell(page, cell, InteriorCellLength))
  BY <1>2, AppendChild, AppendChildFits DEF Page
<1>4. WithSplit(page, old_child) = SetRight(AppendCell(page, cell, InteriorCellLength), split.no)
  BY <1>1 DEF WithSplit
<1> QED BY <1>2, <1>3, <1>4, SetRightType

LEMMA LayoutStep == TypeOK /\ FramesOK /\ LayoutInv /\ [CrashNext]_vars => LayoutInv'
<1> SUFFICES ASSUME TypeOK, FramesOK, LayoutInv, [CrashNext]_vars PROVE LayoutInv'
  OBVIOUS
<1>0. /\ SlotsBelowCells
      /\ \A k \in 1..Len(frames) : SlotsFit(frames[k].page)
      /\ frames # << >> => SlotsFit(Current.page)
  BY TopFrame DEF LayoutInv, TypeOK
<1>1. ASSUME UNCHANGED file PROVE SlotsBelowCells'
  BY <1>0, <1>1 DEF SlotsBelowCells
<1>2. ASSUME UNCHANGED frames PROVE \A k \in 1..Len(frames') : SlotsFit(frames'[k].page)
  BY <1>0, <1>2
<1>3. ASSUME Throw PROVE \A k \in 1..Len(frames') : SlotsFit(frames'[k].page)
  BY <1>3, Ended
<1>4. ASSUME NEW h \in Handles, NEW length \in CellLengths, BeginAppend(h, length)
      PROVE  LayoutInv'
  BY <1>1, <1>2, <1>4 DEF BeginAppend, LayoutInv
<1>5. CASE Descend
  <2>1. PICK f : f = [no |-> PageToVisit, page |-> file[PageToVisit]]
    OBVIOUS
  <2>2. f \in Frame /\ SlotsFit(f.page)
    BY <1>0, <1>5, <2>1 DEF Descend, CanRead, Frame, TypeOK, SlotsBelowCells
  <2>3. /\ Len(frames') = Len(frames) + 1 /\ frames'[Len(frames)+1] = f
        /\ \A k \in 1..Len(frames) : frames'[k] = frames[k]
    BY <1>5, <2>1, <2>2, AppendProperties DEF Descend, TypeOK
  <2>4. \A k \in 1..Len(frames') : k \in 1..Len(frames) \/ k = Len(frames)+1
    BY <2>3, LenProperties DEF TypeOK
  <2> QED BY <1>0, <1>1, <1>5, <2>2, <2>3, <2>4 DEF Descend, LayoutInv
<1>6. CASE ReadFails
  BY <1>1, <1>3, <1>6 DEF ReadFails, LayoutInv
<1>7. CASE LeafThrows
  BY <1>1, <1>3, <1>7 DEF LeafThrows, LayoutInv
<1>8. CASE LeafAppend
  <2>1. SlotsFit(AppendCell(Current.page, RowIdToAppend, op.length))
    BY <1>8, Busy, TopFrame, PageKinds, AppendRow DEF LeafAppend, TypeOK
  <2> QED BY <1>0, <1>2, <1>8, <2>1, WriteFits DEF LeafAppend, LayoutInv
<1>9. CASE SplitLeaf
  <2>1. SlotsFit(AppendCell(NewPage("leaf"), RowIdToAppend, op.length))
    BY <1>9, Busy, NewPageType, AppendRow DEF SplitLeaf
  <2>2. SlotsBelowCells'
    BY <1>0, <1>9, <2>1, WriteFits DEF SplitLeaf
  <2>3. SlotsFit(SetRight(Current.page, PageCount))
    BY <1>0, <1>9, Busy, TopFrame, SetRightType DEF SplitLeaf, TypeOK, PageNo
  <2>4. Len(frames) \in Nat /\ \A k \in 1..Len(frames') : k \in 1..Len(frames)-1 \/ k = Len(frames)
    BY <1>9, SplitLeafFrames, LenProperties DEF TypeOK
  <2>5. \A k \in 1..Len(frames)-1 : k \in 1..Len(frames)
    BY <2>4
  <2> QED BY <1>0, <1>9, <2>2, <2>3, <2>4, <2>5, SplitLeafFrames DEF LayoutInv
<1>10. CASE Relink
  BY <1>0, <1>2, <1>10, Busy, WriteFits DEF Relink, LayoutInv
<1>11. CASE CountSplit
  BY <1>1, <1>2, <1>11 DEF CountSplit, LayoutInv
<1>12. CASE AbsorbSplit
  <2>1. Parent.page \in InteriorPage /\ Parent.page.right \in PageNo
    BY <1>12, Busy, ParentInterior DEF AbsorbSplit, TypeOK
  <2>2. SlotsFit(WithSplit(Parent.page, Parent.page.right))
    BY <1>12, <2>1, WithSplitFits DEF AbsorbSplit, TypeOK
  <2> QED BY <1>0, <1>2, <1>12, <2>2, WriteFits DEF AbsorbSplit, LayoutInv
<1>13. CASE SplitInterior
  <2>1. Parent.page \in InteriorPage /\ Parent.page.right \in PageNo
        /\ Len(frames)-1 \in 1..Len(frames) /\ Parent = frames[Len(frames)-1]
    BY <1>13, Busy, ParentInterior, ParentFrame DEF SplitInterior, TypeOK
  <2>2. SlotsFit(WithSplit(NewPage("interior"), Parent.page.right))
    BY <1>13, <2>1, NewPageType, NewInteriorHasRoom, WithSplitFits DEF SplitInterior, TypeOK
  <2>3. SlotsBelowCells'
    BY <1>0, <1>13, <2>2, WriteFits DEF SplitInterior
  <2>4. SlotsFit(SetRight(Parent.page, NULL_PAGE_NO))
    <3>1. Parent.page \in Page /\ NULL_PAGE_NO \in PageNo
      BY <2>1 DEF Page, PageNo, NULL_PAGE_NO
    <3>2. SlotsFit(Parent.page)
      BY <1>0, <2>1
    <3> QED BY <3>1, <3>2, SetRightType
  <2>5. \A k \in 1..Len(frames') :
          k \in 1..Len(frames) /\ (k \in 1..Len(frames)-2 \/ k = Len(frames)-1)
    BY <1>13, SplitInteriorFrames, LenProperties DEF TypeOK
  <2> QED BY <1>0, <1>13, <2>3, <2>4, <2>5, SplitInteriorFrames DEF LayoutInv
<1>14. CASE MoveRoot
  BY <1>0, <1>2, <1>14, Busy, WriteFits DEF MoveRoot, LayoutInv
<1>15. CASE NewRoot
  <2>1. SlotsFit(WithSplit(NewPage("interior"), PageCount))
    BY <1>15, Busy, NewPageType, NewInteriorHasRoom, WithSplitFits DEF NewRoot, PageNo, TypeOK
  <2> QED BY <1>0, <1>2, <1>15, <2>1, WriteFits DEF NewRoot, LayoutInv
<1>16. CASE CountRoot
  BY <1>1, <1>2, <1>16 DEF CountRoot, LayoutInv
<1>17. CASE Finish
  BY <1>1, <1>3, <1>17 DEF Finish, LayoutInv
<1>18. ASSUME NEW h \in Handles, Delete(h) PROVE LayoutInv'
  <2>1. PICK leaf \in Leaves : \E i \in DOMAIN file[leaf].cells : Write(leaf, DeleteRecord(file[leaf], i))
    BY <1>18 DEF Delete
  <2>2. PICK i \in DOMAIN file[leaf].cells : Write(leaf, DeleteRecord(file[leaf], i))
    BY <2>1
  <2>3. file[leaf] \in LeafPage /\ SlotsFit(file[leaf])
    BY <1>0, PageKinds DEF Leaves, TypeOK, SlotsBelowCells
  <2>4. SlotsFit(DeleteRecord(file[leaf], i))
    BY <2>3, DeleteRecordType
  <2> QED BY <1>0, <1>2, <1>18, <2>2, <2>4, WriteFits DEF Delete, LayoutInv
<1>19. CASE Crash
  BY <1>1, <1>3, <1>19 DEF Crash, LayoutInv
<1>20. CASE UNCHANGED vars
  BY <1>1, <1>2, <1>20 DEF vars, LayoutInv
<1> QED BY <1>4, <1>5, <1>6, <1>7, <1>8, <1>9, <1>10, <1>11, <1>12, <1>13, <1>14, <1>15,
           <1>16, <1>17, <1>18, <1>19, <1>20 DEF CrashNext, Next, AppendStep

(* Splits and new roots write their cells without asking for room, and     *)
(* deletes give none back: still the slots of a page never reach its       *)
(* cells.                                                                  *)
THEOREM LayoutCorrect == CrashSpec => []SlotsBelowCells
<1>1. Init => TypeOK /\ FramesOK /\ LayoutInv
  <2> SUFFICES ASSUME Init PROVE LayoutInv
    BY TypeInit
  <2>1. SlotsBelowCells
    BY NewPageType DEF Init, SlotsBelowCells
  <2>2. Len(frames) = 0
    BY EmptySeq DEF Init
  <2> QED BY <2>1, <2>2 DEF LayoutInv
<1>2. TypeOK /\ FramesOK /\ LayoutInv /\ [CrashNext]_vars => (TypeOK /\ FramesOK /\ LayoutInv)'
  BY TypeStep, LayoutStep
<1>3. LayoutInv => SlotsBelowCells
  BY DEF LayoutInv
<1> QED BY <1>1, <1>2, <1>3, PTL DEF CrashSpec

-----------------------------------------------------------------------------
(* A table that has one Table object at a time, in a process that may be   *)
(* killed between any two writes and started again: still no page points   *)
(* outside the file.                                                       *)

(* No row id of a split is above the next one, so that an append goes      *)
(* right on every page, and has read what is on the right: without that,   *)
(* AbsorbSplit could copy the missing rightmost child which a crash after  *)
(* SplitInterior's second write leaves behind.                             *)
PointersOK(page, pages, next) ==
  /\ page.right \in pages \union {NULL_PAGE_NO}
  /\ page.type = "interior" =>
       \A i \in 1..Len(page.cells) : /\ page.cells[i].left_child_page_no \in pages
                                     /\ page.cells[i].row_id <= next

NextIsCurrent ==
  /\ pc = "idle" => \A h \in Schema : table[h].next_row_id = entry.next_row_id
  /\ pc # "idle" => RowIdToAppend = entry.next_row_id /\ op.own.next_row_id = entry.next_row_id
FilePointers == \A p \in DOMAIN file : PointersOK(file[p], DOMAIN file, entry.next_row_id)
FramePointers ==
  \A k \in 1..Len(frames) : /\ frames[k].no \in DOMAIN file
                            /\ PointersOK(frames[k].page, DOMAIN file, entry.next_row_id)
ReadOnTheRight == \A k \in 1..Len(frames)-1 : frames[k].page.right \in DOMAIN file
SplitInFile ==
  /\ pc \in {"relink", "count", "return", "root"} =>
       split.no \in DOMAIN file /\ split.min_row_id <= entry.next_row_id
  /\ pc = "root" => PageCount \in DOMAIN file
PointersInv ==
  NextIsCurrent /\ FilePointers /\ FramePointers /\ ReadOnTheRight /\ SplitInFile

LEMMA PointersMore ==
  ASSUME NEW page \in Page, NEW pages, NEW more, pages \subseteq more,
         NEW a \in Nat, NEW b \in Nat, a <= b, PointersOK(page, pages, a)
  PROVE  PointersOK(page, more, b)
<1>1. page.right \in more \union {NULL_PAGE_NO}
  BY DEF PointersOK
<1>2. ASSUME page.type = "interior", NEW i \in 1..Len(page.cells)
      PROVE  page.cells[i].left_child_page_no \in more /\ page.cells[i].row_id <= b
  <2>1. page.cells \in Seq(InteriorCell)
    BY <1>2, PageKinds DEF InteriorPage
  <2>2. page.cells[i] \in InteriorCell
    BY <1>2, <2>1, ElementOfSeq
  <2>3. page.cells[i].row_id \in Nat
    BY <2>2 DEF InteriorCell, RowId
  <2>4. page.cells[i].left_child_page_no \in pages /\ page.cells[i].row_id <= a
    BY <1>2 DEF PointersOK
  <2> QED BY <2>3, <2>4
<1> QED BY <1>1, <1>2 DEF PointersOK

LEMMA PointersOfLeaf ==
  ASSUME NEW page \in LeafPage, NEW pages, NEW next
  PROVE  PointersOK(page, pages, next) <=> page.right \in pages \union {NULL_PAGE_NO}
BY DEF PointersOK, LeafPage

LEMMA PointersOfNewPage ==
  ASSUME NEW pages, NEW next
  PROVE  PointersOK(NewPage("leaf"), pages, next) /\ PointersOK(NewPage("interior"), pages, next)
<1>1. Len(NewPage("interior").cells) = 0
  BY EmptySeq DEF NewPage
<1> QED BY <1>1 DEF PointersOK, NewPage

LEMMA PointersSetRight ==
  ASSUME NEW page \in Page, NEW right \in PageNo, NEW pages, NEW next,
         right \in pages \union {NULL_PAGE_NO}, PointersOK(page, pages, next)
  PROVE  PointersOK(SetRight(page, right), pages, next)
<1>1. /\ SetRight(page, right).cells = page.cells
      /\ SetRight(page, right).type = page.type
      /\ SetRight(page, right).right = right
  BY DEF SetRight, Page, LeafPage, InteriorPage
<1> QED BY <1>1 DEF PointersOK

(* The page an append goes to next is the right one of the current page.   *)
LEMMA GoesRight ==
  ASSUME NEW page \in InteriorPage, NEW pages, NEW row_id \in Nat, PointersOK(page, pages, row_id)
  PROVE  ChildPageNoByRowId(page, row_id) = page.right
<1>1. page.cells \in Seq(InteriorCell) /\ page.type = "interior"
  BY DEF InteriorPage
<1>2. ASSUME NEW i \in DOMAIN page.cells PROVE ~ (row_id < page.cells[i].row_id)
  <2>1. i \in 1..Len(page.cells)
    BY <1>1, LenProperties
  <2>2. page.cells[i] \in InteriorCell
    BY <1>1, <2>1, ElementOfSeq
  <2>3. page.cells[i].row_id \in Nat
    BY <2>2 DEF InteriorCell, RowId
  <2>4. page.cells[i].row_id <= row_id
    BY <1>1, <2>1 DEF PointersOK
  <2> QED BY <2>3, <2>4
<1> QED BY <1>2 DEF ChildPageNoByRowId

LEMMA PointersWithSplit ==
  ASSUME NEW page \in InteriorPage, NEW old_child \in PageNo, NEW pages, NEW next,
         split \in [no : Nat, min_row_id : RowId],
         PointersOK(page, pages, next), old_child \in pages,
         split.no \in pages, split.min_row_id <= next
  PROVE  PointersOK(WithSplit(page, old_child), pages, next)
<1>1. PICK cell : cell = [left_child_page_no |-> old_child, row_id |-> split.min_row_id]
  OBVIOUS
<1>2. /\ cell \in InteriorCell /\ split.no \in PageNo
      /\ cell.left_child_page_no \in pages /\ cell.row_id <= next
  BY <1>1 DEF InteriorCell, PageNo
<1>3. page.cells \in Seq(InteriorCell) /\ Len(page.cells) \in Nat
  BY LenProperties DEF InteriorPage
<1>4. PICK cells : cells = Append(page.cells, cell)
  OBVIOUS
<1>5. /\ Len(cells) = Len(page.cells) + 1 /\ cells[Len(page.cells)+1] = cell
      /\ \A i \in 1..Len(page.cells) : cells[i] = page.cells[i]
  BY <1>2, <1>3, <1>4, AppendProperties
<1>6. \A i \in 1..Len(cells) : i \in 1..Len(page.cells) \/ i = Len(page.cells)+1
  BY <1>3, <1>5
<1>7. \A i \in 1..Len(page.cells) :
        page.cells[i].left_child_page_no \in pages /\ page.cells[i].row_id <= next
  BY DEF PointersOK, InteriorPage
<1>8. \A i \in 1..Len(cells) : cells[i].left_child_page_no \in pages /\ cells[i].row_id <= next
  BY <1>2, <1>5, <1>6, <1>7
<1>9. /\ WithSplit(page, old_child).cells = cells
      /\ WithSplit(page, old_child).right = split.no
  BY <1>1, <1>4 DEF WithSplit, SetRight, AppendCell, InteriorPage
<1> QED BY <1>2, <1>8, <1>9 DEF PointersOK

-----------------------------------------------------------------------------

LEMMA NextStep ==
  ASSUME OneTableObject, TypeOK, NextIsCurrent, [CrashNext]_vars
  PROVE  NextIsCurrent'
<1>1. ASSUME NEW h \in Handles, NEW length \in CellLengths, BeginAppend(h, length)
      PROVE  NextIsCurrent'
  <2>1. /\ pc = "idle" /\ pc' = "descend" /\ UNCHANGED entry
        /\ op'.handle = h /\ op'.own = entry
    BY <1>1 DEF BeginAppend
  <2>2. table'[h].next_row_id = entry.next_row_id
    <3>1. CASE h \in Schema
      BY <1>1, <2>1, <3>1 DEF BeginAppend, NextIsCurrent
    <3>2. CASE h \notin Schema
      <4>1. table' = [table EXCEPT ![h] = Opened]
        BY <1>1, <3>2 DEF BeginAppend
      <4>2. table'[h] = Opened
        BY <4>1 DEF TypeOK
      <4> QED BY <4>2 DEF Opened
    <3> QED BY <3>1, <3>2
  <2> QED BY <2>1, <2>2 DEF RowIdToAppend, NextIsCurrent
<1>2. ASSUME UNCHANGED <<table, op>>, pc # "idle", pc' # "idle", entry' \in {entry, op.own}
      PROVE  NextIsCurrent'
  BY <1>2 DEF RowIdToAppend, NextIsCurrent
<1>3. CASE CountSplit \/ CountRoot
  <2>1. /\ op.handle \in Handles /\ table[op.handle] \in Table
        /\ table' = [table EXCEPT ![op.handle].page_count = @ + 1]
    BY <1>3, Busy DEF CountSplit, CountRoot, CountPage
  <2>2. table'[op.handle].next_row_id = table[op.handle].next_row_id
    BY <2>1 DEF Table, TypeOK
  <2>3. entry'.next_row_id = entry.next_row_id
    BY <1>3 DEF CountSplit, CountRoot, CountPage, Entry, TypeOK
  <2> QED BY <1>3, <2>2, <2>3 DEF CountSplit, CountRoot, RowIdToAppend, NextIsCurrent
<1>4. CASE \/ Descend \/ LeafAppend \/ SplitLeaf \/ Relink \/ AbsorbSplit
           \/ SplitInterior \/ MoveRoot \/ NewRoot
  BY <1>2, <1>4, NewRootEntry DEF Descend, LeafAppend, SplitLeaf, Relink, AbsorbSplit,
     SplitInterior, MoveRoot, NewRoot
<1>5. CASE ReadFails \/ LeafThrows
  <2> SUFFICES ASSUME NEW h \in Schema PROVE table'[h].next_row_id = entry.next_row_id
    BY <1>5 DEF ReadFails, LeafThrows, Throw, NextIsCurrent
  <2>1. op.handle \in Handles /\ h = op.handle /\ pc # "idle"
    BY <1>5, Busy, WorkloadAssumption DEF OneTableObject, ReadFails, LeafThrows
  <2>2. table' = table \/ table' = [table EXCEPT ![op.handle].good = FALSE]
    BY <1>5 DEF ReadFails, LeafThrows
  <2>3. table'[h].next_row_id = table[h].next_row_id
    BY <2>1, <2>2 DEF TypeOK, Table
  <2> QED BY <2>1, <2>3 DEF RowIdToAppend, NextIsCurrent
<1>6. CASE Finish
  <2>1. op.handle \in Handles /\ table[op.handle] \in Table
    BY <1>6, Busy DEF Finish
  <2>2. table'[op.handle].next_row_id = table[op.handle].next_row_id + 1
    BY <1>6, <2>1 DEF Finish, Table, TypeOK
  <2>3. entry'.next_row_id = RowIdToAppend + 1
    BY <1>6 DEF Finish, Entry, TypeOK
  <2>4. \A h \in Schema : h = op.handle
    BY <2>1 DEF OneTableObject
  <2>5. pc' = "idle"
    BY <1>6 DEF Finish, Throw
  <2> QED BY <2>2, <2>3, <2>4, <2>5 DEF RowIdToAppend, NextIsCurrent
<1>7. CASE Crash
  <2>1. pc' = "idle" /\ UNCHANGED entry /\ table' = [h \in Handles |-> Opened]
    BY <1>7 DEF Crash, Throw
  <2>2. \A h \in Schema : table'[h] = Opened
    BY <2>1, WorkloadAssumption
  <2>3. Opened.next_row_id = entry'.next_row_id
    BY <2>1 DEF Opened
  <2> QED BY <2>1, <2>2, <2>3 DEF NextIsCurrent
<1>8. ASSUME NEW h \in Handles, Delete(h) PROVE NextIsCurrent'
  BY <1>8 DEF Delete, NextIsCurrent
<1>9. CASE UNCHANGED vars
  BY <1>9 DEF vars, RowIdToAppend, NextIsCurrent
<1>10. CASE AppendStep
  BY <1>3, <1>4, <1>5, <1>6, <1>10 DEF AppendStep
<1> QED BY <1>1, <1>7, <1>8, <1>9, <1>10 DEF CrashNext, Next

(* A write of a page that points into the file, which may have grown.      *)
LEMMA WritePointers ==
  ASSUME TypeOK, FilePointers, NEW page_no, NEW page, Write(page_no, page),
         entry'.next_row_id = entry.next_row_id, PointersOK(page, DOMAIN file', entry.next_row_id)
  PROVE  FilePointers'
<1>0. /\ DOMAIN file' = DOMAIN file \union {page_no}
      /\ file'[page_no] = page
      /\ \A p \in DOMAIN file : p # page_no => file'[p] = file[p]
  BY WriteEffect
<1> SUFFICES ASSUME NEW p \in DOMAIN file' PROVE PointersOK(file'[p], DOMAIN file', entry.next_row_id)
  BY DEF FilePointers
<1>1. CASE p = page_no
  BY <1>0, <1>1
<1>2. CASE p # page_no
  <2>1. p \in DOMAIN file /\ file'[p] = file[p] /\ file[p] \in Page
    BY <1>0, <1>2 DEF TypeOK
  <2>2. PointersOK(file[p], DOMAIN file, entry.next_row_id) /\ entry.next_row_id \in Nat
    BY <2>1 DEF FilePointers, TypeOK, Entry, RowId
  <2>3. DOMAIN file \subseteq DOMAIN file'
    BY <1>0
  <2> QED BY <2>1, <2>2, <2>3, PointersMore
<1> QED BY <1>1, <1>2

(* The Page objects in memory, when the file or next_row_id grows.         *)
LEMMA KeptFrames ==
  ASSUME TypeOK, FramePointers, DOMAIN file \subseteq DOMAIN file',
         entry'.next_row_id \in Nat, entry.next_row_id <= entry'.next_row_id,
         NEW k \in 1..Len(frames)
  PROVE  /\ frames[k].no \in DOMAIN file'
         /\ frames[k].page \in Page
         /\ PointersOK(frames[k].page, DOMAIN file', entry'.next_row_id)
<1>1. frames[k].page \in Page
  BY FramePages DEF TypeOK
<1>2. frames[k].no \in DOMAIN file /\ PointersOK(frames[k].page, DOMAIN file, entry.next_row_id)
      /\ entry.next_row_id \in Nat
  BY DEF FramePointers, TypeOK, Entry, RowId
<1> QED BY <1>1, <1>2, PointersMore

LEMMA FramesStay ==
  ASSUME TypeOK, FramePointers, ReadOnTheRight, UNCHANGED frames, DOMAIN file \subseteq DOMAIN file',
         entry'.next_row_id \in Nat, entry.next_row_id <= entry'.next_row_id
  PROVE  FramePointers' /\ ReadOnTheRight'
<1>1. FramePointers'
  BY KeptFrames DEF FramePointers
<1>2. ReadOnTheRight'
  BY DEF ReadOnTheRight
<1> QED BY <1>1, <1>2

LEMMA FramesDie ==
  ASSUME Throw PROVE FramePointers' /\ ReadOnTheRight' /\ SplitInFile'
BY Ended DEF FramePointers, ReadOnTheRight, SplitInFile

LEMMA PointersStep ==
  ASSUME TypeOK, FramesOK, PointersInv, [CrashNext]_vars
  PROVE  FilePointers' /\ FramePointers' /\ ReadOnTheRight' /\ SplitInFile'
<1> DEFINE next == entry.next_row_id
<1> DEFINE Goal == FilePointers' /\ FramePointers' /\ ReadOnTheRight' /\ SplitInFile'
<1>0. /\ NextIsCurrent /\ FilePointers /\ FramePointers /\ ReadOnTheRight /\ SplitInFile
      /\ next \in Nat
      /\ frames # << >> => Current.no \in DOMAIN file /\ PointersOK(Current.page, DOMAIN file, next)
  BY TopFrame DEF PointersInv, FramePointers, TypeOK, Entry, RowId
<1>1. ASSUME UNCHANGED <<file, entry, frames>>, SplitInFile' PROVE Goal
  BY <1>0, <1>1, FramesStay DEF FilePointers
<1>2. ASSUME UNCHANGED <<file, entry>>, Throw PROVE Goal
  BY <1>0, <1>2, FramesDie DEF FilePointers
<1>3. ASSUME NEW page_no, NEW page, Write(page_no, page), UNCHANGED frames,
             entry'.next_row_id = next, PointersOK(page, DOMAIN file', next), SplitInFile'
      PROVE  Goal
  <2>1. DOMAIN file \subseteq DOMAIN file'
    BY <1>3, WriteEffect
  <2>2. FilePointers'
    BY <1>0, <1>3, WritePointers
  <2> QED BY <1>0, <1>3, <2>1, <2>2, FramesStay
<1>4. ASSUME NEW h \in Handles, NEW length \in CellLengths, BeginAppend(h, length) PROVE Goal
  <2>1. SplitInFile'
    BY <1>4 DEF BeginAppend, SplitInFile
  <2> QED BY <1>1, <1>4, <2>1 DEF BeginAppend
<1>5. CASE Descend
  <2>1. PICK f : f = [no |-> PageToVisit, page |-> file[PageToVisit]]
    OBVIOUS
  <2>2. f \in Frame /\ f.no \in DOMAIN file /\ PointersOK(f.page, DOMAIN file, next)
    BY <1>0, <1>5, <2>1 DEF Descend, CanRead, Frame, TypeOK, FilePointers
  <2>3. /\ Len(frames) \in Nat /\ Len(frames') = Len(frames) + 1 /\ frames'[Len(frames)+1] = f
        /\ \A k \in 1..Len(frames) : frames'[k] = frames[k]
    BY <1>5, <2>1, <2>2, AppendProperties, LenProperties DEF Descend, TypeOK
  <2>4. \A k \in 1..Len(frames') : k \in 1..Len(frames) \/ k = Len(frames)+1
    BY <2>3
  <2>5. FramePointers'
    BY <1>0, <1>5, <2>2, <2>3, <2>4 DEF Descend, FramePointers
  <2>6. ASSUME frames # << >>
        PROVE  Current = frames[Len(frames)] /\ Current.page.right \in DOMAIN file
    <3>1. Current = frames[Len(frames)] /\ Len(frames) \in 1..Len(frames) /\ Current.page \in Page
      BY <2>6, TopFrame DEF TypeOK
    <3>2. Current.page \in InteriorPage
      BY <1>5, <3>1, PageKinds DEF FramesOK, Descend
    <3>3. RowIdToAppend = next
      BY <1>0, <1>5 DEF Descend, NextIsCurrent
    <3>4. PageToVisit = Current.page.right
      BY <1>0, <2>6, <3>2, <3>3, GoesRight DEF PageToVisit
    <3> QED BY <1>5, <3>1, <3>4 DEF Descend, CanRead
  <2>7. \A k \in 1..Len(frames')-1 :
          k \in 1..Len(frames) /\ (k \in 1..Len(frames)-1 \/ k = Len(frames)) /\ frames # << >>
    BY <2>3, EmptySeq
  <2>8. ReadOnTheRight'
    BY <1>0, <1>5, <2>3, <2>6, <2>7 DEF Descend, ReadOnTheRight
  <2>9. SplitInFile'
    BY <1>5 DEF Descend, SplitInFile
  <2> QED BY <1>0, <1>5, <2>5, <2>8, <2>9 DEF Descend, FilePointers
<1>6. CASE ReadFails \/ LeafThrows
  BY <1>2, <1>6 DEF ReadFails, LeafThrows
<1>7. CASE LeafAppend
  <2>1. Current.page \in LeafPage /\ RowIdToAppend \in RowId /\ op.length \in Nat
    BY <1>7, Busy, TopFrame, PageKinds DEF LeafAppend, TypeOK
  <2>2. AppendCell(Current.page, RowIdToAppend, op.length) \in LeafPage
    BY <1>7, <2>1, AppendRow DEF LeafAppend
  <2>3. AppendCell(Current.page, RowIdToAppend, op.length).right = Current.page.right
    BY <2>1 DEF AppendCell, LeafPage
  <2>4. Current.page.right \in DOMAIN file \union {NULL_PAGE_NO}
    BY <1>0, <1>7, Busy DEF LeafAppend, PointersOK
  <2>5. DOMAIN file \subseteq DOMAIN file'
    BY <1>7, WriteEffect DEF LeafAppend
  <2>6. PointersOK(AppendCell(Current.page, RowIdToAppend, op.length), DOMAIN file', next)
    BY <2>2, <2>3, <2>4, <2>5, PointersOfLeaf
  <2>7. SplitInFile'
    BY <1>7 DEF LeafAppend, SplitInFile
  <2> QED BY <1>3, <1>7, <2>6, <2>7 DEF LeafAppend
<1>8. CASE SplitLeaf
  <2>1. RowIdToAppend \in RowId /\ op.length \in Nat /\ PageCount \in PageNo /\ frames # << >>
    BY <1>8, Busy DEF SplitLeaf, PageNo
  <2>2. PICK page : page = AppendCell(NewPage("leaf"), RowIdToAppend, op.length)
    OBVIOUS
  <2>3. /\ page \in LeafPage /\ page.right = NULL_PAGE_NO
        /\ MinRowId(page) = RowIdToAppend
    BY <1>8, <2>1, <2>2, NewPageType, AppendRow, MinRowIdOfSplit
       DEF SplitLeaf, PageNo, AppendCell, NewPage
  <2>4. Write(PageCount, page) /\ split' = [no |-> PageCount, min_row_id |-> MinRowId(page)]
    BY <1>8, <2>2 DEF SplitLeaf
  <2>5. DOMAIN file \subseteq DOMAIN file' /\ PageCount \in DOMAIN file'
    BY <2>4, WriteEffect
  <2>6. FilePointers'
    <3>1. PointersOK(page, DOMAIN file', next)
      BY <2>3, PointersOfLeaf
    <3> QED BY <1>0, <1>8, <2>4, <3>1, WritePointers DEF SplitLeaf
  <2>7. UNCHANGED entry /\ entry'.next_row_id \in Nat /\ next <= entry'.next_row_id
    BY <1>0, <1>8 DEF SplitLeaf
  <2>8. PointersOK(SetRight(Current.page, PageCount), DOMAIN file', next)
    <3>1. Current = frames[Len(frames)] /\ Len(frames) \in 1..Len(frames)
      BY <2>1, TopFrame DEF TypeOK
    <3>2. Current.page \in Page /\ PointersOK(Current.page, DOMAIN file', next)
      BY <1>0, <2>5, <2>7, <3>1, KeptFrames
    <3> QED BY <2>1, <2>5, <3>2, PointersSetRight
  <2>9. Len(frames) \in Nat /\ \A k \in 1..Len(frames) : k \in 1..Len(frames)-1 \/ k = Len(frames)
    BY LenProperties DEF TypeOK
  <2>10. ASSUME NEW k \in 1..Len(frames')
         PROVE  frames'[k].no \in DOMAIN file' /\ PointersOK(frames'[k].page, DOMAIN file', next)
    <3>1. CASE k = Len(frames)
      BY <1>0, <1>8, <2>1, <2>5, <2>8, <3>1, SplitLeafFrames
    <3>2. CASE k \in 1..Len(frames)-1
      <4>1. k \in 1..Len(frames) /\ frames'[k] = frames[k]
        BY <1>8, <2>9, <3>2, SplitLeafFrames
      <4> QED BY <1>0, <2>5, <2>7, <4>1, KeptFrames
    <3> QED BY <1>8, <2>9, <3>1, <3>2, SplitLeafFrames
  <2>11. FramePointers'
    BY <2>7, <2>10 DEF FramePointers
  <2>12. ReadOnTheRight'
    BY <1>0, <1>8, <2>5, SplitLeafFrames DEF ReadOnTheRight
  <2>13. SplitInFile'
    BY <1>0, <1>8, <2>3, <2>4, <2>5, <2>7 DEF SplitLeaf, SplitInFile, NextIsCurrent
  <2> QED BY <2>6, <2>11, <2>12, <2>13
<1>9. CASE Relink
  <2>1. PointersOK(Current.page, DOMAIN file', next)
    <3>1. frames # << >> /\ Write(Current.no, Current.page) /\ UNCHANGED entry
      BY <1>9, Busy DEF Relink
    <3>2. Current = frames[Len(frames)] /\ Len(frames) \in 1..Len(frames)
      BY <3>1, TopFrame DEF TypeOK
    <3>3. DOMAIN file \subseteq DOMAIN file'
      BY <3>1, WriteEffect
    <3> QED BY <1>0, <3>1, <3>2, <3>3, KeptFrames
  <2>2. SplitInFile'
    BY <1>0, <1>9, WriteEffect DEF Relink, SplitInFile
  <2> QED BY <1>3, <1>9, <2>1, <2>2 DEF Relink
<1>10. CASE CountSplit \/ CountRoot
  <2>1. UNCHANGED <<file, frames, split>> /\ entry'.next_row_id = next
    BY <1>10 DEF CountSplit, CountRoot, CountPage, TypeOK, Entry
  <2>2. FilePointers'
    BY <1>0, <2>1 DEF FilePointers
  <2>3. SplitInFile'
    BY <1>0, <1>10, <2>1 DEF CountSplit, CountRoot, SplitInFile
  <2> QED BY <1>0, <2>1, <2>2, <2>3, FramesStay
<1>11. ASSUME frames # << >>, ~ AtRoot
       PROVE  /\ Parent.page \in InteriorPage /\ Parent.page.right \in PageNo
              /\ Parent.page.right \in DOMAIN file /\ Parent.no \in DOMAIN file
              /\ PointersOK(Parent.page, DOMAIN file, next)
  <2>1. Parent.page \in InteriorPage /\ Parent.page.right \in PageNo
    BY <1>11, ParentInterior DEF TypeOK
  <2>2. /\ Len(frames)-1 \in 1..Len(frames)-1 /\ Len(frames)-1 \in 1..Len(frames)
        /\ Parent = frames[Len(frames)-1]
    BY <1>11, ParentFrame DEF TypeOK
  <2> QED BY <1>0, <2>1, <2>2 DEF ReadOnTheRight, FramePointers
<1>12. CASE AbsorbSplit
  <2>1. /\ Parent.page \in InteriorPage /\ Parent.page.right \in PageNo
        /\ Parent.page.right \in DOMAIN file /\ PointersOK(Parent.page, DOMAIN file, next)
    BY <1>11, <1>12, Busy DEF AbsorbSplit
  <2>2. PICK page : page = WithSplit(Parent.page, Parent.page.right)
    OBVIOUS
  <2>3. PointersOK(page, DOMAIN file, next)
    <3>1. /\ split \in [no : Nat, min_row_id : RowId]
          /\ split.no \in DOMAIN file /\ split.min_row_id <= next
      BY <1>0, <1>12 DEF AbsorbSplit, SplitInFile, TypeOK
    <3> QED BY <2>1, <2>2, <3>1, PointersWithSplit
  <2>4. page \in Page
    <3>1. Parent.page.content >= InteriorCellLength
      BY <1>12, <2>1, LenProperties DEF AbsorbSplit, HasEnoughSpace, InteriorPage, HeaderLength,
         SlotLength, InteriorCellLength
    <3> QED BY <1>12, <2>1, <2>2, <3>1, WithSplitType DEF AbsorbSplit, TypeOK, Page
  <2>5. DOMAIN file \subseteq DOMAIN file'
    BY <1>12, WriteEffect DEF AbsorbSplit
  <2>6. next \in Nat /\ next <= next
    BY <1>0
  <2>7. PointersOK(page, DOMAIN file', next)
    BY <2>3, <2>4, <2>5, <2>6, PointersMore
  <2>8. SplitInFile'
    BY <1>12 DEF AbsorbSplit, SplitInFile
  <2> QED BY <1>3, <1>12, <2>2, <2>7, <2>8 DEF AbsorbSplit
<1>13. CASE SplitInterior
  <2>1. /\ Parent.page \in InteriorPage /\ Parent.page.right \in PageNo
        /\ Parent.page.right \in DOMAIN file /\ Parent.no \in DOMAIN file
        /\ PointersOK(Parent.page, DOMAIN file, next)
    BY <1>11, <1>13, Busy DEF SplitInterior
  <2>2. PICK page : page = WithSplit(NewPage("interior"), Parent.page.right)
    OBVIOUS
  <2>3. MinRowId(page) = split.min_row_id
    BY <2>1, <2>2, MinRowIdOfSplit DEF RowId
  <2>4. Write(PageCount, page) /\ split' = [no |-> PageCount, min_row_id |-> MinRowId(page)]
    BY <1>13, <2>2 DEF SplitInterior
  <2>5. DOMAIN file \subseteq DOMAIN file' /\ PageCount \in DOMAIN file'
    BY <2>4, WriteEffect
  <2>6. split.no \in DOMAIN file /\ split.min_row_id <= next /\ split \in [no : Nat, min_row_id : RowId]
    BY <1>0, <1>13 DEF SplitInterior, SplitInFile, TypeOK
  <2>7. PointersOK(page, DOMAIN file', next)
    <3>1. PointersOK(NewPage("interior"), DOMAIN file', next)
      BY PointersOfNewPage
    <3> QED BY <2>1, <2>2, <2>5, <2>6, <3>1, NewPageType, PointersWithSplit
  <2>8. FilePointers'
    BY <1>0, <1>13, <2>4, <2>7, WritePointers DEF SplitInterior
  <2>9. UNCHANGED entry /\ entry'.next_row_id \in Nat /\ next <= entry'.next_row_id
    BY <1>0, <1>13 DEF SplitInterior
  <2>10. PointersOK(SetRight(Parent.page, NULL_PAGE_NO), DOMAIN file', next)
    <3>1. Parent.page \in Page /\ NULL_PAGE_NO \in PageNo
      BY <2>1 DEF Page, PageNo, NULL_PAGE_NO
    <3>2. PointersOK(Parent.page, DOMAIN file', next)
      BY <1>0, <2>1, <2>5, <3>1, PointersMore
    <3> QED BY <3>1, <3>2, PointersSetRight
  <2>11. \A k \in 1..Len(frames') :
           k \in 1..Len(frames) /\ (k \in 1..Len(frames)-2 \/ k = Len(frames)-1)
    BY <1>13, SplitInteriorFrames, LenProperties DEF TypeOK
  <2>12. ASSUME NEW k \in 1..Len(frames')
         PROVE  frames'[k].no \in DOMAIN file' /\ PointersOK(frames'[k].page, DOMAIN file', next)
    <3>1. CASE k = Len(frames)-1
      BY <1>13, <2>1, <2>5, <2>10, <3>1, SplitInteriorFrames
    <3>2. CASE k \in 1..Len(frames)-2
      <4>1. k \in 1..Len(frames) /\ frames'[k] = frames[k]
        BY <1>13, <2>11, <3>2, SplitInteriorFrames
      <4> QED BY <1>0, <2>5, <2>9, <4>1, KeptFrames
    <3> QED BY <2>11, <3>1, <3>2
  <2>13. FramePointers'
    BY <2>9, <2>12 DEF FramePointers
  <2>14. \A k \in 1..Len(frames')-1 : k \in 1..Len(frames)-1 /\ k \in 1..Len(frames)-2
    BY <1>13, SplitInteriorFrames, LenProperties DEF TypeOK
  <2>15. ReadOnTheRight'
    BY <1>0, <1>13, <2>5, <2>14, SplitInteriorFrames DEF ReadOnTheRight
  <2>16. SplitInFile'
    BY <1>13, <2>3, <2>4, <2>5, <2>6, <2>9 DEF SplitInterior, SplitInFile
  <2> QED BY <2>8, <2>13, <2>15, <2>16
<1>14. CASE MoveRoot
  <2>1. frames # << >> /\ Write(PageCount, Current.page) /\ UNCHANGED <<entry, table, op, split>>
    BY <1>14, Busy DEF MoveRoot
  <2>2. DOMAIN file \subseteq DOMAIN file' /\ PageCount \in DOMAIN file'
    BY <2>1, WriteEffect
  <2>3. PointersOK(Current.page, DOMAIN file', next)
    <3>1. Current = frames[Len(frames)] /\ Len(frames) \in 1..Len(frames)
      BY <2>1, TopFrame DEF TypeOK
    <3> QED BY <1>0, <2>1, <2>2, <3>1, KeptFrames
  <2>4. SplitInFile'
    BY <1>0, <1>14, <2>1, <2>2 DEF MoveRoot, SplitInFile, PageCount
  <2> QED BY <1>3, <1>14, <2>1, <2>3, <2>4 DEF MoveRoot
<1>15. CASE NewRoot
  <2>1. PageCount \in DOMAIN file /\ PageCount \in PageNo /\ split.no \in DOMAIN file
        /\ split.min_row_id <= next /\ split \in [no : Nat, min_row_id : RowId]
    BY <1>0, <1>15, Busy DEF NewRoot, SplitInFile, TypeOK, PageNo
  <2>2. DOMAIN file \subseteq DOMAIN file'
    BY <1>15, WriteEffect DEF NewRoot
  <2>3. PointersOK(NewPage("interior"), DOMAIN file', next)
    BY PointersOfNewPage
  <2>4. PointersOK(WithSplit(NewPage("interior"), PageCount), DOMAIN file', next)
    BY <2>1, <2>2, <2>3, NewPageType, PointersWithSplit
  <2>5. SplitInFile'
    BY <1>15 DEF NewRoot, SplitInFile
  <2>6. entry'.next_row_id = next
    BY <1>0, <1>15, NewRootEntry DEF NewRoot, NextIsCurrent
  <2> QED BY <1>3, <1>15, <2>4, <2>5, <2>6 DEF NewRoot
<1>16. CASE Finish
  <2>1. UNCHANGED file /\ Throw /\ entry'.next_row_id = next + 1
    BY <1>0, <1>16 DEF Finish, NextIsCurrent, TypeOK, Entry
  <2>2. next + 1 \in Nat /\ next <= next + 1
    BY <1>0
  <2>3. FilePointers'
    BY <1>0, <2>1, <2>2, PointersMore DEF FilePointers, TypeOK
  <2> QED BY <2>1, <2>3, FramesDie
<1>17. ASSUME NEW h \in Handles, Delete(h) PROVE Goal
  <2>1. PICK leaf \in Leaves : \E i \in DOMAIN file[leaf].cells : Write(leaf, DeleteRecord(file[leaf], i))
    BY <1>17 DEF Delete
  <2>2. PICK i \in DOMAIN file[leaf].cells : Write(leaf, DeleteRecord(file[leaf], i))
    BY <2>1
  <2>3. leaf \in DOMAIN file /\ file[leaf] \in LeafPage
    BY PageKinds DEF Leaves, TypeOK
  <2>4. DOMAIN file \subseteq DOMAIN file'
    BY <2>2, WriteEffect
  <2>5. file[leaf].right \in DOMAIN file \union {NULL_PAGE_NO}
    BY <1>0, <2>3 DEF FilePointers, PointersOK
  <2>6. PointersOK(DeleteRecord(file[leaf], i), DOMAIN file', next)
    BY <2>3, <2>4, <2>5, DeleteRecordType, PointersOfLeaf
  <2>7. SplitInFile'
    BY <1>0, <1>17, <2>4 DEF Delete, SplitInFile, PageCount
  <2> QED BY <1>3, <1>17, <2>2, <2>6, <2>7 DEF Delete
<1>18. CASE Crash
  BY <1>2, <1>18 DEF Crash
<1>19. CASE UNCHANGED vars
  <2>1. SplitInFile'
    BY <1>0, <1>19 DEF vars, SplitInFile, PageCount
  <2> QED BY <1>1, <1>19, <2>1 DEF vars
<1> QED BY <1>4, <1>5, <1>6, <1>7, <1>8, <1>9, <1>10, <1>12, <1>13, <1>14, <1>15, <1>16,
           <1>17, <1>18, <1>19 DEF CrashNext, Next, AppendStep

LEMMA PointersInit ==
  ASSUME Init PROVE TypeOK /\ FramesOK /\ PointersInv
<1>1. FilePointers
  BY PointersOfNewPage DEF Init, FilePointers
<1>2. Len(frames) = 0
  BY EmptySeq DEF Init
<1>3. FramePointers /\ ReadOnTheRight
  BY <1>2 DEF FramePointers, ReadOnTheRight
<1>4. NextIsCurrent /\ SplitInFile
  BY WorkloadAssumption DEF Init, Opened, NextIsCurrent, SplitInFile
<1> QED BY <1>1, <1>3, <1>4, TypeInit DEF PointersInv

LEMMA PointersInvStep ==
  ASSUME OneTableObject
  PROVE  TypeOK /\ FramesOK /\ PointersInv /\ [CrashNext]_vars
           => (TypeOK /\ FramesOK /\ PointersInv)'
<1> SUFFICES ASSUME TypeOK, FramesOK, PointersInv, [CrashNext]_vars
             PROVE  (TypeOK /\ FramesOK /\ PointersInv)'
  OBVIOUS
<1>1. TypeOK' /\ FramesOK'
  BY TypeStep
<1>2. NextIsCurrent'
  BY NextStep DEF PointersInv
<1>3. FilePointers' /\ FramePointers' /\ ReadOnTheRight' /\ SplitInFile'
  BY PointersStep
<1> QED BY <1>1, <1>2, <1>3 DEF PointersInv

(* appendRecord writes every page before the page that points to it, so    *)
(* that whenever the process is killed, and whatever the statements after  *)
(* that do to the page numbers in use, no scan is led outside the file     *)
(* (table.cpp:102-105, table_leaf_page.cpp:355-358,                        *)
(* table_interior_page.cpp:105-109).                                       *)
THEOREM PointersStayInFile ==
  ASSUME OneTableObject PROVE CrashSpec => []NoDanglingPage
<1>1. Init => TypeOK /\ FramesOK /\ PointersInv
  BY PointersInit
<1>2. TypeOK /\ FramesOK /\ PointersInv /\ [CrashNext]_vars
      => (TypeOK /\ FramesOK /\ PointersInv)'
  BY PointersInvStep
<1>3. TypeOK /\ PointersInv => NoDanglingPage
  <2> SUFFICES ASSUME TypeOK, PointersInv, NEW p \in DOMAIN file
               PROVE  /\ file[p].right \in DOMAIN file \union {NULL_PAGE_NO}
                      /\ file[p].type = "interior" =>
                           \A i \in DOMAIN file[p].cells :
                             file[p].cells[i].left_child_page_no \in DOMAIN file
    BY DEF NoDanglingPage
  <2>1. PointersOK(file[p], DOMAIN file, entry.next_row_id)
    BY DEF PointersInv, FilePointers
  <2>2. file[p].type = "interior" => DOMAIN file[p].cells = 1..Len(file[p].cells)
    BY PageKinds, LenProperties DEF TypeOK, InteriorPage
  <2> QED BY <2>1, <2>2 DEF PointersOK
<1> QED BY <1>1, <1>2, <1>3, PTL DEF CrashSpec

-----------------------------------------------------------------------------
(* A table that has one Table object at a time, in a process that is not   *)
(* killed: opened anew by each statement, as the tables users create, or   *)
(* one that lives as long as the process, as those of the schema, with the *)
(* row about itself or not.  What the Table object knows is what is in the *)
(* file: no append is refused as decreasing, no split takes a page number  *)
(* in use, and the catalog row catches up whenever an append ends.         *)


RowsBelow(page, limit) ==
  page.type = "leaf" => \A i \in 1..Len(page.cells) : page.cells[i] < limit

(* The row being appended may be in the file before next_row_id passes it. *)
Limit == entry.next_row_id + IF pc \in {"idle", "descend", "leaf"} THEN 0 ELSE 1

(* The row about itself falls behind for one write of a root split.        *)
KnownPages == IF pc = "count_root" THEN PageCount ELSE entry.page_count

(* A page just written is counted two writes later. *)
Uncounted == pc \in {"relink", "count", "root", "count_root"}
LastPageNo == KnownPages - IF Uncounted THEN 0 ELSE 1

EntryIsCurrent ==
  /\ pc = "idle" => \A h \in Schema : /\ table[h].page_count = entry.page_count
                                     /\ table[h].next_row_id = entry.next_row_id
  /\ pc # "idle" => RowIdToAppend = entry.next_row_id /\ op.own.next_row_id = entry.next_row_id
  /\ pc \notin {"idle", "count_root"} => PageCount = entry.page_count
PagesCounted ==
  /\ DOMAIN file = 0..LastPageNo
  /\ \A k \in 1..Len(frames) : frames[k].no \in DOMAIN file
FileRows == \A p \in DOMAIN file : RowsBelow(file[p], Limit)
FrameRows == \A k \in 1..Len(frames) : RowsBelow(frames[k].page, Limit)
CountInv == EntryIsCurrent /\ PagesCounted /\ FileRows /\ FrameRows

LEMMA RowsBelowMore ==
  ASSUME NEW page \in Page, NEW a \in Nat, NEW b \in Nat, a <= b, RowsBelow(page, a)
  PROVE  RowsBelow(page, b)
<1> SUFFICES ASSUME page.type = "leaf", NEW i \in 1..Len(page.cells) PROVE page.cells[i] < b
  BY DEF RowsBelow
<1>1. page.cells \in Seq(RowId)
  BY PageKinds DEF LeafPage
<1>2. page.cells[i] \in Nat
  BY <1>1, ElementOfSeq DEF RowId
<1>3. page.cells[i] < a
  BY DEF RowsBelow
<1> QED BY <1>2, <1>3

LEMMA RowsBelowAppend ==
  ASSUME NEW page \in LeafPage, NEW row_id \in RowId, NEW length \in Nat,
         NEW limit, row_id < limit, RowsBelow(page, limit)
  PROVE  RowsBelow(AppendCell(page, row_id, length), limit)
<1>1. page.cells \in Seq(RowId) /\ Len(page.cells) \in Nat
      /\ \A i \in 1..Len(page.cells) : page.cells[i] < limit
  BY LenProperties DEF LeafPage, RowsBelow
<1>2. PICK cells : cells = Append(page.cells, row_id)
  OBVIOUS
<1>3. /\ Len(cells) = Len(page.cells) + 1 /\ cells[Len(page.cells)+1] = row_id
      /\ \A i \in 1..Len(page.cells) : cells[i] = page.cells[i]
  BY <1>1, <1>2, AppendProperties
<1>4. \A i \in 1..Len(cells) : i \in 1..Len(page.cells) \/ i = Len(page.cells)+1
  BY <1>1, <1>3
<1>5. \A i \in 1..Len(cells) : cells[i] < limit
  BY <1>1, <1>3, <1>4
<1>6. AppendCell(page, row_id, length).cells = cells
  BY <1>2 DEF AppendCell, LeafPage
<1> QED BY <1>5, <1>6 DEF RowsBelow

LEMMA RowsBelowKept ==
  ASSUME NEW limit
  PROVE  /\ RowsBelow(NewPage("leaf"), limit)
         /\ \A page \in InteriorPage : RowsBelow(page, limit)
         /\ \A page \in Page, right \in PageNo :
              RowsBelow(page, limit) => RowsBelow(SetRight(page, right), limit)
<1>1. RowsBelow(NewPage("leaf"), limit)
  <2>1. NewPage("leaf").cells = << >> /\ Len(NewPage("leaf").cells) = 0
    BY EmptySeq DEF NewPage
  <2> QED BY <2>1 DEF RowsBelow
<1>2. \A page \in InteriorPage : RowsBelow(page, limit)
  BY DEF RowsBelow, InteriorPage
<1>3. ASSUME NEW page \in Page, NEW right \in PageNo, RowsBelow(page, limit)
      PROVE  RowsBelow(SetRight(page, right), limit)
  <2>1. SetRight(page, right).cells = page.cells /\ SetRight(page, right).type = page.type
    BY DEF SetRight, Page, LeafPage, InteriorPage
  <2> QED BY <1>3, <2>1 DEF RowsBelow
<1> QED BY <1>1, <1>2, <1>3

LEMMA DeleteRecordRows ==
  ASSUME NEW page \in LeafPage, NEW i \in DOMAIN page.cells, NEW limit, RowsBelow(page, limit)
  PROVE  RowsBelow(DeleteRecord(page, i), limit)
<1>1. page.type = "leaf" /\ DOMAIN page.cells = 1..Len(page.cells)
  BY LenProperties DEF LeafPage
<1>2. \A j \in DOMAIN DeleteRecord(page, i).cells :
        \E k \in DOMAIN page.cells : DeleteRecord(page, i).cells[j] = page.cells[k]
  BY DeleteRecordType
<1>3. DeleteRecord(page, i).cells \in Seq(RowId)
  BY DeleteRecordType DEF LeafPage
<1>4. DOMAIN DeleteRecord(page, i).cells = 1..Len(DeleteRecord(page, i).cells)
  BY <1>3, LenProperties
<1> QED BY <1>1, <1>2, <1>4 DEF RowsBelow

LEMMA WriteRows ==
  ASSUME NEW page_no, NEW page, NEW limit, Write(page_no, page), RowsBelow(page, limit),
         \A p \in DOMAIN file : RowsBelow(file[p], limit)
  PROVE  \A p \in DOMAIN file' : RowsBelow(file'[p], limit)
<1>0. /\ DOMAIN file' = DOMAIN file \union {page_no}
      /\ file'[page_no] = page
      /\ \A p \in DOMAIN file : p # page_no => file'[p] = file[p]
  BY WriteEffect
<1> TAKE p \in DOMAIN file'
<1>1. CASE p = page_no
  BY <1>0, <1>1
<1>2. CASE p # page_no
  BY <1>0, <1>2
<1> QED BY <1>1, <1>2

-----------------------------------------------------------------------------

(* The Table object of the append and the catalog row move together.       *)
LEMMA EntryStep ==
  ASSUME OneTableObject, TypeOK, EntryIsCurrent, [Next]_vars
  PROVE  EntryIsCurrent'
<1> USE DEF EntryIsCurrent
<1>1. ASSUME NEW h \in Handles, NEW length \in CellLengths, BeginAppend(h, length)
      PROVE  EntryIsCurrent'
  <2>1. /\ pc = "idle" /\ pc' = "descend" /\ UNCHANGED entry
        /\ op'.handle = h /\ op'.own = entry
    BY <1>1 DEF BeginAppend
  <2>2. table'[h].page_count = entry.page_count /\ table'[h].next_row_id = entry.next_row_id
    <3>1. CASE h \in Schema
      BY <1>1, <2>1, <3>1 DEF BeginAppend
    <3>2. CASE h \notin Schema
      <4>1. table' = [table EXCEPT ![h] = Opened]
        BY <1>1, <3>2 DEF BeginAppend
      <4>2. table'[h] = Opened
        BY <4>1 DEF TypeOK
      <4> QED BY <4>2 DEF Opened
    <3> QED BY <3>1, <3>2
  <2> QED BY <2>1, <2>2 DEF RowIdToAppend, PageCount
<1>2. ASSUME UNCHANGED <<entry, table, op>>, pc \notin {"idle", "count_root"}, pc' # "idle"
      PROVE  EntryIsCurrent'
  BY <1>2 DEF RowIdToAppend, PageCount
<1>3. ASSUME pc \notin {"idle", "count_root"}, UNCHANGED entry, pc' = "idle",
             table' = table \/ table' = [table EXCEPT ![op.handle].good = FALSE]
      PROVE  EntryIsCurrent'
  <2> SUFFICES ASSUME NEW h \in Schema
               PROVE  /\ table'[h].page_count = entry.page_count
                      /\ table'[h].next_row_id = entry.next_row_id
    BY <1>3
  <2>1. op.handle \in Handles /\ h = op.handle
    BY <1>3, Busy, WorkloadAssumption DEF OneTableObject
  <2>2. /\ table[h] \in Table
        /\ table'[h] = table[h] \/ table'[h] = [table[h] EXCEPT !.good = FALSE]
    BY <1>3, <2>1 DEF TypeOK
  <2>3. table'[h].page_count = table[h].page_count /\ table'[h].next_row_id = table[h].next_row_id
    BY <1>3, <2>1, <2>2 DEF TypeOK, Table
  <2> QED BY <1>3, <2>1, <2>3 DEF RowIdToAppend, PageCount
<1>4. ASSUME CountPage, UNCHANGED op, pc # "idle", pc' \notin {"idle", "count_root"}
      PROVE  EntryIsCurrent'
  <2>1. op.handle \in Handles /\ table[op.handle] \in Table /\ PageCount \in Nat
    BY <1>4, Busy
  <2>2. /\ table'[op.handle].page_count = PageCount + 1
        /\ table'[op.handle].next_row_id = table[op.handle].next_row_id
    BY <1>4, <2>1 DEF CountPage, Table, PageCount, TypeOK
  <2>3. /\ entry'.page_count = PageCount + 1
        /\ entry'.next_row_id = entry.next_row_id
    BY <1>4 DEF CountPage, Entry, TypeOK
  <2> QED BY <1>4, <2>1, <2>2, <2>3 DEF RowIdToAppend, PageCount
<1>5. CASE Finish
  <2>1. op.handle \in Handles /\ table[op.handle] \in Table
    BY <1>5, Busy DEF Finish
  <2>2. /\ table'[op.handle].page_count = table[op.handle].page_count
        /\ table'[op.handle].next_row_id = table[op.handle].next_row_id + 1
    BY <1>5, <2>1 DEF Finish, Table, TypeOK
  <2>3. entry'.page_count = entry.page_count /\ entry'.next_row_id = RowIdToAppend + 1
    BY <1>5 DEF Finish, Entry, TypeOK
  <2>4. \A h \in Schema : h = op.handle
    BY <2>1 DEF OneTableObject
  <2>5. pc = "finish" /\ pc' = "idle"
    BY <1>5 DEF Finish, Throw
  <2> QED BY <2>2, <2>3, <2>4, <2>5 DEF RowIdToAppend, PageCount
<1>6. ASSUME NEW h \in Handles, Delete(h) PROVE EntryIsCurrent'
  BY <1>6 DEF Delete
<1>7. CASE NewRoot
  <2>1. pc = "root" /\ pc' = "count_root" /\ UNCHANGED <<table, op>>
        /\ (entry' = op.own \/ entry' = entry)
    BY <1>7 DEF NewRoot
  <2> QED BY <2>1 DEF RowIdToAppend
<1>8. CASE AppendStep
  <2>1. CASE CountSplit \/ CountRoot
    BY <1>4, <2>1 DEF CountSplit, CountRoot
  <2>2. CASE ReadFails \/ LeafThrows
    BY <1>3, <2>2 DEF ReadFails, LeafThrows, Throw
  <2>3. CASE \/ Descend \/ LeafAppend \/ SplitLeaf \/ Relink \/ AbsorbSplit
             \/ SplitInterior \/ MoveRoot
    BY <1>2, <2>3 DEF Descend, LeafAppend, SplitLeaf, Relink, AbsorbSplit, SplitInterior, MoveRoot
  <2> QED BY <1>5, <1>7, <1>8, <2>1, <2>2, <2>3 DEF AppendStep
<1>9. CASE UNCHANGED vars
  BY <1>9 DEF vars, RowIdToAppend, PageCount
<1> QED BY <1>1, <1>6, <1>8, <1>9 DEF Next

(* Page numbers are handed out in order, and counted once they are in use. *)
LEMMA PagesStep ==
  ASSUME TypeOK, EntryIsCurrent, PagesCounted, [Next]_vars
  PROVE  PagesCounted'
<1>0. /\ entry.page_count \in Nat /\ KnownPages \in Nat
      /\ DOMAIN file = 0..LastPageNo
      /\ \A k \in 1..Len(frames) : frames[k].no \in DOMAIN file
      /\ frames # << >> => Current.no \in DOMAIN file
  <2>1. entry.page_count \in Nat /\ KnownPages \in Nat
    BY Busy DEF TypeOK, Entry, KnownPages
  <2> QED BY <2>1, TopFrame DEF TypeOK, PagesCounted
<1>1. ASSUME NEW page, Write(PageCount, page), pc \in {"leaf", "return"}, UNCHANGED entry, Uncounted',
             pc' # "count_root"
      PROVE  DOMAIN file' = 0..LastPageNo'
  <2>1. PageCount = entry.page_count /\ DOMAIN file = 0..entry.page_count-1
    BY <1>0, <1>1 DEF EntryIsCurrent, LastPageNo, KnownPages, Uncounted
  <2>2. DOMAIN file' = DOMAIN file \union {entry.page_count}
    BY <1>1, <2>1, WriteEffect
  <2>3. LastPageNo' = entry.page_count
    BY <1>0, <1>1 DEF LastPageNo, KnownPages
  <2> QED BY <1>0, <2>1, <2>2, <2>3
<1>2. ASSUME NEW page_no, NEW page, Write(page_no, page), page_no \in DOMAIN file
      PROVE  DOMAIN file' = DOMAIN file
  BY <1>2, WriteEffect
<1>3. ASSUME UNCHANGED <<frames, KnownPages>>, DOMAIN file' = DOMAIN file, Uncounted' = Uncounted
      PROVE  PagesCounted'
  BY <1>0, <1>3 DEF PagesCounted, LastPageNo
<1>4. ASSUME Throw, DOMAIN file' = DOMAIN file, LastPageNo' = LastPageNo
      PROVE  PagesCounted'
  BY <1>0, <1>4, Ended DEF PagesCounted
<1>5. ASSUME NEW h \in Handles, NEW length \in CellLengths, BeginAppend(h, length)
      PROVE  PagesCounted'
  BY <1>3, <1>5 DEF BeginAppend, KnownPages, Uncounted
<1>6. CASE Descend
  <2>1. PICK f : f = [no |-> PageToVisit, page |-> file[PageToVisit]]
    OBVIOUS
  <2>2. f \in Frame /\ f.no \in DOMAIN file
    BY <1>6, <2>1 DEF Descend, CanRead, Frame, TypeOK
  <2>3. /\ Len(frames') = Len(frames) + 1 /\ frames'[Len(frames)+1] = f
        /\ \A k \in 1..Len(frames) : frames'[k] = frames[k]
    BY <1>6, <2>1, <2>2, AppendProperties DEF Descend, TypeOK
  <2>4. \A k \in 1..Len(frames') : k \in 1..Len(frames) \/ k = Len(frames)+1
    BY <2>3, LenProperties DEF TypeOK
  <2>5. DOMAIN file' = DOMAIN file /\ LastPageNo' = LastPageNo
    BY <1>6 DEF Descend, LastPageNo, KnownPages, Uncounted
  <2> QED BY <1>0, <2>2, <2>3, <2>4, <2>5 DEF PagesCounted
<1>7. CASE ReadFails \/ LeafThrows
  BY <1>4, <1>7 DEF ReadFails, LeafThrows, Throw, LastPageNo, KnownPages, Uncounted
<1>8. CASE LeafAppend
  BY <1>0, <1>2, <1>3, <1>8, Busy DEF LeafAppend, KnownPages, Uncounted
<1>9. CASE SplitLeaf
  <2>1. DOMAIN file' = 0..LastPageNo'
    BY <1>1, <1>9 DEF SplitLeaf, Uncounted
  <2>2. DOMAIN file \subseteq DOMAIN file'
    BY <1>9, WriteEffect DEF SplitLeaf
  <2>3. Len(frames) \in Nat /\ \A k \in 1..Len(frames) : k \in 1..Len(frames)-1 \/ k = Len(frames)
    BY LenProperties DEF TypeOK
  <2>4. Current.no \in DOMAIN file
    BY <1>0, <1>9, Busy DEF SplitLeaf
  <2> QED BY <1>0, <1>9, <2>1, <2>2, <2>3, <2>4, SplitLeafFrames DEF PagesCounted
<1>10. CASE Relink
  BY <1>0, <1>2, <1>3, <1>10, Busy DEF Relink, KnownPages, Uncounted
<1>11. ASSUME CountPage, Uncounted, ~ Uncounted', KnownPages = PageCount, UNCHANGED <<file, frames>>
       PROVE  PagesCounted'
  <2>1. entry'.page_count = PageCount + 1
    BY <1>11 DEF CountPage, TypeOK, Entry
  <2>2. LastPageNo' = LastPageNo
    BY <1>0, <1>11, <2>1 DEF LastPageNo, KnownPages, Uncounted
  <2> QED BY <1>0, <1>11, <2>2 DEF PagesCounted
<1>12. CASE CountSplit \/ CountRoot
  BY <1>11, <1>12 DEF CountSplit, CountRoot, EntryIsCurrent, KnownPages, Uncounted
<1>13. CASE AbsorbSplit
  <2>1. Parent.no \in DOMAIN file
    BY <1>0, <1>13, Busy, ParentFrame DEF AbsorbSplit, TypeOK
  <2> QED BY <1>2, <1>3, <1>13, <2>1 DEF AbsorbSplit, KnownPages, Uncounted
<1>14. CASE SplitInterior
  <2>1. DOMAIN file' = 0..LastPageNo'
    BY <1>1, <1>14 DEF SplitInterior, Uncounted
  <2>2. DOMAIN file \subseteq DOMAIN file'
    BY <1>14, WriteEffect DEF SplitInterior
  <2>3. Parent.no \in DOMAIN file
    BY <1>0, <1>14, Busy, ParentFrame DEF SplitInterior, TypeOK
  <2>4. \A k \in 1..Len(frames') :
          k \in 1..Len(frames) /\ (k \in 1..Len(frames)-2 \/ k = Len(frames)-1)
    BY <1>14, SplitInteriorFrames, LenProperties DEF TypeOK
  <2> QED BY <1>0, <1>14, <2>1, <2>2, <2>3, <2>4, SplitInteriorFrames DEF PagesCounted
<1>15. CASE MoveRoot
  <2>1. DOMAIN file' = 0..LastPageNo'
    BY <1>1, <1>15 DEF MoveRoot, Uncounted
  <2>2. DOMAIN file \subseteq DOMAIN file'
    BY <1>15, WriteEffect DEF MoveRoot
  <2> QED BY <1>0, <1>15, <2>1, <2>2 DEF MoveRoot, PagesCounted
<1>16. CASE NewRoot
  <2>1. 0 \in DOMAIN file
    BY <1>0, <1>16 DEF NewRoot, LastPageNo, Uncounted
  <2>2. KnownPages' = KnownPages
    BY <1>16 DEF NewRoot, KnownPages, EntryIsCurrent, PageCount
  <2> QED BY <1>2, <1>3, <1>16, <2>1, <2>2 DEF NewRoot, Uncounted
<1>17. CASE Finish
  <2>1. LastPageNo' = LastPageNo
    BY <1>17 DEF Finish, Throw, LastPageNo, KnownPages, Uncounted, Entry, TypeOK
  <2> QED BY <1>4, <1>17, <2>1 DEF Finish
<1>18. ASSUME NEW h \in Handles, Delete(h) PROVE PagesCounted'
  <2>1. PICK leaf \in Leaves : \E i \in DOMAIN file[leaf].cells : Write(leaf, DeleteRecord(file[leaf], i))
    BY <1>18 DEF Delete
  <2>2. leaf \in DOMAIN file
    BY DEF Leaves
  <2> QED BY <1>2, <1>3, <1>18, <2>1, <2>2 DEF Delete, KnownPages, Uncounted
<1>19. CASE UNCHANGED vars
  BY <1>3, <1>19 DEF vars, KnownPages, PageCount, Uncounted
<1> QED BY <1>5, <1>6, <1>7, <1>8, <1>9, <1>10, <1>12, <1>13, <1>14, <1>15, <1>16, <1>17,
           <1>18, <1>19 DEF Next, AppendStep

-----------------------------------------------------------------------------

(* The row being appended is the last one, wherever it is written.         *)
LEMMA RowsStep ==
  ASSUME TypeOK, FramesOK, EntryIsCurrent, FileRows, FrameRows, [Next]_vars
  PROVE  FileRows' /\ FrameRows'
<1> DEFINE next == entry.next_row_id
<1>0. /\ next \in Nat /\ Limit \in Nat
      /\ \A p \in DOMAIN file : RowsBelow(file[p], Limit)
      /\ \A k \in 1..Len(frames) : RowsBelow(frames[k].page, Limit)
      /\ frames # << >> => RowsBelow(Current.page, Limit)
  <2>1. next \in Nat /\ Limit \in Nat
    <3>1. next \in Nat
      BY DEF TypeOK, Entry, RowId
    <3> QED BY <3>1 DEF Limit
  <2>2. \A p \in DOMAIN file : RowsBelow(file[p], Limit)
    BY DEF FileRows
  <2>3. \A k \in 1..Len(frames) : RowsBelow(frames[k].page, Limit)
    BY DEF FrameRows
  <2>4. frames # << >> => Current = frames[Len(frames)] /\ Len(frames) \in 1..Len(frames)
    BY TopFrame DEF TypeOK
  <2> QED BY <2>1, <2>2, <2>3, <2>4
<1>1. ASSUME Limit' \in Nat, Limit <= Limit', UNCHANGED file PROVE FileRows'
  BY <1>0, <1>1, RowsBelowMore DEF FileRows, TypeOK
<1>2. ASSUME Limit' \in Nat, Limit <= Limit', UNCHANGED frames PROVE FrameRows'
  <2> SUFFICES ASSUME NEW k \in 1..Len(frames) PROVE RowsBelow(frames[k].page, Limit')
    BY <1>2 DEF FrameRows
  <2>1. frames[k].page \in Page
    BY FramePages DEF TypeOK
  <2> QED BY <1>0, <1>2, <2>1, RowsBelowMore
<1>3. ASSUME Throw PROVE FrameRows'
  BY <1>3, Ended DEF FrameRows
<1>4. ASSUME NEW page_no, NEW page, Write(page_no, page), RowsBelow(page, Limit'),
             Limit' \in Nat, Limit <= Limit'
      PROVE  FileRows'
  <2>1. \A p \in DOMAIN file : RowsBelow(file[p], Limit')
    BY <1>0, <1>4, RowsBelowMore DEF TypeOK
  <2> QED BY <1>4, <2>1, WriteRows DEF FileRows
<1>5. ASSUME NEW h \in Handles, NEW length \in CellLengths, BeginAppend(h, length)
      PROVE  FileRows' /\ FrameRows'
  <2>1. Limit' = Limit
    BY <1>5 DEF BeginAppend, Limit
  <2> QED BY <1>0, <1>1, <1>2, <1>5, <2>1 DEF BeginAppend
<1>6. CASE Descend
  <2>1. PICK f : f = [no |-> PageToVisit, page |-> file[PageToVisit]]
    OBVIOUS
  <2>2. f \in Frame /\ RowsBelow(f.page, Limit)
    BY <1>0, <1>6, <2>1 DEF Descend, CanRead, Frame, TypeOK
  <2>3. /\ Len(frames') = Len(frames) + 1 /\ frames'[Len(frames)+1] = f
        /\ \A k \in 1..Len(frames) : frames'[k] = frames[k]
    BY <1>6, <2>1, <2>2, AppendProperties DEF Descend, TypeOK
  <2>4. \A k \in 1..Len(frames') : k \in 1..Len(frames) \/ k = Len(frames)+1
    BY <2>3, LenProperties DEF TypeOK
  <2>5. Limit' = Limit
    BY <1>6 DEF Descend, Limit
  <2> QED BY <1>0, <1>1, <1>6, <2>2, <2>3, <2>4, <2>5 DEF Descend, FrameRows
<1>7. CASE ReadFails \/ LeafThrows
  <2>1. Limit' = Limit
    BY <1>7 DEF ReadFails, LeafThrows, Throw, Limit
  <2> QED BY <1>0, <1>1, <1>3, <1>7, <2>1 DEF ReadFails, LeafThrows
<1>8. CASE LeafAppend
  <2>1. Limit' = next + 1 /\ Limit = next
    BY <1>8 DEF LeafAppend, Limit, TypeOK, Entry, RowId
  <2>2. Current.page \in LeafPage
    BY <1>8, Busy, TopFrame, PageKinds DEF LeafAppend, TypeOK
  <2>3. RowsBelow(Current.page, next + 1)
    BY <1>0, <1>8, <2>1, <2>2, Busy, RowsBelowMore DEF LeafAppend, Page
  <2>4. RowIdToAppend \in RowId /\ RowIdToAppend < next + 1 /\ op.length \in Nat
    BY <1>0, <1>8, Busy DEF LeafAppend, EntryIsCurrent
  <2>5. RowsBelow(AppendCell(Current.page, RowIdToAppend, op.length), next + 1)
    BY <2>2, <2>3, <2>4, RowsBelowAppend
  <2> QED BY <1>0, <1>2, <1>4, <1>8, <2>1, <2>5 DEF LeafAppend
<1>9. CASE SplitLeaf
  <2>1. Limit' = next + 1 /\ Limit = next
    BY <1>9 DEF SplitLeaf, Limit, TypeOK, Entry, RowId
  <2>2. RowIdToAppend \in RowId /\ RowIdToAppend < next + 1 /\ op.length \in Nat
    BY <1>0, <1>9, Busy DEF SplitLeaf, EntryIsCurrent
  <2>3. RowsBelow(AppendCell(NewPage("leaf"), RowIdToAppend, op.length), next + 1)
    BY <2>2, NewPageType, RowsBelowKept, RowsBelowAppend
  <2>4. FileRows'
    BY <1>0, <1>4, <1>9, <2>1, <2>3 DEF SplitLeaf
  <2>5. \A k \in 1..Len(frames) : frames[k].page \in Page
    BY FramePages DEF TypeOK
  <2>6. \A k \in 1..Len(frames) : RowsBelow(frames[k].page, next + 1)
    BY <1>0, <2>1, <2>5, RowsBelowMore
  <2>7. frames # << >> /\ PageCount \in PageNo
    BY <1>9, Busy DEF SplitLeaf, PageNo
  <2>8. RowsBelow(SetRight(Current.page, PageCount), next + 1)
    BY <2>5, <2>6, <2>7, TopFrame, RowsBelowKept DEF TypeOK
  <2>9. Len(frames) \in Nat /\ \A k \in 1..Len(frames) : k \in 1..Len(frames)-1 \/ k = Len(frames)
    BY LenProperties DEF TypeOK
  <2> QED BY <1>9, <2>1, <2>4, <2>6, <2>8, <2>9, SplitLeafFrames DEF FrameRows
<1>10. CASE Relink
  <2>1. Limit' = Limit
    BY <1>10 DEF Relink, Limit
  <2> QED BY <1>0, <1>2, <1>4, <1>10, <2>1, Busy DEF Relink
<1>11. CASE CountSplit \/ CountRoot
  <2>1. Limit' = Limit
    BY <1>11 DEF CountSplit, CountRoot, CountPage, Limit, TypeOK, Entry
  <2> QED BY <1>0, <1>1, <1>2, <1>11, <2>1 DEF CountSplit, CountRoot
<1>12. CASE AbsorbSplit
  <2>1. Limit' = Limit
    BY <1>12 DEF AbsorbSplit, Limit
  <2>2. Parent.page \in InteriorPage /\ Parent.page.right \in PageNo
    BY <1>12, Busy, ParentInterior DEF AbsorbSplit, TypeOK
  <2>3. Parent.page.content >= InteriorCellLength
    BY <1>12, <2>2, LenProperties DEF AbsorbSplit, HasEnoughSpace, InteriorPage, HeaderLength,
       SlotLength, InteriorCellLength
  <2>4. WithSplit(Parent.page, Parent.page.right) \in InteriorPage
    BY <1>12, <2>2, <2>3, WithSplitType DEF AbsorbSplit, TypeOK
  <2>5. RowsBelow(WithSplit(Parent.page, Parent.page.right), Limit')
    BY <2>4, RowsBelowKept
  <2> QED BY <1>0, <1>2, <1>4, <1>12, <2>1, <2>5 DEF AbsorbSplit
<1>13. NewPage("interior").content >= InteriorCellLength
  BY PageLengthAssumption DEF NewPage, InteriorCellLength, HeaderLength, SlotLength
<1>14. CASE SplitInterior
  <2>1. Limit' = Limit
    BY <1>14 DEF SplitInterior, Limit
  <2>2. Parent.page \in InteriorPage /\ Parent.page.right \in PageNo
        /\ SetRight(Parent.page, NULL_PAGE_NO) \in InteriorPage
    <3>1. Parent.page \in InteriorPage /\ Parent.page.right \in PageNo
      BY <1>14, Busy, ParentInterior DEF SplitInterior, TypeOK
    <3> QED BY <3>1, SetRightType DEF PageNo, NULL_PAGE_NO
  <2>3. WithSplit(NewPage("interior"), Parent.page.right) \in InteriorPage
    BY <1>13, <1>14, <2>2, NewPageType, WithSplitType DEF SplitInterior, TypeOK
  <2>4. FileRows'
    <3>1. Write(PageCount, WithSplit(NewPage("interior"), Parent.page.right))
      BY <1>14 DEF SplitInterior
    <3>2. RowsBelow(WithSplit(NewPage("interior"), Parent.page.right), Limit')
      BY <2>3, RowsBelowKept
    <3>3. Limit' \in Nat /\ Limit <= Limit'
      BY <1>0, <2>1
    <3> QED BY <1>4, <3>1, <3>2, <3>3
  <2>5. \A k \in 1..Len(frames') :
          k \in 1..Len(frames) /\ (k \in 1..Len(frames)-2 \/ k = Len(frames)-1)
    BY <1>14, SplitInteriorFrames, LenProperties DEF TypeOK
  <2>6. ASSUME NEW k \in 1..Len(frames') PROVE RowsBelow(frames'[k].page, Limit')
    <3>1. CASE k \in 1..Len(frames)-2
      BY <1>0, <1>14, <2>1, <2>5, <3>1, SplitInteriorFrames
    <3>2. CASE k = Len(frames)-1
      BY <1>14, <2>1, <2>2, <3>2, RowsBelowKept, SplitInteriorFrames
    <3> QED BY <2>5, <3>1, <3>2
  <2>7. FrameRows'
    BY <2>6 DEF FrameRows
  <2> QED BY <2>4, <2>7
<1>15. CASE MoveRoot
  <2>1. Limit' = Limit
    BY <1>15 DEF MoveRoot, Limit
  <2> QED BY <1>0, <1>2, <1>4, <1>15, <2>1, Busy DEF MoveRoot
<1>16. CASE NewRoot
  <2>1. Limit' = Limit
    BY <1>16 DEF NewRoot, Limit, EntryIsCurrent
  <2>2. WithSplit(NewPage("interior"), PageCount) \in InteriorPage
    BY <1>13, <1>16, Busy, NewPageType, WithSplitType DEF NewRoot, TypeOK, PageNo
  <2>3. Write(0, WithSplit(NewPage("interior"), PageCount)) /\ UNCHANGED frames
    BY <1>16 DEF NewRoot
  <2>4. RowsBelow(WithSplit(NewPage("interior"), PageCount), Limit')
    BY <2>2, RowsBelowKept
  <2>5. Limit' \in Nat /\ Limit <= Limit'
    BY <1>0, <2>1
  <2>6. FileRows'
    BY <1>4, <2>3, <2>4, <2>5
  <2> QED BY <1>2, <2>3, <2>5, <2>6
<1>17. CASE Finish
  <2>1. Limit' = Limit
    BY <1>0, <1>17 DEF Finish, Throw, Limit, EntryIsCurrent, TypeOK, Entry
  <2> QED BY <1>0, <1>1, <1>3, <1>17, <2>1 DEF Finish
<1>18. ASSUME NEW h \in Handles, Delete(h) PROVE FileRows' /\ FrameRows'
  <2>1. PICK leaf \in Leaves : \E i \in DOMAIN file[leaf].cells : Write(leaf, DeleteRecord(file[leaf], i))
    BY <1>18 DEF Delete
  <2>2. PICK i \in DOMAIN file[leaf].cells : Write(leaf, DeleteRecord(file[leaf], i))
    BY <2>1
  <2>3. file[leaf] \in LeafPage /\ RowsBelow(file[leaf], Limit)
    BY <1>0, PageKinds DEF Leaves, TypeOK
  <2>4. RowsBelow(DeleteRecord(file[leaf], i), Limit)
    BY <2>3, DeleteRecordRows
  <2>5. Limit' = Limit
    BY <1>18 DEF Delete, Limit
  <2> QED BY <1>0, <1>2, <1>4, <1>18, <2>2, <2>4, <2>5 DEF Delete
<1>19. CASE UNCHANGED vars
  <2>1. Limit' = Limit
    BY <1>19 DEF vars, Limit
  <2> QED BY <1>0, <1>1, <1>2, <1>19, <2>1 DEF vars
<1> QED BY <1>5, <1>6, <1>7, <1>8, <1>9, <1>10, <1>11, <1>12, <1>14, <1>15, <1>16, <1>17,
           <1>18, <1>19 DEF Next, AppendStep

LEMMA CountInit ==
  ASSUME Init PROVE TypeOK /\ FramesOK /\ CountInv
<1>1. EntryIsCurrent
  BY WorkloadAssumption DEF Init, Opened, EntryIsCurrent
<1>2. Len(frames) = 0
  BY EmptySeq DEF Init
<1>3. PagesCounted
  BY <1>2 DEF Init, PagesCounted, LastPageNo, KnownPages, Uncounted
<1>4. FileRows
  BY RowsBelowKept DEF Init, FileRows
<1>5. FrameRows
  BY <1>2 DEF FrameRows
<1> QED BY <1>1, <1>3, <1>4, <1>5, TypeInit DEF CountInv

LEMMA CountStep ==
  ASSUME OneTableObject
  PROVE  TypeOK /\ FramesOK /\ CountInv /\ [Next]_vars => (TypeOK /\ FramesOK /\ CountInv)'
<1> SUFFICES ASSUME TypeOK, FramesOK, CountInv, [Next]_vars
             PROVE  (TypeOK /\ FramesOK /\ CountInv)'
  OBVIOUS
<1>1. TypeOK' /\ FramesOK'
  BY TypeStep DEF CrashNext
<1>2. EntryIsCurrent' /\ PagesCounted'
  BY EntryStep, PagesStep DEF CountInv
<1>3. FileRows' /\ FrameRows'
  BY RowsStep DEF CountInv
<1> QED BY <1>1, <1>2, <1>3 DEF CountInv

LEMMA CountInvariant ==
  ASSUME OneTableObject PROVE Spec => [](TypeOK /\ CountInv)
<1>1. Init => TypeOK /\ FramesOK /\ CountInv
  BY CountInit
<1>2. TypeOK /\ FramesOK /\ CountInv /\ [Next]_vars => (TypeOK /\ FramesOK /\ CountInv)'
  BY CountStep
<1> QED BY <1>1, <1>2, PTL DEF Spec

(* Whatever is deleted, the leaf that an append reaches holds no row id    *)
(* like the next one: the logic_error of table_leaf_page.cpp:336 is        *)
(* unreachable for a table that no other Table object appends to.          *)
THEOREM AppendIsInOrder ==
  ASSUME OneTableObject PROVE Spec => []NoDecreasingRowId
<1>1. TypeOK /\ CountInv => NoDecreasingRowId
  <2> SUFFICES ASSUME TypeOK, CountInv, pc = "leaf", RowIdsDecrease PROVE FALSE
    BY DEF NoDecreasingRowId
  <2>1. Current = frames[Len(frames)] /\ Len(frames) \in 1..Len(frames)
        /\ Current.page \in LeafPage /\ Current.page.type = "leaf"
    BY Busy, TopFrame, PageKinds DEF TypeOK
  <2>2. RowsBelow(Current.page, entry.next_row_id)
    BY <2>1 DEF CountInv, FrameRows, Limit, TypeOK, Entry, RowId
  <2>3. Current.page.cells \in Seq(RowId) /\ Current.page.cells # << >>
    BY <2>1 DEF LeafPage, RowIdsDecrease
  <2>4. Len(Current.page.cells) \in 1..Len(Current.page.cells)
    BY <2>3, EmptySeq, LenProperties
  <2>5. Last(Current.page.cells) \in Nat /\ Last(Current.page.cells) < entry.next_row_id
    BY <2>1, <2>2, <2>3, <2>4, ElementOfSeq DEF RowsBelow, Last, RowId
  <2>6. RowIdToAppend = entry.next_row_id /\ entry.next_row_id \in Nat
    BY DEF CountInv, EntryIsCurrent, TypeOK, Entry, RowId
  <2> QED BY <2>5, <2>6 DEF RowIdsDecrease
<1> QED BY <1>1, CountInvariant, PTL

LEMMA FreshPage ==
  ASSUME TypeOK, CountInv, pc \in {"leaf", "return"} PROVE PageCount \notin DOMAIN file
<1>1. PageCount = entry.page_count /\ entry.page_count \in Nat
  BY DEF CountInv, EntryIsCurrent, TypeOK, Entry
<1>2. DOMAIN file = 0..entry.page_count-1
  BY DEF CountInv, PagesCounted, LastPageNo, KnownPages, Uncounted
<1> QED BY <1>1, <1>2

(* A split, or a new root, is written past the end of the file and never   *)
(* over a page in use (table.cpp:100, table_leaf_page.cpp:347,             *)
(* table_interior_page.cpp:101).                                           *)
THEOREM AppendAllocates ==
  ASSUME OneTableObject PROVE Spec => []AllocatesFreshPage
<1>1. TypeOK /\ CountInv => AllocatesFreshPage
  BY FreshPage DEF AllocatesFreshPage
<1> QED BY <1>1, CountInvariant, PTL

(* When an append has ended, the row that davisbase_tables has about       *)
(* itself, and any catalog row, is what the Table object that lives on     *)
(* knows: the setPageCount after a root split brings back what the copy of *)
(* the old root has undone (table.cpp:99-106).                             *)
THEOREM OwnRowCatchesUp ==
  ASSUME OneTableObject PROVE Spec => []OwnRowIsCurrent
<1>1. TypeOK /\ CountInv => OwnRowIsCurrent
  BY DEF CountInv, EntryIsCurrent, OwnRowIsCurrent
<1> QED BY <1>1, CountInvariant, PTL

-----------------------------------------------------------------------------
(* Paths, as functions from their places to page numbers.                   *)

Different(n, q) == \A i, j \in 1..n : q[i] = q[j] => i = j
Off(n, q, p) == \A i \in 1..n : q[i] # p
PathIn(pages, n, q) == n \in Nat \ {0} /\ q \in [1..n -> DOMAIN pages] /\ Different(n, q)

LeafChain(pages, n, q) ==
  /\ PathIn(pages, n, q)
  /\ \A i \in 1..n : pages[q[i]].type = "leaf"
  /\ \A i \in 1..n-1 : pages[q[i]].right = q[i+1]
  /\ pages[q[n]].right = NULL_PAGE_NO

(* The leftmost path: row id 0 is below that of every cell.                *)
BeginsWith(page, child) ==
  /\ page.type = "interior" /\ Len(page.cells) # 0
  /\ page.cells[1].row_id # 0 /\ page.cells[1].left_child_page_no = child
LeftPath(pages, n, q) ==
  /\ PathIn(pages, n, q) /\ q[1] = 0
  /\ \A i \in 1..n-1 : BeginsWith(pages[q[i]], q[i+1])

EndsWith(page, child) == page.type = "interior" /\ page.right = child
RightPath(pages, from, n, q) ==
  /\ PathIn(pages, n, q) /\ q[1] = from
  /\ \A i \in 1..n-1 : EndsWith(pages[q[i]], q[i+1])

(* One place more at either end, the first place replaced, one path behind *)
(* another.                                                                *)
Longer(n, q, p) == [i \in 1..n+1 |-> IF i = n+1 THEN p ELSE q[i]]
Before(n, q, p) == [i \in 1..n+1 |-> IF i = 1 THEN p ELSE q[i-1]]
Instead(n, q, p) == [i \in 1..n |-> IF i = 1 THEN p ELSE q[i]]
Joined(m, f, n, q) == [i \in 1..m+n |-> IF i <= m THEN f[i] ELSE q[i-m]]

LEMMA PathKept ==
  ASSUME NEW pages, NEW n, NEW q, PathIn(pages, n, q), NEW new, DOMAIN pages \subseteq DOMAIN new
  PROVE  PathIn(new, n, q)
BY DEF PathIn

LEMMA PathLonger ==
  ASSUME NEW pages, NEW n, NEW q, PathIn(pages, n, q), NEW p \in DOMAIN pages, Off(n, q, p)
  PROVE  /\ PathIn(pages, n+1, Longer(n, q, p))
         /\ Longer(n, q, p)[n+1] = p /\ \A i \in 1..n : Longer(n, q, p)[i] = q[i]
<1>1. n \in Nat /\ n # 0 /\ q \in [1..n -> DOMAIN pages] /\ Different(n, q)
  BY DEF PathIn
<1>2. PICK r : r = Longer(n, q, p)
  OBVIOUS
<1>3. /\ r \in [1..n+1 -> DOMAIN pages]
      /\ r[n+1] = p /\ \A i \in 1..n : r[i] = q[i]
  BY <1>1, <1>2 DEF Longer
<1>4. Different(n+1, r)
  <2> SUFFICES ASSUME NEW i \in 1..n+1, NEW j \in 1..n+1, r[i] = r[j] PROVE i = j
    BY DEF Different
  <2>1. CASE i \in 1..n /\ j \in 1..n
    BY <1>1, <1>3, <2>1 DEF Different
  <2>2. CASE i = n+1 /\ j \in 1..n
    BY <1>3, <2>2 DEF Off
  <2>3. CASE i \in 1..n /\ j = n+1
    BY <1>3, <2>3 DEF Off
  <2>4. CASE i = n+1 /\ j = n+1
    BY <2>4
  <2> QED BY <1>1, <2>1, <2>2, <2>3, <2>4
<1> QED BY <1>1, <1>2, <1>3, <1>4 DEF PathIn

LEMMA PathBefore ==
  ASSUME NEW pages, NEW n, NEW q, PathIn(pages, n, q), NEW p \in DOMAIN pages, Off(n, q, p)
  PROVE  /\ PathIn(pages, n+1, Before(n, q, p))
         /\ Before(n, q, p)[1] = p /\ \A i \in 1..n : Before(n, q, p)[i+1] = q[i]
<1>1. n \in Nat /\ n # 0 /\ q \in [1..n -> DOMAIN pages] /\ Different(n, q)
  BY DEF PathIn
<1>2. PICK r : r = Before(n, q, p)
  OBVIOUS
<1>3. r[1] = p /\ \A i \in 1..n+1 : i # 1 => r[i] = q[i-1] /\ i-1 \in 1..n
  BY <1>1, <1>2 DEF Before
<1>4. \A i \in 1..n : r[i+1] = q[i]
  <2> TAKE i \in 1..n
  <2>1. i+1 \in 1..n+1 /\ i+1 # 1 /\ (i+1)-1 = i
    BY <1>1
  <2> QED BY <1>3, <2>1
<1>5. r \in [1..n+1 -> DOMAIN pages]
  BY <1>1, <1>2, <1>3 DEF Before
<1>6. Different(n+1, r)
  <2> SUFFICES ASSUME NEW i \in 1..n+1, NEW j \in 1..n+1, r[i] = r[j] PROVE i = j
    BY DEF Different
  <2>1. CASE i # 1 /\ j # 1
    <3>1. i-1 = j-1
      BY <1>1, <1>3, <2>1 DEF Different
    <3> QED BY <3>1
  <2>2. CASE i = 1 /\ j # 1
    BY <1>3, <2>2 DEF Off
  <2>3. CASE i # 1 /\ j = 1
    BY <1>3, <2>3 DEF Off
  <2>4. CASE i = 1 /\ j = 1
    BY <2>4
  <2> QED BY <2>1, <2>2, <2>3, <2>4
<1> QED BY <1>1, <1>2, <1>3, <1>4, <1>5, <1>6 DEF PathIn

LEMMA PathInstead ==
  ASSUME NEW pages, NEW n, NEW q, PathIn(pages, n, q), NEW p \in DOMAIN pages, Off(n, q, p)
  PROVE  /\ PathIn(pages, n, Instead(n, q, p))
         /\ Instead(n, q, p)[1] = p /\ \A i \in 2..n : Instead(n, q, p)[i] = q[i]
<1>1. n \in Nat /\ n # 0 /\ q \in [1..n -> DOMAIN pages] /\ Different(n, q)
  BY DEF PathIn
<1>2. PICK r : r = Instead(n, q, p)
  OBVIOUS
<1>3. /\ r \in [1..n -> DOMAIN pages]
      /\ r[1] = p /\ \A i \in 1..n : i # 1 => r[i] = q[i]
  BY <1>1, <1>2 DEF Instead
<1>4. Different(n, r)
  BY <1>1, <1>3 DEF Different, Off
<1> QED BY <1>1, <1>2, <1>3, <1>4 DEF PathIn

LEMMA PathJoined ==
  ASSUME NEW pages, NEW n, NEW q, PathIn(pages, n, q),
         NEW m, NEW f, PathIn(pages, m, f),
         \A k \in 1..m : Off(n, q, f[k])
  PROVE  /\ PathIn(pages, m+n, Joined(m, f, n, q))
         /\ \A i \in 1..m : Joined(m, f, n, q)[i] = f[i]
         /\ \A i \in 1..n : Joined(m, f, n, q)[m+i] = q[i]
<1>1. n \in Nat /\ n # 0 /\ q \in [1..n -> DOMAIN pages] /\ Different(n, q)
  BY DEF PathIn
<1>2. m \in Nat /\ m # 0 /\ f \in [1..m -> DOMAIN pages] /\ Different(m, f)
  BY DEF PathIn
<1>3. PICK r : r = Joined(m, f, n, q)
  OBVIOUS
<1>4. \A i \in 1..m+n : r[i] = IF i <= m THEN f[i] ELSE q[i-m]
  BY <1>3 DEF Joined
<1>5. /\ \A i \in 1..m+n : i <= m => i \in 1..m
      /\ \A i \in 1..m+n : ~ (i <= m) => i-m \in 1..n
  BY <1>1, <1>2
<1>6. \A i \in 1..m : r[i] = f[i]
  <2> TAKE i \in 1..m
  <2>1. i \in 1..m+n /\ i <= m
    BY <1>1, <1>2
  <2> QED BY <1>4, <2>1
<1>7. \A i \in 1..n : r[m+i] = q[i]
  <2> TAKE i \in 1..n
  <2>1. m+i \in 1..m+n /\ ~ (m+i <= m) /\ (m+i)-m = i
    BY <1>1, <1>2
  <2> QED BY <1>4, <2>1
<1>8. r \in [1..m+n -> DOMAIN pages]
  BY <1>1, <1>2, <1>3, <1>5 DEF Joined
<1>9. Different(m+n, r)
  <2> SUFFICES ASSUME NEW i \in 1..m+n, NEW j \in 1..m+n, r[i] = r[j] PROVE i = j
    BY DEF Different
  <2>1. CASE i <= m /\ j <= m
    BY <1>2, <1>4, <1>5, <2>1 DEF Different
  <2>2. CASE ~ (i <= m) /\ ~ (j <= m)
    <3>1. i-m = j-m
      BY <1>1, <1>4, <1>5, <2>2 DEF Different
    <3> QED BY <1>2, <3>1
  <2>3. CASE i <= m /\ ~ (j <= m)
    BY <1>4, <1>5, <2>3 DEF Off
  <2>4. CASE ~ (i <= m) /\ j <= m
    BY <1>4, <1>5, <2>4 DEF Off
  <2> QED BY <2>1, <2>2, <2>3, <2>4
<1>10. m+n \in Nat \ {0}
  BY <1>1, <1>2
<1> QED BY <1>3, <1>6, <1>7, <1>8, <1>9, <1>10 DEF PathIn

(* A path in a file of n pages has at most n places.                       *)
LEMMA PathFits ==
  ASSUME NEW pages, IsFiniteSet(DOMAIN pages), NEW n, NEW q, PathIn(pages, n, q)
  PROVE  n <= Cardinality(DOMAIN pages)
<1>1. n \in Nat /\ n # 0 /\ q \in [1..n -> DOMAIN pages] /\ Different(n, q)
  BY DEF PathIn
<1>2. IsFiniteSet(1..n) /\ Cardinality(1..n) = n
  BY <1>1, FS_Interval
<1>3. Cardinality(DOMAIN pages) \in Nat
  BY FS_CardinalityType
<1>4. ~ (Cardinality(DOMAIN pages) < Cardinality(1..n))
  BY <1>1, <1>2, FS_PigeonHole DEF Different
<1> QED BY <1>1, <1>2, <1>3, <1>4

-----------------------------------------------------------------------------
(* The rightmost path, and the call stack of an append along it.            *)

Known == TypeOK /\ FramesOK /\ CountInv /\ PointersInv

LEMMA KnownInit == ASSUME Init PROVE Known
BY CountInit, PointersInit DEF Known

LEMMA KnownStep ==
  ASSUME OneTableObject PROVE Known /\ [Next]_vars => Known'
BY CountStep, PointersInvStep DEF Known, CrashNext

(* Between the writes that split a page the tree has no path to the new    *)
(* leaf: the one that ends there begins at the page that was split off.    *)
Whole == pc \in {"idle", "descend", "leaf", "finish", "count_root"}
PathBegin == IF Whole THEN 0 ELSE split.no

FramesLinked ==
  ~ Whole =>
    /\ frames[1].no = 0
    /\ \A k \in 1..Len(frames)-1 : frames[k].page.right = frames[k+1].no
    /\ \A j, k \in 1..Len(frames) : frames[j].no = frames[k].no => j = k
FramesCopied ==
  /\ pc \in {"descend", "leaf", "count", "return", "root"} =>
       \A k \in 1..Len(frames) : file[frames[k].no] = frames[k].page
  /\ pc = "relink" => \A k \in 1..Len(frames)-1 : file[frames[k].no] = frames[k].page
FramesInv == FramesLinked /\ FramesCopied

FramesOnPath(n, path) ==
  /\ pc \in {"descend", "leaf"} => \A k \in 1..Len(frames) : k \in 1..n /\ frames[k].no = path[k]
  /\ ~ Whole => \A k \in 1..Len(frames) : Off(n, path, frames[k].no)
RightPart(n, path, last) ==
  /\ RightPath(file, PathBegin, n, path)
  /\ path[n] = last
  /\ FramesOnPath(n, path)
RightInv(last) == FramesInv /\ file[last].type = "leaf" /\ \E n, path : RightPart(n, path, last)

LEMMA RightPathKept ==
  ASSUME NEW pages, NEW from, NEW n, NEW q, RightPath(pages, from, n, q),
         NEW new, DOMAIN pages \subseteq DOMAIN new,
         \A i \in 1..n-1 : EndsWith(pages[q[i]], q[i+1]) => EndsWith(new[q[i]], q[i+1])
  PROVE  RightPath(new, from, n, q)
BY PathKept DEF RightPath

(* A write of a leaf, of a page off the path, or of a new page.            *)
LEMMA RightPathStays ==
  ASSUME NEW from, NEW n, NEW q, RightPath(file, from, n, q),
         NEW page_no, NEW page, Write(page_no, page),
         \/ page_no \notin DOMAIN file
         \/ file[page_no].type = "leaf"
         \/ Off(n, q, page_no)
  PROVE  RightPath(file', from, n, q)
<1>1. DOMAIN file \subseteq DOMAIN file' /\ \A p \in DOMAIN file : p # page_no => file'[p] = file[p]
  BY WriteEffect
<1>2. /\ n \in Nat \ {0} /\ q \in [1..n -> DOMAIN file]
      /\ \A i \in 1..n-1 : EndsWith(file[q[i]], q[i+1])
  BY DEF RightPath, PathIn
<1>3. ASSUME NEW i \in 1..n-1 PROVE EndsWith(file'[q[i]], q[i+1])
  <2>1. i \in 1..n
    BY <1>2
  <2>2. EndsWith(file[q[i]], q[i+1]) /\ q[i] \in DOMAIN file
    BY <1>2, <2>1
  <2>3. q[i] # page_no
    BY <2>1, <2>2 DEF EndsWith, Off
  <2> QED BY <1>1, <2>2, <2>3
<1> QED BY <1>1, <1>3, RightPathKept

LEMMA LeafStays ==
  ASSUME NEW last \in DOMAIN file, file[last].type = "leaf",
         NEW page_no, NEW page, Write(page_no, page), page_no # last \/ page.type = "leaf"
  PROVE  file'[last].type = "leaf"
BY WriteEffect

LEMMA PathEnd ==
  ASSUME NEW n, NEW path, NEW last, RightPart(n, path, last)
  PROVE  /\ n \in Nat \ {0} /\ n \in 1..n /\ path \in [1..n -> DOMAIN file]
         /\ last \in DOMAIN file /\ path[1] = PathBegin /\ path[n] = last
         /\ 1 \in 1..n
BY DEF RightPart, RightPath, PathIn

(* Where an append is when it has read a leaf.                             *)
LEMMA AtTheEnd ==
  ASSUME Known, pc = "leaf", FramesInv, NEW n, NEW path, NEW last, RightPart(n, path, last)
  PROVE  /\ Current.no = last /\ file[last] = Current.page /\ Current.page \in LeafPage
         /\ Len(frames) = n /\ Current = frames[Len(frames)] /\ Len(frames) \in 1..Len(frames)
<1>1. /\ Current = frames[Len(frames)] /\ Len(frames) \in 1..Len(frames) /\ Len(frames) \in Nat
      /\ Current.page \in LeafPage /\ Current.page.type = "leaf"
  BY Busy, TopFrame, PageKinds DEF Known, TypeOK
<1>2. PICK m : m = Len(frames)
  OBVIOUS
<1>3. m \in 1..n /\ Current.no = path[m] /\ file[path[m]] = Current.page
  BY <1>1, <1>2 DEF RightPart, FramesOnPath, FramesInv, FramesCopied
<1>4. n \in Nat /\ \A i \in 1..n-1 : file[path[i]].type = "interior"
  BY PathEnd DEF RightPart, RightPath, EndsWith
<1>5. m = n
  BY <1>1, <1>3, <1>4
<1> QED BY <1>1, <1>2, <1>3, <1>5 DEF RightPart

-----------------------------------------------------------------------------
(* Each step of an append keeps a path to the last leaf.                    *)

LEMMA RightWhole ==
  ASSUME pc' \in {"idle", "finish", "count_root"}, NEW n, NEW path, NEW last,
         RightPath(file', 0, n, path), path[n] = last, file'[last].type = "leaf"
  PROVE  RightInv(last)'
<1>1. Whole' /\ PathBegin' = 0
  BY DEF Whole, PathBegin
<1>2. FramesInv'
  BY <1>1 DEF FramesInv, FramesLinked, FramesCopied
<1>3. FramesOnPath(n, path)'
  BY <1>1 DEF FramesOnPath
<1>4. RightPart(n, path, last)'
  BY <1>1, <1>3 DEF RightPart
<1> QED BY <1>2, <1>4 DEF RightInv

(* An append that begins, fails or finishes leaves the file alone.         *)
LEMMA RightSame ==
  ASSUME NEW last, RightInv(last), Whole, UNCHANGED file,
         \/ pc' \in {"idle", "finish"}
         \/ pc' = "descend" /\ frames' = << >>
  PROVE  RightInv(last)'
<1>1. PICK n, path : RightPart(n, path, last)
  BY DEF RightInv
<1>2. RightPath(file', 0, n, path) /\ path[n] = last /\ file'[last].type = "leaf"
  BY <1>1 DEF RightPart, RightInv, PathBegin
<1>3. CASE pc' \in {"idle", "finish"}
  BY <1>2, <1>3, RightWhole
<1>4. CASE pc' = "descend" /\ frames' = << >>
  <2>1. Whole' /\ PathBegin' = 0 /\ Len(frames') = 0
    BY <1>4, EmptySeq DEF Whole, PathBegin
  <2>2. FramesInv' /\ FramesOnPath(n, path)'
    BY <2>1, <1>4 DEF FramesInv, FramesLinked, FramesCopied, FramesOnPath
  <2>3. RightPart(n, path, last)'
    BY <1>2, <2>1, <2>2 DEF RightPart
  <2> QED BY <1>2, <2>2, <2>3 DEF RightInv
<1> QED BY <1>3, <1>4

LEMMA RightDescend ==
  ASSUME Known, NEW last, RightInv(last), Descend PROVE RightInv(last)'
<1>1. PICK n, path : RightPart(n, path, last)
  BY DEF RightInv
<1>2. /\ pc = "descend" /\ UNCHANGED file /\ pc' \in {"leaf", "descend"}
      /\ frames' = Append(frames, [no |-> PageToVisit, page |-> file[PageToVisit]])
      /\ PageToVisit \in DOMAIN file
  BY DEF Descend, CanRead
<1>3. PICK f : f = [no |-> PageToVisit, page |-> file[PageToVisit]]
  OBVIOUS
<1>4. f \in Frame /\ f.no = PageToVisit /\ f.page = file[PageToVisit]
  BY <1>2, <1>3 DEF Frame, Known, TypeOK
<1>5. /\ Len(frames) \in Nat /\ Len(frames') = Len(frames) + 1 /\ frames'[Len(frames)+1] = f
      /\ \A k \in 1..Len(frames) : frames'[k] = frames[k]
  BY <1>2, <1>3, <1>4, AppendProperties, LenProperties DEF Known, TypeOK
<1>6. \A k \in 1..Len(frames') : k \in 1..Len(frames) \/ k = Len(frames)+1
  BY <1>5
<1>7. /\ n \in Nat /\ path[1] = 0 /\ 1 \in 1..n
      /\ \A i \in 1..n-1 : file[path[i]].type = "interior" /\ file[path[i]].right = path[i+1]
  BY <1>1, <1>2, PathEnd DEF RightPart, RightPath, EndsWith, PathBegin, Whole
<1>8. \A k \in 1..Len(frames) : /\ k \in 1..n /\ frames[k].no = path[k]
                                /\ file[frames[k].no] = frames[k].page
  BY <1>1, <1>2 DEF RightPart, FramesOnPath, RightInv, FramesInv, FramesCopied
<1>9. Len(frames)+1 \in 1..n /\ PageToVisit = path[Len(frames)+1]
  <2>1. CASE frames = << >>
    BY <1>7, <2>1, EmptySeq DEF PageToVisit
  <2>2. CASE frames # << >>
    <3>1. /\ Current = frames[Len(frames)] /\ Len(frames) \in 1..Len(frames)
          /\ Current.page \in Page
      BY <2>2, TopFrame DEF Known, TypeOK
    <3>2. Current.page.type = "interior" /\ Current.page \in InteriorPage
      BY <1>2, <3>1, PageKinds DEF Known, FramesOK
    <3>3. RowIdToAppend = entry.next_row_id /\ RowIdToAppend \in Nat
          /\ PointersOK(Current.page, DOMAIN file, RowIdToAppend)
      BY <1>2, <3>1, Busy DEF Known, PointersInv, NextIsCurrent, FramePointers, RowId
    <3>4. PageToVisit = Current.page.right
      BY <2>2, <3>2, <3>3, GoesRight DEF PageToVisit
    <3>5. PICK m : m = Len(frames)
      OBVIOUS
    <3>6. m \in 1..n /\ file[path[m]] = Current.page
      BY <1>8, <3>1, <3>5
    <3>7. m # n
      BY <1>1, <3>2, <3>6 DEF RightPart, RightInv
    <3>8. m \in 1..n-1 /\ m+1 \in 1..n
      BY <1>7, <3>6, <3>7
    <3> QED BY <1>7, <3>4, <3>5, <3>6, <3>8
  <2> QED BY <2>1, <2>2
<1>10. \A k \in 1..Len(frames') : /\ k \in 1..n /\ frames'[k].no = path[k]
                                  /\ file'[frames'[k].no] = frames'[k].page
  BY <1>2, <1>4, <1>5, <1>6, <1>8, <1>9
<1>11. Whole' /\ PathBegin' = PathBegin
  BY <1>2 DEF Whole, PathBegin
<1>12. FramesInv' /\ FramesOnPath(n, path)'
  BY <1>2, <1>10, <1>11 DEF FramesInv, FramesLinked, FramesCopied, FramesOnPath
<1>13. RightPart(n, path, last)'
  BY <1>1, <1>2, <1>11, <1>12 DEF RightPart
<1> QED BY <1>2, <1>12, <1>13 DEF RightInv

LEMMA RightLeafAppend ==
  ASSUME Known, NEW last, RightInv(last), LeafAppend PROVE RightInv(last)'
<1>1. PICK n, path : RightPart(n, path, last)
  BY DEF RightInv
<1>2. pc = "leaf" /\ pc' = "finish" /\ Current.no = last /\ Current.page \in LeafPage
  BY <1>1, AtTheEnd DEF RightInv, LeafAppend
<1>3. PICK page : page = AppendCell(Current.page, RowIdToAppend, op.length)
  OBVIOUS
<1>4. page.type = "leaf" /\ Write(last, page)
  BY <1>2, <1>3 DEF LeafAppend, AppendCell, LeafPage
<1>5. last \in DOMAIN file /\ file[last].type = "leaf" /\ PathBegin = 0
  BY <1>1, <1>2, PathEnd DEF RightInv, PathBegin, Whole
<1>6. RightPath(file', 0, n, path)
  BY <1>1, <1>4, <1>5, RightPathStays DEF RightPart
<1>7. file'[last].type = "leaf"
  BY <1>4, <1>5, LeafStays
<1> QED BY <1>1, <1>2, <1>6, <1>7, RightWhole DEF RightPart

LEMMA RightDelete ==
  ASSUME Known, NEW last, RightInv(last), NEW h, Delete(h) PROVE RightInv(last)'
<1>1. PICK n, path : RightPart(n, path, last)
  BY DEF RightInv
<1>2. pc = "idle" /\ pc' = "idle"
  BY DEF Delete
<1>3. PICK leaf \in Leaves : \E i \in DOMAIN file[leaf].cells : Write(leaf, DeleteRecord(file[leaf], i))
  BY DEF Delete
<1>4. file[leaf] \in LeafPage /\ leaf \in DOMAIN file /\ file[leaf].type = "leaf"
  BY PageKinds DEF Leaves, Known, TypeOK
<1>5. PICK page : \E i : page = DeleteRecord(file[leaf], i) /\ Write(leaf, page)
  BY <1>3
<1>6. page.type = "leaf" /\ Write(leaf, page)
  BY <1>4, <1>5 DEF DeleteRecord, LeafPage
<1>7. last \in DOMAIN file /\ file[last].type = "leaf" /\ PathBegin = 0
  BY <1>1, <1>2, PathEnd DEF RightInv, PathBegin, Whole
<1>8. RightPath(file', 0, n, path)
  BY <1>1, <1>4, <1>6, <1>7, RightPathStays DEF RightPart
<1>9. file'[last].type = "leaf"
  BY <1>6, <1>7, LeafStays
<1> QED BY <1>1, <1>2, <1>8, <1>9, RightWhole DEF RightPart

(* The frames of an append whose split is not in the tree yet.             *)
LEMMA RightSplit ==
  ASSUME pc' \in {"relink", "count", "return", "root"}, FramesInv',
         NEW n, NEW path, NEW last, RightPath(file', split'.no, n, path), path[n] = last,
         file'[last].type = "leaf", \A k \in 1..Len(frames') : Off(n, path, frames'[k].no)
  PROVE  RightInv(last)'
<1>1. ~ Whole' /\ PathBegin' = split'.no
  BY DEF Whole, PathBegin
<1>2. FramesOnPath(n, path)'
  BY <1>1 DEF FramesOnPath
<1>3. RightPart(n, path, last)'
  BY <1>1, <1>2 DEF RightPart
<1> QED BY <1>3 DEF RightInv

LEMMA InSplit ==
  ASSUME Known, NEW last, RightInv(last), pc \in {"relink", "count", "return", "root"}
  PROVE  /\ \E n, path : /\ RightPath(file, split.no, n, path) /\ path[n] = last
                         /\ \A k \in 1..Len(frames) : Off(n, path, frames[k].no)
         /\ file[last].type = "leaf" /\ last \in DOMAIN file
         /\ frames[1].no = 0 /\ 1 \in 1..Len(frames) /\ Len(frames) \in Nat
         /\ \A k \in 1..Len(frames)-1 : frames[k].page.right = frames[k+1].no
         /\ \A j, k \in 1..Len(frames) : frames[j].no = frames[k].no => j = k
         /\ frames \in Seq(Frame) /\ frames # << >> /\ \A k \in 1..Len(frames) : frames[k].no \in DOMAIN file
<1>1. PICK n, path : RightPart(n, path, last)
  BY DEF RightInv
<1>2. ~ Whole /\ PathBegin = split.no
  BY DEF Whole, PathBegin
<1>3. /\ RightPath(file, split.no, n, path) /\ path[n] = last /\ last \in DOMAIN file
      /\ \A k \in 1..Len(frames) : Off(n, path, frames[k].no)
  BY <1>1, <1>2, PathEnd DEF RightPart, FramesOnPath
<1>4. /\ frames \in Seq(Frame) /\ frames # << >> /\ 1 \in 1..Len(frames) /\ Len(frames) \in Nat
      /\ \A k \in 1..Len(frames) : frames[k].no \in DOMAIN file
  BY TopFrame DEF Known, TypeOK, CountInv, PagesCounted
<1>5. /\ frames[1].no = 0
      /\ \A k \in 1..Len(frames)-1 : frames[k].page.right = frames[k+1].no
      /\ \A j, k \in 1..Len(frames) : frames[j].no = frames[k].no => j = k
  BY <1>2 DEF RightInv, FramesInv, FramesLinked
<1>6. file[last].type = "leaf"
  BY DEF RightInv
<1> QED BY <1>3, <1>4, <1>5, <1>6

LEMMA RightCountSplit ==
  ASSUME Known, NEW last, RightInv(last), CountSplit PROVE RightInv(last)'
<1>1. PICK n, path : /\ RightPath(file, split.no, n, path) /\ path[n] = last
                     /\ \A k \in 1..Len(frames) : Off(n, path, frames[k].no)
  BY InSplit DEF CountSplit
<1>2. pc = "count" /\ pc' = "return" /\ UNCHANGED <<file, frames, split>>
  BY DEF CountSplit
<1>3. FramesInv'
  BY <1>2 DEF RightInv, FramesInv, FramesLinked, FramesCopied, Whole
<1> QED BY <1>1, <1>2, <1>3, RightSplit DEF RightInv

LEMMA RightCountRoot ==
  ASSUME Known, NEW last, RightInv(last), CountRoot PROVE RightInv(last)'
BY RightSame DEF CountRoot, Whole

LEMMA RightRelink ==
  ASSUME Known, NEW last, RightInv(last), Relink PROVE RightInv(last)'
<1>1. pc = "relink" /\ pc' = "count" /\ UNCHANGED <<frames, split>> /\ Write(Current.no, Current.page)
  BY DEF Relink
<1>2. PICK n, path : /\ RightPath(file, split.no, n, path) /\ path[n] = last
                     /\ \A k \in 1..Len(frames) : Off(n, path, frames[k].no)
  BY <1>1, InSplit
<1>3. /\ frames \in Seq(Frame) /\ frames # << >> /\ last \in DOMAIN file /\ file[last].type = "leaf"
      /\ frames[1].no = 0 /\ \A k \in 1..Len(frames) : frames[k].no \in DOMAIN file
      /\ \A k \in 1..Len(frames)-1 : frames[k].page.right = frames[k+1].no
      /\ \A j, k \in 1..Len(frames) : frames[j].no = frames[k].no => j = k
  BY <1>1, InSplit
<1>4. Current = frames[Len(frames)] /\ Len(frames) \in 1..Len(frames) /\ Len(frames) \in Nat
  BY <1>3, TopFrame
<1>5. /\ file'[Current.no] = Current.page
      /\ \A p \in DOMAIN file : p # Current.no => file'[p] = file[p]
  BY <1>1, WriteEffect
<1>6. ASSUME NEW k \in 1..Len(frames) PROVE file'[frames[k].no] = frames[k].page
  <2>1. CASE k = Len(frames)
    BY <1>4, <1>5, <2>1
  <2>2. CASE k # Len(frames)
    <3>1. k \in 1..Len(frames)-1
      BY <1>4, <2>2
    <3>2. file[frames[k].no] = frames[k].page
      BY <1>1, <3>1 DEF RightInv, FramesInv, FramesCopied
    <3>3. frames[k].no # Current.no
      BY <1>3, <1>4, <2>2
    <3> QED BY <1>3, <1>5, <3>2, <3>3
  <2> QED BY <2>1, <2>2
<1>7. FramesInv'
  BY <1>1, <1>3, <1>6 DEF FramesInv, FramesLinked, FramesCopied
<1>8. Off(n, path, Current.no) /\ path[n] = last /\ n \in 1..n
  BY <1>2, <1>4 DEF RightPath, PathIn
<1>9. RightPath(file', split.no, n, path)
  BY <1>1, <1>2, <1>8, RightPathStays
<1>10. file'[last].type = "leaf"
  BY <1>3, <1>5, <1>8 DEF Off
<1> QED BY <1>1, <1>2, <1>7, <1>9, <1>10, RightSplit

LEMMA RightMoveRoot ==
  ASSUME Known, NEW last, RightInv(last), MoveRoot PROVE RightInv(last)'
<1>1. pc = "return" /\ pc' = "root" /\ UNCHANGED <<frames, split>> /\ Write(PageCount, Current.page)
  BY DEF MoveRoot
<1>2. PICK n, path : /\ RightPath(file, split.no, n, path) /\ path[n] = last
                     /\ \A k \in 1..Len(frames) : Off(n, path, frames[k].no)
  BY <1>1, InSplit
<1>3. /\ frames \in Seq(Frame) /\ last \in DOMAIN file /\ file[last].type = "leaf"
      /\ frames[1].no = 0 /\ \A k \in 1..Len(frames) : frames[k].no \in DOMAIN file
      /\ \A k \in 1..Len(frames)-1 : frames[k].page.right = frames[k+1].no
      /\ \A j, k \in 1..Len(frames) : frames[j].no = frames[k].no => j = k
  BY <1>1, InSplit
<1>4. PageCount \notin DOMAIN file
  BY <1>1, FreshPage DEF Known
<1>5. \A p \in DOMAIN file : file'[p] = file[p]
  BY <1>1, <1>4, WriteEffect
<1>6. \A k \in 1..Len(frames) : file'[frames[k].no] = frames[k].page
  BY <1>1, <1>3, <1>5 DEF RightInv, FramesInv, FramesCopied
<1>7. FramesInv'
  BY <1>1, <1>3, <1>6 DEF FramesInv, FramesLinked, FramesCopied
<1>8. RightPath(file', split.no, n, path)
  BY <1>1, <1>2, <1>4, RightPathStays
<1>9. file'[last].type = "leaf"
  BY <1>3, <1>5
<1> QED BY <1>1, <1>2, <1>7, <1>8, <1>9, RightSplit

(* A new leaf is a path of its own.                                        *)
LEMMA RightSplitLeaf ==
  ASSUME Known, NEW last, RightInv(last), SplitLeaf, NEW p, p = PageCount PROVE RightInv(p)'
<1>1. PICK n, path : RightPart(n, path, last)
  BY DEF RightInv
<1>2. PICK page : page = AppendCell(NewPage("leaf"), RowIdToAppend, op.length)
  OBVIOUS
<1>3. /\ pc = "leaf" /\ pc' = "relink" /\ Write(p, page) /\ split'.no = p
      /\ page.type = "leaf"
  BY <1>2 DEF SplitLeaf, AppendCell, NewPage
<1>4. p \notin DOMAIN file
  BY <1>3, FreshPage DEF Known
<1>5. /\ p \in DOMAIN file' /\ file'[p].type = "leaf"
      /\ \A r \in DOMAIN file : file'[r] = file[r]
  BY <1>3, <1>4, WriteEffect
<1>6. /\ Len(frames') = Len(frames) /\ \A k \in 1..Len(frames)-1 : frames'[k] = frames[k]
      /\ frames'[Len(frames)].no = Current.no
  BY SplitLeafFrames DEF Known
<1>7. /\ Current = frames[Len(frames)] /\ Len(frames) \in 1..Len(frames) /\ Len(frames) = n
  BY <1>1, <1>3, AtTheEnd DEF RightInv
<1>8. \A k \in 1..Len(frames) : /\ k \in 1..n /\ frames[k].no = path[k]
                                /\ file[frames[k].no] = frames[k].page
                                /\ frames[k].no \in DOMAIN file
  BY <1>1, <1>3 DEF RightPart, FramesOnPath, RightInv, FramesInv, FramesCopied, Known, CountInv,
                    PagesCounted
<1>9. \A k \in 1..n : frames'[k].no = path[k] /\ frames'[k].no \in DOMAIN file
  BY <1>6, <1>7, <1>8
<1>10. /\ n \in Nat /\ path[1] = 0 /\ 1 \in 1..n /\ Different(n, path)
       /\ \A i \in 1..n-1 : file[path[i]].right = path[i+1]
  BY <1>1, <1>3, PathEnd DEF RightPart, RightPath, PathIn, EndsWith, PathBegin, Whole
<1>11. \A k \in 1..n-1 : k \in 1..n /\ k+1 \in 1..n
  BY <1>10
<1>12. \A k \in 1..n-1 : frames'[k].page.right = frames'[k+1].no
  <2> TAKE k \in 1..n-1
  <2>1. frames'[k] = frames[k] /\ file[path[k]] = frames[k].page
    BY <1>6, <1>7, <1>8, <1>11
  <2>2. frames'[k+1].no = path[k+1]
    BY <1>9, <1>11
  <2> QED BY <1>10, <2>1, <2>2
<1>13. \A k \in 1..n-1 : file'[frames'[k].no] = frames'[k].page
  BY <1>5, <1>6, <1>7, <1>8, <1>9, <1>11
<1>14. \A j, k \in 1..n : frames'[j].no = frames'[k].no => j = k
  BY <1>9, <1>10 DEF Different
<1>15. FramesInv'
  BY <1>3, <1>6, <1>7, <1>9, <1>10, <1>12, <1>13, <1>14 DEF FramesInv, FramesLinked, FramesCopied
<1>16. PICK q : q = [i \in 1..1 |-> p]
  OBVIOUS
<1>17. q[1] = p /\ RightPath(file', p, 1, q)
  BY <1>5, <1>16 DEF RightPath, PathIn, Different
<1>18. \A k \in 1..Len(frames') : Off(1, q, frames'[k].no)
  BY <1>4, <1>6, <1>7, <1>9, <1>17 DEF Off
<1> QED BY <1>3, <1>5, <1>15, <1>17, <1>18, RightSplit

(* The parent that takes the split page makes the path whole again: down   *)
(* the frames above the page that was split, and on from the split page.   *)
LEMMA RightAbsorb ==
  ASSUME Known, NEW last, RightInv(last), AbsorbSplit PROVE RightInv(last)'
<1>1. pc = "return" /\ pc' = "finish" /\ ~ AtRoot
      /\ Write(Parent.no, WithSplit(Parent.page, Parent.page.right))
  BY DEF AbsorbSplit
<1>2. PICK n, path : /\ RightPath(file, split.no, n, path) /\ path[n] = last
                     /\ \A k \in 1..Len(frames) : Off(n, path, frames[k].no)
  BY <1>1, InSplit
<1>3. /\ frames \in Seq(Frame) /\ frames # << >> /\ last \in DOMAIN file /\ file[last].type = "leaf"
      /\ frames[1].no = 0 /\ \A k \in 1..Len(frames) : frames[k].no \in DOMAIN file
      /\ \A k \in 1..Len(frames)-1 : frames[k].page.right = frames[k+1].no
      /\ \A j, k \in 1..Len(frames) : frames[j].no = frames[k].no => j = k
      /\ Len(frames) \in Nat
  BY <1>1, InSplit
<1>4. PICK m : m = Len(frames)-1
  OBVIOUS
<1>5. /\ m \in Nat /\ m # 0 /\ m \in 1..m /\ Parent = frames[m] /\ Parent.page \in InteriorPage
      /\ 1 \in 1..m
  BY <1>1, <1>3, <1>4, ParentFrame, ParentInterior DEF Known
<1>6. \A k \in 1..m : k \in 1..Len(frames) /\ k \in 1..Len(frames)-1
  BY <1>3, <1>4
<1>7. PICK page : page = WithSplit(Parent.page, Parent.page.right)
  OBVIOUS
<1>8. page.type = "interior" /\ page.right = split.no
  BY <1>5, <1>7 DEF WithSplit, SetRight, AppendCell, InteriorPage
<1>9. /\ DOMAIN file \subseteq DOMAIN file' /\ file'[Parent.no] = page
      /\ \A p \in DOMAIN file : p # Parent.no => file'[p] = file[p]
  BY <1>1, <1>7, WriteEffect
<1>10. PICK f : f = [k \in 1..m |-> frames[k].no]
  OBVIOUS
<1>11. \A k \in 1..m : f[k] = frames[k].no /\ f[k] \in DOMAIN file'
  BY <1>3, <1>6, <1>9, <1>10
<1>12. PathIn(file', m, f)
  <2>1. f \in [1..m -> DOMAIN file']
    BY <1>10, <1>11
  <2>2. Different(m, f)
    BY <1>3, <1>6, <1>11 DEF Different
  <2> QED BY <1>5, <2>1, <2>2 DEF PathIn
<1>13. Off(n, path, Parent.no)
  BY <1>2, <1>5, <1>6
<1>14. RightPath(file', split.no, n, path)
  BY <1>1, <1>2, <1>13, RightPathStays
<1>15. PathIn(file', n, path) /\ \A k \in 1..m : Off(n, path, f[k])
  BY <1>2, <1>6, <1>11, <1>14 DEF RightPath
<1>16. PICK q : q = Joined(m, f, n, path)
  OBVIOUS
<1>17. /\ PathIn(file', m+n, q) /\ \A i \in 1..m : q[i] = f[i]
       /\ \A i \in 1..n : q[m+i] = path[i]
  BY <1>12, <1>15, <1>16, PathJoined
<1>18. /\ n \in Nat /\ n # 0 /\ path[1] = split.no /\ 1 \in 1..n /\ n \in 1..n
       /\ \A i \in 1..n-1 : EndsWith(file'[path[i]], path[i+1])
  BY <1>14 DEF RightPath, PathIn
<1>19. ASSUME NEW i \in 1..m+n-1 PROVE EndsWith(file'[q[i]], q[i+1])
  <2>1. CASE i \in 1..m-1
    <3>1. i \in 1..m /\ i+1 \in 1..m /\ i # m
      BY <1>5, <2>1
    <3>2. file[frames[i].no] = frames[i].page /\ frames[i].page.type = "interior"
          /\ frames[i].page.right = frames[i+1].no
      BY <1>1, <1>3, <1>6, <3>1 DEF RightInv, FramesInv, FramesCopied, Known, FramesOK
    <3>3. frames[i].no # Parent.no
      BY <1>3, <1>5, <1>6, <3>1
    <3>4. file'[frames[i].no] = frames[i].page
      BY <1>3, <1>6, <1>9, <3>1, <3>2, <3>3
    <3>5. q[i] = frames[i].no /\ q[i+1] = frames[i+1].no
      BY <1>11, <1>17, <3>1
    <3> QED BY <3>2, <3>4, <3>5 DEF EndsWith
  <2>2. CASE i = m
    <3>1. q[i] = Parent.no /\ q[i+1] = split.no
      BY <1>5, <1>11, <1>17, <1>18, <2>2
    <3> QED BY <1>8, <1>9, <3>1 DEF EndsWith
  <2>3. CASE i > m
    <3>1. PICK j : j = i-m
      OBVIOUS
    <3>2. j \in 1..n-1 /\ j \in 1..n /\ j+1 \in 1..n /\ m+j = i /\ m+(j+1) = i+1
      BY <1>5, <1>18, <2>3, <3>1
    <3>3. q[i] = path[j] /\ q[i+1] = path[j+1]
      BY <1>17, <3>2
    <3> QED BY <1>18, <3>2, <3>3
  <2> QED BY <1>5, <1>18, <2>1, <2>2, <2>3
<1>23. \A i \in 1..m+n-1 : EndsWith(file'[q[i]], q[i+1])
  BY <1>19
<1>20. q[1] = 0 /\ q[m+n] = last
  BY <1>2, <1>3, <1>5, <1>11, <1>17, <1>18
<1>24. PICK k : k = m+n
  OBVIOUS
<1>27. 1..k-1 = 1..m+n-1
  BY <1>5, <1>18, <1>24
<1>25. PathIn(file', k, q) /\ q[1] = 0 /\ \A i \in 1..k-1 : EndsWith(file'[q[i]], q[i+1])
  BY <1>17, <1>20, <1>23, <1>24, <1>27
<1>26. RightPath(file', 0, k, q)
  BY <1>25 DEF RightPath
<1>21. RightPath(file', 0, m+n, q)
  BY <1>24, <1>26
<1>22. file'[last].type = "leaf"
  BY <1>2, <1>3, <1>9, <1>13, <1>18 DEF Off
<1> QED BY <1>1, <1>20, <1>21, <1>22, RightWhole

(* A path that begins one page earlier.                                    *)
LEMMA RightPathBefore ==
  ASSUME NEW pages, NEW from, NEW n, NEW q, RightPath(pages, from, n, q),
         NEW p \in DOMAIN pages, Off(n, q, p), EndsWith(pages[p], from)
  PROVE  /\ RightPath(pages, p, n+1, Before(n, q, p))
         /\ Before(n, q, p)[n+1] = q[n]
         /\ \A x : Off(n, q, x) /\ x # p => Off(n+1, Before(n, q, p), x)
<1>1. /\ PathIn(pages, n, q) /\ q[1] = from /\ n \in Nat /\ n # 0
      /\ \A i \in 1..n-1 : EndsWith(pages[q[i]], q[i+1])
  BY DEF RightPath, PathIn
<1>2. PICK r : r = Before(n, q, p)
  OBVIOUS
<1>3. PathIn(pages, n+1, r) /\ r[1] = p /\ \A i \in 1..n : r[i+1] = q[i]
  BY <1>1, <1>2, PathBefore
<1>4. PICK k : k = n+1
  OBVIOUS
<1>5. \A i \in 1..k : i = 1 \/ (i-1 \in 1..n /\ (i-1)+1 = i)
  BY <1>1, <1>4
<1>6. ASSUME NEW i \in 1..k-1 PROVE EndsWith(pages[r[i]], r[i+1])
  <2>1. CASE i = 1
    <3>1. 1 \in 1..n
      BY <1>1
    <3>2. r[i] = p /\ r[i+1] = from
      BY <1>1, <1>3, <2>1, <3>1
    <3> QED BY <3>2
  <2>2. CASE i # 1
    <3>1. PICK j : j = i-1
      OBVIOUS
    <3>2. j \in 1..n-1 /\ j \in 1..n /\ j+1 \in 1..n /\ j+1 = i
      BY <1>1, <1>4, <2>2, <3>1
    <3>3. r[i] = q[j] /\ r[i+1] = q[j+1]
      BY <1>3, <3>2
    <3> QED BY <1>1, <3>2, <3>3
  <2> QED BY <2>1, <2>2
<1>7. \A i \in 1..k-1 : EndsWith(pages[r[i]], r[i+1])
  BY <1>6
<1>8. RightPath(pages, p, k, r)
  BY <1>3, <1>4, <1>7 DEF RightPath
<1>9. n \in 1..n
  BY <1>1
<1>10. r[n+1] = q[n]
  BY <1>3, <1>9
<1>11. ASSUME NEW x, Off(n, q, x), x # p PROVE Off(k, r, x)
  <2> SUFFICES ASSUME NEW i \in 1..k PROVE r[i] # x
    BY DEF Off
  <2>1. CASE i = 1
    BY <1>3, <1>11, <2>1
  <2>2. CASE i # 1
    <3>1. i-1 \in 1..n /\ (i-1)+1 = i
      BY <1>5, <2>2
    <3>2. r[i] = q[i-1]
      BY <1>3, <3>1
    <3> QED BY <1>11, <3>1, <3>2 DEF Off
  <2> QED BY <2>1, <2>2
<1> QED BY <1>2, <1>4, <1>8, <1>10, <1>11

LEMMA RightSplitInterior ==
  ASSUME Known, NEW last, RightInv(last), SplitInterior PROVE RightInv(last)'
<1>1. /\ pc = "return" /\ pc' = "relink" /\ ~ AtRoot
      /\ Write(PageCount, WithSplit(NewPage("interior"), Parent.page.right))
      /\ split'.no = PageCount
  BY DEF SplitInterior
<1>2. PICK n, path : /\ RightPath(file, split.no, n, path) /\ path[n] = last
                     /\ \A k \in 1..Len(frames) : Off(n, path, frames[k].no)
  BY <1>1, InSplit
<1>3. /\ frames \in Seq(Frame) /\ frames # << >> /\ last \in DOMAIN file /\ file[last].type = "leaf"
      /\ frames[1].no = 0 /\ \A k \in 1..Len(frames) : frames[k].no \in DOMAIN file
      /\ \A k \in 1..Len(frames)-1 : frames[k].page.right = frames[k+1].no
      /\ \A j, k \in 1..Len(frames) : frames[j].no = frames[k].no => j = k
      /\ Len(frames) \in Nat
  BY <1>1, InSplit
<1>4. PICK m : m = Len(frames)-1
  OBVIOUS
<1>5. /\ m \in Nat /\ m # 0 /\ m \in 1..m /\ Parent = frames[m] /\ Parent.page \in InteriorPage
      /\ 1 \in 1..m
  BY <1>1, <1>3, <1>4, ParentFrame, ParentInterior DEF Known
<1>6. \A k \in 1..m : k \in 1..Len(frames) /\ k \in 1..Len(frames)-1
  BY <1>3, <1>4
<1>7. PICK page : page = WithSplit(NewPage("interior"), Parent.page.right)
  OBVIOUS
<1>8. page.type = "interior" /\ page.right = split.no
  BY <1>5, <1>7 DEF WithSplit, SetRight, AppendCell, NewPage
<1>9. PICK p : p = PageCount
  OBVIOUS
<1>10. p \notin DOMAIN file
  BY <1>1, <1>9, FreshPage DEF Known
<1>11. Write(p, page)
  BY <1>1, <1>7, <1>9
<1>12. /\ DOMAIN file' = DOMAIN file \union {p} /\ file'[p] = page
       /\ \A r \in DOMAIN file : file'[r] = file[r]
  BY <1>10, <1>11, WriteEffect
<1>13. RightPath(file', split.no, n, path) /\ Off(n, path, p)
  <2>1. Off(n, path, p)
    BY <1>2, <1>10 DEF RightPath, PathIn, Off
  <2> QED BY <1>2, <1>11, <2>1, RightPathStays
<1>14. EndsWith(file'[p], split.no) /\ p \in DOMAIN file'
  BY <1>8, <1>12 DEF EndsWith
<1>15. PICK q : q = Before(n, path, p)
  OBVIOUS
<1>16. /\ RightPath(file', p, n+1, q) /\ q[n+1] = path[n]
       /\ \A x : Off(n, path, x) /\ x # p => Off(n+1, q, x)
  BY <1>13, <1>14, <1>15, RightPathBefore
<1>17. /\ Len(frames') = m
       /\ \A k \in 1..m-1 : frames'[k] = frames[k]
       /\ frames'[m].no = Parent.no
  <2>1. /\ Len(frames') = Len(frames)-1 /\ \A k \in 1..Len(frames)-2 : frames'[k] = frames[k]
        /\ frames'[Len(frames)-1].no = Parent.no
    BY SplitInteriorFrames DEF Known
  <2>2. 1..m-1 = 1..Len(frames)-2
    BY <1>3, <1>4
  <2> QED BY <1>4, <2>1, <2>2
<1>18. \A k \in 1..m : k = m \/ k \in 1..m-1
  BY <1>5
<1>19. \A k \in 1..m : frames'[k].no = frames[k].no
  BY <1>5, <1>17, <1>18
<1>20. \A k \in 1..m-1 : k \in 1..m /\ k+1 \in 1..m
  BY <1>5
<1>21. \A k \in 1..m-1 : frames'[k].page.right = frames'[k+1].no
  <2> TAKE k \in 1..m-1
  <2>1. frames[k].page.right = frames[k+1].no
    BY <1>3, <1>6, <1>20
  <2>2. frames'[k] = frames[k] /\ frames'[k+1].no = frames[k+1].no
    BY <1>17, <1>19, <1>20
  <2> QED BY <2>1, <2>2
<1>22. \A j, k \in 1..m : frames'[j].no = frames'[k].no => j = k
  BY <1>3, <1>6, <1>19
<1>23. \A k \in 1..m-1 : file'[frames'[k].no] = frames'[k].page
  <2> TAKE k \in 1..m-1
  <2>1. k \in 1..Len(frames)
    BY <1>6, <1>20
  <2>2. file[frames[k].no] = frames[k].page /\ frames[k].no \in DOMAIN file
    BY <1>1, <1>3, <2>1 DEF RightInv, FramesInv, FramesCopied
  <2>3. frames'[k] = frames[k]
    BY <1>17
  <2> QED BY <1>12, <2>2, <2>3
<1>24. FramesInv'
  BY <1>1, <1>3, <1>5, <1>17, <1>19, <1>21, <1>22, <1>23 DEF FramesInv, FramesLinked, FramesCopied
<1>25. ASSUME NEW k \in 1..m PROVE Off(n+1, q, frames'[k].no)
  <2>1. Off(n, path, frames[k].no) /\ frames[k].no # p
    BY <1>2, <1>3, <1>6, <1>10
  <2> QED BY <1>16, <1>19, <2>1
<1>26. file'[last].type = "leaf"
  BY <1>3, <1>12
<1>27. RightPath(file', split'.no, n+1, q) /\ q[n+1] = last
  BY <1>1, <1>2, <1>9, <1>16
<1>28. \A k \in 1..Len(frames') : Off(n+1, q, frames'[k].no)
  BY <1>17, <1>25
<1> QED BY <1>1, <1>24, <1>26, <1>27, <1>28, RightSplit

LEMMA RightNewRoot ==
  ASSUME Known, NEW last, RightInv(last), NewRoot PROVE RightInv(last)'
<1>1. /\ pc = "root" /\ pc' = "count_root"
      /\ Write(0, WithSplit(NewPage("interior"), PageCount))
  BY DEF NewRoot
<1>2. PICK n, path : /\ RightPath(file, split.no, n, path) /\ path[n] = last
                     /\ \A k \in 1..Len(frames) : Off(n, path, frames[k].no)
  BY <1>1, InSplit
<1>3. /\ last \in DOMAIN file /\ file[last].type = "leaf" /\ frames[1].no = 0 /\ 1 \in 1..Len(frames)
  BY <1>1, InSplit
<1>4. PICK page : page = WithSplit(NewPage("interior"), PageCount)
  OBVIOUS
<1>5. page.type = "interior" /\ page.right = split.no
  BY <1>4 DEF WithSplit, SetRight, AppendCell, NewPage
<1>6. Write(0, page) /\ Off(n, path, 0)
  BY <1>1, <1>2, <1>3, <1>4
<1>7. /\ 0 \in DOMAIN file' /\ file'[0] = page
      /\ \A r \in DOMAIN file : r # 0 => file'[r] = file[r]
  BY <1>6, WriteEffect
<1>8. RightPath(file', split.no, n, path)
  BY <1>2, <1>6, RightPathStays
<1>9. EndsWith(file'[0], split.no)
  BY <1>5, <1>7 DEF EndsWith
<1>10. RightPath(file', 0, n+1, Before(n, path, 0)) /\ Before(n, path, 0)[n+1] = last
  BY <1>2, <1>6, <1>7, <1>8, <1>9, RightPathBefore
<1>11. last # 0
  BY <1>2, <1>6 DEF RightPath, PathIn, Off
<1>12. file'[last].type = "leaf"
  BY <1>3, <1>7, <1>11
<1> QED BY <1>1, <1>10, <1>12, RightWhole

(* The last leaf of the right path stays the same but for a leaf split.    *)
LEMMA RightStep ==
  ASSUME Known, NEW last, RightInv(last), [Next]_vars, ~ SplitLeaf PROVE RightInv(last)'
<1>1. ASSUME NEW h \in Handles, NEW length \in CellLengths, BeginAppend(h, length)
      PROVE  RightInv(last)'
  <2>1. frames = << >> /\ frames' = << >> /\ pc' = "descend" /\ Whole /\ UNCHANGED file
    BY <1>1 DEF BeginAppend, Known, FramesOK, Whole
  <2> QED BY <2>1, RightSame
<1>2. CASE Descend
  BY <1>2, RightDescend
<1>3. CASE ReadFails \/ LeafThrows
  BY <1>3, RightSame DEF ReadFails, LeafThrows, Throw, Whole
<1>4. CASE LeafAppend
  BY <1>4, RightLeafAppend
<1>5. CASE Relink
  BY <1>5, RightRelink
<1>6. CASE CountSplit
  BY <1>6, RightCountSplit
<1>7. CASE AbsorbSplit
  BY <1>7, RightAbsorb
<1>8. CASE SplitInterior
  BY <1>8, RightSplitInterior
<1>9. CASE MoveRoot
  BY <1>9, RightMoveRoot
<1>10. CASE NewRoot
  BY <1>10, RightNewRoot
<1>11. CASE CountRoot
  BY <1>11, RightCountRoot
<1>12. CASE Finish
  BY <1>12, RightSame DEF Finish, Throw, Whole
<1>13. ASSUME NEW h \in Handles, Delete(h) PROVE RightInv(last)'
  BY <1>13, RightDelete
<1>14. CASE UNCHANGED vars
  <2>1. PICK n, path : RightPart(n, path, last)
    BY DEF RightInv
  <2>2. FramesInv' /\ RightPart(n, path, last)' /\ file'[last].type = "leaf"
    BY <1>14, <2>1 DEF vars, RightInv, FramesInv, FramesLinked, FramesCopied, RightPart, PathBegin,
                       FramesOnPath, Whole
  <2> QED BY <2>2 DEF RightInv
<1> QED BY <1>1, <1>2, <1>3, <1>4, <1>5, <1>6, <1>7, <1>8, <1>9, <1>10, <1>11, <1>12, <1>13, <1>14
        DEF Next, AppendStep

LEMMA RightInit ==
  ASSUME Init PROVE RightInv(0)
<1>1. PICK q : q = [i \in 1..1 |-> 0]
  OBVIOUS
<1>2. 0 \in DOMAIN file /\ file[0].type = "leaf" /\ pc = "idle"
  BY DEF Init, NewPage
<1>3. Whole /\ PathBegin = 0
  BY <1>2 DEF Whole, PathBegin
<1>4. q[1] = 0 /\ RightPath(file, 0, 1, q)
  BY <1>1, <1>2 DEF RightPath, PathIn, Different
<1>5. FramesInv /\ FramesOnPath(1, q)
  BY <1>2, <1>3 DEF FramesInv, FramesLinked, FramesCopied, FramesOnPath
<1>6. RightPart(1, q, 0)
  BY <1>3, <1>4, <1>5 DEF RightPart
<1> QED BY <1>2, <1>5, <1>6 DEF RightInv

(* The pages an append changes and writes back are the pages in the file,  *)
(* however long ago it read them (table_interior_page.cpp:85, 119): they   *)
(* are different pages, and none is written but by this append.            *)
THEOREM CopiesStayCurrent ==
  ASSUME OneTableObject PROVE Spec => []CopiesAreCurrent
<1> DEFINE Inv == Known /\ \E last : RightInv(last)
<1>1. Init => Inv
  BY KnownInit, RightInit
<1>2. Inv /\ [Next]_vars => Inv'
  <2> SUFFICES ASSUME Known, [Next]_vars, NEW last, RightInv(last)
               PROVE  Known' /\ \E p : RightInv(p)'
    OBVIOUS
  <2>1. Known'
    BY KnownStep
  <2>2. CASE SplitLeaf
    <3>1. PICK p : p = PageCount
      OBVIOUS
    <3>2. RightInv(p)'
      BY <2>2, <3>1, RightSplitLeaf
    <3> QED BY <2>1, <3>2
  <2>3. CASE ~ SplitLeaf
    BY <2>1, <2>3, RightStep
  <2> QED BY <2>2, <2>3
<1>3. Inv => CopiesAreCurrent
  <2> SUFFICES ASSUME Known, FramesInv PROVE CopiesAreCurrent
    BY DEF RightInv
  <2>1. DOMAIN frames = 1..Len(frames)
    BY LenProperties DEF Known, TypeOK
  <2> QED BY <2>1 DEF CopiesAreCurrent, FramesInv, FramesCopied
<1> QED BY <1>1, <1>2, <1>3, PTL DEF Spec

-----------------------------------------------------------------------------
(* The rows of a chain of leaves, as a function from the places of the      *)
(* leaves to their cells.                                                   *)

CellsOf(pages, n, q) == [i \in 1..n |-> pages[q[i]].cells]

LeafInOrder(cells) == \A a, b \in 1..Len(cells) : a < b => cells[a] < cells[b]
LeafBelow(lower, upper) == \A a \in 1..Len(lower), b \in 1..Len(upper) : lower[a] < upper[b]
InOrder(n, rows) ==
  /\ \A i \in 1..n : rows[i] \in Seq(Nat) /\ LeafInOrder(rows[i])
  /\ \A i, j \in 1..n : i < j => LeafBelow(rows[i], rows[j])
ShownIn(cells, id) == \E a \in 1..Len(cells) : cells[a] = id
Shown(n, rows, id) == \E i \in 1..n : ShownIn(rows[i], id)

LEMMA CellsAppended ==
  ASSUME NEW cells \in Seq(Nat), LeafInOrder(cells), NEW id \in Nat,
         \A x : ShownIn(cells, x) => x < id
  PROVE  /\ Append(cells, id) \in Seq(Nat) /\ LeafInOrder(Append(cells, id))
         /\ \A x : ShownIn(Append(cells, id), x) <=> ShownIn(cells, x) \/ x = id
<1>1. PICK s : s = Append(cells, id)
  OBVIOUS
<1>2. PICK n : n = Len(cells)
  OBVIOUS
<1>3. /\ n \in Nat /\ s \in Seq(Nat) /\ Len(s) = n+1 /\ s[n+1] = id
      /\ \A a \in 1..n : s[a] = cells[a] /\ cells[a] \in Nat
  BY <1>1, <1>2, AppendProperties, LenProperties, ElementOfSeq
<1>4. \A a \in 1..n+1 : a \in 1..n \/ a = n+1
  BY <1>3
<1>5. \A a \in 1..n : cells[a] < id
  BY <1>2 DEF ShownIn
<1>6. ASSUME NEW a \in 1..n+1, NEW b \in 1..n+1, a < b PROVE s[a] < s[b]
  <2>1. a \in 1..n
    BY <1>3, <1>6
  <2>2. CASE b \in 1..n
    BY <1>2, <1>3, <1>6, <2>1, <2>2 DEF LeafInOrder
  <2>3. CASE b = n+1
    BY <1>3, <1>5, <2>1, <2>3
  <2> QED BY <1>4, <2>2, <2>3
<1>7. LeafInOrder(s)
  BY <1>3, <1>6 DEF LeafInOrder
<1>8. ASSUME NEW x PROVE ShownIn(s, x) <=> ShownIn(cells, x) \/ x = id
  <2>1. ASSUME ShownIn(s, x) PROVE ShownIn(cells, x) \/ x = id
    <3>1. PICK a \in 1..n+1 : s[a] = x
      BY <1>3, <2>1 DEF ShownIn
    <3> QED BY <1>2, <1>3, <1>4, <3>1 DEF ShownIn
  <2>2. ASSUME ShownIn(cells, x) PROVE ShownIn(s, x)
    <3>1. PICK a \in 1..n : cells[a] = x
      BY <1>2, <2>2 DEF ShownIn
    <3>2. a \in 1..n+1 /\ s[a] = x
      BY <1>3, <3>1
    <3> QED BY <1>3, <3>2 DEF ShownIn
  <2>3. n+1 \in 1..n+1
    BY <1>3
  <2>4. ShownIn(s, id)
    BY <1>3, <2>3 DEF ShownIn
  <2> QED BY <2>1, <2>2, <2>4
<1> QED BY <1>1, <1>3, <1>7, <1>8

(* A row at the end of the last leaf.                                      *)
LEMMA RowAppended ==
  ASSUME NEW n \in Nat, n # 0, NEW rows, InOrder(n, rows), NEW id \in Nat,
         \A x : Shown(n, rows, x) => x < id,
         NEW new, new[n] = Append(rows[n], id), \A i \in 1..n-1 : new[i] = rows[i]
  PROVE  InOrder(n, new) /\ \A x : Shown(n, new, x) <=> Shown(n, rows, x) \/ x = id
<1>1. n \in 1..n /\ \A i \in 1..n : i = n \/ i \in 1..n-1
  OBVIOUS
<1>2. /\ rows[n] \in Seq(Nat) /\ LeafInOrder(rows[n])
      /\ \A x : ShownIn(rows[n], x) => x < id
  BY <1>1 DEF InOrder, Shown
<1>3. /\ new[n] \in Seq(Nat) /\ LeafInOrder(new[n])
      /\ \A x : ShownIn(new[n], x) <=> ShownIn(rows[n], x) \/ x = id
  BY <1>2, CellsAppended
<1>4. \A i \in 1..n : new[i] \in Seq(Nat) /\ LeafInOrder(new[i])
  BY <1>1, <1>3 DEF InOrder
<1>5. ASSUME NEW i \in 1..n, NEW j \in 1..n, i < j PROVE LeafBelow(new[i], new[j])
  <2>1. i \in 1..n-1 /\ new[i] = rows[i] /\ LeafBelow(rows[i], rows[j])
    BY <1>1, <1>5 DEF InOrder
  <2>2. CASE j \in 1..n-1
    BY <2>1, <2>2
  <2>3. CASE j = n
    <3> SUFFICES ASSUME NEW a \in 1..Len(rows[i]), NEW b \in 1..Len(new[n])
                 PROVE  rows[i][a] < new[n][b]
      BY <2>1, <2>3 DEF LeafBelow
    <3>1. ShownIn(rows[n], new[n][b]) \/ new[n][b] = id
      BY <1>3 DEF ShownIn
    <3>2. ASSUME ShownIn(rows[n], new[n][b]) PROVE rows[i][a] < new[n][b]
      BY <2>1, <2>3, <3>2 DEF ShownIn, LeafBelow
    <3>3. ShownIn(rows[i], rows[i][a])
      BY DEF ShownIn
    <3>4. rows[i][a] < id
      BY <3>3 DEF Shown
    <3> QED BY <3>1, <3>2, <3>4
  <2> QED BY <1>1, <2>2, <2>3
<1>6. InOrder(n, new)
  BY <1>4, <1>5 DEF InOrder
<1>7. ASSUME NEW x PROVE Shown(n, new, x) <=> Shown(n, rows, x) \/ x = id
  BY <1>1, <1>3 DEF Shown
<1> QED BY <1>6, <1>7

(* A leaf of one row behind the last leaf.                                 *)
LEMMA LeafAdded ==
  ASSUME NEW n \in Nat, NEW rows, InOrder(n, rows), NEW id \in Nat,
         \A x : Shown(n, rows, x) => x < id,
         NEW new, new[n+1] = <<id>>, \A i \in 1..n : new[i] = rows[i]
  PROVE  InOrder(n+1, new) /\ \A x : Shown(n+1, new, x) <=> Shown(n, rows, x) \/ x = id
<1>1. n+1 \in 1..n+1 /\ \A i \in 1..n+1 : i = n+1 \/ i \in 1..n
  OBVIOUS
<1>2. PICK s : s = <<id>>
  OBVIOUS
<1>3. s \in Seq(Nat) /\ Len(s) = 1 /\ s[1] = id
  BY <1>2
<1>4. LeafInOrder(s) /\ \A x : ShownIn(s, x) <=> x = id
  BY <1>3 DEF LeafInOrder, ShownIn
<1>5. \A i \in 1..n+1 : new[i] \in Seq(Nat) /\ LeafInOrder(new[i])
  BY <1>1, <1>2, <1>3, <1>4 DEF InOrder
<1>6. ASSUME NEW i \in 1..n+1, NEW j \in 1..n+1, i < j PROVE LeafBelow(new[i], new[j])
  <2>1. i \in 1..n /\ new[i] = rows[i]
    BY <1>1, <1>6
  <2>2. CASE j \in 1..n
    BY <1>6, <2>1, <2>2 DEF InOrder
  <2>3. CASE j = n+1
    <3>1. \A a \in 1..Len(rows[i]) : rows[i][a] < id
      BY <2>1 DEF ShownIn, Shown
    <3> QED BY <1>2, <1>3, <2>1, <2>3, <3>1 DEF LeafBelow
  <2> QED BY <1>1, <2>2, <2>3
<1>7. InOrder(n+1, new)
  BY <1>5, <1>6 DEF InOrder
<1>8. ASSUME NEW x PROVE Shown(n+1, new, x) <=> Shown(n, rows, x) \/ x = id
  <2>1. ShownIn(new[n+1], x) <=> x = id
    BY <1>2, <1>4
  <2>2. \A i \in 1..n : i \in 1..n+1 /\ new[i] = rows[i]
    OBVIOUS
  <2> QED BY <1>1, <2>1, <2>2 DEF Shown
<1> QED BY <1>7, <1>8

LEMMA CellsRemoved ==
  ASSUME NEW cells \in Seq(Nat), LeafInOrder(cells), NEW k \in 1..Len(cells)
  PROVE  /\ RemoveAt(cells, k) \in Seq(Nat) /\ LeafInOrder(RemoveAt(cells, k))
         /\ \A x : ShownIn(RemoveAt(cells, k), x) <=> ShownIn(cells, x) /\ x # cells[k]
<1>1. PICK s : s = RemoveAt(cells, k)
  OBVIOUS
<1>2. PICK n : n = Len(cells)
  OBVIOUS
<1>3. PICK f : f = [j \in 1..n-1 |-> IF j < k THEN j ELSE j+1]
  OBVIOUS
<1>4. n \in Nat /\ k \in 1..n /\ s \in Seq(Nat) /\ Len(s) = n-1
  BY <1>1, <1>2, Removed, LenProperties
<1>5. /\ \A j \in 1..n-1 : f[j] \in 1..n /\ f[j] # k
      /\ \A i, j \in 1..n-1 : i < j => f[i] < f[j]
      /\ \A a \in 1..n : a # k => \E j \in 1..n-1 : f[j] = a
  <2>1. \A j \in 1..n-1 : f[j] \in 1..n /\ f[j] # k
    BY <1>3, <1>4
  <2>2. \A i, j \in 1..n-1 : i < j => f[i] < f[j]
    BY <1>3, <1>4
  <2>3. ASSUME NEW a \in 1..n, a # k PROVE \E j \in 1..n-1 : f[j] = a
    <3>1. CASE a < k
      <4>1. a \in 1..n-1 /\ f[a] = a
        BY <1>3, <1>4, <3>1
      <4> QED BY <4>1
    <3>2. CASE ~ (a < k)
      <4>1. a-1 \in 1..n-1 /\ f[a-1] = a
        BY <1>3, <1>4, <2>3, <3>2
      <4> QED BY <4>1
    <3> QED BY <3>1, <3>2
  <2> QED BY <2>1, <2>2, <2>3
<1>6. \A j \in 1..n-1 : s[j] = cells[f[j]]
  <2>1. \A j \in 1..n-1 : RemoveAt(cells, k)[j] = IF j < k THEN cells[j] ELSE cells[j+1]
    BY <1>2, <1>4, RemovedAt
  <2> QED BY <1>1, <1>3, <2>1
<1>7. LeafInOrder(s)
  <2> SUFFICES ASSUME NEW a \in 1..n-1, NEW b \in 1..n-1, a < b PROVE s[a] < s[b]
    BY <1>4 DEF LeafInOrder
  <2>1. f[a] \in 1..n /\ f[b] \in 1..n /\ f[a] < f[b]
    BY <1>5
  <2> QED BY <1>2, <1>6, <2>1 DEF LeafInOrder
<1>8. ASSUME NEW a \in 1..n, a # k PROVE cells[a] # cells[k]
  <2>1. a < k \/ k < a
    BY <1>4, <1>8
  <2>2. cells[a] \in Nat /\ cells[k] \in Nat
    BY <1>2, <1>4, ElementOfSeq
  <2>3. a < k => cells[a] < cells[k]
    BY <1>2, <1>4 DEF LeafInOrder
  <2>4. k < a => cells[k] < cells[a]
    BY <1>2, <1>4 DEF LeafInOrder
  <2> QED BY <2>1, <2>2, <2>3, <2>4
<1>9. ASSUME NEW x PROVE ShownIn(s, x) <=> ShownIn(cells, x) /\ x # cells[k]
  <2>1. ASSUME ShownIn(s, x) PROVE ShownIn(cells, x) /\ x # cells[k]
    <3>1. PICK j \in 1..n-1 : s[j] = x
      BY <1>4, <2>1 DEF ShownIn
    <3>2. f[j] \in 1..n /\ f[j] # k /\ cells[f[j]] = x
      BY <1>5, <1>6, <3>1
    <3>3. x # cells[k]
      BY <1>8, <3>2
    <3> QED BY <1>2, <3>2, <3>3 DEF ShownIn
  <2>2. ASSUME ShownIn(cells, x), x # cells[k] PROVE ShownIn(s, x)
    <3>1. PICK a \in 1..n : cells[a] = x
      BY <1>2, <2>2 DEF ShownIn
    <3>2. PICK j \in 1..n-1 : f[j] = a
      BY <1>5, <2>2, <3>1
    <3>3. s[j] = x
      BY <1>6, <3>1, <3>2
    <3> QED BY <1>4, <3>3 DEF ShownIn
  <2> QED BY <2>1, <2>2
<1> QED BY <1>1, <1>4, <1>7, <1>9

(* A row that leaves its leaf.                                             *)
LEMMA RowRemoved ==
  ASSUME NEW n \in Nat, NEW rows, InOrder(n, rows), NEW l \in 1..n, NEW k \in 1..Len(rows[l]),
         NEW new, new[l] = RemoveAt(rows[l], k), \A i \in 1..n : i # l => new[i] = rows[i]
  PROVE  InOrder(n, new) /\ \A x : Shown(n, new, x) <=> Shown(n, rows, x) /\ x # rows[l][k]
<1>1. rows[l] \in Seq(Nat) /\ LeafInOrder(rows[l])
  BY DEF InOrder
<1>2. PICK id : id = rows[l][k]
  OBVIOUS
<1>3. /\ new[l] \in Seq(Nat) /\ LeafInOrder(new[l])
      /\ \A x : ShownIn(new[l], x) <=> ShownIn(rows[l], x) /\ x # id
  BY <1>1, <1>2, CellsRemoved
<1>4. \A i \in 1..n : new[i] \in Seq(Nat) /\ LeafInOrder(new[i])
  BY <1>3 DEF InOrder
<1>5. \A i \in 1..n : \A x : ShownIn(new[i], x) => ShownIn(rows[i], x)
  BY <1>3
<1>6. ASSUME NEW i \in 1..n, NEW j \in 1..n, i < j PROVE LeafBelow(new[i], new[j])
  <2> SUFFICES ASSUME NEW a \in 1..Len(new[i]), NEW b \in 1..Len(new[j])
               PROVE  new[i][a] < new[j][b]
    BY DEF LeafBelow
  <2>1. ShownIn(new[i], new[i][a]) /\ ShownIn(new[j], new[j][b])
    BY DEF ShownIn
  <2>2. ShownIn(rows[i], new[i][a]) /\ ShownIn(rows[j], new[j][b])
    BY <1>5, <2>1
  <2>3. PICK c \in 1..Len(rows[i]) : rows[i][c] = new[i][a]
    BY <2>2 DEF ShownIn
  <2>4. PICK d \in 1..Len(rows[j]) : rows[j][d] = new[j][b]
    BY <2>2 DEF ShownIn
  <2>5. LeafBelow(rows[i], rows[j])
    BY <1>6 DEF InOrder
  <2>6. rows[i][c] < rows[j][d]
    BY <2>5 DEF LeafBelow
  <2> QED BY <2>3, <2>4, <2>6
<1>7. InOrder(n, new)
  BY <1>4, <1>6 DEF InOrder
<1>8. \A i \in 1..n : i # l => ~ ShownIn(rows[i], id)
  <2> SUFFICES ASSUME NEW i \in 1..n, i # l, ShownIn(rows[i], id) PROVE FALSE
    OBVIOUS
  <2>1. PICK a \in 1..Len(rows[i]) : rows[i][a] = id
    BY DEF ShownIn
  <2>2. rows[i] \in Seq(Nat)
    BY DEF InOrder
  <2>3. id \in Nat
    BY <2>1, <2>2, ElementOfSeq
  <2>4. i < l \/ l < i
    OBVIOUS
  <2>5. ~ (i < l)
    BY <1>2, <2>1, <2>3 DEF InOrder, LeafBelow
  <2>6. ~ (l < i)
    BY <1>2, <2>1, <2>3 DEF InOrder, LeafBelow
  <2> QED BY <2>4, <2>5, <2>6
<1>9. ASSUME NEW x PROVE Shown(n, new, x) <=> Shown(n, rows, x) /\ x # id
  <2>1. \A i \in 1..n : ShownIn(new[i], x) <=> ShownIn(rows[i], x) /\ x # id
    BY <1>3, <1>8
  <2> QED BY <2>1 DEF Shown
<1> QED BY <1>2, <1>7, <1>9

-----------------------------------------------------------------------------
(* What an append keeps true beside its path: the page it links is the page *)
(* in the file with another right pointer, the moved root is in its place,  *)
(* and no row has reached the next row id.                                  *)

Linking == pc = "relink" /\ Current.page.type = "leaf"
Changed ==
  pc = "relink" =>
    /\ Current.page.type = file[Current.no].type
    /\ Current.page.cells = file[Current.no].cells
    /\ Linking => Current.page.right = split.no
NewLeaf ==
  Linking =>
    /\ split.no \in DOMAIN file /\ file[split.no].type = "leaf"
    /\ file[split.no].right = NULL_PAGE_NO /\ file[split.no].cells = <<entry.next_row_id>>
Moved == pc = "root" => AtRoot /\ PageCount \in DOMAIN file /\ file[PageCount] = Current.page
SplitRow == ~ Whole => split.min_row_id # 0
LiveBelow == \A id \in live : id < entry.next_row_id
SideInv ==
  Changed /\ NewLeaf /\ Moved /\ SplitRow /\ entry.next_row_id # 0 /\ LiveBelow

LEMMA EntryNext ==
  ASSUME Known, [Next]_vars
  PROVE  /\ ~ Finish => entry'.next_row_id = entry.next_row_id
         /\ Finish => entry'.next_row_id = entry.next_row_id + 1
         /\ entry.next_row_id \in Nat
         /\ pc # "idle" => RowIdToAppend = entry.next_row_id
<1>0. entry \in Entry /\ entry.next_row_id \in Nat
  BY DEF Known, TypeOK, Entry, RowId
<1>1. pc # "idle" => RowIdToAppend = entry.next_row_id /\ op.own.next_row_id = entry.next_row_id
  BY DEF Known, PointersInv, NextIsCurrent
<1>2. ASSUME CountPage PROVE entry'.next_row_id = entry.next_row_id
  BY <1>0, <1>2 DEF CountPage, Entry
<1>3. ASSUME NewRoot PROVE entry'.next_row_id = entry.next_row_id
  BY <1>1, <1>3 DEF NewRoot
<1>4. ASSUME Finish PROVE entry'.next_row_id = entry.next_row_id + 1
  BY <1>0, <1>1, <1>4 DEF Finish, Entry
<1>5. ASSUME UNCHANGED entry PROVE entry'.next_row_id = entry.next_row_id
  BY <1>5
<1>6. CASE CountSplit \/ CountRoot
  BY <1>0, <1>1, <1>2, <1>6 DEF CountSplit, CountRoot, Finish
<1>7. CASE NewRoot
  BY <1>0, <1>1, <1>3, <1>7 DEF NewRoot, Finish
<1>8. CASE Finish
  BY <1>0, <1>1, <1>4, <1>8
<1>9. ~ (CountSplit \/ CountRoot \/ NewRoot \/ Finish) => UNCHANGED entry
  BY DEF Next, AppendStep, BeginAppend, Descend, ReadFails, LeafThrows, LeafAppend, SplitLeaf, Relink,
         AbsorbSplit, SplitInterior, MoveRoot, Delete, vars
<1> QED BY <1>0, <1>1, <1>5, <1>6, <1>7, <1>8, <1>9

LEMMA LiveStep ==
  ASSUME Known, LiveBelow, [Next]_vars
  PROVE  LiveBelow'
<1>1. entry.next_row_id \in Nat /\ live \subseteq Nat
  BY DEF Known, TypeOK, Entry, RowId
<1>2. CASE Finish
  <2>1. RowIdToAppend = entry.next_row_id /\ entry'.next_row_id = entry.next_row_id + 1
    BY <1>2, EntryNext DEF Finish
  <2>2. live' = live \union {RowIdToAppend}
    BY <1>2 DEF Finish
  <2> SUFFICES ASSUME NEW id \in live' PROVE id < entry'.next_row_id
    BY DEF LiveBelow
  <2>3. CASE id \in live
    BY <1>1, <2>1, <2>3 DEF LiveBelow
  <2>4. CASE id = entry.next_row_id
    BY <1>1, <2>1, <2>4
  <2> QED BY <2>1, <2>2, <2>3, <2>4
<1>3. CASE ~ Finish
  <2>1. entry'.next_row_id = entry.next_row_id
    BY <1>3, EntryNext
  <2>2. live' \subseteq live
    BY <1>3 DEF Next, AppendStep, BeginAppend, Descend, ReadFails, LeafThrows, LeafAppend, SplitLeaf,
                Relink, CountSplit, CountRoot, AbsorbSplit, SplitInterior, MoveRoot, NewRoot, Delete, vars
  <2> QED BY <2>1, <2>2 DEF LiveBelow
<1> QED BY <1>2, <1>3

LEMMA SideSplitLeaf ==
  ASSUME Known, FramesInv, SideInv, SplitLeaf,
         NEW n, NEW path, NEW last, RightPart(n, path, last)
  PROVE  /\ Changed' /\ NewLeaf' /\ Moved' /\ SplitRow'
         /\ Linking' /\ Current'.no = last /\ PageCount \notin DOMAIN file /\ split'.no = PageCount
<1>1. PICK page : page = AppendCell(NewPage("leaf"), RowIdToAppend, op.length)
  OBVIOUS
<1>2. PICK p : p = PageCount
  OBVIOUS
<1>3. /\ pc = "leaf" /\ pc' = "relink" /\ Write(p, page) /\ split'.no = p
      /\ split'.min_row_id = MinRowId(page) /\ UNCHANGED entry
  BY <1>1, <1>2 DEF SplitLeaf
<1>4. page.type = "leaf" /\ page.right = NULL_PAGE_NO /\ page.cells = Append(<< >>, RowIdToAppend)
  BY <1>1 DEF AppendCell, NewPage
<1>5. RowIdToAppend = entry.next_row_id /\ entry.next_row_id \in Nat
  BY <1>3, EntryNext DEF Next, AppendStep
<1>6. page.cells = <<entry.next_row_id>>
  BY <1>4, <1>5
<1>7. p \notin DOMAIN file
  BY <1>2, <1>3, FreshPage DEF Known
<1>8. /\ p \in DOMAIN file' /\ file'[p] = page
      /\ \A r \in DOMAIN file : file'[r] = file[r]
  <2>1. /\ DOMAIN file' = DOMAIN file \union {p} /\ file'[p] = page
        /\ \A r \in DOMAIN file : r # p => file'[r] = file[r]
    BY <1>3, WriteEffect
  <2> QED BY <1>7, <2>1
<1>9. /\ frames' \in Seq(Frame) /\ Len(frames') = Len(frames)
      /\ frames'[Len(frames)].no = Current.no
      /\ frames'[Len(frames)].page = SetRight(Current.page, p)
  BY <1>2, SplitLeafFrames DEF Known
<1>10. Current' = frames'[Len(frames)]
  BY <1>9 DEF Current, Last
<1>11. /\ Current.no = last /\ file[last] = Current.page /\ Current.page \in LeafPage
       /\ last \in DOMAIN file
  BY <1>3, AtTheEnd, PathEnd
<1>12. /\ SetRight(Current.page, p).type = "leaf" /\ SetRight(Current.page, p).right = p
       /\ SetRight(Current.page, p).cells = Current.page.cells
  BY <1>11 DEF SetRight, LeafPage
<1>13. /\ Current'.no = last /\ file'[last] = Current.page
       /\ Current'.page.type = "leaf" /\ Current'.page.right = p
       /\ Current'.page.cells = Current.page.cells
  BY <1>8, <1>9, <1>10, <1>11, <1>12
<1>14. Linking'
  BY <1>3, <1>13 DEF Linking
<1>15. Changed'
  BY <1>3, <1>11, <1>13 DEF Changed, LeafPage
<1>16. NewLeaf'
  BY <1>3, <1>4, <1>6, <1>8 DEF NewLeaf
<1>17. split'.min_row_id = entry.next_row_id
  BY <1>3, <1>4, <1>5, <1>6 DEF MinRowId
<1>18. Moved' /\ SplitRow'
  BY <1>3, <1>17 DEF Moved, SplitRow, SideInv
<1> QED BY <1>2, <1>3, <1>7, <1>13, <1>14, <1>15, <1>16, <1>18

LEMMA SideSplitInterior ==
  ASSUME Known, FramesInv, SideInv, SplitInterior
  PROVE  /\ Changed' /\ NewLeaf' /\ Moved' /\ SplitRow'
         /\ ~ Linking' /\ PageCount \notin DOMAIN file
<1>1. PICK page : page = WithSplit(NewPage("interior"), Parent.page.right)
  OBVIOUS
<1>2. PICK p : p = PageCount
  OBVIOUS
<1>3. /\ pc = "return" /\ pc' = "relink" /\ ~ AtRoot /\ Write(p, page)
      /\ split'.min_row_id = MinRowId(page)
  BY <1>1, <1>2 DEF SplitInterior
<1>4. p \notin DOMAIN file
  BY <1>2, <1>3, FreshPage DEF Known
<1>5. /\ DOMAIN file' = DOMAIN file \union {p}
      /\ \A r \in DOMAIN file : r # p => file'[r] = file[r]
  BY <1>3, WriteEffect
<1>6. frames \in Seq(Frame) /\ frames # << >> /\ Len(frames) \in Nat
  BY <1>3, TopFrame DEF Known, TypeOK
<1>7. PICK m : m = Len(frames)-1
  OBVIOUS
<1>8. /\ m \in 1..Len(frames) /\ Parent = frames[m] /\ Parent.page \in InteriorPage
  BY <1>3, <1>6, <1>7, ParentFrame, ParentInterior DEF Known
<1>9. file[Parent.no] = Parent.page /\ Parent.no \in DOMAIN file
  BY <1>3, <1>8 DEF FramesInv, FramesCopied, Known, CountInv, PagesCounted
<1>10. /\ frames' \in Seq(Frame) /\ Len(frames') = m
       /\ frames'[m].no = Parent.no
       /\ frames'[m].page = SetRight(Parent.page, NULL_PAGE_NO)
  BY <1>7, SplitInteriorFrames DEF Known
<1>11. Current' = frames'[m]
  BY <1>10 DEF Current, Last
<1>12. /\ SetRight(Parent.page, NULL_PAGE_NO).type = "interior"
       /\ SetRight(Parent.page, NULL_PAGE_NO).cells = Parent.page.cells
       /\ Parent.page.type = "interior"
  BY <1>8 DEF SetRight, InteriorPage
<1>13. /\ file'[Current'.no] = Parent.page /\ Current'.page.type = "interior"
       /\ Current'.page.cells = Parent.page.cells
  BY <1>4, <1>5, <1>9, <1>10, <1>11, <1>12
<1>14. ~ Linking'
  BY <1>13 DEF Linking
<1>15. Changed' /\ NewLeaf'
  BY <1>12, <1>13, <1>14 DEF Changed, NewLeaf
<1>16. Parent.page.right \in PageNo
  BY <1>8 DEF InteriorPage
<1>17. MinRowId(page) = split.min_row_id
  BY <1>1, <1>16 DEF MinRowId, AppendCell, NewPage, WithSplit, SetRight
<1>18. split'.min_row_id # 0
  BY <1>3, <1>17 DEF SideInv, SplitRow, Whole
<1>19. Moved' /\ SplitRow'
  BY <1>3, <1>18 DEF Moved, SplitRow
<1> QED BY <1>2, <1>4, <1>14, <1>15, <1>19

LEMMA SideMoveRoot ==
  ASSUME Known, SideInv, MoveRoot
  PROVE  Changed' /\ NewLeaf' /\ Moved' /\ SplitRow' /\ ~ Linking'
<1>1. PICK p : p = PageCount
  OBVIOUS
<1>2. PICK page : page = Current.page
  OBVIOUS
<1>3. /\ pc = "return" /\ pc' = "root" /\ AtRoot /\ Write(p, page)
      /\ UNCHANGED <<table, op, frames, split>>
  BY <1>1, <1>2 DEF MoveRoot
<1>4. p \in DOMAIN file' /\ file'[p] = page
  BY <1>3, WriteEffect
<1>5. PageCount' = p /\ Current' = Current
  BY <1>1, <1>3 DEF PageCount, Current
<1>6. Current'.page = page
  BY <1>2, <1>5
<1>7. Moved'
  <2>1. AtRoot'
    BY <1>3 DEF AtRoot
  <2> QED BY <1>4, <1>5, <1>6, <2>1 DEF Moved
<1>8. ~ Linking' /\ Changed' /\ NewLeaf'
  BY <1>3 DEF Linking, Changed, NewLeaf
<1>9. SplitRow'
  BY <1>3 DEF SplitRow, SideInv, Whole
<1> QED BY <1>7, <1>8, <1>9

LEMMA SideRest ==
  ASSUME SideInv, pc' \notin {"relink", "root"}, Whole' \/ (~ Whole /\ UNCHANGED split)
  PROVE  Changed' /\ NewLeaf' /\ Moved' /\ SplitRow' /\ ~ Linking'
BY DEF SideInv, Changed, NewLeaf, Moved, SplitRow, Linking

LEMMA SideStep ==
  ASSUME Known, SideInv, NEW last, RightInv(last), [Next]_vars
  PROVE  SideInv'
<1>1. LiveBelow'
  BY LiveStep DEF SideInv
<1>2. entry'.next_row_id # 0
  BY EntryNext DEF SideInv
<1>3. Changed' /\ NewLeaf' /\ Moved' /\ SplitRow'
  <2>1. PICK n, path : RightPart(n, path, last)
    BY DEF RightInv
  <2>2. CASE SplitLeaf
    BY <2>1, <2>2, SideSplitLeaf DEF RightInv
  <2>3. CASE SplitInterior
    BY <2>3, SideSplitInterior DEF RightInv
  <2>4. CASE MoveRoot
    BY <2>4, SideMoveRoot
  <2>5. CASE UNCHANGED vars
    BY <2>5 DEF vars, SideInv, Changed, NewLeaf, Moved, SplitRow, Linking, Current, PageCount, Whole, AtRoot
  <2>6. CASE Relink \/ CountSplit
    BY <2>6, SideRest DEF Relink, CountSplit, Whole
  <2>7. CASE ~ (SplitLeaf \/ SplitInterior \/ MoveRoot \/ UNCHANGED vars \/ Relink \/ CountSplit)
    <3>1. pc' \in {"idle", "descend", "leaf", "finish", "count_root"}
      BY <2>7 DEF Next, AppendStep, BeginAppend, Descend, ReadFails, LeafThrows, LeafAppend,
                  CountRoot, AbsorbSplit, NewRoot, Finish, Throw, Delete
    <3> QED BY <3>1, SideRest DEF Whole
  <2> QED BY <2>2, <2>3, <2>4, <2>5, <2>6, <2>7
<1> QED BY <1>1, <1>2, <1>3 DEF SideInv

-----------------------------------------------------------------------------
(* The chain of leaves from the leftmost to the rightmost path.             *)

(* The row being appended shows when its leaf has been written, or linked. *)
Visible ==
  IF pc \in {"idle", "descend", "leaf"} \/ Linking THEN live ELSE live \union {entry.next_row_id}
PathEnds(c, chain) == IF Linking THEN split.no ELSE chain[c]

ChainPart(c, chain) ==
  /\ LeafChain(file, c, chain)
  /\ InOrder(c, CellsOf(file, c, chain))
  /\ \A id : Shown(c, CellsOf(file, c, chain), id) <=> id \in Visible
  /\ Linking => Off(c, chain, split.no) /\ chain[c] = Current.no
  /\ pc = "root" => Off(c, chain, PageCount)
LeftPart(n, left) ==
  /\ LeftPath(file, n, left)
  /\ pc = "root" => Off(n, left, PageCount)
ChainOf(last, c, chain, n, left) ==
  /\ ChainPart(c, chain) /\ PathEnds(c, chain) = last /\ RightInv(last)
  /\ LeftPart(n, left) /\ left[n] = chain[1]
ChainInv == SideInv /\ \E last, c, chain, n, left : ChainOf(last, c, chain, n, left)

LEMMA ChainPlaces ==
  ASSUME NEW pages, NEW c, NEW chain, LeafChain(pages, c, chain)
  PROVE  /\ c \in Nat /\ c # 0 /\ c \in 1..c /\ 1 \in 1..c
         /\ \A i \in 1..c : chain[i] \in DOMAIN pages /\ pages[chain[i]].type = "leaf"
         /\ \A i \in 1..c-1 : pages[chain[i]].right = chain[i+1]
         /\ pages[chain[c]].right = NULL_PAGE_NO
         /\ \A i, j \in 1..c : chain[i] = chain[j] => i = j
BY DEF LeafChain, PathIn, Different

(* A write that is not of a leaf of the chain.                             *)
LEMMA ChainUntouched ==
  ASSUME NEW c, NEW chain, LeafChain(file, c, chain), DOMAIN file \subseteq DOMAIN file',
         \A i \in 1..c : file'[chain[i]] = file[chain[i]]
  PROVE  LeafChain(file', c, chain) /\ CellsOf(file', c, chain) = CellsOf(file, c, chain)
<1>1. /\ PathIn(file, c, chain) /\ c \in 1..c /\ c \in Nat
      /\ \A i \in 1..c : file[chain[i]].type = "leaf"
      /\ \A i \in 1..c-1 : file[chain[i]].right = chain[i+1]
      /\ file[chain[c]].right = NULL_PAGE_NO
  BY ChainPlaces DEF LeafChain
<1>2. PathIn(file', c, chain)
  BY <1>1, PathKept
<1>3. \A i \in 1..c-1 : i \in 1..c
  BY <1>1
<1>4. LeafChain(file', c, chain)
  BY <1>1, <1>2, <1>3 DEF LeafChain
<1>5. CellsOf(file', c, chain) = CellsOf(file, c, chain)
  BY DEF CellsOf
<1> QED BY <1>4, <1>5

LEMMA OffTheChain ==
  ASSUME NEW c, NEW chain, LeafChain(file, c, chain), NEW p,
         p \notin DOMAIN file \/ file[p].type # "leaf"
  PROVE  Off(c, chain, p)
BY ChainPlaces DEF Off

LEMMA ChainWriteOff ==
  ASSUME NEW c, NEW chain, LeafChain(file, c, chain),
         NEW page_no, NEW page, Write(page_no, page), Off(c, chain, page_no)
  PROVE  LeafChain(file', c, chain) /\ CellsOf(file', c, chain) = CellsOf(file, c, chain)
<1>1. /\ DOMAIN file \subseteq DOMAIN file'
      /\ \A p \in DOMAIN file : p # page_no => file'[p] = file[p]
  BY WriteEffect
<1>2. \A i \in 1..c : file'[chain[i]] = file[chain[i]]
  BY <1>1, ChainPlaces DEF Off
<1> QED BY <1>1, <1>2, ChainUntouched

LEMMA ChainKept ==
  ASSUME NEW c, NEW chain, ChainPart(c, chain), LeafChain(file', c, chain),
         CellsOf(file', c, chain) = CellsOf(file, c, chain), Visible' = Visible,
         Linking' => Off(c, chain, split'.no) /\ chain[c] = Current'.no,
         pc' = "root" => Off(c, chain, PageCount')
  PROVE  ChainPart(c, chain)'
BY DEF ChainPart

LEMMA VisibleSame ==
  ASSUME Known, SideInv, [Next]_vars, ~ LeafAppend, ~ (Relink /\ Linking),
         SplitLeaf => Linking', SplitInterior => ~ Linking', \A h \in Handles : ~ Delete(h)
  PROVE  Visible' = Visible
<1>1. CASE UNCHANGED vars
  BY <1>1 DEF vars, Visible, Linking, Current
<1>2. CASE Finish
  <2>1. live' = live \union {entry.next_row_id} /\ pc = "finish" /\ pc' = "idle"
    BY <1>2, EntryNext DEF Finish, Throw
  <2> QED BY <2>1 DEF Visible, Linking
<1>3. CASE \/ \E h \in Handles, length \in CellLengths : BeginAppend(h, length)
           \/ Descend \/ ReadFails \/ LeafThrows
  <2>1. UNCHANGED live /\ pc \in {"idle", "descend", "leaf"} /\ pc' \in {"idle", "descend", "leaf"}
    BY <1>3 DEF BeginAppend, Descend, ReadFails, LeafThrows, Throw
  <2> QED BY <2>1 DEF Visible
<1>4. CASE SplitLeaf
  <2>1. UNCHANGED live /\ pc = "leaf"
    BY <1>4 DEF SplitLeaf
  <2> QED BY <1>4, <2>1 DEF Visible
<1>5. CASE Relink \/ CountSplit \/ AbsorbSplit \/ SplitInterior \/ MoveRoot \/ NewRoot \/ CountRoot
  <2>1. ~ Finish
    BY <1>5 DEF Relink, CountSplit, AbsorbSplit, SplitInterior, MoveRoot, NewRoot, CountRoot, Finish
  <2>2. entry'.next_row_id = entry.next_row_id
    BY <2>1, EntryNext
  <2>3. UNCHANGED live
    BY <1>5 DEF Relink, CountSplit, AbsorbSplit, SplitInterior, MoveRoot, NewRoot, CountRoot
  <2>4. ~ Linking /\ pc \notin {"idle", "descend", "leaf"}
    BY <1>5 DEF Relink, CountSplit, AbsorbSplit, SplitInterior, MoveRoot, NewRoot, CountRoot, Linking
  <2>5. ~ Linking' /\ pc' \notin {"idle", "descend", "leaf"}
    BY <1>5 DEF Relink, CountSplit, AbsorbSplit, SplitInterior, MoveRoot, NewRoot, CountRoot, Linking
  <2> QED BY <2>2, <2>3, <2>4, <2>5 DEF Visible
<1> QED BY <1>1, <1>2, <1>3, <1>4, <1>5 DEF Next, AppendStep

LEMMA ChainStutters ==
  ASSUME NEW c, NEW chain, ChainPart(c, chain), UNCHANGED vars
  PROVE  ChainPart(c, chain)' /\ PathEnds(c, chain)' = PathEnds(c, chain)
BY DEF vars, ChainPart, PathEnds, Linking, Visible, Current, PageCount

LEMMA ChainQuiet ==
  ASSUME Known, SideInv, [Next]_vars, NEW c, NEW chain, ChainPart(c, chain),
         UNCHANGED file, pc # "relink", pc' \notin {"relink", "root"},
         ~ LeafAppend, \A h \in Handles : ~ Delete(h)
  PROVE  ChainPart(c, chain)' /\ PathEnds(c, chain)' = PathEnds(c, chain)
<1>1. ~ Linking /\ ~ Linking' /\ ~ (Relink /\ Linking)
  BY DEF Linking
<1>2. ~ SplitLeaf /\ ~ SplitInterior
  BY DEF SplitLeaf, SplitInterior
<1>3. Visible' = Visible
  BY <1>1, <1>2, VisibleSame
<1>4. LeafChain(file', c, chain) /\ CellsOf(file', c, chain) = CellsOf(file, c, chain)
  BY DEF ChainPart
<1>5. ChainPart(c, chain)'
  BY <1>1, <1>3, <1>4, ChainKept
<1> QED BY <1>1, <1>5 DEF PathEnds

(* The page that an interior split, a move of the root or a new root       *)
(* writes is none of the leaves of the chain.                              *)
LEMMA ChainAside ==
  ASSUME Known, SideInv, [Next]_vars, NEW c, NEW chain, ChainPart(c, chain),
         ~ LeafAppend, ~ Linking, ~ Linking', ~ SplitLeaf, \A h \in Handles : ~ Delete(h),
         NEW page_no, NEW page, Write(page_no, page), Off(c, chain, page_no),
         pc' = "root" => page_no = PageCount'
  PROVE  ChainPart(c, chain)' /\ PathEnds(c, chain)' = PathEnds(c, chain)
<1>1. Visible' = Visible
  BY VisibleSame
<1>2. LeafChain(file', c, chain) /\ CellsOf(file', c, chain) = CellsOf(file, c, chain)
  BY ChainWriteOff DEF ChainPart
<1>3. pc' = "root" => Off(c, chain, PageCount')
  OBVIOUS
<1>4. ChainPart(c, chain)'
  BY <1>1, <1>2, <1>3, ChainKept
<1> QED BY <1>4 DEF PathEnds

LEMMA ChainSplitLeaf ==
  ASSUME Known, SideInv, NEW c, NEW chain, ChainPart(c, chain), RightInv(PathEnds(c, chain)),
         SplitLeaf, NEW p, p = PageCount
  PROVE  ChainPart(c, chain)' /\ PathEnds(c, chain)' = p
<1>1. ~ Linking
  BY DEF SplitLeaf, Linking
<1>2. RightInv(chain[c])
  BY <1>1 DEF PathEnds
<1>3. PICK n, path : RightPart(n, path, chain[c])
  BY <1>2 DEF RightInv
<1>4. Linking' /\ Current'.no = chain[c] /\ p \notin DOMAIN file /\ split'.no = p
  BY <1>2, <1>3, SideSplitLeaf DEF RightInv
<1>5. PICK page : Write(p, page)
  BY DEF SplitLeaf
<1>6. Off(c, chain, p)
  BY <1>4, OffTheChain DEF ChainPart
<1>7. LeafChain(file', c, chain) /\ CellsOf(file', c, chain) = CellsOf(file, c, chain)
  BY <1>5, <1>6, ChainWriteOff DEF ChainPart
<1>8. [Next]_vars /\ ~ LeafAppend /\ ~ (Relink /\ Linking) /\ ~ SplitInterior
      /\ \A h \in Handles : ~ Delete(h)
  BY <1>1 DEF Next, AppendStep, SplitLeaf, LeafAppend, SplitInterior, Delete
<1>9. Visible' = Visible
  BY <1>4, <1>8, VisibleSame
<1>10. pc' # "root"
  BY <1>4 DEF Linking
<1>11. ChainPart(c, chain)'
  BY <1>4, <1>6, <1>7, <1>9, <1>10, ChainKept
<1> QED BY <1>4, <1>11 DEF PathEnds
=============================================================================
