------------------------- MODULE TablePagesScanProofs -------------------------
(***************************************************************************)
(* What a scan of a table file reads: the chain of leaves that every step  *)
(* of an append and every delete keeps, the rows in it, and the record     *)
(* store that a table is to the statements that use it.                    *)
(***************************************************************************)
EXTENDS TablePagesProofs

-----------------------------------------------------------------------------
(* The chain and the leftmost path after one write.                         *)


(* A leaf of the chain rewritten, with the same right sibling.             *)
LEMMA ChainRewritten ==
  ASSUME NEW c, NEW chain, LeafChain(file, c, chain), NEW l \in 1..c,
         NEW page, Write(chain[l], page), page.type = "leaf", page.right = file[chain[l]].right
  PROVE  /\ LeafChain(file', c, chain)
         /\ CellsOf(file', c, chain)[l] = page.cells
         /\ \A i \in 1..c : i # l => CellsOf(file', c, chain)[i] = CellsOf(file, c, chain)[i]
<1>1. /\ c \in Nat /\ c \in 1..c
      /\ \A i \in 1..c : chain[i] \in DOMAIN file /\ file[chain[i]].type = "leaf"
      /\ \A i \in 1..c-1 : file[chain[i]].right = chain[i+1]
      /\ file[chain[c]].right = NULL_PAGE_NO
      /\ \A i, j \in 1..c : chain[i] = chain[j] => i = j
  BY ChainPlaces
<1>2. /\ DOMAIN file \subseteq DOMAIN file' /\ file'[chain[l]] = page
      /\ \A p \in DOMAIN file : p # chain[l] => file'[p] = file[p]
  BY WriteEffect
<1>3. \A i \in 1..c : i # l => file'[chain[i]] = file[chain[i]]
  BY <1>1, <1>2
<1>4. \A i \in 1..c : file'[chain[i]].type = "leaf" /\ file'[chain[i]].right = file[chain[i]].right
  BY <1>1, <1>2, <1>3
<1>5. \A i \in 1..c-1 : i \in 1..c
  BY <1>1
<1>6. PathIn(file', c, chain)
  BY <1>2, PathKept DEF LeafChain
<1>7. LeafChain(file', c, chain)
  BY <1>1, <1>4, <1>5, <1>6 DEF LeafChain
<1> QED BY <1>2, <1>3, <1>7 DEF CellsOf

LEMMA ChainLeafAppend ==
  ASSUME Known, SideInv, NEW c, NEW chain, ChainPart(c, chain), RightInv(PathEnds(c, chain)),
         LeafAppend
  PROVE  ChainPart(c, chain)' /\ PathEnds(c, chain)' = PathEnds(c, chain)
<1>1. pc = "leaf" /\ pc' = "finish" /\ ~ Linking /\ ~ Linking' /\ UNCHANGED <<entry, live>>
  BY DEF LeafAppend, Linking
<1>2. RightInv(chain[c]) /\ LeafChain(file, c, chain)
  BY <1>1 DEF PathEnds, ChainPart
<1>3. PICK n, path : RightPart(n, path, chain[c])
  BY <1>2 DEF RightInv
<1>4. Current.no = chain[c] /\ file[chain[c]] = Current.page /\ Current.page \in LeafPage
  BY <1>1, <1>2, <1>3, AtTheEnd DEF RightInv
<1>5. PICK page : page = AppendCell(Current.page, RowIdToAppend, op.length)
  OBVIOUS
<1>6. RowIdToAppend = entry.next_row_id /\ entry.next_row_id \in Nat
  BY <1>1, EntryNext DEF Next, AppendStep
<1>7. /\ page.type = "leaf" /\ page.right = file[chain[c]].right /\ Write(chain[c], page)
      /\ page.cells = Append(file[chain[c]].cells, entry.next_row_id)
  BY <1>4, <1>5, <1>6 DEF LeafAppend, AppendCell, LeafPage
<1>8. c \in 1..c /\ c \in Nat /\ c # 0 /\ \A i \in 1..c-1 : i \in 1..c /\ i # c
  BY <1>2, ChainPlaces
<1>9. PICK rows : rows = CellsOf(file, c, chain)
  OBVIOUS
<1>10. PICK new : new = CellsOf(file', c, chain)
  OBVIOUS
<1>11. rows[c] = file[chain[c]].cells
  BY <1>8, <1>9 DEF CellsOf
<1>12. LeafChain(file', c, chain) /\ new[c] = page.cells /\ \A i \in 1..c : i # c => new[i] = rows[i]
  BY <1>2, <1>7, <1>8, <1>9, <1>10, ChainRewritten
<1>13. InOrder(c, rows) /\ \A x : Shown(c, rows, x) <=> x \in live
  BY <1>1, <1>9 DEF ChainPart, Visible
<1>14. \A x : Shown(c, rows, x) => x < entry.next_row_id
  BY <1>13 DEF SideInv, LiveBelow
<1>15. InOrder(c, new) /\ \A x : Shown(c, new, x) <=> Shown(c, rows, x) \/ x = entry.next_row_id
  <2>1. new[c] = Append(rows[c], entry.next_row_id) /\ \A i \in 1..c-1 : new[i] = rows[i]
    BY <1>7, <1>8, <1>11, <1>12
  <2>2. InOrder(c, rows)
    BY <1>13
  <2>3. c \in Nat /\ c # 0
    BY <1>8
  <2> QED BY <1>6, <1>14, <2>1, <2>2, <2>3, RowAppended
<1>16. Visible' = live \union {entry.next_row_id}
  BY <1>1 DEF Visible
<1>17. ChainPart(c, chain)'
  BY <1>1, <1>10, <1>12, <1>13, <1>15, <1>16 DEF ChainPart
<1> QED BY <1>1, <1>17 DEF PathEnds

LEMMA ChainRelink ==
  ASSUME Known, SideInv, NEW c, NEW chain, ChainPart(c, chain), Relink, Linking,
         NEW p, p = split.no, NEW new, new = Longer(c, chain, p), NEW d, d = c+1
  PROVE  ChainPart(d, new)' /\ PathEnds(d, new)' = PathEnds(c, chain) /\ new[1] = chain[1]
<1>3. PICK page : page = Current.page
  OBVIOUS
<1>4. /\ pc = "relink" /\ pc' = "count" /\ ~ Linking' /\ UNCHANGED <<entry, split, live>>
      /\ LeafChain(file, c, chain) /\ Off(c, chain, p) /\ chain[c] = Current.no
      /\ Write(chain[c], page)
  BY <1>3 DEF Relink, Linking, ChainPart
<1>5. /\ page.type = "leaf" /\ page.right = p /\ page.cells = file[chain[c]].cells
      /\ p \in DOMAIN file /\ file[p].type = "leaf" /\ file[p].right = NULL_PAGE_NO
      /\ file[p].cells = <<entry.next_row_id>>
  BY <1>3, <1>4 DEF SideInv, Changed, NewLeaf, Linking
<1>6. /\ c \in Nat /\ c # 0 /\ c \in 1..c /\ 1 \in 1..c
      /\ \A i \in 1..c : chain[i] \in DOMAIN file /\ file[chain[i]].type = "leaf"
      /\ \A i \in 1..c-1 : file[chain[i]].right = chain[i+1]
      /\ \A i, j \in 1..c : chain[i] = chain[j] => i = j
  BY <1>4, ChainPlaces
<1>7. PathIn(file, c+1, new) /\ new[c+1] = p /\ \A i \in 1..c : new[i] = chain[i]
  BY <1>4, <1>5, PathLonger DEF LeafChain
<1>8. /\ DOMAIN file \subseteq DOMAIN file' /\ file'[chain[c]] = page
      /\ \A r \in DOMAIN file : r # chain[c] => file'[r] = file[r]
  BY <1>4, WriteEffect
<1>9. file'[p] = file[p]
  BY <1>4, <1>5, <1>6, <1>8 DEF Off
<1>10. \A i \in 1..c : i # c => file'[chain[i]] = file[chain[i]]
  BY <1>6, <1>8
<1>11. \A i \in 1..c+1 : i = c+1 \/ i = c \/ i \in 1..c-1
  BY <1>6
<1>12. \A i \in 1..c-1 : i \in 1..c /\ i+1 \in 1..c /\ i # c
  BY <1>6
<1>13. \A i \in 1..c+1 : file'[new[i]].type = "leaf"
  BY <1>5, <1>6, <1>7, <1>8, <1>9, <1>10, <1>11, <1>12
<1>14. \A i \in 1..(c+1)-1 : file'[new[i]].right = new[i+1]
  <2>1. file'[new[c]].right = new[c+1]
    BY <1>5, <1>6, <1>7, <1>8
  <2>2. \A i \in 1..c-1 : file'[new[i]].right = new[i+1]
    BY <1>6, <1>7, <1>10, <1>12
  <2>3. (c+1)-1 = c
    BY <1>6
  <2> QED BY <1>6, <2>1, <2>2, <2>3
<1>15. PathIn(file', c+1, new)
  BY <1>7, <1>8, PathKept
<1>16. LeafChain(file', c+1, new)
  BY <1>5, <1>7, <1>9, <1>13, <1>14, <1>15 DEF LeafChain
<1>17. PICK rows : rows = CellsOf(file, c, chain)
  OBVIOUS
<1>18. PICK cells : cells = CellsOf(file', c+1, new)
  OBVIOUS
<1>19. cells[c+1] = <<entry.next_row_id>>
  BY <1>5, <1>6, <1>7, <1>9, <1>18 DEF CellsOf
<1>20. \A i \in 1..c : cells[i] = rows[i]
  <2> TAKE i \in 1..c
  <2>1. i \in 1..c+1 /\ new[i] = chain[i]
    BY <1>6, <1>7
  <2>2. cells[i] = file'[chain[i]].cells /\ rows[i] = file[chain[i]].cells
    BY <1>17, <1>18, <2>1 DEF CellsOf
  <2> QED BY <1>5, <1>8, <1>10, <2>2
<1>21. InOrder(c, rows) /\ \A x : Shown(c, rows, x) <=> x \in live
  BY <1>17 DEF ChainPart, Visible
<1>22. entry.next_row_id \in Nat
  BY EntryNext DEF Next, AppendStep
<1>23. \A x : Shown(c, rows, x) => x < entry.next_row_id
  BY <1>21 DEF SideInv, LiveBelow
<1>24. /\ InOrder(c+1, cells)
       /\ \A x : Shown(c+1, cells, x) <=> Shown(c, rows, x) \/ x = entry.next_row_id
  BY <1>6, <1>19, <1>20, <1>21, <1>22, <1>23, LeafAdded
<1>25. Visible' = live \union {entry.next_row_id}
  BY <1>4 DEF Visible
<1>26. ChainPart(d, new)'
  BY <1>4, <1>16, <1>18, <1>21, <1>24, <1>25 DEF ChainPart
<1>27. PathEnds(d, new)' = PathEnds(c, chain)
  BY <1>4, <1>7 DEF PathEnds
<1> QED BY <1>6, <1>7, <1>26, <1>27

(* A write of a leaf, of a new page, or of an interior page that keeps its *)
(* first cell.                                                             *)
LEMMA LeftPathStays ==
  ASSUME NEW n, NEW left, LeftPath(file, n, left),
         NEW page_no, NEW page, Write(page_no, page),
         \/ page_no \notin DOMAIN file
         \/ file[page_no].type = "leaf"
         \/ \A child : BeginsWith(file[page_no], child) => BeginsWith(page, child)
  PROVE  LeftPath(file', n, left)
<1>1. /\ DOMAIN file \subseteq DOMAIN file' /\ file'[page_no] = page
      /\ \A p \in DOMAIN file : p # page_no => file'[p] = file[p]
  BY WriteEffect
<1>2. /\ n \in Nat \ {0} /\ left \in [1..n -> DOMAIN file] /\ left[1] = 0
      /\ \A i \in 1..n-1 : BeginsWith(file[left[i]], left[i+1])
  BY DEF LeftPath, PathIn
<1>3. ASSUME NEW i \in 1..n-1 PROVE BeginsWith(file'[left[i]], left[i+1])
  <2>1. i \in 1..n
    BY <1>2
  <2>2. BeginsWith(file[left[i]], left[i+1]) /\ left[i] \in DOMAIN file
    BY <1>2, <2>1
  <2>3. CASE left[i] # page_no
    BY <1>1, <2>2, <2>3
  <2>4. CASE left[i] = page_no
    <3>1. file[page_no].type # "leaf"
      BY <2>2, <2>4 DEF BeginsWith
    <3> QED BY <1>1, <2>2, <2>4, <3>1
  <2> QED BY <2>3, <2>4
<1>4. PathIn(file', n, left)
  BY <1>1, PathKept DEF LeftPath
<1> QED BY <1>2, <1>3, <1>4 DEF LeftPath

LEMMA LeftSame ==
  ASSUME NEW n, NEW left, LeftPart(n, left), UNCHANGED file, pc' # "root"
  PROVE  LeftPart(n, left)'
BY DEF LeftPart

LEMMA LeftWrite ==
  ASSUME NEW n, NEW left, LeftPart(n, left), pc' # "root",
         NEW page_no, NEW page, Write(page_no, page),
         \/ page_no \notin DOMAIN file
         \/ file[page_no].type = "leaf"
         \/ \A child : BeginsWith(file[page_no], child) => BeginsWith(page, child)
  PROVE  LeftPart(n, left)'
<1>1. LeftPath(file', n, left)
  BY LeftPathStays DEF LeftPart
<1> QED BY <1>1 DEF LeftPart

LEMMA LeftRelink ==
  ASSUME Known, SideInv, NEW n, NEW left, LeftPart(n, left), Relink
  PROVE  LeftPart(n, left)'
<1>1. PICK page : page = Current.page
  OBVIOUS
<1>2. PICK p : p = Current.no
  OBVIOUS
<1>3. pc = "relink" /\ pc' = "count" /\ Write(p, page)
  BY <1>1, <1>2 DEF Relink
<1>4. page.type = file[p].type /\ page.cells = file[p].cells
  BY <1>1, <1>2, <1>3 DEF SideInv, Changed
<1>5. \A child : BeginsWith(file[p], child) => BeginsWith(page, child)
  BY <1>4 DEF BeginsWith
<1> QED BY <1>3, <1>5, LeftWrite

LEMMA LeftAbsorb ==
  ASSUME Known, FramesInv, NEW n, NEW left, LeftPart(n, left), AbsorbSplit
  PROVE  LeftPart(n, left)'
<1>1. PICK page : page = WithSplit(Parent.page, Parent.page.right)
  OBVIOUS
<1>2. PICK p : p = Parent.no
  OBVIOUS
<1>3. /\ pc = "return" /\ pc' = "finish" /\ ~ AtRoot /\ Write(p, page)
  BY <1>1, <1>2 DEF AbsorbSplit
<1>4. frames \in Seq(Frame) /\ frames # << >> /\ Len(frames) \in Nat
  BY <1>3, TopFrame DEF Known, TypeOK
<1>5. PICK m : m = Len(frames)-1
  OBVIOUS
<1>6. /\ m \in 1..Len(frames) /\ Parent = frames[m] /\ Parent.page \in InteriorPage
  BY <1>3, <1>4, <1>5, ParentFrame, ParentInterior DEF Known
<1>7. file[p] = Parent.page
  BY <1>2, <1>3, <1>6 DEF FramesInv, FramesCopied
<1>8. PICK cells : cells = Parent.page.cells
  OBVIOUS
<1>9. PICK cell : cell = [left_child_page_no |-> Parent.page.right, row_id |-> split.min_row_id]
  OBVIOUS
<1>10. /\ page.type = "interior" /\ page.cells = Append(cells, cell)
       /\ cells \in Seq(InteriorCell)
  BY <1>1, <1>6, <1>8, <1>9 DEF WithSplit, SetRight, AppendCell, InteriorPage
<1>11. Len(cells) # 0 => Append(cells, cell)[1] = cells[1] /\ Len(Append(cells, cell)) # 0
  <2>1. /\ Len(cells) \in Nat /\ Len(Append(cells, cell)) = Len(cells)+1
        /\ \A i \in 1..Len(cells) : Append(cells, cell)[i] = cells[i]
    BY <1>10, AppendProperties, LenProperties
  <2> QED BY <2>1
<1>12. \A child : BeginsWith(file[p], child) => BeginsWith(page, child)
  BY <1>7, <1>8, <1>10, <1>11 DEF BeginsWith
<1> QED BY <1>3, <1>12, LeftWrite

(* Where the root has moved to, and page 0 above it: both ends of the      *)
(* chain are where they were, unless the root was the first leaf.          *)
LEMMA RootFrame ==
  ASSUME Known, FramesInv, SideInv, NewRoot
  PROVE  /\ file[0] = Current.page /\ file[PageCount] = file[0]
         /\ 0 \in DOMAIN file /\ PageCount \in DOMAIN file
<1>1. pc = "root"
  BY DEF NewRoot
<1>2. frames \in Seq(Frame) /\ frames # << >> /\ Len(frames) = 1 /\ Current = frames[Len(frames)]
  BY <1>1, TopFrame DEF Known, TypeOK, SideInv, Moved, AtRoot
<1>3. frames[1].no = 0 /\ file[frames[1].no] = frames[1].page /\ frames[1].no \in DOMAIN file
  BY <1>1, <1>2 DEF FramesInv, FramesLinked, FramesCopied, Whole, Known, CountInv, PagesCounted
<1>4. PageCount \in DOMAIN file /\ file[PageCount] = Current.page
  BY <1>1 DEF SideInv, Moved
<1> QED BY <1>2, <1>3, <1>4

LEMMA LeftPathNewRoot ==
  ASSUME NEW n, NEW left, LeftPath(file, n, left), split.min_row_id # 0,
         NEW p \in DOMAIN file, file[p] = file[0], 0 \in DOMAIN file, Off(n, left, p),
         Write(0, WithSplit(NewPage("interior"), p)),
         NEW moved, moved = Instead(n, left, p),
         NEW new, new = Before(n, moved, 0), NEW m, m = n+1
  PROVE  /\ LeftPath(file', m, new) /\ new[m] = moved[n]
         /\ moved[1] = p /\ \A i \in 2..n : moved[i] = left[i]
         /\ new[1] = 0 /\ \A i \in 1..n : new[i+1] = moved[i]
<1>1. PICK page : page = WithSplit(NewPage("interior"), p)
  OBVIOUS
<1>2. PICK cell : cell = [left_child_page_no |-> p, row_id |-> split.min_row_id]
  OBVIOUS
<1>3. page.type = "interior" /\ page.cells = Append(<< >>, cell)
  BY <1>1, <1>2 DEF WithSplit, SetRight, AppendCell, NewPage
<1>4. cell.row_id # 0 /\ cell.left_child_page_no = p
  BY <1>2
<1>5. BeginsWith(page, p)
  BY <1>3, <1>4 DEF BeginsWith
<1>6. /\ n \in Nat \ {0} /\ left \in [1..n -> DOMAIN file] /\ left[1] = 0 /\ 1 \in 1..n
       /\ Different(n, left) /\ PathIn(file, n, left)
       /\ \A i \in 1..n-1 : BeginsWith(file[left[i]], left[i+1])
  BY DEF LeftPath, PathIn
<1>7. PathIn(file, n, moved) /\ moved[1] = p /\ \A i \in 2..n : moved[i] = left[i]
  BY <1>6, PathInstead
<1>8. \A i \in 1..n : i = 1 \/ i \in 2..n
  BY <1>6
<1>9. Off(n, moved, 0)
  <2>1. p # 0
    BY <1>6 DEF Off
  <2>2. \A i \in 2..n : left[i] # 0
    BY <1>6 DEF Different
  <2> QED BY <1>7, <1>8, <2>1, <2>2 DEF Off
<1>10. /\ PathIn(file, n+1, new) /\ new[1] = 0 /\ \A i \in 1..n : new[i+1] = moved[i]
  BY <1>7, <1>9, PathBefore
<1>11. /\ DOMAIN file \subseteq DOMAIN file' /\ file'[0] = page
       /\ \A r \in DOMAIN file : r # 0 => file'[r] = file[r]
  BY <1>1, WriteEffect
<1>12. PathIn(file', m, new)
  BY <1>10, <1>11, PathKept
<1>13. \A i \in 1..n : moved[i] \in DOMAIN file /\ moved[i] # 0
  BY <1>7, <1>9 DEF PathIn, Off
<1>14. \A i \in 1..n-1 : BeginsWith(file[moved[i]], moved[i+1])
  <2> TAKE i \in 1..n-1
  <2>1. i \in 1..n /\ i+1 \in 2..n
    BY <1>6
  <2>2. BeginsWith(file[left[i]], moved[i+1])
    BY <1>6, <1>7, <2>1
  <2>3. file[moved[i]] = file[left[i]]
    BY <1>6, <1>7, <1>8, <2>1
  <2> QED BY <2>2, <2>3
<1>15. \A i \in 1..m-1 : BeginsWith(file'[new[i]], new[i+1])
  <2> TAKE i \in 1..m-1
  <2>1. i \in 1..n
    BY <1>6
  <2>2. CASE i = 1
    <3>1. new[i] = 0 /\ new[i+1] = p
      BY <1>7, <1>10, <2>1, <2>2
    <3> QED BY <1>5, <1>11, <3>1
  <2>3. CASE i # 1
    <3>1. PICK k : k = i-1
      OBVIOUS
    <3>2. k \in 1..n-1 /\ k \in 1..n /\ i = k+1
      BY <1>6, <2>1, <2>3, <3>1
    <3>3. new[i] = moved[k] /\ new[i+1] = moved[k+1]
      BY <1>10, <2>1, <3>2
    <3>4. BeginsWith(file[moved[k]], moved[k+1])
      BY <1>14, <3>2
    <3>5. file'[moved[k]] = file[moved[k]]
      BY <1>11, <1>13, <3>2
    <3> QED BY <3>3, <3>4, <3>5
  <2> QED BY <2>2, <2>3
<1>16. LeftPath(file', m, new)
  BY <1>10, <1>12, <1>15 DEF LeftPath
<1>17. new[m] = moved[n]
  BY <1>6, <1>10
<1> QED BY <1>7, <1>10, <1>16, <1>17

LEMMA LeftNewRoot ==
  ASSUME Known, FramesInv, SideInv, NEW n, NEW left, LeftPart(n, left), NewRoot,
         NEW p, p = PageCount, NEW moved, moved = Instead(n, left, p),
         NEW new, new = Before(n, moved, 0), NEW m, m = n+1
  PROVE  /\ LeftPart(m, new)' /\ new[m] = moved[n]
         /\ moved[1] = p /\ \A i \in 2..n : moved[i] = left[i]
<1>1. /\ pc = "root" /\ pc' = "count_root"
      /\ Write(0, WithSplit(NewPage("interior"), p))
  BY DEF NewRoot
<1>2. split.min_row_id # 0
  BY <1>1 DEF SideInv, SplitRow, Whole
<1>3. file[p] = file[0] /\ 0 \in DOMAIN file /\ p \in DOMAIN file
  BY RootFrame
<1>4. Off(n, left, p) /\ LeftPath(file, n, left)
  BY <1>1 DEF LeftPart
<1>5. /\ LeftPath(file', m, new) /\ new[m] = moved[n]
      /\ moved[1] = p /\ \A i \in 2..n : moved[i] = left[i]
  BY <1>1, <1>2, <1>3, <1>4, LeftPathNewRoot
<1>6. LeftPart(m, new)'
  BY <1>1, <1>5 DEF LeftPart
<1> QED BY <1>5, <1>6

(* The first leaf of the chain was the root, and has moved.                *)
LEMMA ChainLeafRoot ==
  ASSUME Known, SideInv, FramesInv, NEW c, NEW chain, ChainPart(c, chain),
         RightInv(PathEnds(c, chain)), NewRoot, chain[1] = 0,
         NEW p, p = PageCount, NEW new, new = Instead(c, chain, p)
  PROVE  ChainPart(c, new)' /\ PathEnds(c, new)' = PathEnds(c, chain) /\ new[1] = p
<1>1. /\ pc = "root" /\ pc' = "count_root" /\ ~ Linking /\ ~ Linking'
  BY DEF NewRoot, Linking
<1>2. PICK page : Write(0, page)
  BY DEF NewRoot
<1>3. LeafChain(file, c, chain) /\ Off(c, chain, p) /\ RightInv(chain[c])
  BY <1>1 DEF ChainPart, PathEnds
<1>4. /\ c \in Nat /\ c # 0 /\ c \in 1..c /\ 1 \in 1..c
      /\ \A i \in 1..c : chain[i] \in DOMAIN file /\ file[chain[i]].type = "leaf"
      /\ \A i \in 1..c-1 : file[chain[i]].right = chain[i+1]
      /\ file[chain[c]].right = NULL_PAGE_NO
      /\ \A i, j \in 1..c : chain[i] = chain[j] => i = j
  BY <1>3, ChainPlaces
<1>5. file[p] = file[0] /\ p \in DOMAIN file /\ 0 \in DOMAIN file
  BY RootFrame
<1>6. PathIn(file, c, new) /\ new[1] = p /\ \A i \in 2..c : new[i] = chain[i]
  BY <1>3, <1>5, PathInstead DEF LeafChain
<1>7. \A i \in 1..c : i = 1 \/ i \in 2..c
  BY <1>4
<1>8. c # 1
  <2>1. PICK n, path : /\ RightPath(file, split.no, n, path) /\ path[n] = chain[c]
                       /\ \A k \in 1..Len(frames) : Off(n, path, frames[k].no)
    BY <1>1, <1>3, InSplit
  <2>2. frames[1].no = 0 /\ 1 \in 1..Len(frames)
    BY <1>1, <1>3, InSplit
  <2>3. Off(n, path, 0)
    BY <2>1, <2>2
  <2>4. n \in 1..n
    BY <2>1 DEF RightPath, PathIn
  <2> QED BY <2>1, <2>3, <2>4 DEF Off
<1>9. /\ DOMAIN file \subseteq DOMAIN file'
      /\ \A r \in DOMAIN file : r # 0 => file'[r] = file[r]
  BY <1>2, WriteEffect
<1>10. \A i \in 1..c : new[i] # 0 /\ file[new[i]] = file[chain[i]] /\ new[i] \in DOMAIN file
  <2>1. p # 0
    BY <1>3, <1>4 DEF Off
  <2>2. \A i \in 2..c : i \in 1..c /\ chain[i] # 0
    BY <1>4
  <2> QED BY <1>4, <1>5, <1>6, <1>7, <2>1, <2>2
<1>11. \A i \in 1..c : file'[new[i]] = file[chain[i]]
  BY <1>9, <1>10
<1>12. \A i \in 1..c-1 : file'[new[i]].right = new[i+1]
  <2> TAKE i \in 1..c-1
  <2>1. i \in 1..c /\ i+1 \in 2..c
    BY <1>4
  <2> QED BY <1>4, <1>6, <1>11, <2>1
<1>13. PathIn(file', c, new)
  BY <1>6, <1>9, PathKept
<1>14. LeafChain(file', c, new)
  BY <1>4, <1>11, <1>12, <1>13 DEF LeafChain
<1>15. CellsOf(file', c, new) = CellsOf(file, c, chain)
  BY <1>11 DEF CellsOf
<1>16. Visible' = Visible
  <2>1. [Next]_vars /\ ~ LeafAppend /\ ~ Relink /\ ~ SplitLeaf /\ ~ SplitInterior
        /\ \A h \in Handles : ~ Delete(h)
    BY <1>1 DEF Next, AppendStep, SplitLeaf, LeafAppend, Relink, SplitInterior, Delete
  <2> QED BY <2>1, VisibleSame
<1>17. ChainPart(c, new)'
  BY <1>1, <1>14, <1>15, <1>16 DEF ChainPart
<1>18. c \in 2..c
  BY <1>4, <1>8
<1>19. PathEnds(c, new)' = PathEnds(c, chain)
  BY <1>1, <1>6, <1>18 DEF PathEnds
<1> QED BY <1>6, <1>17, <1>19

LEMMA ChainNewRoot ==
  ASSUME Known, SideInv, FramesInv, NEW c, NEW chain, ChainPart(c, chain),
         RightInv(PathEnds(c, chain)), NEW n, NEW left, LeftPart(n, left), left[n] = chain[1],
         NewRoot
  PROVE  \E new, m, other : /\ ChainPart(c, new)' /\ PathEnds(c, new)' = PathEnds(c, chain)
                            /\ LeftPart(m, other)' /\ other[m] = new[1]
<1>1. PICK p : p = PageCount
  OBVIOUS
<1>2. PICK moved : moved = Instead(n, left, p)
  OBVIOUS
<1>3. PICK other : other = Before(n, moved, 0)
  OBVIOUS
<1>4. PICK m : m = n+1
  OBVIOUS
<1>5. /\ LeftPart(m, other)' /\ other[m] = moved[n]
      /\ moved[1] = p /\ \A i \in 2..n : moved[i] = left[i]
  BY <1>1, <1>2, <1>3, <1>4, LeftNewRoot
<1>6. /\ n \in Nat \ {0} /\ left[1] = 0 /\ 1 \in 1..n
      /\ \A i, j \in 1..n : left[i] = left[j] => i = j
      /\ \A i \in 1..n-1 : BeginsWith(file[left[i]], left[i+1])
  BY DEF LeftPart, LeftPath, PathIn, Different
<1>7. LeafChain(file, c, chain)
  BY DEF ChainPart
<1>8. CASE n = 1
  <2>1. chain[1] = 0
    BY <1>6, <1>8
  <2>2. PICK new : new = Instead(c, chain, p)
    OBVIOUS
  <2>3. ChainPart(c, new)' /\ PathEnds(c, new)' = PathEnds(c, chain) /\ new[1] = p
    BY <1>1, <2>1, <2>2, ChainLeafRoot
  <2> QED BY <1>5, <1>8, <2>3
<1>9. CASE n # 1
  <2>1. n \in 2..n /\ 1 \in 1..n-1 /\ n \in 1..n
    BY <1>6, <1>9
  <2>2. file[0].type # "leaf"
    BY <1>6, <2>1 DEF BeginsWith
  <2>3. PICK page : Write(0, page)
    BY DEF NewRoot
  <2>4. Off(c, chain, 0)
    BY <1>7, <2>2, OffTheChain
  <2>5. pc = "root" /\ pc' = "count_root" /\ ~ Linking /\ ~ Linking'
    BY DEF NewRoot, Linking
  <2>6. [Next]_vars /\ ~ LeafAppend /\ ~ SplitLeaf /\ \A h \in Handles : ~ Delete(h)
    BY <2>5 DEF Next, AppendStep, SplitLeaf, LeafAppend, Delete
  <2>7. ChainPart(c, chain)' /\ PathEnds(c, chain)' = PathEnds(c, chain)
    BY <2>3, <2>4, <2>5, <2>6, ChainAside
  <2>8. other[m] = chain[1]
    BY <1>5, <2>1
  <2> QED BY <1>5, <2>7, <2>8
<1> QED BY <1>8, <1>9

-----------------------------------------------------------------------------
(* Repeated application of a function, as a function of the count.         *)
Iterates(f, n, first, step) == f[0] = first /\ \A d \in 1..n : f[d] = step[f[d-1]]

LEMMA AlwaysIterable ==
  ASSUME NEW n \in Nat, NEW S, NEW first \in S, NEW step \in [S -> S]
  PROVE  \E f \in [0..n -> S] : Iterates(f, n, first, step)
<1>1. PICK A : A = {m \in Nat : \E f \in [0..m -> S] : Iterates(f, m, first, step)}
  OBVIOUS
<1>2. 0 \in A
  <2>1. PICK f : f = [i \in 0..0 |-> first]
    OBVIOUS
  <2>2. f \in [0..0 -> S] /\ f[0] = first
    BY <2>1
  <2>3. Iterates(f, 0, first, step)
    BY <2>2 DEF Iterates
  <2> QED BY <1>1, <2>2, <2>3
<1>3. ASSUME NEW m \in 0..n-1, m \in A PROVE m+1 \in A
  <2>1. PICK f \in [0..m -> S] : Iterates(f, m, first, step)
    BY <1>1, <1>3
  <2>2. PICK k : k = m+1
    OBVIOUS
  <2>3. PICK g : g = [i \in 0..k |-> IF i = k THEN step[f[m]] ELSE f[i]]
    OBVIOUS
  <2>4. k \in Nat /\ k # 0 /\ k-1 = m /\ m \in 0..m /\ \A i \in 0..k : i = k \/ i \in 0..m
    BY <2>2
  <2>5. g \in [0..k -> S]
    BY <2>3, <2>4
  <2>6. g[0] = first
    BY <2>1, <2>3, <2>4 DEF Iterates
  <2>7. ASSUME NEW d \in 1..k PROVE g[d] = step[g[d-1]]
    <3>1. CASE d = k
      <4>1. g[d] = step[f[m]]
        BY <2>3, <2>4, <3>1
      <4>2. m \in 0..k /\ m # k
        BY <2>2, <2>4
      <4>3. g[m] = f[m]
        BY <2>3, <4>2
      <4> QED BY <2>4, <3>1, <4>1, <4>3
    <3>2. CASE d # k
      <4>1. d \in 1..m /\ d-1 \in 0..k /\ d-1 # k /\ d \in 0..k
        BY <2>2, <3>2
      <4>2. g[d] = f[d] /\ g[d-1] = f[d-1]
        BY <2>3, <3>2, <4>1
      <4>3. f[d] = step[f[d-1]]
        BY <2>1, <4>1 DEF Iterates
      <4> QED BY <4>2, <4>3
    <3> QED BY <3>1, <3>2
  <2>8. Iterates(g, k, first, step)
    BY <2>6, <2>7 DEF Iterates
  <2>9. k \in A
    BY <1>1, <2>4, <2>5, <2>8
  <2> QED BY <2>2, <2>9
<1>4. 0..n \subseteq A
  BY <1>2, <1>3, UpTo
<1>5. n \in A
  BY <1>4
<1> QED BY <1>1, <1>5

-----------------------------------------------------------------------------
(* The descent by row id and the scans, as the functions of the depth that *)
(* they are.                                                               *)

LeavesOf(pages) == {p \in DOMAIN pages : pages[p].type = "leaf"}

Leads(f, pages, row_id, n) ==
  f = [d \in 0..n |->
         [p \in PageNo |->
            IF p \in LeavesOf(pages) THEN p
            ELSE IF d = 0 \/ p \notin DOMAIN pages THEN NULL_PAGE_NO
            ELSE f[d-1][ChildPageNoByRowId(pages[p], row_id)]]]

LEMMA AlwaysLeads ==
  ASSUME NEW n \in Nat, NEW pages, NEW row_id,
         \A p \in DOMAIN pages \ LeavesOf(pages) : ChildPageNoByRowId(pages[p], row_id) \in PageNo
  PROVE  \E f : Leads(f, pages, row_id, n)
<1>1. PICK S : S = [PageNo -> PageNo]
  OBVIOUS
<1>2. PICK first : first = [p \in PageNo |-> IF p \in LeavesOf(pages) THEN p ELSE NULL_PAGE_NO]
  OBVIOUS
<1>3. PICK step : step = [r \in S |-> [p \in PageNo |->
                            IF p \in LeavesOf(pages) THEN p
                            ELSE IF p \notin DOMAIN pages THEN NULL_PAGE_NO
                            ELSE r[ChildPageNoByRowId(pages[p], row_id)]]]
  OBVIOUS
<1>4. first \in S
  BY <1>1, <1>2 DEF PageNo, NULL_PAGE_NO
<1>5. ASSUME NEW r \in S PROVE step[r] \in S
  <2>1. \A p \in PageNo : (IF p \in LeavesOf(pages) THEN p
                            ELSE IF p \notin DOMAIN pages THEN NULL_PAGE_NO
                            ELSE r[ChildPageNoByRowId(pages[p], row_id)]) \in PageNo
    BY <1>1, <1>5 DEF PageNo, NULL_PAGE_NO
  <2> QED BY <1>1, <1>3, <2>1
<1>6. step \in [S -> S]
  BY <1>3, <1>5
<1>7. PICK f \in [0..n -> S] : Iterates(f, n, first, step)
  BY <1>4, <1>6, AlwaysIterable
<1>8. ASSUME NEW d \in 0..n
      PROVE  f[d] = [p \in PageNo |->
                       IF p \in LeavesOf(pages) THEN p
                       ELSE IF d = 0 \/ p \notin DOMAIN pages THEN NULL_PAGE_NO
                       ELSE f[d-1][ChildPageNoByRowId(pages[p], row_id)]]
  <2>1. CASE d = 0
    BY <1>2, <1>7, <2>1 DEF Iterates
  <2>2. CASE d # 0
    <3>1. PICK r : r = f[d-1]
      OBVIOUS
    <3>2. d \in 1..n /\ d-1 \in 0..n
      BY <2>2
    <3>3. f[d] = step[r] /\ r \in S
      BY <1>7, <3>1, <3>2 DEF Iterates
    <3> QED BY <1>3, <2>2, <3>1, <3>3
  <2> QED BY <2>1, <2>2
<1>9. Leads(f, pages, row_id, n)
  BY <1>7, <1>8 DEF Leads
<1> QED BY <1>9

LEMMA LeafByRowIdLeads ==
  ASSUME NEW n, n = Cardinality(DOMAIN file), n \in Nat, NEW row_id,
         \A p \in DOMAIN file \ LeavesOf(file) : ChildPageNoByRowId(file[p], row_id) \in PageNo
  PROVE  \E f : Leads(f, file, row_id, n) /\ LeafByRowId(row_id) = f[n][0]
<1>1. PICK f : f = CHOOSE g : Leads(g, file, row_id, n)
  OBVIOUS
<1>2. \E g : Leads(g, file, row_id, n)
  BY AlwaysLeads
<1>3. Leads(f, file, row_id, n)
  BY <1>1, <1>2, Zenon
<1>4. LeafByRowId(row_id) = f[n][0]
  BY <1>1 DEF LeafByRowId, Leads, LeavesOf, Leaves, Depths
<1> QED BY <1>3, <1>4

LEMMA LeadsIs ==
  ASSUME NEW n \in Nat, NEW pages, NEW row_id, NEW f, Leads(f, pages, row_id, n),
         NEW d \in 0..n, NEW p \in PageNo
  PROVE  f[d][p] = IF p \in LeavesOf(pages) THEN p
                   ELSE IF d = 0 \/ p \notin DOMAIN pages THEN NULL_PAGE_NO
                   ELSE f[d-1][ChildPageNoByRowId(pages[p], row_id)]
<1>1. f[d] = [q \in PageNo |-> IF q \in LeavesOf(pages) THEN q
                               ELSE IF d = 0 \/ q \notin DOMAIN pages THEN NULL_PAGE_NO
                               ELSE f[d-1][ChildPageNoByRowId(pages[q], row_id)]]
  BY DEF Leads
<1> QED BY <1>1

(* A path along which each page leads to the next ends at the leaf found.  *)
LEMMA LeadsAlong ==
  ASSUME NEW n \in Nat, NEW pages, DOMAIN pages \subseteq PageNo, NEW row_id,
         NEW f, Leads(f, pages, row_id, n), NEW m, NEW q, PathIn(pages, m, q), m <= n,
         pages[q[m]].type = "leaf",
         \A i \in 1..m-1 : /\ pages[q[i]].type # "leaf"
                           /\ ChildPageNoByRowId(pages[q[i]], row_id) = q[i+1]
  PROVE  f[n][q[1]] = q[m]
<1>1. /\ m \in Nat /\ m # 0 /\ m \in 1..m /\ \A i \in 1..m : q[i] \in DOMAIN pages /\ q[i] \in PageNo
  BY DEF PathIn
<1>2. PICK A : A = {d \in 0..n : \A i \in 1..m : m-i <= d => f[d][q[i]] = q[m]}
  OBVIOUS
<1>3. \A d \in 0..n : f[d][q[m]] = q[m]
  BY <1>1, LeadsIs DEF LeavesOf
<1>4. 0 \in A
  <2>1. \A i \in 1..m : m-i <= 0 => i = m
    BY <1>1
  <2> QED BY <1>2, <1>3, <2>1
<1>5. ASSUME NEW d \in 0..n-1, d \in A PROVE d+1 \in A
  <2>1. d+1 \in 0..n /\ d+1 # 0 /\ (d+1)-1 = d
    OBVIOUS
  <2>2. ASSUME NEW i \in 1..m, m-i <= d+1 PROVE f[d+1][q[i]] = q[m]
    <3>1. CASE i = m
      BY <1>3, <2>1, <3>1
    <3>2. CASE i # m
      <4>1. i \in 1..m-1 /\ i+1 \in 1..m /\ m-(i+1) <= d
        BY <1>1, <2>2, <3>2
      <4>2. f[d][q[i+1]] = q[m]
        BY <1>2, <1>5, <4>1
      <4>3. q[i] \in DOMAIN pages /\ q[i] \in PageNo /\ q[i] \notin LeavesOf(pages)
        BY <1>1, <4>1 DEF LeavesOf
      <4>4. f[d+1][q[i]] = f[(d+1)-1][ChildPageNoByRowId(pages[q[i]], row_id)]
        BY <2>1, <4>3, LeadsIs
      <4> QED BY <2>1, <4>1, <4>2, <4>4
    <3> QED BY <3>1, <3>2
  <2> QED BY <1>2, <2>1, <2>2
<1>6. 0..n \subseteq A
  BY <1>4, <1>5, UpTo
<1>7. n \in A /\ 1 \in 1..m /\ m-1 <= n
  BY <1>1, <1>6
<1> QED BY <1>2, <1>7

(* The child a page leads to has a number.                                 *)
LEMMA ChildHasNumber ==
  ASSUME NEW page \in InteriorPage, NEW row_id
  PROVE  ChildPageNoByRowId(page, row_id) \in PageNo
<1>1. page.right \in PageNo /\ page.cells \in Seq(InteriorCell)
  BY DEF InteriorPage
<1>2. DOMAIN page.cells = 1..Len(page.cells) /\ Len(page.cells) \in Nat
  BY <1>1, LenProperties
<1>3. \A i \in DOMAIN page.cells : page.cells[i].left_child_page_no \in PageNo
  <2>1. \A i \in 1..Len(page.cells) : page.cells[i] \in InteriorCell
    BY <1>1, ElementOfSeq
  <2> QED BY <1>2, <2>1 DEF InteriorCell
<1>4. PICK above : above = {i \in DOMAIN page.cells : row_id < page.cells[i].row_id}
  OBVIOUS
<1>5. CASE above = {}
  BY <1>1, <1>4, <1>5 DEF ChildPageNoByRowId
<1>6. CASE above # {}
  <2>1. above \subseteq Nat /\ above \subseteq DOMAIN page.cells
    BY <1>2, <1>4
  <2>2. \E k \in above : \A j \in above : k <= j
    BY <1>6, <2>1, FirstPosition
  <2>3. PICK k : k = CHOOSE i \in above : \A j \in above : i <= j
    OBVIOUS
  <2>4. k \in above
    BY <2>2, <2>3
  <2> QED BY <1>3, <1>4, <1>6, <2>1, <2>3, <2>4 DEF ChildPageNoByRowId
<1> QED BY <1>5, <1>6

(* Row id 0 leads to the first child.                                      *)
LEMMA LeadsFirst ==
  ASSUME NEW page \in InteriorPage, NEW child, BeginsWith(page, child)
  PROVE  ChildPageNoByRowId(page, 0) = child
<1>1. /\ page.cells \in Seq(InteriorCell) /\ Len(page.cells) # 0
      /\ page.cells[1].row_id # 0 /\ page.cells[1].left_child_page_no = child
  BY DEF BeginsWith, InteriorPage
<1>2. DOMAIN page.cells = 1..Len(page.cells) /\ Len(page.cells) \in Nat /\ 1 \in 1..Len(page.cells)
  BY <1>1, LenProperties
<1>3. page.cells[1].row_id \in Nat
  <2>1. page.cells[1] \in InteriorCell
    BY <1>1, <1>2, ElementOfSeq
  <2> QED BY <2>1 DEF InteriorCell, RowId
<1>4. PICK above : above = {i \in DOMAIN page.cells : 0 < page.cells[i].row_id}
  OBVIOUS
<1>5. 1 \in above /\ above \subseteq DOMAIN page.cells
  BY <1>1, <1>2, <1>3, <1>4
<1>6. PICK k : k = CHOOSE i \in above : \A j \in above : i <= j
  OBVIOUS
<1>7. k \in above /\ \A j \in above : k <= j
  <2>1. \A j \in above : 1 <= j
    BY <1>2, <1>5
  <2> QED BY <1>5, <1>6, <2>1
<1>8. k = 1
  BY <1>2, <1>5, <1>7
<1> QED BY <1>1, <1>4, <1>5, <1>6, <1>8 DEF ChildPageNoByRowId

(* The scans: what each leaf has, from a leaf on along the right siblings. *)
Follows(f, pages, part, n) ==
  \A d \in 0..n : \A p \in PageNo :
    f[d][p] = IF d = 0 \/ p \notin LeavesOf(pages) THEN << >>
              ELSE part[p] \o f[d-1][pages[p].right]

LEMMA AlwaysFollowable ==
  ASSUME NEW n \in Nat, NEW pages, NEW X, NEW part, \A p \in LeavesOf(pages) : part[p] \in Seq(X),
         \A p \in LeavesOf(pages) : pages[p].right \in PageNo
  PROVE  \E f \in [0..n -> [PageNo -> Seq(X)]] : Follows(f, pages, part, n)
<1>1. PICK S : S = [PageNo -> Seq(X)]
  OBVIOUS
<1>2. PICK first : first = [p \in PageNo |-> << >>]
  OBVIOUS
<1>3. PICK step : step = [r \in S |-> [p \in PageNo |->
                            IF p \notin LeavesOf(pages) THEN << >>
                            ELSE part[p] \o r[pages[p].right]]]
  OBVIOUS
<1>4. << >> \in Seq(X)
  BY EmptySeq
<1>5. first \in S
  BY <1>1, <1>2, <1>4
<1>6. ASSUME NEW r \in S PROVE step[r] \in S
  <2>1. ASSUME NEW p \in PageNo
        PROVE  (IF p \notin LeavesOf(pages) THEN << >> ELSE part[p] \o r[pages[p].right]) \in Seq(X)
    <3>1. CASE p \notin LeavesOf(pages)
      BY <1>4, <3>1
    <3>2. CASE p \in LeavesOf(pages)
      <4>1. part[p] \in Seq(X) /\ r[pages[p].right] \in Seq(X)
        BY <1>1, <3>2
      <4>2. part[p] \o r[pages[p].right] \in Seq(X)
        BY <4>1, ConcatProperties
      <4> QED BY <3>2, <4>2
    <3> QED BY <3>1, <3>2
  <2>2. step[r] = [p \in PageNo |-> IF p \notin LeavesOf(pages) THEN << >>
                                    ELSE part[p] \o r[pages[p].right]]
    BY <1>3
  <2> QED BY <1>1, <2>1, <2>2
<1>7. step \in [S -> S]
  BY <1>3, <1>6
<1>8. PICK f \in [0..n -> S] : Iterates(f, n, first, step)
  BY <1>5, <1>7, AlwaysIterable
<1>9. ASSUME NEW d \in 0..n, NEW p \in PageNo
      PROVE  f[d][p] = IF d = 0 \/ p \notin LeavesOf(pages) THEN << >>
                       ELSE part[p] \o f[d-1][pages[p].right]
  <2>1. CASE d = 0
    BY <1>2, <1>8, <2>1 DEF Iterates
  <2>2. CASE d # 0
    <3>1. PICK r : r = f[d-1]
      OBVIOUS
    <3>2. d \in 1..n /\ d-1 \in 0..n
      BY <2>2
    <3>3. f[d] = step[r] /\ r \in S
      BY <1>8, <3>1, <3>2 DEF Iterates
    <3> QED BY <1>3, <2>2, <3>1, <3>3
  <2> QED BY <2>1, <2>2
<1> QED BY <1>1, <1>8, <1>9 DEF Follows

LEMMA FollowsType ==
  ASSUME NEW n \in Nat, NEW pages, NEW X, NEW part, \A p \in LeavesOf(pages) : part[p] \in Seq(X),
         \A p \in LeavesOf(pages) : pages[p].right \in PageNo,
         NEW f, Follows(f, pages, part, n)
  PROVE  \A d \in 0..n : \A p \in PageNo : f[d][p] \in Seq(X)
<1>1. PICK A : A = {d \in 0..n : \A p \in PageNo : f[d][p] \in Seq(X)}
  OBVIOUS
<1>2. << >> \in Seq(X)
  BY EmptySeq
<1>3. 0 \in A
  <2>1. 0 \in 0..n
    OBVIOUS
  <2>2. \A p \in PageNo : f[0][p] = << >>
    BY <2>1 DEF Follows
  <2> QED BY <1>1, <1>2, <2>1, <2>2
<1>4. ASSUME NEW d \in 0..n-1, d \in A PROVE d+1 \in A
  <2>1. d+1 \in 0..n /\ d+1 # 0 /\ (d+1)-1 = d
    OBVIOUS
  <2>2. ASSUME NEW p \in PageNo PROVE f[d+1][p] \in Seq(X)
    <3>1. CASE p \notin LeavesOf(pages)
      BY <1>2, <2>1, <3>1 DEF Follows
    <3>2. CASE p \in LeavesOf(pages)
      <4>1. f[d+1][p] = part[p] \o f[d][pages[p].right]
        BY <2>1, <3>2 DEF Follows
      <4>2. part[p] \in Seq(X) /\ f[d][pages[p].right] \in Seq(X)
        BY <1>1, <1>4, <3>2
      <4> QED BY <4>1, <4>2, ConcatProperties
    <3> QED BY <3>1, <3>2
  <2> QED BY <1>1, <2>1, <2>2
<1>5. 0..n \subseteq A
  BY <1>3, <1>4, UpTo
<1> QED BY <1>1, <1>5

LEMMA LeavesFromFollows ==
  ASSUME NEW n, n = Cardinality(DOMAIN file), n \in Nat, NEW first \in PageNo,
         NEW part, part = [p \in PageNo |-> <<p>>],
         \A p \in LeavesOf(file) : p \in PageNo /\ file[p].right \in PageNo
  PROVE  \E f : /\ Follows(f, file, part, n) /\ LeavesFrom(first) = f[n][first]
                /\ f[n][first] \in Seq(PageNo)
<1> DEFINE Scans(f) == f = [d \in 0..n |-> [p \in PageNo |->
                              IF d = 0 \/ p \notin LeavesOf(file) THEN << >>
                              ELSE <<p>> \o f[d-1][file[p].right]]]
<1>1. PICK g \in [0..n -> [PageNo -> Seq(PageNo)]] : Follows(g, file, part, n)
  <2>1. \A p \in LeavesOf(file) : part[p] \in Seq(PageNo)
    OBVIOUS
  <2> QED BY <2>1, AlwaysFollowable
<1>2. Scans(g)
  <2>1. ASSUME NEW d \in 0..n
        PROVE  g[d] = [p \in PageNo |-> IF d = 0 \/ p \notin LeavesOf(file) THEN << >>
                                        ELSE <<p>> \o g[d-1][file[p].right]]
    BY <1>1 DEF Follows
  <2> QED BY <1>1, <2>1
<1>3. PICK f : f = CHOOSE h : Scans(h)
  OBVIOUS
<1>4. Scans(f)
  BY <1>2, <1>3, Zenon
<1>5. LeavesFrom(first) = f[n][first]
  BY <1>3 DEF LeavesFrom, LeavesOf, Leaves, Depths
<1>6. Follows(f, file, part, n)
  <2> SUFFICES ASSUME NEW d \in 0..n, NEW p \in PageNo
               PROVE  f[d][p] = IF d = 0 \/ p \notin LeavesOf(file) THEN << >>
                                ELSE part[p] \o f[d-1][file[p].right]
    BY DEF Follows
  <2>1. f[d] = [q \in PageNo |-> IF d = 0 \/ q \notin LeavesOf(file) THEN << >>
                                 ELSE <<q>> \o f[d-1][file[q].right]]
    BY <1>4
  <2> QED BY <2>1
<1>7. f[n][first] \in Seq(PageNo)
  <2>1. \A p \in LeavesOf(file) : part[p] \in Seq(PageNo)
    OBVIOUS
  <2>2. \A p \in LeavesOf(file) : file[p].right \in PageNo
    OBVIOUS
  <2>3. n \in 0..n
    OBVIOUS
  <2> QED BY <1>6, <2>1, <2>2, <2>3, FollowsType
<1> QED BY <1>5, <1>6, <1>7

LEMMA RowsFromFollows ==
  ASSUME NEW n, n = Cardinality(DOMAIN file), n \in Nat, NEW first \in PageNo,
         NEW part, part = [p \in PageNo |-> file[p].cells],
         \A p \in LeavesOf(file) : /\ p \in PageNo /\ file[p].right \in PageNo
                                   /\ file[p].cells \in Seq(RowId)
  PROVE  \E f : /\ Follows(f, file, part, n) /\ RowsFrom(first) = f[n][first]
                /\ f[n][first] \in Seq(RowId)
<1> DEFINE Scans(f) == f = [d \in 0..n |-> [p \in PageNo |->
                              IF d = 0 \/ p \notin LeavesOf(file) THEN << >>
                              ELSE file[p].cells \o f[d-1][file[p].right]]]
<1>1. PICK g \in [0..n -> [PageNo -> Seq(RowId)]] : Follows(g, file, part, n)
  <2>1. \A p \in LeavesOf(file) : part[p] \in Seq(RowId)
    OBVIOUS
  <2> QED BY <2>1, AlwaysFollowable
<1>2. Scans(g)
  <2>1. ASSUME NEW d \in 0..n
        PROVE  g[d] = [p \in PageNo |-> IF d = 0 \/ p \notin LeavesOf(file) THEN << >>
                                        ELSE file[p].cells \o g[d-1][file[p].right]]
    BY <1>1 DEF Follows
  <2> QED BY <1>1, <2>1
<1>3. PICK f : f = CHOOSE h : Scans(h)
  OBVIOUS
<1>4. Scans(f)
  BY <1>2, <1>3, Zenon
<1>5. RowsFrom(first) = f[n][first]
  BY <1>3 DEF RowsFrom, LeavesOf, Leaves, Depths
<1>6. Follows(f, file, part, n)
  <2> SUFFICES ASSUME NEW d \in 0..n, NEW p \in PageNo
               PROVE  f[d][p] = IF d = 0 \/ p \notin LeavesOf(file) THEN << >>
                                ELSE part[p] \o f[d-1][file[p].right]
    BY DEF Follows
  <2>1. f[d] = [q \in PageNo |-> IF d = 0 \/ q \notin LeavesOf(file) THEN << >>
                                 ELSE file[q].cells \o f[d-1][file[q].right]]
    BY <1>4
  <2> QED BY <2>1
<1>7. f[n][first] \in Seq(RowId)
  <2>1. \A p \in LeavesOf(file) : part[p] \in Seq(RowId)
    OBVIOUS
  <2>2. \A p \in LeavesOf(file) : file[p].right \in PageNo
    OBVIOUS
  <2>3. n \in 0..n
    OBVIOUS
  <2> QED BY <1>6, <2>1, <2>2, <2>3, FollowsType
<1> QED BY <1>5, <1>6, <1>7

Along(f, part, n, c, chain) ==
  \A d \in 1..n, i \in 1..c :
    f[d][chain[i]] = part[chain[i]] \o (IF i = c THEN << >> ELSE f[d-1][chain[i+1]])

LEMMA FollowsAlong ==
  ASSUME NEW n \in Nat, NEW pages, DOMAIN pages \subseteq Nat, NEW part,
         NEW f, Follows(f, pages, part, n), NEW c, NEW chain, LeafChain(pages, c, chain)
  PROVE  Along(f, part, n, c, chain)
<1> SUFFICES ASSUME NEW d \in 1..n, NEW i \in 1..c
             PROVE  f[d][chain[i]] = part[chain[i]] \o (IF i = c THEN << >> ELSE f[d-1][chain[i+1]])
  BY DEF Along
<1>1. /\ c \in Nat
      /\ \A k \in 1..c : chain[k] \in DOMAIN pages /\ pages[chain[k]].type = "leaf"
      /\ \A k \in 1..c-1 : pages[chain[k]].right = chain[k+1]
      /\ pages[chain[c]].right = NULL_PAGE_NO
  BY ChainPlaces
<1>2. d \in 0..n /\ d # 0 /\ d-1 \in 0..n
  OBVIOUS
<1>3. chain[i] \in LeavesOf(pages) /\ chain[i] \in PageNo
  BY <1>1 DEF LeavesOf, PageNo
<1>4. f[d][chain[i]] = part[chain[i]] \o f[d-1][pages[chain[i]].right]
  BY <1>2, <1>3 DEF Follows
<1>5. CASE i = c
  <2>1. NULL_PAGE_NO \in PageNo /\ NULL_PAGE_NO \notin LeavesOf(pages)
    BY DEF NULL_PAGE_NO, PageNo, LeavesOf
  <2>2. f[d-1][NULL_PAGE_NO] = << >>
    BY <1>2, <2>1 DEF Follows
  <2> QED BY <1>1, <1>4, <1>5, <2>2
<1>6. CASE i # c
  <2>1. i \in 1..c-1
    BY <1>1, <1>6
  <2> QED BY <1>1, <1>4, <1>6, <2>1
<1> QED BY <1>5, <1>6

Single(part) == \A p \in PageNo : part[p] = <<p>>

(* A scan of the leaves goes along the chain.                              *)
LEMMA LeavesAlong ==
  ASSUME NEW n \in Nat, NEW pages, DOMAIN pages \subseteq Nat,
         NEW part, Single(part),
         NEW f, Follows(f, pages, part, n), NEW c, NEW chain, LeafChain(pages, c, chain), c <= n,
         \A p \in LeavesOf(pages) : pages[p].right \in PageNo
  PROVE  Len(f[n][chain[1]]) = c /\ \A j \in 1..c : f[n][chain[1]][j] = chain[j]
<1>1. c \in Nat /\ c # 0 /\ 1 \in 1..c /\ \A k \in 1..c : chain[k] \in PageNo
  BY ChainPlaces DEF PageNo
<1>0. Along(f, part, n, c, chain)
  BY FollowsAlong
<1>t. \A d \in 0..n : \A p \in PageNo : f[d][p] \in Seq(PageNo)
  <2>1. \A p \in LeavesOf(pages) : part[p] \in Seq(PageNo)
    <3>1. LeavesOf(pages) \subseteq PageNo
      BY DEF LeavesOf, PageNo
    <3>2. ASSUME NEW p \in PageNo PROVE part[p] \in Seq(PageNo)
      <4>1. part[p] = <<p>>
        BY DEF Single
      <4> QED BY <4>1
    <3> QED BY <3>1, <3>2
  <2> QED BY <2>1, FollowsType
<1>2. PICK A : A = {d \in 0..n : \A i \in 1..c : c-i < d =>
                      /\ Len(f[d][chain[i]]) = (c-i)+1
                      /\ \A j \in 1..(c-i)+1 : f[d][chain[i]][j] = chain[(i+j)-1]}
  OBVIOUS
<1>3. 0 \in A
  <2>1. \A i \in 1..c : ~ (c-i < 0)
    BY <1>1
  <2> QED BY <1>2, <2>1
<1>4. ASSUME NEW d \in 0..n-1, d \in A PROVE d+1 \in A
  <2>1. PICK e : e = d+1
    OBVIOUS
  <2>2. e \in 0..n /\ e \in 1..n /\ e-1 = d /\ d \in 0..n
    BY <2>1
  <2>3. ASSUME NEW i \in 1..c, c-i < e
        PROVE  /\ Len(f[e][chain[i]]) = (c-i)+1
               /\ \A j \in 1..(c-i)+1 : f[e][chain[i]][j] = chain[(i+j)-1]
    <3>1. part[chain[i]] = <<chain[i]>> /\ chain[i] \in PageNo
      BY <1>1 DEF Single
    <3>2. f[e][chain[i]] = <<chain[i]>> \o (IF i = c THEN << >> ELSE f[e-1][chain[i+1]])
      BY <1>0, <2>2, <3>1 DEF Along
    <3>3. PICK h : h = <<chain[i]>>
      OBVIOUS
    <3>4. h \in Seq(PageNo) /\ Len(h) = 1 /\ h[1] = chain[i]
      BY <3>1, <3>3
    <3>5. CASE i = c
      <4>1. f[e][chain[i]] = h
        BY <3>2, <3>3, <3>4, <3>5, ConcatEmptySeq
      <4>2. (c-i)+1 = 1 /\ (i+1)-1 = i /\ \A j \in 1..1 : j = 1
        BY <1>1, <3>5
      <4> QED BY <3>4, <4>1, <4>2
    <3>6. CASE i # c
      <4>1. PICK k : k = i+1
        OBVIOUS
      <4>2. PICK m : m = c-i
        OBVIOUS
      <4>3. k \in 1..c /\ c-k < d /\ (c-k)+1 = m /\ m \in Nat
        BY <1>1, <2>1, <2>3, <3>6, <4>1, <4>2
      <4>4. PICK t : t = f[d][chain[k]]
        OBVIOUS
      <4>5. t \in Seq(PageNo) /\ Len(t) = m /\ \A j \in 1..m : t[j] = chain[(k+j)-1]
        BY <1>t, <1>1, <1>2, <1>4, <2>2, <4>3, <4>4
      <4>6. PICK s : s = h \o t
        OBVIOUS
      <4>7. /\ Len(s) = 1+m
            /\ \A j \in 1..1+m : s[j] = IF j <= 1 THEN h[j] ELSE t[j-1]
        <5>1. /\ Len(s) = Len(h) + Len(t)
              /\ \A j \in 1..Len(h) + Len(t) : s[j] = IF j <= Len(h) THEN h[j] ELSE t[j-Len(h)]
          BY <3>4, <4>5, <4>6, ConcatProperties
        <5> QED BY <3>4, <4>5, <5>1
      <4>8. \A j \in 1..m+1 : s[j] = chain[(i+j)-1]
        <5> TAKE j \in 1..m+1
        <5>1. CASE j = 1
          <6>1. (i+j)-1 = i /\ j \in 1..1+m
            BY <4>3, <5>1
          <6> QED BY <3>4, <4>7, <5>1, <6>1
        <5>2. CASE j # 1
          <6>1. PICK b : b = j-1
            OBVIOUS
          <6>2. b \in 1..m /\ j \in 1..1+m /\ ~ (j <= 1)
            BY <4>3, <5>2, <6>1
          <6>3. (k+b)-1 = (i+j)-1
            BY <4>1, <6>1
          <6> QED BY <4>5, <4>7, <6>1, <6>2, <6>3
        <5> QED BY <5>1, <5>2
      <4>9. f[e][chain[i]] = s
        BY <2>2, <3>2, <3>3, <3>6, <4>1, <4>4, <4>6
      <4>10. Len(s) = m+1
        BY <4>3, <4>7
      <4> QED BY <4>2, <4>8, <4>9, <4>10
    <3> QED BY <3>5, <3>6
  <2> QED BY <1>2, <2>1, <2>2, <2>3
<1>5. 0..n \subseteq A
  BY <1>3, <1>4, UpTo
<1>6. n \in A /\ c-1 < n /\ (c-1)+1 = c /\ \A j \in 1..c : (1+j)-1 = j
  BY <1>1, <1>5
<1>7. /\ Len(f[n][chain[1]]) = (c-1)+1
      /\ \A j \in 1..(c-1)+1 : f[n][chain[1]][j] = chain[(1+j)-1]
  BY <1>1, <1>2, <1>6
<1> QED BY <1>6, <1>7

(* Rows in order, and rows that are all above them.                        *)
LEMMA RowsJoined ==
  ASSUME NEW s \in Seq(Nat), NEW t \in Seq(Nat), LeafInOrder(s), LeafInOrder(t), LeafBelow(s, t)
  PROVE  /\ LeafInOrder(s \o t)
         /\ \A x : ShownIn(s \o t, x) <=> ShownIn(s, x) \/ ShownIn(t, x)
<1>1. PICK r : r = s \o t
  OBVIOUS
<1>2. PICK m : m = Len(s)
  OBVIOUS
<1>3. PICK n : n = Len(t)
  OBVIOUS
<1>4. PICK k : k = m+n
  OBVIOUS
<1>5. m \in Nat /\ n \in Nat /\ k \in Nat
  BY <1>2, <1>3, <1>4, LenProperties
<1>6. Len(r) = k /\ \A a \in 1..k : r[a] = IF a <= m THEN s[a] ELSE t[a-m]
  BY <1>1, <1>2, <1>3, <1>4, ConcatProperties
<1>7. \A a \in 1..k : (a <= m => a \in 1..m) /\ (~ (a <= m) => a-m \in 1..n)
  BY <1>4, <1>5
<1>8. ASSUME NEW a \in 1..k, NEW b \in 1..k, a < b PROVE r[a] < r[b]
  <2>1. CASE b <= m
    <3>1. a \in 1..m /\ b \in 1..m /\ a <= m
      BY <1>5, <1>7, <1>8, <2>1
    <3> QED BY <1>2, <1>6, <1>8, <2>1, <3>1 DEF LeafInOrder
  <2>2. CASE a <= m /\ ~ (b <= m)
    <3>1. a \in 1..m /\ b-m \in 1..n
      BY <1>7, <2>2
    <3> QED BY <1>2, <1>3, <1>6, <2>2, <3>1 DEF LeafBelow
  <2>3. CASE ~ (a <= m)
    <3>1. PICK c : c = a-m
      OBVIOUS
    <3>2. PICK d : d = b-m
      OBVIOUS
    <3>3. c \in 1..n /\ d \in 1..n /\ c < d /\ ~ (b <= m)
      BY <1>5, <1>7, <1>8, <2>3, <3>1, <3>2
    <3>4. t[c] < t[d]
      BY <1>3, <3>3 DEF LeafInOrder
    <3> QED BY <1>6, <2>3, <3>1, <3>2, <3>3, <3>4
  <2> QED BY <2>1, <2>2, <2>3
<1>9. LeafInOrder(r)
  BY <1>6, <1>8 DEF LeafInOrder
<1>10. ASSUME NEW x PROVE ShownIn(r, x) <=> ShownIn(s, x) \/ ShownIn(t, x)
  <2>1. ASSUME ShownIn(r, x) PROVE ShownIn(s, x) \/ ShownIn(t, x)
    <3>1. PICK a \in 1..k : r[a] = x
      BY <1>6, <2>1 DEF ShownIn
    <3>2. CASE a <= m
      <4>1. a \in 1..m /\ s[a] = x
        BY <1>6, <1>7, <3>1, <3>2
      <4> QED BY <1>2, <4>1 DEF ShownIn
    <3>3. CASE ~ (a <= m)
      <4>1. PICK b : b = a-m
        OBVIOUS
      <4>2. b \in 1..n /\ t[b] = x
        BY <1>6, <1>7, <3>1, <3>3, <4>1
      <4> QED BY <1>3, <4>2 DEF ShownIn
    <3> QED BY <3>2, <3>3
  <2>2. ASSUME ShownIn(s, x) PROVE ShownIn(r, x)
    <3>1. PICK a \in 1..m : s[a] = x
      BY <1>2, <2>2 DEF ShownIn
    <3>2. a \in 1..k /\ a <= m
      BY <1>4, <1>5
    <3> QED BY <1>6, <3>1, <3>2 DEF ShownIn
  <2>3. ASSUME ShownIn(t, x) PROVE ShownIn(r, x)
    <3>1. PICK b \in 1..n : t[b] = x
      BY <1>3, <2>3 DEF ShownIn
    <3>2. PICK a : a = m+b
      OBVIOUS
    <3>3. a \in 1..k /\ ~ (a <= m) /\ a-m = b
      BY <1>4, <1>5, <3>2
    <3>4. r[a] = x
      BY <1>6, <3>1, <3>3
    <3> QED BY <1>6, <3>3, <3>4 DEF ShownIn
  <2> QED BY <2>1, <2>2, <2>3
<1> QED BY <1>1, <1>9, <1>10

(* The rows of the leaves from place i on.                                 *)
ShownFrom(i, c, rows, id) == \E j \in i..c : ShownIn(rows[j], id)
RowsOfPages(part, rows, c, chain) == \A i \in 1..c : part[chain[i]] = rows[i]

LEMMA RowsAlong ==
  ASSUME NEW n \in Nat, NEW f, NEW part, NEW c \in Nat, NEW chain, Along(f, part, n, c, chain),
         NEW rows, RowsOfPages(part, rows, c, chain), InOrder(c, rows),
         NEW d \in 0..n, NEW i \in 1..c, c-i < d,
         \A e \in 0..n : \A k \in 1..c : f[e][chain[k]] \in Seq(Nat)
  PROVE  /\ LeafInOrder(f[d][chain[i]])
         /\ \A id : ShownIn(f[d][chain[i]], id) <=> ShownFrom(i, c, rows, id)
<1> DEFINE Good(e, k) == /\ LeafInOrder(f[e][chain[k]])
                         /\ \A id : ShownIn(f[e][chain[k]], id) <=> ShownFrom(k, c, rows, id)
<1>1. PICK A : A = {e \in 0..n : \A k \in 1..c : c-k < e => Good(e, k)}
  OBVIOUS
<1>2. 0 \in A
  <2>1. \A k \in 1..c : ~ (c-k < 0)
    OBVIOUS
  <2>2. 0 \in 0..n
    OBVIOUS
  <2> QED BY <1>1, <2>1, <2>2
<1>3. ASSUME NEW b \in 0..n-1, b \in A PROVE b+1 \in A
  <2>1. PICK e : e = b+1
    OBVIOUS
  <2>2. e \in 0..n /\ e \in 1..n /\ e-1 = b /\ b \in 0..n
    BY <2>1
  <2>3. ASSUME NEW k \in 1..c, c-k < e PROVE Good(e, k)
    <3>1. f[e][chain[k]] = rows[k] \o (IF k = c THEN << >> ELSE f[e-1][chain[k+1]])
      BY <2>2 DEF Along, RowsOfPages
    <3>2. rows[k] \in Seq(Nat) /\ LeafInOrder(rows[k])
      BY DEF InOrder
    <3>3. CASE k = c
      <4>1. f[e][chain[k]] = rows[k]
        BY <3>1, <3>2, <3>3, ConcatEmptySeq
      <4>2. \A j \in k..c : j = k
        BY <3>3
      <4>3. k \in k..c
        BY <3>3
      <4>4. \A id : ShownFrom(k, c, rows, id) <=> ShownIn(rows[k], id)
        BY <4>2, <4>3 DEF ShownFrom
      <4> QED BY <3>2, <4>1, <4>4
    <3>4. CASE k # c
      <4>1. PICK l : l = k+1
        OBVIOUS
      <4>2. l \in 1..c /\ c-l < b
        BY <2>1, <2>3, <3>4, <4>1
      <4>3. PICK t : t = f[b][chain[l]]
        OBVIOUS
      <4>4. t \in Seq(Nat)
        BY <2>2, <4>2, <4>3
      <4>5. Good(b, l)
        BY <1>1, <1>3, <4>2
      <4>6. LeafInOrder(t) /\ \A id : ShownIn(t, id) <=> ShownFrom(l, c, rows, id)
        BY <4>3, <4>5
      <4>7. f[e][chain[k]] = rows[k] \o t
        BY <2>2, <3>1, <3>4, <4>1, <4>3
      <4>8. LeafBelow(rows[k], t)
        <5> SUFFICES ASSUME NEW x \in 1..Len(rows[k]), NEW y \in 1..Len(t) PROVE rows[k][x] < t[y]
          BY DEF LeafBelow
        <5>1. ShownIn(t, t[y])
          BY DEF ShownIn
        <5>2. PICK j \in l..c : ShownIn(rows[j], t[y])
          BY <4>6, <5>1 DEF ShownFrom
        <5>3. j \in 1..c /\ k < j
          BY <4>1, <4>2
        <5>4. LeafBelow(rows[k], rows[j])
          BY <5>3 DEF InOrder
        <5> QED BY <5>2, <5>4 DEF ShownIn, LeafBelow
      <4>9. /\ LeafInOrder(rows[k] \o t)
            /\ \A id : ShownIn(rows[k] \o t, id) <=> ShownIn(rows[k], id) \/ ShownIn(t, id)
        BY <3>2, <4>4, <4>6, <4>8, RowsJoined
      <4>10. \A id : ShownFrom(k, c, rows, id) <=> ShownIn(rows[k], id) \/ ShownFrom(l, c, rows, id)
        <5>1. k \in k..c /\ (\A j \in k..c : j = k \/ j \in l..c) /\ (\A j \in l..c : j \in k..c)
          BY <3>4, <4>1
        <5> QED BY <5>1 DEF ShownFrom
      <4> QED BY <4>6, <4>7, <4>9, <4>10
    <3> QED BY <3>3, <3>4
  <2>4. \A k \in 1..c : c-k < e => Good(e, k)
    BY <2>3
  <2> QED BY <1>1, <2>1, <2>2, <2>4
<1>4. 0..n \subseteq A
  BY <1>2, <1>3, UpTo
<1>5. d \in A
  BY <1>4
<1>6. Good(d, i)
  BY <1>1, <1>5
<1> QED BY <1>6

-----------------------------------------------------------------------------
(* What the scans of the file return.                                       *)

LEMMA FilePages ==
  ASSUME TypeOK, IsFiniteSet(DOMAIN file)
  PROVE  /\ IsFiniteSet(DOMAIN file) /\ Cardinality(DOMAIN file) \in Nat
         /\ DOMAIN file \subseteq Nat /\ DOMAIN file \subseteq PageNo
         /\ \A p \in LeavesOf(file) : /\ p \in PageNo /\ file[p].right \in PageNo
                                      /\ file[p].cells \in Seq(RowId)
         /\ \A p \in DOMAIN file \ LeavesOf(file) : file[p] \in InteriorPage
<1>1. DOMAIN file \subseteq Nat /\ file \in [DOMAIN file -> Page]
  BY DEF TypeOK
<1>2. Cardinality(DOMAIN file) \in Nat
  BY FS_CardinalityType
<1>3. \A p \in DOMAIN file : file[p] \in Page
  BY <1>1
<1>4. \A p \in LeavesOf(file) : file[p] \in LeafPage /\ p \in DOMAIN file
  BY <1>3, PageKinds DEF LeavesOf
<1>5. \A p \in LeavesOf(file) : /\ p \in PageNo /\ file[p].right \in PageNo
                                /\ file[p].cells \in Seq(RowId)
  BY <1>1, <1>4 DEF LeafPage, PageNo
<1>6. \A p \in DOMAIN file \ LeavesOf(file) : file[p] \in InteriorPage
  BY <1>3, PageKinds DEF LeavesOf
<1> QED BY <1>1, <1>2, <1>5, <1>6 DEF PageNo

LEMMA KnownFinite == ASSUME Known PROVE TypeOK /\ IsFiniteSet(DOMAIN file)
<1>1. TypeOK
  BY DEF Known
<1>2. PICK last : DOMAIN file = 0..last /\ last = LastPageNo
  BY DEF Known, CountInv, PagesCounted
<1>3. last \in Int
  <2>1. entry.page_count \in Nat /\ (pc # "idle" => PageCount \in Nat)
    BY <1>1, Busy DEF TypeOK, Entry
  <2> QED BY <1>2, <2>1 DEF LastPageNo, KnownPages
<1> QED BY <1>1, <1>2, <1>3, FS_Interval

(* leafPageByRowId(0), and every other leftmostLeafPage, is the first leaf *)
(* of the chain.                                                           *)
LEMMA FirstLeafFound ==
  ASSUME TypeOK, IsFiniteSet(DOMAIN file),
         NEW m, NEW left, LeftPath(file, m, left), file[left[m]].type = "leaf"
  PROVE  LeafByRowId(0) = left[m]
<1>1. PICK n : n = Cardinality(DOMAIN file)
  OBVIOUS
<1>2. /\ n \in Nat /\ IsFiniteSet(DOMAIN file) /\ DOMAIN file \subseteq PageNo
      /\ \A p \in DOMAIN file \ LeavesOf(file) : file[p] \in InteriorPage
  BY <1>1, FilePages
<1>3. \A p \in DOMAIN file \ LeavesOf(file) : ChildPageNoByRowId(file[p], 0) \in PageNo
  BY <1>2, ChildHasNumber
<1>4. PICK f : Leads(f, file, 0, n) /\ LeafByRowId(0) = f[n][0]
  BY <1>1, <1>2, <1>3, LeafByRowIdLeads
<1>5. PathIn(file, m, left) /\ left[1] = 0 /\ \A i \in 1..m-1 : BeginsWith(file[left[i]], left[i+1])
  BY DEF LeftPath
<1>6. m <= n
  BY <1>1, <1>2, <1>5, PathFits
<1>7. \A i \in 1..m-1 : left[i] \in DOMAIN file
  BY <1>5 DEF PathIn
<1>8. ASSUME NEW i \in 1..m-1
      PROVE  file[left[i]].type # "leaf" /\ ChildPageNoByRowId(file[left[i]], 0) = left[i+1]
  <2>1. BeginsWith(file[left[i]], left[i+1])
    BY <1>5
  <2>2. file[left[i]].type # "leaf"
    BY <2>1 DEF BeginsWith
  <2>3. file[left[i]] \in InteriorPage
    BY <1>2, <1>7, <2>2 DEF LeavesOf
  <2> QED BY <2>1, <2>2, <2>3, LeadsFirst
<1>9. f[n][left[1]] = left[m]
  BY <1>2, <1>4, <1>5, <1>6, <1>8, LeadsAlong
<1> QED BY <1>4, <1>5, <1>9

LEMMA ScansAlongChain ==
  ASSUME Known, NEW c, NEW chain, LeafChain(file, c, chain), InOrder(c, CellsOf(file, c, chain)),
         LeafByRowId(0) = chain[1]
  PROVE  /\ Len(ScannedLeaves) = c /\ \A j \in 1..c : ScannedLeaves[j] = chain[j]
         /\ ScannedLeaves \in Seq(PageNo) /\ ScannedRows \in Seq(Nat) /\ LeafInOrder(ScannedRows)
         /\ \A id : ShownIn(ScannedRows, id) <=> Shown(c, CellsOf(file, c, chain), id)
<1>1. PICK n : n = Cardinality(DOMAIN file)
  OBVIOUS
<1>2. /\ n \in Nat /\ IsFiniteSet(DOMAIN file) /\ DOMAIN file \subseteq Nat /\ DOMAIN file \subseteq PageNo
      /\ \A p \in LeavesOf(file) : /\ p \in PageNo /\ file[p].right \in PageNo
                                   /\ file[p].cells \in Seq(RowId)
  BY <1>1, FilePages, KnownFinite
<1>3. PathIn(file, c, chain) /\ c \in Nat /\ 1 \in 1..c /\ \A i \in 1..c : chain[i] \in LeavesOf(file)
  BY ChainPlaces DEF LeafChain, LeavesOf
<1>4. c <= n
  BY <1>1, <1>2, <1>3, PathFits
<1>5. PICK first \in PageNo : first = chain[1]
  BY <1>2, <1>3
<1>6. \A p \in LeavesOf(file) : p \in PageNo /\ file[p].right \in PageNo
  BY <1>2
<1>7. \A p \in LeavesOf(file) : file[p].right \in PageNo
  BY <1>2
<1>8. /\ Len(ScannedLeaves) = c /\ \A j \in 1..c : ScannedLeaves[j] = chain[j]
      /\ ScannedLeaves \in Seq(PageNo)
  <2>1. PICK part : part = [p \in PageNo |-> <<p>>]
    OBVIOUS
  <2>2. Single(part)
    BY <2>1 DEF Single
  <2>3. PICK f : /\ Follows(f, file, part, n) /\ LeavesFrom(first) = f[n][first]
                 /\ f[n][first] \in Seq(PageNo)
    BY <1>1, <1>2, <1>6, <2>1, LeavesFromFollows
  <2>4. Len(f[n][chain[1]]) = c /\ \A j \in 1..c : f[n][chain[1]][j] = chain[j]
    BY <1>2, <1>4, <1>7, <2>2, <2>3, LeavesAlong
  <2> QED BY <1>5, <2>3, <2>4 DEF ScannedLeaves
<1>9. /\ ScannedRows \in Seq(Nat) /\ LeafInOrder(ScannedRows)
      /\ \A id : ShownIn(ScannedRows, id) <=> Shown(c, CellsOf(file, c, chain), id)
  <2>1. PICK part : part = [p \in PageNo |-> file[p].cells]
    OBVIOUS
  <2>2. PICK rows : rows = CellsOf(file, c, chain)
    OBVIOUS
  <2>3. PICK f : /\ Follows(f, file, part, n) /\ RowsFrom(first) = f[n][first]
                 /\ f[n][first] \in Seq(RowId)
    BY <1>1, <1>2, <2>1, RowsFromFollows
  <2>4. Along(f, part, n, c, chain)
    BY <1>2, <2>3, FollowsAlong
  <2>5. \A p \in LeavesOf(file) : part[p] \in Seq(Nat)
    BY <1>2, <2>1 DEF RowId
  <2>6. \A e \in 0..n : \A p \in PageNo : f[e][p] \in Seq(Nat)
    BY <1>2, <1>7, <2>3, <2>5, FollowsType
  <2>7. \A e \in 0..n : \A k \in 1..c : f[e][chain[k]] \in Seq(Nat)
    BY <1>2, <1>3, <2>6
  <2>8. RowsOfPages(part, rows, c, chain)
    BY <1>2, <1>3, <2>1, <2>2 DEF RowsOfPages, CellsOf
  <2>9. n \in 0..n /\ c-1 < n
    BY <1>2, <1>3, <1>4
  <2>10. InOrder(c, rows)
    BY <2>2
  <2>11. /\ LeafInOrder(f[n][chain[1]])
         /\ \A id : ShownIn(f[n][chain[1]], id) <=> ShownFrom(1, c, rows, id)
    BY <1>2, <1>3, <2>4, <2>7, <2>8, <2>9, <2>10, RowsAlong
  <2>12. ScannedRows = f[n][chain[1]] /\ f[n][chain[1]] \in Seq(Nat)
    BY <1>5, <2>3 DEF ScannedRows, RowId
  <2> QED BY <2>2, <2>11, <2>12 DEF ShownFrom, Shown
<1> QED BY <1>8, <1>9

(* What every scan shows, at every instant.                                *)
ScansShow ==
  /\ ScannedRows \in Seq(Nat) /\ LeafInOrder(ScannedRows)
  /\ \A id : ShownIn(ScannedRows, id) <=> id \in Visible

LEMMA ChainScanned ==
  ASSUME Known, NEW last, NEW c, NEW chain, NEW n, NEW left, ChainOf(last, c, chain, n, left)
  PROVE  /\ ScansShow
         /\ Len(ScannedLeaves) = c /\ \A j \in 1..c : ScannedLeaves[j] = chain[j]
         /\ ScannedLeaves \in Seq(PageNo) /\ RightInv(PathEnds(c, chain))
<1>1. /\ ChainPart(c, chain) /\ PathEnds(c, chain) = last /\ RightInv(last)
      /\ LeftPart(n, left) /\ left[n] = chain[1]
  BY DEF ChainOf
<1>2. LeafChain(file, c, chain) /\ InOrder(c, CellsOf(file, c, chain)) /\ LeftPath(file, n, left)
  BY <1>1 DEF ChainPart, LeftPart
<1>3. file[left[n]].type = "leaf"
  BY <1>1, <1>2, ChainPlaces
<1>4. LeafByRowId(0) = chain[1]
  BY <1>1, <1>2, <1>3, FirstLeafFound, KnownFinite
<1>5. /\ Len(ScannedLeaves) = c /\ \A j \in 1..c : ScannedLeaves[j] = chain[j]
      /\ ScannedLeaves \in Seq(PageNo) /\ ScannedRows \in Seq(Nat) /\ LeafInOrder(ScannedRows)
      /\ \A id : ShownIn(ScannedRows, id) <=> Shown(c, CellsOf(file, c, chain), id)
  BY <1>2, <1>4, ScansAlongChain
<1>6. ScansShow
  BY <1>1, <1>5 DEF ScansShow, ChainPart
<1>7. RightInv(PathEnds(c, chain))
  BY <1>1
<1> QED BY <1>5, <1>6, <1>7

(* A row that a statement deletes is in a leaf of the chain.               *)
LEMMA ChainDelete ==
  ASSUME Known, SideInv, NEW c, NEW chain, ChainPart(c, chain), RightInv(PathEnds(c, chain)),
         Len(ScannedLeaves) = c, \A j \in 1..c : ScannedLeaves[j] = chain[j],
         ScannedLeaves \in Seq(PageNo), NEW h, Delete(h)
  PROVE  ChainPart(c, chain)' /\ PathEnds(c, chain)' = PathEnds(c, chain)
<1>1. pc = "idle" /\ pc' = "idle" /\ ~ Linking /\ ~ Linking' /\ UNCHANGED entry
  BY DEF Delete, Linking
<1>2. PICK leaf \in Leaves \intersect ToSet(ScannedLeaves) :
         \E i \in DOMAIN file[leaf].cells :
            /\ Write(leaf, DeleteRecord(file[leaf], i))
            /\ live' = live \ {file[leaf].cells[i]}
  BY DEF Delete
<1>3. PICK k \in DOMAIN file[leaf].cells : /\ Write(leaf, DeleteRecord(file[leaf], k))
                                           /\ live' = live \ {file[leaf].cells[k]}
  BY <1>2
<1>4. LeafChain(file, c, chain) /\ InOrder(c, CellsOf(file, c, chain))
      /\ \A id : Shown(c, CellsOf(file, c, chain), id) <=> id \in live
  BY <1>1 DEF ChainPart, Visible
<1>5. PICK l \in 1..c : leaf = chain[l]
  <2>1. DOMAIN ScannedLeaves = 1..c
    BY LenProperties
  <2> QED BY <1>2, <2>1 DEF ToSet
<1>6. file[leaf] \in LeafPage
  BY <1>2, PageKinds DEF Leaves, Known, TypeOK
<1>7. PICK page : page = DeleteRecord(file[leaf], k)
  OBVIOUS
<1>8. /\ page.type = "leaf" /\ page.right = file[leaf].right
      /\ page.cells = RemoveAt(file[leaf].cells, k) /\ Write(leaf, page)
  BY <1>3, <1>6, <1>7 DEF DeleteRecord, LeafPage
<1>9. PICK rows : rows = CellsOf(file, c, chain)
  OBVIOUS
<1>10. PICK new : new = CellsOf(file', c, chain)
  OBVIOUS
<1>11. rows[l] = file[leaf].cells /\ k \in 1..Len(rows[l])
  <2>1. rows[l] = file[leaf].cells
    BY <1>5, <1>9 DEF CellsOf
  <2>2. file[leaf].cells \in Seq(RowId)
    BY <1>6 DEF LeafPage
  <2> QED BY <1>3, <2>1, <2>2, LenProperties
<1>12. /\ LeafChain(file', c, chain) /\ new[l] = page.cells
       /\ \A i \in 1..c : i # l => new[i] = rows[i]
  BY <1>4, <1>5, <1>8, <1>9, <1>10, ChainRewritten
<1>13. c \in Nat /\ InOrder(c, rows) /\ new[l] = RemoveAt(rows[l], k)
  BY <1>4, <1>8, <1>9, <1>11, <1>12, ChainPlaces
<1>14. InOrder(c, new) /\ \A x : Shown(c, new, x) <=> Shown(c, rows, x) /\ x # rows[l][k]
  <2>1. \A i \in 1..c : i # l => new[i] = rows[i]
    BY <1>12
  <2>2. new[l] = RemoveAt(rows[l], k) /\ k \in 1..Len(rows[l])
    BY <1>11, <1>13
  <2>3. c \in Nat /\ InOrder(c, rows)
    BY <1>13
  <2> QED BY <2>1, <2>2, <2>3, RowRemoved
<1>15. \A x : Shown(c, new, x) <=> x \in live'
  BY <1>3, <1>4, <1>9, <1>11, <1>14
<1>16. Visible' = live'
  BY <1>1 DEF Visible
<1>17. ChainPart(c, chain)'
  BY <1>1, <1>10, <1>12, <1>14, <1>15, <1>16 DEF ChainPart
<1> QED BY <1>1, <1>17 DEF PathEnds

-----------------------------------------------------------------------------
(* Every step keeps the chain, its order and what it shows.                 *)

LEMMA ChainGoesOn ==
  ASSUME NEW p, RightInv(p)', NEW c, NEW chain, ChainPart(c, chain)', PathEnds(c, chain)' = p,
         NEW n, NEW left, LeftPart(n, left)', left[n] = chain[1]
  PROVE  \E last, d, q, m, first : ChainOf(last, d, q, m, first)'
<1>1. ChainOf(p, c, chain, n, left)'
  BY DEF ChainOf
<1> QED BY <1>1

LEMMA ParentInFile ==
  ASSUME Known, FramesInv, pc = "return", ~ AtRoot
  PROVE  file[Parent.no].type # "leaf"
<1>1. frames \in Seq(Frame) /\ frames # << >> /\ Len(frames) \in Nat
  BY TopFrame DEF Known, TypeOK
<1>2. PICK m : m = Len(frames)-1
  OBVIOUS
<1>3. /\ m \in 1..Len(frames) /\ Parent = frames[m] /\ Parent.page \in InteriorPage
  BY <1>1, <1>2, ParentFrame, ParentInterior DEF Known
<1>4. file[Parent.no] = Parent.page
  BY <1>3 DEF FramesInv, FramesCopied
<1> QED BY <1>3, <1>4 DEF InteriorPage

LEMMA ChainStep ==
  ASSUME Known, SideInv, [Next]_vars,
         NEW last, NEW c, NEW chain, NEW n, NEW left, ChainOf(last, c, chain, n, left)
  PROVE  \E p, d, q, m, first : ChainOf(p, d, q, m, first)'
<1>1. /\ ChainPart(c, chain) /\ PathEnds(c, chain) = last /\ RightInv(last) /\ FramesInv
      /\ LeftPart(n, left) /\ left[n] = chain[1] /\ RightInv(PathEnds(c, chain))
      /\ LeafChain(file, c, chain)
  BY DEF ChainOf, RightInv, ChainPart
<1>2. ~ SplitLeaf => RightInv(last)'
  BY <1>1, RightStep
<1>3. ASSUME UNCHANGED file, pc # "relink", pc' \notin {"relink", "root"},
             ~ LeafAppend, ~ SplitLeaf, \A h \in Handles : ~ Delete(h)
      PROVE  \E p, d, q, m, first : ChainOf(p, d, q, m, first)'
  <2>1. ChainPart(c, chain)' /\ PathEnds(c, chain)' = last
    BY <1>1, <1>3, ChainQuiet
  <2>2. LeftPart(n, left)'
    BY <1>1, <1>3, LeftSame
  <2> QED BY <1>1, <1>2, <1>3, <2>1, <2>2, ChainGoesOn
<1>4. CASE UNCHANGED vars
  <2>1. ChainPart(c, chain)' /\ PathEnds(c, chain)' = last
    BY <1>1, <1>4, ChainStutters
  <2>2. LeftPart(n, left)'
    BY <1>1, <1>4 DEF LeftPart, vars, PageCount
  <2>3. ~ SplitLeaf
    BY <1>4 DEF vars, SplitLeaf
  <2> QED BY <1>1, <1>2, <2>1, <2>2, <2>3, ChainGoesOn
<1>5. CASE \/ \E h \in Handles, length \in CellLengths : BeginAppend(h, length)
           \/ Descend \/ ReadFails \/ LeafThrows \/ CountSplit \/ CountRoot \/ Finish
  <2>1. /\ UNCHANGED file /\ pc # "relink" /\ pc' \notin {"relink", "root"}
        /\ ~ SplitLeaf /\ ~ LeafAppend /\ \A h \in Handles : ~ Delete(h)
    <3>1. CASE \/ \E h \in Handles, length \in CellLengths : BeginAppend(h, length)
               \/ Descend \/ ReadFails \/ LeafThrows
      <4>1. UNCHANGED <<file, live>> /\ pc # "relink" /\ pc' \in {"idle", "descend", "leaf"}
        BY <3>1 DEF BeginAppend, Descend, ReadFails, LeafThrows, Throw
      <4>2. ~ SplitLeaf /\ ~ LeafAppend
        BY <4>1 DEF SplitLeaf, LeafAppend
      <4>3. \A h \in Handles : ~ Delete(h)
        BY <3>1 DEF BeginAppend, Descend, ReadFails, LeafThrows, Throw, Delete
      <4> QED BY <4>1, <4>2, <4>3
    <3>2. CASE CountSplit \/ CountRoot \/ Finish
      BY <3>2 DEF CountSplit, CountRoot, Finish, Throw, SplitLeaf, LeafAppend, Delete
    <3> QED BY <1>5, <3>1, <3>2
  <2> QED BY <1>3, <2>1
<1>6. CASE LeafAppend
  <2>1. ChainPart(c, chain)' /\ PathEnds(c, chain)' = last
    BY <1>1, <1>6, ChainLeafAppend
  <2>2. PICK page_no, page : Write(page_no, page) /\ page_no = Current.no
    BY <1>6 DEF LeafAppend
  <2>3. pc = "leaf" /\ pc' = "finish" /\ ~ SplitLeaf
    BY <1>6 DEF LeafAppend, SplitLeaf
  <2>4. PICK k, path : RightPart(k, path, last)
    BY <1>1 DEF RightInv
  <2>5. Current.no = last /\ file[last].type = "leaf"
    BY <1>1, <2>3, <2>4, AtTheEnd DEF RightInv
  <2>6. LeftPart(n, left)'
    BY <1>1, <2>2, <2>3, <2>5, LeftWrite
  <2> QED BY <1>1, <1>2, <2>1, <2>3, <2>6, ChainGoesOn
<1>7. CASE SplitLeaf
  <2>1. PICK p : p = PageCount
    OBVIOUS
  <2>2. RightInv(p)'
    BY <1>1, <1>7, <2>1, RightSplitLeaf
  <2>3. ChainPart(c, chain)' /\ PathEnds(c, chain)' = p
    BY <1>1, <1>7, <2>1, ChainSplitLeaf
  <2>4. PICK page : Write(p, page)
    BY <1>7, <2>1 DEF SplitLeaf
  <2>5. pc = "leaf" /\ pc' = "relink" /\ p \notin DOMAIN file
    BY <1>7, <2>1, FreshPage DEF SplitLeaf, Known
  <2>6. LeftPart(n, left)'
    BY <1>1, <2>4, <2>5, LeftWrite
  <2> QED BY <1>1, <2>2, <2>3, <2>6, ChainGoesOn
<1>8. CASE Relink /\ Linking
  <2>1. PICK p : p = split.no
    OBVIOUS
  <2>2. PICK new : new = Longer(c, chain, p)
    OBVIOUS
  <2>3. PICK d : d = c+1
    OBVIOUS
  <2>4. ChainPart(d, new)' /\ PathEnds(d, new)' = last /\ new[1] = chain[1]
    BY <1>1, <1>8, <2>1, <2>2, <2>3, ChainRelink
  <2>5. LeftPart(n, left)' /\ ~ SplitLeaf
    BY <1>1, <1>8, LeftRelink DEF Relink, SplitLeaf
  <2> QED BY <1>1, <1>2, <2>4, <2>5, ChainGoesOn
<1>9. CASE Relink /\ ~ Linking
  <2>1. PICK page_no, page : Write(page_no, page) /\ page_no = Current.no /\ page = Current.page
    BY <1>9 DEF Relink
  <2>2. pc = "relink" /\ pc' = "count" /\ ~ Linking'
    BY <1>9 DEF Relink, Linking
  <2>3. file[page_no].type # "leaf"
    BY <1>9, <2>1, <2>2 DEF SideInv, Changed, Linking
  <2>4. Off(c, chain, page_no)
    BY <1>1, <2>3, OffTheChain
  <2>5. ~ LeafAppend /\ ~ SplitLeaf /\ \A h \in Handles : ~ Delete(h)
    BY <2>2 DEF LeafAppend, SplitLeaf, Delete
  <2>6. ChainPart(c, chain)' /\ PathEnds(c, chain)' = last
    BY <1>1, <1>9, <2>1, <2>2, <2>4, <2>5, ChainAside
  <2>7. LeftPart(n, left)'
    BY <1>1, <1>9, LeftRelink
  <2> QED BY <1>1, <1>2, <2>5, <2>6, <2>7, ChainGoesOn
<1>10. CASE AbsorbSplit
  <2>1. PICK page_no, page : Write(page_no, page) /\ page_no = Parent.no
    BY <1>10 DEF AbsorbSplit
  <2>2. pc = "return" /\ pc' = "finish" /\ ~ AtRoot /\ ~ Linking /\ ~ Linking'
    BY <1>10 DEF AbsorbSplit, Linking
  <2>3. file[page_no].type # "leaf"
    BY <1>1, <2>1, <2>2, ParentInFile
  <2>4. Off(c, chain, page_no)
    BY <1>1, <2>3, OffTheChain
  <2>5. ~ LeafAppend /\ ~ SplitLeaf /\ \A h \in Handles : ~ Delete(h)
    BY <2>2 DEF LeafAppend, SplitLeaf, Delete
  <2>6. ChainPart(c, chain)' /\ PathEnds(c, chain)' = last
    BY <1>1, <2>1, <2>2, <2>4, <2>5, ChainAside
  <2>7. LeftPart(n, left)'
    BY <1>1, <1>10, LeftAbsorb
  <2> QED BY <1>1, <1>2, <2>5, <2>6, <2>7, ChainGoesOn
<1>11. CASE SplitInterior
  <2>1. PICK page_no, page : Write(page_no, page) /\ page_no = PageCount
    BY <1>11 DEF SplitInterior
  <2>2. pc = "return" /\ pc' = "relink" /\ ~ Linking
    BY <1>11 DEF SplitInterior, Linking
  <2>3. ~ Linking' /\ page_no \notin DOMAIN file
    BY <1>1, <1>11, <2>1, SideSplitInterior
  <2>4. Off(c, chain, page_no)
    BY <1>1, <2>3, OffTheChain
  <2>5. ~ LeafAppend /\ ~ SplitLeaf /\ \A h \in Handles : ~ Delete(h)
    BY <2>2 DEF LeafAppend, SplitLeaf, Delete
  <2>6. ChainPart(c, chain)' /\ PathEnds(c, chain)' = last
    BY <1>1, <2>1, <2>2, <2>3, <2>4, <2>5, ChainAside
  <2>7. LeftPart(n, left)'
    BY <1>1, <2>1, <2>2, <2>3, LeftWrite
  <2> QED BY <1>1, <1>2, <2>5, <2>6, <2>7, ChainGoesOn
<1>12. CASE MoveRoot
  <2>1. PICK page_no, page : Write(page_no, page) /\ page_no = PageCount
    BY <1>12 DEF MoveRoot
  <2>2. pc = "return" /\ pc' = "root" /\ ~ Linking /\ ~ Linking' /\ UNCHANGED <<table, op>>
    BY <1>12 DEF MoveRoot, Linking
  <2>3. page_no \notin DOMAIN file /\ page_no = PageCount'
    BY <2>1, <2>2, FreshPage DEF Known, PageCount
  <2>4. Off(c, chain, page_no)
    BY <1>1, <2>3, OffTheChain
  <2>5. ~ LeafAppend /\ ~ SplitLeaf /\ \A h \in Handles : ~ Delete(h)
    BY <2>2 DEF LeafAppend, SplitLeaf, Delete
  <2>6. ChainPart(c, chain)' /\ PathEnds(c, chain)' = last
    BY <1>1, <2>1, <2>2, <2>3, <2>4, <2>5, ChainAside
  <2>7. LeftPart(n, left)'
    <3>1. LeftPath(file', n, left)
      BY <1>1, <2>1, <2>3, LeftPathStays DEF LeftPart
    <3>2. Off(n, left, page_no)
      BY <1>1, <2>3 DEF LeftPart, LeftPath, PathIn, Off
    <3> QED BY <2>3, <3>1, <3>2 DEF LeftPart
  <2> QED BY <1>1, <1>2, <2>5, <2>6, <2>7, ChainGoesOn
<1>13. CASE NewRoot
  <2>1. PICK new, m, other : /\ ChainPart(c, new)' /\ PathEnds(c, new)' = last
                             /\ LeftPart(m, other)' /\ other[m] = new[1]
    BY <1>1, <1>13, ChainNewRoot
  <2>2. ~ SplitLeaf
    BY <1>13 DEF NewRoot, SplitLeaf
  <2> QED BY <1>2, <2>1, <2>2, ChainGoesOn
<1>14. ASSUME NEW h \in Handles, Delete(h) PROVE \E p, d, q, m, first : ChainOf(p, d, q, m, first)'
  <2>1. /\ Len(ScannedLeaves) = c /\ \A j \in 1..c : ScannedLeaves[j] = chain[j]
        /\ ScannedLeaves \in Seq(PageNo)
    BY ChainScanned
  <2>2. ChainPart(c, chain)' /\ PathEnds(c, chain)' = last
    BY <1>1, <1>14, <2>1, ChainDelete
  <2>3. PICK leaf \in Leaves : \E page : Write(leaf, page)
    BY <1>14 DEF Delete
  <2>4. PICK page : Write(leaf, page)
    BY <2>3
  <2>5. file[leaf].type = "leaf" /\ pc = "idle" /\ pc' = "idle" /\ ~ SplitLeaf
    BY <1>14 DEF Delete, Leaves, SplitLeaf
  <2>6. LeftPart(n, left)'
    BY <1>1, <2>4, <2>5, LeftWrite
  <2> QED BY <1>1, <1>2, <2>2, <2>5, <2>6, ChainGoesOn
<1> QED BY <1>4, <1>5, <1>6, <1>7, <1>8, <1>9, <1>10, <1>11, <1>12, <1>13, <1>14 DEF Next, AppendStep

LEMMA ChainInit ==
  ASSUME Init PROVE ChainInv
<1>1. PICK q : q = [i \in 1..1 |-> 0]
  OBVIOUS
<1>2. /\ 0 \in DOMAIN file /\ file[0].type = "leaf" /\ file[0].right = NULL_PAGE_NO
      /\ file[0].cells = << >> /\ pc = "idle" /\ live = {} /\ entry.next_row_id = 1
  BY DEF Init, NewPage, INITIAL_ROW_ID
<1>3. PathIn(file, 1, q) /\ q[1] = 0
  BY <1>1, <1>2 DEF PathIn, Different
<1>4. LeafChain(file, 1, q) /\ LeftPath(file, 1, q)
  BY <1>2, <1>3 DEF LeafChain, LeftPath
<1>5. PICK rows : rows = CellsOf(file, 1, q)
  OBVIOUS
<1>6. rows[1] = << >>
  BY <1>2, <1>3, <1>5 DEF CellsOf
<1>7. << >> \in Seq(Nat) /\ Len(<< >>) = 0
  BY EmptySeq
<1>8. InOrder(1, rows) /\ \A x : ~ Shown(1, rows, x)
  <2>1. \A i \in 1..1 : rows[i] = << >>
    BY <1>6
  <2>2. \A i \in 1..1 : rows[i] \in Seq(Nat) /\ LeafInOrder(rows[i])
    <3>1. LeafInOrder(<< >>)
      BY <1>7 DEF LeafInOrder
    <3> QED BY <1>7, <2>1, <3>1
  <2>3. \A i, j \in 1..1 : i < j => LeafBelow(rows[i], rows[j])
    OBVIOUS
  <2>4. \A x : ~ Shown(1, rows, x)
    BY <1>7, <2>1 DEF Shown, ShownIn
  <2> QED BY <2>2, <2>3, <2>4 DEF InOrder
<1>9. ~ Linking /\ Visible = {}
  BY <1>2 DEF Linking, Visible
<1>10. ChainPart(1, q)
  BY <1>2, <1>4, <1>5, <1>8, <1>9 DEF ChainPart
<1>11. RightInv(0) /\ PathEnds(1, q) = 0
  BY <1>3, <1>9, RightInit DEF PathEnds
<1>12. LeftPart(1, q)
  BY <1>2, <1>4 DEF LeftPart
<1>13. ChainOf(0, 1, q, 1, q)
  BY <1>10, <1>11, <1>12 DEF ChainOf
<1>14. SideInv
  BY <1>2, <1>9 DEF SideInv, Changed, NewLeaf, Moved, SplitRow, LiveBelow, Whole
<1> QED BY <1>13, <1>14 DEF ChainInv

LEMMA ChainInvariant ==
  ASSUME OneTableObject PROVE Spec => [](Known /\ ChainInv)
<1>1. Init => Known /\ ChainInv
  BY KnownInit, ChainInit
<1>2. Known /\ ChainInv /\ [Next]_vars => (Known /\ ChainInv)'
  <2> SUFFICES ASSUME Known, SideInv, [Next]_vars,
                      NEW last, NEW c, NEW chain, NEW n, NEW left, ChainOf(last, c, chain, n, left)
               PROVE  Known' /\ SideInv' /\ \E p, d, q, m, first : ChainOf(p, d, q, m, first)'
    BY DEF ChainInv
  <2>1. Known'
    BY KnownStep
  <2>2. SideInv'
    BY SideStep DEF ChainOf
  <2>3. \E p, d, q, m, first : ChainOf(p, d, q, m, first)'
    BY ChainStep
  <2> QED BY <2>1, <2>2, <2>3
<1> QED BY <1>1, <1>2, PTL DEF Spec

LEMMA ChainScans == ASSUME Known, ChainInv PROVE ScansShow
BY ChainScanned DEF ChainInv

(* At every instant a scan returns the rows inserted and not deleted, in   *)
(* the order of their ids, once each, and at most the row of the insert    *)
(* under way as the last one (table.hpp:241-255, table_leaf_page.cpp:335). *)
THEOREM ScansShowLiveRows ==
  ASSUME OneTableObject PROVE Spec => []ScanShowsLiveRows
<1>1. Known /\ ChainInv => ScanShowsLiveRows
  <2> SUFFICES ASSUME Known, ChainInv PROVE ScanShowsLiveRows
    OBVIOUS
  <2>1. /\ ScannedRows \in Seq(Nat) /\ LeafInOrder(ScannedRows)
        /\ \A id : ShownIn(ScannedRows, id) <=> id \in Visible
    BY ChainScans DEF ScansShow
  <2>2. PICK s : s = ScannedRows
    OBVIOUS
  <2>3. s \in Seq(Nat) /\ LeafInOrder(s) /\ \A id : ShownIn(s, id) <=> id \in Visible
    BY <2>1, <2>2
  <2>4. Len(s) \in Nat /\ DOMAIN s = 1..Len(s)
    BY <2>3, LenProperties
  <2>5. Increasing(s)
    <3>1. \A i \in 1..Len(s)-1 : i \in 1..Len(s) /\ i+1 \in 1..Len(s) /\ i < i+1
      BY <2>4
    <3> QED BY <2>3, <3>1 DEF Increasing, LeafInOrder
  <2>6. \A id : id \in ToSet(s) <=> ShownIn(s, id)
    BY <2>4 DEF ToSet, ShownIn
  <2>7. ToSet(s) = Visible
    BY <2>3, <2>6
  <2>8. pc # "idle" => RowIdToAppend = entry.next_row_id
    BY DEF Known, PointersInv, NextIsCurrent
  <2>9. pc = "idle" => Visible = live
    BY DEF Visible
  <2>10. Visible = live \/ Visible = live \union {entry.next_row_id}
    BY DEF Visible
  <2> QED BY <2>2, <2>5, <2>7, <2>8, <2>9, <2>10 DEF ScanShowsLiveRows
<1> QED BY <1>1, ChainInvariant, PTL

-----------------------------------------------------------------------------
(* The table as a record store.                                             *)

(* Rows in order that show the same are the same.                          *)
LEMMA SameRows ==
  ASSUME NEW s \in Seq(Nat), NEW t \in Seq(Nat), LeafInOrder(s), LeafInOrder(t),
         \A x : ShownIn(s, x) <=> ShownIn(t, x)
  PROVE  s = t
<1>1. PICK m : m = Len(s)
  OBVIOUS
<1>2. PICK n : n = Len(t)
  OBVIOUS
<1>3. /\ m \in Nat /\ n \in Nat
      /\ \A a \in 1..m : s[a] \in Nat
      /\ \A b \in 1..n : t[b] \in Nat
  BY <1>1, <1>2, LenProperties, ElementOfSeq
<1>4. /\ \A a, b \in 1..m : a < b => s[a] < s[b]
      /\ \A a, b \in 1..n : a < b => t[a] < t[b]
  BY <1>1, <1>2 DEF LeafInOrder
<1>5. /\ \A a \in 1..m : \E b \in 1..n : t[b] = s[a]
      /\ \A b \in 1..n : \E a \in 1..m : s[a] = t[b]
  BY <1>1, <1>2 DEF ShownIn
<1>6. \A k \in Nat : k \in 1..m /\ k \in 1..n => s[k] = t[k]
  <2> SUFFICES ASSUME \E k \in Nat : k \in 1..m /\ k \in 1..n /\ s[k] # t[k] PROVE FALSE
    OBVIOUS
  <2>1. PICK S : S = {k \in Nat : k \in 1..m /\ k \in 1..n /\ s[k] # t[k]}
    OBVIOUS
  <2>2. S \subseteq Nat /\ S # {}
    BY <2>1
  <2>3. PICK k \in S : \A j \in S : k <= j
    BY <2>2, FirstPosition
  <2>4. k \in 1..m /\ k \in 1..n /\ s[k] # t[k]
    BY <2>1, <2>3
  <2>5. \A j \in 1..k-1 : j \in 1..m /\ j \in 1..n /\ s[j] = t[j]
    BY <1>3, <2>1, <2>3, <2>4
  <2>6. ASSUME s[k] < t[k] PROVE FALSE
    <3>1. PICK b \in 1..n : t[b] = s[k]
      BY <1>5, <2>4
    <3>2. b < k
      <4>1. ~ (k < b) /\ b # k
        BY <1>3, <1>4, <2>4, <2>6, <3>1
      <4> QED BY <1>3, <2>4, <4>1
    <3>3. b \in 1..k-1
      BY <1>3, <2>4, <3>2
    <3>4. s[b] = s[k] /\ s[b] < s[k]
      BY <1>4, <2>4, <2>5, <3>1, <3>2, <3>3
    <3> QED BY <1>3, <2>4, <3>4
  <2>7. ASSUME t[k] < s[k] PROVE FALSE
    <3>1. PICK b \in 1..m : s[b] = t[k]
      BY <1>5, <2>4
    <3>2. b < k
      <4>1. ~ (k < b) /\ b # k
        BY <1>3, <1>4, <2>4, <2>7, <3>1
      <4> QED BY <1>3, <2>4, <4>1
    <3>3. b \in 1..k-1
      BY <1>3, <2>4, <3>2
    <3>4. t[b] = t[k] /\ t[b] < t[k]
      BY <1>4, <2>4, <2>5, <3>1, <3>2, <3>3
    <3> QED BY <1>3, <2>4, <3>4
  <2> QED BY <1>3, <2>4, <2>6, <2>7
<1>7. ~ (m < n)
  <2> SUFFICES ASSUME m < n PROVE FALSE
    OBVIOUS
  <2>1. PICK k : k = m+1
    OBVIOUS
  <2>2. k \in 1..n /\ \A a \in 1..m : a \in 1..n /\ a < k
    BY <1>3, <2>1
  <2>3. PICK a \in 1..m : s[a] = t[k]
    BY <1>5, <2>2
  <2>5. a \in Nat /\ a \in 1..m /\ a \in 1..n /\ a < k
    BY <1>3, <2>2
  <2>6. s[a] = t[a]
    BY <1>6, <2>5
  <2>7. t[a] < t[k]
    BY <1>4, <2>2, <2>5
  <2>4. t[a] = t[k] /\ t[a] < t[k]
    BY <2>3, <2>6, <2>7
  <2> QED BY <1>3, <2>2, <2>4
<1>8. ~ (n < m)
  <2> SUFFICES ASSUME n < m PROVE FALSE
    OBVIOUS
  <2>1. PICK k : k = n+1
    OBVIOUS
  <2>2. k \in 1..m /\ \A a \in 1..n : a \in 1..m /\ a < k
    BY <1>3, <2>1
  <2>3. PICK a \in 1..n : t[a] = s[k]
    BY <1>5, <2>2
  <2>5. a \in Nat /\ a \in 1..m /\ a \in 1..n /\ a < k
    BY <1>3, <2>2
  <2>6. t[a] = s[a]
    BY <1>6, <2>5
  <2>7. s[a] < s[k]
    BY <1>4, <2>2, <2>5
  <2>4. s[a] = s[k] /\ s[a] < s[k]
    BY <2>3, <2>6, <2>7
  <2> QED BY <1>3, <2>2, <2>4
<1>9. m = n
  BY <1>3, <1>7, <1>8
<1>10. \A k \in 1..m : s[k] = t[k]
  BY <1>3, <1>6, <1>9
<1> QED BY <1>1, <1>2, <1>9, <1>10, SeqEqual

LEMMA VisibleStep ==
  ASSUME Known, ChainInv, [Next]_vars
  PROVE  \/ Visible' = Visible /\ entry'.next_row_id = entry.next_row_id
         \/ /\ Finish /\ Visible' = Visible /\ Visible = live \union {entry.next_row_id}
            /\ entry'.next_row_id = entry.next_row_id + 1
         \/ /\ Visible = live /\ Visible' = live \union {entry.next_row_id}
            /\ entry'.next_row_id = entry.next_row_id
         \/ /\ Visible = live /\ \E id : Visible' = live \ {id}
            /\ entry'.next_row_id = entry.next_row_id
<1>1. SideInv /\ \E last : RightInv(last)
  BY DEF ChainInv, ChainOf
<1>2. PICK n, path, last : FramesInv /\ RightPart(n, path, last)
  BY <1>1 DEF RightInv
<1>3. /\ ~ Finish => entry'.next_row_id = entry.next_row_id
      /\ Finish => entry'.next_row_id = entry.next_row_id + 1
  BY EntryNext
<1>4. CASE LeafAppend
  <2>1. pc = "leaf" /\ pc' = "finish" /\ UNCHANGED <<entry, live>> /\ ~ Linking /\ ~ Linking'
    BY <1>4 DEF LeafAppend, Linking
  <2> QED BY <2>1 DEF Visible
<1>5. CASE Relink /\ Linking
  <2>1. pc' = "count" /\ UNCHANGED <<entry, live>> /\ ~ Linking'
    BY <1>5 DEF Relink, Linking
  <2> QED BY <1>5, <2>1 DEF Visible
<1>6. CASE \E h \in Handles : Delete(h)
  <2>1. pc = "idle" /\ pc' = "idle" /\ UNCHANGED entry /\ \E id : live' = live \ {id}
    BY <1>6 DEF Delete
  <2> QED BY <2>1 DEF Visible
<1>7. CASE ~ LeafAppend /\ ~ (Relink /\ Linking) /\ ~ \E h \in Handles : Delete(h)
  <2>1. (SplitLeaf => Linking') /\ (SplitInterior => ~ Linking')
    BY <1>1, <1>2, SideSplitLeaf, SideSplitInterior
  <2>2. Visible' = Visible
    BY <1>1, <1>7, <2>1, VisibleSame
  <2>3. Finish => Visible = live \union {entry.next_row_id}
    BY DEF Finish, Visible, Linking
  <2> QED BY <1>3, <2>2, <2>3
<1> QED BY <1>4, <1>5, <1>6, <1>7

(* The last row of an insert that has not returned.                        *)
LEMMA PendingLast ==
  ASSUME NEW s \in Seq(Nat), LeafInOrder(s), NEW id, ShownIn(s, id),
         \A x : ShownIn(s, x) => x = id \/ x < id
  PROVE  s # << >> /\ s[Len(s)] = id
<1>1. PICK n : n = Len(s)
  OBVIOUS
<1>2. n \in Nat /\ \A a \in 1..n : s[a] \in Nat
  BY <1>1, LenProperties, ElementOfSeq
<1>3. PICK a \in 1..n : s[a] = id
  BY <1>1 DEF ShownIn
<1>4. n \in 1..n
  BY <1>2, <1>3
<1>5. ShownIn(s, s[n])
  BY <1>1, <1>4 DEF ShownIn
<1>6. s[n] = id \/ s[n] < id
  BY <1>5
<1>7. a < n => s[a] < s[n]
  BY <1>1, <1>3, <1>4 DEF LeafInOrder
<1>8. a = n \/ a < n
  BY <1>2, <1>3
<1>9. s[n] = id
  BY <1>2, <1>3, <1>4, <1>6, <1>7, <1>8
<1>10. s # << >>
  BY <1>1, <1>4, EmptySeq
<1> QED BY <1>1, <1>9, <1>10

LEMMA NoPending ==
  ASSUME NEW s \in Seq(Nat), NEW id \in Nat, \A x : ShownIn(s, x) => x < id
  PROVE  ~ (s # << >> /\ s[Len(s)] = id)
<1>1. PICK n : n = Len(s)
  OBVIOUS
<1>2. SUFFICES ASSUME s # << >>, s[n] = id PROVE FALSE
  BY <1>1
<1>3. n \in 1..n
  BY <1>1, <1>2, LenProperties, EmptySeq
<1>4. ShownIn(s, id)
  BY <1>1, <1>2, <1>3 DEF ShownIn
<1>5. id < id
  BY <1>4
<1> QED BY <1>5

LEMMA RowInserted ==
  ASSUME NEW s \in Seq(Nat), NEW t \in Seq(Nat), LeafInOrder(s), LeafInOrder(t), NEW id \in Nat,
         \A x : ShownIn(s, x) => x < id,
         \A x : ShownIn(t, x) <=> ShownIn(s, x) \/ x = id
  PROVE  t = Append(s, id)
<1>1. PICK u : u = Append(s, id)
  OBVIOUS
<1>2. \A x : ShownIn(s, x) => x < id
  OBVIOUS
<1>3. /\ u \in Seq(Nat) /\ LeafInOrder(u)
      /\ \A x : ShownIn(u, x) <=> ShownIn(s, x) \/ x = id
  BY <1>1, <1>2, CellsAppended
<1>4. \A x : ShownIn(t, x) <=> ShownIn(u, x)
  BY <1>3
<1>5. t = u
  BY <1>3, <1>4, SameRows
<1> QED BY <1>1, <1>5

LEMMA RowDeleted ==
  ASSUME NEW s \in Seq(Nat), NEW t \in Seq(Nat), LeafInOrder(s), LeafInOrder(t), NEW id,
         \A x : ShownIn(t, x) <=> ShownIn(s, x) /\ x # id
  PROVE  t = s \/ \E i \in DOMAIN s : t = RemoveAt(s, i)
<1>1. CASE ~ ShownIn(s, id)
  <2>1. \A x : ShownIn(t, x) <=> ShownIn(s, x)
    BY <1>1
  <2> QED BY <2>1, SameRows
<1>2. CASE ShownIn(s, id)
  <2>1. PICK i \in 1..Len(s) : s[i] = id
    BY <1>2 DEF ShownIn
  <2>2. PICK u : u = RemoveAt(s, i)
    OBVIOUS
  <2>3. /\ u \in Seq(Nat) /\ LeafInOrder(u)
        /\ \A x : ShownIn(u, x) <=> ShownIn(s, x) /\ x # id
    BY <2>1, <2>2, CellsRemoved
  <2>4. \A x : ShownIn(t, x) <=> ShownIn(u, x)
    BY <2>3
  <2>5. t = u
    BY <2>3, <2>4, SameRows
  <2>6. i \in DOMAIN s
    BY <2>1, LenProperties
  <2> QED BY <2>2, <2>5, <2>6
<1> QED BY <1>1, <1>2

LEMMA StoreStep ==
  ASSUME Known, ChainInv, ScansShow, ScansShow', [Next]_vars
  PROVE  [Store!Next]_<<ScannedRows, entry.next_row_id>>
<1>1. PICK s : s = ScannedRows
  OBVIOUS
<1>2. PICK t : t = ScannedRows'
  OBVIOUS
<1>3. PICK N : N = entry.next_row_id
  OBVIOUS
<1>4. PICK M : M = entry'.next_row_id
  OBVIOUS
<1>5. PICK V : V = Visible
  OBVIOUS
<1>6. PICK W : W = Visible'
  OBVIOUS
<1>7. /\ s \in Seq(Nat) /\ LeafInOrder(s)
      /\ \A x : ShownIn(s, x) <=> x \in V
  BY <1>1, <1>5 DEF ScansShow
<1>8. /\ t \in Seq(Nat) /\ LeafInOrder(t)
      /\ \A x : ShownIn(t, x) <=> x \in W
  <2>1. /\ ScannedRows' \in Seq(Nat) /\ LeafInOrder(ScannedRows')
        /\ \A x : ShownIn(ScannedRows', x) <=> x \in Visible'
    BY DEF ScansShow
  <2> QED BY <1>2, <1>6, <2>1
<1>9. N \in Nat /\ \A x \in live : x < N
  <2>1. entry.next_row_id \in Nat
    BY DEF Known, TypeOK, Entry, RowId
  <2>2. \A x \in live : x < entry.next_row_id
    BY DEF ChainInv, SideInv, LiveBelow
  <2> QED BY <1>3, <2>1, <2>2
<1>10. CASE W = V /\ M = N
  <2>1. \A x : ShownIn(s, x) <=> ShownIn(t, x)
    BY <1>7, <1>8, <1>10
  <2>2. s = t
    BY <1>7, <1>8, <2>1, SameRows
  <2> QED BY <1>1, <1>2, <1>3, <1>4, <1>10, <2>2
<1>11. CASE W = V /\ V = live \union {N} /\ M = N + 1
  <2>1. \A x : ShownIn(s, x) <=> ShownIn(t, x)
    BY <1>7, <1>8, <1>11
  <2>2. s = t
    BY <1>7, <1>8, <2>1, SameRows
  <2>3. ShownIn(s, N) /\ \A x : ShownIn(s, x) => x = N \/ x < N
    BY <1>7, <1>9, <1>11
  <2>4. s # << >> /\ s[Len(s)] = N
    BY <1>7, <2>3, PendingLast
  <2>5. Store!Acknowledge
    BY <1>1, <1>2, <1>3, <1>4, <1>11, <2>2, <2>4 DEF Store!Acknowledge, Store!Pending, Store!Last
  <2> QED BY <2>5 DEF Store!Next
<1>12. CASE V = live /\ W = live \union {N} /\ M = N
  <2>1. \A x : ShownIn(s, x) => x < N
    BY <1>7, <1>9, <1>12
  <2>2. \A x : ShownIn(t, x) <=> ShownIn(s, x) \/ x = N
    BY <1>7, <1>8, <1>12
  <2>3. t = Append(s, N)
    BY <1>7, <1>8, <1>9, <2>1, <2>2, RowInserted
  <2>4. ~ (s # << >> /\ s[Len(s)] = N)
    BY <1>7, <1>9, <2>1, NoPending
  <2>5. Store!Insert
    BY <1>1, <1>2, <1>3, <1>4, <1>12, <2>3, <2>4 DEF Store!Insert, Store!Pending, Store!Last
  <2> QED BY <2>5 DEF Store!Next
<1>13. CASE V = live /\ (\E id : W = live \ {id}) /\ M = N
  <2>1. PICK id : W = live \ {id}
    BY <1>13
  <2>2. \A x : ShownIn(s, x) => x < N
    BY <1>7, <1>9, <1>13
  <2>3. \A x : ShownIn(t, x) <=> ShownIn(s, x) /\ x # id
    BY <1>7, <1>8, <1>13, <2>1
  <2>4. t = s \/ \E i \in DOMAIN s : t = RemoveAt(s, i)
    BY <1>7, <1>8, <2>3, RowDeleted
  <2>5. ~ (s # << >> /\ s[Len(s)] = N)
    BY <1>7, <1>9, <2>2, NoPending
  <2>6. CASE t = s
    BY <1>1, <1>2, <1>3, <1>4, <1>13, <2>6
  <2>7. CASE \E i \in DOMAIN s : t = RemoveAt(s, i)
    <3>1. Store!Delete
      BY <1>1, <1>2, <1>3, <1>4, <1>13, <2>5, <2>7 DEF Store!Delete, Store!Pending, Store!Last, RemoveAt,
               Store!RemoveAt
    <3> QED BY <3>1 DEF Store!Next
  <2> QED BY <2>4, <2>6, <2>7
<1>14. \/ W = V /\ M = N
       \/ W = V /\ V = live \union {N} /\ M = N + 1
       \/ V = live /\ W = live \union {N} /\ M = N
       \/ V = live /\ (\E id : W = live \ {id}) /\ M = N
  <2>1. \/ Visible' = Visible /\ entry'.next_row_id = entry.next_row_id
        \/ /\ Finish /\ Visible' = Visible /\ Visible = live \union {entry.next_row_id}
           /\ entry'.next_row_id = entry.next_row_id + 1
        \/ /\ Visible = live /\ Visible' = live \union {entry.next_row_id}
           /\ entry'.next_row_id = entry.next_row_id
        \/ /\ Visible = live /\ \E id : Visible' = live \ {id}
           /\ entry'.next_row_id = entry.next_row_id
    BY VisibleStep
  <2> QED BY <1>3, <1>4, <1>5, <1>6, <2>1
<1> QED BY <1>10, <1>11, <1>12, <1>13, <1>14

LEMMA StoreInit == ASSUME Init, ScansShow PROVE Store!Init
<1>1. PICK s : s = ScannedRows
  OBVIOUS
<1>2. Visible = {} /\ entry.next_row_id = 1
  BY DEF Init, Visible, INITIAL_ROW_ID
<1>3. s \in Seq(Nat) /\ \A x : ~ ShownIn(s, x)
  BY <1>1, <1>2 DEF ScansShow
<1>4. s = << >>
  <2> SUFFICES ASSUME s # << >> PROVE FALSE
    OBVIOUS
  <2>1. 1 \in 1..Len(s)
    BY <1>3, LenProperties, EmptySeq
  <2> QED BY <1>3, <2>1 DEF ShownIn
<1> QED BY <1>1, <1>2, <1>4 DEF Store!Init, Store!INITIAL_ROW_ID

(* Every way a table file behaves, read through a scan between any two     *)
(* writes, is a way RecordStore behaves: a write of a page that adds no    *)
(* row, moves one or changes pointers is invisible, a row appears and      *)
(* disappears in one step, and its id is used up once it has appeared.     *)
THEOREM TableIsRecordStore ==
  ASSUME OneTableObject PROVE Spec => ImplementsRecordStore
<1>1. Spec => [](Known /\ ChainInv)
  BY ChainInvariant
<1>2. Known /\ ChainInv => ScansShow
  BY ChainScans
<1>3. Init /\ ScansShow => Store!Init
  BY StoreInit
<1>4. Known /\ ChainInv /\ ScansShow /\ ScansShow' /\ [Next]_vars
        => [Store!Next]_<<ScannedRows, entry.next_row_id>>
  BY StoreStep
<1> QED BY <1>1, <1>2, <1>3, <1>4, PTL DEF Spec, ImplementsRecordStore, Store!Spec
=============================================================================
