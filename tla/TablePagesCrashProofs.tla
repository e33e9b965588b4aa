----------------------- MODULE TablePagesCrashProofs ------------------------
(***************************************************************************)
(* A process that may be killed, and a table that is then appended to and  *)
(* deleted from: the rows that statements have acknowledged are in a line  *)
(* of leaves that begins at the leftmost one.  Either the way of an append *)
(* leads to the last leaf of this line, and every page number that is not  *)
(* counted yet is free; or the table is shut: the way ends at a leaf that  *)
(* has the next row id already, or at an interior page without a rightmost *)
(* child, and no append goes through any more.                             *)
(***************************************************************************)
EXTENDS TablePagesScanProofs

-----------------------------------------------------------------------------
(* The line of leaves, the way of an append, and how far one has come.     *)

(* All pages of a path have lower numbers.                                 *)
Under(k, n, q) == \A i \in 1..n : q[i] < k

(* Leaves, each the right sibling of the one before, wherever the last of  *)
(* them goes on to.                                                        *)
LeafLine(pages, c, chain) ==
  /\ PathIn(pages, c, chain)
  /\ \A i \in 1..c : pages[chain[i]].type = "leaf"
  /\ \A i \in 1..c-1 : pages[chain[i]].right = chain[i+1]

(* It begins at the leftmost leaf and holds all acknowledged rows.         *)
Home(c, chain, n, left) ==
  /\ LeafLine(file, c, chain) /\ LeftPath(file, n, left) /\ left[n] = chain[1]
  /\ \A id \in live : Shown(c, CellsOf(file, c, chain), id)

(* No append gets past such a page (table_leaf_page.cpp:335-338).          *)
Stops(page) ==
  IF page.type = "leaf" THEN page.cells # << >> /\ Last(page.cells) >= entry.next_row_id
  ELSE page.right = NULL_PAGE_NO

(* The last leaf of the line takes the next row, and the page numbers from *)
(* the count on are free.                                                  *)
Open(m, path, c, chain, n, left) ==
  /\ path[m] = chain[c] /\ RowsBelow(file[chain[c]], entry.next_row_id)
  /\ Under(entry.page_count, m, path) /\ Under(entry.page_count, c, chain)
  /\ Under(entry.page_count, n, left)

(* What is on disk between statements, and what a kill leaves.             *)
Stands(m, path, c, chain, n, left) ==
  /\ Home(c, chain, n, left) /\ RightPath(file, 0, m, path)
  /\ Stops(file[path[m]]) \/ Open(m, path, c, chain, n, left)

(* The first page number that is neither in use nor about to be counted.   *)
Top == PageCount + IF pc \in {"relink", "count", "count_root"} THEN 1 ELSE 0

(* The half of a split that moves is a path of its own, to a new leaf.     *)
Parting(r, q, c, chain) ==
  /\ RightPath(file, split.no, r, q) /\ Under(Top, r, q) /\ Off(c, chain, q[r])
  /\ file[q[r]].type = "leaf" /\ file[q[r]].cells = <<entry.next_row_id>>
  /\ \A k \in 1..Len(frames) : Off(r, q, frames[k].no)
  /\ IF Linking THEN q[r] = split.no /\ chain[c] = Current.no ELSE file[chain[c]].right = q[r]

(* Between the two writes of a split, and until its parent knows of it.    *)
Parted(m, path, c, chain, n, left) ==
  /\ Stands(m, path, c, chain, n, left)
  /\ Under(Top, m, path) /\ Under(Top, c, chain) /\ Under(Top, n, left)
  /\ \A k \in 1..Len(frames) : frames[k].no < Top
  /\ \E r, q : Parting(r, q, c, chain)

(* An append that has only to count what it has written.                   *)
Ending(m, path, c, chain, n, left) ==
  /\ Home(c, chain, n, left) /\ RightPath(file, 0, m, path) /\ path[m] = chain[c]
  /\ ShownIn(file[chain[c]].cells, entry.next_row_id)
  /\ Stops(file[chain[c]]) /\ RowsBelow(file[chain[c]], entry.next_row_id + 1)
  /\ Under(Top, m, path) /\ Under(Top, c, chain) /\ Under(Top, n, left)

(* The call stack of a descent.                                            *)
OnTheWay(m, path) ==
  pc \in {"descend", "leaf"} => \A k \in 1..Len(frames) : k \in 1..m /\ frames[k].no = path[k]

(* How far an append has come decides which of these holds.                *)
Phase(m, path, c, chain, n, left) ==
  /\ pc \in {"idle", "descend", "leaf"} =>
       Stands(m, path, c, chain, n, left) /\ OnTheWay(m, path)
  /\ pc \in {"relink", "count", "return", "root"} => Parted(m, path, c, chain, n, left)
  /\ pc \in {"count_root", "finish"} => Ending(m, path, c, chain, n, left)

(* The other parts of the invariant are those of TablePagesProofs.         *)
LosesRight == pc = "relink" /\ ~ Linking => Current.page.right = NULL_PAGE_NO
KillSide == FramesInv /\ Changed /\ LosesRight /\ Moved /\ SplitRow
Sound ==
  /\ TypeOK /\ FramesOK /\ PointersInv /\ EntryIsCurrent /\ IsFiniteSet(DOMAIN file)
  /\ entry.next_row_id # 0 /\ LiveBelow
KillInv ==
  /\ Sound /\ KillSide
  /\ \E m, path, c, chain, n, left : Phase(m, path, c, chain, n, left)

-----------------------------------------------------------------------------
(* What a write leaves of the line of leaves and of the paths to it.       *)

(* The leaves of the line.                                                 *)
LEMMA LinePlaces ==
  ASSUME NEW pages, NEW c, NEW chain, LeafLine(pages, c, chain)
  PROVE  /\ c \in Nat /\ c # 0 /\ c \in 1..c /\ 1 \in 1..c /\ PathIn(pages, c, chain)
         /\ \A i \in 1..c : chain[i] \in DOMAIN pages /\ pages[chain[i]].type = "leaf"
         /\ \A i \in 1..c-1 : i \in 1..c /\ i+1 \in 1..c /\ pages[chain[i]].right = chain[i+1]
         /\ \A i, j \in 1..c : chain[i] = chain[j] => i = j
BY DEF LeafLine, PathIn, Different

(* Such a line stays one while its leaves keep their right siblings.       *)
LEMMA LineKept ==
  ASSUME NEW pages, NEW c, NEW chain, LeafLine(pages, c, chain),
         NEW new, DOMAIN pages \subseteq DOMAIN new,
         \A i \in 1..c : new[chain[i]].type = "leaf",
         \A i \in 1..c-1 : new[chain[i]].right = pages[chain[i]].right
  PROVE  LeafLine(new, c, chain)
<1>1. PathIn(new, c, chain)
  BY PathKept DEF LeafLine
<1> QED BY <1>1, LinePlaces DEF LeafLine

(* The leftmost path stays if the write hits none of its pages.            *)
LEMMA LeftPathOff ==
  ASSUME NEW n, NEW left, LeftPath(file, n, left),
         NEW page_no, NEW page, Write(page_no, page), Off(n, left, page_no)
  PROVE  LeftPath(file', n, left)
<1>1. /\ DOMAIN file \subseteq DOMAIN file'
      /\ \A p \in DOMAIN file : p # page_no => file'[p] = file[p]
  BY WriteEffect
<1>2. /\ n \in Nat \ {0} /\ left \in [1..n -> DOMAIN file] /\ left[1] = 0
      /\ \A i \in 1..n-1 : i \in 1..n /\ BeginsWith(file[left[i]], left[i+1])
  BY DEF LeftPath, PathIn
<1>3. \A i \in 1..n-1 : file'[left[i]] = file[left[i]]
  BY <1>1, <1>2 DEF Off
<1>4. PathIn(file', n, left)
  BY <1>1, PathKept DEF LeftPath
<1> QED BY <1>2, <1>3, <1>4 DEF LeftPath

(* A page that is off the line of leaves.                                  *)
LEMMA HomeAside ==
  ASSUME NEW c, NEW chain, NEW n, NEW left, Home(c, chain, n, left), UNCHANGED live,
         NEW page_no, NEW page, Write(page_no, page), Off(c, chain, page_no),
         \/ Off(n, left, page_no)
         \/ \A child : BeginsWith(file[page_no], child) => BeginsWith(page, child)
  PROVE  Home(c, chain, n, left)' /\ file'[chain[c]] = file[chain[c]]
<1>1. /\ DOMAIN file \subseteq DOMAIN file'
      /\ \A p \in DOMAIN file : p # page_no => file'[p] = file[p]
  BY WriteEffect
<1>2. LeafLine(file, c, chain) /\ LeftPath(file, n, left) /\ left[n] = chain[1]
      /\ \A id \in live : Shown(c, CellsOf(file, c, chain), id)
  BY DEF Home
<1>3. \A i \in 1..c : file'[chain[i]] = file[chain[i]]
  BY <1>1, <1>2, LinePlaces DEF Off
<1>4. \A i \in 1..c-1 : file'[chain[i]] = file[chain[i]]
  BY <1>2, <1>3, LinePlaces
<1>5. LeafLine(file', c, chain)
  BY <1>1, <1>2, <1>3, <1>4, LineKept, LinePlaces
<1>6. CellsOf(file', c, chain) = CellsOf(file, c, chain)
  BY <1>3 DEF CellsOf
<1>7. LeftPath(file', n, left)
  BY <1>2, LeftPathOff, LeftPathStays
<1>8. file'[chain[c]] = file[chain[c]]
  BY <1>2, <1>3, LinePlaces
<1> QED BY <1>2, <1>5, <1>6, <1>7, <1>8 DEF Home

(* A leaf that keeps the rows in it, and its right sibling unless it is    *)
(* the last one.                                                           *)
LEMMA HomeRewritten ==
  ASSUME NEW c, NEW chain, NEW n, NEW left, Home(c, chain, n, left),
         NEW p \in DOMAIN file, NEW page, Write(p, page),
         file[p].type = "leaf", page.type = "leaf",
         p = chain[c] \/ page.right = file[p].right, live' \subseteq live,
         \A id \in live' : ShownIn(file[p].cells, id) => ShownIn(page.cells, id)
  PROVE  Home(c, chain, n, left)'
<1>1. /\ DOMAIN file \subseteq DOMAIN file' /\ file'[p] = page
      /\ \A r \in DOMAIN file : r # p => file'[r] = file[r]
  BY WriteEffect
<1>2. LeafLine(file, c, chain) /\ LeftPath(file, n, left) /\ left[n] = chain[1]
      /\ \A id \in live : Shown(c, CellsOf(file, c, chain), id)
  BY DEF Home
<1>3. /\ \A i \in 1..c : chain[i] \in DOMAIN file /\ file[chain[i]].type = "leaf"
      /\ c \in Nat /\ c \in 1..c /\ \A i \in 1..c-1 : i \in 1..c
      /\ \A i, j \in 1..c : chain[i] = chain[j] => i = j
  BY <1>2, LinePlaces
<1>4. \A i \in 1..c : file'[chain[i]].type = "leaf"
  BY <1>1, <1>3
<1>5. ASSUME NEW i \in 1..c-1 PROVE file'[chain[i]].right = file[chain[i]].right
  <2>1. i \in 1..c /\ i # c
    BY <1>3
  <2>2. chain[i] # chain[c]
    BY <1>3, <2>1
  <2> QED BY <1>1, <1>3, <2>1, <2>2
<1>6. LeafLine(file', c, chain)
  BY <1>1, <1>2, <1>4, <1>5, LineKept
<1>7. LeftPath(file', n, left)
  BY <1>2, LeftPathStays
<1>8. ASSUME NEW id \in live' PROVE Shown(c, CellsOf(file', c, chain), id)
  <2>1. PICK i \in 1..c : ShownIn(file[chain[i]].cells, id)
    BY <1>2 DEF Shown, CellsOf
  <2>2. ShownIn(file'[chain[i]].cells, id)
    BY <1>1, <1>3, <2>1
  <2> QED BY <2>2 DEF Shown, CellsOf
<1> QED BY <1>2, <1>6, <1>7, <1>8 DEF Home

(* A page number above all of these.                                       *)
LEMMA UnderOff ==
  ASSUME NEW k \in Int, NEW n, NEW q, Under(k, n, q), \A i \in 1..n : q[i] \in Nat
  PROVE  Off(n, q, k)
BY DEF Under, Off

(* And so is every higher number.                                          *)
LEMMA UnderMore ==
  ASSUME NEW k \in Int, NEW l \in Int, k <= l, NEW n, NEW q, Under(k, n, q), \A i \in 1..n : q[i] \in Nat
  PROVE  Under(l, n, q)
BY DEF Under

-----------------------------------------------------------------------------
(* What holds of a table whatever the process was killed in.               *)

(* A step writes one page or none.                                         *)
LEMMA FileWritten ==
  ASSUME [CrashNext]_vars
  PROVE  UNCHANGED file \/ \E page_no, page : Write(page_no, page)
<1>1. CASE \E h \in Handles : Delete(h)
  BY <1>1 DEF Delete
<1>2. CASE AppendStep
  BY <1>2 DEF AppendStep, Descend, ReadFails, LeafThrows, LeafAppend, SplitLeaf, Relink, CountSplit,
              CountRoot, AbsorbSplit, SplitInterior, MoveRoot, NewRoot, Finish
<1>3. CASE UNCHANGED vars \/ Crash \/ \E h \in Handles, length \in CellLengths : BeginAppend(h, length)
  BY <1>3 DEF vars, Crash, BeginAppend
<1> QED BY <1>1, <1>2, <1>3 DEF CrashNext, Next

(* So the file stays finite.                                               *)
LEMMA FiniteStep ==
  ASSUME IsFiniteSet(DOMAIN file), [CrashNext]_vars PROVE IsFiniteSet(DOMAIN file')
<1>1. CASE UNCHANGED file
  BY <1>1
<1>2. ASSUME NEW page_no, NEW page, Write(page_no, page) PROVE IsFiniteSet(DOMAIN file')
  <2>1. DOMAIN file' = DOMAIN file \union {page_no}
    BY <1>2, WriteEffect
  <2> QED BY <2>1, FS_AddElement
<1> QED BY <1>1, <1>2, FileWritten

(* Acknowledged rows have ids below the next one.                          *)
LEMMA NextId ==
  ASSUME Sound
  PROVE  entry.next_row_id \in Nat /\ entry.page_count \in Nat
         /\ live \subseteq Nat /\ \A id \in live : id < entry.next_row_id
BY DEF Sound, TypeOK, Entry, RowId, LiveBelow

(* The id moves on, and its row is acknowledged, in one step: Finish.      *)
LEMMA NextIdStep ==
  ASSUME Sound, [CrashNext]_vars
  PROVE  /\ ~ Finish => entry'.next_row_id = entry.next_row_id /\ live' \subseteq live
         /\ Finish => /\ entry'.next_row_id = entry.next_row_id + 1
                      /\ live' = live \union {entry.next_row_id}
<1>0. entry \in Entry /\ entry.next_row_id \in Nat
  BY DEF Sound, TypeOK, Entry, RowId
<1>1. pc # "idle" => RowIdToAppend = entry.next_row_id /\ op.own.next_row_id = entry.next_row_id
  BY DEF Sound, EntryIsCurrent
<1>2. CASE Finish
  <2>1. pc = "finish" /\ entry' = [entry EXCEPT !.next_row_id = RowIdToAppend + 1]
        /\ live' = live \union {RowIdToAppend}
    BY <1>2 DEF Finish
  <2>2. entry'.next_row_id = RowIdToAppend + 1
    BY <1>0, <2>1 DEF Entry
  <2> QED BY <1>1, <1>2, <2>1, <2>2
<1>3. CASE ~ Finish
  <2>1. live' \subseteq live
    BY <1>3 DEF CrashNext, Crash, Next, AppendStep, BeginAppend, Descend, ReadFails, LeafThrows,
                LeafAppend, SplitLeaf, Relink, CountSplit, CountRoot, AbsorbSplit, SplitInterior,
                MoveRoot, NewRoot, Delete, vars
  <2>2. CASE CountSplit \/ CountRoot
    <3>1. entry' = [entry EXCEPT !.page_count = PageCount + 1]
      BY <2>2 DEF CountSplit, CountRoot, CountPage
    <3>2. entry'.next_row_id = entry.next_row_id
      BY <1>0, <3>1 DEF Entry
    <3> QED BY <1>3, <2>1, <3>2
  <2>3. CASE NewRoot
    <3>1. entry' \in {op.own, entry} /\ pc # "idle"
      BY <2>3, NewRootEntry DEF Sound, NewRoot
    <3> QED BY <1>1, <1>3, <2>1, <3>1
  <2>4. CASE ~ CountSplit /\ ~ CountRoot /\ ~ NewRoot
    <3>1. UNCHANGED entry
      BY <1>3, <2>4 DEF CrashNext, Crash, Next, AppendStep, BeginAppend, Descend, ReadFails, LeafThrows,
                LeafAppend, SplitLeaf, Relink, AbsorbSplit, SplitInterior, MoveRoot, Delete, vars
    <3> QED BY <1>3, <2>1, <3>1
  <2> QED BY <2>2, <2>3, <2>4
<1> QED BY <1>2, <1>3

(* Pages, pointers and the catalog row stay sound through every step.      *)
LEMMA SoundStep ==
  ASSUME OneTableObject, Sound, [CrashNext]_vars PROVE Sound'
<1>1. TypeOK' /\ FramesOK' /\ PointersInv'
  BY PointersInvStep DEF Sound
<1>2. IsFiniteSet(DOMAIN file')
  BY FiniteStep DEF Sound
<1>3. EntryIsCurrent'
  <2>1. CASE Crash
    <3>1. pc' = "idle" /\ UNCHANGED entry /\ table' = [h \in Handles |-> Opened]
      BY <2>1 DEF Crash, Throw
    <3>2. \A h \in Schema : h \in Handles /\ table'[h] = Opened
      BY <3>1, WorkloadAssumption
    <3> QED BY <3>1, <3>2 DEF EntryIsCurrent, Opened
  <2>2. CASE [Next]_vars
    BY <2>2, EntryStep DEF Sound
  <2> QED BY <2>1, <2>2 DEF CrashNext
<1>4. entry'.next_row_id # 0 /\ LiveBelow'
  <2>1. entry.next_row_id \in Nat /\ live \subseteq Nat /\ \A id \in live : id < entry.next_row_id
    BY NextId
  <2>2. CASE Finish
    <3>1. entry'.next_row_id = entry.next_row_id + 1 /\ live' = live \union {entry.next_row_id}
      BY <2>2, NextIdStep
    <3>2. entry'.next_row_id # 0
      BY <2>1, <3>1
    <3>3. \A id \in live' : id < entry'.next_row_id
      BY <2>1, <3>1
    <3> QED BY <3>2, <3>3 DEF LiveBelow
  <2>3. CASE ~ Finish
    <3>1. entry'.next_row_id = entry.next_row_id /\ live' \subseteq live
      BY <2>3, NextIdStep
    <3> QED BY <2>1, <3>1 DEF LiveBelow, Sound
  <2> QED BY <2>2, <2>3
<1> QED BY <1>1, <1>2, <1>3, <1>4 DEF Sound

-----------------------------------------------------------------------------
(* Statements that begin or end, and kills, which change nothing on disk.  *)

(* An append that has only to count leaves the table standing.             *)
LEMMA EndingStands ==
  ASSUME NEW m, NEW path, NEW c, NEW chain, NEW n, NEW left, Ending(m, path, c, chain, n, left)
  PROVE  Stands(m, path, c, chain, n, left)
BY DEF Ending, Stands

(* So does an append at any other point.                                   *)
LEMMA PhaseStands ==
  ASSUME Sound, NEW m, NEW path, NEW c, NEW chain, NEW n, NEW left, Phase(m, path, c, chain, n, left)
  PROVE  Stands(m, path, c, chain, n, left)
<1>1. \/ pc \in {"idle", "descend", "leaf"} \/ pc \in {"relink", "count", "return", "root"}
      \/ pc \in {"count_root", "finish"}
  BY DEF Sound, TypeOK
<1> QED BY <1>1, EndingStands DEF Phase, Parted

(* What stands on disk does so while nothing there changes.                *)
LEMMA StandsSame ==
  ASSUME UNCHANGED <<file, entry, live>>,
         NEW m, NEW path, NEW c, NEW chain, NEW n, NEW left, Stands(m, path, c, chain, n, left)
  PROVE  Stands(m, path, c, chain, n, left)'
BY DEF Stands, Home, Stops, Open

(* The invariant after such a step.                                        *)
LEMMA KillQuiet ==
  ASSUME KillInv, UNCHANGED <<file, entry, live>>, Sound',
         pc' = "idle" \/ (pc' = "descend" /\ frames' = << >>)
  PROVE  KillInv'
<1>1. PICK m, path, c, chain, n, left : Phase(m, path, c, chain, n, left)
  BY DEF KillInv
<1>2. Stands(m, path, c, chain, n, left)'
  BY <1>1, PhaseStands, StandsSame DEF KillInv
<1>3. pc' = "descend" => Len(frames') = 0
  BY EmptySeq
<1>4. OnTheWay(m, path)'
  BY <1>3 DEF OnTheWay
<1>5. Phase(m, path, c, chain, n, left)'
  BY <1>2, <1>4 DEF Phase
<1>6. KillSide'
  BY <1>3 DEF KillSide, FramesInv, FramesLinked, FramesCopied, Changed, LosesRight, Moved, SplitRow,
              Whole, Linking
<1> QED BY <1>5, <1>6 DEF KillInv

-----------------------------------------------------------------------------
(* The descent of an append, and the leaf at its end.                      *)

(* The pages of a rightmost path.                                          *)
LEMMA WayPlaces ==
  ASSUME NEW from, NEW m, NEW path, RightPath(file, from, m, path)
  PROVE  /\ m \in Nat \ {0} /\ m \in 1..m /\ 1 \in 1..m /\ path[1] = from
         /\ path \in [1..m -> DOMAIN file] /\ \A i \in 1..m : path[i] \in DOMAIN file
         /\ \A i \in 1..m-1 : /\ i \in 1..m /\ i+1 \in 1..m
                              /\ file[path[i]].type = "interior" /\ file[path[i]].right = path[i+1]
         /\ \A i, j \in 1..m : path[i] = path[j] => i = j
BY DEF RightPath, PathIn, EndsWith, Different

(* The pages of the line and of the leftmost path.                         *)
LEMMA HomePlaces ==
  ASSUME NEW c, NEW chain, NEW n, NEW left, Home(c, chain, n, left)
  PROVE  /\ LeafLine(file, c, chain) /\ chain[c] \in DOMAIN file /\ file[chain[c]].type = "leaf"
         /\ \A i \in 1..c : chain[i] \in DOMAIN file
         /\ n \in Nat \ {0} /\ \A i \in 1..n : left[i] \in DOMAIN file
BY LinePlaces DEF Home, LeftPath, PathIn

(* getPage, one page further down (table_interior_page.cpp:118-120).       *)
LEMMA KillDescend ==
  ASSUME KillInv, Descend, Sound' PROVE KillInv'
<1>1. PICK m, path, c, chain, n, left : Phase(m, path, c, chain, n, left)
  BY DEF KillInv
<1>2. /\ pc = "descend" /\ UNCHANGED <<file, entry, live>> /\ pc' \in {"leaf", "descend"}
      /\ frames' = Append(frames, [no |-> PageToVisit, page |-> file[PageToVisit]])
      /\ PageToVisit \in DOMAIN file
  BY DEF Descend, CanRead
<1>3. Stands(m, path, c, chain, n, left)
      /\ \A k \in 1..Len(frames) : k \in 1..m /\ frames[k].no = path[k]
  BY <1>1, <1>2 DEF Phase, OnTheWay
<1>4. PICK f : f = [no |-> PageToVisit, page |-> file[PageToVisit]]
  OBVIOUS
<1>5. TypeOK /\ FramesOK /\ PointersInv /\ frames \in Seq(Frame) /\ DOMAIN file \subseteq Nat
      /\ \A p \in DOMAIN file : file[p] \in Page
  BY DEF KillInv, Sound, TypeOK
<1>6. f \in Frame /\ f.no = PageToVisit /\ f.page = file[PageToVisit]
  BY <1>2, <1>4, <1>5 DEF Frame
<1>7. /\ Len(frames) \in Nat /\ Len(frames') = Len(frames) + 1 /\ frames'[Len(frames)+1] = f
      /\ \A k \in 1..Len(frames) : frames'[k] = frames[k]
  BY <1>2, <1>4, <1>5, <1>6, AppendProperties, LenProperties
<1>8. \A k \in 1..Len(frames') : k \in 1..Len(frames) \/ k = Len(frames)+1
  BY <1>7
<1>9. /\ m \in Nat /\ path[1] = 0 /\ 1 \in 1..m /\ \A i \in 1..m : path[i] \in DOMAIN file
      /\ \A i \in 1..m-1 : i+1 \in 1..m /\ file[path[i]].right = path[i+1]
  BY <1>3, WayPlaces DEF Stands
<1>10. \A k \in 1..Len(frames) : file[frames[k].no] = frames[k].page
  BY <1>2 DEF KillInv, KillSide, FramesInv, FramesCopied
<1>11. Len(frames)+1 \in 1..m /\ PageToVisit = path[Len(frames)+1]
  <2>1. CASE frames = << >>
    BY <1>9, <2>1, EmptySeq DEF PageToVisit
  <2>2. CASE frames # << >>
    <3>1. /\ Current = frames[Len(frames)] /\ Len(frames) \in 1..Len(frames)
          /\ Current.page \in Page
      BY <1>5, <2>2, TopFrame
    <3>2. Current.page.type = "interior" /\ Current.page \in InteriorPage
      BY <1>2, <1>5, <3>1, PageKinds DEF FramesOK
    <3>3. RowIdToAppend = entry.next_row_id /\ RowIdToAppend \in Nat
          /\ PointersOK(Current.page, DOMAIN file, RowIdToAppend)
      BY <1>2, <1>5, <3>1, Busy DEF PointersInv, NextIsCurrent, FramePointers, RowId
    <3>4. PageToVisit = Current.page.right
      BY <2>2, <3>2, <3>3, GoesRight DEF PageToVisit
    <3>5. PICK k : k = Len(frames)
      OBVIOUS
    <3>6. k \in 1..m /\ file[path[k]] = Current.page
      BY <1>3, <1>10, <3>1, <3>5
    <3>7. k # m
      <4>1. SUFFICES ASSUME k = m PROVE FALSE
        OBVIOUS
      <4>2. file[path[m]].type = "interior" /\ file[path[m]].right = PageToVisit
        BY <3>2, <3>4, <3>6, <4>1
      <4>3. path[m] # chain[c]
        BY <1>3, <4>2, HomePlaces DEF Stands
      <4>4. file[path[m]].right = NULL_PAGE_NO
        BY <1>3, <4>2, <4>3 DEF Stands, Stops, Open
      <4> QED BY <1>2, <1>5, <4>2, <4>4 DEF NULL_PAGE_NO
    <3>8. k \in 1..m-1 /\ k+1 \in 1..m
      BY <1>9, <3>6, <3>7
    <3> QED BY <1>9, <3>4, <3>5, <3>6, <3>8
  <2> QED BY <2>1, <2>2
<1>12. \A k \in 1..Len(frames') : /\ k \in 1..m /\ frames'[k].no = path[k]
                                  /\ file'[frames'[k].no] = frames'[k].page
  BY <1>2, <1>3, <1>6, <1>7, <1>8, <1>10, <1>11
<1>13. OnTheWay(m, path)' /\ Stands(m, path, c, chain, n, left)'
  BY <1>2, <1>3, <1>12, StandsSame DEF OnTheWay
<1>14. Phase(m, path, c, chain, n, left)'
  BY <1>2, <1>13 DEF Phase
<1>15. KillSide'
  BY <1>2, <1>12 DEF KillSide, FramesInv, FramesLinked, FramesCopied, Changed, LosesRight, Moved,
                     SplitRow, Whole, Linking
<1> QED BY <1>14, <1>15 DEF KillInv

(* An append that goes through has come to the last leaf of the line.      *)
LEMMA AtTheStop ==
  ASSUME Sound, FramesInv, pc = "leaf", NEW m, NEW path, NEW c, NEW chain, NEW n, NEW left,
         Stands(m, path, c, chain, n, left), OnTheWay(m, path)
  PROVE  /\ Current.no = path[m] /\ file[path[m]] = Current.page /\ Current.page \in LeafPage
         /\ Len(frames) = m /\ Current = frames[Len(frames)] /\ Len(frames) \in 1..Len(frames)
         /\ RowIdToAppend = entry.next_row_id /\ entry.next_row_id \in RowId
         /\ PageCount = entry.page_count /\ PageCount \in Nat
         /\ ~ RowIdsDecrease => Open(m, path, c, chain, n, left)
<1>1. TypeOK /\ EntryIsCurrent
  BY DEF Sound
<1>2. /\ Current = frames[Len(frames)] /\ Len(frames) \in 1..Len(frames) /\ Len(frames) \in Nat
      /\ Current.page \in LeafPage /\ Current.page.type = "leaf"
  BY <1>1, Busy, TopFrame, PageKinds DEF TypeOK
<1>3. PICK k : k = Len(frames)
  OBVIOUS
<1>4. k \in 1..m /\ Current.no = path[k] /\ file[path[k]] = Current.page
  BY <1>2, <1>3 DEF OnTheWay, FramesInv, FramesCopied
<1>5. m \in Nat /\ \A i \in 1..m-1 : file[path[i]].type = "interior"
  BY WayPlaces DEF Stands
<1>6. k = m
  BY <1>2, <1>4, <1>5
<1>7. RowIdToAppend = entry.next_row_id /\ PageCount = entry.page_count
  BY <1>1 DEF EntryIsCurrent
<1>8. entry.next_row_id \in RowId /\ PageCount \in Nat
  BY <1>1, Busy DEF TypeOK, Entry
<1>9. ~ RowIdsDecrease => ~ Stops(file[path[m]])
  BY <1>2, <1>4, <1>6, <1>7 DEF RowIdsDecrease, Stops
<1> QED BY <1>2, <1>3, <1>4, <1>6, <1>7, <1>8, <1>9 DEF Stands

(* The row goes to the last leaf of the line.                              *)
LEMMA KillLeafAppend ==
  ASSUME KillInv, LeafAppend, Sound' PROVE KillInv'
<1>1. PICK m, path, c, chain, n, left : Phase(m, path, c, chain, n, left)
  BY DEF KillInv
<1>2. pc = "leaf" /\ pc' = "finish" /\ ~ RowIdsDecrease /\ UNCHANGED <<entry, table, op, live>>
  BY DEF LeafAppend
<1>3. Stands(m, path, c, chain, n, left) /\ OnTheWay(m, path)
  BY <1>1, <1>2 DEF Phase
<1>4. PICK id \in Nat : id = entry.next_row_id
  BY NextId DEF KillInv
<1>5. /\ Current.no = path[m] /\ file[path[m]] = Current.page /\ Current.page \in LeafPage
      /\ RowIdToAppend = id /\ id \in RowId /\ PageCount = entry.page_count /\ PageCount \in Nat
      /\ Open(m, path, c, chain, n, left)
  BY <1>2, <1>3, <1>4, AtTheStop DEF KillInv, KillSide
<1>6. PICK page : page = AppendCell(Current.page, id, op.length)
  OBVIOUS
<1>7. PICK cells : cells = Current.page.cells
  OBVIOUS
<1>8. cells \in Seq(RowId) /\ Current.page.type = "leaf"
  BY <1>5, <1>7 DEF LeafPage
<1>9. /\ page.type = "leaf" /\ page.right = Current.page.right /\ page.cells = Append(cells, id)
  BY <1>5, <1>6, <1>7 DEF AppendCell, LeafPage
<1>10. /\ Append(cells, id) \in Seq(RowId) /\ Len(Append(cells, id)) = Len(cells)+1 /\ Len(cells) \in Nat
       /\ Append(cells, id)[Len(cells)+1] = id
       /\ \A i \in 1..Len(cells) : Append(cells, id)[i] = cells[i]
  BY <1>5, <1>8, AppendProperties, LenProperties
<1>11. \A x : ShownIn(cells, x) => ShownIn(page.cells, x)
  <2> SUFFICES ASSUME NEW i \in 1..Len(cells) PROVE i \in 1..Len(page.cells) /\ page.cells[i] = cells[i]
    BY DEF ShownIn
  <2> QED BY <1>9, <1>10
<1>12. ShownIn(page.cells, id)
  <2>1. Len(cells)+1 \in 1..Len(page.cells)
    BY <1>9, <1>10
  <2> QED BY <1>9, <1>10, <2>1 DEF ShownIn
<1>13. page.cells # << >> /\ Last(page.cells) = id
  BY <1>9, <1>10, EmptySeq DEF Last
<1>14. PICK p : p = path[m]
  OBVIOUS
<1>15. p = chain[c] /\ p \in DOMAIN file /\ Write(p, page) /\ file[p] = Current.page
       /\ Home(c, chain, n, left) /\ RightPath(file, 0, m, path)
  BY <1>3, <1>5, <1>6, <1>14, HomePlaces DEF Stands, Open, LeafAppend
<1>16. file'[p] = page
  BY <1>15, WriteEffect
<1>17. Home(c, chain, n, left)'
  <2>1. live' \subseteq live /\ \A x \in live' : ShownIn(file[p].cells, x) => ShownIn(page.cells, x)
    BY <1>2, <1>7, <1>11, <1>15
  <2> QED BY <1>8, <1>9, <1>15, <2>1, HomeRewritten
<1>18. RightPath(file', 0, m, path)
  BY <1>8, <1>15, RightPathStays
<1>19. RowsBelow(page, id+1)
  <2>1. RowsBelow(Current.page, id) /\ op.length \in Nat /\ Current.page \in Page
    BY <1>2, <1>4, <1>5, <1>15, Busy DEF Open, KillInv, Sound, Page
  <2>2. RowsBelow(Current.page, id+1)
    BY <2>1, RowsBelowMore
  <2> QED BY <1>5, <1>6, <2>1, <2>2, RowsBelowAppend
<1>20. Stops(page)'
  BY <1>2, <1>4, <1>9, <1>13 DEF Stops
<1>21. Top' = entry.page_count
  BY <1>2, <1>5 DEF Top, PageCount
<1>22. Ending(m, path, c, chain, n, left)'
  <2>1. path[m] = chain[c] /\ file'[chain[c]] = page /\ entry' = entry
    BY <1>2, <1>14, <1>15, <1>16
  <2>2. Under(Top', m, path) /\ Under(Top', c, chain) /\ Under(Top', n, left)
    BY <1>5, <1>21 DEF Open
  <2>3. ShownIn(file'[chain[c]].cells, entry'.next_row_id) /\ Stops(file[chain[c]])'
        /\ RowsBelow(file'[chain[c]], entry'.next_row_id + 1)
    BY <1>4, <1>12, <1>19, <1>20, <2>1
  <2> QED BY <1>17, <1>18, <2>1, <2>2, <2>3 DEF Ending
<1>23. Phase(m, path, c, chain, n, left)'
  BY <1>2, <1>22 DEF Phase
<1>24. KillSide'
  BY <1>2 DEF KillSide, FramesInv, FramesLinked, FramesCopied, Changed, LosesRight, Moved,
              SplitRow, Whole, Linking
<1> QED BY <1>23, <1>24 DEF KillInv

(* All these pages have numbers.                                           *)
LEMMA PlacesInNat ==
  ASSUME Sound, NEW m, NEW path, NEW c, NEW chain, NEW n, NEW left, Stands(m, path, c, chain, n, left)
  PROVE  /\ \A i \in 1..m : path[i] \in Nat
         /\ \A i \in 1..c : chain[i] \in Nat
         /\ \A i \in 1..n : left[i] \in Nat
<1>1. DOMAIN file \subseteq Nat
  BY DEF Sound, TypeOK
<1>2. \A i \in 1..m : path[i] \in DOMAIN file
  BY WayPlaces DEF Stands
<1>3. (\A i \in 1..c : chain[i] \in DOMAIN file) /\ \A i \in 1..n : left[i] \in DOMAIN file
  BY HomePlaces DEF Stands
<1> QED BY <1>1, <1>2, <1>3

(* A write of a page that no path leads to.                                *)
LEMMA StandsAside ==
  ASSUME NEW m, NEW path, NEW c, NEW chain, NEW n, NEW left, Stands(m, path, c, chain, n, left),
         UNCHANGED <<entry, live>>, NEW p, NEW page, Write(p, page),
         Off(m, path, p), Off(c, chain, p), Off(n, left, p)
  PROVE  Stands(m, path, c, chain, n, left)'
<1>1. Home(c, chain, n, left) /\ RightPath(file, 0, m, path)
  BY DEF Stands
<1>2. Home(c, chain, n, left)' /\ file'[chain[c]] = file[chain[c]]
  BY <1>1, HomeAside
<1>3. RightPath(file', 0, m, path)
  BY <1>1, RightPathStays
<1>4. file'[path[m]] = file[path[m]]
  <2>1. path[m] \in DOMAIN file /\ path[m] # p
    BY <1>1, WayPlaces DEF Off
  <2> QED BY <2>1, WriteEffect
<1>5. CASE Stops(file[path[m]])
  <2>1. Stops(file[path[m]])'
    BY <1>4, <1>5 DEF Stops
  <2> QED BY <1>2, <1>3, <2>1 DEF Stands
<1>6. CASE Open(m, path, c, chain, n, left)
  <2>1. Open(m, path, c, chain, n, left)'
    BY <1>2, <1>6 DEF Open
  <2> QED BY <1>2, <1>3, <2>1 DEF Stands
<1> QED BY <1>5, <1>6 DEF Stands

(* All that an append has written and not counted yet is out of the way.   *)
LEMMA AboveAll ==
  ASSUME Sound, NEW m, NEW path, NEW c, NEW chain, NEW n, NEW left, Stands(m, path, c, chain, n, left),
         NEW p \in Nat, Under(p, m, path), Under(p, c, chain), Under(p, n, left)
  PROVE  /\ Off(m, path, p) /\ Off(c, chain, p) /\ Off(n, left, p)
         /\ Under(p+1, m, path) /\ Under(p+1, c, chain) /\ Under(p+1, n, left)
<1>1. /\ \A i \in 1..m : path[i] \in Nat
      /\ \A i \in 1..c : chain[i] \in Nat
      /\ \A i \in 1..n : left[i] \in Nat
  BY PlacesInNat
<1>2. Off(m, path, p) /\ Off(c, chain, p) /\ Off(n, left, p)
  BY <1>1, UnderOff
<1>3. p+1 \in Int /\ p <= p+1 /\ p \in Int
  OBVIOUS
<1>4. Under(p+1, m, path) /\ Under(p+1, c, chain) /\ Under(p+1, n, left)
  BY <1>1, <1>3, UnderMore
<1> QED BY <1>2, <1>4

(* The row goes to a leaf of its own, which no path leads to yet.          *)
LEMMA KillSplitLeaf ==
  ASSUME KillInv, SplitLeaf, Sound' PROVE KillInv'
<1>1. PICK m, path, c, chain, n, left : Phase(m, path, c, chain, n, left)
  BY DEF KillInv
<1>2. PICK page : page = AppendCell(NewPage("leaf"), RowIdToAppend, op.length)
  OBVIOUS
<1>3. PICK p : p = PageCount
  OBVIOUS
<1>4. /\ pc = "leaf" /\ pc' = "relink" /\ ~ RowIdsDecrease /\ UNCHANGED <<entry, table, op, live>>
      /\ Write(p, page) /\ split'.no = p /\ split'.min_row_id = MinRowId(page)
  BY <1>2, <1>3 DEF SplitLeaf
<1>5. Stands(m, path, c, chain, n, left) /\ OnTheWay(m, path) /\ Sound /\ TypeOK /\ FramesInv
  BY <1>1, <1>4 DEF Phase, KillInv, KillSide, Sound
<1>6. /\ Current.no = path[m] /\ file[path[m]] = Current.page /\ Current.page \in LeafPage
      /\ Len(frames) = m /\ Current = frames[m] /\ m \in 1..m
      /\ RowIdToAppend = entry.next_row_id /\ entry.next_row_id \in RowId
      /\ p = entry.page_count /\ p \in Nat /\ Open(m, path, c, chain, n, left)
  BY <1>3, <1>4, <1>5, AtTheStop
<1>7. /\ Off(m, path, p) /\ Off(c, chain, p) /\ Off(n, left, p)
      /\ Under(p+1, m, path) /\ Under(p+1, c, chain) /\ Under(p+1, n, left)
  BY <1>5, <1>6, AboveAll DEF Open
<1>8. Stands(m, path, c, chain, n, left)'
  BY <1>4, <1>5, <1>7, StandsAside
<1>9. page.type = "leaf" /\ page.right = NULL_PAGE_NO /\ page.cells = Append(<< >>, RowIdToAppend)
  BY <1>2 DEF AppendCell, NewPage
<1>10. page.cells = <<entry.next_row_id>>
  BY <1>6, <1>9
<1>11. /\ DOMAIN file' = DOMAIN file \union {p} /\ file'[p] = page
       /\ \A r \in DOMAIN file : r # p => file'[r] = file[r]
  BY <1>4, WriteEffect
<1>12. /\ Len(frames') = m /\ \A k \in 1..m-1 : frames'[k] = frames[k]
       /\ frames'[m].no = Current.no /\ frames'[m].page = SetRight(Current.page, p)
  BY <1>3, <1>5, <1>6, SplitLeafFrames
<1>13. Current' = frames'[m]
  BY <1>12 DEF Current, Last
<1>14. /\ SetRight(Current.page, p).type = "leaf" /\ SetRight(Current.page, p).right = p
       /\ SetRight(Current.page, p).cells = Current.page.cells /\ Current.page.type = "leaf"
  BY <1>6 DEF SetRight, LeafPage
<1>15. /\ Current'.no = path[m] /\ file'[path[m]] = Current.page /\ path[m] # p
       /\ Current'.page.type = "leaf" /\ Current'.page.right = p
       /\ Current'.page.cells = Current.page.cells
  <2>1. path[m] \in DOMAIN file /\ path[m] # p
    BY <1>5, <1>6, <1>7, WayPlaces DEF Stands, Off
  <2> QED BY <1>6, <1>11, <1>12, <1>13, <1>14, <2>1
<1>16. Linking'
  BY <1>4, <1>15 DEF Linking
<1>17. Changed'
  BY <1>4, <1>14, <1>15 DEF Changed
<1>18. Moved' /\ SplitRow' /\ LosesRight'
  <2>1. split'.min_row_id = entry.next_row_id
    BY <1>4, <1>6, <1>9, <1>10 DEF MinRowId
  <2> QED BY <1>4, <1>5, <1>16, <2>1 DEF Moved, SplitRow, LosesRight, Sound
<1>19. /\ m \in Nat /\ path[1] = 0 /\ 1 \in 1..m /\ \A i \in 1..m : path[i] \in DOMAIN file
       /\ \A i \in 1..m-1 : i \in 1..m /\ i+1 \in 1..m /\ file[path[i]].right = path[i+1]
       /\ \A i, j \in 1..m : path[i] = path[j] => i = j
  BY <1>5, WayPlaces DEF Stands
<1>20. \A k \in 1..m : frames[k].no = path[k] /\ file[path[k]] = frames[k].page
  BY <1>4, <1>5, <1>6 DEF OnTheWay, FramesInv, FramesCopied
<1>21. \A k \in 1..m : frames'[k].no = path[k]
  <2>1. \A k \in 1..m : k = m \/ k \in 1..m-1
    BY <1>19
  <2> QED BY <1>6, <1>12, <1>20, <2>1
<1>22. \A k \in 1..m-1 : /\ frames'[k].page.right = frames'[k+1].no
                         /\ file'[frames'[k].no] = frames'[k].page
  <2> TAKE k \in 1..m-1
  <2>1. frames'[k] = frames[k] /\ k \in 1..m /\ k+1 \in 1..m /\ frames'[k+1].no = path[k+1]
    BY <1>12, <1>19, <1>21
  <2>2. path[k] # p /\ path[k] \in DOMAIN file
    BY <1>7, <1>19, <2>1 DEF Off
  <2> QED BY <1>11, <1>19, <1>20, <2>1, <2>2
<1>23. FramesInv'
  BY <1>4, <1>12, <1>19, <1>21, <1>22 DEF FramesInv, FramesLinked, FramesCopied
<1>24. PICK q : q = [i \in 1..1 |-> p]
  OBVIOUS
<1>25. q[1] = p /\ \A i \in 1..1 : q[i] = p
  BY <1>24
<1>26. RightPath(file', p, 1, q)
  BY <1>11, <1>24, <1>25 DEF RightPath, PathIn, Different
<1>27. Top' = p+1
  BY <1>3, <1>4 DEF Top, PageCount
<1>28. Under(p+1, 1, q) /\ \A k \in 1..Len(frames') : Off(1, q, frames'[k].no)
  BY <1>6, <1>7, <1>12, <1>21, <1>25 DEF Under, Off
<1>29. Parting(1, q, c, chain)'
  <2>1. q[1] = split'.no /\ chain[c] = Current'.no
    BY <1>4, <1>6, <1>15, <1>25 DEF Open
  <2> QED BY <1>4, <1>7, <1>9, <1>10, <1>11, <1>16, <1>25, <1>26, <1>27, <1>28, <2>1 DEF Parting
<1>30. \A k \in 1..Len(frames') : frames'[k].no < Top'
  BY <1>7, <1>12, <1>21, <1>27 DEF Under
<1>31. Parted(m, path, c, chain, n, left)'
  BY <1>7, <1>8, <1>27, <1>29, <1>30 DEF Parted
<1>32. Phase(m, path, c, chain, n, left)'
  BY <1>4, <1>31 DEF Phase
<1> QED BY <1>17, <1>18, <1>23, <1>32 DEF KillInv, KillSide

(* The call stack of a split.                                              *)
LEMMA KillFrames ==
  ASSUME Sound, FramesInv, pc \in {"relink", "count", "return", "root"}
  PROVE  /\ frames \in Seq(Frame) /\ frames # << >> /\ frames[1].no = 0
         /\ Len(frames) \in Nat /\ Len(frames) # 0 /\ 1 \in 1..Len(frames) /\ Len(frames) \in 1..Len(frames)
         /\ \A k \in 1..Len(frames) : frames[k].no \in DOMAIN file /\ frames[k].no \in Nat
         /\ \A k \in 1..Len(frames)-1 : /\ frames[k].page.right = frames[k+1].no
                                        /\ frames[k].page.type = "interior"
                                        /\ file[frames[k].no] = frames[k].page
         /\ \A j, k \in 1..Len(frames) : frames[j].no = frames[k].no => j = k
         /\ Current = frames[Len(frames)] /\ Current.page \in Page
<1>1. frames \in Seq(Frame) /\ frames # << >>
  BY Busy DEF Sound, TypeOK
<1>2. /\ Len(frames) \in Nat /\ Len(frames) \in 1..Len(frames) /\ 1 \in 1..Len(frames) /\ Len(frames) # 0
      /\ Current = frames[Len(frames)] /\ Current.page \in Page
  BY <1>1, TopFrame
<1>3. \A k \in 1..Len(frames) : frames[k].no \in DOMAIN file /\ frames[k].no \in Nat
  BY <1>1, FramePages DEF Sound, PointersInv, FramePointers
<1>4. /\ frames[1].no = 0
      /\ \A k \in 1..Len(frames)-1 : frames[k].page.right = frames[k+1].no
      /\ \A j, k \in 1..Len(frames) : frames[j].no = frames[k].no => j = k
  BY DEF FramesInv, FramesLinked, Whole
<1>5. \A k \in 1..Len(frames)-1 : frames[k].page.type = "interior"
  BY DEF Sound, FramesOK
<1>6. \A k \in 1..Len(frames)-1 : file[frames[k].no] = frames[k].page
  <2> TAKE k \in 1..Len(frames)-1
  <2>1. k \in 1..Len(frames)
    BY <1>2
  <2> QED BY <2>1 DEF FramesInv, FramesCopied
<1> QED BY <1>1, <1>2, <1>3, <1>4, <1>5, <1>6

(* The split leaf gets its right sibling; an interior page, which has lost *)
(* its rightmost child, ends the way to the row from here on.              *)
LEMMA KillRelink ==
  ASSUME KillInv, Relink, Sound' PROVE KillInv'
<1>1. PICK m, path, c, chain, n, left : Phase(m, path, c, chain, n, left)
  BY DEF KillInv
<1>2. PICK page : page = Current.page
  OBVIOUS
<1>3. PICK p : p = Current.no
  OBVIOUS
<1>4. /\ pc = "relink" /\ pc' = "count" /\ UNCHANGED <<entry, table, op, frames, split, live>>
      /\ Write(p, page)
  BY <1>2, <1>3 DEF Relink
<1>5. /\ Sound /\ FramesInv /\ Changed /\ LosesRight /\ SplitRow
      /\ Parted(m, path, c, chain, n, left)
  BY <1>1, <1>4 DEF KillInv, KillSide, Phase
<1>6. PICK r, q : Parting(r, q, c, chain)
  BY <1>5 DEF Parted
<1>7. /\ Home(c, chain, n, left) /\ RightPath(file, 0, m, path)
      /\ Stops(file[path[m]]) \/ Open(m, path, c, chain, n, left)
      /\ Under(Top, m, path) /\ Under(Top, c, chain) /\ Under(Top, n, left)
      /\ \A k \in 1..Len(frames) : frames[k].no < Top
  BY <1>5 DEF Parted, Stands
<1>8. /\ Len(frames) \in Nat /\ Len(frames) # 0 /\ 1 \in 1..Len(frames) /\ Len(frames) \in 1..Len(frames)
      /\ \A k \in 1..Len(frames) : frames[k].no \in DOMAIN file
      /\ \A k \in 1..Len(frames)-1 : /\ frames[k].page.right = frames[k+1].no
                                     /\ frames[k].page.type = "interior"
                                     /\ file[frames[k].no] = frames[k].page
      /\ \A i, k \in 1..Len(frames) : frames[i].no = frames[k].no => i = k
      /\ Current = frames[Len(frames)] /\ frames[1].no = 0 /\ Current.page \in Page
  BY <1>4, <1>5, KillFrames
<1>9. p \in DOMAIN file /\ p = frames[Len(frames)].no /\ page = frames[Len(frames)].page
  BY <1>2, <1>3, <1>8
<1>10. page.type = file[p].type /\ page.cells = file[p].cells /\ (Linking => page.right = split.no)
  BY <1>2, <1>3, <1>4, <1>5 DEF Changed
<1>11. /\ DOMAIN file \subseteq DOMAIN file' /\ file'[p] = page
       /\ \A x \in DOMAIN file : x # p => file'[x] = file[x]
  BY <1>4, WriteEffect
<1>12. ASSUME NEW k \in 1..Len(frames) PROVE file'[frames[k].no] = frames[k].page
  <2>1. CASE k = Len(frames)
    BY <1>9, <1>11, <2>1
  <2>2. CASE k # Len(frames)
    <3>1. k \in 1..Len(frames)-1
      BY <1>8, <2>2
    <3>2. frames[k].no # p
      BY <1>8, <1>9, <2>2
    <3> QED BY <1>8, <1>11, <3>1, <3>2
  <2> QED BY <2>1, <2>2
<1>13. FramesInv'
  BY <1>4, <1>8, <1>12 DEF FramesInv, FramesLinked, FramesCopied
<1>14. Changed' /\ Moved' /\ LosesRight' /\ SplitRow'
  BY <1>4, <1>5 DEF Changed, Moved, LosesRight, SplitRow, Whole
<1>15. Top' = Top
  BY <1>4 DEF Top, PageCount
<1>16. /\ RightPath(file, split.no, r, q) /\ Under(Top, r, q) /\ Off(c, chain, q[r])
       /\ file[q[r]].type = "leaf" /\ file[q[r]].cells = <<entry.next_row_id>>
       /\ \A k \in 1..Len(frames) : Off(r, q, frames[k].no)
       /\ IF Linking THEN q[r] = split.no /\ chain[c] = p ELSE file[chain[c]].right = q[r]
  BY <1>3, <1>6 DEF Parting
<1>17. Off(r, q, p) /\ r \in 1..r /\ q[r] \in DOMAIN file
  BY <1>8, <1>9, <1>16, WayPlaces
<1>18. RightPath(file', split'.no, r, q) /\ file'[q[r]] = file[q[r]]
  <2>1. RightPath(file', split.no, r, q)
    BY <1>4, <1>16, <1>17, RightPathStays
  <2>2. q[r] # p
    BY <1>17 DEF Off
  <2> QED BY <1>4, <1>11, <1>17, <2>1, <2>2
<1>19. chain[c] \in DOMAIN file /\ file[chain[c]].type = "leaf"
  BY <1>7, HomePlaces
<1>20. file'[chain[c]].right = q[r]
  <2>1. CASE Linking
    BY <1>10, <1>11, <1>16, <2>1
  <2>2. CASE ~ Linking
    <3>1. page.type # "leaf" /\ chain[c] # p
      BY <1>2, <1>4, <1>10, <1>19, <2>2 DEF Linking
    <3> QED BY <1>11, <1>16, <1>19, <2>2, <3>1
  <2> QED BY <2>1, <2>2
<1>21. Parting(r, q, c, chain)'
  <2>1. ~ Linking' /\ entry' = entry /\ frames' = frames
    BY <1>4 DEF Linking
  <2> QED BY <1>15, <1>16, <1>18, <1>20, <2>1 DEF Parting
<1>22. \A k \in 1..Len(frames') : frames'[k].no < Top'
  BY <1>4, <1>7, <1>15
<1>23. CASE Linking
  <2>1. page.type = "leaf" /\ file[p].type = "leaf" /\ p = chain[c]
    BY <1>2, <1>10, <1>16, <1>23 DEF Linking
  <2>2. Home(c, chain, n, left)'
    <3>1. live' \subseteq live /\ \A id \in live' : ShownIn(file[p].cells, id) => ShownIn(page.cells, id)
      BY <1>4, <1>10
    <3> QED BY <1>4, <1>7, <1>9, <2>1, <3>1, HomeRewritten
  <2>3. RightPath(file', 0, m, path)
    BY <1>4, <1>7, <2>1, RightPathStays
  <2>4. ASSUME Stops(file[path[m]]) PROVE Stops(file[path[m]])'
    <3>1. path[m] \in DOMAIN file
      BY <1>7, WayPlaces
    <3>2. ASSUME path[m] = p PROVE Stops(file[path[m]])'
      <4>1. Stops(page)'
        BY <1>4, <1>10, <2>1, <2>4, <3>2 DEF Stops
      <4> QED BY <1>11, <3>2, <4>1
    <3>3. ASSUME path[m] # p PROVE Stops(file[path[m]])'
      <4>1. file'[path[m]] = file[path[m]]
        BY <1>11, <3>1, <3>3
      <4> QED BY <1>4, <2>4, <4>1 DEF Stops
    <3> QED BY <3>2, <3>3
  <2>5. ASSUME Open(m, path, c, chain, n, left) PROVE Open(m, path, c, chain, n, left)'
    <3>1. RowsBelow(file'[chain[c]], entry'.next_row_id)
      BY <1>4, <1>10, <1>11, <2>1, <2>5 DEF Open, RowsBelow
    <3> QED BY <1>4, <2>5, <3>1 DEF Open
  <2>6. Stops(file[path[m]])' \/ Open(m, path, c, chain, n, left)'
    BY <1>7, <2>4, <2>5
  <2>7. Stands(m, path, c, chain, n, left)'
    BY <2>2, <2>3, <2>6 DEF Stands
  <2>8. Parted(m, path, c, chain, n, left)'
    BY <1>7, <1>15, <1>21, <1>22, <2>7 DEF Parted
  <2>9. Phase(m, path, c, chain, n, left)'
    BY <1>4, <2>8 DEF Phase
  <2> QED BY <1>13, <1>14, <2>9 DEF KillInv, KillSide
<1>24. CASE ~ Linking
  <2>1. /\ page.type = "interior" /\ file[p].type # "leaf" /\ page.right = NULL_PAGE_NO
    BY <1>2, <1>4, <1>5, <1>8, <1>10, <1>24, PageKinds DEF Linking, LosesRight
  <2>2. Off(c, chain, p)
    BY <1>7, <2>1, HomePlaces, LinePlaces DEF Off
  <2>3. \A child : BeginsWith(file[p], child) => BeginsWith(page, child)
    BY <1>10 DEF BeginsWith
  <2>4. Home(c, chain, n, left)'
    BY <1>4, <1>7, <2>2, <2>3, HomeAside
  <2>15. PICK l : l = Len(frames)
    OBVIOUS
  <2>5. PICK f : f = [k \in 1..l |-> frames[k].no]
    OBVIOUS
  <2>6. \A k \in 1..l : f[k] = frames[k].no /\ f[k] \in DOMAIN file'
    BY <1>8, <1>11, <2>5, <2>15
  <2>7. PathIn(file', l, f)
    <3>1. f \in [1..l -> DOMAIN file']
      BY <2>5, <2>6
    <3>2. Different(l, f)
      BY <1>8, <2>6, <2>15 DEF Different
    <3> QED BY <1>8, <2>15, <3>1, <3>2 DEF PathIn
  <2>8. \A k \in 1..l-1 : EndsWith(file'[f[k]], f[k+1])
    <3> TAKE k \in 1..l-1
    <3>1. k \in 1..l /\ k+1 \in 1..l
      BY <1>8, <2>15
    <3> QED BY <1>8, <1>12, <2>15, <2>6, <3>1 DEF EndsWith
  <2>9. RightPath(file', 0, l, f)
    BY <1>8, <2>6, <2>7, <2>8, <2>15 DEF RightPath
  <2>10. Stops(file[f[l]])'
    <3>1. f[l] = p
      BY <1>8, <1>9, <2>6, <2>15
    <3>2. Stops(page)'
      BY <2>1 DEF Stops
    <3> QED BY <1>11, <3>1, <3>2
  <2>11. Stands(l, f, c, chain, n, left)'
    BY <2>4, <2>9, <2>10 DEF Stands
  <2>12. Under(Top', l, f)
    BY <1>7, <1>15, <2>6, <2>15 DEF Under
  <2>13. Parted(l, f, c, chain, n, left)'
    BY <1>7, <1>15, <1>21, <1>22, <2>11, <2>12 DEF Parted
  <2>14. Phase(l, f, c, chain, n, left)'
    BY <1>4, <2>13 DEF Phase
  <2> QED BY <1>13, <1>14, <2>14 DEF KillInv, KillSide
<1> QED BY <1>23, <1>24

(* A page more is counted.                                                 *)
LEMMA PageCounted ==
  ASSUME Sound, pc # "idle", CountPage, UNCHANGED op
  PROVE  /\ PageCount \in Nat /\ PageCount' = PageCount+1 /\ entry'.page_count = PageCount+1
         /\ entry'.next_row_id = entry.next_row_id
<1>1. /\ op.handle \in Handles /\ table \in [Handles -> Table] /\ entry \in Entry
      /\ table[op.handle] \in Table /\ PageCount \in Nat
  BY Busy DEF Sound, TypeOK
<1>2. table'[op.handle] = [table[op.handle] EXCEPT !.page_count = @ + 1]
  BY <1>1 DEF CountPage
<1>3. PageCount' = PageCount+1
  BY <1>1, <1>2 DEF PageCount, Table
<1> QED BY <1>1, <1>3 DEF CountPage, Entry

(* setPageCount after a split (table_leaf_page.cpp:360).                   *)
LEMMA KillCountSplit ==
  ASSUME KillInv, CountSplit, Sound' PROVE KillInv'
<1>1. PICK m, path, c, chain, n, left : Phase(m, path, c, chain, n, left)
  BY DEF KillInv
<1>2. pc = "count" /\ pc' = "return" /\ CountPage /\ UNCHANGED <<file, op, frames, split, live>>
  BY DEF CountSplit
<1>3. Sound /\ KillSide /\ Parted(m, path, c, chain, n, left)
  BY <1>1, <1>2 DEF KillInv, Phase
<1>4. /\ PageCount \in Nat /\ PageCount' = PageCount+1 /\ entry'.page_count = PageCount+1
      /\ entry'.next_row_id = entry.next_row_id /\ PageCount = entry.page_count
  BY <1>2, <1>3, PageCounted DEF Sound, EntryIsCurrent
<1>5. Top' = Top
  BY <1>2, <1>4 DEF Top
<1>6. PICK r, q : Parting(r, q, c, chain)
  BY <1>3 DEF Parted
<1>7. Parting(r, q, c, chain)'
  BY <1>2, <1>4, <1>5, <1>6 DEF Parting, Linking
<1>8. Stands(m, path, c, chain, n, left)
  BY <1>3 DEF Parted
<1>9. Home(c, chain, n, left)'
  BY <1>2, <1>8 DEF Stands, Home
<1>10. Stops(file[path[m]]) => Stops(file[path[m]])'
  BY <1>2, <1>4 DEF Stops
<1>11. Open(m, path, c, chain, n, left) => Open(m, path, c, chain, n, left)'
  <2> SUFFICES ASSUME Open(m, path, c, chain, n, left) PROVE Open(m, path, c, chain, n, left)'
    OBVIOUS
  <2>1. PICK k : k = entry.page_count
    OBVIOUS
  <2>2. /\ \A i \in 1..m : path[i] \in Nat
        /\ \A i \in 1..c : chain[i] \in Nat
        /\ \A i \in 1..n : left[i] \in Nat
    BY <1>3, <1>8, PlacesInNat
  <2>3. k \in Int /\ k+1 \in Int /\ k <= k+1 /\ Under(k, m, path) /\ Under(k, c, chain) /\ Under(k, n, left)
    BY <1>4, <2>1 DEF Open
  <2>4. Under(k+1, m, path) /\ Under(k+1, c, chain) /\ Under(k+1, n, left)
    BY <2>2, <2>3, UnderMore
  <2> QED BY <1>2, <1>4, <2>1, <2>4 DEF Open
<1>12. Stands(m, path, c, chain, n, left)'
  BY <1>2, <1>8, <1>9, <1>10, <1>11 DEF Stands
<1>13. Parted(m, path, c, chain, n, left)'
  BY <1>2, <1>3, <1>5, <1>7, <1>12 DEF Parted
<1>14. Phase(m, path, c, chain, n, left)'
  BY <1>2, <1>13 DEF Phase
<1>15. KillSide'
  BY <1>2, <1>3 DEF KillSide, FramesInv, FramesLinked, FramesCopied, Changed, LosesRight, Moved,
              SplitRow, Whole, Linking
<1> QED BY <1>14, <1>15 DEF KillInv

(* setPageCount after a new root (table.cpp:105).                          *)
LEMMA KillCountRoot ==
  ASSUME KillInv, CountRoot, Sound' PROVE KillInv'
<1>1. PICK m, path, c, chain, n, left : Phase(m, path, c, chain, n, left)
  BY DEF KillInv
<1>2. pc = "count_root" /\ pc' = "finish" /\ CountPage /\ UNCHANGED <<file, op, frames, split, live>>
  BY DEF CountRoot
<1>3. Sound /\ Ending(m, path, c, chain, n, left)
  BY <1>1, <1>2 DEF KillInv, Phase
<1>4. PageCount' = PageCount+1 /\ entry'.next_row_id = entry.next_row_id
  BY <1>2, <1>3, PageCounted
<1>5. Top' = Top
  BY <1>2, <1>4 DEF Top
<1>6. Ending(m, path, c, chain, n, left)'
  BY <1>2, <1>3, <1>4, <1>5 DEF Ending, Home, Stops
<1>7. Phase(m, path, c, chain, n, left)'
  BY <1>2, <1>6 DEF Phase
<1>8. KillSide'
  BY <1>2 DEF KillSide, FramesInv, FramesLinked, FramesCopied, Changed, LosesRight, Moved,
              SplitRow, Whole, Linking
<1> QED BY <1>7, <1>8 DEF KillInv

(* The old root is written to a page that nothing leads to.                *)
LEMMA KillMoveRoot ==
  ASSUME KillInv, MoveRoot, Sound' PROVE KillInv'
<1>1. PICK m, path, c, chain, n, left : Phase(m, path, c, chain, n, left)
  BY DEF KillInv
<1>2. PICK page : page = Current.page
  OBVIOUS
<1>3. PICK p : p = PageCount
  OBVIOUS
<1>4. /\ pc = "return" /\ pc' = "root" /\ AtRoot /\ Write(p, page)
      /\ UNCHANGED <<entry, table, op, frames, split, live>>
  BY <1>2, <1>3 DEF MoveRoot
<1>5. /\ Sound /\ FramesInv /\ SplitRow /\ Parted(m, path, c, chain, n, left)
  BY <1>1, <1>4 DEF KillInv, KillSide, Phase
<1>6. p \in Nat /\ Top = p /\ Top' = p /\ PageCount' = p
  BY <1>3, <1>4, <1>5, Busy DEF Sound, Top, PageCount
<1>7. PICK r, q : Parting(r, q, c, chain)
  BY <1>5 DEF Parted
<1>8. /\ Stands(m, path, c, chain, n, left) /\ Home(c, chain, n, left)
      /\ Under(p, m, path) /\ Under(p, c, chain) /\ Under(p, n, left)
      /\ \A k \in 1..Len(frames) : frames[k].no < p
  BY <1>5, <1>6 DEF Parted, Stands
<1>9. Off(m, path, p) /\ Off(c, chain, p) /\ Off(n, left, p)
  BY <1>5, <1>6, <1>8, AboveAll
<1>10. Stands(m, path, c, chain, n, left)'
  BY <1>4, <1>8, <1>9, StandsAside
<1>11. /\ p \in DOMAIN file' /\ file'[p] = page
       /\ \A x \in DOMAIN file : x # p => file'[x] = file[x]
  <2>1. DOMAIN file' = DOMAIN file \union {p}
    BY <1>4, WriteEffect
  <2> QED BY <1>4, <2>1, WriteEffect
<1>12. /\ RightPath(file, split.no, r, q) /\ Under(p, r, q) /\ file[chain[c]].right = q[r]
  BY <1>4, <1>6, <1>7 DEF Parting, Linking
<1>13. Off(r, q, p) /\ r \in 1..r /\ q[r] \in DOMAIN file
  <2>1. (\A i \in 1..r : q[i] \in DOMAIN file) /\ r \in 1..r
    BY <1>12, WayPlaces
  <2>2. \A i \in 1..r : q[i] \in Nat
    BY <1>5, <2>1 DEF Sound, TypeOK
  <2> QED BY <1>6, <1>12, <2>1, <2>2, UnderOff
<1>14. RightPath(file', split.no, r, q)
  BY <1>4, <1>12, <1>13, RightPathStays
<1>15. file'[q[r]] = file[q[r]] /\ file'[chain[c]] = file[chain[c]]
  <2>1. chain[c] \in DOMAIN file /\ chain[c] # p
    BY <1>8, <1>9, HomePlaces, LinePlaces DEF Off
  <2> QED BY <1>11, <1>13, <2>1 DEF Off
<1>16. Parting(r, q, c, chain)'
  BY <1>4, <1>6, <1>7, <1>12, <1>14, <1>15 DEF Parting, Linking
<1>17. Parted(m, path, c, chain, n, left)'
  BY <1>4, <1>6, <1>8, <1>10, <1>16 DEF Parted
<1>18. Phase(m, path, c, chain, n, left)'
  BY <1>4, <1>17 DEF Phase
<1>19. \A k \in 1..Len(frames) : file'[frames[k].no] = frames[k].page
  <2> TAKE k \in 1..Len(frames)
  <2>1. frames[k].no \in DOMAIN file /\ frames[k].no \in Nat
    BY <1>4, <1>5, KillFrames
  <2>2. frames[k].no # p
    BY <1>6, <1>8, <2>1
  <2> QED BY <1>4, <1>5, <1>11, <2>1, <2>2 DEF FramesInv, FramesCopied
<1>20. FramesInv'
  BY <1>4, <1>5, <1>19 DEF FramesInv, FramesLinked, FramesCopied, Whole
<1>21. Moved'
  BY <1>2, <1>4, <1>6, <1>11 DEF Moved, AtRoot, Current
<1>22. Changed' /\ LosesRight' /\ SplitRow'
  BY <1>4, <1>5 DEF Changed, LosesRight, SplitRow, Whole
<1> QED BY <1>18, <1>20, <1>21, <1>22 DEF KillInv, KillSide

(* A path that begins at a page above it.                                  *)
LEMMA UnderBefore ==
  ASSUME NEW p \in Nat, NEW r, NEW q, Under(p, r, q), \A i \in 1..r : q[i] \in Nat,
         NEW k, NEW new, \A x : Off(r, q, x) /\ x # p => Off(k, new, x)
  PROVE  Under(p+1, k, new)
<1> SUFFICES ASSUME NEW i \in 1..k PROVE new[i] < p+1
  BY DEF Under
<1>1. PICK x : x = new[i]
  OBVIOUS
<1>2. CASE x = p
  BY <1>1, <1>2
<1>3. CASE x # p
  <2>1. ~ Off(k, new, x)
    BY <1>1 DEF Off
  <2>2. PICK j \in 1..r : q[j] = x
    BY <1>3, <2>1 DEF Off
  <2>3. x \in Nat /\ x < p
    BY <2>2 DEF Under
  <2> QED BY <1>1, <2>3
<1> QED BY <1>2, <1>3

(* The split page hangs from a new interior page.                          *)
LEMMA KillSplitInterior ==
  ASSUME KillInv, SplitInterior, Sound' PROVE KillInv'
<1>1. PICK m, path, c, chain, n, left : Phase(m, path, c, chain, n, left)
  BY DEF KillInv
<1>2. PICK page : page = WithSplit(NewPage("interior"), Parent.page.right)
  OBVIOUS
<1>3. PICK p : p = PageCount
  OBVIOUS
<1>4. /\ pc = "return" /\ pc' = "relink" /\ ~ AtRoot /\ UNCHANGED <<entry, table, op, live>>
      /\ Write(p, page) /\ split'.no = p /\ split'.min_row_id = MinRowId(page)
  BY <1>2, <1>3 DEF SplitInterior
<1>5. /\ Sound /\ TypeOK /\ FramesOK /\ FramesInv /\ SplitRow /\ Parted(m, path, c, chain, n, left)
  BY <1>1, <1>4 DEF KillInv, KillSide, Phase, Sound
<1>6. p \in Nat /\ Top = p /\ Top' = p+1
  BY <1>3, <1>4, <1>5, Busy DEF Top, PageCount
<1>7. PICK r, q : Parting(r, q, c, chain)
  BY <1>5 DEF Parted
<1>8. /\ Stands(m, path, c, chain, n, left) /\ Home(c, chain, n, left)
      /\ Under(p, m, path) /\ Under(p, c, chain) /\ Under(p, n, left)
      /\ \A k \in 1..Len(frames) : frames[k].no < p
  BY <1>5, <1>6 DEF Parted, Stands
<1>9. /\ Off(m, path, p) /\ Off(c, chain, p) /\ Off(n, left, p)
      /\ Under(p+1, m, path) /\ Under(p+1, c, chain) /\ Under(p+1, n, left)
  BY <1>5, <1>6, <1>8, AboveAll
<1>10. Stands(m, path, c, chain, n, left)'
  BY <1>4, <1>8, <1>9, StandsAside
<1>11. /\ DOMAIN file' = DOMAIN file \union {p} /\ file'[p] = page
       /\ \A x \in DOMAIN file : x # p => file'[x] = file[x]
  BY <1>4, WriteEffect
<1>12. /\ RightPath(file, split.no, r, q) /\ Under(p, r, q) /\ file[chain[c]].right = q[r]
       /\ Off(c, chain, q[r]) /\ file[q[r]].type = "leaf" /\ file[q[r]].cells = <<entry.next_row_id>>
       /\ \A k \in 1..Len(frames) : Off(r, q, frames[k].no)
  BY <1>4, <1>6, <1>7 DEF Parting, Linking
<1>13. (\A i \in 1..r : q[i] \in Nat) /\ Off(r, q, p) /\ r \in 1..r /\ q[r] \in DOMAIN file
  <2>1. (\A i \in 1..r : q[i] \in DOMAIN file) /\ r \in 1..r
    BY <1>12, WayPlaces
  <2>2. \A i \in 1..r : q[i] \in Nat
    BY <1>5, <2>1 DEF TypeOK
  <2> QED BY <1>6, <1>12, <2>1, <2>2, UnderOff
<1>14. RightPath(file', split.no, r, q)
  BY <1>4, <1>12, <1>13, RightPathStays
<1>15. file'[q[r]] = file[q[r]] /\ file'[chain[c]] = file[chain[c]]
  <2>1. chain[c] \in DOMAIN file /\ chain[c] # p
    BY <1>8, <1>9, HomePlaces, LinePlaces DEF Off
  <2> QED BY <1>11, <1>13, <2>1 DEF Off
<1>16. /\ frames \in Seq(Frame) /\ frames # << >> /\ frames[1].no = 0 /\ Len(frames) \in Nat
       /\ \A k \in 1..Len(frames) : frames[k].no \in DOMAIN file
       /\ \A k \in 1..Len(frames)-1 : frames[k].page.right = frames[k+1].no
       /\ \A j, k \in 1..Len(frames) : frames[j].no = frames[k].no => j = k
  BY <1>4, <1>5, KillFrames
<1>17. PICK l : l = Len(frames)-1
  OBVIOUS
<1>18. /\ l \in Nat /\ l # 0 /\ l \in 1..l /\ 1 \in 1..l /\ Parent = frames[l]
       /\ Parent.page \in InteriorPage /\ Parent.page.right \in PageNo /\ split.min_row_id # 0
  BY <1>4, <1>5, <1>16, <1>17, ParentFrame, ParentInterior DEF SplitRow, Whole
<1>19. \A k \in 1..l : k \in 1..Len(frames) /\ k \in 1..Len(frames)-1
  BY <1>16, <1>17
<1>20. page.type = "interior" /\ page.right = split.no
  BY <1>18, <1>2 DEF WithSplit, SetRight, AppendCell, NewPage
<1>21. PICK new : new = Before(r, q, p)
  OBVIOUS
<1>22. PICK d : d = r+1
  OBVIOUS
<1>23. /\ RightPath(file', p, d, new) /\ new[d] = q[r]
       /\ \A x : Off(r, q, x) /\ x # p => Off(d, new, x)
  <2>1. EndsWith(file'[p], split.no) /\ p \in DOMAIN file'
    BY <1>11, <1>20 DEF EndsWith
  <2> QED BY <1>13, <1>14, <1>21, <1>22, <2>1, RightPathBefore
<1>24. Under(p+1, d, new)
  BY <1>6, <1>12, <1>13, <1>23, UnderBefore
<1>25. /\ Len(frames') = l /\ frames' \in Seq(Frame)
       /\ \A k \in 1..l-1 : frames'[k] = frames[k]
       /\ frames'[l].no = Parent.no /\ frames'[l].page = SetRight(Parent.page, NULL_PAGE_NO)
  <2>1. /\ Len(frames') = Len(frames)-1 /\ \A k \in 1..Len(frames)-2 : frames'[k] = frames[k]
        /\ frames'[Len(frames)-1].no = Parent.no /\ frames' \in Seq(Frame)
        /\ frames'[Len(frames)-1].page = SetRight(Parent.page, NULL_PAGE_NO)
    BY <1>5, SplitInteriorFrames
  <2>2. 1..l-1 = 1..Len(frames)-2
    BY <1>16, <1>17
  <2> QED BY <1>17, <2>1, <2>2
<1>26. \A k \in 1..l : k = l \/ k \in 1..l-1
  BY <1>18
<1>27. \A k \in 1..l : frames'[k].no = frames[k].no
  BY <1>18, <1>25, <1>26
<1>28. \A k \in 1..l-1 : k \in 1..l /\ k+1 \in 1..l
  BY <1>18
<1>29. \A k \in 1..l-1 : frames'[k].page.right = frames'[k+1].no
  <2> TAKE k \in 1..l-1
  <2>1. frames[k].page.right = frames[k+1].no
    BY <1>16, <1>19, <1>28
  <2>2. frames'[k] = frames[k] /\ frames'[k+1].no = frames[k+1].no
    BY <1>25, <1>27, <1>28
  <2> QED BY <2>1, <2>2
<1>30. \A j, k \in 1..l : frames'[j].no = frames'[k].no => j = k
  BY <1>16, <1>19, <1>27
<1>31. \A k \in 1..l : frames[k].no \in Nat /\ frames[k].no # p /\ frames[k].no < p
  <2> TAKE k \in 1..l
  <2>1. frames[k].no \in Nat /\ frames[k].no < p
    BY <1>5, <1>8, <1>16, <1>19 DEF TypeOK
  <2> QED BY <1>6, <2>1
<1>32. \A k \in 1..l : file'[frames[k].no] = frames[k].page
  BY <1>4, <1>5, <1>11, <1>16, <1>19, <1>31 DEF FramesInv, FramesCopied
<1>33. \A k \in 1..l-1 : file'[frames'[k].no] = frames'[k].page
  BY <1>25, <1>28, <1>32
<1>34. FramesInv'
  BY <1>4, <1>16, <1>18, <1>25, <1>27, <1>29, <1>30, <1>33 DEF FramesInv, FramesLinked, FramesCopied
<1>35. Current' = frames'[l]
  BY <1>25 DEF Current, Last
<1>36. /\ file'[Current'.no] = Parent.page /\ Parent.page.type = "interior"
       /\ Current'.page.type = "interior" /\ Current'.page.cells = Parent.page.cells
       /\ Current'.page.right = NULL_PAGE_NO
  <2>1. /\ SetRight(Parent.page, NULL_PAGE_NO).type = "interior" /\ Parent.page.type = "interior"
        /\ SetRight(Parent.page, NULL_PAGE_NO).cells = Parent.page.cells
        /\ SetRight(Parent.page, NULL_PAGE_NO).right = NULL_PAGE_NO
    BY <1>18 DEF SetRight, InteriorPage
  <2> QED BY <1>18, <1>25, <1>32, <1>35, <2>1
<1>37. ~ Linking'
  BY <1>36 DEF Linking
<1>38. Changed' /\ LosesRight' /\ Moved'
  BY <1>4, <1>36, <1>37 DEF Changed, LosesRight, Moved
<1>39. SplitRow'
  <2>1. MinRowId(page) = split.min_row_id
    BY <1>2, <1>18 DEF MinRowId, AppendCell, NewPage, WithSplit, SetRight
  <2> QED BY <1>4, <1>18, <2>1 DEF SplitRow
<1>40. \A k \in 1..Len(frames') : Off(d, new, frames'[k].no) /\ frames'[k].no < p+1
  <2> TAKE k \in 1..Len(frames')
  <2>1. k \in 1..l /\ frames'[k].no = frames[k].no /\ Off(r, q, frames[k].no)
    BY <1>12, <1>19, <1>25, <1>27
  <2>2. frames[k].no < p+1
    BY <1>6, <1>31, <2>1
  <2> QED BY <1>23, <1>31, <2>1, <2>2
<1>41. Parting(d, new, c, chain)'
  BY <1>4, <1>6, <1>12, <1>15, <1>23, <1>24, <1>37, <1>40 DEF Parting
<1>42. Parted(m, path, c, chain, n, left)'
  BY <1>6, <1>9, <1>10, <1>40, <1>41 DEF Parted
<1>43. Phase(m, path, c, chain, n, left)'
  BY <1>4, <1>42 DEF Phase
<1> QED BY <1>34, <1>38, <1>39, <1>43 DEF KillInv, KillSide

-----------------------------------------------------------------------------
(* The page that takes the split makes the way to the new leaf whole.      *)

(* A leaf with one row.                                                    *)
LEMMA OneRow ==
  ASSUME NEW page, NEW id \in Nat, page.type = "leaf", page.cells = <<id>>
  PROVE  /\ page.cells # << >> /\ Last(page.cells) = id
         /\ ShownIn(page.cells, id) /\ RowsBelow(page, id+1)
<1>1. Len(page.cells) = 1 /\ page.cells[1] = id
  OBVIOUS
<1>2. ShownIn(page.cells, id)
  <2>1. 1 \in 1..Len(page.cells)
    BY <1>1
  <2> QED BY <1>1, <2>1 DEF ShownIn
<1>3. RowsBelow(page, id+1)
  <2> SUFFICES ASSUME NEW i \in 1..Len(page.cells) PROVE page.cells[i] < id+1
    BY DEF RowsBelow
  <2>1. i = 1
    BY <1>1
  <2> QED BY <1>1, <2>1
<1>4. page.cells # << >> /\ Last(page.cells) = id
  BY <1>1 DEF Last
<1> QED BY <1>2, <1>3, <1>4

(* Scans already go on to the new leaf.                                    *)
LEMMA HomeLonger ==
  ASSUME NEW c, NEW chain, NEW n, NEW left, Home(c, chain, n, left),
         NEW p \in DOMAIN file, Off(c, chain, p), file[p].type = "leaf", file[chain[c]].right = p,
         NEW d, d = c+1, NEW new, new = Longer(c, chain, p)
  PROVE  /\ Home(d, new, n, left) /\ d \in Nat /\ d \in 1..d /\ new[d] = p
         /\ \A i \in 1..d : new[i] = p \/ \E j \in 1..c : new[i] = chain[j]
<1>1. LeafLine(file, c, chain) /\ LeftPath(file, n, left) /\ left[n] = chain[1]
      /\ \A id \in live : Shown(c, CellsOf(file, c, chain), id)
  BY DEF Home
<1>2. /\ c \in Nat /\ c # 0 /\ c \in 1..c /\ 1 \in 1..c /\ PathIn(file, c, chain)
      /\ \A i \in 1..c : chain[i] \in DOMAIN file /\ file[chain[i]].type = "leaf"
      /\ \A i \in 1..c-1 : i \in 1..c /\ i+1 \in 1..c /\ file[chain[i]].right = chain[i+1]
  BY <1>1, LinePlaces
<1>3. PathIn(file, d, new) /\ new[d] = p /\ \A i \in 1..c : new[i] = chain[i]
  BY <1>2, PathLonger
<1>4. d \in Nat /\ d \in 1..d /\ \A i \in 1..d : i = d \/ i \in 1..c
  BY <1>2
<1>5. \A i \in 1..d : file[new[i]].type = "leaf"
  BY <1>2, <1>3, <1>4
<1>6. \A i \in 1..d-1 : file[new[i]].right = new[i+1]
  <2> TAKE i \in 1..d-1
  <2>1. i = c \/ i \in 1..c-1
    BY <1>2
  <2>2. CASE i = c
    BY <1>2, <1>3, <2>2
  <2>3. CASE i \in 1..c-1
    BY <1>2, <1>3, <2>3
  <2> QED BY <2>1, <2>2, <2>3
<1>7. LeafLine(file, d, new)
  BY <1>3, <1>5, <1>6 DEF LeafLine
<1>8. left[n] = new[1]
  BY <1>1, <1>2, <1>3
<1>9. ASSUME NEW id \in live PROVE Shown(d, CellsOf(file, d, new), id)
  <2>1. PICK i \in 1..c : ShownIn(file[chain[i]].cells, id)
    BY <1>1 DEF Shown, CellsOf
  <2>2. i \in 1..d /\ ShownIn(file[new[i]].cells, id)
    BY <1>2, <1>3, <2>1
  <2> QED BY <2>2 DEF Shown, CellsOf
<1>10. Home(d, new, n, left)
  BY <1>1, <1>7, <1>8, <1>9 DEF Home
<1>11. \A i \in 1..d : new[i] = p \/ \E j \in 1..c : new[i] = chain[j]
  BY <1>3, <1>4
<1> QED BY <1>3, <1>4, <1>10, <1>11

(* The parent takes the split page (table_interior_page.cpp:94-99).        *)
LEMMA KillAbsorb ==
  ASSUME KillInv, AbsorbSplit, Sound' PROVE KillInv'
<1>1. PICK m, path, c, chain, n, left : Phase(m, path, c, chain, n, left)
  BY DEF KillInv
<1>2. PICK page : page = WithSplit(Parent.page, Parent.page.right)
  OBVIOUS
<1>3. PICK p : p = Parent.no
  OBVIOUS
<1>4. /\ pc = "return" /\ pc' = "finish" /\ ~ AtRoot /\ Write(p, page)
      /\ UNCHANGED <<entry, table, op, frames, split, live>>
  BY <1>2, <1>3 DEF AbsorbSplit
<1>5. /\ Sound /\ TypeOK /\ FramesOK /\ FramesInv /\ Parted(m, path, c, chain, n, left)
  BY <1>1, <1>4 DEF KillInv, KillSide, Phase, Sound
<1>6. PageCount \in Nat /\ Top = PageCount /\ Top' = PageCount
  BY <1>4, <1>5, Busy DEF Top, PageCount
<1>7. PICK r, q : Parting(r, q, c, chain)
  BY <1>5 DEF Parted
<1>8. /\ Home(c, chain, n, left) /\ Under(Top, c, chain) /\ Under(Top, n, left)
      /\ \A k \in 1..Len(frames) : frames[k].no < Top
  BY <1>5 DEF Parted, Stands
<1>9. /\ RightPath(file, split.no, r, q) /\ Under(Top, r, q) /\ file[chain[c]].right = q[r]
      /\ Off(c, chain, q[r]) /\ file[q[r]].type = "leaf" /\ file[q[r]].cells = <<entry.next_row_id>>
      /\ \A k \in 1..Len(frames) : Off(r, q, frames[k].no)
  BY <1>4, <1>7 DEF Parting, Linking
<1>10. /\ frames \in Seq(Frame) /\ frames # << >> /\ frames[1].no = 0 /\ Len(frames) \in Nat
       /\ \A k \in 1..Len(frames) : frames[k].no \in DOMAIN file
       /\ \A k \in 1..Len(frames)-1 : /\ frames[k].page.right = frames[k+1].no
                                      /\ frames[k].page.type = "interior"
                                      /\ file[frames[k].no] = frames[k].page
       /\ \A j, k \in 1..Len(frames) : frames[j].no = frames[k].no => j = k
  BY <1>4, <1>5, KillFrames
<1>11. PICK l : l = Len(frames)-1
  OBVIOUS
<1>12. /\ l \in Nat /\ l # 0 /\ l \in 1..l /\ 1 \in 1..l /\ Parent = frames[l]
       /\ Parent.page \in InteriorPage /\ Parent.page.type = "interior"
  BY <1>4, <1>5, <1>10, <1>11, ParentFrame, ParentInterior DEF InteriorPage
<1>13. \A k \in 1..l : k \in 1..Len(frames) /\ k \in 1..Len(frames)-1
  BY <1>10, <1>11
<1>14. file[p] = Parent.page /\ p \in DOMAIN file /\ Off(r, q, p)
  BY <1>3, <1>9, <1>10, <1>12, <1>13
<1>15. PICK cells : cells = Parent.page.cells
  OBVIOUS
<1>16. PICK cell : cell = [left_child_page_no |-> Parent.page.right, row_id |-> split.min_row_id]
  OBVIOUS
<1>17. /\ page.type = "interior" /\ page.right = split.no /\ page.cells = Append(cells, cell)
       /\ cells \in Seq(InteriorCell)
  BY <1>2, <1>12, <1>15, <1>16 DEF WithSplit, SetRight, AppendCell, InteriorPage
<1>18. Len(cells) # 0 => Append(cells, cell)[1] = cells[1] /\ Len(Append(cells, cell)) # 0
  <2>1. /\ Len(cells) \in Nat /\ Len(Append(cells, cell)) = Len(cells)+1
        /\ \A i \in 1..Len(cells) : Append(cells, cell)[i] = cells[i]
    BY <1>17, AppendProperties, LenProperties
  <2> QED BY <2>1
<1>19. \A child : BeginsWith(file[p], child) => BeginsWith(page, child)
  BY <1>14, <1>15, <1>17, <1>18 DEF BeginsWith
<1>20. r \in 1..r /\ q[r] \in DOMAIN file /\ \A i \in 1..r : q[i] \in DOMAIN file
  BY <1>9, WayPlaces
<1>21. PICK d : d = c+1
  OBVIOUS
<1>22. PICK new : new = Longer(c, chain, q[r])
  OBVIOUS
<1>23. /\ Home(d, new, n, left) /\ d \in 1..d /\ new[d] = q[r]
       /\ \A i \in 1..d : new[i] = q[r] \/ \E j \in 1..c : new[i] = chain[j]
  BY <1>8, <1>9, <1>20, <1>21, <1>22, HomeLonger
<1>24. Off(d, new, p)
  BY <1>12, <1>14, <1>23, HomePlaces, LinePlaces DEF Off
<1>25. Home(d, new, n, left)' /\ file'[q[r]] = file[q[r]]
  BY <1>4, <1>19, <1>23, <1>24, HomeAside
<1>26. Under(Top, d, new)
  BY <1>8, <1>9, <1>20, <1>23 DEF Under
<1>27. /\ DOMAIN file \subseteq DOMAIN file' /\ file'[p] = page
       /\ \A x \in DOMAIN file : x # p => file'[x] = file[x]
  BY <1>4, WriteEffect
<1>28. PICK f : f = [k \in 1..l |-> frames[k].no]
  OBVIOUS
<1>29. \A k \in 1..l : f[k] = frames[k].no /\ f[k] \in DOMAIN file'
  BY <1>10, <1>13, <1>27, <1>28
<1>30. PathIn(file', l, f)
  <2>1. f \in [1..l -> DOMAIN file']
    BY <1>28, <1>29
  <2>2. Different(l, f)
    BY <1>10, <1>13, <1>29 DEF Different
  <2> QED BY <1>12, <2>1, <2>2 DEF PathIn
<1>31. RightPath(file', split.no, r, q)
  BY <1>4, <1>9, <1>14, RightPathStays
<1>32. PathIn(file', r, q) /\ \A k \in 1..l : Off(r, q, f[k])
  BY <1>9, <1>13, <1>29, <1>31 DEF RightPath
<1>33. PICK way : way = Joined(l, f, r, q)
  OBVIOUS
<1>34. PICK k : k = l+r
  OBVIOUS
<1>35. /\ PathIn(file', k, way) /\ \A i \in 1..l : way[i] = f[i]
       /\ \A i \in 1..r : way[l+i] = q[i]
  BY <1>30, <1>32, <1>33, <1>34, PathJoined
<1>36. /\ r \in Nat /\ r # 0 /\ q[1] = split.no /\ 1 \in 1..r
       /\ \A i \in 1..r-1 : EndsWith(file'[q[i]], q[i+1])
  BY <1>31 DEF RightPath, PathIn
<1>37. \A i \in 1..k : i \in 1..l \/ \E j \in 1..r : i = l+j
  <2> TAKE i \in 1..k
  <2>1. i \in 1..l \/ i-l \in 1..r
    BY <1>12, <1>34, <1>36
  <2>2. i = l+(i-l)
    BY <1>12, <1>36, <1>34
  <2> QED BY <2>1, <2>2
<1>38. ASSUME NEW i \in 1..k-1 PROVE EndsWith(file'[way[i]], way[i+1])
  <2>1. CASE i \in 1..l-1
    <3>1. i \in 1..l /\ i+1 \in 1..l /\ i # l
      BY <1>12, <2>1
    <3>2. file[frames[i].no] = frames[i].page /\ frames[i].page.type = "interior"
          /\ frames[i].page.right = frames[i+1].no
      BY <1>10, <1>13, <3>1
    <3>3. frames[i].no # p
      BY <1>3, <1>10, <1>12, <1>13, <3>1
    <3>4. file'[frames[i].no] = frames[i].page
      BY <1>10, <1>13, <1>27, <3>1, <3>2, <3>3
    <3>5. way[i] = frames[i].no /\ way[i+1] = frames[i+1].no
      BY <1>29, <1>35, <3>1
    <3> QED BY <3>2, <3>4, <3>5 DEF EndsWith
  <2>2. CASE i = l
    <3>1. way[i] = p /\ way[i+1] = split.no
      BY <1>3, <1>12, <1>29, <1>35, <1>36, <2>2
    <3> QED BY <1>17, <1>27, <3>1 DEF EndsWith
  <2>3. CASE i > l
    <3>1. PICK j : j = i-l
      OBVIOUS
    <3>2. j \in 1..r-1 /\ j \in 1..r /\ j+1 \in 1..r /\ l+j = i /\ l+(j+1) = i+1
      BY <1>12, <1>34, <1>36, <2>3, <3>1
    <3>3. way[i] = q[j] /\ way[i+1] = q[j+1]
      BY <1>35, <3>2
    <3> QED BY <1>36, <3>2, <3>3
  <2> QED BY <1>12, <1>34, <1>36, <2>1, <2>2, <2>3
<1>39. RightPath(file', 0, k, way)
  <2>1. way[1] = 0
    BY <1>10, <1>12, <1>29, <1>35
  <2>2. \A i \in 1..k-1 : EndsWith(file'[way[i]], way[i+1])
    BY <1>38
  <2> QED BY <1>35, <2>1, <2>2 DEF RightPath
<1>40. way[k] = q[r]
  BY <1>20, <1>34, <1>35
<1>41. Under(Top, k, way)
  <2> SUFFICES ASSUME NEW i \in 1..k PROVE way[i] < Top
    BY DEF Under
  <2>1. CASE i \in 1..l
    BY <1>8, <1>13, <1>29, <1>35, <2>1
  <2>2. CASE \E j \in 1..r : i = l+j
    BY <1>9, <1>35, <2>2 DEF Under
  <2> QED BY <1>37, <2>1, <2>2
<1>42. /\ Stops(file[q[r]])' /\ RowsBelow(file'[q[r]], entry'.next_row_id + 1)
       /\ ShownIn(file'[q[r]].cells, entry'.next_row_id)
  <2>1. entry'.next_row_id = entry.next_row_id /\ entry.next_row_id \in Nat
    BY <1>4, <1>5, NextId
  <2>2. file'[q[r]].type = "leaf" /\ file'[q[r]].cells = <<entry'.next_row_id>>
    BY <1>4, <1>9, <1>25
  <2>3. /\ file'[q[r]].cells # << >> /\ Last(file'[q[r]].cells) = entry'.next_row_id
        /\ ShownIn(file'[q[r]].cells, entry'.next_row_id)
        /\ RowsBelow(file'[q[r]], entry'.next_row_id + 1)
    BY <2>1, <2>2, OneRow
  <2>4. Stops(file[q[r]])'
    BY <2>1, <2>2, <2>3 DEF Stops
  <2> QED BY <2>3, <2>4
<1>43. Ending(k, way, d, new, n, left)'
  <2>1. Under(Top', k, way) /\ Under(Top', d, new) /\ Under(Top', n, left)
    BY <1>6, <1>8, <1>26, <1>41
  <2> QED BY <1>23, <1>25, <1>39, <1>40, <1>42, <2>1 DEF Ending
<1>44. Phase(k, way, d, new, n, left)'
  BY <1>4, <1>43 DEF Phase
<1>45. KillSide'
  BY <1>4 DEF KillSide, FramesInv, FramesLinked, FramesCopied, Changed, LosesRight, Moved,
              SplitRow, Whole, Linking
<1> QED BY <1>44, <1>45 DEF KillInv

(* The line of leaves where the root has moved to page p: the first leaf   *)
(* may have been the root.                                                 *)
LEMMA LineMoved ==
  ASSUME NEW d, NEW line, NEW n, NEW left, Home(d, line, n, left),
         NEW p \in DOMAIN file, file[p] = file[0], 0 \in DOMAIN file, Off(d, line, p), p # 0,
         NEW page, Write(0, page), UNCHANGED live, line[d] # 0,
         NEW moved, moved[1] = p, \A i \in 2..n : moved[i] = left[i]
  PROVE  \E new : /\ LeafLine(file', d, new) /\ moved[n] = new[1] /\ new[d] = line[d]
                  /\ \A id \in live' : Shown(d, CellsOf(file', d, new), id)
                  /\ \A i \in 1..d : new[i] = p \/ new[i] = line[i]
<1>1. LeafLine(file, d, line) /\ LeftPath(file, n, left) /\ left[n] = line[1]
      /\ \A id \in live : Shown(d, CellsOf(file, d, line), id)
  BY DEF Home
<1>2. /\ d \in Nat /\ d # 0 /\ d \in 1..d /\ 1 \in 1..d /\ PathIn(file, d, line)
      /\ \A i \in 1..d : line[i] \in DOMAIN file /\ file[line[i]].type = "leaf"
      /\ \A i \in 1..d-1 : i \in 1..d /\ i+1 \in 1..d /\ file[line[i]].right = line[i+1]
      /\ \A i, j \in 1..d : line[i] = line[j] => i = j
  BY <1>1, LinePlaces
<1>3. /\ n \in Nat \ {0} /\ left[1] = 0 /\ 1 \in 1..n
      /\ \A i, j \in 1..n : left[i] = left[j] => i = j
      /\ \A i \in 1..n-1 : BeginsWith(file[left[i]], left[i+1])
  BY <1>1 DEF LeftPath, PathIn, Different
<1>4. /\ DOMAIN file \subseteq DOMAIN file'
      /\ \A x \in DOMAIN file : x # 0 => file'[x] = file[x]
  BY WriteEffect
<1>5. \E new : /\ PathIn(file, d, new) /\ moved[n] = new[1] /\ new[d] = line[d]
               /\ \A i \in 1..d : (new[i] = p \/ new[i] = line[i]) /\ new[i] # 0
                                  /\ file[new[i]] = file[line[i]]
               /\ \A i \in 2..d : new[i] = line[i]
  <2>1. CASE n = 1
    <3>1. line[1] = 0 /\ moved[n] = p
      BY <1>1, <1>3, <2>1
    <3>2. PICK new : new = Instead(d, line, p)
      OBVIOUS
    <3>3. PathIn(file, d, new) /\ new[1] = p /\ \A i \in 2..d : new[i] = line[i]
      BY <1>2, <3>2, PathInstead
    <3>4. \A i \in 2..d : i \in 1..d /\ line[i] # 0
      BY <1>2, <3>1
    <3>5. \A i \in 1..d : i = 1 \/ i \in 2..d
      BY <1>2
    <3>6. \A i \in 1..d : (new[i] = p \/ new[i] = line[i]) /\ new[i] # 0
                          /\ file[new[i]] = file[line[i]]
      BY <3>1, <3>3, <3>4, <3>5
    <3>7. new[d] = line[d]
      <4>1. d # 1
        BY <3>1
      <4>2. d \in 2..d
        BY <1>2, <4>1
      <4> QED BY <3>3, <4>2
    <3> QED BY <3>1, <3>3, <3>6, <3>7
  <2>2. CASE n # 1
    <3>1. n \in 2..n /\ 1 \in 1..n-1
      BY <1>3, <2>2
    <3>2. file[0].type # "leaf" /\ moved[n] = line[1]
      BY <1>1, <1>3, <3>1 DEF BeginsWith
    <3>3. \A i \in 1..d : line[i] # 0
      BY <1>2, <3>2
    <3>4. \A i \in 2..d : i \in 1..d
      BY <1>2
    <3> QED BY <1>2, <3>2, <3>3, <3>4
  <2> QED BY <2>1, <2>2
<1>6. PICK new : /\ PathIn(file, d, new) /\ moved[n] = new[1] /\ new[d] = line[d]
                 /\ \A i \in 1..d : (new[i] = p \/ new[i] = line[i]) /\ new[i] # 0
                                    /\ file[new[i]] = file[line[i]]
                 /\ \A i \in 2..d : new[i] = line[i]
  BY <1>5
<1>7. \A i \in 1..d : file'[new[i]] = file[line[i]]
  <2> TAKE i \in 1..d
  <2>1. new[i] \in DOMAIN file
    BY <1>6 DEF PathIn
  <2> QED BY <1>4, <1>6, <2>1
<1>8. \A i \in 1..d-1 : file'[new[i]].right = new[i+1]
  <2> TAKE i \in 1..d-1
  <2>1. i \in 1..d /\ i+1 \in 2..d /\ file[line[i]].right = line[i+1]
    BY <1>2
  <2> QED BY <1>6, <1>7, <2>1
<1>9. PathIn(file', d, new)
  BY <1>4, <1>6, PathKept
<1>10. LeafLine(file', d, new)
  BY <1>2, <1>7, <1>8, <1>9 DEF LeafLine
<1>11. CellsOf(file', d, new) = CellsOf(file, d, line)
  BY <1>7 DEF CellsOf
<1>12. \A id \in live' : Shown(d, CellsOf(file', d, new), id)
  BY <1>1, <1>11
<1> QED BY <1>6, <1>10, <1>12

(* The new root is written over page 0 (table.cpp:104).                    *)
LEMMA KillNewRoot ==
  ASSUME KillInv, NewRoot, Sound' PROVE KillInv'
<1>1. PICK m, path, c, chain, n, left : Phase(m, path, c, chain, n, left)
  BY DEF KillInv
<1>2. PICK p : p = PageCount
  OBVIOUS
<1>3. PICK page : page = WithSplit(NewPage("interior"), p)
  OBVIOUS
<1>4. /\ pc = "root" /\ pc' = "count_root" /\ Write(0, page)
      /\ UNCHANGED <<table, op, frames, split, live>>
  BY <1>2, <1>3 DEF NewRoot
<1>5. /\ Sound /\ TypeOK /\ FramesInv /\ Moved /\ SplitRow /\ Parted(m, path, c, chain, n, left)
  BY <1>1, <1>4 DEF KillInv, KillSide, Phase, Sound
<1>6. p \in Nat /\ Top = p /\ Top' = p+1
  BY <1>2, <1>4, <1>5, Busy DEF Top, PageCount
<1>7. PICK r, q : Parting(r, q, c, chain)
  BY <1>5 DEF Parted
<1>8. Stands(m, path, c, chain, n, left) /\ Home(c, chain, n, left) /\ Under(p, c, chain) /\ Under(p, n, left)
  BY <1>5, <1>6 DEF Parted, Stands
<1>9. /\ RightPath(file, split.no, r, q) /\ Under(p, r, q) /\ file[chain[c]].right = q[r]
      /\ Off(c, chain, q[r]) /\ file[q[r]].type = "leaf" /\ file[q[r]].cells = <<entry.next_row_id>>
      /\ \A k \in 1..Len(frames) : Off(r, q, frames[k].no)
  BY <1>4, <1>6, <1>7 DEF Parting, Linking
<1>10. /\ file[p] = file[0] /\ 0 \in DOMAIN file /\ p \in DOMAIN file /\ Off(r, q, 0)
  <2>1. frames[1].no = 0 /\ frames[1].no \in DOMAIN file /\ Current = frames[Len(frames)] /\ 1 \in 1..Len(frames)
    BY <1>4, <1>5, KillFrames
  <2>2. Len(frames) = 1 /\ p \in DOMAIN file /\ file[p] = Current.page
    BY <1>2, <1>4, <1>5 DEF Moved, AtRoot
  <2>3. file[frames[1].no] = frames[1].page
    BY <1>4, <1>5, <2>1 DEF FramesInv, FramesCopied
  <2> QED BY <1>9, <2>1, <2>2, <2>3
<1>11. entry'.next_row_id = entry.next_row_id
  <2>1. entry' \in {op.own, entry}
    BY <1>5, NewRootEntry
  <2> QED BY <1>4, <1>5, <2>1 DEF Sound, EntryIsCurrent
<1>12. /\ r \in 1..r /\ q[r] \in DOMAIN file /\ \A i \in 1..r : q[i] \in DOMAIN file /\ q[i] \in Nat
  <2>1. (\A i \in 1..r : q[i] \in DOMAIN file) /\ r \in 1..r
    BY <1>9, WayPlaces
  <2> QED BY <1>5, <2>1 DEF TypeOK
<1>13. /\ (\A i \in 1..c : chain[i] \in Nat) /\ (\A i \in 1..n : left[i] \in Nat)
  BY <1>5, <1>8, PlacesInNat
<1>14. PICK d : d = c+1
  OBVIOUS
<1>15. PICK line : line = Longer(c, chain, q[r])
  OBVIOUS
<1>16. /\ Home(d, line, n, left) /\ d \in 1..d /\ line[d] = q[r] /\ d \in Nat
       /\ \A i \in 1..d : line[i] = q[r] \/ \E j \in 1..c : line[i] = chain[j]
  BY <1>8, <1>9, <1>12, <1>14, <1>15, HomeLonger
<1>17. \A i \in 1..d : line[i] \in Nat /\ line[i] < p
  BY <1>8, <1>9, <1>12, <1>13, <1>16 DEF Under
<1>18. Off(d, line, p)
  BY <1>6, <1>17 DEF Off
<1>19. Off(n, left, p)
  BY <1>6, <1>8, <1>13, UnderOff
<1>20. LeftPath(file, n, left) /\ n \in Nat \ {0} /\ left[1] = 0 /\ 1 \in 1..n
  BY <1>8 DEF Home, LeftPath, PathIn
<1>21. p # 0 /\ line[d] # 0
  BY <1>10, <1>12, <1>16, <1>19, <1>20 DEF Off
<1>22. PICK moved : moved = Instead(n, left, p)
  OBVIOUS
<1>23. PICK other : other = Before(n, moved, 0)
  OBVIOUS
<1>24. PICK l : l = n+1
  OBVIOUS
<1>25. /\ LeftPath(file', l, other) /\ other[l] = moved[n]
       /\ moved[1] = p /\ \A i \in 2..n : moved[i] = left[i]
       /\ other[1] = 0 /\ \A i \in 1..n : other[i+1] = moved[i]
  <2>1. split.min_row_id # 0
    BY <1>4, <1>5 DEF SplitRow, Whole
  <2> QED BY <1>3, <1>4, <1>10, <1>19, <1>20, <1>22, <1>23, <1>24, <2>1, LeftPathNewRoot
<1>26. PICK new : /\ LeafLine(file', d, new) /\ moved[n] = new[1] /\ new[d] = line[d]
                  /\ \A id \in live' : Shown(d, CellsOf(file', d, new), id)
                  /\ \A i \in 1..d : new[i] = p \/ new[i] = line[i]
  <2>1. UNCHANGED live
    BY <1>4
  <2> QED BY <1>4, <1>10, <1>16, <1>18, <1>21, <1>25, <2>1, LineMoved
<1>27. Home(d, new, l, other)'
  BY <1>25, <1>26 DEF Home
<1>28. /\ DOMAIN file' = DOMAIN file \union {0} /\ file'[0] = page
       /\ \A x \in DOMAIN file : x # 0 => file'[x] = file[x]
  BY <1>4, WriteEffect
<1>29. PICK way : way = Before(r, q, 0)
  OBVIOUS
<1>30. PICK k : k = r+1
  OBVIOUS
<1>31. /\ RightPath(file', 0, k, way) /\ way[k] = q[r]
       /\ \A x : Off(r, q, x) /\ x # 0 => Off(k, way, x)
  <2>1. RightPath(file', split.no, r, q)
    BY <1>4, <1>9, <1>10, RightPathStays
  <2>2. EndsWith(file'[0], split.no) /\ 0 \in DOMAIN file'
    <3>1. page.type = "interior" /\ page.right = split.no
      BY <1>3 DEF WithSplit, SetRight, AppendCell, NewPage
    <3> QED BY <1>28, <3>1 DEF EndsWith
  <2> QED BY <1>10, <1>29, <1>30, <2>1, <2>2, RightPathBefore
<1>32. Under(p+1, k, way)
  <2> SUFFICES ASSUME NEW i \in 1..k PROVE way[i] < p+1
    BY DEF Under
  <2>1. PICK x : x = way[i]
    OBVIOUS
  <2>2. CASE x = 0
    BY <1>6, <2>1, <2>2
  <2>3. CASE x # 0
    <3>1. ~ Off(k, way, x)
      BY <2>1 DEF Off
    <3>2. PICK j \in 1..r : q[j] = x
      BY <1>31, <2>3, <3>1 DEF Off
    <3>3. x \in Nat /\ x < p
      BY <1>9, <1>12, <3>2 DEF Under
    <3> QED BY <1>6, <2>1, <3>3
  <2> QED BY <2>2, <2>3
<1>33. Under(p+1, d, new)
  <2> SUFFICES ASSUME NEW i \in 1..d PROVE new[i] < p+1
    BY DEF Under
  <2> QED BY <1>6, <1>17, <1>26
<1>34. Under(p+1, l, other)
  <2> SUFFICES ASSUME NEW i \in 1..l PROVE other[i] < p+1
    BY DEF Under
  <2>1. CASE i = 1
    BY <1>6, <1>25, <2>1
  <2>2. CASE i # 1
    <3>1. PICK j : j = i-1
      OBVIOUS
    <3>2. j \in 1..n /\ i = j+1 /\ (j = 1 \/ j \in 2..n)
      BY <1>20, <1>24, <2>2, <3>1
    <3>3. other[i] = p \/ other[i] = left[j]
      BY <1>25, <3>2
    <3>4. left[j] \in Nat /\ left[j] < p
      BY <1>8, <1>13, <3>2 DEF Under
    <3> QED BY <1>6, <3>3, <3>4
  <2> QED BY <2>1, <2>2
<1>35. file'[q[r]] = file[q[r]]
  BY <1>12, <1>16, <1>21, <1>28
<1>36. /\ Stops(file[q[r]])' /\ RowsBelow(file'[q[r]], entry'.next_row_id + 1)
       /\ ShownIn(file'[q[r]].cells, entry'.next_row_id)
  <2>1. entry'.next_row_id = entry.next_row_id /\ entry.next_row_id \in Nat
    BY <1>5, <1>11, NextId
  <2>2. file'[q[r]].type = "leaf" /\ file'[q[r]].cells = <<entry'.next_row_id>>
    BY <1>9, <1>11, <1>35
  <2>3. /\ file'[q[r]].cells # << >> /\ Last(file'[q[r]].cells) = entry'.next_row_id
        /\ ShownIn(file'[q[r]].cells, entry'.next_row_id)
        /\ RowsBelow(file'[q[r]], entry'.next_row_id + 1)
    BY <2>1, <2>2, OneRow
  <2>4. Stops(file[q[r]])'
    BY <2>1, <2>2, <2>3 DEF Stops
  <2> QED BY <2>3, <2>4
<1>37. Ending(k, way, d, new, l, other)'
  <2>1. Under(Top', k, way) /\ Under(Top', d, new) /\ Under(Top', l, other)
    BY <1>6, <1>32, <1>33, <1>34
  <2>2. new[d] = q[r] /\ way[k] = new[d]
    BY <1>16, <1>26, <1>31
  <2> QED BY <1>27, <1>31, <1>36, <2>1, <2>2 DEF Ending
<1>38. Phase(k, way, d, new, l, other)'
  BY <1>4, <1>37 DEF Phase
<1>39. KillSide'
  BY <1>4 DEF KillSide, FramesInv, FramesLinked, FramesCopied, Changed, LosesRight, Moved,
              SplitRow, Whole, Linking
<1> QED BY <1>38, <1>39 DEF KillInv

-----------------------------------------------------------------------------
(* The append ends: its row is one of those that are acknowledged.         *)

(* setNextRowId, the last write of an append (table.cpp:122).              *)
LEMMA KillFinish ==
  ASSUME KillInv, Finish, Sound' PROVE KillInv'
<1>1. PICK m, path, c, chain, n, left : Phase(m, path, c, chain, n, left)
  BY DEF KillInv
<1>2. PICK id : id = entry.next_row_id
  OBVIOUS
<1>3. pc = "finish" /\ pc' = "idle" /\ frames' = << >> /\ UNCHANGED file
      /\ entry' = [entry EXCEPT !.next_row_id = RowIdToAppend + 1]
      /\ live' = live \union {RowIdToAppend}
  BY DEF Finish, Throw
<1>4. Sound /\ Ending(m, path, c, chain, n, left)
  BY <1>1, <1>3 DEF KillInv, Phase
<1>5. RowIdToAppend = id /\ PageCount = entry.page_count /\ Top = entry.page_count
      /\ entry \in Entry
  BY <1>2, <1>3, <1>4, Busy DEF Sound, EntryIsCurrent, Top, TypeOK
<1>6. entry'.next_row_id = id+1 /\ entry'.page_count = entry.page_count /\ live' = live \union {id}
  BY <1>3, <1>5 DEF Entry
<1>7. /\ Home(c, chain, n, left) /\ RightPath(file, 0, m, path) /\ path[m] = chain[c]
      /\ ShownIn(file[chain[c]].cells, id) /\ RowsBelow(file[chain[c]], id + 1)
      /\ Under(Top, m, path) /\ Under(Top, c, chain) /\ Under(Top, n, left)
  BY <1>2, <1>4 DEF Ending
<1>8. Home(c, chain, n, left)'
  <2>1. LeafLine(file', c, chain) /\ LeftPath(file', n, left) /\ left[n] = chain[1]
    BY <1>3, <1>7 DEF Home
  <2>2. c \in 1..c
    BY <1>7, HomePlaces, LinePlaces
  <2>3. \A x \in live' : Shown(c, CellsOf(file', c, chain), x)
    <3> TAKE x \in live'
    <3>1. CASE x \in live
      BY <1>3, <1>7, <3>1 DEF Home
    <3>2. CASE x = id
      BY <1>3, <1>7, <2>2, <3>2 DEF Shown, CellsOf
    <3> QED BY <1>6, <3>1, <3>2
  <2> QED BY <2>1, <2>3 DEF Home
<1>9. Open(m, path, c, chain, n, left)'
  BY <1>3, <1>5, <1>6, <1>7 DEF Open
<1>10. Stands(m, path, c, chain, n, left)'
  BY <1>3, <1>7, <1>8, <1>9 DEF Stands
<1>11. Phase(m, path, c, chain, n, left)'
  BY <1>3, <1>10 DEF Phase, OnTheWay
<1>12. KillSide'
  BY <1>3 DEF KillSide, FramesInv, FramesLinked, FramesCopied, Changed, LosesRight, Moved,
              SplitRow, Whole, Linking
<1> QED BY <1>11, <1>12 DEF KillInv

(* What a delete leaves of a leaf.                                         *)
LEMMA CellsLeft ==
  ASSUME NEW cells \in Seq(Nat), NEW k \in 1..Len(cells), NEW rest, rest = RemoveAt(cells, k)
  PROVE  /\ \A id : ShownIn(cells, id) /\ id # cells[k] => ShownIn(rest, id)
         /\ k # Len(cells) => rest # << >> /\ Last(rest) = Last(cells)
<1>1. /\ rest \in Seq(Nat) /\ Len(rest) = Len(cells)-1 /\ Len(cells) \in Nat
      /\ \A j \in 1..Len(cells)-1 : rest[j] = IF j < k THEN cells[j] ELSE cells[j+1]
  BY RemoveAtProperties, LenProperties
<1>2. ASSUME NEW id, ShownIn(cells, id), id # cells[k] PROVE ShownIn(rest, id)
  <2>1. PICK i \in 1..Len(cells) : cells[i] = id
    BY <1>2 DEF ShownIn
  <2>2. i # k /\ i \in Nat /\ k \in Nat
    BY <1>2, <2>1
  <2>3. CASE i < k
    <3>1. i \in 1..Len(cells)-1 /\ rest[i] = id
      BY <1>1, <2>1, <2>2, <2>3
    <3> QED BY <1>1, <3>1 DEF ShownIn
  <2>4. CASE i > k
    <3>1. PICK j : j = i-1
      OBVIOUS
    <3>2. j \in 1..Len(cells)-1 /\ ~ (j < k) /\ j+1 = i
      BY <1>1, <2>1, <2>2, <2>4, <3>1
    <3>3. rest[j] = id
      BY <1>1, <2>1, <3>2
    <3> QED BY <1>1, <3>2, <3>3 DEF ShownIn
  <2> QED BY <2>2, <2>3, <2>4
<1>3. ASSUME k # Len(cells) PROVE rest # << >> /\ Last(rest) = Last(cells)
  <2>1. PICK j : j = Len(cells)-1
    OBVIOUS
  <2>2. j \in 1..Len(cells)-1 /\ ~ (j < k) /\ j+1 = Len(cells) /\ Len(rest) = j /\ j # 0
    <3>1. PICK l : l = Len(cells)
      OBVIOUS
    <3>2. l \in Nat /\ k \in 1..l /\ k # l /\ j = l-1 /\ Len(rest) = l-1
      BY <1>1, <1>3, <2>1, <3>1
    <3>3. j \in 1..l-1 /\ ~ (j < k) /\ j+1 = l /\ j # 0
      BY <3>2
    <3> QED BY <3>1, <3>2, <3>3
  <2>3. rest[j] = cells[Len(cells)]
    BY <1>1, <2>2
  <2> QED BY <2>2, <2>3, EmptySeq DEF Last
<1> QED BY <1>2, <1>3

(* A row that was acknowledged is deleted.  If it were the row of a        *)
(* statement that was killed, the leaf could be open to a new append.      *)
LEMMA KillDelete ==
  ASSUME KillInv, NEW h, Delete(h), live' # live, Sound' PROVE KillInv'
<1>1. PICK m, path, c, chain, n, left : Phase(m, path, c, chain, n, left)
  BY DEF KillInv
<1>2. pc = "idle" /\ pc' = "idle" /\ UNCHANGED <<entry, table, op, frames, split>>
  BY DEF Delete
<1>3. PICK leaf \in Leaves \intersect ToSet(ScannedLeaves) :
         \E i \in DOMAIN file[leaf].cells :
            /\ Write(leaf, DeleteRecord(file[leaf], i))
            /\ live' = live \ {file[leaf].cells[i]}
  BY DEF Delete
<1>4. PICK k \in DOMAIN file[leaf].cells : /\ Write(leaf, DeleteRecord(file[leaf], k))
                                           /\ live' = live \ {file[leaf].cells[k]}
  BY <1>3
<1>5. Sound /\ Stands(m, path, c, chain, n, left)
  BY <1>1, <1>2 DEF KillInv, Phase
<1>6. leaf \in DOMAIN file /\ file[leaf] \in LeafPage /\ file[leaf].type = "leaf"
  BY <1>3, <1>5, PageKinds DEF Leaves, Sound, TypeOK
<1>7. PICK page : page = DeleteRecord(file[leaf], k)
  OBVIOUS
<1>8. PICK cells : cells = file[leaf].cells
  OBVIOUS
<1>9. /\ page.type = "leaf" /\ page.right = file[leaf].right
      /\ page.cells = RemoveAt(cells, k) /\ Write(leaf, page)
  BY <1>4, <1>6, <1>7, <1>8 DEF DeleteRecord, LeafPage
<1>10. cells \in Seq(Nat) /\ k \in 1..Len(cells)
  BY <1>4, <1>6, <1>8, LenProperties DEF LeafPage, RowId
<1>11. PICK id \in Nat : id = entry.next_row_id
  BY <1>5, NextId
<1>12. cells[k] \in live /\ cells[k] < id
  <2>1. cells[k] \in live
    BY <1>4, <1>8
  <2> QED BY <1>5, <1>11, <2>1 DEF Sound, LiveBelow
<1>13. PICK rest : rest = RemoveAt(cells, k)
  OBVIOUS
<1>14. /\ \A x : ShownIn(cells, x) /\ x # cells[k] => ShownIn(rest, x)
       /\ k # Len(cells) => rest # << >> /\ Last(rest) = Last(cells)
  BY <1>10, <1>13, CellsLeft
<1>15. /\ file'[leaf] = page
       /\ \A x \in DOMAIN file : x # leaf => file'[x] = file[x]
  BY <1>9, WriteEffect
<1>16. /\ Home(c, chain, n, left) /\ RightPath(file, 0, m, path)
       /\ Stops(file[path[m]]) \/ Open(m, path, c, chain, n, left)
  BY <1>5 DEF Stands
<1>17. Home(c, chain, n, left)'
  <2>1. live' \subseteq live /\ \A x \in live' : ShownIn(file[leaf].cells, x) => ShownIn(page.cells, x)
    BY <1>4, <1>8, <1>9, <1>13, <1>14
  <2> QED BY <1>6, <1>9, <1>16, <2>1, HomeRewritten
<1>18. RightPath(file', 0, m, path)
  BY <1>6, <1>9, <1>16, RightPathStays
<1>19. ASSUME Stops(file[path[m]]) PROVE Stops(file[path[m]])'
  <2>1. CASE path[m] = leaf
    <3>1. cells # << >> /\ Last(cells) >= id
      BY <1>6, <1>8, <1>11, <1>19, <2>1 DEF Stops
    <3>2. k # Len(cells)
      <4>1. k = Len(cells) => Last(cells) = cells[k]
        BY DEF Last
      <4>2. cells[k] \in Nat
        BY <1>10, ElementOfSeq
      <4> QED BY <1>11, <1>12, <3>1, <4>1, <4>2
    <3>3. page.cells # << >> /\ Last(page.cells) >= id
      BY <1>9, <1>13, <1>14, <3>1, <3>2
    <3>4. Stops(page)'
      BY <1>2, <1>9, <1>11, <3>3 DEF Stops
    <3> QED BY <1>15, <2>1, <3>4
  <2>2. CASE path[m] # leaf
    <3>1. path[m] \in DOMAIN file
      BY <1>16, WayPlaces
    <3>2. file'[path[m]] = file[path[m]]
      BY <1>15, <2>2, <3>1
    <3> QED BY <1>2, <1>19, <3>2 DEF Stops
  <2> QED BY <2>1, <2>2
<1>20. ASSUME Open(m, path, c, chain, n, left) PROVE Open(m, path, c, chain, n, left)'
  <2>1. RowsBelow(file[chain[c]], id) /\ chain[c] \in DOMAIN file
    BY <1>11, <1>16, <1>20, HomePlaces DEF Open
  <2>2. RowsBelow(file'[chain[c]], id)
    <3>1. CASE chain[c] = leaf
      <4>1. RowsBelow(page, id)
        BY <1>4, <1>6, <1>7, <2>1, <3>1, DeleteRecordRows
      <4> QED BY <1>15, <3>1, <4>1
    <3>2. CASE chain[c] # leaf
      BY <1>15, <2>1, <3>2
    <3> QED BY <3>1, <3>2
  <2> QED BY <1>2, <1>11, <1>20, <2>2 DEF Open
<1>21. Stops(file[path[m]])' \/ Open(m, path, c, chain, n, left)'
  BY <1>16, <1>19, <1>20
<1>22. Stands(m, path, c, chain, n, left)'
  BY <1>17, <1>18, <1>21 DEF Stands
<1>23. Phase(m, path, c, chain, n, left)'
  BY <1>2, <1>22 DEF Phase, OnTheWay
<1>24. KillSide'
  BY <1>2 DEF KillSide, FramesInv, FramesLinked, FramesCopied, Changed, LosesRight, Moved,
              SplitRow, Whole, Linking
<1> QED BY <1>23, <1>24 DEF KillInv

-----------------------------------------------------------------------------
(* The line of leaves through every step.                                  *)

(* Steps that leave all variables alone.                                   *)
LEMMA KillStutters ==
  ASSUME KillInv, UNCHANGED vars, Sound' PROVE KillInv'
<1>1. PICK m, path, c, chain, n, left : Phase(m, path, c, chain, n, left)
  BY DEF KillInv
<1>2. UNCHANGED <<file, entry, live, table, op, pc, frames, split>>
  BY DEF vars
<1>3. Top' = Top /\ (Linking <=> Linking') /\ Current' = Current
  BY <1>2 DEF Top, Linking, PageCount, Current
<1>4. Stands(m, path, c, chain, n, left) => Stands(m, path, c, chain, n, left)'
  BY <1>2, StandsSame
<1>5. ASSUME Parted(m, path, c, chain, n, left) PROVE Parted(m, path, c, chain, n, left)'
  <2>1. PICK r, q : Parting(r, q, c, chain)
    BY <1>5 DEF Parted
  <2>2. Parting(r, q, c, chain)'
    BY <1>2, <1>3, <2>1 DEF Parting
  <2> QED BY <1>2, <1>3, <1>4, <1>5, <2>2 DEF Parted
<1>6. Ending(m, path, c, chain, n, left) => Ending(m, path, c, chain, n, left)'
  BY <1>2, <1>3 DEF Ending, Home, Stops
<1>7. OnTheWay(m, path) => OnTheWay(m, path)'
  BY <1>2 DEF OnTheWay
<1>8. Phase(m, path, c, chain, n, left)'
  BY <1>1, <1>2, <1>4, <1>5, <1>6, <1>7 DEF Phase
<1>9. KillSide'
  BY <1>2, <1>3 DEF KillInv, KillSide, FramesInv, FramesLinked, FramesCopied, Changed, LosesRight,
                    Moved, SplitRow, Whole, AtRoot, PageCount
<1> QED BY <1>8, <1>9 DEF KillInv

LEMMA KillInit == ASSUME Init PROVE KillInv
<1>1. TypeOK /\ FramesOK /\ PointersInv /\ EntryIsCurrent
  BY PointersInit, CountInit DEF CountInv
<1>2. /\ file = [p \in {0} |-> NewPage("leaf")] /\ pc = "idle" /\ live = {}
      /\ entry = [page_count |-> 1, next_row_id |-> INITIAL_ROW_ID]
  BY DEF Init
<1>3. entry.next_row_id = 1 /\ entry.page_count = 1
  BY <1>2 DEF INITIAL_ROW_ID
<1>4. IsFiniteSet(DOMAIN file)
  BY <1>2, FS_Singleton
<1>5. Sound
  BY <1>1, <1>2, <1>3, <1>4 DEF Sound, LiveBelow
<1>6. PICK q : q = [i \in 1..1 |-> 0]
  OBVIOUS
<1>7. q[1] = 0 /\ \A i \in 1..1 : i = 1
  BY <1>6
<1>8. PathIn(file, 1, q)
  <2>1. DOMAIN file = {0}
    BY <1>2
  <2> QED BY <1>6, <1>7, <2>1 DEF PathIn, Different
<1>9. file[0].type = "leaf" /\ file[0].cells = << >>
  BY <1>2 DEF NewPage
<1>10. LeafLine(file, 1, q) /\ LeftPath(file, 1, q) /\ RightPath(file, 0, 1, q)
  BY <1>7, <1>8, <1>9 DEF LeafLine, LeftPath, RightPath
<1>11. RowsBelow(file[q[1]], 1)
  <2>1. Len(file[0].cells) = 0
    BY <1>9, EmptySeq
  <2> QED BY <1>7, <2>1 DEF RowsBelow
<1>12. Under(1, 1, q)
  BY <1>7 DEF Under
<1>13. Home(1, q, 1, q)
  BY <1>2, <1>10 DEF Home
<1>14. Open(1, q, 1, q, 1, q)
  BY <1>3, <1>11, <1>12 DEF Open
<1>15. Phase(1, q, 1, q, 1, q)
  BY <1>2, <1>10, <1>13, <1>14 DEF Phase, Stands, OnTheWay
<1>16. KillSide
  BY <1>2 DEF KillSide, FramesInv, FramesLinked, FramesCopied, Changed, LosesRight, Moved,
              SplitRow, Whole, Linking
<1> QED BY <1>5, <1>15, <1>16 DEF KillInv

(* Every step but the DELETE of a row that was never acknowledged.         *)
LEMMA KillStep ==
  ASSUME OneTableObject, KillInv, [CrashNext]_vars, \A h \in Handles : Delete(h) => live' # live
  PROVE  KillInv'
<1>1. Sound /\ Sound'
  BY SoundStep DEF KillInv
<1>2. CASE Crash
  BY <1>1, <1>2, KillQuiet DEF Crash, Throw
<1>3. ASSUME NEW h \in Handles, NEW length \in CellLengths, BeginAppend(h, length) PROVE KillInv'
  <2>1. pc = "idle" /\ pc' = "descend" /\ frames' = frames /\ UNCHANGED <<file, entry, live>>
    BY <1>3 DEF BeginAppend
  <2>2. frames = << >>
    BY <1>1, <2>1 DEF Sound, FramesOK
  <2> QED BY <1>1, <2>1, <2>2, KillQuiet
<1>4. CASE Descend
  BY <1>1, <1>4, KillDescend
<1>5. CASE ReadFails \/ LeafThrows
  BY <1>1, <1>5, KillQuiet DEF ReadFails, LeafThrows, Throw
<1>6. CASE LeafAppend
  BY <1>1, <1>6, KillLeafAppend
<1>7. CASE SplitLeaf
  BY <1>1, <1>7, KillSplitLeaf
<1>8. CASE Relink
  BY <1>1, <1>8, KillRelink
<1>9. CASE CountSplit
  BY <1>1, <1>9, KillCountSplit
<1>10. CASE AbsorbSplit
  BY <1>1, <1>10, KillAbsorb
<1>11. CASE SplitInterior
  BY <1>1, <1>11, KillSplitInterior
<1>12. CASE MoveRoot
  BY <1>1, <1>12, KillMoveRoot
<1>13. CASE NewRoot
  BY <1>1, <1>13, KillNewRoot
<1>14. CASE CountRoot
  BY <1>1, <1>14, KillCountRoot
<1>15. CASE Finish
  BY <1>1, <1>15, KillFinish
<1>16. ASSUME NEW h \in Handles, Delete(h) PROVE KillInv'
  BY <1>1, <1>16, KillDelete
<1>17. CASE UNCHANGED vars
  BY <1>1, <1>17, KillStutters
<1> QED BY <1>2, <1>3, <1>4, <1>5, <1>6, <1>7, <1>8, <1>9, <1>10, <1>11, <1>12, <1>13, <1>14,
           <1>15, <1>16, <1>17 DEF CrashNext, Next, AppendStep

-----------------------------------------------------------------------------
(* A scan, which begins at the leftmost leaf, comes along the whole line.  *)

(* A row of either part of a sequence is one of the whole.                 *)
LEMMA ShownJoined ==
  ASSUME NEW s \in Seq(Nat), NEW t \in Seq(Nat), NEW id, ShownIn(s, id) \/ ShownIn(t, id)
  PROVE  ShownIn(s \o t, id)
<1>1. /\ Len(s) \in Nat /\ Len(t) \in Nat /\ Len(s \o t) = Len(s)+Len(t)
      /\ \A i \in 1..Len(s)+Len(t) : (s \o t)[i] = IF i <= Len(s) THEN s[i] ELSE t[i-Len(s)]
  BY ConcatProperties, LenProperties
<1>2. CASE ShownIn(s, id)
  <2>1. PICK i \in 1..Len(s) : s[i] = id
    BY <1>2 DEF ShownIn
  <2>2. i \in 1..Len(s)+Len(t) /\ i <= Len(s)
    BY <1>1
  <2> QED BY <1>1, <2>1, <2>2 DEF ShownIn
<1>3. CASE ShownIn(t, id)
  <2>1. PICK i \in 1..Len(t) : t[i] = id
    BY <1>3 DEF ShownIn
  <2>2. PICK k : k = i+Len(s)
    OBVIOUS
  <2>3. k \in 1..Len(s)+Len(t) /\ ~ (k <= Len(s)) /\ k-Len(s) = i
    BY <1>1, <2>2
  <2>4. (s \o t)[k] = id
    BY <1>1, <2>1, <2>3
  <2> QED BY <1>1, <2>3, <2>4 DEF ShownIn
<1> QED BY <1>2, <1>3

(* The rows of all leaves of the line come up in a scan from its first.    *)
LEMMA RowsReached ==
  ASSUME NEW n \in Nat, NEW part, \A p \in LeavesOf(file) : part[p] \in Seq(Nat),
         \A p \in LeavesOf(file) : file[p].right \in PageNo, DOMAIN file \subseteq PageNo,
         NEW f, Follows(f, file, part, n), NEW c, NEW chain, LeafLine(file, c, chain), c <= n,
         NEW id, NEW l \in 1..c, ShownIn(part[chain[l]], id)
  PROVE  ShownIn(f[n][chain[1]], id)
<1>1. /\ c \in Nat /\ 1 \in 1..c
      /\ \A i \in 1..c : chain[i] \in PageNo /\ chain[i] \in LeavesOf(file)
      /\ \A i \in 1..c-1 : i+1 \in 1..c /\ file[chain[i]].right = chain[i+1]
  BY LinePlaces DEF LeavesOf
<1>2. \A d \in 0..n : \A p \in PageNo : f[d][p] \in Seq(Nat)
  BY FollowsType
<1>3. PICK A : A = {d \in 0..n : \A i \in 1..l : l-i < d => ShownIn(f[d][chain[i]], id)}
  OBVIOUS
<1>4. 0 \in A
  <2>1. \A i \in 1..l : ~ (l-i < 0)
    OBVIOUS
  <2> QED BY <1>3, <2>1
<1>5. ASSUME NEW d \in 0..n-1, d \in A PROVE d+1 \in A
  <2>1. PICK e : e = d+1
    OBVIOUS
  <2>2. e \in 0..n /\ e # 0 /\ e-1 = d /\ d \in 0..n
    BY <2>1
  <2>3. ASSUME NEW i \in 1..l, l-i < e PROVE ShownIn(f[e][chain[i]], id)
    <3>1. i \in 1..c /\ (i # l => i \in 1..c-1 /\ i+1 \in 1..l)
      BY <1>1
    <3>2. chain[i] \in PageNo /\ chain[i] \in LeavesOf(file)
      BY <1>1, <3>1
    <3>3. PICK g : g = f[d][file[chain[i]].right]
      OBVIOUS
    <3>4. f[e][chain[i]] = part[chain[i]] \o g
      BY <2>2, <3>2, <3>3 DEF Follows
    <3>5. g \in Seq(Nat) /\ part[chain[i]] \in Seq(Nat)
      BY <1>2, <2>2, <3>2, <3>3
    <3>6. ShownIn(part[chain[i]], id) \/ ShownIn(g, id)
      <4>1. CASE i = l
        BY <4>1
      <4>2. CASE i # l
        <5>1. PICK k : k = i+1
          OBVIOUS
        <5>2. k \in 1..l /\ l-k < d /\ file[chain[i]].right = chain[k]
          BY <1>1, <2>1, <2>3, <3>1, <4>2, <5>1
        <5>3. ShownIn(f[d][chain[k]], id)
          BY <1>3, <1>5, <5>2
        <5> QED BY <3>3, <5>2, <5>3
      <4> QED BY <4>1, <4>2
    <3> QED BY <3>4, <3>5, <3>6, ShownJoined
  <2> QED BY <1>3, <2>1, <2>2, <2>3
<1>6. 0..n \subseteq A
  BY <1>4, <1>5, UpTo
<1>7. n \in A /\ 1 \in 1..l /\ l-1 < n
  BY <1>1, <1>6
<1> QED BY <1>3, <1>7

(* So acknowledged rows are shown.                                         *)
LEMMA HomeScanned ==
  ASSUME Sound, NEW c, NEW chain, NEW n, NEW left, Home(c, chain, n, left)
  PROVE  AckedRowsSurvive
<1>1. LeafLine(file, c, chain) /\ LeftPath(file, n, left) /\ left[n] = chain[1]
      /\ \A id \in live : Shown(c, CellsOf(file, c, chain), id)
  BY DEF Home
<1>2. PICK m : m = Cardinality(DOMAIN file)
  OBVIOUS
<1>3. /\ m \in Nat /\ IsFiniteSet(DOMAIN file) /\ DOMAIN file \subseteq PageNo
      /\ \A p \in LeavesOf(file) : /\ p \in PageNo /\ file[p].right \in PageNo
                                   /\ file[p].cells \in Seq(RowId)
  BY <1>2, FilePages DEF Sound
<1>4. /\ c \in Nat /\ 1 \in 1..c /\ PathIn(file, c, chain)
      /\ \A i \in 1..c : chain[i] \in DOMAIN file /\ file[chain[i]].type = "leaf"
  BY <1>1, LinePlaces
<1>5. LeafByRowId(0) = chain[1]
  BY <1>1, <1>4, FirstLeafFound DEF Sound
<1>6. PICK first \in PageNo : first = chain[1]
  BY <1>3, <1>4
<1>7. PICK part : part = [p \in PageNo |-> file[p].cells]
  OBVIOUS
<1>8. PICK f : /\ Follows(f, file, part, m) /\ RowsFrom(first) = f[m][first]
               /\ f[m][first] \in Seq(RowId)
  BY <1>2, <1>3, <1>7, RowsFromFollows
<1>9. ScannedRows = f[m][chain[1]] /\ ScannedRows \in Seq(RowId)
  BY <1>5, <1>6, <1>8 DEF ScannedRows
<1>10. c <= m
  BY <1>2, <1>3, <1>4, PathFits
<1>11. ASSUME NEW id \in live PROVE ShownIn(ScannedRows, id)
  <2>1. PICK l \in 1..c : ShownIn(file[chain[l]].cells, id)
    BY <1>1 DEF Shown, CellsOf
  <2>2. part[chain[l]] = file[chain[l]].cells
    BY <1>3, <1>4, <1>7
  <2>3. ShownIn(part[chain[l]], id)
    BY <2>1, <2>2
  <2>4. \A p \in LeavesOf(file) : part[p] \in Seq(Nat)
    BY <1>3, <1>7 DEF RowId
  <2>5. \A p \in LeavesOf(file) : file[p].right \in PageNo
    BY <1>3
  <2>6. ShownIn(f[m][chain[1]], id)
    BY <1>1, <1>3, <1>8, <1>10, <2>3, <2>4, <2>5, RowsReached
  <2> QED BY <1>9, <2>6
<1>12. DOMAIN ScannedRows = 1..Len(ScannedRows)
  BY <1>9, LenProperties
<1> QED BY <1>11, <1>12 DEF AckedRowsSurvive, ToSet, ShownIn

(* Every DELETE selects rows whose INSERT has returned: a row of an INSERT *)
(* that was killed, which a scan may show, is left alone.                  *)
DeletesAcked == [][\A h \in Handles : Delete(h) => live' # live]_vars

(* The rows whose INSERT has returned, and which no DELETE has removed,    *)
(* are in every scan, wherever in an append the process was killed, and    *)
(* whatever came after: appendRecord (table.cpp:91-122,                    *)
(* table_leaf_page.cpp:332-363, table_interior_page.cpp:84-121) has the    *)
(* new pages on disk before the pages that lead to them, and counts them   *)
(* last.                                                                   *)
THEOREM AckedRowsStay ==
  ASSUME OneTableObject PROVE CrashSpec /\ DeletesAcked => []AckedRowsSurvive
<1> DEFINE Careful == \A h \in Handles : Delete(h) => live' # live
<1>1. Init => KillInv
  BY KillInit
<1>2. KillInv /\ [CrashNext]_vars /\ [Careful]_vars => KillInv'
  <2> SUFFICES ASSUME KillInv, [CrashNext]_vars, [Careful]_vars PROVE KillInv'
    OBVIOUS
  <2>1. CASE Careful
    BY <2>1, KillStep
  <2>2. CASE UNCHANGED vars
    <3>1. Sound'
      BY SoundStep DEF KillInv
    <3> QED BY <2>2, <3>1, KillStutters
  <2> QED BY <2>1, <2>2
<1>3. KillInv => AckedRowsSurvive
  <2> SUFFICES ASSUME KillInv PROVE AckedRowsSurvive
    OBVIOUS
  <2>1. PICK m, path, c, chain, n, left : Phase(m, path, c, chain, n, left)
    BY DEF KillInv
  <2>2. Sound /\ Home(c, chain, n, left)
    BY <2>1, PhaseStands DEF KillInv, Stands
  <2> QED BY <2>2, HomeScanned
<1> QED BY <1>1, <1>2, <1>3, PTL DEF CrashSpec, DeletesAcked

(* Without a DELETE, the same of every behaviour.                          *)
THEOREM InsertedRowsStay ==
  ASSUME OneTableObject, Deletable = {} PROVE CrashSpec => []AckedRowsSurvive
<1>1. [CrashNext]_vars => [\A h \in Handles : Delete(h) => live' # live]_vars
  BY DEF Delete
<1> QED BY <1>1, AckedRowsStay, PTL DEF CrashSpec, DeletesAcked
=============================================================================
