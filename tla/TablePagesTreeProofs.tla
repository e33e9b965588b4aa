------------------------- MODULE TablePagesTreeProofs -------------------------
(***************************************************************************)
(* The tree of a table file above its chain of leaves.  Each page stands   *)
(* for consecutive leaves of the chain, an interior page for those of its  *)
(* children one behind the other; between statements page 0 stands for     *)
(* them all.                                                               *)
(***************************************************************************)
EXTENDS TablePagesScanProofs

-----------------------------------------------------------------------------
(* The leaves have numbers, in the order of the tree: the last is t, and   *)
(* order gives their pages.  The span of a page is the number of its first *)
(* and of its last leaf, and its height above the leaves.  Closed are the  *)
(* pages below some interior page's cells: appends do not change them any  *)
(* more.  Open are the pages on the path that the next append takes; what  *)
(* is under them ends with leaf t.                                         *)

Span == [first : Nat \ {0}, last : Nat, height : Nat]

ChildAt(page, i) == page.cells[i].left_child_page_no

(* The last leaf under the cells of an interior page.                      *)
EndOf(page, span) == span[ChildAt(page, Len(page.cells))].last

Behind(span, page_no, end, height) ==
  span[page_no].first = end + 1 /\ span[page_no].height = height

Spread(page, closed, span, first, height) ==
  /\ Len(page.cells) # 0 /\ height # 0
  /\ \A i \in 1..Len(page.cells) :
       ChildAt(page, i) \in closed /\ span[ChildAt(page, i)].height = height - 1
  /\ span[ChildAt(page, 1)].first = first
  /\ \A i \in 1..Len(page.cells)-1 :
       span[ChildAt(page, i+1)].first = span[ChildAt(page, i)].last + 1

InPlace(page, pages, closed, span, order, t, first, height) ==
  /\ page.type = "leaf" =>
       /\ height = 0 /\ first <= t
       /\ page.right # NULL_PAGE_NO =>
            /\ page.right \in pages /\ first < t
            /\ span[page.right].first = first + 1 /\ order[first + 1] = page.right
  /\ page.type # "leaf" => Spread(page, closed, span, first, height)

AsClosed(page_no, page, closed, span, order, s) ==
  /\ page.type = "leaf" => s.last = s.first /\ order[s.first] = page_no
  /\ page.type # "leaf" =>
       \/ page.right = NULL_PAGE_NO /\ s.last = EndOf(page, span)
       \/ /\ page.right \in closed /\ s.last = span[page.right].last
          /\ Behind(span, page.right, EndOf(page, span), s.height - 1)

AsOpen(page_no, page, open, span, order, t, s) ==
  /\ page.type = "leaf" => s.first = t /\ order[t] = page_no
  /\ page.type # "leaf" =>
       page.right \in open /\ Behind(span, page.right, EndOf(page, span), s.height - 1)

TreeSets(pages, closed, open, span, t) ==
  /\ closed \subseteq DOMAIN pages /\ open \subseteq DOMAIN pages
  /\ closed \intersect open = {} /\ 0 \notin closed /\ 0 \in DOMAIN pages
  /\ span \in [DOMAIN pages -> Span] /\ span[0].first = 1 /\ t \in Nat
TreePlaces(pages, closed, span, order, t) ==
  \A p \in DOMAIN pages :
    InPlace(pages[p], DOMAIN pages, closed, span, order, t, span[p].first, span[p].height)
TreeClosed(pages, closed, span, order) ==
  \A p \in closed : AsClosed(p, pages[p], closed, span, order, span[p])
TreeOpen(pages, open, span, order, t) ==
  \A p \in open : AsOpen(p, pages[p], open, span, order, t, span[p])
Tree(pages, closed, open, span, order, t) ==
  /\ TreeSets(pages, closed, open, span, t)
  /\ TreePlaces(pages, closed, span, order, t)
  /\ TreeClosed(pages, closed, span, order)
  /\ TreeOpen(pages, open, span, order, t)

-----------------------------------------------------------------------------
(* More pages and more closed ones, of which the others keep their spans.   *)

AgreeOn(closed, span, new) == \A p \in closed : new[p] = span[p]

LEMMA SpreadKept ==
  ASSUME NEW page, NEW closed, NEW span, NEW first, NEW height,
         Spread(page, closed, span, first, height), Len(page.cells) \in Nat,
         NEW more, closed \subseteq more, NEW new, AgreeOn(closed, span, new)
  PROVE  Spread(page, more, new, first, height) /\ EndOf(page, new) = EndOf(page, span)
<1>1. PICK n : n = Len(page.cells)
  OBVIOUS
<1>2. /\ n \in Nat /\ n # 0 /\ height # 0
      /\ \A i \in 1..n : ChildAt(page, i) \in closed /\ span[ChildAt(page, i)].height = height - 1
      /\ span[ChildAt(page, 1)].first = first
      /\ \A i \in 1..n-1 : span[ChildAt(page, i+1)].first = span[ChildAt(page, i)].last + 1
  BY <1>1 DEF Spread
<1>3. \A i \in 1..n : ChildAt(page, i) \in more /\ new[ChildAt(page, i)] = span[ChildAt(page, i)]
  BY <1>2 DEF AgreeOn
<1>4. 1 \in 1..n /\ n \in 1..n /\ \A i \in 1..n-1 : i \in 1..n /\ i+1 \in 1..n
  BY <1>2
<1>5. /\ \A i \in 1..n : new[ChildAt(page, i)].height = height - 1
      /\ new[ChildAt(page, 1)].first = first
      /\ new[ChildAt(page, n)].last = span[ChildAt(page, n)].last
  BY <1>2, <1>3, <1>4
<1>6. \A i \in 1..n-1 : new[ChildAt(page, i+1)].first = new[ChildAt(page, i)].last + 1
  BY <1>2, <1>3, <1>4
<1> QED BY <1>1, <1>2, <1>3, <1>5, <1>6 DEF Spread, EndOf

(* What one write needs to keep the tree: that of the page written, and of *)
(* the pages it closes and opens.                                          *)
Agree(pages, closed, open, span, new) ==
  /\ AgreeOn(closed, span, new)
  /\ \A p \in open : new[p].height = span[p].height
  /\ \A p \in DOMAIN pages : new[p].first = span[p].first
SameOrder(pages, closed, open, span, order, by) ==
  \A p \in DOMAIN pages :
    pages[p].type = "leaf" =>
      /\ p \in closed \union open => by[span[p].first] = order[span[p].first]
      /\ pages[p].right # NULL_PAGE_NO => by[span[p].first + 1] = order[span[p].first + 1]

CellsCounted(pages) == \A p \in DOMAIN pages : pages[p].type # "leaf" => Len(pages[p].cells) \in Nat
PageWritten(pages, w, page, then) ==
  /\ DOMAIN then = DOMAIN pages \union {w} /\ then[w] = page
  /\ \A p \in DOMAIN pages : p # w => then[p] = pages[p]
SameElsewhere(pages, w, span, new) == \A p \in DOMAIN pages : p # w => new[p].height = span[p].height
ClosesPages(closed, w, then, more, new, by) ==
  \A p \in more : (p \notin closed \/ p = w) => AsClosed(p, then[p], more, new, by, new[p])
OpensPages(open, w, then, opened, new, by, last) ==
  \A p \in opened : (p \notin open \/ p = w) => AsOpen(p, then[p], opened, new, by, last, new[p])

LEMMA TreeWritten ==
  ASSUME NEW pages, NEW closed, NEW open, NEW span, NEW order, NEW t,
         Tree(pages, closed, open, span, order, t), CellsCounted(pages),
         NEW w, NEW page, NEW then, PageWritten(pages, w, page, then),
         NEW more, NEW opened, NEW new, NEW by, NEW last,
         closed \subseteq more, TreeSets(then, more, opened, new, last), t <= last,
         Agree(pages, closed, open, span, new), SameOrder(pages, closed, open, span, order, by),
         SameElsewhere(pages, w, span, new),
         InPlace(page, DOMAIN then, more, new, by, last, new[w].first, new[w].height),
         ClosesPages(closed, w, then, more, new, by), OpensPages(open, w, then, opened, new, by, last),
         (open \subseteq opened /\ last = t) \/ open \intersect opened = {}
  PROVE  Tree(then, more, opened, new, by, last)
<1>1. /\ closed \subseteq DOMAIN pages /\ open \subseteq DOMAIN pages
      /\ span \in [DOMAIN pages -> Span] /\ t \in Nat /\ last \in Nat
      /\ \A p \in DOMAIN pages :
           InPlace(pages[p], DOMAIN pages, closed, span, order, t, span[p].first, span[p].height)
      /\ \A p \in closed : AsClosed(p, pages[p], closed, span, order, span[p])
      /\ \A p \in open : AsOpen(p, pages[p], open, span, order, t, span[p])
  BY DEF Tree, TreeSets, TreePlaces, TreeClosed, TreeOpen
<1>2. /\ AgreeOn(closed, span, new) /\ \A p \in closed : new[p] = span[p]
      /\ \A p \in open : new[p].height = span[p].height
      /\ \A p \in DOMAIN pages : new[p].first = span[p].first
  BY DEF Agree, AgreeOn
<1>11. /\ DOMAIN then = DOMAIN pages \union {w} /\ then[w] = page
       /\ \A p \in DOMAIN pages : p # w => then[p] = pages[p]
       /\ \A p \in DOMAIN pages : p # w => new[p].height = span[p].height
       /\ \A p \in DOMAIN pages : pages[p].type # "leaf" => Len(pages[p].cells) \in Nat
  BY DEF PageWritten, SameElsewhere, CellsCounted
<1>3. \A p \in DOMAIN pages : span[p].first \in Nat \ {0}
  BY <1>1 DEF Span
<1>4. ASSUME NEW p \in DOMAIN pages, p # w
      PROVE  InPlace(then[p], DOMAIN then, more, new, by, last, new[p].first, new[p].height)
  <2>1. then[p] = pages[p] /\ new[p].first = span[p].first /\ new[p].height = span[p].height
    BY <1>2, <1>4, <1>11
  <2>2. InPlace(pages[p], DOMAIN pages, closed, span, order, t, span[p].first, span[p].height)
    BY <1>1
  <2>3. CASE pages[p].type = "leaf"
    <3>1. span[p].height = 0 /\ span[p].first <= last
      BY <1>1, <1>3, <2>2, <2>3 DEF InPlace
    <3>2. ASSUME pages[p].right # NULL_PAGE_NO
          PROVE  /\ pages[p].right \in DOMAIN then /\ span[p].first < last
                 /\ new[pages[p].right].first = span[p].first + 1
                 /\ by[span[p].first + 1] = pages[p].right
      <4>1. /\ pages[p].right \in DOMAIN pages /\ span[p].first < t
            /\ span[pages[p].right].first = span[p].first + 1
            /\ order[span[p].first + 1] = pages[p].right
        BY <2>2, <2>3, <3>2 DEF InPlace
      <4>2. by[span[p].first + 1] = order[span[p].first + 1]
        BY <2>3, <3>2 DEF SameOrder
      <4>3. pages[p].right \in DOMAIN then /\ new[pages[p].right].first = span[p].first + 1
        BY <1>2, <1>11, <4>1
      <4>4. span[p].first < last
        BY <1>1, <1>3, <4>1
      <4> QED BY <4>1, <4>2, <4>3, <4>4
    <3> QED BY <2>1, <2>3, <3>1, <3>2 DEF InPlace
  <2>4. CASE pages[p].type # "leaf"
    <3>1. Spread(pages[p], closed, span, span[p].first, span[p].height) /\ Len(pages[p].cells) \in Nat
      BY <1>11, <2>2, <2>4 DEF InPlace
    <3>2. Spread(pages[p], more, new, span[p].first, span[p].height)
      BY <1>2, <3>1, SpreadKept
    <3> QED BY <2>1, <2>4, <3>2 DEF InPlace
  <2> QED BY <2>3, <2>4
<1>5. TreePlaces(then, more, new, by, last)
  <2>1. \A p \in DOMAIN then : p = w \/ (p \in DOMAIN pages /\ p # w)
    BY <1>11
  <2> QED BY <1>4, <1>11, <2>1 DEF TreePlaces
<1>6. ASSUME NEW p \in DOMAIN pages, pages[p].type # "leaf"
      PROVE  EndOf(pages[p], new) = EndOf(pages[p], span)
  <2>1. Spread(pages[p], closed, span, span[p].first, span[p].height) /\ Len(pages[p].cells) \in Nat
    BY <1>1, <1>6, <1>11 DEF InPlace
  <2>2. /\ Spread(pages[p], more, new, span[p].first, span[p].height)
        /\ EndOf(pages[p], new) = EndOf(pages[p], span)
    BY <1>2, <2>1, SpreadKept
  <2> QED BY <2>2
<1>7. ASSUME NEW p \in closed, p # w PROVE AsClosed(p, then[p], more, new, by, new[p])
  <2>1. then[p] = pages[p] /\ new[p] = span[p] /\ p \in DOMAIN pages
    BY <1>1, <1>2, <1>7, <1>11
  <2>2. AsClosed(p, pages[p], closed, span, order, span[p])
    BY <1>1
  <2>3. CASE pages[p].type = "leaf"
    <3>1. by[span[p].first] = order[span[p].first]
      BY <2>1, <2>3 DEF SameOrder
    <3> QED BY <2>1, <2>2, <2>3, <3>1 DEF AsClosed
  <2>4. CASE pages[p].type # "leaf"
    <3>1. EndOf(pages[p], new) = EndOf(pages[p], span)
      BY <1>6, <2>1, <2>4
    <3>2. CASE pages[p].right = NULL_PAGE_NO /\ span[p].last = EndOf(pages[p], span)
      BY <2>1, <2>4, <3>1, <3>2 DEF AsClosed
    <3>3. CASE /\ pages[p].right \in closed /\ span[p].last = span[pages[p].right].last
               /\ Behind(span, pages[p].right, EndOf(pages[p], span), span[p].height - 1)
      <4>1. new[pages[p].right] = span[pages[p].right] /\ pages[p].right \in more
        BY <1>2, <3>3
      <4>2. Behind(new, pages[p].right, EndOf(pages[p], span), span[p].height - 1)
        BY <3>3, <4>1 DEF Behind
      <4> QED BY <2>1, <2>4, <3>1, <3>3, <4>1, <4>2 DEF AsClosed
    <3> QED BY <2>2, <2>4, <3>2, <3>3 DEF AsClosed
  <2> QED BY <2>3, <2>4
<1>8. TreeClosed(then, more, new, by)
  <2>1. \A p \in more : (p \in closed /\ p # w) \/ (p \notin closed \/ p = w)
    OBVIOUS
  <2> QED BY <1>7, <2>1 DEF TreeClosed, ClosesPages
<1>9. ASSUME NEW p \in opened, p \in open, p # w PROVE AsOpen(p, then[p], opened, new, by, last, new[p])
  <2>1. open \subseteq opened /\ last = t
    BY <1>9
  <2>2. /\ then[p] = pages[p] /\ new[p].first = span[p].first /\ new[p].height = span[p].height
        /\ p \in DOMAIN pages
    BY <1>1, <1>2, <1>9, <1>11
  <2>3. AsOpen(p, pages[p], open, span, order, t, span[p])
    BY <1>1, <1>9
  <2>4. CASE pages[p].type = "leaf"
    <3>1. by[span[p].first] = order[span[p].first]
      BY <1>9, <2>2, <2>4 DEF SameOrder
    <3> QED BY <2>1, <2>2, <2>3, <2>4, <3>1 DEF AsOpen
  <2>5. CASE pages[p].type # "leaf"
    <3>1. /\ pages[p].right \in open
          /\ Behind(span, pages[p].right, EndOf(pages[p], span), span[p].height - 1)
      BY <2>3, <2>5 DEF AsOpen
    <3>2. EndOf(pages[p], new) = EndOf(pages[p], span)
      BY <1>6, <2>2, <2>5
    <3>3. /\ new[pages[p].right].first = span[pages[p].right].first
          /\ new[pages[p].right].height = span[pages[p].right].height
      BY <1>1, <1>2, <3>1
    <3>4. Behind(new, pages[p].right, EndOf(pages[p], new), new[p].height - 1)
      BY <2>2, <3>1, <3>2, <3>3 DEF Behind
    <3> QED BY <2>1, <2>2, <2>5, <3>1, <3>4 DEF AsOpen
  <2> QED BY <2>4, <2>5
<1>10. TreeOpen(then, opened, new, by, last)
  <2>1. \A p \in opened : (p \in open /\ p # w) \/ (p \notin open \/ p = w)
    OBVIOUS
  <2> QED BY <1>9, <2>1 DEF TreeOpen, OpensPages
<1> QED BY <1>5, <1>8, <1>10 DEF Tree

-----------------------------------------------------------------------------
(* The tree of the file, and the part of it that an append is splitting:   *)
(* the pages read on the way down are neither closed nor open, each stands *)
(* behind what the one above it has under its cells, and the split page    *)
(* behind the last of them.                                                *)

LastUnder(page, span, first) == IF page.type = "leaf" THEN first ELSE EndOf(page, span)

SplitParts(closed, open, span, order) ==
  ~ Whole =>
    /\ \A k \in 1..Len(frames) : frames[k].no \notin closed /\ frames[k].no \notin open
    /\ \A k \in 1..Len(frames)-1 :
         Behind(span, frames[k+1].no, EndOf(frames[k].page, span), span[frames[k].no].height - 1)
    /\ Current.page.type = "leaf" => order[span[Current.no].first] = Current.no
    /\ Current.page.type # "leaf" =>
         /\ Current.page.right = NULL_PAGE_NO
         /\ Spread(Current.page, closed, span, span[Current.no].first, span[Current.no].height)
    /\ Behind(span, split.no, LastUnder(Current.page, span, span[Current.no].first),
              span[Current.no].height)
MovedRoot(closed, open, span) ==
  pc = "root" =>
    /\ PageCount # 0 /\ PageCount \notin closed /\ PageCount \notin open
    /\ span[PageCount].first = span[0].first /\ span[PageCount].height = span[0].height
TreeHere(closed, open, span, order, t) ==
  /\ Tree(file, closed, open, span, order, t)
  /\ PathBegin \in open
  /\ SplitParts(closed, open, span, order)
  /\ MovedRoot(closed, open, span)
TreeInv == \E closed, open, span, order, t : TreeHere(closed, open, span, order, t)

LEMMA CellCounts == ASSUME Known PROVE \A p \in DOMAIN file : Len(file[p].cells) \in Nat
<1>1. \A p \in DOMAIN file : file[p] \in Page
  BY DEF Known, TypeOK
<1> QED BY <1>1, LenProperties DEF Page, LeafPage, InteriorPage

LEMMA TreeKeeps ==
  ASSUME NEW pages, NEW closed, NEW open, NEW span, NEW order
  PROVE  Agree(pages, closed, open, span, span) /\ SameOrder(pages, closed, open, span, order, order)
BY DEF Agree, AgreeOn, SameOrder

(* A page written where nothing is closed or opened.                       *)
LEMMA TreeRewritten ==
  ASSUME Known, NEW closed, NEW open, NEW span, NEW order, NEW t,
         Tree(file, closed, open, span, order, t),
         NEW w \in DOMAIN file, NEW page, Write(w, page),
         InPlace(page, DOMAIN file, closed, span, order, t, span[w].first, span[w].height),
         w \in closed => AsClosed(w, page, closed, span, order, span[w]),
         w \in open => AsOpen(w, page, open, span, order, t, span[w])
  PROVE  Tree(file', closed, open, span, order, t)
<1>1. PICK then : then = file'
  OBVIOUS
<1>2. PageWritten(file, w, page, then)
  BY <1>1, WriteEffect DEF PageWritten
<1>3. DOMAIN then = DOMAIN file /\ then[w] = page
  BY <1>2 DEF PageWritten
<1>4. TreeSets(file, closed, open, span, t)
  BY DEF Tree
<1>5. TreeSets(then, closed, open, span, t) /\ t <= t
  BY <1>3, <1>4 DEF TreeSets
<1>6. CellsCounted(file)
  BY CellCounts DEF CellsCounted
<1>7. Agree(file, closed, open, span, span) /\ SameOrder(file, closed, open, span, order, order)
  BY TreeKeeps
<1>8. InPlace(page, DOMAIN then, closed, span, order, t, span[w].first, span[w].height)
  BY <1>3
<1>9. ClosesPages(closed, w, then, closed, span, order)
  BY <1>3 DEF ClosesPages
<1>10. OpensPages(open, w, then, open, span, order, t)
  BY <1>3 DEF OpensPages
<1>11. SameElsewhere(file, w, span, span)
  BY DEF SameElsewhere
<1>12. (open \subseteq open /\ t = t) \/ open \intersect open = {}
  OBVIOUS
<1>13. closed \subseteq closed
  OBVIOUS
<1>14. Tree(then, closed, open, span, order, t)
  BY <1>2, <1>5, <1>6, <1>7, <1>8, <1>9, <1>10, <1>11, <1>12, <1>13, TreeWritten
<1> QED BY <1>1, <1>14

LEMMA TreeSame ==
  ASSUME TreeInv, UNCHANGED file,
         \/ Whole /\ Whole'
         \/ ~ Whole /\ ~ Whole' /\ UNCHANGED <<frames, split>>,
         pc' # "root" \/ UNCHANGED <<pc, table, op>>
  PROVE  TreeInv'
<1>1. PICK closed, open, span, order, t : TreeHere(closed, open, span, order, t)
  BY DEF TreeInv
<1>2. /\ Tree(file, closed, open, span, order, t) /\ PathBegin \in open
      /\ SplitParts(closed, open, span, order) /\ MovedRoot(closed, open, span)
  BY <1>1 DEF TreeHere
<1>3. Tree(file', closed, open, span, order, t)
  BY <1>2
<1>4. (PathBegin \in open)'
  BY <1>2 DEF PathBegin
<1>5. SplitParts(closed, open, span, order)'
  BY <1>2 DEF SplitParts, Current
<1>7. MovedRoot(closed, open, span)'
  BY <1>2 DEF MovedRoot, PageCount
<1>6. TreeHere(closed, open, span, order, t)'
  BY <1>3, <1>4, <1>5, <1>7 DEF TreeHere
<1> QED BY <1>6 DEF TreeInv

(* A row appended to a leaf, or deleted from one.                          *)
LEMMA TreeLeafWritten ==
  ASSUME Known, TreeInv, Whole, Whole', NEW w \in DOMAIN file, NEW page, Write(w, page),
         file[w].type = "leaf", page.type = "leaf", page.right = file[w].right
  PROVE  TreeInv'
<1>1. PICK closed, open, span, order, t : TreeHere(closed, open, span, order, t)
  BY DEF TreeInv
<1>2. Tree(file, closed, open, span, order, t) /\ PathBegin \in open
  BY <1>1 DEF TreeHere
<1>3. /\ InPlace(file[w], DOMAIN file, closed, span, order, t, span[w].first, span[w].height)
      /\ w \in closed => AsClosed(w, file[w], closed, span, order, span[w])
      /\ w \in open => AsOpen(w, file[w], open, span, order, t, span[w])
  BY <1>2 DEF Tree, TreePlaces, TreeClosed, TreeOpen
<1>4. InPlace(page, DOMAIN file, closed, span, order, t, span[w].first, span[w].height)
  BY <1>3 DEF InPlace
<1>5. w \in closed => AsClosed(w, page, closed, span, order, span[w])
  BY <1>3 DEF AsClosed
<1>6. w \in open => AsOpen(w, page, open, span, order, t, span[w])
  BY <1>3 DEF AsOpen
<1>7. Tree(file', closed, open, span, order, t)
  BY <1>2, <1>4, <1>5, <1>6, TreeRewritten
<1>8. (PathBegin \in open)'
  BY <1>2 DEF PathBegin
<1>9. SplitParts(closed, open, span, order)' /\ MovedRoot(closed, open, span)'
  BY DEF SplitParts, MovedRoot, Whole
<1>10. TreeHere(closed, open, span, order, t)'
  BY <1>7, <1>8, <1>9 DEF TreeHere
<1> QED BY <1>10 DEF TreeInv

(* The page that was split, written back.                                  *)
LEMMA TreeRelink ==
  ASSUME Known, NEW top, RightInv(top), SideInv, TreeInv, Relink PROVE TreeInv'
<1>1. /\ pc = "relink" /\ pc' = "count" /\ UNCHANGED <<frames, split>>
      /\ Write(Current.no, Current.page) /\ ~ Whole /\ ~ Whole'
  BY DEF Relink, Whole
<1>2. PICK closed, open, span, order, t : TreeHere(closed, open, span, order, t)
  BY DEF TreeInv
<1>3. /\ Tree(file, closed, open, span, order, t) /\ PathBegin \in open
      /\ SplitParts(closed, open, span, order) /\ PathBegin = split.no
  BY <1>1, <1>2 DEF TreeHere, PathBegin
<1>4. PICK w : w = Current.no
  OBVIOUS
<1>5. PICK page : page = Current.page
  OBVIOUS
<1>6. frames \in Seq(Frame) /\ frames # << >> /\ \A k \in 1..Len(frames) : frames[k].no \in DOMAIN file
  BY <1>1, InSplit
<1>7. /\ Len(frames) \in 1..Len(frames) /\ Current = frames[Len(frames)] /\ w \in DOMAIN file
  BY <1>4, <1>6, TopFrame
<1>8. w \notin closed /\ w \notin open
  BY <1>1, <1>3, <1>4, <1>7 DEF SplitParts
<1>9. page.type = file[w].type /\ (page.type = "leaf" => page.right = split.no)
  BY <1>1, <1>4, <1>5 DEF SideInv, Changed, Linking
<1>10. /\ InPlace(file[w], DOMAIN file, closed, span, order, t, span[w].first, span[w].height)
       /\ \A p \in open : p \in DOMAIN file /\ AsOpen(p, file[p], open, span, order, t, span[p])
       /\ span \in [DOMAIN file -> Span] /\ t \in Nat
       /\ InPlace(file[split.no], DOMAIN file, closed, span, order, t,
                  span[split.no].first, span[split.no].height)
  BY <1>3, <1>7 DEF Tree, TreeSets, TreePlaces, TreeOpen
<1>11. InPlace(page, DOMAIN file, closed, span, order, t, span[w].first, span[w].height)
  <2>1. CASE page.type = "leaf"
    <3>1. span[w].height = 0 /\ span[w].first <= t
      BY <1>9, <1>10, <2>1 DEF InPlace
    <3>2. span[split.no].first = span[w].first + 1 /\ span[split.no].height = 0
      BY <1>1, <1>3, <1>4, <1>5, <2>1, <3>1 DEF SplitParts, Behind, LastUnder
    <3>3. file[split.no].type = "leaf"
      BY <1>10, <3>2 DEF InPlace, Spread
    <3>4. span[split.no].first = t /\ order[t] = split.no /\ split.no \in DOMAIN file
      BY <1>3, <1>10, <3>3 DEF AsOpen
    <3>5. span[w].first \in Nat
      BY <1>7, <1>10 DEF Span
    <3>6. span[w].first < t /\ order[span[w].first + 1] = split.no
      BY <1>10, <3>2, <3>4, <3>5
    <3> QED BY <1>9, <2>1, <3>1, <3>2, <3>4, <3>6 DEF InPlace
  <2>2. CASE page.type # "leaf"
    <3>1. Spread(page, closed, span, span[w].first, span[w].height)
      BY <1>1, <1>3, <1>4, <1>5, <2>2 DEF SplitParts
    <3> QED BY <2>2, <3>1 DEF InPlace
  <2> QED BY <2>1, <2>2
<1>12. Tree(file', closed, open, span, order, t)
  BY <1>1, <1>3, <1>4, <1>5, <1>7, <1>8, <1>11, TreeRewritten
<1>13. (PathBegin \in open)'
  BY <1>1, <1>3 DEF PathBegin
<1>14. SplitParts(closed, open, span, order)'
  BY <1>1, <1>3 DEF SplitParts, Current
<1>16. MovedRoot(closed, open, span)'
  BY <1>1 DEF MovedRoot
<1>15. TreeHere(closed, open, span, order, t)'
  BY <1>12, <1>13, <1>14, <1>16 DEF TreeHere
<1> QED BY <1>15 DEF TreeInv

LEMMA PathIsOpen ==
  ASSUME NEW pages, NEW from, NEW n, NEW path, RightPath(pages, from, n, path),
         NEW open, from \in open, NEW span, NEW order, NEW t, TreeOpen(pages, open, span, order, t)
  PROVE  \A k \in 1..n : path[k] \in open
<1>1. /\ n \in Nat /\ n # 0 /\ path[1] = from
      /\ \A i \in 1..n-1 : pages[path[i]].type = "interior" /\ pages[path[i]].right = path[i+1]
  BY DEF RightPath, PathIn, EndsWith
<1>2. PICK m : m = n-1
  OBVIOUS
<1>3. PICK A : A = {d \in 0..m : path[d+1] \in open}
  OBVIOUS
<1>4. m \in Nat /\ 0 \in A
  BY <1>1, <1>2, <1>3
<1>5. ASSUME NEW d \in 0..m-1, d \in A PROVE d+1 \in A
  <2>1. PICK i : i = d+1
    OBVIOUS
  <2>2. i \in 1..n-1 /\ i \in 0..m /\ path[i] \in open
    BY <1>1, <1>2, <1>3, <1>5, <2>1
  <2>3. pages[path[i]].right \in open
    BY <1>1, <2>2 DEF TreeOpen, AsOpen
  <2> QED BY <1>1, <1>3, <2>1, <2>2, <2>3
<1>6. 0..m \subseteq A
  BY <1>4, <1>5, UpTo
<1> SUFFICES ASSUME NEW k \in 1..n PROVE path[k] \in open
  OBVIOUS
<1>7. PICK d : d = k-1
  OBVIOUS
<1>8. d \in 0..m /\ d+1 = k
  BY <1>1, <1>2, <1>7
<1> QED BY <1>3, <1>6, <1>8

(* A new leaf behind the last one.                                         *)
LEMMA TreeSplitLeaf ==
  ASSUME Known, NEW top, RightInv(top), SideInv, TreeInv, SplitLeaf PROVE TreeInv'
<1>1. PICK n, path : RightPart(n, path, top) /\ FramesInv
  BY DEF RightInv
<1>2. PICK page : page = AppendCell(NewPage("leaf"), RowIdToAppend, op.length)
  OBVIOUS
<1>3. PICK p : p = PageCount
  OBVIOUS
<1>4. /\ pc = "leaf" /\ pc' = "relink" /\ Write(p, page) /\ split'.no = p
      /\ page.type = "leaf" /\ page.right = NULL_PAGE_NO
  BY <1>2, <1>3 DEF SplitLeaf, AppendCell, NewPage
<1>5. p \notin DOMAIN file
  BY <1>3, <1>4, FreshPage DEF Known
<1>6. PICK then : then = file'
  OBVIOUS
<1>50. PageWritten(file, p, page, then)
  BY <1>4, <1>6, WriteEffect DEF PageWritten
<1>7. DOMAIN then = DOMAIN file \union {p} /\ then[p] = page
  BY <1>50 DEF PageWritten
<1>49. PICK opened : opened = {p}
  OBVIOUS
<1>8. PICK closed, open, span, order, t : TreeHere(closed, open, span, order, t)
  BY DEF TreeInv
<1>9. /\ Tree(file, closed, open, span, order, t) /\ 0 \in open
  BY <1>4, <1>8 DEF TreeHere, PathBegin, Whole
<1>10. /\ closed \subseteq DOMAIN file /\ open \subseteq DOMAIN file /\ closed \intersect open = {}
       /\ 0 \notin closed /\ 0 \in DOMAIN file /\ t \in Nat
       /\ span \in [DOMAIN file -> Span] /\ span[0].first = 1
       /\ \A r \in DOMAIN file :
            InPlace(file[r], DOMAIN file, closed, span, order, t, span[r].first, span[r].height)
       /\ \A r \in open : AsOpen(r, file[r], open, span, order, t, span[r])
  BY <1>9 DEF Tree, TreeSets, TreePlaces, TreeOpen
<1>11. /\ RightPath(file, 0, n, path) /\ path[n] = top /\ n \in 1..n /\ n \in Nat
       /\ \A i \in 1..n-1 : file[path[i]].type = "interior" /\ file[path[i]].right = path[i+1]
  BY <1>1, <1>4, PathEnd DEF RightPart, RightPath, EndsWith, PathBegin, Whole
<1>12. \A k \in 1..n : path[k] \in open
  BY <1>9, <1>11, PathIsOpen DEF Tree
<1>13. top \in open /\ top \in DOMAIN file /\ file[top].type = "leaf"
  BY <1>10, <1>11, <1>12 DEF RightInv
<1>14. span[top].first = t /\ order[t] = top /\ span[top].height = 0
  BY <1>10, <1>13 DEF AsOpen, InPlace
<1>15. \A r \in DOMAIN file : span[r].first \in Nat \ {0} /\ span[r] \in Span
  BY <1>10 DEF Span
<1>16. t # 0
  BY <1>13, <1>14, <1>15
<1>17. PICK x : x = [first |-> t+1, last |-> 0, height |-> 0]
  OBVIOUS
<1>18. x \in Span /\ x.first = t+1 /\ x.height = 0
  BY <1>10, <1>17 DEF Span
<1>19. PICK new : new = [r \in DOMAIN then |-> IF r = p THEN x ELSE span[r]]
  OBVIOUS
<1>20. /\ new[p] = x /\ \A r \in DOMAIN file : new[r] = span[r]
       /\ new \in [DOMAIN then -> Span]
  BY <1>5, <1>7, <1>15, <1>18, <1>19
<1>21. PICK last : last = t+1
  OBVIOUS
<1>22. PICK by : by = [k \in 1..last |-> IF k = last THEN p ELSE order[k]]
  OBVIOUS
<1>23. /\ last \in Nat /\ t <= last /\ t < last /\ by[last] = p
       /\ \A k \in 1..t : by[k] = order[k]
  BY <1>10, <1>21, <1>22
<1>24. TreeSets(then, closed, opened, new, last)
  <2>1. 0 # p /\ new[0].first = 1 /\ closed \intersect opened = {}
    BY <1>5, <1>10, <1>20, <1>49
  <2> QED BY <1>7, <1>10, <1>20, <1>23, <1>49, <2>1 DEF TreeSets
<1>25. Agree(file, closed, open, span, new)
  BY <1>10, <1>20 DEF Agree, AgreeOn
<1>26. SameOrder(file, closed, open, span, order, by)
  <2> SUFFICES ASSUME NEW r \in DOMAIN file, file[r].type = "leaf"
               PROVE  /\ by[span[r].first] = order[span[r].first]
                      /\ file[r].right # NULL_PAGE_NO => by[span[r].first+1] = order[span[r].first+1]
    BY DEF SameOrder
  <2>1. PICK k : k = span[r].first
    OBVIOUS
  <2>2. /\ k \in Nat \ {0} /\ k <= t
        /\ file[r].right # NULL_PAGE_NO => k < t
    BY <1>10, <1>15, <2>1 DEF InPlace
  <2>3. k \in 1..t /\ (file[r].right # NULL_PAGE_NO => k+1 \in 1..t)
    BY <1>10, <2>2
  <2> QED BY <1>23, <2>1, <2>3
<1>27. SameElsewhere(file, p, span, new)
  BY <1>20 DEF SameElsewhere
<1>28. InPlace(page, DOMAIN then, closed, new, by, last, new[p].first, new[p].height)
  BY <1>4, <1>18, <1>20, <1>21, <1>23 DEF InPlace
<1>29. ClosesPages(closed, p, then, closed, new, by)
  BY <1>5, <1>10 DEF ClosesPages
<1>30. (open \subseteq opened /\ last = t) \/ open \intersect opened = {}
  BY <1>5, <1>10, <1>49
<1>31. OpensPages(open, p, then, opened, new, by, last)
  <2>1. AsOpen(p, page, opened, new, by, last, new[p])
    BY <1>4, <1>18, <1>20, <1>21, <1>23 DEF AsOpen
  <2> QED BY <1>7, <1>49, <2>1 DEF OpensPages
<1>32. closed \subseteq closed
  OBVIOUS
<1>33. CellsCounted(file)
  BY CellCounts DEF CellsCounted
<1>34. Tree(then, closed, opened, new, by, last)
  BY <1>50, <1>9, <1>23, <1>24, <1>25, <1>26, <1>27, <1>28, <1>29, <1>30, <1>31, <1>32, <1>33,
     TreeWritten
<1>35. PathBegin' = p
  BY <1>4 DEF PathBegin, Whole
<1>36. /\ Len(frames') = Len(frames) /\ \A k \in 1..Len(frames)-1 : frames'[k] = frames[k]
       /\ frames'[Len(frames)].no = Current.no
  BY SplitLeafFrames DEF Known
<1>37. /\ Current.no = top /\ Len(frames) = n
  BY <1>1, <1>4, AtTheEnd
<1>38. \A k \in 1..n : frames[k].no = path[k] /\ frames[k].page = file[path[k]]
  <2>1. \A k \in 1..n : frames[k].no = path[k]
    BY <1>1, <1>4, <1>37 DEF RightPart, FramesOnPath
  <2>2. \A k \in 1..n : file[frames[k].no] = frames[k].page
    BY <1>1, <1>4, <1>37 DEF FramesInv, FramesCopied
  <2> QED BY <2>1, <2>2
<1>39. \A k \in 1..n-1 : k \in 1..n /\ k+1 \in 1..n
  BY <1>11
<1>40. \A k \in 1..n : frames'[k].no = path[k] /\ path[k] \in open
  <2>1. \A k \in 1..n : k = n \/ k \in 1..n-1
    BY <1>11
  <2> QED BY <1>11, <1>12, <1>36, <1>37, <1>38, <2>1
<1>41. \A k \in 1..n : frames'[k].no \notin closed /\ frames'[k].no \notin opened
  BY <1>5, <1>10, <1>40, <1>49
<1>42. ASSUME NEW k \in 1..n-1
       PROVE  Behind(new, frames'[k+1].no, EndOf(frames'[k].page, new), new[frames'[k].no].height - 1)
  <2>1. PICK q : q = path[k]
    OBVIOUS
  <2>2. /\ q \in open /\ q \in DOMAIN file /\ file[q].type = "interior" /\ file[q].right = path[k+1]
        /\ path[k+1] \in DOMAIN file
    BY <1>10, <1>11, <1>12, <1>39, <2>1
  <2>3. Behind(span, path[k+1], EndOf(file[q], span), span[q].height - 1)
    BY <1>10, <2>2 DEF AsOpen
  <2>10. PICK above : above = file[q]
    OBVIOUS
  <2>4. Spread(above, closed, span, span[q].first, span[q].height) /\ Len(above.cells) \in Nat
    BY <1>10, <1>33, <2>2, <2>10 DEF InPlace, CellsCounted
  <2>5. AgreeOn(closed, span, new)
    BY <1>25 DEF Agree
  <2>6. /\ Spread(above, closed, new, span[q].first, span[q].height)
        /\ EndOf(above, new) = EndOf(above, span)
    BY <1>32, <2>4, <2>5, SpreadKept
  <2>7. new[q] = span[q] /\ new[path[k+1]] = span[path[k+1]]
    BY <1>20, <2>2
  <2>8. Behind(new, path[k+1], EndOf(file[q], new), new[q].height - 1)
    BY <2>3, <2>6, <2>7, <2>10 DEF Behind
  <2>9. frames'[k] = frames[k] /\ frames'[k].no = q /\ frames'[k].page = file[q]
        /\ frames'[k+1].no = path[k+1]
    BY <1>36, <1>37, <1>38, <1>39, <1>40, <2>1
  <2> QED BY <2>8, <2>9
<1>43. Current'.no = top /\ Current'.page.type = "leaf"
  BY <1>1, SideSplitLeaf DEF Linking
<1>44. by[new[top].first] = top /\ new[top].height = 0 /\ new[top].first = t
  BY <1>10, <1>13, <1>14, <1>16, <1>20, <1>23
<1>45. Behind(new, split'.no, LastUnder(Current'.page, new, new[Current'.no].first), new[Current'.no].height)
  BY <1>4, <1>18, <1>20, <1>43, <1>44 DEF Behind, LastUnder
<1>46. SplitParts(closed, opened, new, by)'
  BY <1>36, <1>37, <1>41, <1>42, <1>43, <1>44, <1>45 DEF SplitParts
<1>47. MovedRoot(closed, opened, new)'
  BY <1>4 DEF MovedRoot
<1>48. TreeHere(closed, opened, new, by, last)'
  BY <1>6, <1>34, <1>49, <1>35, <1>46, <1>47 DEF TreeHere
<1> QED BY <1>48 DEF TreeInv

-----------------------------------------------------------------------------
(* A split page that its parent, or a new root, takes: the page that was   *)
(* split is closed.                                                        *)

LEMMA PageCloses ==
  ASSUME NEW p, NEW page, Len(page.cells) \in Nat,
         NEW closed, NEW span, NEW s, s.last = LastUnder(page, span, s.first),
         page.type # "leaf" =>
           page.right = NULL_PAGE_NO /\ Spread(page, closed, span, s.first, s.height),
         NEW by, page.type = "leaf" => by[s.first] = p,
         NEW more, closed \subseteq more, NEW new, AgreeOn(closed, span, new)
  PROVE  AsClosed(p, page, more, new, by, s)
<1>1. CASE page.type = "leaf"
  BY <1>1 DEF AsClosed, LastUnder
<1>2. CASE page.type # "leaf"
  <2>1. Spread(page, closed, span, s.first, s.height)
    BY <1>2
  <2>2. EndOf(page, new) = EndOf(page, span)
    BY <2>1, SpreadKept
  <2> QED BY <1>2, <2>2 DEF AsClosed, LastUnder
<1> QED BY <1>1, <1>2

(* One more cell behind the others, or the first one.                      *)
OneMore(page, with, cell, c, more, new, height) ==
  /\ page.cells \in Seq(InteriorCell) /\ with.cells = Append(page.cells, cell)
  /\ cell \in InteriorCell /\ cell.left_child_page_no = c
  /\ c \in more /\ Behind(new, c, EndOf(page, new), height - 1)

LEMMA SpreadMore ==
  ASSUME NEW page, NEW more, NEW new, NEW first, NEW height, Spread(page, more, new, first, height),
         NEW with, NEW cell, NEW c, OneMore(page, with, cell, c, more, new, height)
  PROVE  Spread(with, more, new, first, height) /\ EndOf(with, new) = new[c].last
<1>11. /\ page.cells \in Seq(InteriorCell) /\ with.cells = Append(page.cells, cell)
       /\ cell \in InteriorCell /\ cell.left_child_page_no = c
       /\ c \in more /\ Behind(new, c, EndOf(page, new), height - 1)
  BY DEF OneMore
<1>1. PICK n : n = Len(page.cells)
  OBVIOUS
<1>2. PICK l : l = n+1
  OBVIOUS
<1>3. /\ n \in Nat /\ Len(with.cells) = l /\ with.cells[l] = cell
      /\ \A i \in 1..n : with.cells[i] = page.cells[i]
  BY <1>1, <1>2, <1>11, AppendProperties, LenProperties
<1>4. /\ n # 0 /\ height # 0
      /\ \A i \in 1..n : ChildAt(page, i) \in more /\ new[ChildAt(page, i)].height = height - 1
      /\ new[ChildAt(page, 1)].first = first
      /\ \A i \in 1..n-1 : new[ChildAt(page, i+1)].first = new[ChildAt(page, i)].last + 1
  BY <1>1 DEF Spread
<1>5. ChildAt(with, l) = c /\ \A i \in 1..n : ChildAt(with, i) = ChildAt(page, i)
  BY <1>3, <1>11 DEF ChildAt
<1>6. new[c].first = new[ChildAt(page, n)].last + 1 /\ new[c].height = height - 1
  BY <1>1, <1>11 DEF Behind, EndOf
<1>7. \A i \in 1..l : i \in 1..n \/ i = l
  BY <1>2, <1>3
<1>8. l # 0 /\ 1 \in 1..n
  BY <1>2, <1>3, <1>4
<1>9. \A i \in 1..l : ChildAt(with, i) \in more /\ new[ChildAt(with, i)].height = height - 1
  BY <1>4, <1>5, <1>6, <1>7, <1>11
<1>10. ASSUME NEW i \in 1..l-1
       PROVE  new[ChildAt(with, i+1)].first = new[ChildAt(with, i)].last + 1
  <2>1. i \in 1..n
    BY <1>2, <1>3
  <2>2. CASE i = n
    BY <1>2, <1>5, <1>6, <2>1, <2>2
  <2>3. CASE i # n
    <3>1. i \in 1..n-1 /\ i+1 \in 1..n
      BY <1>3, <2>1, <2>3
    <3> QED BY <1>4, <1>5, <2>1, <3>1
  <2> QED BY <2>2, <2>3
<1> QED BY <1>3, <1>4, <1>5, <1>8, <1>9, <1>10 DEF Spread, EndOf

LEMMA SpreadFirst ==
  ASSUME NEW cell, NEW more, NEW new, NEW c \in more, cell.left_child_page_no = c,
         NEW height \in Nat, new[c].height = height, NEW with, with.cells = Append(<< >>, cell)
  PROVE  Spread(with, more, new, new[c].first, height + 1) /\ EndOf(with, new) = new[c].last
<1>1. Len(with.cells) = 1 /\ with.cells[1] = cell
  OBVIOUS
<1>2. ChildAt(with, 1) = c
  BY <1>1 DEF ChildAt
<1>3. PICK h : h = height + 1
  OBVIOUS
<1>4. h # 0 /\ h - 1 = height
  BY <1>3
<1>5. \A i \in 1..1 : i = 1
  OBVIOUS
<1>6. 1..1-1 = {}
  OBVIOUS
<1>7. Spread(with, more, new, new[c].first, h)
  BY <1>1, <1>2, <1>4, <1>5, <1>6 DEF Spread
<1> QED BY <1>1, <1>2, <1>3, <1>7 DEF EndOf

LEMMA SplitClosed ==
  ASSUME Known, NEW top, RightInv(top), SideInv, pc \in {"return", "root"},
         NEW closed, NEW open, NEW span, NEW order, NEW t, TreeHere(closed, open, span, order, t),
         NEW c, c = Current.no, NEW s,
         s = [first |-> span[c].first, height |-> span[c].height,
              last |-> LastUnder(Current.page, span, span[c].first)]
  PROVE  /\ s \in Span /\ s.first = span[c].first /\ s.height = span[c].height
         /\ s.last = LastUnder(file[c], span, s.first) /\ Len(file[c].cells) \in Nat
         /\ file[c].type # "leaf" =>
              file[c].right = NULL_PAGE_NO /\ Spread(file[c], closed, span, s.first, s.height)
         /\ file[c].type = "leaf" => order[s.first] = c
         /\ c \in DOMAIN file /\ c \notin closed /\ c \notin open /\ file[c] = Current.page
         /\ split.no \in open /\ Behind(span, split.no, s.last, s.height)
<1>1. /\ frames \in Seq(Frame) /\ frames # << >> /\ \A k \in 1..Len(frames) : frames[k].no \in DOMAIN file
  BY InSplit
<1>2. Current = frames[Len(frames)] /\ Len(frames) \in 1..Len(frames)
  BY <1>1, TopFrame
<1>3. file[c] = Current.page /\ c \in DOMAIN file
  BY <1>1, <1>2 DEF RightInv, FramesInv, FramesCopied
<1>4. ~ Whole /\ PathBegin = split.no
  BY DEF Whole, PathBegin
<1>5. /\ Tree(file, closed, open, span, order, t) /\ split.no \in open
      /\ SplitParts(closed, open, span, order)
  BY <1>4 DEF TreeHere
<1>6. /\ closed \subseteq DOMAIN file /\ span \in [DOMAIN file -> Span]
      /\ InPlace(file[c], DOMAIN file, closed, span, order, t, span[c].first, span[c].height)
  BY <1>3, <1>5 DEF Tree, TreeSets, TreePlaces
<1>7. PICK page : page = Current.page
  OBVIOUS
<1>8. Len(page.cells) \in Nat /\ file[c] = page
  BY <1>3, <1>7, CellCounts
<1>9. /\ page.type = "leaf" => order[span[c].first] = c
      /\ page.type # "leaf" =>
           page.right = NULL_PAGE_NO /\ Spread(page, closed, span, span[c].first, span[c].height)
      /\ Behind(span, split.no, LastUnder(page, span, span[c].first), span[c].height)
      /\ c \notin closed /\ c \notin open
  BY <1>2, <1>4, <1>5, <1>7 DEF SplitParts
<1>10. span[c].first \in Nat \ {0} /\ span[c].height \in Nat
  BY <1>3, <1>6 DEF Span
<1>11. LastUnder(page, span, span[c].first) \in Nat
  <2>1. CASE page.type = "leaf"
    BY <1>10, <2>1 DEF LastUnder
  <2>2. CASE page.type # "leaf"
    <3>1. Len(page.cells) \in 1..Len(page.cells)
      BY <1>8, <1>9, <2>2 DEF Spread
    <3>2. ChildAt(page, Len(page.cells)) \in closed
      BY <1>9, <2>2, <3>1 DEF Spread
    <3>3. span[ChildAt(page, Len(page.cells))] \in Span
      BY <1>6, <3>2
    <3> QED BY <2>2, <3>3 DEF LastUnder, EndOf, Span
  <2> QED BY <2>1, <2>2
<1>12. PICK e : e = LastUnder(page, span, span[c].first)
  OBVIOUS
<1>13. s.first = span[c].first /\ s.height = span[c].height /\ s.last = e
  BY <1>7, <1>12
<1>14. s \in Span
  BY <1>7, <1>10, <1>11, <1>12 DEF Span
<1> QED BY <1>3, <1>5, <1>7, <1>8, <1>9, <1>12, <1>13, <1>14

(* The new span where a page is closed with its last leaf.                 *)
LEMMA SpanClosed ==
  ASSUME NEW pages, NEW then, NEW closed, NEW open, NEW span, NEW t,
         TreeSets(pages, closed, open, span, t), DOMAIN pages \subseteq DOMAIN then,
         NEW c \in DOMAIN pages, c \notin closed, c # 0,
         NEW s \in Span, s.first = span[c].first, s.height = span[c].height,
         NEW new, new = [r \in DOMAIN then |-> IF r = c THEN s ELSE span[r]],
         DOMAIN then = DOMAIN pages
  PROVE  /\ new \in [DOMAIN then -> Span] /\ new[c] = s
         /\ \A r \in DOMAIN pages : r # c => new[r] = span[r]
         /\ \A r \in DOMAIN pages : new[r].first = span[r].first /\ new[r].height = span[r].height
         /\ Agree(pages, closed, open, span, new) /\ AgreeOn(closed, span, new)
         /\ new[0].first = 1
<1>1. /\ closed \subseteq DOMAIN pages /\ open \subseteq DOMAIN pages /\ 0 \in DOMAIN pages
      /\ span \in [DOMAIN pages -> Span] /\ span[0].first = 1
  BY DEF TreeSets
<1>2. /\ new \in [DOMAIN then -> Span] /\ new[c] = s
      /\ \A r \in DOMAIN pages : r # c => new[r] = span[r]
  BY <1>1
<1>3. \A r \in DOMAIN pages : new[r].first = span[r].first /\ new[r].height = span[r].height
  BY <1>2
<1>4. AgreeOn(closed, span, new)
  BY <1>1, <1>2 DEF AgreeOn
<1>5. Agree(pages, closed, open, span, new)
  BY <1>1, <1>3, <1>4 DEF Agree
<1> QED BY <1>1, <1>2, <1>3, <1>4, <1>5

LEMMA TreeAbsorb ==
  ASSUME Known, NEW top, RightInv(top), SideInv, TreeInv, AbsorbSplit PROVE TreeInv'
<1>1. /\ pc = "return" /\ pc' = "finish" /\ ~ AtRoot /\ ~ Whole
      /\ Write(Parent.no, WithSplit(Parent.page, Parent.page.right))
  BY DEF AbsorbSplit, Whole
<1>2. /\ frames \in Seq(Frame) /\ frames # << >>
      /\ frames[1].no = 0 /\ \A k \in 1..Len(frames) : frames[k].no \in DOMAIN file
      /\ \A k \in 1..Len(frames)-1 : frames[k].page.right = frames[k+1].no
      /\ \A j, k \in 1..Len(frames) : frames[j].no = frames[k].no => j = k
      /\ Len(frames) \in Nat
  BY <1>1, InSplit
<1>3. PICK m : m = Len(frames)-1
  OBVIOUS
<1>4. /\ m \in Nat /\ m # 0 /\ m \in 1..m /\ Parent = frames[m] /\ Parent.page \in InteriorPage
      /\ 1 \in 1..m /\ m+1 = Len(frames) /\ Current = frames[m+1]
  BY <1>1, <1>2, <1>3, ParentFrame, ParentInterior, TopFrame DEF Known
<1>5. \A k \in 1..m : k \in 1..Len(frames) /\ k \in 1..Len(frames)-1 /\ k # m+1
  BY <1>2, <1>3
<1>6. \A k \in 1..m : k # m => k \in 1..m-1 /\ k+1 \in 1..m
  BY <1>4
<1>7. PICK c : c = Current.no
  OBVIOUS
<1>8. PICK w : w = Parent.no
  OBVIOUS
<1>9. PICK old : old = Parent.page
  OBVIOUS
<1>10. PICK page : page = WithSplit(old, old.right)
  OBVIOUS
<1>11. PICK cell : cell = [left_child_page_no |-> c, row_id |-> split.min_row_id]
  OBVIOUS
<1>12. old.right = c
  BY <1>2, <1>4, <1>5, <1>7, <1>9
<1>13. /\ page.type = "interior" /\ page.right = split.no /\ page.cells = Append(old.cells, cell)
       /\ old.type = "interior" /\ old.cells \in Seq(InteriorCell)
  BY <1>4, <1>9, <1>10, <1>11, <1>12 DEF WithSplit, SetRight, AppendCell, InteriorPage
<1>14. split.min_row_id \in RowId
  BY <1>1 DEF Known, TypeOK
<1>15. w \in DOMAIN file /\ file[w] = old /\ \A k \in 1..m : file[frames[k].no] = frames[k].page
  BY <1>1, <1>2, <1>4, <1>5, <1>8, <1>9 DEF RightInv, FramesInv, FramesCopied
<1>16. PICK then : then = file'
  OBVIOUS
<1>17. PageWritten(file, w, page, then)
  BY <1>1, <1>8, <1>9, <1>10, <1>16, WriteEffect DEF PageWritten
<1>18. /\ DOMAIN then = DOMAIN file /\ then[w] = page
       /\ \A r \in DOMAIN file : r # w => then[r] = file[r]
  BY <1>15, <1>17 DEF PageWritten
<1>19. PICK closed, open, span, order, t : TreeHere(closed, open, span, order, t)
  BY DEF TreeInv
<1>20. /\ Tree(file, closed, open, span, order, t) /\ SplitParts(closed, open, span, order)
       /\ TreeSets(file, closed, open, span, t)
  BY <1>19 DEF TreeHere, Tree
<1>21. PICK s : s = [first |-> span[c].first, height |-> span[c].height,
                     last |-> LastUnder(Current.page, span, span[c].first)]
  OBVIOUS
<1>22. /\ s \in Span /\ s.first = span[c].first /\ s.height = span[c].height
       /\ s.last = LastUnder(file[c], span, s.first) /\ Len(file[c].cells) \in Nat
       /\ file[c].type # "leaf" =>
            file[c].right = NULL_PAGE_NO /\ Spread(file[c], closed, span, s.first, s.height)
       /\ file[c].type = "leaf" => order[s.first] = c
       /\ c \in DOMAIN file /\ c \notin closed /\ c \notin open
       /\ split.no \in open /\ Behind(span, split.no, s.last, s.height)
  BY <1>1, <1>7, <1>19, <1>21, SplitClosed
<1>23. c # 0 /\ \A k \in 1..m : frames[k].no # c
  <2>1. \A k \in 1..m : frames[k].no # c
    BY <1>2, <1>4, <1>5, <1>7
  <2> QED BY <1>2, <1>4, <2>1
<1>24. PICK more : more = closed \union {c}
  OBVIOUS
<1>25. PICK opened : opened = open \union {frames[k].no : k \in 1..m}
  OBVIOUS
<1>26. PICK new : new = [r \in DOMAIN then |-> IF r = c THEN s ELSE span[r]]
  OBVIOUS
<1>27. /\ new \in [DOMAIN then -> Span] /\ new[c] = s
       /\ \A r \in DOMAIN file : r # c => new[r] = span[r]
       /\ \A r \in DOMAIN file : new[r].first = span[r].first /\ new[r].height = span[r].height
       /\ Agree(file, closed, open, span, new) /\ AgreeOn(closed, span, new)
       /\ new[0].first = 1
  BY <1>18, <1>20, <1>22, <1>23, <1>26, SpanClosed
<1>28. /\ closed \subseteq DOMAIN file /\ open \subseteq DOMAIN file /\ closed \intersect open = {}
       /\ 0 \notin closed /\ 0 \in DOMAIN file /\ t \in Nat /\ t <= t
       /\ span \in [DOMAIN file -> Span]
       /\ \A r \in DOMAIN file :
            InPlace(file[r], DOMAIN file, closed, span, order, t, span[r].first, span[r].height)
  BY <1>20 DEF Tree, TreeSets, TreePlaces
<1>29. /\ \A k \in 1..m : frames[k].no \notin closed /\ frames[k].no \notin open
       /\ \A k \in 1..m : Behind(span, frames[k+1].no, EndOf(frames[k].page, span),
                                 span[frames[k].no].height - 1)
  BY <1>1, <1>3, <1>5, <1>20 DEF SplitParts
<1>30. closed \subseteq more /\ c \in more
  BY <1>24
<1>31. TreeSets(then, more, opened, new, t)
  <2>1. opened \subseteq DOMAIN then
    BY <1>2, <1>5, <1>18, <1>25, <1>28
  <2>2. more \intersect opened = {}
    BY <1>22, <1>23, <1>24, <1>25, <1>28, <1>29
  <2>3. more \subseteq DOMAIN then /\ 0 \notin more
    BY <1>18, <1>22, <1>23, <1>24, <1>28
  <2> QED BY <1>18, <1>27, <1>28, <2>1, <2>2, <2>3 DEF TreeSets
<1>32. SameOrder(file, closed, open, span, order, order)
  BY TreeKeeps
<1>33. SameElsewhere(file, w, span, new)
  BY <1>27 DEF SameElsewhere
<1>34. CellsCounted(file)
  BY CellCounts DEF CellsCounted
(* What is under the cells of a frame's page is as it was.                 *)
<1>35. ASSUME NEW k \in 1..m
       PROVE  /\ Spread(frames[k].page, more, new, span[frames[k].no].first, span[frames[k].no].height)
              /\ EndOf(frames[k].page, new) = EndOf(frames[k].page, span)
              /\ frames[k].no \in DOMAIN file /\ new[frames[k].no] = span[frames[k].no]
              /\ frames[k].page.type = "interior"
  <2>1. PICK q : q = frames[k].no
    OBVIOUS
  <2>2. q \in DOMAIN file /\ file[q] = frames[k].page /\ new[q] = span[q]
        /\ frames[k].page.type = "interior"
    BY <1>2, <1>5, <1>15, <1>23, <1>27, <2>1 DEF Known, FramesOK
  <2>3. PICK above : above = frames[k].page
    OBVIOUS
  <2>4. Spread(above, closed, span, span[q].first, span[q].height) /\ Len(above.cells) \in Nat
    BY <1>28, <1>34, <2>2, <2>3 DEF InPlace, CellsCounted
  <2>5. /\ Spread(above, more, new, span[q].first, span[q].height)
        /\ EndOf(above, new) = EndOf(above, span)
    BY <1>27, <1>30, <2>4, SpreadKept
  <2> QED BY <2>1, <2>2, <2>3, <2>5
<1>36. \A k \in 1..m : Behind(new, frames[k+1].no, EndOf(frames[k].page, new),
                              new[frames[k].no].height - 1)
  <2> TAKE k \in 1..m
  <2>1. Behind(span, frames[k+1].no, EndOf(frames[k].page, span), span[frames[k].no].height - 1)
    BY <1>29
  <2>2. frames[k+1].no \in DOMAIN file
    BY <1>2, <1>4
  <2> QED BY <1>27, <1>35, <2>1, <2>2 DEF Behind
<1>37. Spread(page, more, new, new[w].first, new[w].height) /\ EndOf(page, new) = s.last
  <2>1. Spread(old, more, new, new[w].first, new[w].height)
    BY <1>4, <1>8, <1>9, <1>35
  <2>2. Behind(new, c, EndOf(old, new), new[w].height - 1)
    BY <1>4, <1>7, <1>8, <1>9, <1>36
  <2>3. cell \in InteriorCell /\ cell.left_child_page_no = c
    <3>1. c \in Nat
      BY <1>22 DEF Known, TypeOK
    <3>2. c \in PageNo
      BY <3>1 DEF PageNo
    <3> QED BY <1>11, <1>14, <3>2 DEF InteriorCell
  <2>4. PICK first, height : first = new[w].first /\ height = new[w].height
    OBVIOUS
  <2>5. Spread(old, more, new, first, height) /\ Behind(new, c, EndOf(old, new), height - 1)
    BY <2>1, <2>2, <2>4
  <2>6. old.cells \in Seq(InteriorCell) /\ page.cells = Append(old.cells, cell) /\ c \in more
    BY <1>13, <1>30
  <2>7. OneMore(old, page, cell, c, more, new, height)
    BY <2>3, <2>5, <2>6 DEF OneMore
  <2>8. Spread(page, more, new, first, height) /\ EndOf(page, new) = new[c].last
    BY <2>5, <2>7, SpreadMore
  <2> QED BY <1>27, <2>4, <2>8
<1>38. InPlace(page, DOMAIN then, more, new, order, t, new[w].first, new[w].height)
  BY <1>13, <1>37 DEF InPlace
<1>39. ClosesPages(closed, w, then, more, new, order)
  <2>1. w \notin more /\ then[c] = file[c]
    BY <1>4, <1>8, <1>18, <1>22, <1>23, <1>24, <1>29
  <2>2. AsClosed(c, file[c], more, new, order, s)
    BY <1>22, <1>27, <1>30, PageCloses
  <2> QED BY <1>24, <1>27, <2>1, <2>2 DEF ClosesPages
<1>40. ASSUME NEW k \in 1..m
       PROVE  AsOpen(frames[k].no, then[frames[k].no], opened, new, order, t, new[frames[k].no])
  <2>1. CASE k = m
    <3>1. new[split.no].first = span[split.no].first /\ new[split.no].height = span[split.no].height
      BY <1>22, <1>27, <1>28
    <3>2. Behind(new, split.no, s.last, s.height)
      BY <1>22, <3>1 DEF Behind
    <3>3. s.height = new[w].height - 1
      <4>1. Behind(new, c, EndOf(old, new), new[w].height - 1)
        BY <1>4, <1>7, <1>8, <1>9, <1>36
      <4> QED BY <1>27, <4>1 DEF Behind
    <3>4. Behind(new, split.no, EndOf(page, new), new[w].height - 1)
      BY <1>37, <3>2, <3>3
    <3>5. split.no \in opened
      BY <1>22, <1>25
    <3> QED BY <1>4, <1>8, <1>13, <1>18, <2>1, <3>4, <3>5 DEF AsOpen
  <2>2. CASE k # m
    <3>1. k+1 \in 1..m /\ frames[k].page.right = frames[k+1].no
      BY <1>2, <1>5, <1>6, <2>2
    <3>2. frames[k+1].no \in opened
      BY <1>25, <3>1
    <3>3. then[frames[k].no] = frames[k].page
      BY <1>2, <1>4, <1>5, <1>8, <1>15, <1>18, <2>2
    <3> QED BY <1>35, <1>36, <3>1, <3>2, <3>3 DEF AsOpen
  <2> QED BY <2>1, <2>2
<1>41. OpensPages(open, w, then, opened, new, order, t)
  <2> SUFFICES ASSUME NEW p \in opened, p \notin open \/ p = w
               PROVE  AsOpen(p, then[p], opened, new, order, t, new[p])
    BY DEF OpensPages
  <2>1. \E k \in 1..m : frames[k].no = p
    BY <1>4, <1>8, <1>25
  <2> QED BY <1>40, <2>1
<1>42. (open \subseteq opened /\ t = t) \/ open \intersect opened = {}
  BY <1>25
<1>43. Tree(then, more, opened, new, order, t)
  BY <1>17, <1>20, <1>27, <1>28, <1>30, <1>31, <1>32, <1>33, <1>34, <1>38, <1>39, <1>41, <1>42,
     TreeWritten
<1>44. Whole' /\ PathBegin' = 0 /\ 0 \in opened
  BY <1>1, <1>2, <1>4, <1>25 DEF Whole, PathBegin
<1>45. SplitParts(more, opened, new, order)' /\ MovedRoot(more, opened, new)'
  BY <1>1, <1>44 DEF SplitParts, MovedRoot
<1>46. TreeHere(more, opened, new, order, t)'
  BY <1>16, <1>43, <1>44, <1>45 DEF TreeHere
<1> QED BY <1>46 DEF TreeInv

LEMMA SpreadSame ==
  ASSUME NEW page, NEW with, with.cells = page.cells, NEW closed, NEW span, NEW first, NEW height,
         Spread(page, closed, span, first, height)
  PROVE  Spread(with, closed, span, first, height) /\ EndOf(with, span) = EndOf(page, span)
BY DEF Spread, EndOf, ChildAt

(* A parent that splits as well: its last child becomes the only one below *)
(* the cell of a new page.                                                 *)
LEMMA TreeSplitInterior ==
  ASSUME Known, NEW top, RightInv(top), SideInv, TreeInv, SplitInterior PROVE TreeInv'
<1>1. /\ pc = "return" /\ pc' = "relink" /\ ~ AtRoot /\ ~ Whole /\ ~ Whole'
      /\ Write(PageCount, WithSplit(NewPage("interior"), Parent.page.right))
      /\ split'.no = PageCount
  BY DEF SplitInterior, Whole
<1>2. /\ frames \in Seq(Frame) /\ frames # << >>
      /\ frames[1].no = 0 /\ \A k \in 1..Len(frames) : frames[k].no \in DOMAIN file
      /\ \A k \in 1..Len(frames)-1 : frames[k].page.right = frames[k+1].no
      /\ \A j, k \in 1..Len(frames) : frames[j].no = frames[k].no => j = k
      /\ Len(frames) \in Nat
  BY <1>1, InSplit
<1>3. PICK m : m = Len(frames)-1
  OBVIOUS
<1>4. /\ m \in Nat /\ m # 0 /\ m \in 1..m /\ Parent = frames[m] /\ Parent.page \in InteriorPage
      /\ 1 \in 1..m /\ m+1 = Len(frames) /\ Current = frames[m+1]
  BY <1>1, <1>2, <1>3, ParentFrame, ParentInterior, TopFrame DEF Known
<1>5. \A k \in 1..m : k \in 1..Len(frames) /\ k \in 1..Len(frames)-1 /\ k # m+1
  BY <1>2, <1>3
<1>6. \A k \in 1..m-1 : k \in 1..m /\ k+1 \in 1..m
  BY <1>4
<1>7. PICK c : c = Current.no
  OBVIOUS
<1>8. PICK w : w = Parent.no
  OBVIOUS
<1>9. PICK old : old = Parent.page
  OBVIOUS
<1>10. PICK page : page = WithSplit(NewPage("interior"), old.right)
  OBVIOUS
<1>11. PICK cell : cell = [left_child_page_no |-> c, row_id |-> split.min_row_id]
  OBVIOUS
<1>12. old.right = c
  BY <1>2, <1>4, <1>5, <1>7, <1>9
<1>13. /\ page.type = "interior" /\ page.right = split.no /\ page.cells = Append(<< >>, cell)
       /\ old.type = "interior" /\ cell.left_child_page_no = c
  BY <1>4, <1>9, <1>10, <1>11, <1>12 DEF WithSplit, SetRight, AppendCell, NewPage, InteriorPage
<1>14. PICK p : p = PageCount
  OBVIOUS
<1>15. p \notin DOMAIN file /\ \A k \in 1..m : file[frames[k].no] = frames[k].page
  BY <1>1, <1>5, <1>14, FreshPage DEF Known, RightInv, FramesInv, FramesCopied
<1>16. PICK then : then = file'
  OBVIOUS
<1>17. PageWritten(file, p, page, then)
  BY <1>1, <1>9, <1>10, <1>14, <1>16, WriteEffect DEF PageWritten
<1>18. /\ DOMAIN then = DOMAIN file \union {p} /\ then[p] = page
       /\ \A r \in DOMAIN file : r # p /\ then[r] = file[r]
  BY <1>15, <1>17 DEF PageWritten
<1>19. PICK closed, open, span, order, t : TreeHere(closed, open, span, order, t)
  BY DEF TreeInv
<1>20. /\ Tree(file, closed, open, span, order, t) /\ SplitParts(closed, open, span, order)
       /\ TreeSets(file, closed, open, span, t)
  BY <1>19 DEF TreeHere, Tree
<1>21. PICK s : s = [first |-> span[c].first, height |-> span[c].height,
                     last |-> LastUnder(Current.page, span, span[c].first)]
  OBVIOUS
<1>22. /\ s \in Span /\ s.first = span[c].first /\ s.height = span[c].height
       /\ s.last = LastUnder(file[c], span, s.first) /\ Len(file[c].cells) \in Nat
       /\ file[c].type # "leaf" =>
            file[c].right = NULL_PAGE_NO /\ Spread(file[c], closed, span, s.first, s.height)
       /\ file[c].type = "leaf" => order[s.first] = c
       /\ c \in DOMAIN file /\ c \notin closed /\ c \notin open
       /\ split.no \in open /\ Behind(span, split.no, s.last, s.height)
  BY <1>1, <1>7, <1>19, <1>21, SplitClosed
<1>23. c # 0 /\ \A k \in 1..m : frames[k].no # c
  <2>1. \A k \in 1..m : frames[k].no # c
    BY <1>2, <1>4, <1>5, <1>7
  <2> QED BY <1>2, <1>4, <2>1
<1>24. PICK more : more = closed \union {c}
  OBVIOUS
<1>25. PICK opened : opened = open \union {p}
  OBVIOUS
<1>28. /\ closed \subseteq DOMAIN file /\ open \subseteq DOMAIN file /\ closed \intersect open = {}
       /\ 0 \notin closed /\ 0 \in DOMAIN file /\ t \in Nat /\ t <= t
       /\ span \in [DOMAIN file -> Span]
       /\ \A r \in DOMAIN file :
            InPlace(file[r], DOMAIN file, closed, span, order, t, span[r].first, span[r].height)
  BY <1>20 DEF Tree, TreeSets, TreePlaces
<1>46. PICK x : x = [first |-> s.first, last |-> 0, height |-> s.height + 1]
  OBVIOUS
<1>47. x \in Span /\ x.first = s.first /\ x.height = s.height + 1 /\ s.height \in Nat
  BY <1>22, <1>46 DEF Span
<1>26. PICK mid : mid = [r \in DOMAIN file |-> IF r = c THEN s ELSE span[r]]
  OBVIOUS
<1>48. /\ mid \in [DOMAIN file -> Span] /\ mid[c] = s
       /\ \A r \in DOMAIN file : r # c => mid[r] = span[r]
       /\ \A r \in DOMAIN file : mid[r].first = span[r].first /\ mid[r].height = span[r].height
       /\ mid[0].first = 1
  BY <1>20, <1>22, <1>23, <1>26, SpanClosed
<1>49. PICK new : new = [r \in DOMAIN then |-> IF r = p THEN x ELSE mid[r]]
  OBVIOUS
<1>27. /\ new \in [DOMAIN then -> Span] /\ new[p] = x /\ new[c] = s
       /\ \A r \in DOMAIN file : r # c => new[r] = span[r]
       /\ \A r \in DOMAIN file : new[r].first = span[r].first /\ new[r].height = span[r].height
       /\ new[0].first = 1
  <2>1. \A r \in DOMAIN file : new[r] = mid[r]
    BY <1>15, <1>18, <1>49
  <2>2. new \in [DOMAIN then -> Span] /\ new[p] = x
    BY <1>15, <1>18, <1>47, <1>48, <1>49
  <2> QED BY <1>22, <1>28, <1>48, <2>1, <2>2
<1>50. Agree(file, closed, open, span, new) /\ AgreeOn(closed, span, new)
  BY <1>22, <1>27, <1>28 DEF Agree, AgreeOn
<1>29. /\ \A k \in 1..m : frames[k].no \notin closed /\ frames[k].no \notin open
       /\ \A k \in 1..m : Behind(span, frames[k+1].no, EndOf(frames[k].page, span),
                                 span[frames[k].no].height - 1)
  BY <1>1, <1>3, <1>5, <1>20 DEF SplitParts
<1>30. closed \subseteq more /\ c \in more
  BY <1>24
<1>31. TreeSets(then, more, opened, new, t)
  <2>1. opened \subseteq DOMAIN then
    BY <1>18, <1>25, <1>28
  <2>2. more \intersect opened = {}
    BY <1>15, <1>22, <1>24, <1>25, <1>28
  <2>3. more \subseteq DOMAIN then /\ 0 \notin more
    BY <1>18, <1>22, <1>23, <1>24, <1>28
  <2> QED BY <1>18, <1>27, <1>28, <2>1, <2>2, <2>3 DEF TreeSets
<1>32. SameOrder(file, closed, open, span, order, order)
  BY TreeKeeps
<1>33. SameElsewhere(file, p, span, new)
  BY <1>27 DEF SameElsewhere
<1>34. CellsCounted(file)
  BY CellCounts DEF CellsCounted
<1>35. ASSUME NEW k \in 1..m
       PROVE  /\ Spread(frames[k].page, more, new, span[frames[k].no].first, span[frames[k].no].height)
              /\ EndOf(frames[k].page, new) = EndOf(frames[k].page, span)
              /\ frames[k].no \in DOMAIN file /\ new[frames[k].no] = span[frames[k].no]
              /\ frames[k].page.type = "interior"
  <2>1. PICK q : q = frames[k].no
    OBVIOUS
  <2>2. q \in DOMAIN file /\ file[q] = frames[k].page /\ new[q] = span[q]
        /\ frames[k].page.type = "interior"
    BY <1>2, <1>5, <1>15, <1>23, <1>27, <2>1 DEF Known, FramesOK
  <2>3. PICK above : above = frames[k].page
    OBVIOUS
  <2>4. Spread(above, closed, span, span[q].first, span[q].height) /\ Len(above.cells) \in Nat
    BY <1>28, <1>34, <2>2, <2>3 DEF InPlace, CellsCounted
  <2>5. /\ Spread(above, more, new, span[q].first, span[q].height)
        /\ EndOf(above, new) = EndOf(above, span)
    BY <1>50, <1>30, <2>4, SpreadKept
  <2> QED BY <2>1, <2>2, <2>3, <2>5
<1>36. \A k \in 1..m : Behind(new, frames[k+1].no, EndOf(frames[k].page, new),
                              new[frames[k].no].height - 1)
  <2> TAKE k \in 1..m
  <2>1. Behind(span, frames[k+1].no, EndOf(frames[k].page, span), span[frames[k].no].height - 1)
    BY <1>29
  <2>2. frames[k+1].no \in DOMAIN file
    BY <1>2, <1>4
  <2> QED BY <1>27, <1>35, <2>1, <2>2 DEF Behind
<1>37. Spread(page, more, new, x.first, x.height) /\ EndOf(page, new) = s.last
  <2>1. PICK height : height = s.height
    OBVIOUS
  <2>2. height \in Nat /\ new[c].height = height /\ c \in more
    BY <1>27, <1>30, <1>47, <2>1
  <2>3. Spread(page, more, new, new[c].first, height+1) /\ EndOf(page, new) = new[c].last
    BY <1>13, <2>2, SpreadFirst
  <2> QED BY <1>27, <1>47, <2>1, <2>3
<1>38. InPlace(page, DOMAIN then, more, new, order, t, new[p].first, new[p].height)
  BY <1>13, <1>27, <1>37 DEF InPlace
<1>39. ClosesPages(closed, p, then, more, new, order)
  <2>1. p \notin more /\ then[c] = file[c]
    BY <1>15, <1>18, <1>22, <1>24, <1>28
  <2>2. AsClosed(c, file[c], more, new, order, s)
    BY <1>22, <1>50, <1>30, PageCloses
  <2> QED BY <1>24, <1>27, <2>1, <2>2 DEF ClosesPages
<1>41. OpensPages(open, p, then, opened, new, order, t)
  <2>1. new[split.no].first = span[split.no].first /\ new[split.no].height = span[split.no].height
    BY <1>22, <1>27, <1>28
  <2>2. new[p].height - 1 = s.height
    BY <1>27, <1>47
  <2>3. Behind(new, split.no, EndOf(page, new), new[p].height - 1)
    BY <1>22, <1>37, <2>1, <2>2 DEF Behind
  <2>4. split.no \in opened
    BY <1>22, <1>25
  <2>5. AsOpen(p, then[p], opened, new, order, t, new[p])
    BY <1>13, <1>18, <2>3, <2>4 DEF AsOpen
  <2> QED BY <1>25, <2>5 DEF OpensPages
<1>42. (open \subseteq opened /\ t = t) \/ open \intersect opened = {}
  BY <1>25
<1>43. Tree(then, more, opened, new, order, t)
  BY <1>17, <1>20, <1>50, <1>28, <1>30, <1>31, <1>32, <1>33, <1>34, <1>38, <1>39, <1>41, <1>42,
     TreeWritten
<1>44. PathBegin' = p /\ p \in opened
  BY <1>1, <1>14, <1>25 DEF PathBegin
<1>51. PICK over : over = frames'
  OBVIOUS
<1>52. /\ Len(over) = m /\ over[m].no = w /\ over[m].page = SetRight(old, NULL_PAGE_NO)
       /\ \A k \in 1..m-1 : over[k] = frames[k]
       /\ over \in Seq(Frame) /\ over # << >>
  <2>1. /\ Len(frames') = Len(frames)-1 /\ \A k \in 1..Len(frames)-2 : frames'[k] = frames[k]
        /\ frames'[Len(frames)-1].no = Parent.no /\ frames' \in Seq(Frame) /\ frames' # << >>
        /\ frames'[Len(frames)-1].page = SetRight(Parent.page, NULL_PAGE_NO)
    BY SplitInteriorFrames DEF Known
  <2>2. 1..m-1 = 1..Len(frames)-2
    BY <1>2, <1>3
  <2> QED BY <1>3, <1>8, <1>9, <1>51, <2>1, <2>2
<1>53. \A k \in 1..m : over[k].no = frames[k].no
  <2> TAKE k \in 1..m
  <2>1. k \in 1..m-1 \/ k = m
    BY <1>4
  <2> QED BY <1>4, <1>8, <1>52, <2>1
<1>54. \A k \in 1..m : over[k].no \notin more /\ over[k].no \notin opened
  <2> TAKE k \in 1..m
  <2>1. over[k].no = frames[k].no /\ frames[k].no \in DOMAIN file
    BY <1>35, <1>53
  <2> QED BY <1>15, <1>23, <1>24, <1>25, <1>29, <2>1
<1>55. \A k \in 1..m-1 : Behind(new, over[k+1].no, EndOf(over[k].page, new),
                                new[over[k].no].height - 1)
  BY <1>6, <1>36, <1>52, <1>53
<1>56. PICK part : part = over[m]
  OBVIOUS
<1>57. Current' = part
  BY <1>4, <1>51, <1>52, <1>56 DEF Current, Last
<1>58. /\ part.no = w /\ part.page.type = "interior" /\ part.page.right = NULL_PAGE_NO
       /\ part.page.cells = old.cells
  BY <1>4, <1>9, <1>52, <1>56 DEF SetRight, InteriorPage
<1>59. /\ Spread(part.page, more, new, new[w].first, new[w].height)
       /\ EndOf(part.page, new) = EndOf(old, new)
  <2>1. Spread(old, more, new, new[w].first, new[w].height)
    BY <1>4, <1>8, <1>9, <1>35
  <2>2. PICK q : q = part.page
    OBVIOUS
  <2>3. q.cells = old.cells
    BY <1>58, <2>2
  <2>4. Spread(q, more, new, new[w].first, new[w].height) /\ EndOf(q, new) = EndOf(old, new)
    BY <2>1, <2>3, SpreadSame
  <2> QED BY <2>2, <2>4
<1>60. Behind(new, p, LastUnder(part.page, new, new[w].first), new[w].height)
  <2>1. Behind(new, c, EndOf(old, new), new[w].height - 1)
    BY <1>4, <1>7, <1>8, <1>9, <1>36
  <2>2. w \in DOMAIN file /\ new[w] = span[w] /\ span[w].height \in Nat
    <3>1. w \in DOMAIN file /\ new[w] = span[w]
      BY <1>4, <1>8, <1>35
    <3> QED BY <1>28, <3>1 DEF Span
  <2>3. x.first = EndOf(old, new) + 1 /\ s.height = new[w].height - 1
    BY <1>27, <1>47, <2>1 DEF Behind
  <2>4. x.height = new[w].height
    BY <1>47, <2>2, <2>3
  <2> QED BY <1>27, <1>58, <1>59, <2>3, <2>4 DEF Behind, LastUnder
<1>45. SplitParts(more, opened, new, order)' /\ MovedRoot(more, opened, new)'
  <2>1. MovedRoot(more, opened, new)'
    BY <1>1 DEF MovedRoot
  <2>2. SplitParts(more, opened, new, order)'
    BY <1>1, <1>14, <1>51, <1>52, <1>54, <1>55, <1>57, <1>58, <1>59, <1>60 DEF SplitParts
  <2> QED BY <2>1, <2>2
<1>61. TreeHere(more, opened, new, order, t)'
  BY <1>16, <1>43, <1>44, <1>45 DEF TreeHere
<1> QED BY <1>61 DEF TreeInv

(* The root moves: the page it moves to stands for the same leaves.        *)
LEMMA TreeMoveRoot ==
  ASSUME Known, NEW top, RightInv(top), SideInv, TreeInv, MoveRoot PROVE TreeInv'
<1>1. /\ pc = "return" /\ pc' = "root" /\ AtRoot /\ UNCHANGED <<table, op, frames, split>>
      /\ Write(PageCount, Current.page) /\ ~ Whole /\ ~ Whole'
  BY DEF MoveRoot, Whole
<1>2. PICK p : p = PageCount
  OBVIOUS
<1>3. frames \in Seq(Frame) /\ frames # << >> /\ frames[1].no = 0 /\ Len(frames) = 1
  BY <1>1, InSplit DEF AtRoot
<1>4. Current.no = 0 /\ file[0] = Current.page
  <2>1. Current = frames[1] /\ 1 \in 1..Len(frames)
    BY <1>3, TopFrame
  <2> QED BY <1>1, <1>3, <2>1 DEF RightInv, FramesInv, FramesCopied
<1>5. PICK page : page = file[0]
  OBVIOUS
<1>6. p \notin DOMAIN file
  BY <1>1, <1>2, FreshPage DEF Known
<1>7. PICK then : then = file'
  OBVIOUS
<1>8. PageWritten(file, p, page, then)
  BY <1>1, <1>2, <1>4, <1>5, <1>7, WriteEffect DEF PageWritten
<1>9. /\ DOMAIN then = DOMAIN file \union {p} /\ then[p] = page
      /\ \A r \in DOMAIN file : r # p /\ then[r] = file[r]
  BY <1>6, <1>8 DEF PageWritten
<1>10. PICK closed, open, span, order, t : TreeHere(closed, open, span, order, t)
  BY DEF TreeInv
<1>11. /\ Tree(file, closed, open, span, order, t) /\ SplitParts(closed, open, span, order)
       /\ PathBegin \in open
  BY <1>10 DEF TreeHere
<1>12. /\ closed \subseteq DOMAIN file /\ open \subseteq DOMAIN file /\ closed \intersect open = {}
       /\ 0 \notin closed /\ 0 \in DOMAIN file /\ t \in Nat /\ t <= t
       /\ span \in [DOMAIN file -> Span] /\ span[0].first = 1
       /\ InPlace(page, DOMAIN file, closed, span, order, t, span[0].first, span[0].height)
  BY <1>5, <1>11 DEF Tree, TreeSets, TreePlaces
<1>13. PICK x : x = [first |-> span[0].first, last |-> 0, height |-> span[0].height]
  OBVIOUS
<1>14. x \in Span /\ x.first = span[0].first /\ x.height = span[0].height
  BY <1>12, <1>13 DEF Span
<1>15. PICK new : new = [r \in DOMAIN then |-> IF r = p THEN x ELSE span[r]]
  OBVIOUS
<1>16. new[p] = x /\ new \in [DOMAIN then -> Span] /\ \A r \in DOMAIN file : new[r] = span[r]
  BY <1>6, <1>9, <1>12, <1>14, <1>15
<1>17. TreeSets(then, closed, open, new, t)
  BY <1>9, <1>12, <1>16 DEF TreeSets
<1>18. /\ Agree(file, closed, open, span, new) /\ AgreeOn(closed, span, new)
       /\ SameElsewhere(file, p, span, new) /\ SameOrder(file, closed, open, span, order, order)
  BY <1>12, <1>16, TreeKeeps DEF Agree, AgreeOn, SameElsewhere
<1>19. CellsCounted(file) /\ Len(page.cells) \in Nat
  BY <1>5, <1>12, CellCounts DEF CellsCounted
<1>20. closed \subseteq closed
  OBVIOUS
<1>21. InPlace(page, DOMAIN then, closed, new, order, t, new[p].first, new[p].height)
  <2>1. CASE page.type = "leaf"
    BY <1>9, <1>12, <1>14, <1>16, <2>1 DEF InPlace
  <2>2. CASE page.type # "leaf"
    <3>1. PICK first, height : first = span[0].first /\ height = span[0].height
      OBVIOUS
    <3>2. Spread(page, closed, span, first, height)
      BY <1>12, <2>2, <3>1 DEF InPlace
    <3>3. Spread(page, closed, new, first, height)
      BY <1>18, <1>19, <1>20, <3>2, SpreadKept
    <3> QED BY <1>14, <1>16, <2>2, <3>1, <3>3 DEF InPlace
  <2> QED BY <2>1, <2>2
<1>22. ClosesPages(closed, p, then, closed, new, order) /\ OpensPages(open, p, then, open, new, order, t)
  BY <1>6, <1>12 DEF ClosesPages, OpensPages
<1>23. (open \subseteq open /\ t = t) \/ open \intersect open = {}
  OBVIOUS
<1>24. Tree(then, closed, open, new, order, t)
  BY <1>8, <1>11, <1>12, <1>17, <1>18, <1>19, <1>20, <1>21, <1>22, <1>23, TreeWritten
<1>25. PathBegin' \in open
  BY <1>1, <1>11 DEF PathBegin
<1>26. MovedRoot(closed, open, new)'
  <2>1. PageCount' = p
    BY <1>1, <1>2 DEF PageCount
  <2> QED BY <1>6, <1>12, <1>14, <1>16, <2>1 DEF MovedRoot
<1>27. SplitParts(closed, open, new, order)'
  <2>1. PICK top0 : top0 = Current.page
    OBVIOUS
  <2>2. /\ 1 \in 1..Len(frames) /\ 1..Len(frames)-1 = {}
    BY <1>3
  <2>3. /\ \A k \in 1..Len(frames) : frames[k].no \notin closed /\ frames[k].no \notin open
        /\ page.type = "leaf" => order[span[0].first] = 0
        /\ page.type # "leaf" =>
             page.right = NULL_PAGE_NO /\ Spread(page, closed, span, span[0].first, span[0].height)
        /\ Behind(span, split.no, LastUnder(page, span, span[0].first), span[0].height)
    BY <1>1, <1>4, <1>5, <1>11 DEF SplitParts
  <2>4. split.no \in DOMAIN file /\ new[split.no] = span[split.no] /\ new[0] = span[0]
    BY <1>1, <1>11, <1>12, <1>16 DEF PathBegin
  <2>5. ASSUME page.type # "leaf"
        PROVE  /\ Spread(page, closed, new, span[0].first, span[0].height)
               /\ EndOf(page, new) = EndOf(page, span)
    <3>1. PICK first, height : first = span[0].first /\ height = span[0].height
      OBVIOUS
    <3>2. Spread(page, closed, span, first, height)
      BY <2>3, <2>5, <3>1
    <3>3. Spread(page, closed, new, first, height) /\ EndOf(page, new) = EndOf(page, span)
      BY <1>18, <1>19, <1>20, <3>2, SpreadKept
    <3> QED BY <3>1, <3>3
  <2>6. LastUnder(page, new, new[0].first) = LastUnder(page, span, span[0].first)
    BY <2>4, <2>5 DEF LastUnder
  <2>7. Behind(new, split.no, LastUnder(page, new, new[0].first), new[0].height)
    BY <2>3, <2>4, <2>6 DEF Behind
  <2>8. Current'.no = 0 /\ Current'.page = page /\ split' = split /\ frames' = frames
    BY <1>1, <1>4, <1>5 DEF Current
  <2> QED BY <2>2, <2>3, <2>4, <2>5, <2>7, <2>8 DEF SplitParts
<1>28. TreeHere(closed, open, new, order, t)'
  BY <1>7, <1>24, <1>25, <1>26, <1>27 DEF TreeHere
<1> QED BY <1>28 DEF TreeInv

(* ... and page 0 stands for them and for those of the split page.         *)
LEMMA TreeNewRoot ==
  ASSUME Known, NEW top, RightInv(top), SideInv, TreeInv, NewRoot PROVE TreeInv'
<1>1. /\ pc = "root" /\ pc' = "count_root" /\ ~ Whole /\ Whole'
      /\ Write(0, WithSplit(NewPage("interior"), PageCount))
  BY DEF NewRoot, Whole
<1>2. PICK p : p = PageCount
  OBVIOUS
<1>3. /\ file[0] = Current.page /\ file[p] = file[0] /\ 0 \in DOMAIN file /\ p \in DOMAIN file
  BY <1>2, RootFrame DEF RightInv
<1>4. Current.no = 0
  <2>1. frames \in Seq(Frame) /\ frames # << >> /\ frames[1].no = 0
    BY <1>1, InSplit
  <2>2. Len(frames) = 1 /\ Current = frames[Len(frames)]
    BY <1>1, <2>1, TopFrame DEF SideInv, Moved, AtRoot
  <2> QED BY <2>1, <2>2
<1>5. PICK page : page = WithSplit(NewPage("interior"), p)
  OBVIOUS
<1>6. PICK cell : cell = [left_child_page_no |-> p, row_id |-> split.min_row_id]
  OBVIOUS
<1>7. /\ page.type = "interior" /\ page.right = split.no /\ page.cells = Append(<< >>, cell)
      /\ cell.left_child_page_no = p
  BY <1>5, <1>6 DEF WithSplit, SetRight, AppendCell, NewPage
<1>8. PICK then : then = file'
  OBVIOUS
<1>9. PageWritten(file, 0, page, then)
  BY <1>1, <1>2, <1>5, <1>8, WriteEffect DEF PageWritten
<1>10. PICK closed, open, span, order, t : TreeHere(closed, open, span, order, t)
  BY DEF TreeInv
<1>11. /\ Tree(file, closed, open, span, order, t) /\ TreeSets(file, closed, open, span, t)
       /\ p # 0 /\ p \notin closed /\ p \notin open
       /\ span[p].first = span[0].first /\ span[p].height = span[0].height
  BY <1>1, <1>2, <1>10 DEF TreeHere, Tree, MovedRoot
<1>12. /\ DOMAIN then = DOMAIN file /\ then[0] = page /\ then[p] = file[0]
  BY <1>3, <1>9, <1>11 DEF PageWritten
<1>13. /\ closed \subseteq DOMAIN file /\ open \subseteq DOMAIN file /\ closed \intersect open = {}
       /\ 0 \notin closed /\ t \in Nat /\ t <= t
       /\ span \in [DOMAIN file -> Span] /\ span[0].first = 1
       /\ \A r \in DOMAIN file :
            InPlace(file[r], DOMAIN file, closed, span, order, t, span[r].first, span[r].height)
       /\ \A r \in closed : AsClosed(r, file[r], closed, span, order, span[r])
       /\ \A r \in open : AsOpen(r, file[r], open, span, order, t, span[r])
  BY <1>11 DEF Tree, TreeSets, TreePlaces, TreeClosed, TreeOpen
<1>14. PICK s : s = [first |-> span[0].first, height |-> span[0].height,
                     last |-> LastUnder(Current.page, span, span[0].first)]
  OBVIOUS
<1>15. /\ s \in Span /\ s.first = 1 /\ s.height = span[0].height /\ s.height \in Nat
       /\ s.last = LastUnder(file[0], span, s.first) /\ Len(file[0].cells) \in Nat
       /\ file[0].type # "leaf" =>
            file[0].right = NULL_PAGE_NO /\ Spread(file[0], closed, span, s.first, s.height)
       /\ file[0].type = "leaf" => order[1] = 0
       /\ 0 \notin open
       /\ split.no \in open /\ Behind(span, split.no, s.last, s.height)
  <2>1. PICK c : c = 0
    OBVIOUS
  <2>2. c = Current.no /\ s = [first |-> span[c].first, height |-> span[c].height,
                               last |-> LastUnder(Current.page, span, span[c].first)]
    BY <1>4, <1>14, <2>1
  <2>3. /\ s \in Span /\ s.first = span[c].first /\ s.height = span[c].height
        /\ s.last = LastUnder(file[c], span, s.first) /\ Len(file[c].cells) \in Nat
        /\ file[c].type # "leaf" =>
             file[c].right = NULL_PAGE_NO /\ Spread(file[c], closed, span, s.first, s.height)
        /\ file[c].type = "leaf" => order[s.first] = c
        /\ c \in DOMAIN file /\ c \notin closed /\ c \notin open /\ file[c] = Current.page
        /\ split.no \in open /\ Behind(span, split.no, s.last, s.height)
    BY <1>1, <1>10, <2>2, SplitClosed
  <2>4. s.height \in Nat
    BY <2>3 DEF Span
  <2> QED BY <1>13, <2>1, <2>3, <2>4
<1>16. PICK x : x = [first |-> 1, last |-> 0, height |-> s.height + 1]
  OBVIOUS
<1>17. x \in Span /\ x.first = 1 /\ x.height = s.height + 1
  BY <1>15, <1>16 DEF Span
<1>18. PICK new : new = [r \in DOMAIN then |-> IF r = 0 THEN x ELSE IF r = p THEN s ELSE span[r]]
  OBVIOUS
<1>19. /\ new \in [DOMAIN then -> Span] /\ new[0] = x /\ new[p] = s
       /\ \A r \in DOMAIN file : r # 0 /\ r # p => new[r] = span[r]
  BY <1>3, <1>11, <1>12, <1>13, <1>15, <1>17, <1>18
<1>20. /\ \A r \in DOMAIN file : new[r].first = span[r].first
       /\ \A r \in DOMAIN file : r # 0 => new[r].height = span[r].height
  BY <1>11, <1>13, <1>15, <1>17, <1>19
<1>21. /\ Agree(file, closed, open, span, new) /\ AgreeOn(closed, span, new)
       /\ SameElsewhere(file, 0, span, new)
  <2>1. AgreeOn(closed, span, new)
    BY <1>11, <1>13, <1>19 DEF AgreeOn
  <2>2. \A r \in open : new[r].height = span[r].height
    BY <1>13, <1>15, <1>20
  <2> QED BY <1>20, <2>1, <2>2 DEF Agree, SameElsewhere
<1>22. PICK more : more = closed \union {p}
  OBVIOUS
<1>23. PICK opened : opened = open \union {0}
  OBVIOUS
<1>24. closed \subseteq more /\ p \in more /\ 0 \notin more
  BY <1>11, <1>13, <1>22
<1>25. TreeSets(then, more, opened, new, t)
  <2>1. more \subseteq DOMAIN then /\ opened \subseteq DOMAIN then
    BY <1>3, <1>12, <1>13, <1>22, <1>23
  <2>2. more \intersect opened = {}
    BY <1>11, <1>13, <1>22, <1>23
  <2>3. 0 \in DOMAIN then /\ new[0].first = 1
    BY <1>3, <1>12, <1>17, <1>19
  <2> QED BY <1>13, <1>19, <1>24, <2>1, <2>2, <2>3 DEF TreeSets
<1>26. PICK by : by = [k \in 1..t |-> IF k = 1 /\ file[0].type = "leaf" THEN p ELSE order[k]]
  OBVIOUS
<1>27. SameOrder(file, closed, open, span, order, by)
  <2> SUFFICES ASSUME NEW r \in DOMAIN file, file[r].type = "leaf"
               PROVE  /\ r \in closed \union open => by[span[r].first] = order[span[r].first]
                      /\ file[r].right # NULL_PAGE_NO => by[span[r].first+1] = order[span[r].first+1]
    BY DEF SameOrder
  <2>1. PICK k : k = span[r].first
    OBVIOUS
  <2>2. /\ k \in Nat \ {0} /\ k <= t
        /\ file[r].right # NULL_PAGE_NO => k < t
    BY <1>13, <2>1 DEF InPlace, Span
  <2>3. ASSUME file[r].right # NULL_PAGE_NO PROVE by[k+1] = order[k+1]
    <3>1. k+1 \in 1..t /\ k+1 # 1
      BY <1>13, <2>2, <2>3
    <3> QED BY <1>26, <3>1
  <2>4. ASSUME r \in closed \union open PROVE by[k] = order[k]
    <3>1. k \in 1..t
      BY <1>13, <2>2
    <3>2. CASE k # 1 \/ file[0].type # "leaf"
      BY <1>26, <3>1, <3>2
    <3>3. CASE k = 1 /\ file[0].type = "leaf"
      <4>1. order[1] = 0
        BY <1>15, <3>3
      <4>2. r \notin closed
        BY <1>13, <2>1, <3>3, <4>1 DEF AsClosed
      <4>3. r \in open
        BY <2>4, <4>2
      <4>4. t = 1
        BY <1>13, <2>1, <3>3, <4>3 DEF AsOpen
      <4>5. s.last = 1 /\ s.height = 0
        BY <1>3, <1>13, <1>15, <3>3 DEF LastUnder, InPlace
      <4>6. span[split.no].first = 2 /\ span[split.no].height = 0 /\ split.no \in DOMAIN file
        BY <1>13, <1>15, <4>5 DEF Behind
      <4>7. file[split.no].type = "leaf"
        BY <1>13, <4>6 DEF InPlace, Spread
      <4>8. span[split.no].first <= t
        BY <1>13, <4>6, <4>7 DEF InPlace
      <4> QED BY <4>4, <4>6, <4>8
    <3> QED BY <3>2, <3>3
  <2> QED BY <2>1, <2>3, <2>4
<1>28. CellsCounted(file)
  BY CellCounts DEF CellsCounted
<1>29. Spread(page, more, new, x.first, x.height) /\ EndOf(page, new) = s.last
  <2>1. PICK height : height = s.height
    OBVIOUS
  <2>2. height \in Nat /\ new[p].height = height /\ p \in more
    BY <1>15, <1>19, <1>24, <2>1
  <2>3. Spread(page, more, new, new[p].first, height+1) /\ EndOf(page, new) = new[p].last
    BY <1>7, <2>2, SpreadFirst
  <2> QED BY <1>15, <1>17, <1>19, <2>1, <2>3
<1>30. InPlace(page, DOMAIN then, more, new, by, t, new[0].first, new[0].height)
  BY <1>7, <1>19, <1>29 DEF InPlace
<1>31. ClosesPages(closed, 0, then, more, new, by)
  <2>1. PICK old : old = file[0]
    OBVIOUS
  <2>2. old.type = "leaf" => by[s.first] = p
    <3>1. SUFFICES ASSUME old.type = "leaf" PROVE by[s.first] = p
      OBVIOUS
    <3>2. 1 <= t
      BY <1>3, <1>13, <2>1, <3>1 DEF InPlace
    <3>3. 1 \in 1..t
      BY <1>13, <3>2
    <3> QED BY <1>15, <1>26, <2>1, <3>1, <3>3
  <2>3. AsClosed(p, old, more, new, by, s)
    BY <1>15, <1>21, <1>24, <2>1, <2>2, PageCloses
  <2> QED BY <1>12, <1>19, <1>22, <1>24, <2>1, <2>3 DEF ClosesPages
<1>32. OpensPages(open, 0, then, opened, new, by, t)
  <2>1. new[split.no].first = span[split.no].first /\ new[split.no].height = span[split.no].height
    BY <1>13, <1>15, <1>20
  <2>2. new[0].height - 1 = s.height
    BY <1>15, <1>17, <1>19
  <2>3. Behind(new, split.no, EndOf(page, new), new[0].height - 1)
    BY <1>15, <1>29, <2>1, <2>2 DEF Behind
  <2>4. split.no \in opened
    BY <1>15, <1>23
  <2>5. AsOpen(0, then[0], opened, new, by, t, new[0])
    BY <1>7, <1>12, <2>3, <2>4 DEF AsOpen
  <2> QED BY <1>23, <2>5 DEF OpensPages
<1>33. (open \subseteq opened /\ t = t) \/ open \intersect opened = {}
  BY <1>23
<1>34. Tree(then, more, opened, new, by, t)
  BY <1>9, <1>11, <1>13, <1>21, <1>24, <1>25, <1>27, <1>28, <1>30, <1>31, <1>32, <1>33, TreeWritten
<1>35. PathBegin' \in opened
  BY <1>1, <1>23 DEF PathBegin
<1>36. SplitParts(more, opened, new, by)' /\ MovedRoot(more, opened, new)'
  BY <1>1 DEF SplitParts, MovedRoot
<1>37. TreeHere(more, opened, new, by, t)'
  BY <1>8, <1>34, <1>35, <1>36 DEF TreeHere
<1> QED BY <1>37 DEF TreeInv

LEMMA TreeInit == ASSUME Init PROVE TreeInv
<1>1. /\ file = [p \in {0} |-> NewPage("leaf")] /\ pc = "idle"
  BY DEF Init
<1>2. DOMAIN file = {0} /\ file[0].type = "leaf" /\ file[0].right = NULL_PAGE_NO
  BY <1>1 DEF NewPage
<1>3. PICK x : x = [first |-> 1, last |-> 0, height |-> 0]
  OBVIOUS
<1>4. x \in Span /\ x.first = 1 /\ x.height = 0
  BY <1>3 DEF Span
<1>5. PICK span : span = [p \in {0} |-> x]
  OBVIOUS
<1>6. PICK order : order = [k \in 1..1 |-> 0]
  OBVIOUS
<1>7. PICK none : none = {}
  OBVIOUS
<1>8. PICK root : root = {0}
  OBVIOUS
<1>9. span[0] = x /\ span \in [DOMAIN file -> Span] /\ order[1] = 0
  BY <1>2, <1>4, <1>5, <1>6
<1>10. TreeSets(file, none, root, span, 1)
  BY <1>2, <1>4, <1>7, <1>8, <1>9 DEF TreeSets
<1>11. TreePlaces(file, none, span, order, 1)
  BY <1>2, <1>4, <1>9 DEF TreePlaces, InPlace
<1>12. TreeClosed(file, none, span, order)
  BY <1>7 DEF TreeClosed
<1>13. TreeOpen(file, root, span, order, 1)
  BY <1>2, <1>4, <1>8, <1>9 DEF TreeOpen, AsOpen
<1>14. PathBegin \in root /\ SplitParts(none, root, span, order) /\ MovedRoot(none, root, span)
  BY <1>1, <1>8 DEF PathBegin, SplitParts, MovedRoot, Whole
<1>15. TreeHere(none, root, span, order, 1)
  BY <1>10, <1>11, <1>12, <1>13, <1>14 DEF TreeHere, Tree
<1> QED BY <1>15 DEF TreeInv

LEMMA TreeStep ==
  ASSUME Known, SideInv, NEW top, RightInv(top), TreeInv, [Next]_vars
  PROVE  TreeInv'
<1>1. CASE UNCHANGED vars
  BY <1>1, TreeSame DEF vars, Whole
<1>2. CASE \/ \E h \in Handles, length \in CellLengths : BeginAppend(h, length)
           \/ Descend \/ ReadFails \/ LeafThrows \/ CountRoot \/ Finish \/ CountSplit
  <2>1. UNCHANGED file /\ pc' # "root"
    BY <1>2 DEF BeginAppend, Descend, ReadFails, LeafThrows, CountRoot, Finish, CountSplit, Throw
  <2>2. CASE CountSplit
    <3>1. ~ Whole /\ ~ Whole' /\ UNCHANGED <<frames, split>>
      BY <2>2 DEF CountSplit, Whole
    <3> QED BY <2>1, <3>1, TreeSame
  <2>3. CASE ~ CountSplit
    <3>1. Whole /\ Whole'
      BY <1>2, <2>3 DEF BeginAppend, Descend, ReadFails, LeafThrows, CountRoot, Finish, Throw, Whole
    <3> QED BY <2>1, <3>1, TreeSame
  <2> QED BY <2>2, <2>3
<1>3. CASE LeafAppend
  <2>1. PICK n, path : RightPart(n, path, top) /\ FramesInv
    BY DEF RightInv
  <2>2. pc = "leaf" /\ pc' = "finish" /\ Whole /\ Whole'
    BY <1>3 DEF LeafAppend, Whole
  <2>3. Current.no = top /\ file[top] = Current.page /\ Current.page \in LeafPage /\ top \in DOMAIN file
    BY <2>1, <2>2, AtTheEnd, PathEnd
  <2>4. PICK page : page = AppendCell(Current.page, RowIdToAppend, op.length)
    OBVIOUS
  <2>5. /\ Write(top, page) /\ page.type = "leaf" /\ page.right = file[top].right
        /\ file[top].type = "leaf"
    BY <1>3, <2>3, <2>4 DEF LeafAppend, AppendCell, LeafPage
  <2> QED BY <2>2, <2>3, <2>5, TreeLeafWritten
<1>4. CASE \E h \in Handles : Delete(h)
  <2>1. PICK leaf \in Leaves : \E i \in DOMAIN file[leaf].cells : Write(leaf, DeleteRecord(file[leaf], i))
    BY <1>4 DEF Delete
  <2>2. pc = "idle" /\ pc' = "idle" /\ Whole /\ Whole'
    BY <1>4 DEF Delete, Whole
  <2>3. file[leaf] \in LeafPage /\ leaf \in DOMAIN file /\ file[leaf].type = "leaf"
    BY PageKinds DEF Leaves, Known, TypeOK
  <2>4. PICK page : \E i : page = DeleteRecord(file[leaf], i) /\ Write(leaf, page)
    BY <2>1
  <2>5. Write(leaf, page) /\ page.type = "leaf" /\ page.right = file[leaf].right
    BY <2>3, <2>4 DEF DeleteRecord, LeafPage
  <2> QED BY <2>2, <2>3, <2>5, TreeLeafWritten
<1>5. CASE SplitLeaf
  BY <1>5, TreeSplitLeaf
<1>6. CASE Relink
  BY <1>6, TreeRelink
<1>7. CASE AbsorbSplit
  BY <1>7, TreeAbsorb
<1>8. CASE SplitInterior
  BY <1>8, TreeSplitInterior
<1>9. CASE MoveRoot
  BY <1>9, TreeMoveRoot
<1>10. CASE NewRoot
  BY <1>10, TreeNewRoot
<1> QED BY <1>1, <1>2, <1>3, <1>4, <1>5, <1>6, <1>7, <1>8, <1>9, <1>10 DEF Next, AppendStep

LEMMA TreeInvariant ==
  ASSUME OneTableObject PROVE Spec => [](Known /\ ChainInv /\ TreeInv)
<1>1. Init => TreeInv
  BY TreeInit
<1>2. Known /\ ChainInv /\ TreeInv /\ [Next]_vars => TreeInv'
  <2> SUFFICES ASSUME Known, SideInv, [Next]_vars, TreeInv,
                      NEW top, NEW c, NEW chain, NEW n, NEW left, ChainOf(top, c, chain, n, left)
               PROVE  TreeInv'
    BY DEF ChainInv
  <2>1. RightInv(top)
    BY DEF ChainOf
  <2> QED BY <2>1, TreeStep
<1> QED BY <1>1, <1>2, ChainInvariant, PTL DEF Spec

-----------------------------------------------------------------------------
(* What is below a page: the leaves from number o + 1 to number e.          *)

Covers(s, order, o, e) ==
  s \in Seq(PageNo) /\ Len(s) = e - o /\ \A j \in 1..Len(s) : s[j] = order[o + j]

LEMMA CoversOne ==
  ASSUME NEW p \in PageNo, NEW order, NEW e \in Nat, NEW o, o = e - 1, order[e] = p
  PROVE  Covers(<<p>>, order, o, e)
<1>1. <<p>> \in Seq(PageNo) /\ Len(<<p>>) = 1 /\ <<p>>[1] = p
  OBVIOUS
<1>2. e - o = 1 /\ o + 1 = e /\ \A j \in 1..1 : j = 1
  OBVIOUS
<1> QED BY <1>1, <1>2 DEF Covers

LEMMA CoversNone ==
  ASSUME NEW order, NEW o \in Int PROVE Covers(<< >>, order, o, o)
<1>1. << >> \in Seq(PageNo) /\ Len(<< >>) = 0 /\ o - o = 0 /\ 1..0 = {}
  OBVIOUS
<1> QED BY <1>1 DEF Covers

LEMMA CoversJoin ==
  ASSUME NEW order, NEW o \in Int, NEW e \in Int, NEW g \in Int, NEW s, NEW r,
         Covers(s, order, o, e), Covers(r, order, e, g)
  PROVE  Covers(s \o r, order, o, g)
<1>1. PICK m : m = Len(s)
  OBVIOUS
<1>2. PICK n : n = Len(r)
  OBVIOUS
<1>3. /\ s \in Seq(PageNo) /\ r \in Seq(PageNo) /\ m \in Nat /\ n \in Nat
      /\ m = e - o /\ n = g - e
      /\ \A j \in 1..m : s[j] = order[o + j]
      /\ \A j \in 1..n : r[j] = order[e + j]
  BY <1>1, <1>2, LenProperties DEF Covers
<1>4. PICK q : q = s \o r
  OBVIOUS
<1>5. /\ q \in Seq(PageNo) /\ Len(q) = m + n
      /\ \A j \in 1..m+n : q[j] = IF j <= m THEN s[j] ELSE r[j-m]
  <2>1. /\ s \o r \in Seq(PageNo) /\ Len(s \o r) = Len(s) + Len(r)
        /\ \A j \in 1..Len(s) + Len(r) : (s \o r)[j] = IF j <= Len(s) THEN s[j] ELSE r[j-Len(s)]
    BY <1>3, ConcatProperties
  <2> QED BY <1>1, <1>2, <1>4, <2>1
<1>6. m + n = g - o
  BY <1>3
<1>7. ASSUME NEW j \in 1..m+n PROVE q[j] = order[o + j]
  <2>1. CASE j <= m
    <3>1. j \in 1..m
      BY <1>3, <2>1
    <3> QED BY <1>3, <1>5, <2>1, <3>1
  <2>2. CASE ~ (j <= m)
    <3>1. PICK k : k = j - m
      OBVIOUS
    <3>2. k \in 1..n /\ e + k = o + j
      BY <1>3, <2>2, <3>1
    <3> QED BY <1>3, <1>5, <2>2, <3>1, <3>2
  <2> QED BY <2>1, <2>2
<1> QED BY <1>4, <1>5, <1>6, <1>7 DEF Covers

(* Sequences of which each goes on where the one before it ends.           *)
OneAfterOther(parts, order, n, ends) ==
  \A i \in 1..n : Covers(parts[i], order, ends[i-1], ends[i])

LEMMA CoversFlatten ==
  ASSUME NEW order, NEW n \in Nat, n # 0, NEW parts, Len(parts) = n, NEW ends \in [0..n -> Int],
         OneAfterOther(parts, order, n, ends)
  PROVE  Covers(FlattenSeq(parts), order, ends[0], ends[n])
<1>1. PICK f : Flattens(f, parts, n) /\ FlattenSeq(parts) = f[n]
  BY FlattenSeqFlattens
<1>2. \A i \in 1..n : Covers(parts[i], order, ends[i-1], ends[i])
  BY DEF OneAfterOther
<1>3. PICK A : A = {i \in 0..n : i # 0 => Covers(f[i], order, ends[0], ends[i])}
  OBVIOUS
<1>4. 0 \in A
  BY <1>3
<1>5. ASSUME NEW i \in 0..n-1, i \in A PROVE i+1 \in A
  <2>1. i+1 \in 1..n /\ i+1-1 = i /\ i \in 0..n /\ i+1 \in 0..n /\ 0 \in 0..n
    OBVIOUS
  <2>2. Covers(parts[i+1], order, ends[i], ends[i+1])
    BY <1>2, <2>1
  <2>3. CASE i = 0
    <3>1. f[i+1] = parts[i+1]
      BY <1>1, <2>1, <2>3, FlattensFirst
    <3> QED BY <1>3, <2>1, <2>2, <2>3, <3>1
  <2>4. CASE i # 0
    <3>0. i \in 1..n
      BY <2>4
    <3>1. f[i+1] = f[i] \o parts[i+1]
      BY <1>1, <2>1, <3>0, FlattensOn
    <3>2. Covers(f[i], order, ends[0], ends[i])
      BY <1>3, <1>5, <2>4
    <3>3. ends[0] \in Int /\ ends[i] \in Int /\ ends[i+1] \in Int
      BY <2>1
    <3>4. Covers(f[i] \o parts[i+1], order, ends[0], ends[i+1])
      BY <2>2, <3>2, <3>3, CoversJoin
    <3> QED BY <1>3, <2>1, <3>1, <3>4
  <2> QED BY <2>3, <2>4
<1>6. 0..n \subseteq A
  BY <1>4, <1>5, UpTo
<1>7. n \in A
  BY <1>6
<1> QED BY <1>1, <1>3, <1>7

-----------------------------------------------------------------------------
(* LeavesBelow as the function of the height that it is.                    *)

UnderCells(page, below) == [i \in DOMAIN page.cells |-> below[page.cells[i].left_child_page_no]]
Gathers(f, pages, n) ==
  f = [d \in 0..n |->
         [p \in PageNo |->
            IF p \in LeavesOf(pages) THEN <<p>>
            ELSE IF d = 0 \/ p \notin DOMAIN pages THEN << >>
            ELSE FlattenSeq(UnderCells(pages[p], f[d-1])) \o f[d-1][pages[p].right]]]

LEMMA UnderCellsType ==
  ASSUME NEW page \in InteriorPage, NEW below \in [PageNo -> Seq(PageNo)]
  PROVE  /\ UnderCells(page, below) \in Seq(Seq(PageNo)) /\ Len(UnderCells(page, below)) = Len(page.cells)
         /\ \A i \in 1..Len(page.cells) : UnderCells(page, below)[i] = below[ChildAt(page, i)]
         /\ FlattenSeq(UnderCells(page, below)) \in Seq(PageNo)
<1>1. PICK n : n = Len(page.cells)
  OBVIOUS
<1>2. n \in Nat /\ DOMAIN page.cells = 1..n /\ page.cells \in Seq(InteriorCell)
  BY <1>1, LenProperties DEF InteriorPage
<1>3. \A i \in 1..n : page.cells[i] \in InteriorCell
  BY <1>1, <1>2, ElementOfSeq
<1>4. \A i \in 1..n : page.cells[i].left_child_page_no \in PageNo
  BY <1>3 DEF InteriorCell
<1>5. PICK parts : parts = UnderCells(page, below)
  OBVIOUS
<1>6. parts = [i \in 1..n |-> below[page.cells[i].left_child_page_no]]
  BY <1>2, <1>5 DEF UnderCells
<1>7. parts \in [1..n -> Seq(PageNo)]
  BY <1>4, <1>6
<1>8. parts \in Seq(Seq(PageNo)) /\ Len(parts) = n
  BY <1>2, <1>7
<1>9. \A i \in 1..n : parts[i] = below[ChildAt(page, i)]
  BY <1>6 DEF ChildAt
<1>10. FlattenSeq(parts) \in Seq(PageNo)
  <2>1. CASE parts = << >>
    <3>1. FlattenSeq(parts) = parts
      BY <2>1, EmptySeq DEF FlattenSeq
    <3> QED BY <2>1, <3>1, EmptySeq
  <2>2. CASE parts # << >>
    BY <1>8, <2>2, FlattenType
  <2> QED BY <2>1, <2>2
<1> QED BY <1>1, <1>5, <1>8, <1>9, <1>10

LEMMA AlwaysGathers ==
  ASSUME NEW n \in Nat, NEW pages,
         \A p \in DOMAIN pages \ LeavesOf(pages) : pages[p] \in InteriorPage
  PROVE  \E f \in [0..n -> [PageNo -> Seq(PageNo)]] : Gathers(f, pages, n)
<1>1. PICK S : S = [PageNo -> Seq(PageNo)]
  OBVIOUS
<1>2. PICK first : first = [p \in PageNo |-> IF p \in LeavesOf(pages) THEN <<p>> ELSE << >>]
  OBVIOUS
<1>3. PICK step : step = [r \in S |-> [p \in PageNo |->
                            IF p \in LeavesOf(pages) THEN <<p>>
                            ELSE IF p \notin DOMAIN pages THEN << >>
                            ELSE FlattenSeq(UnderCells(pages[p], r)) \o r[pages[p].right]]]
  OBVIOUS
<1>4. << >> \in Seq(PageNo) /\ \A p \in PageNo : <<p>> \in Seq(PageNo)
  BY EmptySeq
<1>5. first \in S
  BY <1>1, <1>2, <1>4
<1>6. ASSUME NEW r \in S PROVE step[r] \in S
  <2>1. ASSUME NEW p \in PageNo
        PROVE  (IF p \in LeavesOf(pages) THEN <<p>>
                ELSE IF p \notin DOMAIN pages THEN << >>
                ELSE FlattenSeq(UnderCells(pages[p], r)) \o r[pages[p].right]) \in Seq(PageNo)
    <3>1. CASE p \in LeavesOf(pages) \/ p \notin DOMAIN pages
      BY <1>4, <3>1
    <3>2. CASE p \in DOMAIN pages \ LeavesOf(pages)
      <4>1. pages[p] \in InteriorPage /\ r \in [PageNo -> Seq(PageNo)]
        BY <1>1, <3>2
      <4>2. FlattenSeq(UnderCells(pages[p], r)) \in Seq(PageNo) /\ r[pages[p].right] \in Seq(PageNo)
        <5>1. FlattenSeq(UnderCells(pages[p], r)) \in Seq(PageNo)
          BY <4>1, UnderCellsType
        <5>2. pages[p].right \in PageNo
          BY <4>1 DEF InteriorPage
        <5> QED BY <4>1, <5>1, <5>2
      <4>3. FlattenSeq(UnderCells(pages[p], r)) \o r[pages[p].right] \in Seq(PageNo)
        BY <4>2, ConcatProperties
      <4> QED BY <3>2, <4>3
    <3> QED BY <3>1, <3>2
  <2>2. step[r] = [p \in PageNo |->
                     IF p \in LeavesOf(pages) THEN <<p>>
                     ELSE IF p \notin DOMAIN pages THEN << >>
                     ELSE FlattenSeq(UnderCells(pages[p], r)) \o r[pages[p].right]]
    BY <1>3
  <2> QED BY <1>1, <2>1, <2>2
<1>7. step \in [S -> S]
  BY <1>3, <1>6
<1>8. PICK f \in [0..n -> S] : Iterates(f, n, first, step)
  BY <1>5, <1>7, AlwaysIterable
<1>9. ASSUME NEW d \in 0..n
      PROVE  f[d] = [p \in PageNo |->
                       IF p \in LeavesOf(pages) THEN <<p>>
                       ELSE IF d = 0 \/ p \notin DOMAIN pages THEN << >>
                       ELSE FlattenSeq(UnderCells(pages[p], f[d-1])) \o f[d-1][pages[p].right]]
  <2>1. CASE d = 0
    BY <1>2, <1>8, <2>1 DEF Iterates
  <2>2. CASE d # 0
    <3>1. PICK r : r = f[d-1]
      OBVIOUS
    <3>2. d \in 1..n /\ d-1 \in 0..n
      BY <2>2
    <3>3. f[d] = step[r] /\ r \in S
      BY <1>8, <3>1, <3>2 DEF Iterates
    <3> QED BY <1>3, <2>2, <3>1, <3>3
  <2> QED BY <2>1, <2>2
<1>10. Gathers(f, pages, n)
  BY <1>8, <1>9 DEF Gathers
<1> QED BY <1>1, <1>8, <1>10

GathersAt(f, pages, d, p) ==
  /\ p \in LeavesOf(pages) => f[d][p] = <<p>>
  /\ p \notin LeavesOf(pages) /\ p \notin DOMAIN pages => f[d][p] = << >>
  /\ p \notin LeavesOf(pages) /\ p \in DOMAIN pages /\ d # 0 =>
       f[d][p] = FlattenSeq(UnderCells(pages[p], f[d-1])) \o f[d-1][pages[p].right]

LEMMA GathersIs ==
  ASSUME NEW n \in Nat, NEW pages, NEW f, Gathers(f, pages, n)
  PROVE  \A d \in 0..n, p \in PageNo : GathersAt(f, pages, d, p)
<1> SUFFICES ASSUME NEW d \in 0..n, NEW p \in PageNo PROVE GathersAt(f, pages, d, p)
  OBVIOUS
<1>1. f[d] = [q \in PageNo |->
                IF q \in LeavesOf(pages) THEN <<q>>
                ELSE IF d = 0 \/ q \notin DOMAIN pages THEN << >>
                ELSE FlattenSeq(UnderCells(pages[q], f[d-1])) \o f[d-1][pages[q].right]]
  BY DEF Gathers
<1> QED BY <1>1 DEF GathersAt

(* LeavesBelow(0) is such a function's last value.                         *)
LEMMA LeavesBelowGathers ==
  ASSUME NEW n, n = Cardinality(DOMAIN file), n \in Nat,
         \A p \in DOMAIN file \ LeavesOf(file) : file[p] \in InteriorPage
  PROVE  \E f : Gathers(f, file, n) /\ LeavesBelow(0) = f[n][0]
<1>1. PICK f : f = CHOOSE g : Gathers(g, file, n)
  OBVIOUS
<1>2. \E g : Gathers(g, file, n)
  BY AlwaysGathers
<1>3. Gathers(f, file, n)
  BY <1>1, <1>2, Zenon
<1>4. LeavesBelow(0) = f[n][0]
  BY <1>1 DEF LeavesBelow, Gathers, UnderCells, LeavesOf, Leaves, Depths
<1> QED BY <1>3, <1>4

LEMMA GathersType ==
  ASSUME NEW n \in Nat, NEW pages, NEW f, Gathers(f, pages, n),
         \A p \in DOMAIN pages \ LeavesOf(pages) : pages[p] \in InteriorPage
  PROVE  \A d \in 0..n : f[d] \in [PageNo -> Seq(PageNo)]
<1>1. PICK A : A = {d \in 0..n : f[d] \in [PageNo -> Seq(PageNo)]}
  OBVIOUS
<1>2. << >> \in Seq(PageNo) /\ \A p \in PageNo : <<p>> \in Seq(PageNo)
  BY EmptySeq
<1>3. \A d \in 0..n :
        f[d] = [p \in PageNo |->
                  IF p \in LeavesOf(pages) THEN <<p>>
                  ELSE IF d = 0 \/ p \notin DOMAIN pages THEN << >>
                  ELSE FlattenSeq(UnderCells(pages[p], f[d-1])) \o f[d-1][pages[p].right]]
  BY DEF Gathers
<1>4. 0 \in A
  <2>1. 0 \in 0..n
    OBVIOUS
  <2> QED BY <1>1, <1>2, <1>3, <2>1
<1>5. ASSUME NEW d \in 0..n-1, d \in A PROVE d+1 \in A
  <2>1. PICK e : e = d+1
    OBVIOUS
  <2>2. e \in 0..n /\ e # 0 /\ e-1 = d
    BY <2>1
  <2>3. PICK r : r = f[d]
    OBVIOUS
  <2>4. r \in [PageNo -> Seq(PageNo)]
    BY <1>1, <1>5, <2>3
  <2>5. ASSUME NEW p \in PageNo
        PROVE  (IF p \in LeavesOf(pages) THEN <<p>>
                ELSE IF p \notin DOMAIN pages THEN << >>
                ELSE FlattenSeq(UnderCells(pages[p], r)) \o r[pages[p].right]) \in Seq(PageNo)
    <3>1. CASE p \in LeavesOf(pages) \/ p \notin DOMAIN pages
      BY <1>2, <3>1
    <3>2. CASE p \in DOMAIN pages \ LeavesOf(pages)
      <4>1. pages[p] \in InteriorPage
        BY <3>2
      <4>2. FlattenSeq(UnderCells(pages[p], r)) \in Seq(PageNo)
        BY <2>4, <4>1, UnderCellsType
      <4>3. r[pages[p].right] \in Seq(PageNo)
        BY <2>4, <4>1 DEF InteriorPage
      <4>4. FlattenSeq(UnderCells(pages[p], r)) \o r[pages[p].right] \in Seq(PageNo)
        BY <4>2, <4>3, ConcatProperties
      <4> QED BY <3>2, <4>4
    <3> QED BY <3>1, <3>2
  <2>6. f[e] = [p \in PageNo |->
                  IF p \in LeavesOf(pages) THEN <<p>>
                  ELSE IF p \notin DOMAIN pages THEN << >>
                  ELSE FlattenSeq(UnderCells(pages[p], r)) \o r[pages[p].right]]
    BY <1>3, <2>2, <2>3
  <2>7. f[e] \in [PageNo -> Seq(PageNo)]
    BY <2>5, <2>6
  <2> QED BY <1>1, <2>1, <2>2, <2>7
<1>6. 0..n \subseteq A
  BY <1>4, <1>5, UpTo
<1> QED BY <1>1, <1>6

(* A closed page has the leaves of its span below it, an open one those up *)
(* to the last.                                                            *)
SpanEnd(p, closed, span, t) == IF p \in closed THEN span[p].last ELSE t

LEMMA GathersSpan ==
  ASSUME NEW n \in Nat, NEW pages, NEW f, Gathers(f, pages, n), DOMAIN pages \subseteq Nat,
         \A p \in DOMAIN pages \ LeavesOf(pages) : pages[p] \in InteriorPage,
         NEW closed, NEW open, NEW span, NEW order, NEW t, Tree(pages, closed, open, span, order, t)
  PROVE  \A p \in closed \union open :
           span[p].height <= n =>
             Covers(f[n][p], order, span[p].first - 1, SpanEnd(p, closed, span, t))
<1>1. /\ closed \subseteq DOMAIN pages /\ open \subseteq DOMAIN pages /\ closed \intersect open = {}
      /\ t \in Nat /\ span \in [DOMAIN pages -> Span]
      /\ \A r \in DOMAIN pages :
           InPlace(pages[r], DOMAIN pages, closed, span, order, t, span[r].first, span[r].height)
      /\ \A r \in closed : AsClosed(r, pages[r], closed, span, order, span[r])
      /\ \A r \in open : AsOpen(r, pages[r], open, span, order, t, span[r])
  BY DEF Tree, TreeSets, TreePlaces, TreeClosed, TreeOpen
<1>2. \A r \in DOMAIN pages : /\ span[r].first \in Nat \ {0} /\ span[r].last \in Nat
                              /\ span[r].height \in Nat /\ r \in PageNo
  BY <1>1 DEF Span, PageNo
<1>3. \A d \in 0..n : f[d] \in [PageNo -> Seq(PageNo)]
  BY GathersType
<1>10. \A d \in 0..n, p \in PageNo : GathersAt(f, pages, d, p)
  BY GathersIs
<1>4. PICK A : A = {d \in 0..n : \A p \in closed \union open :
                      span[p].height <= d =>
                        Covers(f[d][p], order, span[p].first - 1, SpanEnd(p, closed, span, t))}
  OBVIOUS
(* A leaf, at any height.                                                  *)
<1>5. ASSUME NEW d \in 0..n, NEW p \in closed \union open, pages[p].type = "leaf"
      PROVE  Covers(f[d][p], order, span[p].first - 1, SpanEnd(p, closed, span, t))
  <2>1. p \in DOMAIN pages /\ p \in PageNo /\ p \in LeavesOf(pages)
    BY <1>1, <1>2, <1>5 DEF LeavesOf
  <2>2. f[d][p] = <<p>>
    BY <1>10, <2>1 DEF GathersAt
  <2>3. PICK e : e = SpanEnd(p, closed, span, t)
    OBVIOUS
  <2>4. e = span[p].first /\ order[e] = p
    <3>1. CASE p \in closed
      BY <1>1, <1>5, <2>3, <3>1 DEF AsClosed, SpanEnd
    <3>2. CASE p \notin closed
      BY <1>1, <1>5, <2>3, <3>2 DEF AsOpen, SpanEnd
    <3> QED BY <3>1, <3>2
  <2>5. e \in Nat
    BY <1>2, <2>1, <2>4
  <2>6. Covers(<<p>>, order, e - 1, e)
    BY <2>1, <2>4, <2>5, CoversOne
  <2> QED BY <2>2, <2>3, <2>4, <2>6
<1>6. 0 \in A
  <2>1. ASSUME NEW p \in closed \union open, span[p].height <= 0 PROVE pages[p].type = "leaf"
    <3>1. p \in DOMAIN pages /\ span[p].height = 0
      BY <1>1, <1>2, <2>1
    <3> QED BY <1>1, <3>1 DEF InPlace, Spread
  <2>2. 0 \in 0..n
    OBVIOUS
  <2> QED BY <1>4, <1>5, <2>1, <2>2
<1>7. ASSUME NEW d \in 0..n-1, d \in A PROVE d+1 \in A
  <2>1. PICK h : h = d+1
    OBVIOUS
  <2>2. h \in 0..n /\ h # 0 /\ h-1 = d /\ d \in 0..n
    BY <2>1
  <2>3. PICK r : r = f[d]
    OBVIOUS
  <2>4. r \in [PageNo -> Seq(PageNo)]
    BY <1>3, <2>2, <2>3
  <2>5. \A p \in closed \union open :
          span[p].height <= d => Covers(r[p], order, span[p].first - 1, SpanEnd(p, closed, span, t))
    BY <1>4, <1>7, <2>3
  <2>6. ASSUME NEW p \in closed \union open, span[p].height <= h, pages[p].type # "leaf"
        PROVE  Covers(f[h][p], order, span[p].first - 1, SpanEnd(p, closed, span, t))
    <3>1. PICK page : page = pages[p]
      OBVIOUS
    <3>2. p \in DOMAIN pages /\ p \in PageNo /\ p \notin LeavesOf(pages) /\ page \in InteriorPage
      BY <1>1, <1>2, <2>6, <3>1 DEF LeavesOf
    <3>3. f[h][p] = FlattenSeq(UnderCells(page, r)) \o r[page.right]
      <4>1. f[h][p] = FlattenSeq(UnderCells(page, f[h-1])) \o f[h-1][page.right]
        BY <1>10, <2>2, <3>1, <3>2 DEF GathersAt
      <4> QED BY <2>2, <2>3, <4>1
    <3>4. PICK m : m = Len(page.cells)
      OBVIOUS
    <3>5. m \in Nat
      BY <3>2, <3>4, LenProperties DEF InteriorPage
    <3>6. /\ m # 0 /\ span[p].height # 0
          /\ \A i \in 1..m : /\ ChildAt(page, i) \in closed
                             /\ span[ChildAt(page, i)].height = span[p].height - 1
          /\ span[ChildAt(page, 1)].first = span[p].first
          /\ \A i \in 1..m-1 :
               span[ChildAt(page, i+1)].first = span[ChildAt(page, i)].last + 1
      BY <1>1, <2>6, <3>1, <3>2, <3>4 DEF InPlace, Spread
    <3>7. PICK parts : parts = UnderCells(page, r)
      OBVIOUS
    <3>8. Len(parts) = m /\ \A i \in 1..m : parts[i] = r[ChildAt(page, i)]
      BY <2>4, <3>2, <3>4, <3>7, UnderCellsType
    <3>9. PICK ends : ends = [i \in 0..m |-> IF i = 0 THEN span[p].first - 1
                                             ELSE span[ChildAt(page, i)].last]
      OBVIOUS
    <3>10. /\ ends[0] = span[p].first - 1 /\ \A i \in 1..m : ends[i] = span[ChildAt(page, i)].last
           /\ ends \in [0..m -> Int]
      <4>1. ASSUME NEW i \in 0..m, i # 0 PROVE span[ChildAt(page, i)].last \in Int
        <5>1. i \in 1..m
          BY <4>1
        <5> QED BY <1>1, <1>2, <3>6, <5>1
      <4>2. span[p].first - 1 \in Int
        BY <1>2, <3>2
      <4> QED BY <3>5, <3>9, <4>1, <4>2
    <3>11. ASSUME NEW i \in 1..m PROVE Covers(parts[i], order, ends[i-1], ends[i])
      <4>1. PICK q : q = ChildAt(page, i)
        OBVIOUS
      <4>2. q \in closed /\ span[q].height = span[p].height - 1 /\ q \in DOMAIN pages
        BY <1>1, <3>6, <4>1
      <4>3. span[q].height <= d
        BY <1>2, <2>1, <2>6, <3>2, <4>2
      <4>4. Covers(r[q], order, span[q].first - 1, span[q].last)
        BY <2>5, <4>2, <4>3 DEF SpanEnd
      <4>5. ends[i-1] = span[q].first - 1
        <5>1. CASE i = 1
          BY <3>6, <3>10, <4>1, <5>1
        <5>2. CASE i # 1
          <6>1. PICK k : k = i-1
            OBVIOUS
          <6>2. k \in 1..m-1 /\ k \in 1..m /\ k+1 = i
            BY <3>5, <5>2, <6>1
          <6>3. span[q].first = span[ChildAt(page, k)].last + 1
            BY <3>6, <4>1, <6>2
          <6>4. span[ChildAt(page, k)].last \in Nat
            BY <1>1, <1>2, <3>6, <6>2
          <6> QED BY <3>10, <6>1, <6>2, <6>3, <6>4
        <5> QED BY <5>1, <5>2
      <4> QED BY <3>8, <3>10, <4>1, <4>4, <4>5
    <3>12. OneAfterOther(parts, order, m, ends)
      BY <3>11 DEF OneAfterOther
    <3>13. Covers(FlattenSeq(parts), order, ends[0], ends[m])
      BY <3>5, <3>6, <3>8, <3>10, <3>12, CoversFlatten
    <3>14. m \in 1..m /\ EndOf(page, span) = ends[m] /\ ends[0] \in Int /\ ends[m] \in Int
      BY <3>4, <3>5, <3>6, <3>10 DEF EndOf
    <3>15. PICK e : e = SpanEnd(p, closed, span, t)
      OBVIOUS
    <3>16. Covers(r[page.right], order, ends[m], e) /\ e \in Int
      <4>1. CASE p \in closed /\ page.right = NULL_PAGE_NO /\ span[p].last = EndOf(page, span)
        <5>1. e = ends[m]
          BY <3>14, <3>15, <4>1 DEF SpanEnd
        <5>2. NULL_PAGE_NO \in PageNo /\ NULL_PAGE_NO \notin DOMAIN pages
          BY DEF NULL_PAGE_NO, PageNo
        <5>3. r[NULL_PAGE_NO] = << >>
          <6>1. NULL_PAGE_NO \notin LeavesOf(pages)
            BY <5>2 DEF LeavesOf
          <6> QED BY <1>10, <2>2, <2>3, <5>2, <6>1 DEF GathersAt
        <5> QED BY <3>14, <4>1, <5>1, <5>3, CoversNone
      <4>2. CASE /\ p \in closed /\ page.right \in closed /\ span[p].last = span[page.right].last
                 /\ Behind(span, page.right, EndOf(page, span), span[p].height - 1)
        <5>1. PICK q : q = page.right
          OBVIOUS
        <5>2. q \in closed /\ span[q].first = ends[m] + 1 /\ span[q].height = span[p].height - 1
              /\ span[q].last = e /\ q \in DOMAIN pages
          BY <1>1, <3>14, <3>15, <4>2, <5>1 DEF Behind, SpanEnd
        <5>3. span[q].height <= d /\ span[q].first - 1 = ends[m] /\ e \in Int
          BY <1>2, <2>1, <2>6, <3>2, <3>14, <5>2
        <5>4. Covers(r[q], order, span[q].first - 1, span[q].last)
          BY <2>5, <5>2, <5>3 DEF SpanEnd
        <5> QED BY <5>1, <5>2, <5>3, <5>4
      <4>3. CASE p \in open
        <5>1. PICK q : q = page.right
          OBVIOUS
        <5>2. q \in open /\ span[q].first = ends[m] + 1 /\ span[q].height = span[p].height - 1
              /\ q \in DOMAIN pages
          BY <1>1, <2>6, <3>1, <3>14, <4>3, <5>1 DEF AsOpen, Behind
        <5>3. p \notin closed /\ q \notin closed /\ e = t
          BY <1>1, <3>15, <4>3, <5>2 DEF SpanEnd
        <5>4. span[q].height <= d /\ span[q].first - 1 = ends[m] /\ e \in Int
          BY <1>1, <1>2, <2>1, <2>6, <3>2, <3>14, <5>2, <5>3
        <5>5. Covers(r[q], order, span[q].first - 1, t)
          BY <2>5, <5>2, <5>3, <5>4 DEF SpanEnd
        <5> QED BY <5>1, <5>3, <5>4, <5>5
      <4>4. p \in closed => AsClosed(p, page, closed, span, order, span[p])
        BY <1>1, <3>1
      <4> QED BY <2>6, <3>1, <4>1, <4>2, <4>3, <4>4 DEF AsClosed
    <3>17. Covers(FlattenSeq(parts) \o r[page.right], order, ends[0], e)
      BY <3>13, <3>14, <3>16, CoversJoin
    <3> QED BY <3>3, <3>7, <3>10, <3>15, <3>17
  <2>7. ASSUME NEW p \in closed \union open, span[p].height <= h
        PROVE  Covers(f[h][p], order, span[p].first - 1, SpanEnd(p, closed, span, t))
    <3>1. CASE pages[p].type = "leaf"
      BY <1>5, <2>2, <3>1
    <3>2. CASE pages[p].type # "leaf"
      BY <2>6, <2>7, <3>2
    <3> QED BY <3>1, <3>2
  <2> QED BY <1>4, <2>1, <2>2, <2>7
<1>8. 0..n \subseteq A
  BY <1>6, <1>7, UpTo
<1>9. n \in A
  BY <1>8
<1> QED BY <1>4, <1>9
-----------------------------------------------------------------------------
(* Between statements the chain of leaves is the tree's.                    *)

LEMMA TreeFacts ==
  ASSUME NEW pages, NEW closed, NEW open, NEW span, NEW order, NEW t,
         Tree(pages, closed, open, span, order, t)
  PROVE  /\ closed \subseteq DOMAIN pages /\ open \subseteq DOMAIN pages /\ t \in Nat
         /\ \A p \in DOMAIN pages : span[p].first \in Nat /\ span[p].height \in Nat
         /\ span[0].first = 1
         /\ \A p \in DOMAIN pages :
              InPlace(pages[p], DOMAIN pages, closed, span, order, t, span[p].first, span[p].height)
         /\ \A p \in closed : AsClosed(p, pages[p], closed, span, order, span[p])
         /\ \A p \in open : AsOpen(p, pages[p], open, span, order, t, span[p])
BY DEF Tree, TreeSets, TreePlaces, TreeClosed, TreeOpen, Span

(* The tree is as high as the path to its last leaf is long.               *)
LEMMA HeightOfTree ==
  ASSUME NEW pages, NEW closed, NEW open, NEW span, NEW order, NEW t,
         Tree(pages, closed, open, span, order, t), 0 \in open,
         NEW m, NEW path, RightPath(pages, 0, m, path), pages[path[m]].type = "leaf"
  PROVE  span[0].height = m - 1 /\ span[path[m]].first = t
<1>1. /\ m \in Nat /\ m # 0 /\ path[1] = 0
      /\ \A i \in 1..m : path[i] \in DOMAIN pages
      /\ \A i \in 1..m-1 : pages[path[i]].type = "interior" /\ pages[path[i]].right = path[i+1]
  BY DEF RightPath, PathIn, EndsWith
<1>2. TreeOpen(pages, open, span, order, t)
  BY DEF Tree
<1>3. \A i \in 1..m : path[i] \in open
  BY <1>2, PathIsOpen
<1>4. /\ \A p \in DOMAIN pages : span[p].height \in Nat
      /\ \A p \in open : AsOpen(p, pages[p], open, span, order, t, span[p])
  BY TreeFacts
<1>5. PICK n : n = m-1
  OBVIOUS
<1>6. PICK A : A = {d \in 0..n : span[path[d+1]].height + d = span[0].height}
  OBVIOUS
<1>7. n \in Nat /\ 0 \in A
  <2>1. n \in Nat /\ 0 \in DOMAIN pages
    BY <1>1, <1>5
  <2>2. span[path[0+1]].height + 0 = span[0].height
    BY <1>1, <1>4, <2>1
  <2> QED BY <1>6, <2>1, <2>2
<1>8. ASSUME NEW d \in 0..n-1, d \in A PROVE d+1 \in A
  <2>1. PICK i : i = d+1
    OBVIOUS
  <2>2. i \in 1..m-1 /\ i \in 1..m /\ i+1 \in 1..m /\ i \in 0..n
    BY <1>1, <1>5, <1>7, <2>1
  <2>3. Behind(span, path[i+1], EndOf(pages[path[i]], span), span[path[i]].height - 1)
    BY <1>1, <1>3, <1>4, <2>2 DEF AsOpen
  <2>4. span[path[i+1]].height = span[path[i]].height - 1
    BY <2>3 DEF Behind
  <2>5. span[path[i]].height + d = span[0].height
    BY <1>6, <1>8, <2>1
  <2>6. span[path[i]].height \in Nat /\ span[path[i+1]].height \in Nat
    BY <1>1, <1>4, <2>2
  <2>7. span[path[i+1]].height + i = span[0].height
    BY <2>1, <2>4, <2>5, <2>6
  <2> QED BY <1>6, <2>1, <2>2, <2>7
<1>9. 0..n \subseteq A
  BY <1>7, <1>8, UpTo
<1>10. span[path[n+1]].height + n = span[0].height
  BY <1>6, <1>7, <1>9
<1>11. n+1 = m /\ m \in 1..m /\ path[m] \in DOMAIN pages /\ path[m] \in open
  BY <1>1, <1>3, <1>5
<1>12. span[path[m]].height = 0
  <2>1. InPlace(pages[path[m]], DOMAIN pages, closed, span, order, t,
                span[path[m]].first, span[path[m]].height)
    BY <1>11, TreeFacts
  <2> QED BY <2>1 DEF InPlace
<1>13. span[path[m]].first = t
  BY <1>4, <1>11 DEF AsOpen
<1> QED BY <1>5, <1>7, <1>10, <1>11, <1>12, <1>13

(* The leftmost path ends at leaf 1.                                       *)
LEMMA LeftmostLeaf ==
  ASSUME NEW pages, NEW closed, NEW open, NEW span, NEW order, NEW t,
         Tree(pages, closed, open, span, order, t), 0 \in open,
         NEW m, NEW left, LeftPath(pages, m, left)
  PROVE  span[left[m]].first = 1 /\ left[m] \in closed \union open
<1>1. /\ m \in Nat /\ m # 0 /\ left[1] = 0
      /\ \A i \in 1..m : left[i] \in DOMAIN pages
      /\ \A i \in 1..m-1 : pages[left[i]].type = "interior" /\ ChildAt(pages[left[i]], 1) = left[i+1]
      /\ \A i \in 1..m-1 : Len(pages[left[i]].cells) # 0
  BY DEF LeftPath, PathIn, BeginsWith, ChildAt
<1>2. PICK n : n = m-1
  OBVIOUS
<1>3. PICK A : A = {d \in 0..n : span[left[d+1]].first = 1 /\ left[d+1] \in closed \union open}
  OBVIOUS
<1>4. n \in Nat /\ 0 \in A
  <2>1. span[0].first = 1
    BY TreeFacts
  <2> QED BY <1>1, <1>2, <1>3, <2>1
<1>5. ASSUME NEW d \in 0..n-1, d \in A PROVE d+1 \in A
  <2>1. PICK i : i = d+1
    OBVIOUS
  <2>2. i \in 1..m-1 /\ i \in 1..m /\ i+1 \in 1..m /\ i \in 0..n
    BY <1>1, <1>2, <1>4, <2>1
  <2>3. span[left[i]].first = 1
    BY <1>3, <1>5, <2>1
  <2>4. PICK page : page = pages[left[i]]
    OBVIOUS
  <2>5. page.type # "leaf" /\ ChildAt(page, 1) = left[i+1] /\ Len(page.cells) # 0
    BY <1>1, <2>2, <2>4
  <2>6. InPlace(page, DOMAIN pages, closed, span, order, t, span[left[i]].first, span[left[i]].height)
    BY <1>1, <2>2, <2>4, TreeFacts
  <2>7. Spread(page, closed, span, span[left[i]].first, span[left[i]].height)
    BY <2>5, <2>6 DEF InPlace
  <2>8. left[i+1] \in closed /\ span[left[i+1]].first = 1
    BY <2>3, <2>5, <2>7 DEF Spread
  <2> QED BY <1>3, <2>1, <2>2, <2>8
<1>6. 0..n \subseteq A
  BY <1>4, <1>5, UpTo
<1>7. n \in A /\ n+1 = m
  BY <1>1, <1>2, <1>4, <1>6
<1> QED BY <1>3, <1>7

(* The leaves of the chain are numbered as they come.                      *)
LEMMA ChainNumbers ==
  ASSUME NEW pages, NEW closed, NEW open, NEW span, NEW order, NEW t,
         Tree(pages, closed, open, span, order, t), DOMAIN pages \subseteq Nat,
         NEW c, NEW chain, LeafChain(pages, c, chain),
         span[chain[1]].first = 1, chain[1] \in closed \union open
  PROVE  \A k \in 1..c : span[chain[k]].first = k /\ order[k] = chain[k]
<1>1. /\ c \in Nat /\ c # 0
      /\ \A i \in 1..c : chain[i] \in DOMAIN pages /\ pages[chain[i]].type = "leaf"
      /\ \A i \in 1..c-1 : pages[chain[i]].right = chain[i+1]
  BY ChainPlaces
<1>2. PICK n : n = c-1
  OBVIOUS
<1>3. PICK A : A = {d \in 0..n : span[chain[d+1]].first = d+1 /\ order[d+1] = chain[d+1]}
  OBVIOUS
<1>4. n \in Nat /\ 0 \in A
  <2>1. 1 \in 1..c /\ pages[chain[1]].type = "leaf"
    BY <1>1
  <2>2. order[1] = chain[1]
    <3>1. chain[1] \in closed => order[span[chain[1]].first] = chain[1]
      BY <2>1, TreeFacts DEF AsClosed
    <3>2. chain[1] \in open => order[t] = chain[1] /\ span[chain[1]].first = t
      BY <2>1, TreeFacts DEF AsOpen
    <3> QED BY <3>1, <3>2
  <2> QED BY <1>1, <1>2, <1>3, <2>2
<1>5. ASSUME NEW d \in 0..n-1, d \in A PROVE d+1 \in A
  <2>1. PICK i : i = d+1
    OBVIOUS
  <2>2. i \in 1..c-1 /\ i \in 1..c /\ i+1 \in 1..c /\ i \in 0..n
    BY <1>1, <1>2, <1>4, <2>1
  <2>3. span[chain[i]].first = i
    BY <1>3, <1>5, <2>1
  <2>4. PICK page : page = pages[chain[i]]
    OBVIOUS
  <2>5. page.type = "leaf" /\ page.right = chain[i+1] /\ chain[i+1] \in Nat
    BY <1>1, <2>2, <2>4
  <2>6. page.right # NULL_PAGE_NO
    BY <2>5 DEF NULL_PAGE_NO
  <2>7. InPlace(page, DOMAIN pages, closed, span, order, t, span[chain[i]].first, span[chain[i]].height)
    BY <1>1, <2>2, <2>4, TreeFacts
  <2>8. span[chain[i+1]].first = i+1 /\ order[i+1] = chain[i+1]
    BY <2>3, <2>5, <2>6, <2>7 DEF InPlace
  <2> QED BY <1>3, <2>1, <2>2, <2>8
<1>6. 0..n \subseteq A
  BY <1>4, <1>5, UpTo
<1> SUFFICES ASSUME NEW k \in 1..c PROVE span[chain[k]].first = k /\ order[k] = chain[k]
  OBVIOUS
<1>7. PICK d : d = k-1
  OBVIOUS
<1>8. d \in 0..n /\ d+1 = k
  BY <1>1, <1>2, <1>7
<1> QED BY <1>3, <1>6, <1>8

(* The append that starts with the next row id ends at the last leaf.      *)
LEMMA LastLeafFound ==
  ASSUME Known, NEW m, NEW path, RightPath(file, 0, m, path), file[path[m]].type = "leaf"
  PROVE  LeafByRowId(entry.next_row_id) = path[m]
<1>1. PICK n : n = Cardinality(DOMAIN file)
  OBVIOUS
<1>2. /\ n \in Nat /\ IsFiniteSet(DOMAIN file) /\ DOMAIN file \subseteq PageNo
      /\ \A p \in DOMAIN file \ LeavesOf(file) : file[p] \in InteriorPage
  BY <1>1, FilePages, KnownFinite
<1>3. PICK row_id : row_id = entry.next_row_id
  OBVIOUS
<1>4. row_id \in Nat /\ \A p \in DOMAIN file : PointersOK(file[p], DOMAIN file, row_id)
  BY <1>3 DEF Known, TypeOK, Entry, RowId, PointersInv, FilePointers
<1>5. \A p \in DOMAIN file \ LeavesOf(file) : ChildPageNoByRowId(file[p], row_id) \in PageNo
  BY <1>2, ChildHasNumber
<1>6. PICK f : Leads(f, file, row_id, n) /\ LeafByRowId(row_id) = f[n][0]
  BY <1>1, <1>2, <1>5, LeafByRowIdLeads
<1>7. PathIn(file, m, path) /\ path[1] = 0 /\ \A i \in 1..m-1 : EndsWith(file[path[i]], path[i+1])
  BY DEF RightPath
<1>8. m <= n
  BY <1>1, <1>2, <1>7, PathFits
<1>9. \A i \in 1..m-1 : path[i] \in DOMAIN file
  BY <1>7 DEF PathIn
<1>10. ASSUME NEW i \in 1..m-1
       PROVE  file[path[i]].type # "leaf" /\ ChildPageNoByRowId(file[path[i]], row_id) = path[i+1]
  <2>1. EndsWith(file[path[i]], path[i+1])
    BY <1>7
  <2>2. file[path[i]].type # "leaf" /\ file[path[i]].right = path[i+1]
    BY <2>1 DEF EndsWith
  <2>3. file[path[i]] \in InteriorPage
    BY <1>2, <1>9, <2>2 DEF LeavesOf
  <2>4. PointersOK(file[path[i]], DOMAIN file, row_id)
    BY <1>4, <1>9
  <2> QED BY <1>4, <2>2, <2>3, <2>4, GoesRight
<1>11. f[n][path[1]] = path[m]
  BY <1>2, <1>6, <1>7, <1>8, <1>10, LeadsAlong
<1> QED BY <1>3, <1>6, <1>7, <1>11

(* Sequences of the same places are the same.                              *)
LEMMA SameCovered ==
  ASSUME NEW s, NEW order, NEW t \in Nat, Covers(s, order, 0, t),
         NEW u \in Seq(PageNo), Len(u) = t, \A j \in 1..t : u[j] = order[j]
  PROVE  u = s
<1>1. s \in Seq(PageNo) /\ Len(s) = t - 0 /\ \A j \in 1..Len(s) : s[j] = order[0 + j]
  BY DEF Covers
<1>2. Len(s) = t /\ \A j \in 1..t : 0 + j = j
  BY <1>1
<1>3. \A j \in 1..t : s[j] = order[j]
  BY <1>1, <1>2
<1> QED BY <1>1, <1>2, <1>3, SeqEqual

LEMMA WholeChain ==
  ASSUME Known, pc = "idle", NEW top, NEW c, NEW chain, NEW n, NEW left,
         ChainOf(top, c, chain, n, left),
         NEW closed, NEW open, NEW span, NEW order, NEW t, TreeHere(closed, open, span, order, t)
  PROVE  /\ ScannedLeaves = LeavesBelow(0)
         /\ LeafByRowId(entry.next_row_id) = Last(ScannedLeaves)
<1>1. Tree(file, closed, open, span, order, t) /\ 0 \in open
  BY DEF TreeHere, PathBegin, Whole
<1>2. /\ LeafChain(file, c, chain) /\ chain[c] = top /\ RightInv(top)
      /\ LeftPath(file, n, left) /\ left[n] = chain[1]
  BY DEF ChainOf, ChainPart, LeftPart, PathEnds, Linking
<1>3. /\ Len(ScannedLeaves) = c /\ \A j \in 1..c : ScannedLeaves[j] = chain[j]
      /\ ScannedLeaves \in Seq(PageNo)
  BY ChainScanned
<1>4. PICK m, path : RightPart(m, path, top)
  BY <1>2 DEF RightInv
<1>5. RightPath(file, 0, m, path) /\ path[m] = top /\ file[path[m]].type = "leaf"
  BY <1>2, <1>4 DEF RightPart, RightInv, PathBegin, Whole
<1>6. span[0].height = m - 1 /\ span[top].first = t
  BY <1>1, <1>5, HeightOfTree
<1>7. span[left[n]].first = 1 /\ left[n] \in closed \union open
  BY <1>1, <1>2, LeftmostLeaf
<1>8. PICK size : size = Cardinality(DOMAIN file)
  OBVIOUS
<1>9. /\ size \in Nat /\ IsFiniteSet(DOMAIN file) /\ DOMAIN file \subseteq Nat
      /\ \A p \in DOMAIN file \ LeavesOf(file) : file[p] \in InteriorPage
  BY <1>8, FilePages, KnownFinite
<1>10. \A k \in 1..c : span[chain[k]].first = k /\ order[k] = chain[k]
  BY <1>1, <1>2, <1>7, <1>9, ChainNumbers
<1>11. c \in Nat /\ c # 0 /\ c = t
  <2>1. c \in Nat /\ c # 0 /\ c \in 1..c
    BY <1>2, ChainPlaces
  <2> QED BY <1>2, <1>6, <1>10, <2>1
<1>12. span[0].height <= size
  <2>1. PathIn(file, m, path)
    BY <1>5 DEF RightPath
  <2>2. m \in Nat
    BY <2>1 DEF PathIn
  <2>3. m <= size
    BY <1>8, <1>9, <2>1, PathFits
  <2> QED BY <1>6, <1>9, <2>2, <2>3
<1>13. PICK f : Gathers(f, file, size) /\ LeavesBelow(0) = f[size][0]
  BY <1>8, <1>9, LeavesBelowGathers
<1>14. Covers(f[size][0], order, span[0].first - 1, SpanEnd(0, closed, span, t))
  <2>1. \A p \in closed \union open :
          span[p].height <= size =>
            Covers(f[size][p], order, span[p].first - 1, SpanEnd(p, closed, span, t))
    BY <1>1, <1>9, <1>13, GathersSpan
  <2> QED BY <1>1, <1>12, <2>1
<1>15. span[0].first - 1 = 0 /\ SpanEnd(0, closed, span, t) = t
  <2>1. span[0].first = 1 /\ 0 \notin closed
    BY <1>1 DEF Tree, TreeSets
  <2> QED BY <2>1 DEF SpanEnd
<1>16. Covers(LeavesBelow(0), order, 0, t)
  BY <1>13, <1>14, <1>15
<1>17. Len(ScannedLeaves) = t /\ \A j \in 1..t : ScannedLeaves[j] = order[j]
  BY <1>3, <1>10, <1>11
<1>18. ScannedLeaves = LeavesBelow(0)
  BY <1>3, <1>11, <1>16, <1>17, SameCovered
<1>19. Last(ScannedLeaves) = top
  BY <1>2, <1>3, <1>11 DEF Last
<1> QED BY <1>5, <1>18, <1>19, LastLeafFound

(* Between statements the chain of right siblings that scans follow visits *)
(* the leaves of the tree in the order of the tree, and the next append    *)
(* ends at the last leaf of the chain (Table::mapOverLeafPages, table.hpp  *)
(* 241-255; the appendRecord of table.cpp and table_interior_page.cpp).    *)
THEOREM ScansFollowTree ==
  ASSUME OneTableObject PROVE Spec => []ChainIsTree
<1>1. Known /\ ChainInv /\ TreeInv => ChainIsTree
  <2> SUFFICES ASSUME Known, ChainInv, TreeInv, pc = "idle"
               PROVE  /\ ScannedLeaves = LeavesBelow(0)
                      /\ LeafByRowId(entry.next_row_id) = Last(ScannedLeaves)
    BY DEF ChainIsTree
  <2>1. PICK top, c, chain, n, left : ChainOf(top, c, chain, n, left)
    BY DEF ChainInv
  <2>2. PICK closed, open, span, order, t : TreeHere(closed, open, span, order, t)
    BY DEF TreeInv
  <2> QED BY <2>1, <2>2, WholeChain
<1> QED BY <1>1, TreeInvariant, PTL
=============================================================================
