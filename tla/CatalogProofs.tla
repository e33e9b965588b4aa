--------------------------- MODULE CatalogProofs ---------------------------
(***************************************************************************)
(* Theorems about Catalog, for every set of names and definitions and      *)
(* every leaf capacity, with a process that may end between any two        *)
(* writes: what the order of the writes of CREATE TABLE and DROP TABLE     *)
(* keeps true of files and rows.                                           *)
(***************************************************************************)
EXTENDS Catalog, SequenceFacts

(* Leaves that hold no more rows than they have given out slots.           *)
FullLeaf(R) == {leaf \in Leaf(R) : Len(leaf.rows) <= leaf.used}
Leaves(R) == Seq(FullLeaf(R))

-----------------------------------------------------------------------------
(* Rows and where they are.                                                 *)

(* Every row of a leaf has an index within the leaf's capacity.            *)
LEMMA LeafRows ==
  ASSUME NEW R, NEW leaf \in FullLeaf(R)
  PROVE  /\ leaf.rows \in Seq(R) /\ Len(leaf.rows) \in Nat /\ leaf.used \in Nat
         /\ Len(leaf.rows) <= leaf.used /\ leaf.used <= LeafCapacity
         /\ LeafCapacity \in Nat /\ LeafCapacity >= 1
<1>1. leaf.rows \in Seq(R) /\ leaf.used \in 0..LeafCapacity /\ Len(leaf.rows) <= leaf.used
  BY DEF FullLeaf, Leaf
<1>2. LeafCapacity \in Nat /\ LeafCapacity >= 1
  BY CatalogAssumption
<1> QED BY <1>1, <1>2, LenProperties

(* A scan of the leaves finds a row about the table at index i of leaf l.  *)
RowAt(leaves, name, l, i) ==
  /\ l \in 1..Len(leaves)
  /\ i \in 1..Len(leaves[l].rows)
  /\ leaves[l].rows[i].table = name

LEMMA Places ==
  ASSUME NEW R, NEW leaves \in Leaves(R), NEW name
  PROVE  /\ \A l, i : <<l, i>> \in At(leaves, name) <=> RowAt(leaves, name, l, i)
         /\ \A at \in At(leaves, name) :
              at = <<at[1], at[2]>> /\ at[1] \in Nat /\ at[2] \in Nat
<1>1. Len(leaves) \in Nat
  BY LenProperties DEF Leaves
<1>2. ASSUME NEW l \in 1..Len(leaves)
      PROVE  1..Len(leaves[l].rows) \subseteq 1..LeafCapacity /\ Len(leaves[l].rows) \in Nat
  <2>1. leaves[l] \in FullLeaf(R)
    BY ElementOfSeq DEF Leaves
  <2> QED BY <2>1, LeafRows
<1>3. ASSUME NEW l, NEW i
      PROVE  <<l, i>> \in At(leaves, name) <=> RowAt(leaves, name, l, i)
  <2>1. CASE l \in 1..Len(leaves)
    <3>1. i \in 1..LeafCapacity /\ i <= Len(leaves[l].rows) <=> i \in 1..Len(leaves[l].rows)
      BY <1>2, <2>1, CatalogAssumption
    <3> QED BY <2>1, <3>1 DEF At, RowAt
  <2>2. CASE l \notin 1..Len(leaves)
    BY <2>2 DEF At, RowAt
  <2> QED BY <2>1, <2>2
<1>4. ASSUME NEW at \in At(leaves, name)
      PROVE  at = <<at[1], at[2]>> /\ at[1] \in Nat /\ at[2] \in Nat
  <2>1. at \in (1..Len(leaves)) \X (1..LeafCapacity)
    BY DEF At
  <2> QED BY <1>1, <2>1, CatalogAssumption
<1> QED BY <1>3, <1>4

(* The rows about the table are where they were.                           *)
RowsStay(leaves, new, name) == \A l, i : RowAt(new, name, l, i) <=> RowAt(leaves, name, l, i)

LEMMA SamePlaces ==
  ASSUME NEW R, NEW leaves \in Leaves(R), NEW new \in Leaves(R), NEW name,
         RowsStay(leaves, new, name)
  PROVE  At(new, name) = At(leaves, name)
<1>1. ASSUME NEW l, NEW i
      PROVE  <<l, i>> \in At(new, name) <=> <<l, i>> \in At(leaves, name)
  <2>1. <<l, i>> \in At(new, name) <=> RowAt(new, name, l, i)
    BY Places
  <2>2. <<l, i>> \in At(leaves, name) <=> RowAt(leaves, name, l, i)
    BY Places
  <2> QED BY <2>1, <2>2 DEF RowsStay
<1>2. ASSUME NEW at \in At(new, name) PROVE at \in At(leaves, name)
  <2>1. PICK l, i : at = <<l, i>>
    BY Places
  <2> QED BY <1>1, <1>2, <2>1
<1>3. ASSUME NEW at \in At(leaves, name) PROVE at \in At(new, name)
  <2>1. PICK l, i : at = <<l, i>>
    BY Places
  <2> QED BY <1>1, <1>3, <2>1
<1> QED BY <1>2, <1>3

(* A row about the table has come in at index m of leaf n.                 *)
RowComes(leaves, new, name, n, m) ==
  \A l, i : RowAt(new, name, l, i) <=> RowAt(leaves, name, l, i) \/ (l = n /\ i = m)

LEMMA OnePlaceMore ==
  ASSUME NEW R, NEW leaves \in Leaves(R), NEW new \in Leaves(R), NEW name, NEW n, NEW m,
         RowComes(leaves, new, name, n, m)
  PROVE  At(new, name) = At(leaves, name) \union {<<n, m>>}
<1>1. ASSUME NEW l, NEW i
      PROVE  <<l, i>> \in At(new, name) <=> <<l, i>> \in At(leaves, name) \/ (l = n /\ i = m)
  <2>1. <<l, i>> \in At(new, name) <=> RowAt(new, name, l, i)
    BY Places
  <2>2. <<l, i>> \in At(leaves, name) <=> RowAt(leaves, name, l, i)
    BY Places
  <2> QED BY <2>1, <2>2 DEF RowComes
<1>2. ASSUME NEW at \in At(new, name)
      PROVE  at \in At(leaves, name) \union {<<n, m>>}
  <2>1. PICK l, i : at = <<l, i>>
    BY Places
  <2> QED BY <1>1, <1>2, <2>1
<1>3. ASSUME NEW at \in At(leaves, name) PROVE at \in At(new, name)
  <2>1. PICK l, i : at = <<l, i>>
    BY Places
  <2> QED BY <1>1, <1>3, <2>1
<1>4. <<n, m>> \in At(new, name)
  BY <1>1
<1> QED BY <1>2, <1>3, <1>4

LEMMA Replaced ==
  ASSUME NEW S, NEW s \in Seq(S), NEW i \in 1..Len(s), NEW e \in S,
         NEW new, new = [s EXCEPT ![i] = e]
  PROVE  /\ new \in Seq(S) /\ Len(new) = Len(s)
         /\ \A j \in 1..Len(s) : new[j] = IF j = i THEN e ELSE s[j]
BY ExceptSeq

(* A scan that finds a row at all finds a first one.                       *)
LEMMA FirstPlace ==
  ASSUME NEW places, places # {},
         \A at \in places : at = <<at[1], at[2]>> /\ at[1] \in Nat /\ at[2] \in Nat
  PROVE  First(places) \in places /\ \A other \in places : Before(First(places), other)
<1>1. PICK S : S = {l \in Nat : \E at \in places : at[1] = l}
  OBVIOUS
<1>2. PICK l \in S : \A k \in S : l <= k
  BY <1>1, FirstPosition
<1>3. PICK T : T = {i \in Nat : \E at \in places : at[1] = l /\ at[2] = i}
  OBVIOUS
<1>4. T # {}
  BY <1>1, <1>2, <1>3
<1>5. PICK i \in T : \A k \in T : i <= k
  BY <1>3, <1>4, FirstPosition
<1>6. PICK at \in places : at[1] = l /\ at[2] = i
  BY <1>3, <1>5
<1>7. ASSUME NEW other \in places PROVE Before(at, other)
  <2>1. other[1] \in S /\ other[1] \in Nat /\ other[2] \in Nat /\ l \in Nat /\ i \in Nat
    BY <1>1, <1>2, <1>3, <1>5
  <2>2. l <= other[1]
    BY <1>2, <2>1
  <2>3. other[1] = l => i <= other[2]
    BY <1>3, <1>5, <2>1
  <2> QED BY <1>6, <2>1, <2>2, <2>3 DEF Before
<1>8. \E p \in places : \A other \in places : Before(p, other)
  BY <1>6, <1>7
<1> QED BY <1>8 DEF First

-----------------------------------------------------------------------------
(* What appends, updates and deletes do to the places of rows.             *)

(* Changing the rows of a leaf but not the tables they are about.          *)
SameTables(rows, others) ==
  Len(rows) = Len(others) /\ \A j \in 1..Len(rows) : rows[j].table = others[j].table

LeafBecomes(leaves, new, l, leaf) == new = [leaves EXCEPT ![l] = leaf]
RowBecomes(leaves, new, l, i, row) == new = [leaves EXCEPT ![l].rows[i] = row]

LEMMA LeafWritten ==
  ASSUME NEW R, NEW leaves \in Leaves(R), NEW l \in 1..Len(leaves), NEW leaf \in FullLeaf(R),
         NEW new, LeafBecomes(leaves, new, l, leaf)
  PROVE  /\ new \in Leaves(R) /\ Len(new) = Len(leaves)
         /\ \A k \in 1..Len(leaves) : new[k] = IF k = l THEN leaf ELSE leaves[k]
BY Replaced DEF Leaves, LeafBecomes

LEMMA LeafReplaced ==
  ASSUME NEW R, NEW leaves \in Leaves(R), NEW l \in 1..Len(leaves), NEW leaf \in FullLeaf(R),
         SameTables(leaf.rows, leaves[l].rows),
         NEW new, LeafBecomes(leaves, new, l, leaf)
  PROVE  /\ new \in Leaves(R) /\ Len(new) = Len(leaves)
         /\ \A name : At(new, name) = At(leaves, name)
<1>1. /\ new \in Leaves(R) /\ Len(new) = Len(leaves)
      /\ \A k \in 1..Len(leaves) : new[k] = IF k = l THEN leaf ELSE leaves[k]
  BY LeafWritten
<1>3. ASSUME NEW name PROVE At(new, name) = At(leaves, name)
  <2>1. ASSUME NEW k, NEW j PROVE RowAt(new, name, k, j) <=> RowAt(leaves, name, k, j)
    <3>1. CASE k \in 1..Len(leaves) /\ k = l
      BY <1>1, <3>1 DEF RowAt, SameTables
    <3>2. CASE k \in 1..Len(leaves) /\ k # l
      BY <1>1, <3>2 DEF RowAt
    <3>3. CASE k \notin 1..Len(leaves)
      BY <1>1, <3>3 DEF RowAt
    <3> QED BY <3>1, <3>2, <3>3
  <2>2. RowsStay(leaves, new, name)
    BY <2>1 DEF RowsStay
  <2> QED BY <1>1, <2>2, SamePlaces
<1> QED BY <1>1, <1>3

(* Changing a row but not the table it is about.                           *)
LEMMA RowReplaced ==
  ASSUME NEW R, NEW leaves \in Leaves(R), NEW l \in 1..Len(leaves),
         NEW i \in 1..Len(leaves[l].rows), NEW row \in R,
         row.table = leaves[l].rows[i].table,
         NEW new, RowBecomes(leaves, new, l, i, row)
  PROVE  /\ new \in Leaves(R) /\ Len(new) = Len(leaves)
         /\ \A name : At(new, name) = At(leaves, name)
<1>1. leaves[l] \in FullLeaf(R)
  BY ElementOfSeq DEF Leaves
<1>2. PICK rows : rows = [leaves[l].rows EXCEPT ![i] = row]
  OBVIOUS
<1>3. leaves[l].rows \in Seq(R)
  BY <1>1, LeafRows
<1>4. /\ rows \in Seq(R) /\ Len(rows) = Len(leaves[l].rows)
      /\ \A j \in 1..Len(rows) : rows[j] = IF j = i THEN row ELSE leaves[l].rows[j]
  BY <1>2, <1>3, Replaced
<1>5. PICK leaf : leaf = [leaves[l] EXCEPT !.rows = rows]
  OBVIOUS
<1>6. leaf \in FullLeaf(R) /\ leaf.rows = rows
  BY <1>1, <1>4, <1>5 DEF FullLeaf, Leaf
<1>7. new = [leaves EXCEPT ![l] = leaf]
  BY <1>2, <1>5 DEF RowBecomes
<1>8. LeafBecomes(leaves, new, l, leaf)
  BY <1>7 DEF LeafBecomes
<1>9. SameTables(leaf.rows, leaves[l].rows)
  BY <1>4, <1>6 DEF SameTables
<1> QED BY <1>6, <1>8, <1>9, LeafReplaced

(* An append leaves the rows where they are and adds one.                  *)
Appended(leaves, new, row) == new = AppendRow(leaves, row)
OneMore(leaves, new, name) == \E p : At(new, name) = At(leaves, name) \union {p}

LEMMA RowAppended ==
  ASSUME NEW R, NEW leaves \in Leaves(R), leaves # << >>, NEW row \in R,
         NEW new, Appended(leaves, new, row)
  PROVE  /\ new \in Leaves(R) /\ new # << >>
         /\ \A name : name # row.table => At(new, name) = At(leaves, name)
         /\ OneMore(leaves, new, row.table)
<1>1. leaves \in Seq(FullLeaf(R)) /\ Len(leaves) \in Nat /\ Len(leaves) \in 1..Len(leaves)
  BY EmptySeq, LenProperties DEF Leaves
<1>2. PICK n : n = Len(leaves)
  OBVIOUS
<1>3. leaves[n] \in FullLeaf(R)
  BY <1>1, <1>2, ElementOfSeq
<1>4. CASE Last(leaves).used < LeafCapacity
  <2>1. PICK rows : rows = Append(leaves[n].rows, row)
    OBVIOUS
  <2>2. PICK used : used = leaves[n].used + 1
    OBVIOUS
  <2>3. leaves[n].used < LeafCapacity
    BY <1>2, <1>4 DEF Last
  <2>4. /\ rows \in Seq(R) /\ Len(rows) = Len(leaves[n].rows) + 1
        /\ \A j \in 1..Len(leaves[n].rows) : rows[j] = leaves[n].rows[j]
        /\ rows[Len(leaves[n].rows) + 1] = row
    BY <1>3, <2>1, LeafRows, AppendProperties
  <2>5. used \in 0..LeafCapacity /\ Len(rows) <= used
    BY <1>3, <2>2, <2>3, <2>4, LeafRows
  <2>6. PICK longer : longer = [leaves[n] EXCEPT !.rows = rows]
    OBVIOUS
  <2>7. PICK leaf : leaf = [longer EXCEPT !.used = used]
    OBVIOUS
  <2>8. longer \in Leaf(R) /\ longer.rows = rows
    BY <1>3, <2>4, <2>6 DEF FullLeaf, Leaf
  <2>9. leaf \in FullLeaf(R) /\ leaf.rows = rows
    BY <2>5, <2>7, <2>8 DEF FullLeaf, Leaf
  <2>10. new = [leaves EXCEPT ![n] = leaf]
    BY <1>2, <1>3, <1>4, <2>1, <2>2, <2>6, <2>7 DEF Appended, AppendRow, FullLeaf, Leaf
  <2>11. /\ new \in Seq(FullLeaf(R)) /\ Len(new) = Len(leaves)
         /\ \A k \in 1..Len(leaves) : new[k] = IF k = n THEN leaf ELSE leaves[k]
    BY <1>1, <1>2, <2>9, <2>10, Replaced
  <2>12. new \in Leaves(R) /\ new # << >>
    BY <1>1, <2>11, EmptySeq DEF Leaves
  <2>13. PICK m : m = Len(leaves[n].rows) + 1
    OBVIOUS
  <2>14. ASSUME NEW name, NEW k, NEW j
         PROVE  RowAt(new, name, k, j) <=>
                RowAt(leaves, name, k, j) \/ (row.table = name /\ k = n /\ j = m)
    <3>1. CASE k # n
      BY <2>11, <3>1 DEF RowAt
    <3>2. CASE k = n
      <4>1. Len(leaves[n].rows) \in Nat
        BY <1>3, LeafRows
      <4>2. new[k].rows = rows /\ k \in 1..Len(leaves) /\ k \in 1..Len(new)
        BY <1>1, <1>2, <2>9, <2>11, <3>2
      <4>3. j \in 1..Len(rows) <=> j \in 1..Len(leaves[n].rows) \/ j = m
        BY <2>4, <2>13, <4>1
      <4>4. m \notin 1..Len(leaves[n].rows)
        BY <2>13, <4>1
      <4> QED BY <2>4, <2>13, <3>2, <4>2, <4>3, <4>4 DEF RowAt
    <3> QED BY <3>1, <3>2
  <2>15. ASSUME NEW name, name # row.table PROVE At(new, name) = At(leaves, name)
    <3>1. RowsStay(leaves, new, name)
      BY <2>14, <2>15 DEF RowsStay
    <3> QED BY <2>12, <3>1, SamePlaces
  <2>16. OneMore(leaves, new, row.table)
    <3>1. PICK name : name = row.table
      OBVIOUS
    <3>2. RowComes(leaves, new, name, n, m)
      BY <2>14, <3>1 DEF RowComes
    <3>3. At(new, name) = At(leaves, name) \union {<<n, m>>}
      BY <2>12, <3>2, OnePlaceMore
    <3> QED BY <3>1, <3>3 DEF OneMore
  <2>17. \A name : name # row.table => At(new, name) = At(leaves, name)
    BY <2>15
  <2> QED BY <2>12, <2>16, <2>17, Zenon
<1>5. CASE ~ (Last(leaves).used < LeafCapacity)
  <2>1. PICK leaf : leaf = [rows |-> <<row>>, used |-> 1]
    OBVIOUS
  <2>2. leaf.rows = <<row>> /\ Len(leaf.rows) = 1 /\ leaf.rows[1] = row /\ leaf.used = 1
    BY <2>1
  <2>3. leaf \in FullLeaf(R)
    <3>1. <<row>> \in Seq(R) /\ 1 \in 0..LeafCapacity
      BY CatalogAssumption
    <3>2. leaf \in Leaf(R)
      BY <2>1, <3>1 DEF Leaf
    <3>3. Len(leaf.rows) <= leaf.used
      BY <2>2
    <3> QED BY <3>2, <3>3 DEF FullLeaf
  <2>4. new = Append(leaves, leaf)
    BY <1>5, <2>1 DEF Appended, AppendRow
  <2>5. /\ new \in Seq(FullLeaf(R)) /\ new # << >> /\ Len(new) = n + 1
        /\ \A k \in 1..n : new[k] = leaves[k]
        /\ new[n + 1] = leaf
    BY <1>1, <1>2, <2>3, <2>4, AppendProperties
  <2>6. PICK n1 : n1 = n + 1
    OBVIOUS
  <2>7. (\A k : k \in 1..n1 <=> k \in 1..n \/ k = n1) /\ n1 \notin 1..n
    BY <1>1, <1>2, <2>6
  <2>8. new \in Leaves(R)
    BY <2>5 DEF Leaves
  <2>9. ASSUME NEW name, NEW k, NEW j
        PROVE  RowAt(new, name, k, j) <=>
               RowAt(leaves, name, k, j) \/ (row.table = name /\ k = n1 /\ j = 1)
    <3>1. CASE k # n1
      <4>1. k \in 1..Len(new) <=> k \in 1..Len(leaves)
        BY <1>2, <2>5, <2>6, <2>7, <3>1
      <4>2. k \in 1..Len(leaves) => new[k] = leaves[k]
        BY <1>2, <2>5
      <4> QED BY <3>1, <4>1, <4>2 DEF RowAt
    <3>2. CASE k = n1
      <4>1. k \in 1..Len(new) /\ k \notin 1..Len(leaves) /\ new[k] = leaf
        BY <1>2, <2>5, <2>6, <2>7, <3>2
      <4>2. j \in 1..Len(leaf.rows) <=> j = 1
        BY <2>2
      <4> QED BY <2>2, <3>2, <4>1, <4>2 DEF RowAt
    <3> QED BY <3>1, <3>2
  <2>10. ASSUME NEW name, name # row.table PROVE At(new, name) = At(leaves, name)
    <3>1. RowsStay(leaves, new, name)
      BY <2>9, <2>10 DEF RowsStay
    <3> QED BY <2>8, <3>1, SamePlaces
  <2>11. OneMore(leaves, new, row.table)
    <3>1. PICK name : name = row.table
      OBVIOUS
    <3>2. RowComes(leaves, new, name, n1, 1)
      BY <2>9, <3>1 DEF RowComes
    <3>3. At(new, name) = At(leaves, name) \union {<<n1, 1>>}
      BY <2>8, <3>2, OnePlaceMore
    <3> QED BY <3>1, <3>3 DEF OneMore
  <2>12. \A name : name # row.table => At(new, name) = At(leaves, name)
    BY <2>10
  <2> QED BY <2>5, <2>8, <2>11, <2>12, Zenon
<1> QED BY <1>4, <1>5

(* The elements behind a removed one move up by one index.                 *)
LEMMA RowRemoved ==
  ASSUME NEW R, NEW rows \in Seq(R), NEW i \in 1..Len(rows), NEW rest, rest = RemoveAt(rows, i)
  PROVE  /\ rest \in Seq(R) /\ Len(rest) = Len(rows) - 1
         /\ \A j \in 1..Len(rest) : rest[j] = IF j < i THEN rows[j] ELSE rows[j + 1]
<1>1. Len(rows) \in Nat /\ i \in Nat /\ i >= 1 /\ i <= Len(rows)
  BY LenProperties
<1>2. PICK n : n = Len(rows)
  OBVIOUS
<1>3. PICK front : front = SubSeq(rows, 1, i - 1)
  OBVIOUS
<1>4. PICK back : back = SubSeq(rows, i + 1, n)
  OBVIOUS
<1>5. /\ front \in Seq(R) /\ Len(front) = i - 1
      /\ \A j \in 1..i-1 : front[j] = rows[j]
  <2>1. PICK last : last = i - 1
    OBVIOUS
  <2>2. \A j \in 1..last : rows[j] \in R
    BY <1>1, <2>1, ElementOfSeq
  <2>3. /\ front \in Seq(R)
        /\ Len(front) = IF 1 <= last THEN last - 1 + 1 ELSE 0
        /\ \A j \in 1..last-1+1 : front[j] = rows[1 + j - 1]
    BY <1>1, <1>3, <2>1, <2>2, SubSeqProperties
  <2> QED BY <1>1, <2>1, <2>3
<1>6. /\ back \in Seq(R) /\ Len(back) = n - i
      /\ \A j \in 1..n-i : back[j] = rows[i + j]
  <2>1. PICK first : first = i + 1
    OBVIOUS
  <2>2. \A j \in first..n : rows[j] \in R
    BY <1>1, <1>2, <2>1, ElementOfSeq
  <2>3. /\ back \in Seq(R)
        /\ Len(back) = IF first <= n THEN n - first + 1 ELSE 0
        /\ \A j \in 1..n-first+1 : back[j] = rows[first + j - 1]
    BY <1>1, <1>2, <1>4, <2>1, <2>2, SubSeqProperties
  <2> QED BY <1>1, <1>2, <2>1, <2>3
<1>7. rest = front \o back
  BY <1>2, <1>3, <1>4 DEF RemoveAt
<1>8. /\ rest \in Seq(R) /\ Len(rest) = Len(front) + Len(back)
      /\ \A j \in 1..Len(front) + Len(back) :
           rest[j] = IF j <= Len(front) THEN front[j] ELSE back[j - Len(front)]
  BY <1>5, <1>6, <1>7, ConcatProperties
<1>9. Len(rest) = n - 1
  BY <1>1, <1>2, <1>5, <1>6, <1>8
<1>10. ASSUME NEW j \in 1..Len(rest)
       PROVE  rest[j] = IF j < i THEN rows[j] ELSE rows[j + 1]
  <2>1. j \in Nat /\ j >= 1 /\ j <= n - 1 /\ n \in Nat
    BY <1>1, <1>2, <1>9
  <2>2. CASE j < i
    BY <1>1, <1>5, <1>6, <1>8, <2>1, <2>2
  <2>3. CASE ~ (j < i)
    <3>1. PICK k : k = j - (i - 1)
      OBVIOUS
    <3>2. k \in 1..n-i /\ i + k = j + 1
      BY <1>1, <2>1, <2>3, <3>1
    <3>3. ~ (j <= Len(front)) /\ j - Len(front) = k
      BY <1>1, <1>5, <2>1, <2>3, <3>1
    <3>4. j \in 1..Len(front) + Len(back)
      BY <1>8
    <3>5. rest[j] = back[k]
      BY <1>8, <3>3, <3>4
    <3> QED BY <1>6, <2>3, <3>2, <3>5
  <2> QED BY <2>2, <2>3
<1> QED BY <1>2, <1>8, <1>9, <1>10

(* The row at index i of leaf l has gone, those behind it in the leaf have *)
(* moved up.                                                               *)
RowGoes(leaves, new, l, i) ==
  \A name, k, j : RowAt(new, name, k, j) <=>
    \/ RowAt(leaves, name, k, j) /\ (k # l \/ j < i)
    \/ RowAt(leaves, name, k, j + 1) /\ k = l /\ j \in Nat /\ j >= i

Deleted(leaves, new, l, i) == new = DeleteAt(leaves, <<l, i>>)

LEMMA RowDeleted ==
  ASSUME NEW R, NEW leaves \in Leaves(R), NEW l \in 1..Len(leaves),
         NEW i \in 1..Len(leaves[l].rows), NEW new, Deleted(leaves, new, l, i)
  PROVE  new \in Leaves(R) /\ Len(new) = Len(leaves) /\ RowGoes(leaves, new, l, i)
<1>1. leaves[l] \in FullLeaf(R)
  BY ElementOfSeq DEF Leaves
<1>2. PICK rows : rows = leaves[l].rows
  OBVIOUS
<1>3. rows \in Seq(R) /\ Len(rows) \in Nat /\ i \in 1..Len(rows)
  BY <1>1, <1>2, LeafRows
<1>4. PICK rest : rest = RemoveAt(rows, i)
  OBVIOUS
<1>5. /\ rest \in Seq(R) /\ Len(rest) = Len(rows) - 1
      /\ \A j \in 1..Len(rest) : rest[j] = IF j < i THEN rows[j] ELSE rows[j + 1]
  BY <1>3, <1>4, RowRemoved
<1>6. PICK leaf : leaf = [leaves[l] EXCEPT !.rows = rest]
  OBVIOUS
<1>7. leaf \in FullLeaf(R) /\ leaf.rows = rest
  <2>1. Len(rest) <= leaves[l].used
    BY <1>1, <1>2, <1>3, <1>5, LeafRows
  <2> QED BY <1>1, <1>5, <1>6, <2>1 DEF FullLeaf, Leaf
<1>8. LeafBecomes(leaves, new, l, leaf)
  BY <1>2, <1>4, <1>6 DEF Deleted, DeleteAt, LeafBecomes
<1>9. /\ new \in Leaves(R) /\ Len(new) = Len(leaves)
      /\ \A k \in 1..Len(leaves) : new[k] = IF k = l THEN leaf ELSE leaves[k]
  BY <1>7, <1>8, LeafWritten
<1>10. ASSUME NEW name, NEW k, NEW j
       PROVE  RowAt(new, name, k, j) <=>
              \/ RowAt(leaves, name, k, j) /\ (k # l \/ j < i)
              \/ RowAt(leaves, name, k, j + 1) /\ k = l /\ j \in Nat /\ j >= i
  <2>1. CASE k # l
    BY <1>9, <2>1 DEF RowAt
  <2>2. CASE k = l
    <3>1. RowAt(new, name, k, j) <=> j \in 1..Len(rest) /\ rest[j].table = name
      BY <1>7, <1>9, <2>2 DEF RowAt
    <3>2. \A m : RowAt(leaves, name, k, m) <=> m \in 1..Len(rows) /\ rows[m].table = name
      BY <1>2, <2>2 DEF RowAt
    <3>3. CASE j \in Nat /\ j < i
      <4>1. j \in 1..Len(rest) <=> j \in 1..Len(rows)
        BY <1>3, <1>5, <3>3
      <4>2. j \in 1..Len(rest) => rest[j] = rows[j]
        BY <1>5, <3>3
      <4> QED BY <1>3, <2>2, <3>1, <3>2, <3>3, <4>1, <4>2
    <3>4. CASE j \in Nat /\ j >= i
      <4>1. PICK j1 : j1 = j + 1
        OBVIOUS
      <4>2. j \in 1..Len(rest) <=> j1 \in 1..Len(rows)
        BY <1>3, <1>5, <3>4, <4>1
      <4>3. j \in 1..Len(rest) => rest[j] = rows[j1]
        BY <1>3, <1>5, <3>4, <4>1
      <4>4. ~ (j < i)
        BY <1>3, <3>4
      <4> QED BY <2>2, <3>1, <3>2, <3>4, <4>1, <4>2, <4>3, <4>4
    <3>5. CASE j \notin Nat
      BY <1>3, <2>2, <3>1, <3>2, <3>5
    <3> QED BY <1>3, <3>3, <3>4, <3>5
  <2> QED BY <2>1, <2>2
<1>11. RowGoes(leaves, new, l, i)
  BY <1>10 DEF RowGoes
<1> QED BY <1>9, <1>11

(* There is at most one row about each table.                              *)
Single(leaves) == \A name : \A p, q \in At(leaves, name) : p = q

(* The rows about a table are at a place or behind it.                     *)
Ahead(leaves, name, place) == \A at \in At(leaves, name) : Before(place, at)

DeletedAt(leaves, new, place) == new = DeleteAt(leaves, place)

LEMMA PlaceDeleted ==
  ASSUME NEW R, NEW leaves \in Leaves(R), NEW name, NEW place \in At(leaves, name),
         NEW new, DeletedAt(leaves, new, place)
  PROVE  /\ new \in Leaves(R) /\ new # << >>
         /\ \A other : At(new, other) # {} => At(leaves, other) # {}
         /\ \A other : other # name /\ At(leaves, other) # {} => At(new, other) # {}
         /\ Single(leaves) => Single(new) /\ At(new, name) = {}
         /\ Ahead(leaves, name, place) => Ahead(new, name, place)
<1>1. PICK l, i : place = <<l, i>>
  BY Places
<1>2. RowAt(leaves, name, l, i) /\ l \in Nat /\ i \in Nat
  BY <1>1, Places
<1>3. l \in 1..Len(leaves) /\ i \in 1..Len(leaves[l].rows)
  BY <1>2 DEF RowAt
<1>4. Deleted(leaves, new, l, i)
  BY <1>1 DEF Deleted, DeletedAt
<1>5. new \in Leaves(R) /\ Len(new) = Len(leaves) /\ RowGoes(leaves, new, l, i)
  BY <1>3, <1>4, RowDeleted
<1>6. new # << >>
  BY <1>3, <1>5, EmptySeq, LenProperties DEF Leaves
(* Where a row of new was, and that two rows were not at one place. *)
<1>7. ASSUME NEW other, NEW k, NEW j, RowAt(new, other, k, j)
      PROVE  /\ k \in Nat /\ j \in Nat
             /\ (k # l \/ j < i) => RowAt(leaves, other, k, j)
             /\ ~ (k # l \/ j < i) => RowAt(leaves, other, k, j + 1)
  <2>1. k \in Nat /\ j \in Nat
    <3>1. <<k, j>> \in At(new, other)
      BY <1>5, <1>7, Places
    <3> QED BY <1>5, <3>1, Places
  <2>2. \/ RowAt(leaves, other, k, j) /\ (k # l \/ j < i)
        \/ RowAt(leaves, other, k, j + 1) /\ k = l /\ j \in Nat /\ j >= i
    BY <1>5, <1>7 DEF RowGoes
  <2>3. j >= i => ~ (j < i)
    BY <1>2, <2>1
  <2> QED BY <2>1, <2>2, <2>3
<1>8. ASSUME NEW other, At(new, other) # {} PROVE At(leaves, other) # {}
  <2>1. PICK at : at \in At(new, other)
    BY <1>8
  <2>2. PICK k, j : at = <<k, j>>
    BY <1>5, <2>1, Places
  <2>3. RowAt(new, other, k, j)
    BY <1>5, <2>1, <2>2, Places
  <2>4. RowAt(leaves, other, k, j) \/ RowAt(leaves, other, k, j + 1)
    BY <1>7, <2>3
  <2> QED BY <2>4, Places
<1>9. ASSUME NEW other, other # name, At(leaves, other) # {} PROVE At(new, other) # {}
  <2>1. PICK at : at \in At(leaves, other)
    BY <1>9
  <2>2. PICK k, j : at = <<k, j>>
    BY <2>1, Places
  <2>3. RowAt(leaves, other, k, j) /\ k \in Nat /\ j \in Nat
    BY <2>1, <2>2, Places
  <2>4. ~ (k = l /\ j = i)
    BY <1>2, <1>9, <2>3 DEF RowAt
  <2>5. CASE k # l \/ j < i
    <3>1. RowAt(new, other, k, j)
      BY <1>5, <2>3, <2>5 DEF RowGoes
    <3> QED BY <1>5, <3>1, Places
  <2>6. CASE ~ (k # l \/ j < i)
    <3>1. PICK m : m = j - 1
      OBVIOUS
    <3>2. m \in Nat /\ m >= i /\ m + 1 = j
      BY <1>2, <2>3, <2>4, <2>6, <3>1
    <3>3. RowAt(new, other, k, m)
      BY <1>5, <2>3, <2>6, <3>2 DEF RowGoes
    <3> QED BY <1>5, <3>3, Places
  <2> QED BY <2>5, <2>6
<1>10. ASSUME Single(leaves) PROVE Single(new) /\ At(new, name) = {}
  <2>1. ASSUME NEW other, NEW k, NEW j, NEW m, NEW n,
               RowAt(leaves, other, k, j), RowAt(leaves, other, m, n)
        PROVE  k = m /\ j = n
    <3>1. <<k, j>> \in At(leaves, other) /\ <<m, n>> \in At(leaves, other)
      BY <2>1, Places
    <3>2. <<k, j>> = <<m, n>>
      BY <1>10, <3>1 DEF Single
    <3> QED BY <3>2
  <2>2. ASSUME NEW other, NEW p \in At(new, other), NEW q \in At(new, other) PROVE p = q
    <3>1. PICK k, j : p = <<k, j>>
      BY <1>5, Places
    <3>2. PICK m, n : q = <<m, n>>
      BY <1>5, Places
    <3>3. RowAt(new, other, k, j) /\ RowAt(new, other, m, n)
      BY <1>5, <3>1, <3>2, Places
    <3>4. k \in Nat /\ j \in Nat /\ m \in Nat /\ n \in Nat
      BY <1>7, <3>3
    <3>5. CASE (k # l \/ j < i) /\ (m # l \/ n < i)
      BY <1>7, <2>1, <3>1, <3>2, <3>3, <3>5
    <3>6. CASE (k # l \/ j < i) /\ ~ (m # l \/ n < i)
      <4>1. k = m /\ j = n + 1
        BY <1>7, <2>1, <3>3, <3>6
      <4> QED BY <1>2, <3>4, <3>6, <4>1
    <3>7. CASE ~ (k # l \/ j < i) /\ (m # l \/ n < i)
      <4>1. m = k /\ n = j + 1
        BY <1>7, <2>1, <3>3, <3>7
      <4> QED BY <1>2, <3>4, <3>7, <4>1
    <3>8. CASE ~ (k # l \/ j < i) /\ ~ (m # l \/ n < i)
      <4>1. k = m /\ j + 1 = n + 1
        BY <1>7, <2>1, <3>3, <3>8
      <4> QED BY <3>1, <3>2, <3>4, <4>1
    <3> QED BY <3>5, <3>6, <3>7, <3>8
  <2>3. ASSUME NEW at \in At(new, name) PROVE FALSE
    <3>1. PICK k, j : at = <<k, j>>
      BY <1>5, Places
    <3>2. RowAt(new, name, k, j)
      BY <1>5, <3>1, Places
    <3>3. j \in Nat
      BY <1>7, <3>2
    <3>4. CASE k # l \/ j < i
      <4>1. RowAt(leaves, name, k, j)
        BY <1>7, <3>2, <3>4
      <4> QED BY <1>2, <2>1, <3>3, <3>4, <4>1
    <3>5. CASE ~ (k # l \/ j < i)
      <4>1. RowAt(leaves, name, k, j + 1)
        BY <1>7, <3>2, <3>5
      <4>2. j + 1 = i
        BY <1>2, <2>1, <4>1
      <4> QED BY <1>2, <3>3, <3>5, <4>2
    <3> QED BY <3>4, <3>5
  <2> QED BY <2>2, <2>3 DEF Single
<1>11. ASSUME Ahead(leaves, name, place) PROVE Ahead(new, name, place)
  <2>1. ASSUME NEW k, NEW j, RowAt(leaves, name, k, j) PROVE l < k \/ (l = k /\ i <= j)
    <3>1. <<k, j>> \in At(leaves, name)
      BY <2>1, Places
    <3> QED BY <1>1, <1>11, <3>1 DEF Ahead, Before
  <2>2. ASSUME NEW at \in At(new, name) PROVE Before(place, at)
    <3>1. PICK k, j : at = <<k, j>>
      BY <1>5, Places
    <3>2. RowAt(new, name, k, j)
      BY <1>5, <3>1, Places
    <3>3. k \in Nat /\ j \in Nat
      BY <1>7, <3>2
    <3>4. CASE k # l \/ j < i
      <4>1. RowAt(leaves, name, k, j)
        BY <1>7, <3>2, <3>4
      <4>2. l < k \/ (l = k /\ i <= j)
        BY <2>1, <4>1
      <4> QED BY <1>1, <3>1, <4>2 DEF Before
    <3>5. CASE ~ (k # l \/ j < i)
      <4>1. l = k /\ i <= j
        BY <1>2, <3>3, <3>5
      <4> QED BY <1>1, <3>1, <4>1 DEF Before
    <3> QED BY <3>4, <3>5
  <2> QED BY <2>2 DEF Ahead
<1>12. /\ \A other : At(new, other) # {} => At(leaves, other) # {}
       /\ \A other : other # name /\ At(leaves, other) # {} => At(new, other) # {}
  BY <1>8, <1>9
<1> QED BY <1>5, <1>6, <1>10, <1>11, <1>12, Zenon

(* What an append means for the tables that there are rows about.          *)
LEMMA TableAdded ==
  ASSUME NEW R, NEW leaves \in Leaves(R), leaves # << >>, NEW row \in R,
         NEW new, Appended(leaves, new, row)
  PROVE  /\ new \in Leaves(R) /\ new # << >>
         /\ \A name : name # row.table => At(new, name) = At(leaves, name)
         /\ \A name : At(leaves, name) # {} => At(new, name) # {}
         /\ Single(leaves) /\ At(leaves, row.table) = {} => Single(new)
<1>1. /\ new \in Leaves(R) /\ new # << >>
      /\ \A name : name # row.table => At(new, name) = At(leaves, name)
      /\ OneMore(leaves, new, row.table)
  BY RowAppended
<1>2. PICK p : At(new, row.table) = At(leaves, row.table) \union {p}
  BY <1>1 DEF OneMore
<1>3. ASSUME NEW name, At(leaves, name) # {} PROVE At(new, name) # {}
  BY <1>1, <1>2, <1>3
<1>4. ASSUME Single(leaves), At(leaves, row.table) = {} PROVE Single(new)
  <2>1. ASSUME NEW name, NEW a \in At(new, name), NEW b \in At(new, name) PROVE a = b
    <3>1. CASE name # row.table
      BY <1>1, <1>4, <3>1 DEF Single
    <3>2. CASE name = row.table
      BY <1>2, <1>4, <3>2
    <3> QED BY <3>1, <3>2
  <2> QED BY <2>1 DEF Single
<1>5. \A name : At(leaves, name) # {} => At(new, name) # {}
  BY <1>3
<1> QED BY <1>1, <1>4, <1>5, Zenon

(* The rows are about the tables that they were about, at the same places. *)
Kept(leaves, new) == \A name : At(new, name) = At(leaves, name)

LEMMA FirstRow ==
  ASSUME NEW R, NEW leaves \in Leaves(R), NEW name,
         NEW places, places \subseteq At(leaves, name), places # {},
         NEW first, first = First(places)
  PROVE  /\ first \in places
         /\ first[1] \in 1..Len(leaves) /\ first[2] \in 1..Len(leaves[first[1]].rows)
         /\ leaves[first[1]].rows[first[2]] \in R
         /\ leaves[first[1]].rows[first[2]].table = name
         /\ \A other \in places : Before(first, other)
<1>1. \A at \in places : at = <<at[1], at[2]>> /\ at[1] \in Nat /\ at[2] \in Nat
  BY Places
<1>2. first \in places /\ \A other \in places : Before(first, other)
  BY <1>1, FirstPlace
<1>3. PICK l, i : first = <<l, i>>
  BY <1>1, <1>2
<1>4. RowAt(leaves, name, l, i)
  BY <1>2, <1>3, Places
<1>5. l \in 1..Len(leaves) /\ i \in 1..Len(leaves[l].rows) /\ leaves[l].rows[i].table = name
  BY <1>4 DEF RowAt
<1>6. leaves[l].rows[i] \in R
  <2>1. leaves[l] \in FullLeaf(R)
    BY <1>5, ElementOfSeq DEF Leaves
  <2>2. leaves[l].rows \in Seq(R)
    BY <2>1, LeafRows
  <2> QED BY <1>5, <2>2, ElementOfSeq
<1>7. first[1] = l /\ first[2] = i
  BY <1>3
<1> QED BY <1>2, <1>5, <1>6, <1>7

NextStored(leaves, new, name, row_id) == new = StoreNext(leaves, name, row_id)

LEMMA StoreKeepsRows ==
  ASSUME NEW leaves \in Leaves(TableRow), NEW name, NEW row_id \in Nat,
         NEW new, NextStored(leaves, new, name, row_id)
  PROVE  new \in Leaves(TableRow) /\ Len(new) = Len(leaves) /\ Kept(leaves, new)
<1>1. CASE At(leaves, name) = {}
  BY <1>1 DEF NextStored, StoreNext, Kept
<1>2. CASE At(leaves, name) # {}
  <2>1. PICK places : places = At(leaves, name)
    OBVIOUS
  <2>2. PICK first : first = First(places)
    OBVIOUS
  <2>3. /\ first[1] \in 1..Len(leaves) /\ first[2] \in 1..Len(leaves[first[1]].rows)
        /\ leaves[first[1]].rows[first[2]] \in TableRow
    BY <1>2, <2>1, <2>2, FirstRow
  <2>4. PICK l : l = first[1]
    OBVIOUS
  <2>5. PICK i : i = first[2]
    OBVIOUS
  <2>6. PICK row : row = [leaves[l].rows[i] EXCEPT !.next_row_id = row_id]
    OBVIOUS
  <2>7. row \in TableRow /\ row.table = leaves[l].rows[i].table
    BY <2>3, <2>4, <2>5, <2>6 DEF TableRow
  <2>8. RowBecomes(leaves, new, l, i, row)
    <3>1. new = [leaves EXCEPT ![first[1]].rows[first[2]].next_row_id = row_id]
      BY <1>2, <2>1, <2>2 DEF NextStored, StoreNext
    <3>2. new = [leaves EXCEPT ![l].rows[i].next_row_id = row_id]
      BY <2>4, <2>5, <3>1
    <3> QED BY <2>6, <3>2 DEF RowBecomes
  <2> QED BY <2>3, <2>4, <2>5, <2>7, <2>8, RowReplaced DEF Kept
<1> QED BY <1>1, <1>2

IndexMade(leaves, new, place) == new = [leaves EXCEPT ![place[1]].rows[place[2]].unique = TRUE]

LEMMA IndexKeepsRows ==
  ASSUME NEW leaves \in Leaves(ColumnRow), NEW name,
         NEW places, places \subseteq At(leaves, name), places # {},
         NEW new, IndexMade(leaves, new, First(places))
  PROVE  new \in Leaves(ColumnRow) /\ Len(new) = Len(leaves) /\ Kept(leaves, new)
<1>1. PICK first : first = First(places)
  OBVIOUS
<1>2. /\ first[1] \in 1..Len(leaves) /\ first[2] \in 1..Len(leaves[first[1]].rows)
      /\ leaves[first[1]].rows[first[2]] \in ColumnRow
  BY <1>1, FirstRow
<1>3. PICK l : l = first[1]
  OBVIOUS
<1>4. PICK i : i = first[2]
  OBVIOUS
<1>5. PICK row : row = [leaves[l].rows[i] EXCEPT !.unique = TRUE]
  OBVIOUS
<1>6. row \in ColumnRow /\ row.table = leaves[l].rows[i].table
  BY <1>2, <1>3, <1>4, <1>5 DEF ColumnRow
<1>7. RowBecomes(leaves, new, l, i, row)
  <2>1. new = [leaves EXCEPT ![l].rows[i].unique = TRUE]
    BY <1>1, <1>3, <1>4 DEF IndexMade
  <2> QED BY <1>5, <2>1 DEF RowBecomes
<1> QED BY <1>2, <1>3, <1>4, <1>6, <1>7, RowReplaced DEF Kept

(* New leaves hold no row.                                                 *)
LEMMA NoRows ==
  ASSUME NEW R, NEW leaves, leaves = << >> \/ leaves = <<EmptyLeaf>>
  PROVE  leaves \in Leaves(R) /\ \A name : At(leaves, name) = {}
<1>1. EmptyLeaf \in FullLeaf(R)
  <2>1. << >> \in Seq(R) /\ Len(<< >>) = 0 /\ 0 \in 0..LeafCapacity
    BY EmptySeq, CatalogAssumption
  <2>2. EmptyLeaf.rows = << >> /\ EmptyLeaf.used = 0
    BY DEF EmptyLeaf
  <2>3. EmptyLeaf \in Leaf(R)
    BY <2>1 DEF Leaf, EmptyLeaf
  <2> QED BY <2>1, <2>2, <2>3 DEF FullLeaf
<1>2. CASE leaves = << >>
  <2>1. Len(leaves) = 0 /\ leaves \in Leaves(R)
    BY <1>2, EmptySeq DEF Leaves
  <2> QED BY <2>1 DEF At
<1>3. CASE leaves = <<EmptyLeaf>>
  <2>1. Len(leaves) = 1 /\ leaves[1] = EmptyLeaf /\ leaves \in Leaves(R)
    BY <1>1, <1>3 DEF Leaves
  <2>2. ASSUME NEW name, NEW at \in At(leaves, name) PROVE FALSE
    <3>1. PICK l, i : at = <<l, i>>
      BY <2>1, Places
    <3>2. RowAt(leaves, name, l, i)
      BY <2>1, <3>1, Places
    <3>3. l = 1 /\ i \in 1..Len(EmptyLeaf.rows)
      BY <2>1, <3>2 DEF RowAt
    <3>4. Len(EmptyLeaf.rows) = 0
      BY EmptySeq DEF EmptyLeaf
    <3> QED BY <3>3, <3>4
  <2> QED BY <2>1, <2>2
<1> QED BY <1>2, <1>3

-----------------------------------------------------------------------------
(* What a scan of davisbase_columns finds about a table.                   *)

(* RowsAbout as the function of the first i rows that it is the last value *)
(* of.                                                                     *)
Finds(f, rows, name, n) ==
  f = [i \in 0..n |->
         IF i = 0 THEN << >>
         ELSE IF rows[i].table = name THEN Append(f[i-1], rows[i]) ELSE f[i-1]]
Findable(rows, name, n) == \E f : Finds(f, rows, name, n)

LEMMA FindsFirst ==
  ASSUME NEW rows, NEW name, NEW n \in Nat, NEW f, Finds(f, rows, name, n)
  PROVE  f[0] = << >>
<1>1. 0 \in 0..n
  OBVIOUS
<1> QED BY <1>1 DEF Finds

FindsAt(f, rows, name, i) ==
  f[i] = IF rows[i].table = name THEN Append(f[i-1], rows[i]) ELSE f[i-1]

LEMMA FindsNext ==
  ASSUME NEW rows, NEW name, NEW n \in Nat, NEW f, Finds(f, rows, name, n)
  PROVE  \A i \in 1..n : FindsAt(f, rows, name, i)
<1> TAKE i \in 1..n
<1>1. i \in 0..n /\ i # 0
  OBVIOUS
<1> QED BY <1>1 DEF Finds, FindsAt

LEMMA AlwaysFindable ==
  ASSUME NEW rows, NEW name, NEW n \in Nat
  PROVE  Findable(rows, name, n)
<1>1. PICK A : A = {m \in Nat : Findable(rows, name, m)}
  OBVIOUS
<1>2. 0 \in A
  <2>1. PICK f : f = [i \in 0..0 |-> << >>]
    OBVIOUS
  <2>2. Finds(f, rows, name, 0)
    <3>1. \A i \in 0..0 : i = 0
      OBVIOUS
    <3> QED BY <2>1, <3>1 DEF Finds
  <2> QED BY <1>1, <2>2 DEF Findable
<1>3. ASSUME NEW m \in 0..n-1, m \in A PROVE m+1 \in A
  <2>1. PICK f : Finds(f, rows, name, m)
    BY <1>1, <1>3 DEF Findable
  <2>2. PICK last : last = IF rows[m+1].table = name THEN Append(f[m], rows[m+1]) ELSE f[m]
    OBVIOUS
  <2>3. PICK g : g = [i \in 0..m+1 |-> IF i = m+1 THEN last ELSE f[i]]
    OBVIOUS
  <2>4. ASSUME NEW i \in 0..m+1
        PROVE  g[i] = IF i = 0 THEN << >>
                      ELSE IF rows[i].table = name THEN Append(g[i-1], rows[i]) ELSE g[i-1]
    <3>1. CASE i = m+1
      <4>1. m \in 0..m+1 /\ m # m+1 /\ i # 0 /\ i-1 = m
        BY <3>1
      <4>2. g[i] = last /\ g[m] = f[m]
        BY <2>3, <3>1, <4>1
      <4> QED BY <2>2, <3>1, <4>1, <4>2
    <3>2. CASE i # m+1 /\ i # 0
      <4>1. i \in 1..m /\ i-1 \in 0..m+1 /\ i-1 # m+1 /\ m \in Nat
        BY <3>2
      <4>2. g[i] = f[i] /\ g[i-1] = f[i-1]
        BY <2>3, <3>2, <4>1
      <4>3. f[i] = IF rows[i].table = name THEN Append(f[i-1], rows[i]) ELSE f[i-1]
        BY <2>1, <4>1, FindsNext DEF FindsAt
      <4> QED BY <3>2, <4>2, <4>3
    <3>3. CASE i = 0
      <4>1. m \in Nat /\ 0 # m+1
        OBVIOUS
      <4>2. g[0] = f[0] /\ f[0] = << >>
        BY <2>1, <2>3, <3>3, <4>1, FindsFirst
      <4> QED BY <3>3, <4>2
    <3> QED BY <3>1, <3>2, <3>3
  <2>5. Finds(g, rows, name, m+1)
    BY <2>3, <2>4 DEF Finds
  <2> QED BY <1>1, <2>5 DEF Findable
<1>4. 0..n \subseteq A
  BY <1>2, <1>3, UpTo
<1> QED BY <1>1, <1>4

LEMMA AboutFinds ==
  ASSUME NEW rows, NEW name, NEW n \in Nat, n = Len(rows)
  PROVE  \E f : Finds(f, rows, name, n) /\ RowsAbout(rows, name) = f[n]
<1>1. PICK f : f = CHOOSE g : Finds(g, rows, name, n)
  OBVIOUS
<1>2. Finds(f, rows, name, n)
  BY <1>1, AlwaysFindable, Zenon DEF Findable
<1>3. RowsAbout(rows, name) = f[n]
  BY <1>1 DEF RowsAbout, Finds
<1> QED BY <1>2, <1>3

LEMMA FindsType ==
  ASSUME NEW R, NEW rows \in Seq(R), NEW name, NEW n \in Nat, n = Len(rows),
         NEW f, Finds(f, rows, name, n), NEW T, \A r \in R : r.table = name => r \in T
  PROVE  \A i \in 0..n : f[i] \in Seq(T)
<1>1. PICK A : A = {i \in 0..n : f[i] \in Seq(T)}
  OBVIOUS
<1>2. 0 \in A
  <2>1. << >> \in Seq(T) /\ 0 \in 0..n
    BY EmptySeq
  <2>2. f[0] = << >>
    BY FindsFirst
  <2> QED BY <1>1, <2>1, <2>2
<1>3. ASSUME NEW i \in 0..n-1, i \in A PROVE i+1 \in A
  <2>1. PICK k : k = i+1
    OBVIOUS
  <2>2. k \in 1..n /\ k-1 = i /\ k \in 0..n
    BY <2>1
  <2>3. rows[k] \in R /\ f[i] \in Seq(T)
    BY <1>1, <1>3, <2>2, ElementOfSeq
  <2>4. f[k] = IF rows[k].table = name THEN Append(f[i], rows[k]) ELSE f[i]
    BY <2>2, FindsNext DEF FindsAt
  <2>5. f[k] \in Seq(T)
    BY <2>3, <2>4, AppendProperties
  <2> QED BY <1>1, <2>1, <2>2, <2>5
<1>4. 0..n \subseteq A
  BY <1>2, <1>3, UpTo
<1> QED BY <1>1, <1>4

LEMMA AboutType ==
  ASSUME NEW R, NEW rows \in Seq(R), NEW name, NEW T, \A r \in R : r.table = name => r \in T
  PROVE  RowsAbout(rows, name) \in Seq(T)
<1>1. PICK n \in Nat : n = Len(rows)
  BY LenProperties
<1>2. PICK f : Finds(f, rows, name, n) /\ RowsAbout(rows, name) = f[n]
  BY <1>1, AboutFinds
<1>3. Finds(f, rows, name, n)
  BY <1>2
<1>4. \A i \in 0..n : f[i] \in Seq(T)
  BY <1>1, <1>3, FindsType
<1>5. n \in 0..n
  OBVIOUS
<1> QED BY <1>2, <1>4, <1>5

(* The rows of the leaves.                                                 *)
Parts(leaves) == [i \in DOMAIN leaves |-> leaves[i].rows]

LEMMA PartsOf ==
  ASSUME NEW R, NEW leaves \in Leaves(R)
  PROVE  /\ Parts(leaves) \in Seq(Seq(R)) /\ Len(Parts(leaves)) = Len(leaves)
         /\ \A i \in 1..Len(leaves) : Parts(leaves)[i] = leaves[i].rows
         /\ \A i \in 1..Len(leaves) : leaves[i].rows \in Seq(R)
         /\ Rows(leaves) = FlattenSeq(Parts(leaves))
<1>1. PICK n \in Nat : n = Len(leaves)
  BY LenProperties DEF Leaves
<1>2. DOMAIN leaves = 1..n
  BY <1>1, LenProperties DEF Leaves
<1>3. \A i \in 1..n : leaves[i].rows \in Seq(R)
  <2> TAKE i \in 1..n
  <2>1. leaves[i] \in FullLeaf(R)
    BY <1>1, ElementOfSeq DEF Leaves
  <2> QED BY <2>1, LeafRows
<1>4. PICK parts : parts = [i \in 1..n |-> leaves[i].rows]
  OBVIOUS
<1>5. parts \in [1..n -> Seq(R)]
  BY <1>3, <1>4
<1>6. parts \in Seq(Seq(R)) /\ Len(parts) = n
  BY <1>5, LenProperties, SeqDef
<1>7. Parts(leaves) = parts
  BY <1>2, <1>4 DEF Parts
<1>8. Rows(leaves) = FlattenSeq(Parts(leaves))
  BY DEF Rows, Parts
<1> QED BY <1>1, <1>3, <1>4, <1>6, <1>7, <1>8

LEMMA RowsType ==
  ASSUME NEW R, NEW leaves \in Leaves(R), NEW T,
         \A i \in 1..Len(leaves) : leaves[i].rows \in Seq(T)
  PROVE  Rows(leaves) \in Seq(T)
<1>1. PICK n \in Nat : n = Len(leaves)
  BY LenProperties DEF Leaves
<1>2. PICK parts \in Seq(Seq(R)) :
        /\ Len(parts) = n /\ Rows(leaves) = FlattenSeq(parts)
        /\ \A i \in 1..n : parts[i] = leaves[i].rows
  BY <1>1, PartsOf
<1>3. CASE n = 0
  <2>1. parts = << >>
    BY <1>2, <1>3, EmptySeq
  <2>2. FlattenSeq(<< >>) = << >>
    BY DEF FlattenSeq
  <2> QED BY <1>2, <2>1, <2>2, EmptySeq
<1>4. CASE n # 0
  <2>1. \A i \in 1..n : parts[i] \in Seq(T)
    BY <1>1, <1>2
  <2>2. parts \in Seq(Seq(T))
    <3>1. parts \in [1..n -> Seq(T)]
      <4>1. parts \in [1..n -> Seq(R)]
        BY <1>2, LenProperties
      <4> QED BY <2>1, <4>1
    <3> QED BY <3>1, SeqDef
  <2>3. parts # << >>
    BY <1>2, <1>4, EmptySeq
  <2> QED BY <1>2, <2>2, <2>3, FlattenType
<1> QED BY <1>3, <1>4

Seen(row) == [column |-> row.column, unique |-> row.unique]
InfoOf(rows) == [i \in DOMAIN rows |-> Seen(rows[i])]
NamesOf(info) == [i \in DOMAIN info |-> info[i].column]
Info(leaves, name) == InfoOf(RowsAbout(Rows(leaves), name))

LEMMA InfoIs ==
  /\ \A name : ColumnsInfo(name) = Info(columns, name)
  /\ \A name : ColumnNames(name) = NamesOf(ColumnsInfo(name))
BY DEF ColumnsInfo, OfTable, Info, InfoOf, Seen, ColumnNames, NamesOf

LEMMA InfoType ==
  ASSUME NEW R, NEW rows \in Seq(R), NEW I, \A r \in R : Seen(r) \in I
  PROVE  /\ InfoOf(rows) \in Seq(I) /\ Len(InfoOf(rows)) = Len(rows)
         /\ \A i \in 1..Len(rows) : InfoOf(rows)[i] = Seen(rows[i])
<1>1. PICK n \in Nat : n = Len(rows)
  BY LenProperties
<1>2. DOMAIN rows = 1..n /\ \A i \in 1..n : rows[i] \in R
  BY <1>1, LenProperties, ElementOfSeq
<1>3. PICK info : info = [i \in 1..n |-> Seen(rows[i])]
  OBVIOUS
<1>4. info \in [1..n -> I]
  BY <1>2, <1>3
<1>5. info \in Seq(I) /\ Len(info) = n
  BY <1>4, LenProperties, SeqDef
<1>6. InfoOf(rows) = info
  BY <1>2, <1>3 DEF InfoOf
<1> QED BY <1>1, <1>3, <1>5, <1>6

-----------------------------------------------------------------------------
(* The invariant.                                                           *)

Loops == {"truncate", "write_roots", "bootstrap_tables", "store_entries"}
Unready == {"down", "truncate", "write_roots"}
ColumnsLeft == Seq([table : SchemaTables, column : STRING]) \ {<< >>}

FilesTyped ==
  /\ files \in [DOMAIN files -> {"empty", "paged"}]
  /\ DOMAIN files \subseteq Names \union SchemaTables

SchemaTyped ==
  /\ DOMAIN schema = SchemaTables
  /\ tables \in Leaves(TableRow)
  /\ columns \in Leaves(ColumnRow)

SessionTyped ==
  /\ next \in [SchemaTables -> Nat]
  /\ known \in [SchemaTables -> Nat]
  /\ unlinked \subseteq SchemaTables

OpTyped ==
  /\ pc \in {"down", "idle"} \union BootstrapPhases \union DropPhases \union CreatePhases
  /\ pc \in Loops => op \in [left : {SchemaOrder, Tail(SchemaOrder)}]
  /\ pc = "bootstrap_columns" => op \in [left : ColumnsLeft]
  /\ pc \in DropPhases => op \in [name : Names]
  /\ pc \in CreatePhases => op \in [name : Names, columns : Seq(Columns)]
  /\ pc = "count_column" => op.columns # << >>

(* Rows are about tables whose file is there, and no two entries are about *)
(* the same.                                                               *)
Within(leaves, names) == \A name : At(leaves, name) # {} => name \in names

RowsNamed ==
  /\ Within(tables, DOMAIN files)
  /\ Within(columns, DOMAIN files)
  /\ Single(tables)

(* A file that a process finds with its page has a leaf.                   *)
PagedHasLeaf ==
  \A s \in SchemaTables : s \in DOMAIN files /\ files[s] = "paged" => schema[s] # << >>

NoRow(leaves) == \A name : At(leaves, name) = {}

(* What the bootstrap has come to, and that a schema table that is open    *)
(* has a leaf to append to.                                                *)
StartUnderWay ==
  /\ pc \in {"down"} \union BootstrapPhases => unlinked = {}
  /\ pc \in Unready => PagedHasLeaf
  /\ pc \notin Unready => tables # << >> /\ columns # << >>
  /\ pc = "truncate" /\ op.left = SchemaOrder => ~ BothFilesExist
  /\ pc = "truncate" /\ op.left # SchemaOrder =>
       "davisbase_tables" \in DOMAIN files /\ files["davisbase_tables"] = "empty" /\ NoRow(tables)
  /\ pc = "write_roots" => BothFilesExist /\ files["davisbase_columns"] = "empty" /\ NoRow(tables)
  /\ pc = "write_roots" /\ op.left # SchemaOrder => tables # << >>
  /\ pc = "bootstrap_tables" => BothFilesExist /\ At(tables, "davisbase_columns") = {}
  /\ pc = "bootstrap_tables" /\ op.left = SchemaOrder => At(tables, "davisbase_tables") = {}
  /\ pc = "bootstrap_columns" => BothFilesExist

(* CREATE TABLE and DROP TABLE work on a name whose file is there; the     *)
(* first finds no row about it in davisbase_tables, the second leaves none *)
(* there and none in davisbase_columns before the place of its scan.       *)
StatementUnderWay ==
  /\ pc \in CreatePhases \union DropPhases => op.name \in DOMAIN files
  /\ pc \in {"write_root", "append_table", "drop_columns"} => At(tables, op.name) = {}
  /\ pc = "drop_columns" => Ahead(columns, op.name, cursor)

CatalogInv ==
  /\ FilesTyped
  /\ SchemaTyped
  /\ SessionTyped
  /\ OpTyped
  /\ RowsNamed
  /\ StartUnderWay
  /\ StatementUnderWay

-----------------------------------------------------------------------------
(* Facts that several steps need.                                           *)

LEMMA SchemaNames ==
  SchemaTables = {"davisbase_tables", "davisbase_columns"}
<1>1. Len(SchemaOrder) = 2 /\ SchemaOrder[1] = "davisbase_tables" /\ SchemaOrder[2] = "davisbase_columns"
  BY DEF SchemaOrder
<1>2. SchemaTables = {SchemaOrder[i] : i \in 1..2}
  BY <1>1 DEF SchemaTables, ToSet
<1> QED BY <1>1, <1>2

LEMMA SchemaOrders ==
  /\ Head(SchemaOrder) = "davisbase_tables" /\ Len(SchemaOrder) = 2
  /\ Head(Tail(SchemaOrder)) = "davisbase_columns" /\ Len(Tail(SchemaOrder)) = 1
  /\ SchemaOrder # Tail(SchemaOrder)
  /\ SchemaOrder # << >> /\ Tail(SchemaOrder) # << >>
BY DEF SchemaOrder

LEMMA FilesPut ==
  ASSUME FilesTyped, NEW name \in Names \union SchemaTables, NEW value \in {"empty", "paged"},
         files' = Put(files, name, value)
  PROVE  /\ FilesTyped'
         /\ DOMAIN files' = DOMAIN files \union {name} /\ files'[name] = value
         /\ \A n \in DOMAIN files : n # name => files'[n] = files[n]
BY DEF Put, FilesTyped

LEMMA FileGone ==
  ASSUME FilesTyped, NEW name, files' = Without(files, name)
  PROVE  /\ FilesTyped'
         /\ DOMAIN files' = DOMAIN files \ {name}
         /\ \A n \in DOMAIN files' : files'[n] = files[n]
BY DEF Without, FilesTyped

LEMMA TablesWritten ==
  ASSUME SchemaTyped, NEW new, schema' = [schema EXCEPT !.davisbase_tables = new]
  PROVE  tables' = new /\ columns' = columns /\ DOMAIN schema' = SchemaTables
BY SchemaNames DEF SchemaTyped, tables, columns

LEMMA ColumnsWritten ==
  ASSUME SchemaTyped, NEW new, schema' = [schema EXCEPT !.davisbase_columns = new]
  PROVE  tables' = tables /\ columns' = new /\ DOMAIN schema' = SchemaTables
BY SchemaNames DEF SchemaTyped, tables, columns

(* A loop over the two schema tables is at the first or at the second.     *)
LEMMA NextOfTwo ==
  ASSUME op \in [left : {SchemaOrder, Tail(SchemaOrder)}], NEW phase, NEW left, GoOn(phase, left)
  PROVE  \/ /\ op.left = SchemaOrder /\ Head(op.left) = "davisbase_tables"
            /\ op' = [left |-> Tail(SchemaOrder)] /\ pc' = pc
         \/ /\ op.left = Tail(SchemaOrder) /\ Head(op.left) = "davisbase_columns"
            /\ op' = [left |-> left] /\ pc' = phase
<1>1. CASE op.left = SchemaOrder
  BY <1>1, SchemaOrders DEF GoOn
<1>2. CASE op.left = Tail(SchemaOrder)
  <2>1. Head(op.left) = "davisbase_columns" /\ Len(op.left) = 1
    BY <1>2, SchemaOrders, Zenon
  <2>2. ~ (Len(op.left) > 1)
    BY <2>1
  <2>3. op' = [left |-> left] /\ pc' = phase
    BY <2>2 DEF GoOn
  <2> QED BY <1>2, <2>1, <2>3
<1> QED BY <1>1, <1>2

LEMMA InitInv == Init => CatalogInv
<1> SUFFICES ASSUME Init PROVE CatalogInv
  OBVIOUS
<1>1. tables = << >> /\ columns = << >> /\ DOMAIN schema = SchemaTables
  BY SchemaNames DEF Init, tables, columns
<1>2. tables \in Leaves(TableRow) /\ columns \in Leaves(ColumnRow)
  BY <1>1, NoRows
<1>3. NoRow(tables) /\ NoRow(columns)
  BY <1>1, NoRows DEF NoRow
<1>4. DOMAIN files = {} /\ files \in [DOMAIN files -> {"empty", "paged"}]
  BY DEF Init
<1>5. RowsNamed
  BY <1>3 DEF RowsNamed, NoRow, Within, Single
<1>6. FilesTyped /\ SchemaTyped /\ SessionTyped
  BY <1>1, <1>2, <1>4 DEF Init, FilesTyped, SchemaTyped, SessionTyped
<1>7. OpTyped /\ StatementUnderWay
  BY DEF Init, OpTyped, StatementUnderWay, Loops, BootstrapPhases, DropPhases, CreatePhases
<1>8. StartUnderWay
  BY <1>4 DEF Init, StartUnderWay, PagedHasLeaf, Unready
<1> QED BY <1>5, <1>6, <1>7, <1>8 DEF CatalogInv

-----------------------------------------------------------------------------
(* The steps of a start.                                                    *)

(* Where no file has changed and every row is about a table it was about.  *)
LEMMA OpenStep ==
  ASSUME CatalogInv, OpenExisting
  PROVE  CatalogInv'
<1>1. /\ pc = "down" /\ pc' = "idle"
      /\ \A s \in SchemaTables : s \in DOMAIN files /\ files[s] = "paged" /\ HasEntry(s)
      /\ next' = [s \in SchemaTables |-> Entry(s).next_row_id]
      /\ known' = [s \in SchemaTables |-> Len(ColumnsInfo(s))]
      /\ files' = files /\ schema' = schema /\ unlinked' = unlinked
  BY DEF OpenExisting, BothFilesExist
<1>2. tables' = tables /\ columns' = columns
  BY <1>1 DEF tables, columns
<1>3. FilesTyped' /\ SchemaTyped' /\ RowsNamed'
  BY <1>1, <1>2 DEF CatalogInv, FilesTyped, SchemaTyped, RowsNamed, Within, Single
<1>4. ASSUME NEW s \in SchemaTables PROVE Entry(s).next_row_id \in Nat
  <2>1. PICK places : places = At(tables, s)
    OBVIOUS
  <2>2. PICK first : first = First(places)
    OBVIOUS
  <2>3. places # {}
    BY <1>1, <2>1 DEF HasEntry
  <2>4. tables \in Leaves(TableRow)
    BY DEF CatalogInv, SchemaTyped
  <2>5. tables[first[1]].rows[first[2]] \in TableRow
    BY <2>1, <2>2, <2>3, <2>4, FirstRow
  <2>6. Entry(s) = tables[first[1]].rows[first[2]]
    BY <2>1, <2>2 DEF Entry
  <2> QED BY <2>5, <2>6 DEF TableRow
<1>5. ASSUME NEW s \in SchemaTables PROVE Len(ColumnsInfo(s)) \in Nat
  <2>1. columns \in Leaves(ColumnRow)
    BY DEF CatalogInv, SchemaTyped
  <2>2. Rows(columns) \in Seq(ColumnRow)
    BY <2>1, PartsOf, RowsType
  <2>3. PICK rows \in Seq(ColumnRow) : rows = RowsAbout(Rows(columns), s)
    BY <2>2, AboutType
  <2>4. PICK I : I = {Seen(row) : row \in ColumnRow}
    OBVIOUS
  <2>5. \A row \in ColumnRow : Seen(row) \in I
    BY <2>4
  <2>6. Len(InfoOf(rows)) = Len(rows) /\ Len(rows) \in Nat
    BY <2>5, InfoType, LenProperties
  <2> QED BY <2>3, <2>6, InfoIs DEF Info
<1>6. SessionTyped'
  BY <1>1, <1>4, <1>5 DEF CatalogInv, SessionTyped
<1>7. OpTyped' /\ StatementUnderWay'
  BY <1>1 DEF OpTyped, StatementUnderWay, Loops, BootstrapPhases, DropPhases, CreatePhases
<1>8. tables # << >> /\ columns # << >>
  BY <1>1, SchemaNames DEF CatalogInv, StartUnderWay, PagedHasLeaf, Unready, tables, columns
<1>9. StartUnderWay'
  BY <1>1, <1>2, <1>8 DEF StartUnderWay, Unready, BootstrapPhases
<1> QED BY <1>3, <1>6, <1>7, <1>9 DEF CatalogInv

LEMMA BeginBootstrapStep ==
  ASSUME CatalogInv, BeginBootstrap
  PROVE  CatalogInv'
<1>1. /\ pc = "down" /\ pc' = "truncate" /\ ~ BothFilesExist /\ op' = [left |-> SchemaOrder]
      /\ files' = files /\ schema' = schema /\ UNCHANGED session
  BY DEF BeginBootstrap
<1>2. tables' = tables /\ columns' = columns /\ unlinked' = unlinked
  BY <1>1 DEF tables, columns, session
<1>3. FilesTyped' /\ SchemaTyped' /\ RowsNamed' /\ SessionTyped'
  BY <1>1, <1>2 DEF CatalogInv, FilesTyped, SchemaTyped, RowsNamed, Within, Single, SessionTyped, session
<1>4. OpTyped' /\ StatementUnderWay'
  BY <1>1 DEF OpTyped, StatementUnderWay, Loops, BootstrapPhases, DropPhases, CreatePhases
<1>5. StartUnderWay'
  BY <1>1, <1>2 DEF CatalogInv, StartUnderWay, Unready, BootstrapPhases, PagedHasLeaf, BothFilesExist
<1> QED BY <1>3, <1>4, <1>5 DEF CatalogInv

LEMMA TruncateStep ==
  ASSUME CatalogInv, TruncateSchemaFile
  PROVE  CatalogInv'
<1>1. PICK s : s = Head(op.left)
  OBVIOUS
<1>2. /\ pc = "truncate" /\ files' = Put(files, s, "empty")
      /\ schema' = [schema EXCEPT ![s] = << >>]
      /\ GoOn("write_roots", SchemaOrder) /\ UNCHANGED session
  BY <1>1 DEF TruncateSchemaFile
<1>3. op \in [left : {SchemaOrder, Tail(SchemaOrder)}]
  BY <1>2 DEF CatalogInv, OpTyped, Loops
<1>4. \/ /\ op.left = SchemaOrder /\ s = "davisbase_tables"
         /\ op' = [left |-> Tail(SchemaOrder)] /\ pc' = "truncate"
      \/ /\ op.left = Tail(SchemaOrder) /\ s = "davisbase_columns"
         /\ op' = [left |-> SchemaOrder] /\ pc' = "write_roots"
  BY <1>1, <1>2, <1>3, NextOfTwo
<1>5. s \in SchemaTables
  BY <1>4, SchemaNames
<1>6. /\ DOMAIN files' = DOMAIN files \union {s} /\ files'[s] = "empty"
      /\ \A n \in DOMAIN files : n # s => files'[n] = files[n]
      /\ FilesTyped'
  BY <1>2, <1>5, FilesPut DEF CatalogInv
<1>7. SessionTyped'
  BY <1>2 DEF CatalogInv, SessionTyped, session
<1>8. OpTyped' /\ StatementUnderWay'
  BY <1>4, SchemaOrders DEF OpTyped, StatementUnderWay, Loops, BootstrapPhases, DropPhases, CreatePhases
<1>9. unlinked' = {}
  BY <1>2 DEF CatalogInv, StartUnderWay, BootstrapPhases, session
<1>10. CASE op.left = SchemaOrder
  <2>1. tables' = << >> /\ columns' = columns /\ DOMAIN schema' = SchemaTables
    BY <1>2, <1>4, <1>10, SchemaOrders, TablesWritten DEF CatalogInv
  <2>2. tables' \in Leaves(TableRow) /\ NoRow(tables')
    BY <2>1, NoRows DEF NoRow
  <2>3. SchemaTyped' /\ RowsNamed'
    BY <1>6, <2>1, <2>2 DEF CatalogInv, SchemaTyped, RowsNamed, Within, Single, NoRow
  <2>4. PagedHasLeaf'
    BY <1>2, <1>4, <1>6, <1>10, <2>1, SchemaNames, SchemaOrders
    DEF CatalogInv, StartUnderWay, Unready, PagedHasLeaf, columns
  <2>5. StartUnderWay'
    BY <1>4, <1>6, <1>9, <1>10, <2>2, <2>4, SchemaOrders DEF StartUnderWay, Unready, BootstrapPhases
  <2> QED BY <1>6, <1>7, <1>8, <2>3, <2>5 DEF CatalogInv
<1>11. CASE op.left # SchemaOrder
  <2>1. tables' = tables /\ columns' = << >> /\ DOMAIN schema' = SchemaTables
    BY <1>2, <1>4, <1>11, ColumnsWritten DEF CatalogInv
  <2>2. columns' \in Leaves(ColumnRow) /\ NoRow(columns')
    BY <2>1, NoRows DEF NoRow
  <2>3. SchemaTyped' /\ RowsNamed'
    BY <1>6, <2>1, <2>2 DEF CatalogInv, SchemaTyped, RowsNamed, Within, Single, NoRow
  <2>4. "davisbase_tables" \in DOMAIN files /\ files["davisbase_tables"] = "empty" /\ NoRow(tables)
    BY <1>2, <1>11 DEF CatalogInv, StartUnderWay
  <2>5. PagedHasLeaf'
    BY <1>4, <1>6, <1>11, <2>4, SchemaNames DEF PagedHasLeaf
  <2>6. BothFilesExist'
    BY <1>4, <1>6, <1>11, <2>4, SchemaNames DEF BothFilesExist
  <2>7. StartUnderWay'
    BY <1>4, <1>6, <1>9, <1>11, <2>1, <2>4, <2>5, <2>6
    DEF StartUnderWay, Unready, BootstrapPhases, NoRow
  <2> QED BY <1>6, <1>7, <1>8, <2>3, <2>7 DEF CatalogInv
<1> QED BY <1>10, <1>11

LEMMA WriteRootStep ==
  ASSUME CatalogInv, WriteSchemaRoot
  PROVE  CatalogInv'
<1>1. PICK s : s = Head(op.left)
  OBVIOUS
<1>2. /\ pc = "write_roots" /\ files' = Put(files, s, "paged")
      /\ schema' = [schema EXCEPT ![s] = <<EmptyLeaf>>]
      /\ next' = [next EXCEPT ![s] = INITIAL_ROW_ID]
      /\ known' = [known EXCEPT ![s] = Len(SchemaColumns[s])]
      /\ GoOn("bootstrap_tables", SchemaOrder) /\ unlinked' = unlinked
  BY <1>1 DEF WriteSchemaRoot
<1>3. op \in [left : {SchemaOrder, Tail(SchemaOrder)}]
  BY <1>2 DEF CatalogInv, OpTyped, Loops
<1>4. \/ /\ op.left = SchemaOrder /\ s = "davisbase_tables"
         /\ op' = [left |-> Tail(SchemaOrder)] /\ pc' = "write_roots"
      \/ /\ op.left = Tail(SchemaOrder) /\ s = "davisbase_columns"
         /\ op' = [left |-> SchemaOrder] /\ pc' = "bootstrap_tables"
  BY <1>1, <1>2, <1>3, NextOfTwo
<1>5. s \in SchemaTables
  BY <1>4, SchemaNames
<1>6. /\ FilesTyped'
      /\ DOMAIN files' = DOMAIN files \union {s} /\ files'[s] = "paged"
      /\ \A n \in DOMAIN files : n # s => files'[n] = files[n]
  BY <1>2, <1>5, FilesPut DEF CatalogInv
<1>7. BothFilesExist' /\ files["davisbase_columns"] = "empty" /\ NoRow(tables) /\ unlinked' = {}
  BY <1>2, <1>6 DEF CatalogInv, StartUnderWay, BootstrapPhases, BothFilesExist
<1>8. SessionTyped'
  <2>1. Len(SchemaColumns[s]) \in Nat
    BY <1>5, CatalogAssumption, LenProperties
  <2>2. INITIAL_ROW_ID \in Nat
    BY DEF INITIAL_ROW_ID
  <2> QED BY <1>2, <2>1, <2>2 DEF CatalogInv, SessionTyped
<1>9. OpTyped' /\ StatementUnderWay'
  BY <1>4, SchemaOrders DEF OpTyped, StatementUnderWay, Loops, BootstrapPhases, DropPhases, CreatePhases
<1>10. CASE op.left = SchemaOrder
  <2>1. tables' = <<EmptyLeaf>> /\ columns' = columns /\ DOMAIN schema' = SchemaTables
    BY <1>2, <1>4, <1>10, SchemaOrders, TablesWritten DEF CatalogInv
  <2>2. tables' \in Leaves(TableRow) /\ NoRow(tables') /\ tables' # << >>
    BY <2>1, NoRows DEF NoRow
  <2>3. SchemaTyped' /\ RowsNamed'
    BY <1>6, <2>1, <2>2 DEF CatalogInv, SchemaTyped, RowsNamed, Within, Single, NoRow
  <2>4. files'["davisbase_columns"] = "empty"
    BY <1>2, <1>4, <1>6, <1>7, <1>10, SchemaNames, SchemaOrders
    DEF CatalogInv, StartUnderWay, BothFilesExist
  <2>5. PagedHasLeaf'
    BY <2>2, <2>4, SchemaNames DEF PagedHasLeaf, tables
  <2>6. StartUnderWay'
    BY <1>4, <1>7, <1>10, <2>2, <2>4, <2>5, SchemaOrders
    DEF StartUnderWay, Unready, BootstrapPhases
  <2> QED BY <1>6, <1>8, <1>9, <2>3, <2>6 DEF CatalogInv
<1>11. CASE op.left # SchemaOrder
  <2>1. tables' = tables /\ columns' = <<EmptyLeaf>> /\ DOMAIN schema' = SchemaTables
    BY <1>2, <1>4, <1>11, ColumnsWritten DEF CatalogInv
  <2>2. columns' \in Leaves(ColumnRow) /\ NoRow(columns') /\ columns' # << >>
    BY <2>1, NoRows DEF NoRow
  <2>3. SchemaTyped' /\ RowsNamed'
    BY <1>6, <2>1, <2>2 DEF CatalogInv, SchemaTyped, RowsNamed, Within, Single, NoRow
  <2>4. tables' # << >>
    BY <1>2, <1>11, <2>1 DEF CatalogInv, StartUnderWay
  <2>5. At(tables', "davisbase_columns") = {} /\ At(tables', "davisbase_tables") = {}
    BY <1>7, <2>1 DEF NoRow
  <2>6. StartUnderWay'
    BY <1>4, <1>7, <1>11, <2>2, <2>4, <2>5 DEF StartUnderWay, Unready, BootstrapPhases
  <2> QED BY <1>6, <1>8, <1>9, <2>3, <2>6 DEF CatalogInv
<1> QED BY <1>10, <1>11

(* A row that is appended to a schema table, its id counted or not.        *)
LEMMA EntryAppended ==
  ASSUME CatalogInv, pc \notin Unready, NEW row \in TableRow, row.table \in DOMAIN files,
         At(tables, row.table) = {},
         NEW new, new = AppendRow(tables, row), schema' = [schema EXCEPT !.davisbase_tables = new],
         files' = files
  PROVE  /\ SchemaTyped' /\ RowsNamed' /\ tables' # << >> /\ columns' = columns
         /\ \A name : name # row.table => At(tables', name) = At(tables, name)
         /\ \A name : At(tables, name) # {} => At(tables', name) # {}
<1>1. tables' = new /\ columns' = columns /\ DOMAIN schema' = SchemaTables
  BY TablesWritten DEF CatalogInv
<1>2. tables \in Leaves(TableRow) /\ tables # << >> /\ Single(tables)
  BY DEF CatalogInv, SchemaTyped, StartUnderWay, RowsNamed
<1>3. Appended(tables, new, row)
  BY DEF Appended
<1>4. /\ new \in Leaves(TableRow) /\ new # << >>
      /\ \A name : name # row.table => At(new, name) = At(tables, name)
      /\ \A name : At(tables, name) # {} => At(new, name) # {}
      /\ Single(new)
  BY <1>2, <1>3, TableAdded
<1>5. SchemaTyped'
  BY <1>1, <1>4 DEF CatalogInv, SchemaTyped
<1>6. RowsNamed'
  BY <1>1, <1>4 DEF CatalogInv, RowsNamed, Within, Single
<1> QED BY <1>1, <1>4, <1>5, <1>6

LEMMA ColumnAppended ==
  ASSUME CatalogInv, pc \notin Unready, NEW row \in ColumnRow, row.table \in DOMAIN files,
         NEW new, new = AppendRow(columns, row), schema' = [schema EXCEPT !.davisbase_columns = new],
         files' = files
  PROVE  /\ SchemaTyped' /\ RowsNamed' /\ columns' # << >> /\ tables' = tables
<1>1. tables' = tables /\ columns' = new /\ DOMAIN schema' = SchemaTables
  BY ColumnsWritten DEF CatalogInv
<1>2. columns \in Leaves(ColumnRow) /\ columns # << >>
  BY DEF CatalogInv, SchemaTyped, StartUnderWay
<1>3. Appended(columns, new, row)
  BY DEF Appended
<1>4. /\ new \in Leaves(ColumnRow) /\ new # << >>
      /\ \A name : name # row.table => At(new, name) = At(columns, name)
  BY <1>2, <1>3, TableAdded
<1>5. SchemaTyped'
  BY <1>1, <1>4 DEF CatalogInv, SchemaTyped
<1>6. RowsNamed'
  BY <1>1, <1>4 DEF CatalogInv, RowsNamed, Within, Single
<1> QED BY <1>1, <1>4, <1>5, <1>6

(* updateNextRowId leaves every row where it is.                           *)
LEMMA IdStored ==
  ASSUME CatalogInv, NEW name, NEW row_id \in Nat,
         NEW new, new = StoreNext(tables, name, row_id),
         schema' = [schema EXCEPT !.davisbase_tables = new], files' = files
  PROVE  /\ SchemaTyped' /\ RowsNamed' /\ columns' = columns /\ Kept(tables, tables')
         /\ tables # << >> => tables' # << >>
<1>1. tables' = new /\ columns' = columns /\ DOMAIN schema' = SchemaTables
  BY TablesWritten DEF CatalogInv
<1>2. tables \in Leaves(TableRow)
  BY DEF CatalogInv, SchemaTyped
<1>3. NextStored(tables, new, name, row_id)
  BY DEF NextStored
<1>4. new \in Leaves(TableRow) /\ Len(new) = Len(tables) /\ Kept(tables, new)
  BY <1>2, <1>3, StoreKeepsRows
<1>5. SchemaTyped'
  BY <1>1, <1>4 DEF CatalogInv, SchemaTyped
<1>6. RowsNamed'
  BY <1>1, <1>4 DEF CatalogInv, RowsNamed, Within, Single, Kept
<1>7. tables # << >> => new # << >>
  BY <1>2, <1>4, EmptySeq DEF Leaves
<1> QED BY <1>1, <1>4, <1>5, <1>6, <1>7

LEMMA ColumnsOfTyped ==
  ColumnsOf("davisbase_tables") \o ColumnsOf("davisbase_columns") \in ColumnsLeft
<1>1. ASSUME NEW s \in SchemaTables
      PROVE  /\ ColumnsOf(s) \in Seq([table : SchemaTables, column : STRING])
             /\ Len(ColumnsOf(s)) \in Nat /\ Len(ColumnsOf(s)) > 0
  <2>1. PICK names : names = SchemaColumns[s]
    OBVIOUS
  <2>2. names \in Seq(STRING) /\ names # << >>
    BY <2>1, CatalogAssumption
  <2>3. Len(names) \in Nat /\ Len(names) > 0 /\ DOMAIN names = 1..Len(names)
    BY <2>2, EmptySeq, LenProperties
  <2>4. \A i \in 1..Len(names) : names[i] \in STRING
    BY <2>2, ElementOfSeq
  <2>5. ColumnsOf(s) = [i \in 1..Len(names) |-> [table |-> s, column |-> names[i]]]
    BY <2>1, <2>3 DEF ColumnsOf
  <2>6. ColumnsOf(s) \in [1..Len(names) -> [table : SchemaTables, column : STRING]]
    BY <2>4, <2>5
  <2>7. ColumnsOf(s) \in Seq([table : SchemaTables, column : STRING])
    <3>1. PICK n, f, S : n = Len(names) /\ f = ColumnsOf(s) /\ S = [table : SchemaTables, column : STRING]
      OBVIOUS
    <3>2. n \in Nat /\ f \in [1..n -> S]
      BY <2>3, <2>6, <3>1
    <3>3. f \in Seq(S)
      BY <3>2
    <3> QED BY <3>1, <3>3
  <2>8. DOMAIN ColumnsOf(s) = 1..Len(names)
    BY <2>5
  <2>9. Len(ColumnsOf(s)) = Len(names)
    BY <2>3, <2>7, <2>8, LenProperties
  <2> QED BY <2>3, <2>7, <2>9
<1>2. PICK first : first = ColumnsOf("davisbase_tables")
  OBVIOUS
<1>3. PICK second : second = ColumnsOf("davisbase_columns")
  OBVIOUS
<1>4. /\ first \in Seq([table : SchemaTables, column : STRING]) /\ Len(first) \in Nat /\ Len(first) > 0
      /\ second \in Seq([table : SchemaTables, column : STRING]) /\ Len(second) \in Nat
  BY <1>1, <1>2, <1>3, SchemaNames
<1>5. /\ first \o second \in Seq([table : SchemaTables, column : STRING])
      /\ Len(first \o second) > 0
  BY <1>4, ConcatProperties
<1>6. first \o second # << >>
  BY <1>5, EmptySeq
<1> QED BY <1>2, <1>3, <1>5, <1>6 DEF ColumnsLeft

LEMMA BootstrapTableStep ==
  ASSUME CatalogInv, BootstrapTableRow
  PROVE  CatalogInv'
<1>1. PICK s : s = Head(op.left)
  OBVIOUS
<1>2. PICK row : row = [row_id |-> next.davisbase_tables, table |-> s, next_row_id |-> 0]
  OBVIOUS
<1>3. PICK left : left = ColumnsOf("davisbase_tables") \o ColumnsOf("davisbase_columns")
  OBVIOUS
<1>4. PICK new : new = AppendRow(tables, row)
  OBVIOUS
<1>5. /\ pc = "bootstrap_tables" /\ files' = files
      /\ schema' = [schema EXCEPT !.davisbase_tables = new]
      /\ next' = [next EXCEPT !.davisbase_tables = @ + 1]
      /\ GoOn("bootstrap_columns", left) /\ known' = known /\ unlinked' = unlinked
  BY <1>1, <1>2, <1>3, <1>4 DEF BootstrapTableRow, tables
<1>6. op \in [left : {SchemaOrder, Tail(SchemaOrder)}]
  BY <1>5 DEF CatalogInv, OpTyped, Loops
<1>7. \/ /\ op.left = SchemaOrder /\ s = "davisbase_tables"
         /\ op' = [left |-> Tail(SchemaOrder)] /\ pc' = "bootstrap_tables"
      \/ /\ op.left = Tail(SchemaOrder) /\ s = "davisbase_columns"
         /\ op' = [left |-> left] /\ pc' = "bootstrap_columns"
  BY <1>1, <1>5, <1>6, NextOfTwo
<1>8. s \in SchemaTables
  BY <1>7, SchemaNames
<1>9. BothFilesExist /\ At(tables, "davisbase_columns") = {} /\ unlinked = {}
      /\ (op.left = SchemaOrder => At(tables, "davisbase_tables") = {})
  BY <1>5 DEF CatalogInv, StartUnderWay, BootstrapPhases
<1>10. next.davisbase_tables \in Nat /\ SessionTyped'
  BY <1>5, SchemaNames DEF CatalogInv, SessionTyped
<1>11. row \in TableRow /\ row.table = s
  BY <1>2, <1>8, <1>10 DEF TableRow
<1>12. s \in DOMAIN files
  BY <1>8, <1>9 DEF BothFilesExist
<1>13. At(tables, s) = {}
  BY <1>7, <1>9
<1>14. pc \notin Unready
  BY <1>5 DEF Unready
<1>15. /\ SchemaTyped' /\ RowsNamed' /\ tables' # << >> /\ columns' = columns
       /\ \A name : name # s => At(tables', name) = At(tables, name)
  BY <1>4, <1>5, <1>11, <1>12, <1>13, <1>14, EntryAppended
<1>16. OpTyped' /\ StatementUnderWay'
  <2>1. left \in ColumnsLeft
    BY <1>3, ColumnsOfTyped
  <2> QED BY <1>7, <2>1, SchemaOrders
  DEF OpTyped, StatementUnderWay, Loops, BootstrapPhases, DropPhases, CreatePhases
<1>17. columns' # << >>
  BY <1>14, <1>15 DEF CatalogInv, StartUnderWay
<1>18. At(tables', "davisbase_columns") = {} \/ pc' = "bootstrap_columns"
  BY <1>7, <1>9, <1>15
<1>19. pc' = "bootstrap_tables" => op'.left # SchemaOrder
  BY <1>7, SchemaOrders
<1>20. StartUnderWay'
  BY <1>5, <1>7, <1>9, <1>15, <1>17, <1>18, <1>19
  DEF StartUnderWay, Unready, BootstrapPhases, BothFilesExist
<1>21. FilesTyped'
  BY <1>5 DEF CatalogInv, FilesTyped
<1> QED BY <1>10, <1>15, <1>16, <1>20, <1>21 DEF CatalogInv

LEMMA BootstrapColumnStep ==
  ASSUME CatalogInv, BootstrapColumnRow
  PROVE  CatalogInv'
<1>1. PICK first : first = Head(op.left)
  OBVIOUS
<1>2. PICK row : row = [row_id |-> next.davisbase_columns, table |-> first.table,
                        column |-> first.column, unique |-> FALSE]
  OBVIOUS
<1>3. PICK new : new = AppendRow(columns, row)
  OBVIOUS
<1>4. /\ pc = "bootstrap_columns" /\ files' = files
      /\ schema' = [schema EXCEPT !.davisbase_columns = new]
      /\ next' = [next EXCEPT !.davisbase_columns = @ + 1]
      /\ GoOn("store_entries", SchemaOrder) /\ known' = known /\ unlinked' = unlinked
  BY <1>1, <1>2, <1>3 DEF BootstrapColumnRow, columns
<1>5. PICK left : left = op.left
  OBVIOUS
<1>6. op \in [left : ColumnsLeft] /\ left \in ColumnsLeft
  BY <1>4, <1>5 DEF CatalogInv, OpTyped
<1>7. left \in Seq([table : SchemaTables, column : STRING]) /\ left # << >>
  BY <1>6 DEF ColumnsLeft
<1>8. /\ first \in [table : SchemaTables, column : STRING]
      /\ Tail(left) \in Seq([table : SchemaTables, column : STRING])
      /\ Len(Tail(left)) = Len(left) - 1 /\ Len(left) \in Nat
  BY <1>1, <1>5, <1>7, HeadTailProperties, LenProperties
<1>9. \/ /\ op' = [left |-> Tail(left)] /\ Len(left) > 1 /\ pc' = "bootstrap_columns"
      \/ op' = [left |-> SchemaOrder] /\ pc' = "store_entries"
  BY <1>4, <1>5 DEF GoOn
<1>10. Len(left) > 1 => Tail(left) \in ColumnsLeft
  <2>1. PICK m, n : m = Len(left) /\ n = Len(Tail(left))
    OBVIOUS
  <2>2. m > 1 => n # 0
    BY <1>8, <2>1
  <2> QED BY <1>8, <2>1, <2>2, EmptySeq DEF ColumnsLeft
<1>11. OpTyped' /\ StatementUnderWay'
  <2>1. \/ op' \in [left : ColumnsLeft] /\ pc' = "bootstrap_columns"
        \/ op' = [left |-> SchemaOrder] /\ pc' = "store_entries"
    <3>1. PICK more, rest : more = (Len(left) > 1) /\ rest = Tail(left)
      OBVIOUS
    <3>2. more => rest \in ColumnsLeft
      BY <1>10, <3>1
    <3>3. \/ op' = [left |-> rest] /\ more /\ pc' = "bootstrap_columns"
          \/ op' = [left |-> SchemaOrder] /\ pc' = "store_entries"
      BY <1>9, <3>1
    <3> QED BY <3>2, <3>3
  <2> QED BY <2>1, SchemaOrders
  DEF OpTyped, StatementUnderWay, Loops, BootstrapPhases, DropPhases, CreatePhases
<1>12. next.davisbase_columns \in Nat /\ SessionTyped'
  BY <1>4, SchemaNames DEF CatalogInv, SessionTyped
<1>13. row \in ColumnRow /\ row.table = first.table /\ first.table \in SchemaTables
  BY <1>2, <1>8, <1>12 DEF ColumnRow
<1>14. BothFilesExist /\ unlinked = {} /\ tables # << >>
  BY <1>4 DEF CatalogInv, StartUnderWay, BootstrapPhases, Unready
<1>15. row.table \in DOMAIN files
  BY <1>13, <1>14 DEF BothFilesExist
<1>16. pc \notin Unready
  BY <1>4 DEF Unready
<1>17. SchemaTyped' /\ RowsNamed' /\ columns' # << >> /\ tables' = tables
  BY <1>3, <1>4, <1>13, <1>15, <1>16, ColumnAppended
<1>18. StartUnderWay'
  BY <1>4, <1>9, <1>14, <1>17 DEF StartUnderWay, Unready, BootstrapPhases, BothFilesExist
<1>19. FilesTyped'
  BY <1>4 DEF CatalogInv, FilesTyped
<1> QED BY <1>11, <1>12, <1>17, <1>18, <1>19 DEF CatalogInv

LEMMA StoreEntryStep ==
  ASSUME CatalogInv, StoreEntry
  PROVE  CatalogInv'
<1>1. PICK s : s = Head(op.left)
  OBVIOUS
<1>2. PICK row_id : row_id = next[s]
  OBVIOUS
<1>3. PICK new : new = StoreNext(tables, s, row_id)
  OBVIOUS
<1>4. /\ pc = "store_entries" /\ files' = files
      /\ schema' = [schema EXCEPT !.davisbase_tables = new]
      /\ next' = next /\ known' = known /\ unlinked' = unlinked
  BY <1>1, <1>2, <1>3 DEF StoreEntry, tables, session
<1>5. op \in [left : {SchemaOrder, Tail(SchemaOrder)}]
  BY <1>4 DEF CatalogInv, OpTyped, Loops
<1>6. s \in SchemaTables
  BY <1>1, <1>5, SchemaOrders, SchemaNames
<1>7. \/ op' = [left |-> Tail(SchemaOrder)] /\ pc' = "store_entries"
      \/ pc' = "idle"
  <2>1. CASE op.left = SchemaOrder
    <3>1. Len(op.left) > 1
      BY <2>1, SchemaOrders
    <3> QED BY <1>4, <2>1, <3>1 DEF StoreEntry, GoOn
  <2>2. CASE op.left = Tail(SchemaOrder)
    <3>1. Len(op.left) = 1
      BY <2>2, SchemaOrders, Zenon
    <3>2. ~ (Len(op.left) > 1)
      BY <3>1
    <3> QED BY <3>2 DEF StoreEntry
  <2> QED BY <1>5, <2>1, <2>2
<1>8. row_id \in Nat /\ SessionTyped'
  BY <1>2, <1>4, <1>6 DEF CatalogInv, SessionTyped
<1>9. tables # << >> /\ columns # << >> /\ unlinked = {}
  BY <1>4 DEF CatalogInv, StartUnderWay, Unready, BootstrapPhases
<1>10. SchemaTyped' /\ RowsNamed' /\ columns' = columns /\ tables' # << >>
  BY <1>3, <1>4, <1>8, <1>9, IdStored
<1>11. OpTyped' /\ StatementUnderWay'
  BY <1>7, SchemaOrders DEF OpTyped, StatementUnderWay, Loops, BootstrapPhases, DropPhases, CreatePhases
<1>12. StartUnderWay'
  BY <1>4, <1>7, <1>9, <1>10 DEF StartUnderWay, Unready, BootstrapPhases
<1>13. FilesTyped'
  BY <1>4 DEF CatalogInv, FilesTyped
<1> QED BY <1>8, <1>10, <1>11, <1>12, <1>13 DEF CatalogInv

-----------------------------------------------------------------------------
(* The steps of CREATE TABLE and DROP TABLE.                                *)

(* A statement that leaves files and rows as they are.                     *)
LEMMA NothingMoves ==
  ASSUME CatalogInv, files' = files, schema' = schema
  PROVE  FilesTyped' /\ SchemaTyped' /\ RowsNamed' /\ tables' = tables /\ columns' = columns
<1>1. tables' = tables /\ columns' = columns
  BY DEF tables, columns
<1> QED BY <1>1 DEF CatalogInv, FilesTyped, SchemaTyped, RowsNamed, Within, Single

LEMMA BeginCreateStep ==
  ASSUME CatalogInv, NEW name \in Names, NEW definition \in Definitions,
         BeginCreate(name, definition)
  PROVE  CatalogInv'
<1>1. /\ pc = "idle" /\ pc' = "write_root" /\ name \notin DOMAIN files
      /\ files' = Put(files, name, "empty") /\ op' = [name |-> name, columns |-> definition]
      /\ schema' = schema /\ UNCHANGED session
  BY DEF BeginCreate
<1>2. FilesTyped' /\ DOMAIN files' = DOMAIN files \union {name}
  BY <1>1, FilesPut DEF CatalogInv
<1>3. tables' = tables /\ columns' = columns
  BY <1>1 DEF tables, columns
<1>4. SchemaTyped' /\ RowsNamed' /\ SessionTyped'
  BY <1>1, <1>2, <1>3 DEF CatalogInv, SchemaTyped, RowsNamed, Within, Single, SessionTyped, session
<1>5. definition \in Seq(Columns)
  BY CatalogAssumption
<1>6. OpTyped'
  BY <1>1, <1>5 DEF OpTyped, Loops, BootstrapPhases, DropPhases, CreatePhases
<1>7. At(tables, name) = {}
  BY <1>1 DEF CatalogInv, RowsNamed, Within
<1>8. StatementUnderWay'
  BY <1>1, <1>2, <1>3, <1>7 DEF StatementUnderWay, CreatePhases, DropPhases
<1>9. StartUnderWay'
  <2>1. tables # << >> /\ columns # << >>
    BY <1>1 DEF CatalogInv, StartUnderWay, Unready
  <2> QED BY <1>1, <1>3, <2>1 DEF StartUnderWay, Unready, BootstrapPhases
<1> QED BY <1>2, <1>4, <1>6, <1>8, <1>9 DEF CatalogInv

LEMMA RootStep ==
  ASSUME CatalogInv, WriteRoot
  PROVE  CatalogInv'
<1>1. PICK name : name = op.name
  OBVIOUS
<1>2. /\ pc = "write_root" /\ pc' = "append_table" /\ files' = Put(files, name, "paged")
      /\ schema' = schema /\ UNCHANGED session /\ op' = op
  BY <1>1 DEF WriteRoot
<1>3. op \in [name : Names, columns : Seq(Columns)] /\ name \in Names /\ name \in DOMAIN files
      /\ At(tables, name) = {}
  BY <1>1, <1>2 DEF CatalogInv, OpTyped, StatementUnderWay, CreatePhases
<1>4. FilesTyped' /\ DOMAIN files' = DOMAIN files
  <2>1. FilesTyped' /\ DOMAIN files' = DOMAIN files \union {name}
    BY <1>2, <1>3, FilesPut DEF CatalogInv
  <2> QED BY <1>3, <2>1
<1>5. tables' = tables /\ columns' = columns
  BY <1>2 DEF tables, columns
<1>6. SchemaTyped' /\ RowsNamed' /\ SessionTyped'
  BY <1>2, <1>4, <1>5 DEF CatalogInv, SchemaTyped, RowsNamed, Within, Single, SessionTyped, session
<1>7. OpTyped'
  BY <1>2, <1>3 DEF OpTyped, Loops, BootstrapPhases, DropPhases, CreatePhases
<1>8. StatementUnderWay'
  BY <1>1, <1>2, <1>3, <1>4, <1>5 DEF StatementUnderWay, CreatePhases, DropPhases
<1>9. StartUnderWay'
  <2>1. tables # << >> /\ columns # << >>
    BY <1>2 DEF CatalogInv, StartUnderWay, Unready
  <2> QED BY <1>2, <1>5, <2>1 DEF StartUnderWay, Unready, BootstrapPhases
<1> QED BY <1>4, <1>6, <1>7, <1>8, <1>9 DEF CatalogInv

LEMMA AppendTableStep ==
  ASSUME CatalogInv, AppendTableRow
  PROVE  CatalogInv'
<1>1. PICK name : name = op.name
  OBVIOUS
<1>2. PICK row : row = [row_id |-> next.davisbase_tables, table |-> name,
                        next_row_id |-> INITIAL_ROW_ID]
  OBVIOUS
<1>3. PICK new : new = AppendRow(tables, row)
  OBVIOUS
<1>4. /\ pc = "append_table" /\ pc' = "count_table" /\ files' = files
      /\ schema' = [schema EXCEPT !.davisbase_tables = new] /\ UNCHANGED session /\ op' = op
  BY <1>1, <1>2, <1>3 DEF AppendTableRow, tables
<1>5. op \in [name : Names, columns : Seq(Columns)] /\ name \in Names /\ name \in DOMAIN files
      /\ At(tables, name) = {}
  BY <1>1, <1>4 DEF CatalogInv, OpTyped, StatementUnderWay, CreatePhases
<1>6. next.davisbase_tables \in Nat /\ SessionTyped'
  BY <1>4, SchemaNames DEF CatalogInv, SessionTyped, session
<1>7. row \in TableRow /\ row.table = name
  BY <1>2, <1>5, <1>6 DEF TableRow, INITIAL_ROW_ID
<1>8. pc \notin Unready
  BY <1>4 DEF Unready
<1>9. SchemaTyped' /\ RowsNamed' /\ tables' # << >> /\ columns' = columns
  BY <1>3, <1>4, <1>5, <1>7, <1>8, EntryAppended
<1>10. OpTyped'
  BY <1>4, <1>5 DEF OpTyped, Loops, BootstrapPhases, DropPhases, CreatePhases
<1>11. StatementUnderWay'
  BY <1>1, <1>4, <1>5 DEF StatementUnderWay, CreatePhases, DropPhases
<1>12. columns' # << >>
  BY <1>8, <1>9 DEF CatalogInv, StartUnderWay
<1>13. StartUnderWay'
  BY <1>4, <1>9, <1>12 DEF StartUnderWay, Unready, BootstrapPhases
<1>14. FilesTyped'
  BY <1>4 DEF CatalogInv, FilesTyped
<1> QED BY <1>6, <1>9, <1>10, <1>11, <1>13, <1>14 DEF CatalogInv

(* setNextRowId of a schema table.                                         *)
LEMMA RowCounted ==
  ASSUME CatalogInv, NEW s \in SchemaTables, CountRow(s), files' = files, known' = known,
         unlinked' = unlinked, pc \notin Unready
  PROVE  /\ FilesTyped' /\ SchemaTyped' /\ SessionTyped' /\ RowsNamed'
         /\ tables' # << >> /\ columns' # << >> /\ Kept(tables, tables') /\ columns' = columns
<1>1. PICK row_id : row_id = next'[s]
  OBVIOUS
<1>2. PICK new : new = StoreNext(tables, s, row_id)
  OBVIOUS
<1>3. /\ next' = [next EXCEPT ![s] = @ + 1]
      /\ schema' = [schema EXCEPT !.davisbase_tables = new]
  BY <1>1, <1>2 DEF CountRow, tables
<1>4. SessionTyped' /\ row_id \in Nat
  BY <1>1, <1>3 DEF CatalogInv, SessionTyped
<1>5. tables # << >> /\ columns # << >>
  BY DEF CatalogInv, StartUnderWay
<1>6. SchemaTyped' /\ RowsNamed' /\ columns' = columns /\ Kept(tables, tables') /\ tables' # << >>
  BY <1>2, <1>3, <1>4, <1>5, IdStored
<1>7. FilesTyped'
  BY DEF CatalogInv, FilesTyped
<1> QED BY <1>4, <1>5, <1>6, <1>7

LEMMA CountTableStep ==
  ASSUME CatalogInv, CountTableRow
  PROVE  CatalogInv'
<1>1. /\ pc = "count_table" /\ pc' = "append_column" /\ CountRow("davisbase_tables")
      /\ files' = files /\ known' = known /\ unlinked' = unlinked /\ op' = op
  BY DEF CountTableRow
<1>2. pc \notin Unready /\ "davisbase_tables" \in SchemaTables
  BY <1>1, SchemaNames DEF Unready
<1>3. /\ FilesTyped' /\ SchemaTyped' /\ SessionTyped' /\ RowsNamed'
      /\ tables' # << >> /\ columns' # << >>
  BY <1>1, <1>2, RowCounted
<1>4. op \in [name : Names, columns : Seq(Columns)] /\ op.name \in DOMAIN files
  BY <1>1 DEF CatalogInv, OpTyped, StatementUnderWay, CreatePhases
<1>5. OpTyped' /\ StatementUnderWay'
  BY <1>1, <1>4 DEF OpTyped, StatementUnderWay, Loops, BootstrapPhases, DropPhases, CreatePhases
<1>6. StartUnderWay'
  BY <1>1, <1>3 DEF StartUnderWay, Unready, BootstrapPhases
<1> QED BY <1>3, <1>5, <1>6 DEF CatalogInv

LEMMA AppendColumnStep ==
  ASSUME CatalogInv, AppendColumnRow
  PROVE  CatalogInv'
<1>1. PICK name : name = op.name
  OBVIOUS
<1>2. PICK row : row = [row_id |-> next.davisbase_columns, table |-> name,
                        column |-> Head(op.columns), unique |-> FALSE]
  OBVIOUS
<1>3. PICK new : new = AppendRow(columns, row)
  OBVIOUS
<1>4. /\ pc = "append_column" /\ pc' = "count_column" /\ op.columns # << >> /\ files' = files
      /\ schema' = [schema EXCEPT !.davisbase_columns = new] /\ UNCHANGED session /\ op' = op
  BY <1>1, <1>2, <1>3 DEF AppendColumnRow, columns
<1>5. op \in [name : Names, columns : Seq(Columns)] /\ name \in Names /\ name \in DOMAIN files
  BY <1>1, <1>4 DEF CatalogInv, OpTyped, StatementUnderWay, CreatePhases
<1>6. next.davisbase_columns \in Nat /\ SessionTyped'
  BY <1>4, SchemaNames DEF CatalogInv, SessionTyped, session
<1>7. Head(op.columns) \in Columns
  BY <1>4, <1>5, HeadTailProperties
<1>8. row \in ColumnRow /\ row.table = name
  BY <1>2, <1>5, <1>6, <1>7 DEF ColumnRow
<1>9. pc \notin Unready
  BY <1>4 DEF Unready
<1>10. SchemaTyped' /\ RowsNamed' /\ columns' # << >> /\ tables' = tables
  BY <1>3, <1>4, <1>5, <1>8, <1>9, ColumnAppended
<1>11. OpTyped'
  BY <1>4, <1>5 DEF OpTyped, Loops, BootstrapPhases, DropPhases, CreatePhases
<1>12. StatementUnderWay'
  BY <1>1, <1>4, <1>5 DEF StatementUnderWay, CreatePhases, DropPhases
<1>13. tables' # << >>
  BY <1>9, <1>10 DEF CatalogInv, StartUnderWay
<1>14. StartUnderWay'
  BY <1>4, <1>10, <1>13 DEF StartUnderWay, Unready, BootstrapPhases
<1>15. FilesTyped'
  BY <1>4 DEF CatalogInv, FilesTyped
<1> QED BY <1>6, <1>10, <1>11, <1>12, <1>14, <1>15 DEF CatalogInv

LEMMA CountColumnStep ==
  ASSUME CatalogInv, CountColumnRow
  PROVE  CatalogInv'
<1>1. PICK left : left = Tail(op.columns)
  OBVIOUS
<1>2. /\ pc = "count_column" /\ pc' = "append_column" /\ CountRow("davisbase_columns")
      /\ op' = [op EXCEPT !.columns = left]
      /\ files' = files /\ known' = known /\ unlinked' = unlinked
  BY <1>1 DEF CountColumnRow
<1>3. pc \notin Unready /\ "davisbase_columns" \in SchemaTables
  BY <1>2, SchemaNames DEF Unready
<1>4. /\ FilesTyped' /\ SchemaTyped' /\ SessionTyped' /\ RowsNamed'
      /\ tables' # << >> /\ columns' # << >>
  BY <1>2, <1>3, RowCounted
<1>5. op \in [name : Names, columns : Seq(Columns)] /\ op.name \in DOMAIN files /\ op.columns # << >>
  BY <1>2 DEF CatalogInv, OpTyped, StatementUnderWay, CreatePhases
<1>6. left \in Seq(Columns)
  BY <1>1, <1>5, HeadTailProperties
<1>7. op' \in [name : Names, columns : Seq(Columns)] /\ op'.name = op.name
  BY <1>2, <1>5, <1>6
<1>8. OpTyped' /\ StatementUnderWay'
  BY <1>2, <1>5, <1>7
  DEF OpTyped, StatementUnderWay, Loops, BootstrapPhases, DropPhases, CreatePhases
<1>9. StartUnderWay'
  BY <1>2, <1>4 DEF StartUnderWay, Unready, BootstrapPhases
<1> QED BY <1>4, <1>8, <1>9 DEF CatalogInv

(* However CREATE TABLE ends.                                              *)
LEMMA CreateEndsStep ==
  ASSUME CatalogInv, CreateThrows \/ CreateReturns
  PROVE  CatalogInv'
<1>1. /\ pc \in {"append_table", "append_column"} /\ pc' = "idle"
      /\ files' = files /\ schema' = schema /\ UNCHANGED session
  BY DEF CreateThrows, CreateReturns, EndStatement
<1>2. FilesTyped' /\ SchemaTyped' /\ RowsNamed' /\ tables' = tables /\ columns' = columns
  BY <1>1, NothingMoves
<1>3. SessionTyped'
  BY <1>1 DEF CatalogInv, SessionTyped, session
<1>4. OpTyped' /\ StatementUnderWay'
  BY <1>1 DEF OpTyped, StatementUnderWay, Loops, BootstrapPhases, DropPhases, CreatePhases
<1>5. StartUnderWay'
  <2>1. tables # << >> /\ columns # << >>
    BY <1>1 DEF CatalogInv, StartUnderWay, Unready
  <2> QED BY <1>1, <1>2, <2>1 DEF StartUnderWay, Unready, BootstrapPhases
<1> QED BY <1>2, <1>3, <1>4, <1>5 DEF CatalogInv

LEMMA BeginDropStep ==
  ASSUME CatalogInv, NEW name \in Names, BeginDrop(name)
  PROVE  CatalogInv'
<1>1. /\ pc = "idle" /\ pc' = "drop_table" /\ name \in DOMAIN files /\ op' = [name |-> name]
      /\ files' = files /\ schema' = schema /\ UNCHANGED session
  BY DEF BeginDrop
<1>2. FilesTyped' /\ SchemaTyped' /\ RowsNamed' /\ tables' = tables /\ columns' = columns
  BY <1>1, NothingMoves
<1>3. SessionTyped'
  BY <1>1 DEF CatalogInv, SessionTyped, session
<1>4. OpTyped' /\ StatementUnderWay'
  BY <1>1 DEF OpTyped, StatementUnderWay, Loops, BootstrapPhases, DropPhases, CreatePhases
<1>5. StartUnderWay'
  <2>1. tables # << >> /\ columns # << >>
    BY <1>1 DEF CatalogInv, StartUnderWay, Unready
  <2> QED BY <1>1, <1>2, <2>1 DEF StartUnderWay, Unready, BootstrapPhases
<1> QED BY <1>2, <1>3, <1>4, <1>5 DEF CatalogInv

(* A row about the table has gone from davisbase_tables, or there was none. *)
LEMMA EntryDropped ==
  ASSUME CatalogInv, DropTableRow
  PROVE  /\ SchemaTyped' /\ RowsNamed' /\ tables' # << >> /\ columns' = columns
         /\ At(tables', op.name) = {}
         /\ \A name : name # op.name /\ At(tables, name) # {} => At(tables', name) # {}
<1>1. PICK name : name = op.name
  OBVIOUS
<1>2. PICK place : place = First(At(tables, name))
  OBVIOUS
<1>3. PICK new : new = IF At(tables, name) = {} THEN tables ELSE DeleteAt(tables, place)
  OBVIOUS
<1>4. /\ pc = "drop_table" /\ files' = files
      /\ schema' = [schema EXCEPT !.davisbase_tables = new]
  BY <1>1, <1>2, <1>3 DEF DropTableRow, tables
<1>5. tables' = new /\ columns' = columns /\ DOMAIN schema' = SchemaTables
  BY <1>4, TablesWritten DEF CatalogInv
<1>6. tables \in Leaves(TableRow) /\ tables # << >> /\ Single(tables)
  BY <1>4 DEF CatalogInv, SchemaTyped, StartUnderWay, RowsNamed, Unready
<1>7. /\ new \in Leaves(TableRow) /\ new # << >> /\ Single(new) /\ At(new, name) = {}
      /\ \A other : At(new, other) # {} => At(tables, other) # {}
      /\ \A other : other # name /\ At(tables, other) # {} => At(new, other) # {}
  <2>1. CASE At(tables, name) = {}
    BY <1>3, <1>6, <2>1
  <2>2. CASE At(tables, name) # {}
    <3>1. place \in At(tables, name)
      <4>1. PICK places : places = At(tables, name)
        OBVIOUS
      <4> QED BY <1>2, <1>6, <2>2, <4>1, FirstRow
    <3>2. DeletedAt(tables, new, place)
      BY <1>3, <2>2 DEF DeletedAt
    <3> QED BY <1>6, <3>1, <3>2, PlaceDeleted
  <2> QED BY <2>1, <2>2
<1>8. SchemaTyped'
  BY <1>5, <1>7 DEF CatalogInv, SchemaTyped
<1>9. RowsNamed'
  BY <1>4, <1>5, <1>7 DEF CatalogInv, RowsNamed, Within
<1> QED BY <1>1, <1>5, <1>7, <1>8, <1>9

LEMMA DropTableStep ==
  ASSUME CatalogInv, DropTableRow
  PROVE  CatalogInv'
<1>1. /\ pc = "drop_table" /\ pc' = "drop_columns" /\ files' = files /\ cursor' = <<1, 1>>
      /\ UNCHANGED session /\ op' = op
  BY DEF DropTableRow
<1>2. /\ SchemaTyped' /\ RowsNamed' /\ tables' # << >> /\ columns' = columns
      /\ At(tables', op.name) = {}
  BY EntryDropped
<1>3. op \in [name : Names] /\ op.name \in DOMAIN files
  BY <1>1 DEF CatalogInv, OpTyped, StatementUnderWay, DropPhases
<1>4. FilesTyped' /\ SessionTyped'
  BY <1>1 DEF CatalogInv, FilesTyped, SessionTyped, session
<1>5. Ahead(columns, op.name, <<1, 1>>)
  <2>1. PICK place, name, leaves : place = <<1, 1>> /\ name = op.name /\ leaves = columns
    OBVIOUS
  <2>2. leaves \in Leaves(ColumnRow) /\ place[1] = 1 /\ place[2] = 1
    BY <2>1 DEF CatalogInv, SchemaTyped
  <2>3. ASSUME NEW at \in At(leaves, name) PROVE Before(place, at)
    <3>1. at \in (1..Len(leaves)) \X (1..LeafCapacity)
      BY DEF At
    <3>2. at[1] \in 1..Len(leaves) /\ at[2] \in 1..LeafCapacity
      BY <3>1
    <3>3. Len(leaves) \in Nat /\ LeafCapacity \in Nat
      BY <2>2, LenProperties, CatalogAssumption DEF Leaves
    <3>4. 1 < at[1] \/ (1 = at[1] /\ 1 <= at[2])
      BY <3>2, <3>3
    <3> QED BY <2>2, <3>4 DEF Before
  <2> QED BY <2>1, <2>3 DEF Ahead
<1>6. OpTyped'
  BY <1>1, <1>3 DEF OpTyped, Loops, BootstrapPhases, DropPhases, CreatePhases
<1>7. StatementUnderWay'
  BY <1>1, <1>2, <1>3, <1>5 DEF StatementUnderWay, CreatePhases, DropPhases
<1>8. columns # << >>
  BY <1>1 DEF CatalogInv, StartUnderWay, Unready
<1>9. StartUnderWay'
  BY <1>1, <1>2, <1>8 DEF StartUnderWay, Unready, BootstrapPhases
<1> QED BY <1>2, <1>4, <1>6, <1>7, <1>9 DEF CatalogInv

(* The scan of davisbase_columns leaves no row about the table behind.     *)
LEMMA AllAhead ==
  ASSUME CatalogInv, pc = "drop_columns"
  PROVE  ColumnRowsAhead = At(columns, op.name)
BY DEF CatalogInv, StatementUnderWay, Ahead, ColumnRowsAhead

LEMMA DropColumnStep ==
  ASSUME CatalogInv, DropColumnRow
  PROVE  CatalogInv'
<1>1. PICK name, places : name = op.name /\ places = ColumnRowsAhead
  OBVIOUS
<1>2. PICK place : place = First(places)
  OBVIOUS
<1>3. PICK new : new = DeleteAt(columns, place)
  OBVIOUS
<1>4. /\ pc = "drop_columns" /\ pc' = "drop_columns" /\ places # {} /\ files' = files
      /\ schema' = [schema EXCEPT !.davisbase_columns = new] /\ cursor' = place
      /\ UNCHANGED session /\ op' = op
  BY <1>1, <1>2, <1>3 DEF DropColumnRow, columns
<1>5. places = At(columns, name)
  BY <1>1, <1>4, AllAhead
<1>6. tables' = tables /\ columns' = new /\ DOMAIN schema' = SchemaTables
  BY <1>4, ColumnsWritten DEF CatalogInv
<1>7. columns \in Leaves(ColumnRow)
  BY DEF CatalogInv, SchemaTyped
<1>8. place \in places /\ \A other \in places : Before(place, other)
  BY <1>2, <1>4, <1>5, <1>7, FirstRow
<1>9. Ahead(columns, name, place)
  BY <1>5, <1>8 DEF Ahead
<1>10. DeletedAt(columns, new, place)
  BY <1>3 DEF DeletedAt
<1>11. /\ new \in Leaves(ColumnRow) /\ new # << >> /\ Ahead(new, name, place)
       /\ \A other : At(new, other) # {} => At(columns, other) # {}
  BY <1>5, <1>7, <1>8, <1>9, <1>10, PlaceDeleted
<1>12. SchemaTyped'
  BY <1>6, <1>11 DEF CatalogInv, SchemaTyped
<1>13. RowsNamed'
  BY <1>4, <1>6, <1>11 DEF CatalogInv, RowsNamed, Within, Single
<1>14. op \in [name : Names] /\ name \in DOMAIN files /\ At(tables, name) = {}
  BY <1>1, <1>4 DEF CatalogInv, OpTyped, StatementUnderWay, DropPhases
<1>15. FilesTyped' /\ SessionTyped'
  BY <1>4 DEF CatalogInv, FilesTyped, SessionTyped, session
<1>16. OpTyped'
  BY <1>4, <1>14 DEF OpTyped, Loops, BootstrapPhases, DropPhases, CreatePhases
<1>17. StatementUnderWay'
  BY <1>1, <1>4, <1>6, <1>11, <1>14 DEF StatementUnderWay, CreatePhases, DropPhases
<1>18. tables # << >>
  BY <1>4 DEF CatalogInv, StartUnderWay, Unready
<1>19. StartUnderWay'
  BY <1>4, <1>6, <1>11, <1>18 DEF StartUnderWay, Unready, BootstrapPhases
<1> QED BY <1>12, <1>13, <1>15, <1>16, <1>17, <1>19 DEF CatalogInv

LEMMA RemoveFileStep ==
  ASSUME CatalogInv, RemoveFile
  PROVE  CatalogInv'
<1>1. PICK name : name = op.name
  OBVIOUS
<1>2. /\ pc = "drop_columns" /\ pc' = "idle" /\ ColumnRowsAhead = {}
      /\ files' = Without(files, name) /\ schema' = schema /\ next' = next /\ known' = known
      /\ unlinked' = unlinked \union ({name} \intersect SchemaTables)
  BY <1>1 DEF RemoveFile, EndStatement
<1>3. At(columns, name) = {} /\ At(tables, name) = {}
  BY <1>1, <1>2, AllAhead DEF CatalogInv, StatementUnderWay
<1>4. FilesTyped' /\ DOMAIN files' = DOMAIN files \ {name}
  BY <1>2, FileGone DEF CatalogInv
<1>5. tables' = tables /\ columns' = columns
  BY <1>2 DEF tables, columns
<1>6. SchemaTyped' /\ SessionTyped'
  BY <1>2, <1>5 DEF CatalogInv, SchemaTyped, SessionTyped
<1>7. RowsNamed'
  BY <1>3, <1>4, <1>5 DEF CatalogInv, RowsNamed, Within, Single
<1>8. OpTyped' /\ StatementUnderWay'
  BY <1>2 DEF OpTyped, StatementUnderWay, Loops, BootstrapPhases, DropPhases, CreatePhases
<1>9. StartUnderWay'
  <2>1. tables # << >> /\ columns # << >>
    BY <1>2 DEF CatalogInv, StartUnderWay, Unready
  <2> QED BY <1>2, <1>5, <2>1 DEF StartUnderWay, Unready, BootstrapPhases
<1> QED BY <1>4, <1>6, <1>7, <1>8, <1>9 DEF CatalogInv

-----------------------------------------------------------------------------
(* CREATE INDEX, and the end of the process.                                *)

LEMMA IndexStep ==
  ASSUME CatalogInv, NEW name \in Names, NEW column \in Columns, MakeColumnUnique(name, column)
  PROVE  CatalogInv'
<1>1. PICK places :
        places = {at \in At(columns, name) : columns[at[1]].rows[at[2]].column = column}
  OBVIOUS
<1>2. PICK place : place = First(places)
  OBVIOUS
<1>3. PICK new : new = [columns EXCEPT ![place[1]].rows[place[2]].unique = TRUE]
  OBVIOUS
<1>4. /\ pc = "idle" /\ pc' = "idle" /\ places # {} /\ files' = files
      /\ schema' = [schema EXCEPT !.davisbase_columns = new] /\ UNCHANGED session
  BY <1>1, <1>2, <1>3 DEF MakeColumnUnique, columns
<1>5. tables' = tables /\ columns' = new /\ DOMAIN schema' = SchemaTables
  BY <1>4, ColumnsWritten DEF CatalogInv
<1>6. columns \in Leaves(ColumnRow) /\ columns # << >> /\ tables # << >>
  BY <1>4 DEF CatalogInv, SchemaTyped, StartUnderWay, Unready
<1>7. places \subseteq At(columns, name)
  BY <1>1
<1>8. IndexMade(columns, new, First(places))
  BY <1>2, <1>3 DEF IndexMade
<1>9. new \in Leaves(ColumnRow) /\ Len(new) = Len(columns) /\ Kept(columns, new)
  BY <1>4, <1>6, <1>7, <1>8, IndexKeepsRows
<1>10. new # << >>
  BY <1>6, <1>9, EmptySeq DEF Leaves
<1>11. SchemaTyped'
  BY <1>5, <1>9 DEF CatalogInv, SchemaTyped
<1>12. RowsNamed'
  BY <1>4, <1>5, <1>9 DEF CatalogInv, RowsNamed, Within, Single, Kept
<1>13. FilesTyped' /\ SessionTyped'
  BY <1>4 DEF CatalogInv, FilesTyped, SessionTyped, session
<1>14. OpTyped' /\ StatementUnderWay'
  BY <1>4 DEF OpTyped, StatementUnderWay, Loops, BootstrapPhases, DropPhases, CreatePhases
<1>15. StartUnderWay'
  BY <1>4, <1>5, <1>6, <1>10 DEF StartUnderWay, Unready, BootstrapPhases
<1> QED BY <1>11, <1>12, <1>13, <1>14, <1>15 DEF CatalogInv

(* A schema table is what it was, or, if its file was removed, has no row. *)
LEMMA FoundLater ==
  ASSUME CatalogInv, End, NEW s \in SchemaTables
  PROVE  /\ schema'[s] = schema[s] \/ (s \in unlinked /\ schema'[s] \in {<< >>, <<EmptyLeaf>>})
         /\ pc # "down" /\ s \in DOMAIN files /\ files[s] = "paged" => schema'[s] # << >>
<1>1. schema'[s] = OnDisk(s)
  BY DEF End
<1>2. CASE s \notin unlinked
  <2>1. schema'[s] = schema[s]
    BY <1>1, <1>2 DEF OnDisk
  <2>2. pc \in Unready => PagedHasLeaf
    BY DEF CatalogInv, StartUnderWay
  <2>3. pc \notin Unready => schema[s] # << >>
    BY SchemaNames DEF CatalogInv, StartUnderWay, tables, columns
  <2> QED BY <2>1, <2>2, <2>3 DEF PagedHasLeaf
<1>3. CASE s \in unlinked
  BY <1>1, <1>3 DEF OnDisk
<1> QED BY <1>2, <1>3

LEMMA EndStep ==
  ASSUME CatalogInv, End, pc # "down"
  PROVE  CatalogInv'
<1>1. /\ schema' = [s \in SchemaTables |-> OnDisk(s)]
      /\ next' = [s \in SchemaTables |-> 0] /\ known' = [s \in SchemaTables |-> 0]
      /\ unlinked' = {} /\ pc' = "down" /\ files' = files
  BY DEF End
<1>2. /\ tables' = tables \/ tables' \in {<< >>, <<EmptyLeaf>>}
      /\ columns' = columns \/ columns' \in {<< >>, <<EmptyLeaf>>}
  BY FoundLater, SchemaNames DEF tables, columns
<1>3. /\ tables' \in Leaves(TableRow)
      /\ \A name : At(tables', name) = At(tables, name) \/ At(tables', name) = {}
  BY <1>2, NoRows DEF CatalogInv, SchemaTyped
<1>4. /\ columns' \in Leaves(ColumnRow)
      /\ \A name : At(columns', name) = At(columns, name) \/ At(columns', name) = {}
  BY <1>2, NoRows DEF CatalogInv, SchemaTyped
<1>5. SchemaTyped'
  BY <1>1, <1>3, <1>4 DEF SchemaTyped
<1>6. RowsNamed'
  BY <1>1, <1>3, <1>4 DEF CatalogInv, RowsNamed, Within, Single
<1>7. PagedHasLeaf'
  BY <1>1, FoundLater DEF PagedHasLeaf
<1>8. FilesTyped' /\ SessionTyped'
  BY <1>1 DEF CatalogInv, FilesTyped, SessionTyped
<1>9. OpTyped' /\ StatementUnderWay'
  BY <1>1 DEF OpTyped, StatementUnderWay, Loops, BootstrapPhases, DropPhases, CreatePhases
<1>10. StartUnderWay'
  BY <1>1, <1>7 DEF StartUnderWay, Unready
<1> QED BY <1>5, <1>6, <1>8, <1>9, <1>10 DEF CatalogInv

-----------------------------------------------------------------------------
(* The invariant holds, and what follows from it.                           *)

LEMMA StepInv == CatalogInv /\ [Next \/ Kill]_vars => CatalogInv'
<1> SUFFICES ASSUME CatalogInv, [Next \/ Kill]_vars PROVE CatalogInv'
  OBVIOUS
<1>1. CASE \E name \in Names, definition \in Definitions : BeginCreate(name, definition)
  BY <1>1, BeginCreateStep
<1>2. CASE \E name \in Names : BeginDrop(name)
  BY <1>2, BeginDropStep
<1>3. CASE \E name \in Names, column \in Columns : MakeColumnUnique(name, column)
  BY <1>3, IndexStep
<1>4. CASE StatementStep
  BY <1>4, RootStep, AppendTableStep, CountTableStep, AppendColumnStep, CountColumnStep,
     CreateEndsStep, DropTableStep, DropColumnStep, RemoveFileStep
  DEF StatementStep
<1>5. CASE Start
  BY <1>5, OpenStep, BeginBootstrapStep, TruncateStep, WriteRootStep, BootstrapTableStep,
     BootstrapColumnStep, StoreEntryStep
  DEF Start
<1>6. CASE Exit \/ Kill
  BY <1>6, EndStep DEF Exit, Kill
<1>7. CASE UNCHANGED vars
  <2>1. /\ files' = files /\ schema' = schema /\ pc' = pc /\ op' = op /\ cursor' = cursor
        /\ next' = next /\ known' = known /\ unlinked' = unlinked
    BY <1>7 DEF vars, session
  <2>2. FilesTyped' /\ SchemaTyped' /\ RowsNamed' /\ tables' = tables /\ columns' = columns
    BY <2>1, NothingMoves
  <2>3. SessionTyped' /\ OpTyped'
    BY <2>1 DEF CatalogInv, SessionTyped, OpTyped
  <2>4. StartUnderWay'
    BY <2>1, <2>2 DEF CatalogInv, StartUnderWay, PagedHasLeaf, BothFilesExist, NoRow
  <2>5. StatementUnderWay'
    BY <2>1, <2>2 DEF CatalogInv, StatementUnderWay, Ahead
  <2> QED BY <2>2, <2>3, <2>4, <2>5 DEF CatalogInv
<1> QED BY <1>1, <1>2, <1>3, <1>4, <1>5, <1>6, <1>7 DEF Next

LEMMA CatalogInvariant == CrashSpec => []CatalogInv
<1> QED BY InitInv, StepInv, PTL DEF CrashSpec

(* From an empty directory on, whatever is created, dropped, indexed,      *)
(* killed or restarted, each variable has its type: schema tables are      *)
(* leaves of rows about names a file may have, and a statement has left to *)
(* write what its phase writes.                                            *)
THEOREM TypeCorrect == CrashSpec => []TypeOK
<1>1. CatalogInv => TypeOK
  <2> SUFFICES ASSUME CatalogInv PROVE TypeOK
    OBVIOUS
  <2>1. FullLeaf(TableRow) \subseteq Leaf(TableRow) /\ FullLeaf(ColumnRow) \subseteq Leaf(ColumnRow)
    BY DEF FullLeaf
  <2>2. tables \in Seq(Leaf(TableRow)) /\ columns \in Seq(Leaf(ColumnRow))
    BY <2>1, SeqMonotonic DEF CatalogInv, SchemaTyped, Leaves
  <2>3. pc \in BootstrapPhases => DOMAIN op = {"left"} /\ op.left # << >>
    <3>1. CASE pc \in Loops
      BY <3>1, SchemaOrders DEF CatalogInv, OpTyped
    <3>2. CASE pc = "bootstrap_columns"
      BY <3>2 DEF CatalogInv, OpTyped, ColumnsLeft
    <3> QED BY <3>1, <3>2 DEF BootstrapPhases, Loops
  <2> QED BY <2>2, <2>3 DEF CatalogInv, FilesTyped, SchemaTyped, SessionTyped, OpTyped, TypeOK
<1> QED BY <1>1, CatalogInvariant, PTL

LEMMA NamedRow ==
  ASSUME NEW leaves, NEW name \in NamesIn(leaves)
  PROVE  At(leaves, name) # {}
<1>1. PICK at \in (1..Len(leaves)) \X (1..LeafCapacity) :
        at[2] <= Len(leaves[at[1]].rows) /\ leaves[at[1]].rows[at[2]].table = name
  BY DEF NamesIn
<1>2. at \in At(leaves, name)
  BY <1>1 DEF At
<1> QED BY <1>2

(* A row in davisbase_tables or davisbase_columns is about a table whose   *)
(* file is there, at every instant, killed or not, with the bootstrap and  *)
(* a DROP TABLE of a schema table included: getTable never finds an entry  *)
(* without a file (database.cpp:315).                                      *)
THEOREM RowsKeepTheirFiles == CrashSpec => []RowsHaveFiles
<1>1. CatalogInv => RowsHaveFiles
  BY NamedRow DEF CatalogInv, RowsNamed, Within, RowsHaveFiles
<1> QED BY <1>1, CatalogInvariant, PTL

(* davisbase_tables never has two rows about one table, so that the scans  *)
(* that stop at the first (database.cpp:199, 249, 264) miss none.          *)
THEOREM EntriesStaySingle == CrashSpec => []OneEntry
<1>1. CatalogInv => OneEntry
  BY DEF CatalogInv, RowsNamed, Single, OneEntry
<1> QED BY <1>1, CatalogInvariant, PTL

(* The entries that a process needs stay where they are.                   *)
LEMMA EntriesStay ==
  ASSUME \A s \in SchemaTables : At(tables, s) # {} => At(tables', s) # {},
         \A s \in SchemaTables : s \in DOMAIN files /\ files[s] = "paged" =>
                                  s \in DOMAIN files' /\ files'[s] = "paged",
         unlinked' = unlinked
  PROVE  WouldOpen => WouldOpen'
BY DEF WouldOpen, HasEntry

(* While the schema tables are made anew, the second has no page yet, or   *)
(* the first is missing or empty.                                          *)
LEMMA MakingAnew ==
  ASSUME CatalogInv, pc \in {"truncate", "write_roots"}
  PROVE  ~ WouldOpen
<1>1. CASE pc = "truncate" /\ op.left = SchemaOrder
  BY <1>1 DEF CatalogInv, StartUnderWay, WouldOpen, BothFilesExist
<1>2. CASE pc = "truncate" /\ op.left # SchemaOrder
  BY <1>2, SchemaNames DEF CatalogInv, StartUnderWay, WouldOpen
<1>3. CASE pc = "write_roots"
  BY <1>3, SchemaNames DEF CatalogInv, StartUnderWay, WouldOpen
<1> QED BY <1>1, <1>2, <1>3

LEMMA StatementKeepsOpenable ==
  ASSUME CatalogInv, StatementStep, WouldOpen
  PROVE  WouldOpen' \/ (pc = "drop_table" /\ op.name \in SchemaTables)
<1>1. CASE WriteRoot
  <2>1. PICK name : name = op.name
    OBVIOUS
  <2>2. pc = "write_root" /\ files' = Put(files, name, "paged") /\ schema' = schema
        /\ unlinked' = unlinked
    BY <1>1, <2>1 DEF WriteRoot, session
  <2>3. name \in Names /\ FilesTyped
    BY <2>1, <2>2 DEF CatalogInv, OpTyped, CreatePhases
  <2>4. /\ DOMAIN files' = DOMAIN files \union {name} /\ files'[name] = "paged"
        /\ \A n \in DOMAIN files : n # name => files'[n] = files[n]
    BY <2>2, <2>3, FilesPut
  <2>5. tables' = tables
    BY <2>2 DEF tables
  <2>6. \A s \in SchemaTables : s \in DOMAIN files /\ files[s] = "paged" =>
                                 s \in DOMAIN files' /\ files'[s] = "paged"
    BY <2>4
  <2> QED BY <2>2, <2>5, <2>6, EntriesStay
<1>2. CASE AppendTableRow
  <2>1. PICK name : name = op.name
    OBVIOUS
  <2>2. PICK row : row = [row_id |-> next.davisbase_tables, table |-> name,
                          next_row_id |-> INITIAL_ROW_ID]
    OBVIOUS
  <2>3. PICK new : new = AppendRow(tables, row)
    OBVIOUS
  <2>4. /\ pc = "append_table" /\ files' = files /\ unlinked' = unlinked
        /\ schema' = [schema EXCEPT !.davisbase_tables = new]
    BY <1>2, <2>1, <2>2, <2>3 DEF AppendTableRow, tables, session
  <2>5. /\ name \in Names /\ name \in DOMAIN files /\ At(tables, name) = {}
        /\ next.davisbase_tables \in Nat
    BY <2>1, <2>4, SchemaNames
    DEF CatalogInv, OpTyped, StatementUnderWay, CreatePhases, SessionTyped
  <2>6. row \in TableRow /\ row.table = name /\ pc \notin Unready
    BY <2>2, <2>4, <2>5 DEF TableRow, INITIAL_ROW_ID, Unready
  <2>7. \A s : At(tables, s) # {} => At(tables', s) # {}
    BY <2>3, <2>4, <2>5, <2>6, EntryAppended
  <2> QED BY <2>4, <2>7, EntriesStay
<1>3. CASE CountTableRow
  <2>1. /\ pc \notin Unready /\ CountRow("davisbase_tables") /\ "davisbase_tables" \in SchemaTables
        /\ files' = files /\ known' = known /\ unlinked' = unlinked
    BY <1>3, SchemaNames DEF CountTableRow, Unready
  <2>2. Kept(tables, tables')
    BY <2>1, RowCounted
  <2> QED BY <2>1, <2>2, EntriesStay DEF Kept
<1>4. CASE CountColumnRow
  <2>1. /\ pc \notin Unready /\ CountRow("davisbase_columns") /\ "davisbase_columns" \in SchemaTables
        /\ files' = files /\ known' = known /\ unlinked' = unlinked
    BY <1>4, SchemaNames DEF CountColumnRow, Unready
  <2>2. Kept(tables, tables')
    BY <2>1, RowCounted
  <2> QED BY <2>1, <2>2, EntriesStay DEF Kept
<1>5. CASE AppendColumnRow \/ DropColumnRow
  <2>1. PICK new : schema' = [schema EXCEPT !.davisbase_columns = new]
    BY <1>5 DEF AppendColumnRow, DropColumnRow
  <2>2. tables' = tables
    BY <2>1, ColumnsWritten DEF CatalogInv
  <2>3. files' = files /\ unlinked' = unlinked
    BY <1>5 DEF AppendColumnRow, DropColumnRow, session
  <2> QED BY <2>2, <2>3, EntriesStay
<1>6. CASE CreateThrows \/ CreateReturns
  <2>1. files' = files /\ unlinked' = unlinked /\ schema' = schema
    BY <1>6 DEF CreateThrows, CreateReturns, session
  <2>2. tables' = tables
    BY <2>1 DEF tables
  <2> QED BY <2>1, <2>2, EntriesStay
<1>7. CASE DropTableRow
  <2>1. pc = "drop_table" /\ files' = files /\ unlinked' = unlinked
    BY <1>7 DEF DropTableRow, session
  <2>2. \A name : name # op.name /\ At(tables, name) # {} => At(tables', name) # {}
    BY <1>7, EntryDropped
  <2>3. CASE op.name \notin SchemaTables
    BY <2>1, <2>2, <2>3, EntriesStay
  <2> QED BY <2>1, <2>3
<1>8. CASE RemoveFile
  <2>1. PICK name : name = op.name
    OBVIOUS
  <2>2. /\ pc = "drop_columns" /\ files' = Without(files, name) /\ schema' = schema
        /\ unlinked' = unlinked \union ({name} \intersect SchemaTables)
    BY <1>8, <2>1 DEF RemoveFile
  <2>3. At(tables, name) = {}
    BY <2>1, <2>2 DEF CatalogInv, StatementUnderWay
  <2>4. name \notin SchemaTables
    BY <2>3 DEF WouldOpen, HasEntry
  <2>5. DOMAIN files' = DOMAIN files \ {name} /\ \A n \in DOMAIN files' : files'[n] = files[n]
    BY <2>2, FileGone DEF CatalogInv
  <2>6. tables' = tables /\ unlinked' = unlinked
    BY <2>2, <2>4 DEF tables
  <2>7. \A s \in SchemaTables : s \in DOMAIN files /\ files[s] = "paged" =>
                                 s \in DOMAIN files' /\ files'[s] = "paged"
    BY <2>4, <2>5
  <2> QED BY <2>6, <2>7, EntriesStay
<1> QED BY <1>1, <1>2, <1>3, <1>4, <1>5, <1>6, <1>7, <1>8 DEF StatementStep

LEMMA StartKeepsOpenable ==
  ASSUME CatalogInv, Start, WouldOpen
  PROVE  WouldOpen'
<1>1. CASE OpenExisting \/ BeginBootstrap
  <2>1. files' = files /\ unlinked' = unlinked /\ schema' = schema
    BY <1>1 DEF OpenExisting, BeginBootstrap, session
  <2>2. tables' = tables
    BY <2>1 DEF tables
  <2> QED BY <2>1, <2>2, EntriesStay
<1>2. CASE TruncateSchemaFile \/ WriteSchemaRoot
  BY <1>2, MakingAnew DEF TruncateSchemaFile, WriteSchemaRoot
<1>3. CASE BootstrapTableRow
  <2>1. PICK s : s = Head(op.left)
    OBVIOUS
  <2>2. PICK row : row = [row_id |-> next.davisbase_tables, table |-> s, next_row_id |-> 0]
    OBVIOUS
  <2>3. PICK new : new = AppendRow(tables, row)
    OBVIOUS
  <2>4. /\ pc = "bootstrap_tables" /\ files' = files /\ unlinked' = unlinked
        /\ schema' = [schema EXCEPT !.davisbase_tables = new]
    BY <1>3, <2>1, <2>2, <2>3 DEF BootstrapTableRow, tables
  <2>5. s \in SchemaTables /\ next.davisbase_tables \in Nat
    BY <2>1, <2>4, SchemaOrders, SchemaNames DEF CatalogInv, OpTyped, Loops, SessionTyped
  <2>6. At(tables, s) = {} /\ s \in DOMAIN files
    <3>1. op.left = SchemaOrder \/ op.left = Tail(SchemaOrder)
      BY <2>4 DEF CatalogInv, OpTyped, Loops
    <3>2. At(tables, "davisbase_columns") = {} /\ BothFilesExist
          /\ (op.left = SchemaOrder => At(tables, "davisbase_tables") = {})
      BY <2>4 DEF CatalogInv, StartUnderWay
    <3> QED BY <2>1, <2>5, <3>1, <3>2, SchemaOrders DEF BothFilesExist
  <2>7. FALSE
    BY <2>5, <2>6 DEF WouldOpen, HasEntry
  <2> QED BY <2>7
<1>4. CASE BootstrapColumnRow
  <2>1. PICK new : schema' = [schema EXCEPT !.davisbase_columns = new]
    BY <1>4 DEF BootstrapColumnRow
  <2>2. tables' = tables
    BY <2>1, ColumnsWritten DEF CatalogInv
  <2>3. files' = files /\ unlinked' = unlinked
    BY <1>4 DEF BootstrapColumnRow
  <2> QED BY <2>2, <2>3, EntriesStay
<1>5. CASE StoreEntry
  <2>1. PICK s : s = Head(op.left)
    OBVIOUS
  <2>2. PICK row_id : row_id = next[s]
    OBVIOUS
  <2>3. PICK new : new = StoreNext(tables, s, row_id)
    OBVIOUS
  <2>4. /\ pc = "store_entries" /\ files' = files /\ unlinked' = unlinked
        /\ schema' = [schema EXCEPT !.davisbase_tables = new]
    BY <1>5, <2>1, <2>2, <2>3 DEF StoreEntry, tables, session
  <2>5. s \in SchemaTables
    BY <2>1, <2>4, SchemaOrders, SchemaNames DEF CatalogInv, OpTyped, Loops
  <2>6. row_id \in Nat
    BY <2>2, <2>5 DEF CatalogInv, SessionTyped
  <2>7. Kept(tables, tables')
    BY <2>3, <2>4, <2>6, IdStored
  <2> QED BY <2>4, <2>7, EntriesStay DEF Kept
<1> QED BY <1>1, <1>2, <1>3, <1>4, <1>5 DEF Start

(* A database that a process could open is one that the next can open too, *)
(* step by step, whatever is created, refused, killed or restarted: only a *)
(* DROP TABLE of davisbase_tables or davisbase_columns, which              *)
(* database.cpp:335 does not refuse, takes that away.                      *)
THEOREM OpenableStays == CrashSpec => StaysOpenable
<1>1. CatalogInv /\ [Next \/ Kill]_vars =>
        [WouldOpen => WouldOpen' \/ (pc = "drop_table" /\ op.name \in SchemaTables)]_vars
  <2> SUFFICES ASSUME CatalogInv, [Next \/ Kill]_vars, WouldOpen
               PROVE  \/ WouldOpen' \/ (pc = "drop_table" /\ op.name \in SchemaTables)
                      \/ UNCHANGED vars
    OBVIOUS
  <2>1. CASE \E name \in Names, definition \in Definitions : BeginCreate(name, definition)
    <3>1. PICK name \in Names, definition \in Definitions : BeginCreate(name, definition)
      BY <2>1
    <3>2. /\ files' = Put(files, name, "empty") /\ name \notin DOMAIN files
          /\ schema' = schema /\ unlinked' = unlinked
      BY <3>1 DEF BeginCreate, session
    <3>3. /\ DOMAIN files' = DOMAIN files \union {name}
          /\ \A n \in DOMAIN files : n # name => files'[n] = files[n]
      BY <3>2, FilesPut DEF CatalogInv
    <3>4. tables' = tables
      BY <3>2 DEF tables
    <3>5. \A s \in SchemaTables : s \in DOMAIN files /\ files[s] = "paged" =>
                                   s \in DOMAIN files' /\ files'[s] = "paged"
      BY <3>2, <3>3
    <3> QED BY <3>2, <3>4, <3>5, EntriesStay
  <2>2. CASE \E name \in Names : BeginDrop(name)
    <3>1. files' = files /\ unlinked' = unlinked /\ schema' = schema
      BY <2>2 DEF BeginDrop, session
    <3>2. tables' = tables
      BY <3>1 DEF tables
    <3> QED BY <3>1, <3>2, EntriesStay
  <2>3. CASE \E name \in Names, column \in Columns : MakeColumnUnique(name, column)
    <3>1. PICK new : schema' = [schema EXCEPT !.davisbase_columns = new]
      <4>1. PICK name \in Names, column \in Columns : MakeColumnUnique(name, column)
        BY <2>3
      <4>2. PICK places :
              places = {at \in At(columns, name) : columns[at[1]].rows[at[2]].column = column}
        OBVIOUS
      <4>3. schema' = [schema EXCEPT !.davisbase_columns
                         [First(places)[1]].rows[First(places)[2]].unique = TRUE]
        BY <4>1, <4>2 DEF MakeColumnUnique
      <4>4. PICK old : old = schema.davisbase_columns
        OBVIOUS
      <4>5. PICK new : new = [old EXCEPT ![First(places)[1]].rows[First(places)[2]].unique = TRUE]
        OBVIOUS
      <4>6. schema' = [schema EXCEPT !.davisbase_columns = new]
        BY <4>3, <4>4, <4>5
      <4> QED BY <4>6
    <3>2. tables' = tables
      BY <3>1, ColumnsWritten DEF CatalogInv
    <3>3. files' = files /\ unlinked' = unlinked
      BY <2>3 DEF MakeColumnUnique, session
    <3> QED BY <3>2, <3>3, EntriesStay
  <2>4. CASE StatementStep
    BY <2>4, StatementKeepsOpenable
  <2>5. CASE Start
    BY <2>5, StartKeepsOpenable
  <2>6. CASE Exit \/ Kill
    <3>1. End /\ files' = files /\ unlinked' = {}
      BY <2>6 DEF Exit, Kill, End
    <3>2. unlinked = {}
      BY DEF WouldOpen
    <3>3. schema'["davisbase_tables"] = schema["davisbase_tables"]
      BY <3>1, <3>2, FoundLater, SchemaNames
    <3>4. tables' = tables
      BY <3>3 DEF tables
    <3> QED BY <3>1, <3>2, <3>4, EntriesStay
  <2>7. CASE UNCHANGED vars
    BY <2>7
  <2> QED BY <2>1, <2>2, <2>3, <2>4, <2>5, <2>6, <2>7 DEF Next
<1> QED BY <1>1, CatalogInvariant, PTL DEF CrashSpec, StaysOpenable
=============================================================================
