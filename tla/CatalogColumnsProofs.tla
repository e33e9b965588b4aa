------------------------ MODULE CatalogColumnsProofs ------------------------
(***************************************************************************)
(* Which columns davisbase_columns has for a table: theorems about Catalog *)
(* that follow its rows from the CREATE TABLE that writes them to the DROP *)
(* TABLE that deletes them, wherever either was interrupted; what a start  *)
(* finds of the schema tables themselves after it was interrupted; and, if *)
(* nothing is, that the catalog implements TableDirectory.                 *)
(***************************************************************************)
EXTENDS CatalogProofs

-----------------------------------------------------------------------------
(* What is found about a table in rows put together from others.            *)

LEMMA AboutNone ==
  ASSUME NEW R, NEW rows \in Seq(R), NEW name, \A r \in R : r.table # name
  PROVE  RowsAbout(rows, name) = << >>
<1>1. RowsAbout(rows, name) \in Seq({})
  BY AboutType
<1>2. PICK s \in Seq({}) : s = RowsAbout(rows, name)
  BY <1>1
<1>3. Len(s) \in Nat /\ \A i \in 1..Len(s) : s[i] \in {}
  BY LenProperties, ElementOfSeq
<1>4. Len(s) = 0
  BY <1>3
<1> QED BY <1>2, <1>4, EmptySeq

(* What is found in one sequence behind another.                           *)
LEMMA AboutConcat ==
  ASSUME NEW R, NEW name
  PROVE  \A s, t \in Seq(R) : RowsAbout(s \o t, name) = RowsAbout(s, name) \o RowsAbout(t, name)
<1> TAKE s, t \in Seq(R)
<1>1. PICK a \in Nat : a = Len(s)
  BY LenProperties
<1>2. PICK b \in Nat : b = Len(t)
  BY LenProperties
<1>3. PICK u : u = s \o t
  OBVIOUS
<1>4. /\ u \in Seq(R) /\ Len(u) = a + b
      /\ \A i \in 1..a+b : u[i] = IF i <= a THEN s[i] ELSE t[i-a]
  BY <1>1, <1>2, <1>3, ConcatProperties
<1>5. PICK n \in Nat : n = a + b
  OBVIOUS
<1>6. PICK f : Finds(f, s, name, a) /\ RowsAbout(s, name) = f[a]
  BY <1>1, AboutFinds
<1>7. PICK g : Finds(g, t, name, b) /\ RowsAbout(t, name) = g[b]
  BY <1>2, AboutFinds
<1>8. PICK h : Finds(h, u, name, n) /\ RowsAbout(u, name) = h[n]
  BY <1>4, <1>5, AboutFinds
<1>9. /\ \A i \in 0..a : f[i] \in Seq(R)
      /\ \A i \in 0..b : g[i] \in Seq(R)
  BY <1>1, <1>2, <1>6, <1>7, FindsType
<1>10. h[a] = f[a]
  <2>1. PICK A : A = {i \in 0..a : h[i] = f[i]}
    OBVIOUS
  <2>2. 0 \in A
    BY <1>5, <1>6, <1>8, <2>1, FindsFirst
  <2>3. ASSUME NEW i \in 0..a-1, i \in A PROVE i+1 \in A
    <3>1. PICK k : k = i+1
      OBVIOUS
    <3>2. k \in 1..a /\ k \in 1..n /\ k-1 = i /\ k \in 0..a /\ k \in 1..a+b /\ k <= a
      BY <1>5, <3>1
    <3>3. u[k] = s[k] /\ h[i] = f[i]
      BY <1>4, <2>1, <2>3, <3>2
    <3>0. FindsAt(f, s, name, k)
      BY <1>6, <3>2, FindsNext
    <3>4. f[k] = IF s[k].table = name THEN Append(f[i], s[k]) ELSE f[i]
      BY <3>0, <3>2 DEF FindsAt
    <3>5. h[k] = IF u[k].table = name THEN Append(h[i], u[k]) ELSE h[i]
      BY <1>8, <3>2, FindsNext DEF FindsAt
    <3> QED BY <2>1, <3>1, <3>2, <3>3, <3>4, <3>5
  <2>4. 0..a \subseteq A
    BY <2>2, <2>3, UpTo
  <2>5. a \in 0..a
    OBVIOUS
  <2> QED BY <2>1, <2>4, <2>5
<1>11. h[a+b] = f[a] \o g[b]
  <2>1. PICK A : A = {i \in 0..b : h[a+i] = f[a] \o g[i]}
    OBVIOUS
  <2>2. 0 \in A
    <3>1. f[a] \in Seq(R) /\ a+0 = a /\ 0 \in 0..b
      BY <1>9
    <3>2. f[a] \o << >> = f[a]
      BY <3>1, ConcatEmptySeq
    <3>3. g[0] = << >>
      BY <1>7, FindsFirst
    <3> QED BY <1>10, <2>1, <3>1, <3>2, <3>3
  <2>3. ASSUME NEW i \in 0..b-1, i \in A PROVE i+1 \in A
    <3>1. PICK k : k = i+1
      OBVIOUS
    <3>2. PICK m : m = a+k
      OBVIOUS
    <3>3. /\ k \in 1..b /\ k-1 = i /\ k \in 0..b /\ m \in 1..n /\ m-1 = a+i
          /\ m \in 1..a+b /\ ~ (m <= a) /\ m-a = k
      BY <1>5, <3>1, <3>2
    <3>4. u[m] = t[k] /\ h[m-1] = f[a] \o g[i] /\ t[k] \in R
      BY <1>2, <1>4, <2>1, <2>3, <3>3, ElementOfSeq
    <3>0. FindsAt(g, t, name, k)
      BY <1>7, <3>3, FindsNext
    <3>5. g[k] = IF t[k].table = name THEN Append(g[i], t[k]) ELSE g[i]
      BY <3>0, <3>3 DEF FindsAt
    <3>6. h[m] = IF u[m].table = name THEN Append(h[m-1], u[m]) ELSE h[m-1]
      BY <1>8, <3>3, FindsNext DEF FindsAt
    <3>7. f[a] \o Append(g[i], t[k]) = Append(f[a] \o g[i], t[k])
      <4>1. f[a] \in Seq(R) /\ g[i] \in Seq(R)
        BY <1>9
      <4> QED BY <3>4, <4>1, ConcatAppend
    <3>8. h[m] = f[a] \o g[k]
      BY <3>4, <3>5, <3>6, <3>7
    <3> QED BY <2>1, <3>1, <3>2, <3>3, <3>8
  <2>4. 0..b \subseteq A
    BY <2>2, <2>3, UpTo
  <2>5. b \in 0..b
    OBVIOUS
  <2> QED BY <2>1, <2>4, <2>5
<1> QED BY <1>3, <1>5, <1>6, <1>7, <1>8, <1>11

LEMMA AboutOne ==
  ASSUME NEW R, NEW e \in R, NEW name
  PROVE  RowsAbout(<<e>>, name) = IF e.table = name THEN <<e>> ELSE << >>
<1>1. PICK s : s = <<e>>
  OBVIOUS
<1>2. Len(s) = 1 /\ s[1] = e
  BY <1>1
<1>3. PICK f : Finds(f, s, name, 1) /\ RowsAbout(s, name) = f[1]
  BY <1>2, AboutFinds
<1>4. f[0] = << >>
  BY <1>3, FindsFirst
<1>5. f[1] = IF s[1].table = name THEN Append(f[0], s[1]) ELSE f[0]
  <2>1. PICK k : k = 1
    OBVIOUS
  <2>2. k \in 1..1 /\ k-1 = 0
    BY <2>1
  <2>3. f[k] = IF s[k].table = name THEN Append(f[k-1], s[k]) ELSE f[k-1]
    BY <1>3, <2>2, FindsNext DEF FindsAt
  <2> QED BY <2>1, <2>2, <2>3
<1>6. Append(<< >>, e) = <<e>>
  OBVIOUS
<1> QED BY <1>1, <1>2, <1>3, <1>4, <1>5, <1>6

(* What is found in a sequence of one row between two others.              *)
LEMMA AboutMiddle ==
  ASSUME NEW R, NEW front \in Seq(R), NEW e \in R, NEW back \in Seq(R), NEW name
  PROVE  RowsAbout(Append(front, e) \o back, name) =
           IF e.table = name
           THEN Append(RowsAbout(front, name), e) \o RowsAbout(back, name)
           ELSE RowsAbout(front, name) \o RowsAbout(back, name)
<1>1. /\ <<e>> \in Seq(R) /\ <<e>> \o back \in Seq(R)
      /\ Append(front, e) \o back = front \o (<<e>> \o back)
  BY AppendBefore, ConcatProperties
<1>2. RowsAbout(Append(front, e) \o back, name)
        = RowsAbout(front, name) \o (RowsAbout(<<e>>, name) \o RowsAbout(back, name))
  <2>1. \A s, t \in Seq(R) : RowsAbout(s \o t, name) = RowsAbout(s, name) \o RowsAbout(t, name)
    BY AboutConcat
  <2>2. RowsAbout(front \o (<<e>> \o back), name)
          = RowsAbout(front, name) \o RowsAbout(<<e>> \o back, name)
    BY <1>1, <2>1
  <2>3. RowsAbout(<<e>> \o back, name) = RowsAbout(<<e>>, name) \o RowsAbout(back, name)
    BY <1>1, <2>1
  <2> QED BY <1>1, <2>2, <2>3
<1>3. RowsAbout(front, name) \in Seq(R) /\ RowsAbout(back, name) \in Seq(R)
  BY AboutType
<1>4. CASE e.table = name
  <2>1. RowsAbout(<<e>>, name) = <<e>>
    BY <1>4, AboutOne
  <2>2. \A s, t \in Seq(R) : Append(s, e) \o t = s \o (<<e>> \o t)
    BY AppendBefore
  <2>3. Append(RowsAbout(front, name), e) \o RowsAbout(back, name)
          = RowsAbout(front, name) \o (<<e>> \o RowsAbout(back, name))
    BY <1>3, <2>2
  <2> QED BY <1>2, <1>4, <2>1, <2>3, Zenon
<1>5. CASE e.table # name
  <2>1. RowsAbout(<<e>>, name) = << >>
    BY <1>5, AboutOne
  <2>2. << >> \o RowsAbout(back, name) = RowsAbout(back, name)
    BY <1>3, ConcatEmptySeq
  <2> QED BY <1>2, <1>5, <2>1, <2>2
<1> QED BY <1>4, <1>5

-----------------------------------------------------------------------------
(* The rows of leaves in one of which something changes.                    *)

(* A sequence around one of its elements; those before it are in T.        *)
LEMMA SplitAt ==
  ASSUME NEW S, NEW s \in Seq(S), NEW k \in 1..Len(s), NEW T, \A j \in 1..k-1 : s[j] \in T
  PROVE  \E front \in Seq(T), back \in Seq(S) :
           front \in Seq(S) /\ Middle(S, s, k, front, s[k], back)
<1>1. PICK n \in Nat : n = Len(s)
  BY LenProperties
<1>2. /\ k \in Nat /\ k >= 1 /\ k <= n
      /\ \A j \in 1..n : s[j] \in S
  BY <1>1, ElementOfSeq
<1>3. PICK h \in Nat : h = k-1
  BY <1>2
<1>4. PICK lo \in Nat : lo = k+1
  BY <1>2
<1>5. PICK front : front = SubSeq(s, 1, h)
  OBVIOUS
<1>6. front \in Seq(S) /\ Len(front) = h /\ \A j \in 1..h : front[j] = s[j]
  <2>1. \A j \in 1..h : s[j] \in S
    BY <1>2, <1>3
  <2>2. /\ front \in Seq(S) /\ Len(front) = IF 1 <= h THEN h-1+1 ELSE 0
        /\ \A j \in 1..h-1+1 : front[j] = s[1+j-1]
    BY <1>5, <2>1, SubSeqProperties
  <2> QED BY <2>2
<1>7. front \in Seq(T)
  <2>1. \A j \in 1..h : s[j] \in T
    BY <1>3
  <2> QED BY <1>5, <2>1, SubSeqProperties
<1>8. PICK back : back = SubSeq(s, lo, n)
  OBVIOUS
<1>9. back \in Seq(S)
  <2>1. \A j \in lo..n : s[j] \in S
    BY <1>2, <1>4
  <2> QED BY <1>8, <2>1, SubSeqProperties
<1>10. s = Append(front, s[k]) \o back
  <2>1. SubSeq(s, 1, k) = Append(front, s[k])
    <3>1. 1 \in 1..n /\ k \in 1..n
      BY <1>2
    <3>2. SubSeq(s, 1, k) = SubSeq(s, 1, k-1) \o <<s[k]>>
      BY <1>1, <3>1, SubSeqRecursiveSecond
    <3>3. s[k] \in S
      BY <1>2
    <3> QED BY <1>3, <1>5, <1>6, <3>2, <3>3, AppendIsConcat
  <2>2. SubSeq(s, 1, k) \o SubSeq(s, k+1, n) = SubSeq(s, 1, n)
    <3>1. 1 \in 1..n+1 /\ k \in 0..n /\ 1 <= k+1
      BY <1>2
    <3> QED BY <1>1, <1>2, <3>1, ConcatAdjacentSubSeq
  <2>3. SubSeq(s, 1, n) = s
    BY <1>1, SubSeqFull
  <2> QED BY <1>4, <1>8, <2>1, <2>2, <2>3
<1> QED BY <1>2, <1>3, <1>6, <1>7, <1>9, <1>10 DEF Middle

Around(flat, front, part, back) == flat = front \o (part \o back)
Behind(front, p, back, part) ==
  (front \o (p \o back)) \o part = front \o (p \o (back \o part))

LEMMA ConcatBehind ==
  ASSUME NEW S, NEW front \in Seq(S), NEW p \in Seq(S), NEW back \in Seq(S), NEW part \in Seq(S)
  PROVE  Behind(front, p, back, part)
<1>1. (p \o back) \o part = p \o (back \o part)
  BY ConcatAssociative
<1>2. PICK q \in Seq(S) : q = p \o back
  BY ConcatProperties
<1>3. (front \o q) \o part = front \o (q \o part)
  BY ConcatAssociative
<1> QED BY <1>1, <1>2, <1>3 DEF Behind

LEMMA AroundBefore ==
  ASSUME NEW S, NEW front \in Seq(S), NEW p \in Seq(S), NEW back \in Seq(S), NEW part \in Seq(S),
         NEW flat, Around(flat, front, p, back)
  PROVE  Around(flat \o part, front, p, back \o part)
<1>1. Behind(front, p, back, part)
  BY ConcatBehind
<1> QED BY <1>1 DEF Around, Behind

LEMMA FlattenAround ==
  ASSUME NEW S, NEW parts \in Seq(Seq(S)), NEW more \in Seq(Seq(S)),
         NEW n \in Nat, n = Len(parts), n = Len(more),
         NEW l \in 1..n, \A i \in 1..n : i # l => more[i] = parts[i],
         NEW T, \A i \in 1..l-1 : parts[i] \in Seq(T)
  PROVE  \E front \in Seq(T), back \in Seq(S) :
           /\ front \in Seq(S)
           /\ Around(FlattenSeq(parts), front, parts[l], back)
           /\ Around(FlattenSeq(more), front, more[l], back)
<1>1. l \in Nat /\ l # 0 /\ n # 0 /\ n \in 1..n /\ n >= l
  OBVIOUS
<1>2. PICK f : Flattens(f, parts, n) /\ FlattenSeq(parts) = f[n]
  BY <1>1, FlattenSeqFlattens
<1>3. PICK g : Flattens(g, more, n) /\ FlattenSeq(more) = g[n]
  BY <1>1, FlattenSeqFlattens
<1>4. \A i \in 1..n : f[i] \in Seq(S) /\ g[i] \in Seq(S)
  BY <1>2, <1>3, FlattensType
<1>5. \A i \in 1..n : parts[i] \in Seq(S) /\ more[i] \in Seq(S)
  BY ElementOfSeq
<1>6. ASSUME NEW i \in 1..l-1 PROVE f[i] = g[i] /\ f[i] \in Seq(T)
  <2>1. PICK m \in Nat : m = l-1
    BY <1>1
  <2>2. PICK A : A = {j \in 0..m : j # 0 => f[j] = g[j] /\ f[j] \in Seq(T)}
    OBVIOUS
  <2>3. 0 \in A
    BY <2>2
  <2>4. ASSUME NEW j \in 0..m-1, j \in A PROVE j+1 \in A
    <3>1. PICK k : k = j+1
      OBVIOUS
    <3>2. k \in 1..n /\ k-1 = j /\ k # l /\ k \in 1..l-1 /\ k \in 0..m
      BY <2>1, <3>1
    <3>3. more[k] = parts[k] /\ parts[k] \in Seq(T)
      BY <3>2
    <3>4. CASE j = 0
      <4>1. f[1] = parts[1] /\ g[1] = more[1]
        BY <1>1, <1>2, <1>3, FlattensFirst
      <4> QED BY <2>2, <3>1, <3>2, <3>3, <3>4, <4>1
    <3>5. CASE j # 0
      <4>1. f[k] = f[k-1] \o parts[k] /\ g[k] = g[k-1] \o more[k]
        <5>1. k \in 1..n /\ k # 1
          BY <3>1, <3>2, <3>5
        <5>2. Flattens(f, parts, n) /\ Flattens(g, more, n)
          BY <1>2, <1>3
        <5> QED BY <5>1, <5>2, FlattensNext
      <4>2. f[j] = g[j] /\ f[j] \in Seq(T)
        BY <2>2, <2>4, <3>5
      <4>3. f[k] = g[k] /\ f[k] \in Seq(T)
        <5>1. f[k] = f[j] \o parts[k] /\ g[k] = f[j] \o parts[k]
          BY <3>2, <3>3, <4>1, <4>2
        <5>2. \A p, q \in Seq(T) : p \o q \in Seq(T)
          BY ConcatLengths
        <5> QED BY <3>3, <4>2, <5>1, <5>2
      <4> QED BY <2>2, <3>1, <3>2, <4>3
    <3> QED BY <3>4, <3>5
  <2>5. 0..m \subseteq A
    BY <2>3, <2>4, UpTo
  <2>6. i \in A /\ i # 0
    BY <2>1, <2>5
  <2> QED BY <2>2, <2>6
<1>7. PICK front : front = IF l = 1 THEN << >> ELSE f[l-1]
  OBVIOUS
<1>8. front \in Seq(T) /\ front \in Seq(S)
  <2>1. CASE l = 1
    BY <1>7, <2>1, EmptySeq
  <2>2. CASE l # 1
    <3>1. l-1 \in 1..l-1 /\ l-1 \in 1..n
      BY <2>2
    <3> QED BY <1>4, <1>6, <1>7, <2>2, <3>1
  <2> QED BY <2>1, <2>2
<1>9. PICK A : A = {i \in 0..n : i >= l => \E back \in Seq(S) :
                      Around(f[i], front, parts[l], back) /\ Around(g[i], front, more[l], back)}
  OBVIOUS
<1>10. 0 \in A
  BY <1>1, <1>9
<1>11. ASSUME NEW i \in 0..n-1, i \in A PROVE i+1 \in A
  <2>1. PICK k : k = i+1
    OBVIOUS
  <2>2. k \in 1..n /\ k-1 = i /\ k \in 0..n
    BY <2>1
  <2>3. CASE k < l
    BY <1>9, <2>1, <2>2, <2>3
  <2>4. CASE k = l
    <3>1. f[l] = front \o parts[l] /\ g[l] = front \o more[l]
      <4>1. CASE l = 1
        <5>1. f[1] = parts[1] /\ g[1] = more[1]
          BY <1>1, <1>2, <1>3, FlattensFirst
        <5>2. << >> \o parts[1] = parts[1] /\ << >> \o more[1] = more[1]
          BY <1>1, <1>5, <4>1, ConcatEmptySeq
        <5> QED BY <1>7, <4>1, <5>1, <5>2
      <4>2. CASE l # 1
        <5>1. f[l] = f[l-1] \o parts[l] /\ g[l] = g[l-1] \o more[l]
          BY <1>2, <1>3, <4>2, FlattensNext
        <5>2. f[l-1] = g[l-1] /\ front = f[l-1]
          <6>1. l-1 \in 1..l-1
            BY <4>2
          <6> QED BY <1>6, <1>7, <4>2, <6>1
        <5> QED BY <5>1, <5>2
      <4> QED BY <4>1, <4>2
    <3>2. << >> \in Seq(S) /\ parts[l] \o << >> = parts[l] /\ more[l] \o << >> = more[l]
      BY <1>5, EmptySeq, ConcatEmptySeq
    <3>3. Around(f[l], front, parts[l], << >>) /\ Around(g[l], front, more[l], << >>)
      BY <3>1, <3>2 DEF Around
    <3> QED BY <1>9, <2>1, <2>2, <2>4, <3>2, <3>3
  <2>5. CASE k > l
    <3>1. PICK back \in Seq(S) :
            Around(f[i], front, parts[l], back) /\ Around(g[i], front, more[l], back)
      BY <1>9, <1>11, <2>2, <2>5
    <3>2. PICK part \in Seq(S) : part = parts[k] /\ part = more[k]
      BY <1>5, <2>2, <2>5
    <3>3. PICK rest \in Seq(S) : rest = back \o part
      BY ConcatProperties
    <3>4. k # 1 /\ f[k] = f[i] \o part /\ g[k] = g[i] \o part
      <4>1. k # 1
        BY <1>1, <2>2, <2>5
      <4>2. Flattens(f, parts, n) /\ Flattens(g, more, n)
        BY <1>2, <1>3
      <4>3. f[k] = f[k-1] \o parts[k] /\ g[k] = g[k-1] \o more[k]
        BY <2>2, <4>1, <4>2, FlattensNext
      <4> QED BY <2>2, <3>2, <4>1, <4>3
    <3>5. PICK p \in Seq(S), q \in Seq(S) : p = parts[l] /\ q = more[l]
      BY <1>5
    <3>6. Around(f[i], front, p, back) /\ Around(g[i], front, q, back)
      BY <3>1, <3>5
    <3>7. Around(f[i] \o part, front, p, rest) /\ Around(g[i] \o part, front, q, rest)
      BY <1>8, <3>3, <3>6, AroundBefore
    <3>8. Around(f[k], front, parts[l], rest) /\ Around(g[k], front, more[l], rest)
      BY <3>4, <3>5, <3>7
    <3> QED BY <1>9, <2>1, <2>2, <3>8
  <2> QED BY <1>1, <2>2, <2>3, <2>4, <2>5
<1>12. 0..n \subseteq A
  BY <1>10, <1>11, UpTo
<1>13. n \in A
  BY <1>12
<1>14. PICK back \in Seq(S) :
         Around(f[n], front, parts[l], back) /\ Around(g[n], front, more[l], back)
  BY <1>1, <1>9, <1>13
<1> QED BY <1>2, <1>3, <1>8, <1>14

(* The rows around those of a leaf that changes.                           *)
OneChanged(leaves, new, l) ==
  Len(new) = Len(leaves) /\ \A k \in 1..Len(leaves) : k # l => new[k] = leaves[k]

LEMMA RowsAround ==
  ASSUME NEW R, NEW leaves \in Leaves(R), NEW new \in Leaves(R), NEW l \in 1..Len(leaves),
         OneChanged(leaves, new, l), NEW T, \A k \in 1..l-1 : leaves[k].rows \in Seq(T)
  PROVE  \E front \in Seq(T), back \in Seq(R) :
           /\ front \in Seq(R)
           /\ Around(Rows(leaves), front, leaves[l].rows, back)
           /\ Around(Rows(new), front, new[l].rows, back)
<1>1. PICK n \in Nat : n = Len(leaves)
  BY LenProperties DEF Leaves
<1>2. PICK parts \in Seq(Seq(R)) :
        /\ Len(parts) = n /\ Rows(leaves) = FlattenSeq(parts)
        /\ \A i \in 1..n : parts[i] = leaves[i].rows
  BY <1>1, PartsOf
<1>3. Len(new) = n /\ \A k \in 1..n : k # l => new[k] = leaves[k]
  BY <1>1 DEF OneChanged
<1>4. PICK more \in Seq(Seq(R)) :
        /\ Len(more) = n /\ Rows(new) = FlattenSeq(more)
        /\ \A i \in 1..n : more[i] = new[i].rows
  <2>1. PICK more : more = Parts(new)
    OBVIOUS
  <2>2. more \in Seq(Seq(R)) /\ Len(more) = Len(new) /\ Rows(new) = FlattenSeq(more)
    BY <2>1, PartsOf
  <2>3. \A i \in 1..Len(new) : more[i] = new[i].rows
    BY <2>1, PartsOf
  <2> QED BY <1>3, <2>2, <2>3
<1>5. l \in 1..n
  BY <1>1
<1>6. \A i \in 1..n : i # l => more[i] = parts[i]
  BY <1>2, <1>3, <1>4
<1>7. \A i \in 1..l-1 : parts[i] \in Seq(T)
  <2> TAKE i \in 1..l-1
  <2>1. i \in 1..n
    BY <1>5
  <2> QED BY <1>2, <2>1
<1>8. PICK front \in Seq(T), back \in Seq(R) :
        /\ front \in Seq(R)
        /\ Around(FlattenSeq(parts), front, parts[l], back)
        /\ Around(FlattenSeq(more), front, more[l], back)
  BY <1>2, <1>4, <1>5, <1>6, <1>7, FlattenAround
<1>9. parts[l] = leaves[l].rows /\ more[l] = new[l].rows
  BY <1>2, <1>4, <1>5
<1> QED BY <1>2, <1>4, <1>8, <1>9

(* A row of a leaf, with what is before and behind it in all the leaves.   *)
Joined(all, s, t) == all = s \o t

LEMMA JoinRight ==
  ASSUME NEW S, NEW s \in Seq(S), NEW t \in Seq(S), NEW u \in Seq(S), NEW st, NEW tu, NEW all,
         Joined(st, s, t), Joined(tu, t, u), Joined(all, st, u)
  PROVE  Joined(all, s, tu)
<1>1. (s \o t) \o u = s \o (t \o u)
  BY ConcatAssociative
<1> QED BY <1>1 DEF Joined

LEMMA JoinLeft ==
  ASSUME NEW S, NEW s \in Seq(S), NEW t \in Seq(S), NEW u \in Seq(S), NEW st, NEW tu, NEW all,
         Joined(st, s, t), Joined(tu, t, u), Joined(all, s, tu)
  PROVE  Joined(all, st, u)
<1>1. (s \o t) \o u = s \o (t \o u)
  BY ConcatAssociative
<1> QED BY <1>1 DEF Joined

LEMMA JoinedAround ==
  ASSUME NEW R, NEW front \in Seq(R), NEW first \in Seq(R), NEW last \in Seq(R),
         NEW back \in Seq(R), NEW part, Joined(part, first, last),
         NEW rows, Around(rows, front, part, back)
  PROVE  Joined(rows, front \o first, last \o back)
<1>1. PICK q : q = part \o back
  OBVIOUS
<1>2. PICK ahead : ahead = front \o first
  OBVIOUS
<1>3. PICK rest : rest = last \o back
  OBVIOUS
<1>4. Joined(q, part, back) /\ Joined(rows, front, q) /\ Joined(ahead, front, first)
      /\ Joined(rest, last, back)
  BY <1>1, <1>2, <1>3 DEF Joined, Around
<1>5. Joined(q, first, rest)
  BY <1>4, JoinRight
<1>6. rest \in Seq(R)
  BY <1>3, ConcatProperties
<1>7. Joined(rows, ahead, rest)
  BY <1>4, <1>5, <1>6, JoinLeft
<1> QED BY <1>2, <1>3, <1>7

Between(rows, front, row, back) == Joined(rows, Append(front, row), back)

LEMMA BetweenAround ==
  ASSUME NEW R, NEW front \in Seq(R), NEW first \in Seq(R), NEW row \in R, NEW last \in Seq(R),
         NEW back \in Seq(R), NEW part, Between(part, first, row, last),
         NEW rows, Around(rows, front, part, back)
  PROVE  Between(rows, front \o first, row, last \o back)
<1>1. PICK one \in Seq(R) : one = Append(first, row)
  BY AppendProperties
<1>2. Joined(part, one, last)
  BY <1>1 DEF Between
<1>3. Joined(rows, front \o one, last \o back)
  BY <1>2, JoinedAround
<1>4. front \o one = Append(front \o first, row)
  <2>1. \A s, t \in Seq(R) : s \o Append(t, row) = Append(s \o t, row)
    BY ConcatAppend
  <2> QED BY <1>1, <2>1
<1> QED BY <1>3, <1>4 DEF Between

-----------------------------------------------------------------------------
(* What deletes, updates and appends do to the rows of the leaves.          *)

(* The rows that a scan meets before index i of leaf l.                    *)
AllBefore(leaves, l, i, T) ==
  /\ \A k \in 1..l-1 : leaves[k].rows \in Seq(T)
  /\ \A j \in 1..i-1 : leaves[l].rows[j] \in T

LEMMA RowSplit ==
  ASSUME NEW R, NEW T, T \subseteq R, NEW leaves \in Leaves(R), NEW new \in Leaves(R),
         NEW l \in 1..Len(leaves), NEW i \in 1..Len(leaves[l].rows),
         AllBefore(leaves, l, i, T), OneChanged(leaves, new, l)
  PROVE  \E front \in Seq(T), back \in Seq(R), first \in Seq(T), last \in Seq(R) :
           /\ front \in Seq(R) /\ first \in Seq(R)
           /\ Middle(R, leaves[l].rows, i, first, leaves[l].rows[i], last)
           /\ Around(Rows(leaves), front, leaves[l].rows, back)
           /\ Around(Rows(new), front, new[l].rows, back)
<1>1. PICK rows : rows = leaves[l].rows
  OBVIOUS
<1>2. rows \in Seq(R) /\ i \in 1..Len(rows)
  BY <1>1, PartsOf
<1>3. \A j \in 1..i-1 : rows[j] \in T
  BY <1>1 DEF AllBefore
<1>4. PICK first \in Seq(T), last \in Seq(R) :
        first \in Seq(R) /\ Middle(R, rows, i, first, rows[i], last)
  BY <1>2, <1>3, SplitAt
<1>5. PICK front \in Seq(T), back \in Seq(R) :
        /\ front \in Seq(R)
        /\ Around(Rows(leaves), front, leaves[l].rows, back)
        /\ Around(Rows(new), front, new[l].rows, back)
  <2>1. \A k \in 1..l-1 : leaves[k].rows \in Seq(T)
    BY DEF AllBefore
  <2> QED BY <2>1, RowsAround
<1> QED BY <1>1, <1>4, <1>5

LEMMA RowTakenOut ==
  ASSUME NEW R, NEW T, T \subseteq R, NEW leaves \in Leaves(R),
         NEW l \in 1..Len(leaves), NEW i \in 1..Len(leaves[l].rows),
         AllBefore(leaves, l, i, T), NEW new, Deleted(leaves, new, l, i)
  PROVE  \E front \in Seq(T), back \in Seq(R) :
           /\ front \in Seq(R) /\ leaves[l].rows[i] \in R
           /\ Between(Rows(leaves), front, leaves[l].rows[i], back)
           /\ Joined(Rows(new), front, back)
<1>1. new \in Leaves(R) /\ Len(new) = Len(leaves)
  BY RowDeleted
<1>2. PICK n \in Nat : n = Len(leaves)
  BY LenProperties DEF Leaves
<1>3. DOMAIN leaves = 1..n /\ l \in 1..n
  BY <1>2, LenProperties DEF Leaves
<1>4. PICK leaf : leaf = [leaves[l] EXCEPT !.rows = RemoveAt(leaves[l].rows, i)]
  OBVIOUS
<1>5. new = [leaves EXCEPT ![l] = leaf]
  BY <1>4 DEF Deleted, DeleteAt
<1>6. new[l] = leaf /\ OneChanged(leaves, new, l)
  BY <1>1, <1>2, <1>3, <1>5 DEF OneChanged
<1>7. new[l].rows = RemoveAt(leaves[l].rows, i)
  <2>1. leaves[l] \in FullLeaf(R)
    BY ElementOfSeq DEF Leaves
  <2> QED BY <1>4, <1>6, <2>1 DEF FullLeaf, Leaf
<1>8. PICK front \in Seq(T), back \in Seq(R), first \in Seq(T), last \in Seq(R) :
        /\ front \in Seq(R) /\ first \in Seq(R)
        /\ Middle(R, leaves[l].rows, i, first, leaves[l].rows[i], last)
        /\ Around(Rows(leaves), front, leaves[l].rows, back)
        /\ Around(Rows(new), front, new[l].rows, back)
  BY <1>1, <1>6, RowSplit
<1>9. PICK row \in R : row = leaves[l].rows[i]
  BY <1>8 DEF Middle
<1>10. Between(leaves[l].rows, first, row, last) /\ Joined(new[l].rows, first, last)
  <2>1. Middle(R, leaves[l].rows, i, first, row, last)
    BY <1>8, <1>9
  <2>2. RemoveAt(leaves[l].rows, i) = first \o last
    BY <2>1, MiddleGone
  <2> QED BY <1>7, <2>1, <2>2 DEF Middle, Between, Joined
<1>11. Between(Rows(leaves), front \o first, row, last \o back)
  BY <1>8, <1>10, BetweenAround
<1>12. Joined(Rows(new), front \o first, last \o back)
  BY <1>8, <1>10, JoinedAround
<1>13. front \o first \in Seq(T) /\ front \o first \in Seq(R) /\ last \o back \in Seq(R)
  BY <1>8, ConcatProperties
<1> QED BY <1>9, <1>11, <1>12, <1>13

LEMMA RowExchanged ==
  ASSUME NEW R, NEW T, T \subseteq R, NEW leaves \in Leaves(R),
         NEW l \in 1..Len(leaves), NEW i \in 1..Len(leaves[l].rows),
         AllBefore(leaves, l, i, T), NEW d \in R, d.table = leaves[l].rows[i].table,
         NEW new, RowBecomes(leaves, new, l, i, d)
  PROVE  \E front \in Seq(T), back \in Seq(R) :
           /\ front \in Seq(R) /\ leaves[l].rows[i] \in R
           /\ Between(Rows(leaves), front, leaves[l].rows[i], back)
           /\ Between(Rows(new), front, d, back)
<1>1. new \in Leaves(R) /\ Len(new) = Len(leaves)
  BY RowReplaced
<1>2. PICK n \in Nat : n = Len(leaves)
  BY LenProperties DEF Leaves
<1>3. DOMAIN leaves = 1..n /\ l \in 1..n
  BY <1>2, LenProperties DEF Leaves
<1>4. PICK leaf : leaf = [leaves[l] EXCEPT !.rows = [leaves[l].rows EXCEPT ![i] = d]]
  OBVIOUS
<1>5. new = [leaves EXCEPT ![l] = leaf]
  BY <1>4 DEF RowBecomes
<1>6. new[l] = leaf /\ OneChanged(leaves, new, l)
  BY <1>1, <1>2, <1>3, <1>5 DEF OneChanged
<1>7. new[l].rows = [leaves[l].rows EXCEPT ![i] = d]
  <2>1. leaves[l] \in FullLeaf(R)
    BY ElementOfSeq DEF Leaves
  <2> QED BY <1>4, <1>6, <2>1 DEF FullLeaf, Leaf
<1>8. PICK front \in Seq(T), back \in Seq(R), first \in Seq(T), last \in Seq(R) :
        /\ front \in Seq(R) /\ first \in Seq(R)
        /\ Middle(R, leaves[l].rows, i, first, leaves[l].rows[i], last)
        /\ Around(Rows(leaves), front, leaves[l].rows, back)
        /\ Around(Rows(new), front, new[l].rows, back)
  BY <1>1, <1>6, RowSplit
<1>9. PICK row \in R : row = leaves[l].rows[i]
  BY <1>8 DEF Middle
<1>10. Between(leaves[l].rows, first, row, last) /\ Between(new[l].rows, first, d, last)
  <2>1. Middle(R, leaves[l].rows, i, first, row, last)
    BY <1>8, <1>9
  <2>2. Middle(R, [leaves[l].rows EXCEPT ![i] = d], i, first, d, last)
    BY <2>1, MiddleNew
  <2> QED BY <1>7, <2>1, <2>2 DEF Middle, Between, Joined
<1>11. Between(Rows(leaves), front \o first, row, last \o back)
  BY <1>8, <1>10, BetweenAround
<1>12. Between(Rows(new), front \o first, d, last \o back)
  BY <1>8, <1>10, BetweenAround
<1>13. front \o first \in Seq(T) /\ front \o first \in Seq(R) /\ last \o back \in Seq(R)
  BY <1>8, ConcatProperties
<1> QED BY <1>9, <1>11, <1>12, <1>13

LEMMA RowsAppended ==
  ASSUME NEW R, NEW leaves \in Leaves(R), leaves # << >>, NEW row \in R,
         NEW new, Appended(leaves, new, row)
  PROVE  Rows(leaves) \in Seq(R) /\ Rows(new) = Append(Rows(leaves), row)
<1>1. PICK n \in Nat : n = Len(leaves) /\ n # 0
  BY EmptySeq, LenProperties DEF Leaves
<1>2. PICK parts : parts = Parts(leaves)
  OBVIOUS
<1>3. /\ parts \in Seq(Seq(R)) /\ Len(parts) = n /\ Rows(leaves) = FlattenSeq(parts)
      /\ \A i \in 1..n : parts[i] = leaves[i].rows
  BY <1>1, <1>2, PartsOf
<1>4. new \in Leaves(R)
  BY RowAppended
<1>5. PICK more : more = Parts(new)
  OBVIOUS
<1>6. /\ more \in Seq(Seq(R)) /\ Len(more) = Len(new) /\ Rows(new) = FlattenSeq(more)
      /\ \A i \in 1..Len(new) : more[i] = new[i].rows
  BY <1>4, <1>5, PartsOf
<1>7. parts # << >> /\ Rows(leaves) \in Seq(R)
  BY <1>1, <1>3, EmptySeq, FlattenType
<1>8. leaves[n] \in FullLeaf(R) /\ n \in 1..n /\ DOMAIN leaves = 1..n
  BY <1>1, ElementOfSeq, LenProperties DEF Leaves
<1>9. CASE Last(leaves).used < LeafCapacity
  <2>1. PICK longer : longer = [leaves[n] EXCEPT !.rows = Append(leaves[n].rows, row)]
    OBVIOUS
  <2>2. PICK leaf : leaf = [longer EXCEPT !.used = longer.used + 1]
    OBVIOUS
  <2>3. longer.rows = Append(leaves[n].rows, row) /\ leaf.rows = longer.rows
    BY <1>8, <2>1, <2>2 DEF FullLeaf, Leaf
  <2>4. new = [leaves EXCEPT ![n] = leaf]
    BY <1>1, <1>8, <1>9, <2>1, <2>2 DEF Appended, AppendRow, FullLeaf, Leaf
  <2>5. Len(new) = n /\ new[n] = leaf /\ \A i \in 1..n : i # n => new[i] = leaves[i]
    BY <1>1, <1>4, <1>8, <2>4, LenProperties DEF Leaves
  <2>6. AppendedIn(parts, more, n, row)
    <3>1. Len(more) = n
      BY <1>6, <2>5
    <3>2. more[n] = Append(parts[n], row)
      BY <1>3, <1>6, <1>8, <2>3, <2>5
    <3>3. \A i \in 1..n : i # n => more[i] = parts[i]
      BY <1>3, <1>6, <2>5
    <3>4. \A i \in 1..n : ~ (i > n)
      OBVIOUS
    <3> QED BY <1>3, <1>8, <3>1, <3>2, <3>3, <3>4 DEF AppendedIn
  <2> QED BY <1>3, <1>6, <1>7, <2>6, FlattenAppend
<1>10. CASE ~ (Last(leaves).used < LeafCapacity)
  <2>1. PICK leaf : leaf = [rows |-> <<row>>, used |-> 1]
    OBVIOUS
  <2>2. new = Append(leaves, leaf)
    BY <1>10, <2>1 DEF Appended, AppendRow
  <2>3. PICK w \in Nat : w = n+1
    OBVIOUS
  <2>4. Len(new) = w /\ new[w] = leaf /\ \A i \in 1..n : new[i] = leaves[i]
    <3>1. leaves \in Seq(FullLeaf(R) \union {leaf})
      BY SeqMonotonic DEF Leaves
    <3> QED BY <1>1, <2>2, <2>3, <3>1, AppendProperties
  <2>5. PICK f : Flattens(f, parts, n) /\ FlattenSeq(parts) = f[n]
    BY <1>1, <1>3, FlattenSeqFlattens
  <2>6. PICK g : Flattens(g, more, w) /\ FlattenSeq(more) = g[w]
    BY <1>6, <2>3, <2>4, FlattenSeqFlattens
  <2>7. ASSUME NEW i \in 1..n PROVE more[i] = parts[i]
    <3>1. i \in 1..Len(new)
      BY <2>3, <2>4
    <3>2. more[i] = new[i].rows /\ new[i] = leaves[i]
      BY <1>6, <2>4, <3>1
    <3> QED BY <1>3, <3>2
  <2>8. PICK A : A = {i \in 0..n : i # 0 => g[i] = f[i]}
    OBVIOUS
  <2>9. 0 \in A
    BY <2>8
  <2>10. ASSUME NEW i \in 0..n-1, i \in A PROVE i+1 \in A
    <3>1. PICK k : k = i+1
      OBVIOUS
    <3>2. k \in 1..n /\ k \in 1..w /\ k-1 = i /\ k \in 0..n /\ more[k] = parts[k]
      BY <2>3, <2>7, <3>1
    <3>3. CASE i = 0
      <4>1. n # 0 /\ w # 0
        BY <1>1, <2>3
      <4>2. f[1] = parts[1]
        BY <2>5, <4>1, FlattensFirst
      <4>3. g[1] = more[1]
        BY <2>6, <4>1, FlattensFirst
      <4>4. k = 1
        BY <3>1, <3>3
      <4> QED BY <2>8, <3>1, <3>2, <4>2, <4>3, <4>4
    <3>4. CASE i # 0
      <4>1. k # 1 /\ Flattens(f, parts, n) /\ Flattens(g, more, w)
        BY <2>5, <2>6, <3>1, <3>4
      <4>2. f[k] = f[k-1] \o parts[k] /\ g[k] = g[k-1] \o more[k]
        BY <3>2, <4>1, FlattensNext
      <4>3. g[i] = f[i]
        BY <2>8, <2>10, <3>4
      <4> QED BY <2>8, <3>1, <3>2, <4>2, <4>3
    <3> QED BY <3>3, <3>4
  <2>11. 0..n \subseteq A
    BY <2>9, <2>10, UpTo
  <2>12. g[n] = f[n]
    <3>1. n \in A
      BY <2>11
    <3> QED BY <1>1, <2>8, <3>1
  <2>13. g[w] = g[n] \o more[w]
    <3>1. w \in 1..w /\ w # 1 /\ w-1 = n
      BY <1>1, <2>3
    <3>2. g[w] = g[w-1] \o more[w]
      BY <2>6, <3>1, FlattensNext
    <3> QED BY <3>1, <3>2
  <2>14. more[w] = <<row>>
    <3>1. w \in 1..Len(new)
      BY <2>3, <2>4
    <3> QED BY <1>6, <2>1, <2>4, <3>1
  <2>15. Append(Rows(leaves), row) = Rows(leaves) \o <<row>>
    BY <1>7, AppendIsConcat
  <2> QED BY <1>3, <1>6, <1>7, <2>5, <2>6, <2>12, <2>13, <2>14, <2>15
<1> QED BY <1>9, <1>10

-----------------------------------------------------------------------------
(* What they do to the columns found for each table.                        *)

LEMMA AboutJoined ==
  ASSUME NEW R, NEW s \in Seq(R), NEW t \in Seq(R), NEW rows, Joined(rows, s, t), NEW name
  PROVE  Joined(RowsAbout(rows, name), RowsAbout(s, name), RowsAbout(t, name))
<1>1. \A u, v \in Seq(R) : RowsAbout(u \o v, name) = RowsAbout(u, name) \o RowsAbout(v, name)
  BY AboutConcat
<1> QED BY <1>1 DEF Joined

LEMMA AboutBetween ==
  ASSUME NEW R, NEW front \in Seq(R), NEW row \in R, NEW back \in Seq(R),
         NEW rows, Between(rows, front, row, back), NEW name
  PROVE  IF row.table = name
         THEN Between(RowsAbout(rows, name), RowsAbout(front, name), row, RowsAbout(back, name))
         ELSE Joined(RowsAbout(rows, name), RowsAbout(front, name), RowsAbout(back, name))
<1>1. RowsAbout(Append(front, row) \o back, name) =
        IF row.table = name
        THEN Append(RowsAbout(front, name), row) \o RowsAbout(back, name)
        ELSE RowsAbout(front, name) \o RowsAbout(back, name)
  BY AboutMiddle
<1> QED BY <1>1 DEF Between, Joined

LEMMA NamesType ==
  ASSUME NEW R, NEW rows \in Seq(R), NEW C, \A r \in R : r.column \in C
  PROVE  /\ NamesOf(rows) \in Seq(C) /\ Len(NamesOf(rows)) = Len(rows)
         /\ \A i \in 1..Len(rows) : NamesOf(rows)[i] = rows[i].column
<1>1. PICK n \in Nat : n = Len(rows)
  BY LenProperties
<1>2. DOMAIN rows = 1..n /\ \A i \in 1..n : rows[i] \in R
  BY <1>1, LenProperties, ElementOfSeq
<1>3. PICK names : names = [i \in 1..n |-> rows[i].column]
  OBVIOUS
<1>4. names \in [1..n -> C]
  BY <1>2, <1>3
<1>5. names \in Seq(C) /\ Len(names) = n
  BY <1>4, LenProperties, SeqDef
<1>6. NamesOf(rows) = names
  BY <1>2, <1>3 DEF NamesOf
<1> QED BY <1>1, <1>3, <1>5, <1>6

LEMMA InfoJoined ==
  ASSUME NEW R, NEW s \in Seq(R), NEW t \in Seq(R), NEW rows, Joined(rows, s, t)
  PROVE  Joined(InfoOf(rows), InfoOf(s), InfoOf(t))
<1>1. PICK I : I = {Seen(r) : r \in R}
  OBVIOUS
<1>2. \A r \in R : Seen(r) \in I
  BY <1>1
<1>3. PICK a \in Nat : a = Len(s)
  BY LenProperties
<1>4. PICK b \in Nat : b = Len(t)
  BY LenProperties
<1>5. PICK n \in Nat : n = a+b
  OBVIOUS
<1>6. /\ rows \in Seq(R) /\ Len(rows) = n
      /\ \A i \in 1..n : rows[i] = IF i <= a THEN s[i] ELSE t[i-a]
  BY <1>5, <1>3, <1>4, ConcatProperties DEF Joined
<1>7. PICK p \in Seq(I) : p = InfoOf(s) /\ Len(p) = a /\ \A i \in 1..a : p[i] = Seen(s[i])
  BY <1>2, <1>3, InfoType
<1>8. PICK q \in Seq(I) : q = InfoOf(t) /\ Len(q) = b /\ \A i \in 1..b : q[i] = Seen(t[i])
  BY <1>2, <1>4, InfoType
<1>9. PICK r \in Seq(I) : r = InfoOf(rows) /\ Len(r) = n /\ \A i \in 1..n : r[i] = Seen(rows[i])
  BY <1>2, <1>6, InfoType
<1>10. PICK u \in Seq(I) : /\ u = p \o q /\ Len(u) = n
                           /\ \A i \in 1..n : u[i] = IF i <= a THEN p[i] ELSE q[i-a]
  <2>1. PICK u : u = p \o q
    OBVIOUS
  <2>2. /\ u \in Seq(I) /\ Len(u) = Len(p) + Len(q)
        /\ \A i \in 1..Len(p)+Len(q) : u[i] = IF i <= Len(p) THEN p[i] ELSE q[i-Len(p)]
    BY <2>1, ConcatProperties
  <2>3. Len(p) = a /\ Len(q) = b
    BY <1>7, <1>8
  <2> QED BY <1>5, <2>1, <2>2, <2>3
<1>11. ASSUME NEW i \in 1..n PROVE r[i] = u[i]
  <2>1. CASE i <= a
    <3>1. i \in 1..a
      BY <2>1
    <3> QED BY <1>6, <1>7, <1>9, <1>10, <2>1, <3>1
  <2>2. CASE ~ (i <= a)
    <3>1. i-a \in 1..b
      BY <1>5, <2>2
    <3> QED BY <1>6, <1>8, <1>9, <1>10, <2>2, <3>1
  <2> QED BY <2>1, <2>2
<1>12. r = u
  BY <1>9, <1>10, <1>11, SeqEqual
<1> QED BY <1>7, <1>8, <1>9, <1>10, <1>12 DEF Joined

LEMMA NamesJoined ==
  ASSUME NEW R, NEW s \in Seq(R), NEW t \in Seq(R), NEW rows, Joined(rows, s, t)
  PROVE  Joined(NamesOf(rows), NamesOf(s), NamesOf(t))
<1>1. PICK I : I = {r.column : r \in R}
  OBVIOUS
<1>2. \A r \in R : r.column \in I
  BY <1>1
<1>3. PICK a \in Nat : a = Len(s)
  BY LenProperties
<1>4. PICK b \in Nat : b = Len(t)
  BY LenProperties
<1>5. PICK n \in Nat : n = a+b
  OBVIOUS
<1>6. /\ rows \in Seq(R) /\ Len(rows) = n
      /\ \A i \in 1..n : rows[i] = IF i <= a THEN s[i] ELSE t[i-a]
  BY <1>5, <1>3, <1>4, ConcatProperties DEF Joined
<1>7. PICK p \in Seq(I) : p = NamesOf(s) /\ Len(p) = a /\ \A i \in 1..a : p[i] = s[i].column
  BY <1>2, <1>3, NamesType
<1>8. PICK q \in Seq(I) : q = NamesOf(t) /\ Len(q) = b /\ \A i \in 1..b : q[i] = t[i].column
  BY <1>2, <1>4, NamesType
<1>9. PICK r \in Seq(I) : r = NamesOf(rows) /\ Len(r) = n /\ \A i \in 1..n : r[i] = rows[i].column
  BY <1>2, <1>6, NamesType
<1>10. PICK u \in Seq(I) : /\ u = p \o q /\ Len(u) = n
                           /\ \A i \in 1..n : u[i] = IF i <= a THEN p[i] ELSE q[i-a]
  <2>1. PICK u : u = p \o q
    OBVIOUS
  <2>2. /\ u \in Seq(I) /\ Len(u) = Len(p) + Len(q)
        /\ \A i \in 1..Len(p)+Len(q) : u[i] = IF i <= Len(p) THEN p[i] ELSE q[i-Len(p)]
    BY <2>1, ConcatProperties
  <2>3. Len(p) = a /\ Len(q) = b
    BY <1>7, <1>8
  <2> QED BY <1>5, <2>1, <2>2, <2>3
<1>11. ASSUME NEW i \in 1..n PROVE r[i] = u[i]
  <2>1. CASE i <= a
    <3>1. i \in 1..a
      BY <2>1
    <3> QED BY <1>6, <1>7, <1>9, <1>10, <2>1, <3>1
  <2>2. CASE ~ (i <= a)
    <3>1. i-a \in 1..b
      BY <1>5, <2>2
    <3> QED BY <1>6, <1>8, <1>9, <1>10, <2>2, <3>1
  <2> QED BY <2>1, <2>2
<1>12. r = u
  BY <1>9, <1>10, <1>11, SeqEqual
<1> QED BY <1>7, <1>8, <1>9, <1>10, <1>12 DEF Joined

LEMMA InfoOne ==
  /\ InfoOf(<< >>) = << >> /\ NamesOf(<< >>) = << >>
  /\ \A e : InfoOf(<<e>>) = <<Seen(e)>> /\ NamesOf(<<e>>) = <<e.column>>
<1>1. InfoOf(<< >>) = << >> /\ NamesOf(<< >>) = << >>
  BY DEF InfoOf, NamesOf
<1>2. ASSUME NEW e PROVE InfoOf(<<e>>) = <<Seen(e)>> /\ NamesOf(<<e>>) = <<e.column>>
  BY DEF InfoOf, NamesOf
<1> QED BY <1>1, <1>2

LEMMA InfoAdded ==
  ASSUME NEW R, NEW s \in Seq(R), NEW e \in R
  PROVE  InfoOf(Append(s, e)) = Append(InfoOf(s), Seen(e))
<1>1. Append(s, e) = s \o <<e>> /\ <<e>> \in Seq(R)
  BY AppendIsConcat
<1>2. Joined(Append(s, e), s, <<e>>)
  BY <1>1 DEF Joined
<1>3. Joined(InfoOf(Append(s, e)), InfoOf(s), InfoOf(<<e>>))
  BY <1>1, <1>2, InfoJoined
<1>4. PICK I : I = {Seen(r) : r \in R}
  OBVIOUS
<1>5. \A r \in R : Seen(r) \in I
  BY <1>4
<1>6. InfoOf(s) \in Seq(I) /\ Seen(e) \in I
  BY <1>5, InfoType
<1>7. Append(InfoOf(s), Seen(e)) = InfoOf(s) \o <<Seen(e)>>
  BY <1>6, AppendIsConcat
<1> QED BY <1>3, <1>7, InfoOne DEF Joined

LEMMA InfoBetween ==
  ASSUME NEW R, NEW front \in Seq(R), NEW row \in R, NEW back \in Seq(R),
         NEW rows, Between(rows, front, row, back)
  PROVE  Between(InfoOf(rows), InfoOf(front), Seen(row), InfoOf(back))
<1>1. PICK one \in Seq(R) : one = Append(front, row)
  BY AppendProperties
<1>2. Joined(rows, one, back)
  BY <1>1 DEF Between
<1>3. Joined(InfoOf(rows), InfoOf(one), InfoOf(back))
  BY <1>2, InfoJoined
<1>4. InfoOf(one) = Append(InfoOf(front), Seen(row))
  BY <1>1, InfoAdded
<1> QED BY <1>3, <1>4 DEF Between

(* The columns found for a table where a row was appended.                 *)
Grows(info, more, row, name) ==
  /\ row.table = name => Joined(more, info, <<Seen(row)>>)
  /\ row.table # name => more = info

LEMMA InfoAppended ==
  ASSUME NEW R, NEW leaves \in Leaves(R), leaves # << >>, NEW row \in R,
         NEW new, Appended(leaves, new, row), NEW name
  PROVE  Grows(Info(leaves, name), Info(new, name), row, name)
<1>1. PICK rows \in Seq(R) : rows = Rows(leaves)
  BY RowsAppended
<1>2. PICK one \in Seq(R) : one = <<row>>
  <2>1. <<row>> \in Seq(R)
    OBVIOUS
  <2> QED BY <2>1
<1>3. Rows(new) = Append(rows, row)
  BY <1>1, RowsAppended
<1>4. Joined(Rows(new), rows, one)
  BY <1>2, <1>3, AppendIsConcat DEF Joined
<1>5. Joined(RowsAbout(Rows(new), name), RowsAbout(rows, name), RowsAbout(one, name))
  BY <1>4, AboutJoined
<1>6. RowsAbout(one, name) = IF row.table = name THEN <<row>> ELSE << >>
  BY <1>2, AboutOne
<1>7. RowsAbout(rows, name) \in Seq(R) /\ RowsAbout(one, name) \in Seq(R)
  BY AboutType
<1>8. Joined(Info(new, name), Info(leaves, name), InfoOf(RowsAbout(one, name)))
  BY <1>1, <1>5, <1>7, InfoJoined DEF Info
<1>9. CASE row.table = name
  BY <1>6, <1>8, <1>9, InfoOne DEF Grows
<1>10. CASE row.table # name
  <2>1. RowsAbout(Rows(new), name) = RowsAbout(rows, name) \o << >>
    BY <1>5, <1>6, <1>10 DEF Joined
  <2>2. RowsAbout(Rows(new), name) = RowsAbout(rows, name)
    BY <1>7, <2>1, ConcatEmptySeq
  <2> QED BY <1>1, <1>10, <2>2 DEF Grows, Info
<1> QED BY <1>9, <1>10

(* And where the first row about it was deleted.                           *)
LEMMA InfoDeleted ==
  ASSUME NEW R, NEW leaves \in Leaves(R), NEW l \in 1..Len(leaves),
         NEW i \in 1..Len(leaves[l].rows), NEW name, leaves[l].rows[i].table = name,
         AllBefore(leaves, l, i, {r \in R : r.table # name}),
         NEW new, Deleted(leaves, new, l, i)
  PROVE  /\ Joined(Info(leaves, name), <<Seen(leaves[l].rows[i])>>, Info(new, name))
         /\ \A other : other # name => Info(new, other) = Info(leaves, other)
<1>1. PICK T : T = {r \in R : r.table # name}
  OBVIOUS
<1>2. T \subseteq R /\ AllBefore(leaves, l, i, T)
  BY <1>1
<1>3. PICK front \in Seq(T), back \in Seq(R) :
        /\ front \in Seq(R) /\ leaves[l].rows[i] \in R
        /\ Between(Rows(leaves), front, leaves[l].rows[i], back)
        /\ Joined(Rows(new), front, back)
  BY <1>2, RowTakenOut
<1>4. PICK row \in R : row = leaves[l].rows[i] /\ row.table = name
  BY <1>3
<1>5. Between(Rows(leaves), front, row, back)
  BY <1>3, <1>4
<1>6. ASSUME NEW other, other # name PROVE Info(new, other) = Info(leaves, other)
  <2>1. Joined(RowsAbout(Rows(leaves), other), RowsAbout(front, other), RowsAbout(back, other))
    BY <1>3, <1>4, <1>5, <1>6, AboutBetween
  <2>2. Joined(RowsAbout(Rows(new), other), RowsAbout(front, other), RowsAbout(back, other))
    BY <1>3, AboutJoined
  <2> QED BY <2>1, <2>2 DEF Joined, Info
<1>7. RowsAbout(front, name) = << >> /\ RowsAbout(back, name) \in Seq(R)
  <2>1. \A r \in T : r.table # name
    BY <1>1
  <2> QED BY <1>3, <2>1, AboutNone, AboutType
<1>8. Between(RowsAbout(Rows(leaves), name), << >>, row, RowsAbout(back, name))
  BY <1>3, <1>4, <1>5, <1>7, AboutBetween
<1>9. Joined(RowsAbout(Rows(new), name), << >>, RowsAbout(back, name))
  BY <1>3, <1>7, AboutJoined
<1>10. RowsAbout(Rows(new), name) = RowsAbout(back, name)
  BY <1>7, <1>9, ConcatEmptySeq DEF Joined
<1>11. Joined(RowsAbout(Rows(leaves), name), <<row>>, RowsAbout(back, name))
  <2>1. Append(<< >>, row) = <<row>>
    OBVIOUS
  <2> QED BY <1>8, <2>1 DEF Between
<1>12. Joined(Info(leaves, name), InfoOf(<<row>>), InfoOf(RowsAbout(back, name)))
  <2>1. <<row>> \in Seq(R)
    OBVIOUS
  <2> QED BY <1>7, <1>11, <2>1, InfoJoined DEF Info
<1>13. Joined(Info(leaves, name), <<Seen(row)>>, Info(new, name))
  BY <1>10, <1>12, InfoOne DEF Info
<1> QED BY <1>4, <1>6, <1>13

(* And where a row was changed but not the table it is about.              *)
Exchanged(R, info, more, U, e, d) ==
  \E first \in Seq(U), last \in Seq(R) :
    /\ first \in Seq(R) /\ e \in R
    /\ Between(info, InfoOf(first), Seen(e), InfoOf(last))
    /\ Between(more, InfoOf(first), Seen(d), InfoOf(last))

OthersKeep(leaves, new, name) == \A other : other # name => Info(new, other) = Info(leaves, other)
RowsIn(T, R, name, U) == T \subseteq R /\ \A r \in T : r.table = name => r \in U

LEMMA InfoExchanged ==
  ASSUME NEW R, NEW leaves \in Leaves(R), NEW l \in 1..Len(leaves),
         NEW i \in 1..Len(leaves[l].rows), NEW name, leaves[l].rows[i].table = name,
         NEW U, NEW T, RowsIn(T, R, name, U), AllBefore(leaves, l, i, T),
         NEW d \in R, d.table = name,
         NEW new, RowBecomes(leaves, new, l, i, d)
  PROVE  /\ Exchanged(R, Info(leaves, name), Info(new, name), U, leaves[l].rows[i], d)
         /\ OthersKeep(leaves, new, name)
<1>1. T \subseteq R
  BY DEF RowsIn
<1>2. PICK front \in Seq(T), back \in Seq(R) :
        /\ front \in Seq(R) /\ leaves[l].rows[i] \in R
        /\ Between(Rows(leaves), front, leaves[l].rows[i], back)
        /\ Between(Rows(new), front, d, back)
  BY <1>1, RowExchanged
<1>3. PICK row \in R : row = leaves[l].rows[i] /\ row.table = name
  BY <1>2
<1>4. Between(Rows(leaves), front, row, back)
  BY <1>2, <1>3
<1>5. ASSUME NEW other, other # name PROVE Info(new, other) = Info(leaves, other)
  <2>1. Joined(RowsAbout(Rows(leaves), other), RowsAbout(front, other), RowsAbout(back, other))
    BY <1>2, <1>3, <1>4, <1>5, AboutBetween
  <2>2. Joined(RowsAbout(Rows(new), other), RowsAbout(front, other), RowsAbout(back, other))
    BY <1>2, <1>5, AboutBetween
  <2> QED BY <2>1, <2>2 DEF Joined, Info
<1>6. PICK first : first = RowsAbout(front, name)
  OBVIOUS
<1>7. PICK last : last = RowsAbout(back, name)
  OBVIOUS
<1>8. first \in Seq(U) /\ first \in Seq(R) /\ last \in Seq(R)
  <2>1. \A r \in T : r.table = name => r \in U
    BY DEF RowsIn
  <2> QED BY <1>2, <1>6, <1>7, <2>1, AboutType
<1>9. Between(RowsAbout(Rows(leaves), name), first, row, last)
  BY <1>2, <1>3, <1>4, <1>6, <1>7, AboutBetween
<1>10. Between(RowsAbout(Rows(new), name), first, d, last)
  BY <1>2, <1>6, <1>7, AboutBetween
<1>11. /\ Between(Info(leaves, name), InfoOf(first), Seen(row), InfoOf(last))
       /\ Between(Info(new, name), InfoOf(first), Seen(d), InfoOf(last))
  BY <1>8, <1>9, <1>10, InfoBetween DEF Info
<1>12. Exchanged(R, Info(leaves, name), Info(new, name), U, row, d)
  BY <1>8, <1>11 DEF Exchanged
<1> QED BY <1>3, <1>5, <1>12 DEF OthersKeep

LEMMA EmptyInfo ==
  ASSUME NEW R, NEW leaves \in Leaves(R), NEW name, At(leaves, name) = {}
  PROVE  Info(leaves, name) = << >>
<1>1. PICK T : T = {r \in R : r.table # name}
  OBVIOUS
<1>2. ASSUME NEW l \in 1..Len(leaves) PROVE leaves[l].rows \in Seq(T)
  <2>1. PICK n \in Nat : n = Len(leaves[l].rows)
    <3>1. leaves[l].rows \in Seq(R)
      BY PartsOf
    <3> QED BY <3>1, LenProperties
  <2>2. leaves[l].rows \in Seq(R)
    BY PartsOf
  <2>3. ASSUME NEW i \in 1..n PROVE leaves[l].rows[i] \in T
    <3>1. leaves[l].rows[i] \in R
      BY <2>1, <2>2, <2>3, ElementOfSeq
    <3>2. ~ RowAt(leaves, name, l, i)
      <4>1. <<l, i>> \in At(leaves, name) <=> RowAt(leaves, name, l, i)
        BY Places
      <4> QED BY <4>1
    <3> QED BY <1>1, <2>1, <3>1, <3>2 DEF RowAt
  <2>4. leaves[l].rows \in [1..n -> T]
    <3>1. leaves[l].rows \in [1..n -> R]
      BY <2>1, <2>2, LenProperties
    <3> QED BY <2>3, <3>1
  <2> QED BY <2>4, SeqDef
<1>3. Rows(leaves) \in Seq(T)
  BY <1>2, RowsType
<1>4. RowsAbout(Rows(leaves), name) = << >>
  <2>1. \A r \in T : r.table # name
    BY <1>1
  <2> QED BY <1>3, <2>1, AboutNone
<1> QED BY <1>4, InfoOne DEF Info

Earlier(k, j, l, i) == k < l \/ (k = l /\ j < i)

LEMMA BeforePlace ==
  ASSUME NEW R, NEW leaves \in Leaves(R), NEW l \in 1..Len(leaves),
         NEW i \in 1..Len(leaves[l].rows), NEW T,
         \A k \in 1..Len(leaves) : \A j \in 1..Len(leaves[k].rows) :
           Earlier(k, j, l, i) => leaves[k].rows[j] \in T
  PROVE  AllBefore(leaves, l, i, T)
<1>1. PICK n \in Nat : n = Len(leaves)
  BY LenProperties DEF Leaves
<1>2. l \in Nat /\ l <= n /\ l \in 1..n
  BY <1>1
<1>3. ASSUME NEW k \in 1..l-1 PROVE leaves[k].rows \in Seq(T)
  <2>1. k \in 1..n /\ k < l
    BY <1>2
  <2>2. leaves[k].rows \in Seq(R)
    BY <1>1, <2>1, PartsOf
  <2>3. PICK m \in Nat : m = Len(leaves[k].rows)
    BY <2>2, LenProperties
  <2>4. \A j \in 1..m : leaves[k].rows[j] \in T
    BY <1>1, <2>1, <2>3 DEF Earlier
  <2>5. leaves[k].rows \in [1..m -> T]
    <3>1. leaves[k].rows \in [1..m -> R]
      BY <2>2, <2>3, LenProperties
    <3> QED BY <2>4, <3>1
  <2> QED BY <2>5, SeqDef
<1>4. ASSUME NEW j \in 1..i-1 PROVE leaves[l].rows[j] \in T
  <2>1. leaves[l].rows \in Seq(R)
    BY PartsOf
  <2>2. PICK m \in Nat : m = Len(leaves[l].rows)
    BY <2>1, LenProperties
  <2>3. j \in 1..m /\ j < i
    BY <2>2
  <2>4. Earlier(l, j, l, i)
    BY <2>3 DEF Earlier
  <2> QED BY <1>1, <1>2, <2>2, <2>3, <2>4
<1> QED BY <1>3, <1>4 DEF AllBefore

Loses(leaves, new, name) ==
  /\ \E e : Joined(Info(leaves, name), <<e>>, Info(new, name))
  /\ \A other : other # name => Info(new, other) = Info(leaves, other)

LEMMA InfoLost ==
  ASSUME NEW R, NEW leaves \in Leaves(R), NEW name, NEW place \in At(leaves, name),
         Ahead(leaves, name, place), NEW new, DeletedAt(leaves, new, place)
  PROVE  Loses(leaves, new, name)
<1>1. PICK l, i : place = <<l, i>>
  BY Places
<1>2. RowAt(leaves, name, l, i) /\ l \in Nat /\ i \in Nat
  BY <1>1, Places
<1>3. l \in 1..Len(leaves) /\ i \in 1..Len(leaves[l].rows) /\ leaves[l].rows[i].table = name
  BY <1>2 DEF RowAt
<1>4. Deleted(leaves, new, l, i)
  BY <1>1 DEF Deleted, DeletedAt
<1>5. PICK T : T = {r \in R : r.table # name}
  OBVIOUS
<1>6. ASSUME NEW k \in 1..Len(leaves), NEW j \in 1..Len(leaves[k].rows), Earlier(k, j, l, i)
      PROVE  leaves[k].rows[j] \in T
  <2>1. leaves[k].rows \in Seq(R)
    BY PartsOf
  <2>2. leaves[k].rows[j] \in R
    BY <2>1, ElementOfSeq
  <2>3. leaves[k].rows[j].table # name
    <3>1. SUFFICES ASSUME leaves[k].rows[j].table = name PROVE FALSE
      OBVIOUS
    <3>2. RowAt(leaves, name, k, j)
      BY <3>1 DEF RowAt
    <3>3. <<k, j>> \in At(leaves, name)
      BY <3>2, Places
    <3>4. Before(<<l, i>>, <<k, j>>)
      BY <1>1, <3>3 DEF Ahead
    <3>5. l < k \/ (l = k /\ i <= j)
      BY <3>4 DEF Before
    <3>6. k \in Nat /\ j \in Nat
      OBVIOUS
    <3> QED BY <1>2, <1>6, <3>5, <3>6 DEF Earlier
  <2> QED BY <1>5, <2>2, <2>3
<1>7. AllBefore(leaves, l, i, T)
  BY <1>3, <1>6, BeforePlace
<1>8. /\ Joined(Info(leaves, name), <<Seen(leaves[l].rows[i])>>, Info(new, name))
      /\ \A other : other # name => Info(new, other) = Info(leaves, other)
  BY <1>3, <1>4, <1>5, <1>7, InfoDeleted
<1> QED BY <1>8 DEF Loses

InfoRow == [column : Columns \union STRING, unique : BOOLEAN]

Marked(info, more, column) ==
  \E first \in Seq({e \in InfoRow : e.column # column}), e \in InfoRow, last \in Seq(InfoRow) :
    /\ e.column = column
    /\ Between(info, first, e, last)
    /\ Between(more, first, [column |-> column, unique |-> TRUE], last)

PlacesOf(leaves, name, column, places) ==
  places = {at \in At(leaves, name) : leaves[at[1]].rows[at[2]].column = column}

LEMMA InfoMarked ==
  ASSUME NEW leaves \in Leaves(ColumnRow), NEW name, NEW column, NEW places,
         PlacesOf(leaves, name, column, places),
         places # {}, NEW new, IndexMade(leaves, new, First(places))
  PROVE  /\ Marked(Info(leaves, name), Info(new, name), column)
         /\ OthersKeep(leaves, new, name)
<1>1. PICK first : first = First(places)
  OBVIOUS
<1>2. /\ first \in places
      /\ first[1] \in 1..Len(leaves) /\ first[2] \in 1..Len(leaves[first[1]].rows)
      /\ leaves[first[1]].rows[first[2]] \in ColumnRow
      /\ leaves[first[1]].rows[first[2]].table = name
      /\ \A other \in places : Before(first, other)
  <2>1. places \subseteq At(leaves, name)
    BY DEF PlacesOf
  <2> QED BY <1>1, <2>1, FirstRow
<1>3. PICK l : l = first[1]
  OBVIOUS
<1>4. PICK i : i = first[2]
  OBVIOUS
<1>5. /\ l \in 1..Len(leaves) /\ i \in 1..Len(leaves[l].rows)
      /\ leaves[l].rows[i] \in ColumnRow /\ leaves[l].rows[i].table = name
      /\ leaves[l].rows[i].column = column
  BY <1>2, <1>3, <1>4 DEF PlacesOf
<1>6. PICK row \in ColumnRow : row = leaves[l].rows[i]
  BY <1>5
<1>7. PICK d : d = [row EXCEPT !.unique = TRUE]
  OBVIOUS
<1>8. d \in ColumnRow /\ d.table = name /\ Seen(d) = [column |-> column, unique |-> TRUE]
  <2>1. /\ d \in ColumnRow /\ d.table = row.table /\ d.column = row.column /\ d.unique = TRUE
    BY <1>7 DEF ColumnRow
  <2>2. Seen(d) = [column |-> column, unique |-> TRUE]
    BY <1>5, <1>6, <2>1 DEF Seen
  <2> QED BY <1>5, <1>6, <2>1, <2>2
<1>9. RowBecomes(leaves, new, l, i, d)
  <2>1. new = [leaves EXCEPT ![l].rows[i].unique = TRUE]
    BY <1>1, <1>3, <1>4 DEF IndexMade
  <2> QED BY <1>6, <1>7, <2>1 DEF RowBecomes
<1>10. PICK U : U = {r \in ColumnRow : r.column # column}
  OBVIOUS
<1>11. PICK T : T = {r \in ColumnRow : r.table = name => r \in U}
  OBVIOUS
<1>12. ASSUME NEW k \in 1..Len(leaves), NEW j \in 1..Len(leaves[k].rows), Earlier(k, j, l, i)
       PROVE  leaves[k].rows[j] \in T
  <2>1. leaves[k].rows \in Seq(ColumnRow)
    BY PartsOf
  <2>2. leaves[k].rows[j] \in ColumnRow
    BY <2>1, ElementOfSeq
  <2>3. leaves[k].rows[j].table = name => leaves[k].rows[j].column # column
    <3>1. SUFFICES ASSUME leaves[k].rows[j].table = name, leaves[k].rows[j].column = column
                   PROVE  FALSE
      OBVIOUS
    <3>2. RowAt(leaves, name, k, j)
      BY <3>1 DEF RowAt
    <3>3. <<k, j>> \in At(leaves, name)
      BY <3>2, Places
    <3>4. <<k, j>> \in places
      BY <3>1, <3>3 DEF PlacesOf
    <3>5. first[1] < k \/ (first[1] = k /\ first[2] <= j)
      BY <1>2, <3>4 DEF Before
    <3>6. k \in Nat /\ j \in Nat /\ l \in Nat /\ i \in Nat
      BY <1>5
    <3> QED BY <1>3, <1>4, <1>12, <3>5, <3>6 DEF Earlier
  <2> QED BY <1>10, <1>11, <2>2, <2>3
<1>13. AllBefore(leaves, l, i, T)
  BY <1>5, <1>12, BeforePlace
<1>14. RowsIn(T, ColumnRow, name, U)
  BY <1>11 DEF RowsIn
<1>15. /\ Exchanged(ColumnRow, Info(leaves, name), Info(new, name), U, leaves[l].rows[i], d)
       /\ OthersKeep(leaves, new, name)
  BY <1>5, <1>8, <1>9, <1>13, <1>14, InfoExchanged
<1>16. PICK f \in Seq(U), b \in Seq(ColumnRow) :
            /\ Between(Info(leaves, name), InfoOf(f), Seen(leaves[l].rows[i]), InfoOf(b))
            /\ Between(Info(new, name), InfoOf(f), Seen(d), InfoOf(b))
  BY <1>15 DEF Exchanged
<1>17. PICK V : V = {e \in InfoRow : e.column # column}
  OBVIOUS
<1>18. InfoOf(f) \in Seq(V)
  <2>1. \A r \in U : Seen(r) \in V
    BY <1>10, <1>17 DEF ColumnRow, Seen, InfoRow
  <2> QED BY <2>1, InfoType
<1>19. InfoOf(b) \in Seq(InfoRow) /\ Seen(row) \in InfoRow /\ Seen(row).column = column
  <2>1. \A r \in ColumnRow : Seen(r) \in InfoRow
    BY DEF ColumnRow, Seen, InfoRow
  <2>2. InfoOf(b) \in Seq(InfoRow)
    BY <2>1, InfoType
  <2> QED BY <1>5, <1>6, <2>1, <2>2 DEF Seen
<1>20. Marked(Info(leaves, name), Info(new, name), column)
  <2>1. Between(Info(leaves, name), InfoOf(f), Seen(row), InfoOf(b))
    BY <1>6, <1>16
  <2>2. Between(Info(new, name), InfoOf(f), [column |-> column, unique |-> TRUE], InfoOf(b))
    BY <1>8, <1>16
  <2> QED BY <1>17, <1>18, <1>19, <2>1, <2>2 DEF Marked
<1> QED BY <1>15, <1>20

-----------------------------------------------------------------------------
(* Consecutive columns of a definition.                                     *)

ColumnName == Columns \union STRING

LEMMA InfoTyped ==
  ASSUME NEW leaves \in Leaves(ColumnRow), NEW name
  PROVE  Info(leaves, name) \in Seq(InfoRow) /\ NamesOf(Info(leaves, name)) \in Seq(ColumnName)
<1>1. Rows(leaves) \in Seq(ColumnRow)
  BY PartsOf, RowsType
<1>2. RowsAbout(Rows(leaves), name) \in Seq(ColumnRow)
  BY <1>1, AboutType
<1>3. \A r \in ColumnRow : Seen(r) \in InfoRow
  BY DEF ColumnRow, Seen, InfoRow
<1>4. Info(leaves, name) \in Seq(InfoRow)
  BY <1>2, <1>3, InfoType DEF Info
<1>5. \A e \in InfoRow : e.column \in ColumnName
  BY DEF InfoRow, ColumnName
<1> QED BY <1>4, <1>5, NamesType

IsPiece(names, all) == \E from, to \in DOMAIN all : names = SubSeq(all, from, to)

LEMMA BeginningIsPiece ==
  ASSUME NEW S, NEW names \in Seq(S), NEW rest \in Seq(S), names # << >>,
         NEW all, Joined(all, names, rest)
  PROVE  IsPiece(names, all)
<1>1. PICK a \in Nat : a = Len(names) /\ a # 0
  BY EmptySeq, LenProperties
<1>2. PICK b \in Nat : b = Len(rest)
  BY LenProperties
<1>3. PICK n \in Nat : n = a+b
  OBVIOUS
<1>4. /\ all \in Seq(S) /\ Len(all) = n /\ DOMAIN all = 1..n
      /\ \A i \in 1..n : all[i] = IF i <= a THEN names[i] ELSE rest[i-a]
  BY <1>1, <1>2, <1>3, ConcatProperties, LenProperties DEF Joined
<1>5. 1 \in 1..n /\ a \in 1..n
  BY <1>1, <1>3
<1>6. \A i \in 1..a : all[i] \in S
  <2> TAKE i \in 1..a
  <2>1. i \in 1..n
    BY <1>3
  <2> QED BY <1>4, <2>1, ElementOfSeq
<1>7. PICK s : s = SubSeq(all, 1, a)
  OBVIOUS
<1>8. s \in Seq(S) /\ Len(s) = a /\ \A i \in 1..a : s[i] = all[i]
  <2>1. /\ s \in Seq(S) /\ Len(s) = IF 1 <= a THEN a-1+1 ELSE 0
        /\ \A i \in 1..a-1+1 : s[i] = all[1+i-1]
    BY <1>6, <1>7, SubSeqProperties
  <2> QED BY <1>1, <2>1
<1>9. \A i \in 1..a : s[i] = names[i]
  <2> TAKE i \in 1..a
  <2>1. i \in 1..n /\ i <= a
    BY <1>3
  <2> QED BY <1>4, <1>8, <2>1
<1>10. s = names
  BY <1>1, <1>8, <1>9, SeqEqual
<1> QED BY <1>4, <1>5, <1>7, <1>10 DEF IsPiece

LEMMA RestIsPiece ==
  ASSUME NEW S, NEW names, NEW e \in S, NEW rest \in Seq(S), rest # << >>,
         NEW all \in Seq(S), IsPiece(names, all), Joined(names, <<e>>, rest)
  PROVE  IsPiece(rest, all)
<1>1. PICK n \in Nat : n = Len(all) /\ DOMAIN all = 1..n
  BY LenProperties
<1>2. PICK from \in 1..n, to \in 1..n : names = SubSeq(all, from, to)
  BY <1>1 DEF IsPiece
<1>3. PICK b \in Nat : b = Len(rest) /\ b # 0
  BY EmptySeq, LenProperties
<1>4. PICK one \in Seq(S) : one = <<e>> /\ Len(one) = 1
  <2>1. <<e>> \in Seq(S) /\ Len(<<e>>) = 1
    OBVIOUS
  <2> QED BY <2>1
<1>5. /\ names \in Seq(S) /\ Len(names) = 1+b
      /\ \A i \in 1..1+b : names[i] = IF i <= 1 THEN one[i] ELSE rest[i-1]
  <2>1. names = one \o rest
    BY <1>4 DEF Joined
  <2> QED BY <1>3, <1>4, <2>1, ConcatProperties
<1>6. \A i \in from..to : all[i] \in S
  <2> TAKE i \in from..to
  <2>1. i \in 1..n
    OBVIOUS
  <2> QED BY <1>1, <2>1, ElementOfSeq
<1>7. /\ Len(names) = IF from <= to THEN to-from+1 ELSE 0
      /\ \A i \in 1..to-from+1 : names[i] = all[from+i-1]
  BY <1>2, <1>6, SubSeqProperties
<1>8. from <= to /\ to = from+b
  <2>1. PICK m : m = Len(names)
    OBVIOUS
  <2>2. m = 1+b /\ m = IF from <= to THEN to-from+1 ELSE 0
    BY <1>5, <1>7, <2>1
  <2>3. from \in Nat /\ to \in Nat
    OBVIOUS
  <2>4. CASE from <= to
    <3>1. m = to-from+1
      BY <2>2, <2>4
    <3>2. to-from+1 = 1+b
      BY <2>2, <3>1
    <3>3. to = from+b
      BY <2>3, <3>2
    <3> QED BY <2>4, <3>3
  <2>5. CASE ~ (from <= to)
    <3>1. m = 0 /\ m = 1+b
      BY <2>2, <2>5
    <3> QED BY <1>3, <3>1
  <2> QED BY <2>4, <2>5
<1>9. PICK lo \in 1..n : lo = from+1
  BY <1>3, <1>8
<1>10. PICK s : s = SubSeq(all, lo, to)
  OBVIOUS
<1>11. s \in Seq(S) /\ Len(s) = b /\ \A i \in 1..b : s[i] = all[lo+i-1]
  <2>1. \A i \in lo..to : all[i] \in S
    BY <1>6, <1>9
  <2>2. /\ s \in Seq(S) /\ Len(s) = IF lo <= to THEN to-lo+1 ELSE 0
        /\ \A i \in 1..to-lo+1 : s[i] = all[lo+i-1]
    BY <1>10, <2>1, SubSeqProperties
  <2> QED BY <1>3, <1>8, <1>9, <2>2
<1>12. ASSUME NEW i \in 1..b PROVE s[i] = rest[i]
  <2>1. PICK k : k = i+1
    OBVIOUS
  <2>2. k \in 1..1+b /\ ~ (k <= 1) /\ k-1 = i /\ k \in 1..to-from+1 /\ from+k-1 = lo+i-1
    BY <1>8, <1>9, <2>1
  <2>3. names[k] = rest[i]
    BY <1>5, <2>2
  <2>4. names[k] = all[lo+i-1]
    BY <1>7, <2>2
  <2> QED BY <1>11, <2>3, <2>4
<1>13. s = rest
  BY <1>3, <1>11, <1>12, SeqEqual
<1> QED BY <1>1, <1>9, <1>10, <1>13 DEF IsPiece

(* One of the columns that were left has been written.                     *)
LEMMA NamesGrow ==
  ASSUME NEW info \in Seq(InfoRow), NEW e \in InfoRow, NEW more, Joined(more, info, <<e>>),
         NEW left, NEW rest \in Seq(ColumnName), Joined(left, <<e.column>>, rest),
         NEW all, Joined(all, NamesOf(info), left)
  PROVE  Joined(all, NamesOf(more), rest)
<1>1. <<e>> \in Seq(InfoRow)
  OBVIOUS
<1>2. Joined(NamesOf(more), NamesOf(info), NamesOf(<<e>>))
  BY <1>1, NamesJoined
<1>3. NamesOf(<<e>>) = <<e.column>>
  BY InfoOne
<1>4. \A i \in InfoRow : i.column \in ColumnName
  BY DEF InfoRow, ColumnName
<1>5. NamesOf(info) \in Seq(ColumnName)
  BY <1>4, NamesType
<1>6. <<e.column>> \in Seq(ColumnName)
  <2>1. e.column \in ColumnName
    BY <1>4
  <2> QED BY <2>1
<1>7. Joined(NamesOf(more), NamesOf(info), <<e.column>>)
  BY <1>2, <1>3
<1>8. PICK names \in Seq(ColumnName) : names = NamesOf(info)
  BY <1>5
<1>9. PICK one \in Seq(ColumnName) : one = <<e.column>>
  BY <1>6
<1>10. Joined(NamesOf(more), names, one) /\ Joined(left, one, rest) /\ Joined(all, names, left)
  BY <1>7, <1>8, <1>9
<1> QED BY <1>10, JoinLeft
-----------------------------------------------------------------------------
(* The columns that are found for a name, against the ones it was to have. *)

Found(leaves, name) == NamesOf(Info(leaves, name))

PieceOf(leaves, tried, name) ==
  Found(leaves, name) # << >> => name \in DOMAIN tried /\ IsPiece(Found(leaves, name), tried[name])

WritingOf(leaves, tried, name, left) ==
  name \in DOMAIN tried /\ Joined(tried[name], Found(leaves, name), left)

Pieces(leaves, tried) == \A name : PieceOf(leaves, tried, name)

TriedTyped(tried) ==
  \A name \in DOMAIN tried :
    name \in Names \union SchemaTables /\ tried[name] \in Seq(ColumnName)

SameFound(leaves, new) == \A name : Found(new, name) = Found(leaves, name)

(* A row has been added, for the first of the columns that were left.      *)
LEMMA WritingGoesOn ==
  ASSUME NEW leaves \in Leaves(ColumnRow), leaves # << >>, NEW row \in ColumnRow,
         NEW new, Appended(leaves, new, row), NEW tried, NEW name, name = row.table,
         NEW left, WritingOf(leaves, tried, name, left),
         NEW rest \in Seq(ColumnName), Joined(left, <<row.column>>, rest)
  PROVE  WritingOf(new, tried, name, rest)
<1>1. Grows(Info(leaves, name), Info(new, name), row, name)
  BY InfoAppended
<1>2. PICK info \in Seq(InfoRow) : info = Info(leaves, name)
  BY InfoTyped
<1>3. PICK e : e = Seen(row)
  OBVIOUS
<1>4. e \in InfoRow /\ e.column = row.column
  BY <1>3 DEF Seen, InfoRow, ColumnRow
<1>5. Joined(Info(new, name), info, <<e>>)
  BY <1>1, <1>2, <1>3 DEF Grows
<1>6. Joined(left, <<e.column>>, rest)
  BY <1>4
<1>7. Joined(tried[name], NamesOf(info), left)
  BY <1>2 DEF WritingOf, Found
<1>8. Joined(tried[name], NamesOf(Info(new, name)), rest)
  BY <1>4, <1>5, <1>6, <1>7, NamesGrow
<1> QED BY <1>8 DEF WritingOf, Found

LEMMA OthersFound ==
  ASSUME NEW leaves \in Leaves(ColumnRow), leaves # << >>, NEW row \in ColumnRow,
         NEW new, Appended(leaves, new, row), NEW name, name # row.table
  PROVE  Found(new, name) = Found(leaves, name)
<1>1. Grows(Info(leaves, name), Info(new, name), row, name)
  BY InfoAppended
<1> QED BY <1>1 DEF Grows, Found

(* What is being written is the beginning of a definition.                 *)
LEMMA WritingIsPiece ==
  ASSUME NEW leaves \in Leaves(ColumnRow), NEW tried, NEW name,
         NEW left \in Seq(ColumnName), WritingOf(leaves, tried, name, left)
  PROVE  PieceOf(leaves, tried, name)
<1>1. PICK names \in Seq(ColumnName) : names = Found(leaves, name)
  BY InfoTyped DEF Found
<1>2. name \in DOMAIN tried /\ Joined(tried[name], names, left)
  BY <1>1 DEF WritingOf
<1>3. ASSUME names # << >> PROVE IsPiece(names, tried[name])
  BY <1>2, <1>3, BeginningIsPiece
<1> QED BY <1>1, <1>2, <1>3 DEF PieceOf

LEMMA NothingFound ==
  ASSUME NEW leaves \in Leaves(ColumnRow), NEW name, At(leaves, name) = {}
  PROVE  /\ Found(leaves, name) = << >>
         /\ \A tried : PieceOf(leaves, tried, name)
<1>1. Info(leaves, name) = << >>
  BY EmptyInfo
<1>2. Found(leaves, name) = << >>
  BY <1>1, InfoOne DEF Found
<1> QED BY <1>2 DEF PieceOf

(* Where nothing is found, all of a definition is left.                    *)
LEMMA AllIsLeft ==
  ASSUME NEW leaves \in Leaves(ColumnRow), NEW name, At(leaves, name) = {},
         NEW tried, name \in DOMAIN tried, NEW all \in Seq(ColumnName), tried[name] = all
  PROVE  WritingOf(leaves, tried, name, all)
<1>1. Found(leaves, name) = << >>
  BY NothingFound
<1>2. << >> \o all = all
  BY ConcatEmptySeq
<1> QED BY <1>1, <1>2 DEF WritingOf, Joined

(* A row that DROP TABLE deletes is the first about its table.             *)
LEMMA LostIsPiece ==
  ASSUME NEW leaves \in Leaves(ColumnRow), NEW name, NEW place \in At(leaves, name),
         Ahead(leaves, name, place), NEW new \in Leaves(ColumnRow), DeletedAt(leaves, new, place),
         NEW tried, TriedTyped(tried), Pieces(leaves, tried)
  PROVE  Pieces(new, tried)
<1>1. Loses(leaves, new, name)
  BY InfoLost
<1>2. ASSUME NEW other, other # name PROVE PieceOf(new, tried, other)
  <2>1. Info(new, other) = Info(leaves, other)
    BY <1>1, <1>2 DEF Loses
  <2>2. PieceOf(leaves, tried, other)
    BY DEF Pieces
  <2> QED BY <2>1, <2>2 DEF PieceOf, Found
<1>3. PieceOf(new, tried, name)
  <2>1. PICK e : Joined(Info(leaves, name), <<e>>, Info(new, name))
    BY <1>1 DEF Loses
  <2>2. PICK info : info = Info(leaves, name) /\ info \in Seq(InfoRow)
    BY InfoTyped
  <2>3. PICK more : more = Info(new, name) /\ more \in Seq(InfoRow)
    BY InfoTyped
  <2>4. info = <<e>> \o more
    BY <2>1, <2>2, <2>3 DEF Joined
  <2>5. e \in InfoRow
    <3>1. <<e>> \in Seq({e}) /\ Len(<<e>>) = 1 /\ <<e>>[1] = e
      OBVIOUS
    <3>2. more \in Seq(InfoRow \union {e}) /\ <<e>> \in Seq(InfoRow \union {e})
      <4>1. InfoRow \subseteq InfoRow \union {e} /\ {e} \subseteq InfoRow \union {e}
        OBVIOUS
      <4> QED BY <2>3, <3>1, <4>1
    <3>3. PICK one \in Seq(InfoRow \union {e}) : one = <<e>>
      BY <3>2
    <3>4. /\ Len(one \o more) = Len(one) + Len(more)
          /\ \A i \in 1..Len(one)+Len(more) :
               (one \o more)[i] = IF i <= Len(one) THEN one[i] ELSE more[i-Len(one)]
      BY <3>2, <3>3, ConcatProperties
    <3>5. PICK b \in Nat : b = Len(more)
      BY <2>3, LenProperties
    <3>6. Len(info) = 1+b /\ info[1] = e
      <4>1. Len(one) = 1 /\ one[1] = e
        BY <3>1, <3>3
      <4>2. 1 \in 1..1+b /\ 1 <= 1
        BY <3>5
      <4>3. info = one \o more
        BY <2>4, <3>3
      <4> QED BY <3>4, <3>5, <4>1, <4>2, <4>3
    <3>7. 1 \in 1..Len(info)
      BY <3>5, <3>6
    <3>8. info[1] \in InfoRow
      BY <2>2, <3>7, ElementOfSeq
    <3> QED BY <3>6, <3>8
  <2>6. PICK names : names = NamesOf(info)
    OBVIOUS
  <2>7. PICK rest : rest = NamesOf(more) /\ rest \in Seq(ColumnName)
    BY <2>3, InfoTyped
  <2>8. Joined(names, <<e.column>>, rest)
    <3>1. PICK one \in Seq(InfoRow) : one = <<e>>
      <4>1. <<e>> \in Seq(InfoRow)
        BY <2>5
      <4> QED BY <4>1
    <3>2. Joined(info, one, more)
      BY <2>4, <3>1 DEF Joined
    <3>3. Joined(NamesOf(info), NamesOf(one), NamesOf(more))
      BY <2>2, <2>3, <3>1, <3>2, NamesJoined
    <3> QED BY <2>6, <2>7, <3>1, <3>3, InfoOne
  <2>9. SUFFICES ASSUME rest # << >> PROVE name \in DOMAIN tried /\ IsPiece(rest, tried[name])
    BY <2>3, <2>7 DEF PieceOf, Found
  <2>10. names # << >>
    <3>1. names = <<e.column>> \o rest
      BY <2>8 DEF Joined
    <3>2. PICK one \in Seq({e.column} \union ColumnName) : one = <<e.column>> /\ Len(one) = 1
      <4>1. <<e.column>> \in Seq({e.column} \union ColumnName) /\ Len(<<e.column>>) = 1
        OBVIOUS
      <4> QED BY <4>1
    <3>3. rest \in Seq({e.column} \union ColumnName)
      BY <2>7
    <3>4. Len(names) = 1 + Len(rest) /\ Len(rest) \in Nat
      BY <3>1, <3>2, <3>3, ConcatProperties, LenProperties
    <3>5. Len(names) # 0
      BY <3>4
    <3> QED BY <3>5, EmptySeq
  <2>11. PieceOf(leaves, tried, name)
    BY DEF Pieces
  <2>12. name \in DOMAIN tried /\ IsPiece(names, tried[name])
    BY <2>2, <2>6, <2>10, <2>11 DEF PieceOf, Found
  <2>13. tried[name] \in Seq(ColumnName)
    BY <2>12 DEF TriedTyped
  <2>14. e.column \in ColumnName
    BY <2>5 DEF InfoRow, ColumnName
  <2>15. IsPiece(rest, tried[name])
    BY <2>7, <2>8, <2>9, <2>12, <2>13, <2>14, RestIsPiece
  <2> QED BY <2>12, <2>15
<1> QED BY <1>2, <1>3 DEF Pieces
-----------------------------------------------------------------------------
(* What a bootstrap has left to write for each of the two tables.          *)

LEMMA AboutAll ==
  ASSUME NEW R, NEW rows \in Seq(R), NEW name, \A r \in R : r.table = name
  PROVE  RowsAbout(rows, name) = rows
<1>1. PICK n \in Nat : n = Len(rows)
  BY LenProperties
<1>2. PICK f : Finds(f, rows, name, n) /\ RowsAbout(rows, name) = f[n]
  BY <1>1, AboutFinds
<1>3. Finds(f, rows, name, n)
  BY <1>2
<1>4. PICK A : A = {i \in 0..n : f[i] = SubSeq(rows, 1, i)}
  OBVIOUS
<1>5. 0 \in A
  <2>1. f[0] = << >>
    BY <1>3, FindsFirst
  <2>2. SubSeq(rows, 1, 0) = << >>
    BY SubSeqEmpty
  <2>3. 0 \in 0..n
    OBVIOUS
  <2> QED BY <1>4, <2>1, <2>2, <2>3
<1>6. ASSUME NEW i \in 0..n-1, i \in A PROVE i+1 \in A
  <2>1. PICK k : k = i+1
    OBVIOUS
  <2>2. k \in 1..n /\ k-1 = i /\ k \in 0..n
    BY <2>1
  <2>3. PICK first : first = SubSeq(rows, 1, i)
    OBVIOUS
  <2>4. rows[k] \in R
    BY <1>1, <2>2, ElementOfSeq
  <2>5. FindsAt(f, rows, name, k)
    BY <1>3, <2>2, FindsNext
  <2>6. f[k] = Append(first, rows[k])
    BY <1>4, <1>6, <2>2, <2>3, <2>4, <2>5 DEF FindsAt
  <2>7. first \in Seq(R)
    <3>1. \A j \in 1..i : rows[j] \in R
      <4> TAKE j \in 1..i
      <4>1. j \in 1..Len(rows)
        BY <1>1, <2>2
      <4> QED BY <4>1, ElementOfSeq
    <3>2. i \in Int /\ 1 \in Int
      OBVIOUS
    <3> QED BY <2>3, <3>1, <3>2, SubSeqProperties
  <2>8. SubSeq(rows, 1, k) = first \o <<rows[k]>>
    <3>1. 1 \in 1..Len(rows) /\ k \in 1..Len(rows)
      BY <1>1, <2>2
    <3>2. SubSeq(rows, 1, k) = SubSeq(rows, 1, k-1) \o <<rows[k]>>
      BY <3>1, SubSeqRecursiveSecond
    <3> QED BY <2>2, <2>3, <3>2
  <2>9. Append(first, rows[k]) = first \o <<rows[k]>>
    BY <2>4, <2>7, AppendIsConcat
  <2> QED BY <1>4, <2>1, <2>2, <2>6, <2>8, <2>9
<1>7. 0..n \subseteq A
  BY <1>5, <1>6, UpTo
<1>8. n \in A
  <2>1. n \in 0..n
    OBVIOUS
  <2> QED BY <1>7, <2>1
<1>9. f[n] = SubSeq(rows, 1, Len(rows))
  BY <1>1, <1>4, <1>8
<1> QED BY <1>2, <1>9, SubSeqFull

Pair == [table : SchemaTables, column : STRING]
LeftOf(left, s) == NamesOf(RowsAbout(left, s))

LEMMA LeftTyped ==
  ASSUME NEW left \in Seq(Pair), NEW s
  PROVE  LeftOf(left, s) \in Seq(ColumnName)
<1>1. RowsAbout(left, s) \in Seq(Pair)
  BY AboutType
<1>2. \A p \in Pair : p.column \in ColumnName
  BY DEF Pair, ColumnName
<1> QED BY <1>1, <1>2, NamesType DEF LeftOf

LEMMA LeftJoined ==
  ASSUME NEW s, NEW first \in Seq(Pair), NEW second \in Seq(Pair), NEW left,
         Joined(left, first, second)
  PROVE  Joined(LeftOf(left, s), LeftOf(first, s), LeftOf(second, s))
<1>1. PICK a \in Seq(Pair) : a = RowsAbout(first, s)
  BY AboutType
<1>2. PICK b \in Seq(Pair) : b = RowsAbout(second, s)
  BY AboutType
<1>3. Joined(RowsAbout(left, s), a, b)
  BY <1>1, <1>2, AboutJoined
<1>4. Joined(NamesOf(RowsAbout(left, s)), NamesOf(a), NamesOf(b))
  BY <1>3, NamesJoined
<1> QED BY <1>1, <1>2, <1>4 DEF LeftOf

LEMMA LeftNext ==
  ASSUME NEW left \in Seq(Pair), left # << >>, NEW s, NEW first, first = Head(left),
         NEW rest, rest = Tail(left)
  PROVE  /\ first.table = s => Joined(LeftOf(left, s), <<first.column>>, LeftOf(rest, s))
         /\ first.table # s => LeftOf(left, s) = LeftOf(rest, s)
<1>1. first \in Pair /\ rest \in Seq(Pair)
  BY HeadTailProperties
<1>2. PICK one \in Seq(Pair) : one = <<first>>
  <2>1. <<first>> \in Seq(Pair)
    BY <1>1
  <2> QED BY <2>1
<1>3. Joined(left, one, rest)
  <2>1. PICK n \in Nat : n = Len(left) /\ n # 0
    BY EmptySeq, LenProperties
  <2>2. 1 \in 1..Len(left) /\ n \in 1..Len(left)
    BY <2>1
  <2>3. SubSeq(left, 1, n) = <<left[1]>> \o SubSeq(left, 2, n)
    <3>1. SubSeq(left, 1, n) = <<left[1]>> \o SubSeq(left, 1+1, n)
      BY <2>2, SubSeqRecursiveFirst
    <3> QED BY <3>1
  <2>4. SubSeq(left, 1, n) = left /\ Head(SubSeq(left, 1, n)) = left[1]
        /\ Tail(SubSeq(left, 1, n)) = SubSeq(left, 2, n)
    <3>1. SubSeq(left, 1, n) = left
      BY <2>1, SubSeqFull
    <3>2. Head(SubSeq(left, 1, n)) = left[1] /\ Tail(SubSeq(left, 1, n)) = SubSeq(left, 1+1, n)
      BY <2>2, HeadTailOfSubSeq
    <3> QED BY <3>1, <3>2
  <2>5. left = <<first>> \o rest
    BY <2>3, <2>4
  <2> QED BY <1>2, <2>5 DEF Joined
<1>4. Joined(LeftOf(left, s), LeftOf(one, s), LeftOf(rest, s))
  BY <1>1, <1>3, LeftJoined
<1>5. LeftOf(one, s) = NamesOf(IF first.table = s THEN <<first>> ELSE << >>)
  BY <1>1, <1>2, AboutOne DEF LeftOf
<1>6. CASE first.table = s
  BY <1>4, <1>5, <1>6, InfoOne
<1>7. CASE first.table # s
  <2>1. LeftOf(one, s) = << >>
    BY <1>5, <1>7, InfoOne
  <2>2. LeftOf(rest, s) \in Seq(ColumnName)
    BY <1>1, LeftTyped
  <2>3. LeftOf(left, s) = << >> \o LeftOf(rest, s)
    BY <1>4, <2>1 DEF Joined
  <2> QED BY <1>7, <2>2, <2>3, ConcatEmptySeq
<1> QED BY <1>6, <1>7

(* What BootstrapTableRow leaves for BootstrapColumnRow.                   *)
LEMMA ColumnsOfTable ==
  ASSUME NEW s \in SchemaTables, NEW of, of = ColumnsOf(s)
  PROVE  /\ of \in Seq(Pair)
         /\ LeftOf(of, s) = SchemaColumns[s]
         /\ \A t : t # s => LeftOf(of, t) = << >>
<1>1. PICK names \in Seq(STRING) : names = SchemaColumns[s]
  BY CatalogAssumption
<1>2. PICK n \in Nat : n = Len(names) /\ DOMAIN names = 1..n
  BY LenProperties
<1>3. \A i \in 1..n : names[i] \in STRING
  BY <1>2, ElementOfSeq
<1>4. of = [i \in 1..n |-> [table |-> s, column |-> names[i]]]
  BY <1>1, <1>2 DEF ColumnsOf
<1>5. PICK P : P = [table : {s}, column : STRING]
  OBVIOUS
<1>6. of \in [1..n -> P]
  BY <1>3, <1>4, <1>5
<1>7. of \in Seq(P)
  <2>1. PICK f : f = of
    OBVIOUS
  <2>2. f \in [1..n -> P]
    BY <1>6, <2>1
  <2>3. f \in Seq(P)
    BY <2>2
  <2> QED BY <2>1, <2>3
<1>8. \A p \in P : p.table = s /\ p.column \in ColumnName
  BY <1>5 DEF ColumnName
<1>9. of \in Seq(Pair)
  <2>1. P \subseteq Pair
    BY <1>5 DEF Pair
  <2> QED BY <1>7, <2>1
<1>10. RowsAbout(of, s) = of
  BY <1>7, <1>8, AboutAll
<1>11. LeftOf(of, s) = SchemaColumns[s]
  <2>1. /\ NamesOf(of) \in Seq(ColumnName) /\ Len(NamesOf(of)) = Len(of)
        /\ \A i \in 1..Len(of) : NamesOf(of)[i] = of[i].column
    BY <1>7, <1>8, NamesType
  <2>2. Len(of) = n
    <3>1. DOMAIN of = 1..n
      BY <1>4
    <3> QED BY <1>7, <3>1, LenProperties
  <2>3. \A i \in 1..n : NamesOf(of)[i] = names[i]
    BY <1>4, <2>1, <2>2
  <2>4. names \in Seq(ColumnName)
    <3>1. \A i \in 1..n : names[i] \in ColumnName
      BY <1>3 DEF ColumnName
    <3>2. names \in [1..n -> STRING]
      BY <1>2, LenProperties
    <3>3. names = [i \in 1..n |-> names[i]]
      BY <3>2
    <3>4. names \in [1..n -> ColumnName]
      BY <3>1, <3>3
    <3> QED BY <3>4
  <2>5. PICK others : others = NamesOf(of)
    OBVIOUS
  <2>6. others = names
    BY <1>2, <2>1, <2>2, <2>3, <2>4, <2>5, SeqEqual
  <2> QED BY <1>1, <1>10, <2>5, <2>6 DEF LeftOf
<1>12. ASSUME NEW t, t # s PROVE LeftOf(of, t) = << >>
  <2>1. \A p \in P : p.table # t
    BY <1>8, <1>12
  <2>2. RowsAbout(of, t) = << >>
    BY <1>7, <2>1, AboutNone
  <2> QED BY <2>2, InfoOne DEF LeftOf
<1> QED BY <1>9, <1>11, <1>12

LEMMA AllColumnsLeft ==
  ASSUME NEW left, left = ColumnsOf("davisbase_tables") \o ColumnsOf("davisbase_columns"),
         NEW s \in SchemaTables
  PROVE  LeftOf(left, s) = SchemaColumns[s]
<1>1. PICK first \in Seq(Pair) : first = ColumnsOf("davisbase_tables")
  BY ColumnsOfTable, SchemaNames
<1>2. PICK second \in Seq(Pair) : second = ColumnsOf("davisbase_columns")
  BY ColumnsOfTable, SchemaNames
<1>3. Joined(left, first, second)
  BY <1>1, <1>2 DEF Joined
<1>4. Joined(LeftOf(left, s), LeftOf(first, s), LeftOf(second, s))
  BY <1>3, LeftJoined
<1>5. PICK names \in Seq(STRING) : names = SchemaColumns[s]
  BY CatalogAssumption
<1>6. names \o << >> = names /\ << >> \o names = names
  BY <1>5, ConcatEmptySeq
<1>7. CASE s = "davisbase_tables"
  <2>1. LeftOf(first, s) = names
    BY <1>1, <1>5, <1>7, ColumnsOfTable
  <2>2. LeftOf(second, s) = << >>
    BY <1>2, <1>7, ColumnsOfTable, SchemaNames
  <2> QED BY <1>4, <1>5, <1>6, <2>1, <2>2 DEF Joined
<1>8. CASE s = "davisbase_columns"
  <2>1. LeftOf(second, s) = names
    BY <1>2, <1>5, <1>8, ColumnsOfTable
  <2>2. LeftOf(first, s) = << >>
    BY <1>1, <1>8, ColumnsOfTable, SchemaNames
  <2> QED BY <1>4, <1>5, <1>6, <2>1, <2>2 DEF Joined
<1> QED BY <1>7, <1>8, SchemaNames
-----------------------------------------------------------------------------
(* The columns found for a name, and those still to be written for it, are *)
(* the ones of the latest CREATE TABLE that named it.                      *)

CreateWrites ==
  /\ pc \in CreatePhases \ {"count_column"} => WritingOf(columns, attempted, op.name, op.columns)
  /\ pc = "count_column" => WritingOf(columns, attempted, op.name, Tail(op.columns))

(* The columns that the bootstrap has come to; a file that is missing when *)
(* it begins has left no row behind.                                       *)
BootstrapWrites ==
  /\ pc \in Unready /\ "davisbase_columns" \notin DOMAIN files => NoRow(columns)
  /\ pc \notin Unready => SchemaTables \subseteq DOMAIN files \union unlinked
  /\ pc = "truncate" /\ op.left # SchemaOrder =>
       /\ At(columns, "davisbase_tables") = {}
       /\ WritingOf(columns, attempted, "davisbase_tables", SchemaColumns["davisbase_tables"])
  /\ pc \in {"write_roots", "bootstrap_tables"} =>
       /\ NoRow(columns)
       /\ \A s \in SchemaTables : WritingOf(columns, attempted, s, SchemaColumns[s])
  /\ pc = "bootstrap_columns" =>
       \A s \in SchemaTables : WritingOf(columns, attempted, s, LeftOf(op.left, s))

ColumnsInv ==
  /\ TriedTyped(attempted)
  /\ Pieces(columns, attempted)
  /\ CreateWrites
  /\ BootstrapWrites

LEMMA PutPieces ==
  ASSUME NEW leaves \in Leaves(ColumnRow), NEW tried, TriedTyped(tried), Pieces(leaves, tried),
         NEW name \in Names \union SchemaTables, At(leaves, name) = {},
         NEW all \in Seq(ColumnName), NEW more, more = Put(tried, name, all)
  PROVE  /\ TriedTyped(more) /\ Pieces(leaves, more) /\ WritingOf(leaves, more, name, all)
         /\ DOMAIN more = DOMAIN tried \union {name} /\ more[name] = all
         /\ \A other \in DOMAIN tried : other # name => more[other] = tried[other]
<1>1. /\ DOMAIN more = DOMAIN tried \union {name} /\ more[name] = all
      /\ \A other \in DOMAIN tried : other # name => more[other] = tried[other]
  BY DEF Put
<1>2. TriedTyped(more)
  BY <1>1 DEF TriedTyped
<1>3. ASSUME NEW other PROVE PieceOf(leaves, more, other)
  <2>1. CASE other = name
    BY <2>1, NothingFound
  <2>2. CASE other # name
    <3>1. PieceOf(leaves, tried, other)
      BY DEF Pieces
    <3> QED BY <1>1, <2>2, <3>1 DEF PieceOf
  <2> QED BY <2>1, <2>2
<1>4. WritingOf(leaves, more, name, all)
  BY <1>1, AllIsLeft
<1>5. Pieces(leaves, more)
  BY <1>3 DEF Pieces
<1> QED BY <1>1, <1>2, <1>4, <1>5

LEMMA StillAllLeft ==
  ASSUME NEW leaves \in Leaves(ColumnRow), NEW name, At(leaves, name) = {},
         NEW tried, NEW all, WritingOf(leaves, tried, name, all),
         NEW new \in Leaves(ColumnRow), At(new, name) = {},
         NEW more, name \in DOMAIN more, more[name] = tried[name]
  PROVE  WritingOf(new, more, name, all)
<1>1. Found(leaves, name) = << >> /\ Found(new, name) = << >>
  BY NothingFound
<1> QED BY <1>1 DEF WritingOf

LEMMA NoRowPieces ==
  ASSUME NEW leaves \in Leaves(ColumnRow), NoRow(leaves), NEW tried
  PROVE  Pieces(leaves, tried)
BY NothingFound DEF Pieces, NoRow

LEMMA SchemaColumnsTyped ==
  \A s \in SchemaTables : SchemaColumns[s] \in Seq(ColumnName)
<1> TAKE s \in SchemaTables
<1>1. PICK names \in Seq(STRING) : names = SchemaColumns[s]
  BY CatalogAssumption
<1>2. PICK n \in Nat : n = Len(names)
  BY LenProperties
<1>3. \A i \in 1..n : names[i] \in ColumnName
  BY <1>2, ElementOfSeq DEF ColumnName
<1>4. names \in [1..n -> STRING]
  BY <1>2, LenProperties
<1>5. names = [i \in 1..n |-> names[i]]
  BY <1>4
<1>6. names \in [1..n -> ColumnName]
  BY <1>3, <1>5
<1> QED BY <1>1, <1>6

LEMMA ColumnsTyped ==
  ASSUME NEW names \in Seq(Columns)
  PROVE  names \in Seq(ColumnName)
<1>1. PICK n \in Nat : n = Len(names)
  BY LenProperties
<1>2. \A i \in 1..n : names[i] \in ColumnName
  BY <1>1, ElementOfSeq DEF ColumnName
<1>3. names \in [1..n -> Columns]
  BY <1>1, LenProperties
<1>4. names = [i \in 1..n |-> names[i]]
  BY <1>3
<1>5. names \in [1..n -> ColumnName]
  BY <1>2, <1>4
<1> QED BY <1>5

(* A step that no column row is written or deleted by.                     *)
LEMMA SameColumns ==
  ASSUME ColumnsInv, columns' = columns, attempted' = attempted
  PROVE  TriedTyped(attempted') /\ Pieces(columns', attempted')
BY DEF ColumnsInv

LEMMA ColumnsInit == Init => ColumnsInv
<1> SUFFICES ASSUME Init PROVE ColumnsInv
  OBVIOUS
<1>1. columns = << >> /\ attempted = << >>
  BY SchemaNames DEF Init, columns
<1>2. columns \in Leaves(ColumnRow) /\ NoRow(columns)
  BY <1>1, NoRows DEF NoRow
<1>3. Pieces(columns, attempted)
  BY <1>2, NoRowPieces
<1>4. DOMAIN attempted = {}
  BY <1>1
<1>5. TriedTyped(attempted)
  BY <1>4 DEF TriedTyped
<1>6. CreateWrites /\ BootstrapWrites
  BY <1>2 DEF Init, CreateWrites, CreatePhases, BootstrapWrites, Unready
<1> QED BY <1>3, <1>5, <1>6 DEF ColumnsInv

(* The first steps of a start.                                             *)
LEMMA StartsColumns ==
  ASSUME CatalogInv, ColumnsInv, OpenExisting \/ BeginBootstrap
  PROVE  ColumnsInv'
<1>1. /\ pc = "down" /\ files' = files /\ schema' = schema /\ attempted' = attempted
      /\ \/ pc' = "idle" /\ BothFilesExist
         \/ pc' = "truncate" /\ op' = [left |-> SchemaOrder]
  BY DEF OpenExisting, BeginBootstrap, history
<1>2. columns' = columns
  BY <1>1 DEF columns
<1>3. TriedTyped(attempted') /\ Pieces(columns', attempted')
  BY <1>1, <1>2, SameColumns
<1>4. CreateWrites'
  BY <1>1 DEF CreateWrites, CreatePhases
<1>5. pc' = "truncate" => op'.left = SchemaOrder
  BY <1>1
<1>6. NoRow(columns) \/ "davisbase_columns" \in DOMAIN files
  BY <1>1 DEF ColumnsInv, BootstrapWrites, Unready
<1>7. BootstrapWrites'
  BY <1>1, <1>2, <1>5, <1>6 DEF BootstrapWrites, Unready, BothFilesExist, NoRow
<1> QED BY <1>3, <1>4, <1>7 DEF ColumnsInv
LEMMA TruncateColumns ==
  ASSUME CatalogInv, CatalogInv', ColumnsInv, TruncateSchemaFile
  PROVE  ColumnsInv'
<1>1. PICK s : s = Head(op.left)
  OBVIOUS
<1>2. PICK all : all = SchemaColumns[s]
  OBVIOUS
<1>3. /\ pc = "truncate" /\ files' = Put(files, s, "empty")
      /\ schema' = [schema EXCEPT ![s] = << >>]
      /\ attempted' = Put(attempted, s, all)
      /\ GoOn("write_roots", SchemaOrder)
  BY <1>1, <1>2 DEF TruncateSchemaFile
<1>4. op \in [left : {SchemaOrder, Tail(SchemaOrder)}]
  BY <1>3 DEF CatalogInv, OpTyped, Loops
<1>5. \/ /\ op.left = SchemaOrder /\ s = "davisbase_tables"
         /\ op' = [left |-> Tail(SchemaOrder)] /\ pc' = "truncate"
      \/ /\ op.left = Tail(SchemaOrder) /\ s = "davisbase_columns"
         /\ op' = [left |-> SchemaOrder] /\ pc' = "write_roots"
  BY <1>1, <1>3, <1>4, NextOfTwo
<1>6. s \in SchemaTables /\ s \in Names \union SchemaTables
  BY <1>5, SchemaNames
<1>7. all \in Seq(ColumnName)
  BY <1>2, <1>6, SchemaColumnsTyped
<1>8. TriedTyped(attempted) /\ Pieces(columns, attempted)
  BY DEF ColumnsInv
<1>9. columns \in Leaves(ColumnRow) /\ columns' \in Leaves(ColumnRow)
  BY DEF CatalogInv, SchemaTyped
<1>10. CreateWrites'
  BY <1>5 DEF CreateWrites, CreatePhases
<1>11. CASE op.left = SchemaOrder
  <2>1. columns' = columns
    BY <1>3, <1>5, <1>11, SchemaOrders, TablesWritten DEF CatalogInv
  <2>2. At(columns, s) = {}
    <3>1. s \notin DOMAIN files \/ "davisbase_columns" \notin DOMAIN files
      BY <1>3, <1>5, <1>11, SchemaNames, SchemaOrders
      DEF CatalogInv, StartUnderWay, BothFilesExist
    <3>2. CASE s \notin DOMAIN files
      BY <3>2 DEF CatalogInv, RowsNamed, Within
    <3>3. CASE "davisbase_columns" \notin DOMAIN files
      BY <1>3, <3>3 DEF ColumnsInv, BootstrapWrites, Unready, NoRow
    <3> QED BY <3>1, <3>2, <3>3
  <2>3. PICK more : more = attempted'
    OBVIOUS
  <2>4. more = Put(attempted, s, all)
    BY <1>3, <2>3
  <2>5. TriedTyped(more) /\ Pieces(columns, more) /\ WritingOf(columns, more, s, all)
    BY <1>6, <1>7, <1>8, <1>9, <2>2, <2>4, PutPieces
  <2>6. TriedTyped(attempted') /\ Pieces(columns', attempted') /\ WritingOf(columns', attempted', s, all)
    BY <2>1, <2>3, <2>5
  <2>7. pc' = "truncate" /\ s = "davisbase_tables" /\ At(columns', s) = {}
    BY <1>5, <1>11, <2>1, <2>2, SchemaOrders
  <2>8. /\ DOMAIN files' = DOMAIN files \union {s}
    BY <1>3, <1>6, FilesPut DEF CatalogInv
  <2>9. "davisbase_columns" \notin DOMAIN files => NoRow(columns)
    BY <1>3 DEF ColumnsInv, BootstrapWrites, Unready
  <2>10. "davisbase_columns" \notin DOMAIN files' => NoRow(columns')
    BY <2>1, <2>8, <2>9 DEF NoRow
  <2>11. BootstrapWrites'
    BY <1>2, <2>6, <2>7, <2>10 DEF BootstrapWrites, Unready
  <2> QED BY <1>10, <2>6, <2>11 DEF ColumnsInv
<1>12. CASE op.left # SchemaOrder
  <2>1. columns' = << >> /\ s = "davisbase_columns" /\ pc' = "write_roots"
    BY <1>3, <1>5, <1>12, ColumnsWritten DEF CatalogInv
  <2>2. PICK none : none = columns' /\ none \in Leaves(ColumnRow) /\ NoRow(none)
    BY <1>9, <2>1, NoRows DEF NoRow
  <2>3. Pieces(none, attempted)
    BY <2>2, NoRowPieces
  <2>4. PICK more : more = attempted'
    OBVIOUS
  <2>5. more = Put(attempted, s, all) /\ At(none, s) = {}
    BY <1>3, <2>2, <2>4 DEF NoRow
  <2>6. /\ TriedTyped(more) /\ Pieces(none, more) /\ WritingOf(none, more, s, all)
        /\ DOMAIN more = DOMAIN attempted \union {s}
        /\ \A other \in DOMAIN attempted : other # s => more[other] = attempted[other]
    <3>1. none \in Leaves(ColumnRow) /\ TriedTyped(attempted)
      BY <1>8, <2>2
    <3>2. more = Put(attempted, s, all)
      BY <2>5
    <3>3. At(none, s) = {}
      BY <2>5
    <3>4. TriedTyped(more) /\ Pieces(none, more) /\ WritingOf(none, more, s, all)
      BY <1>6, <1>7, <2>3, <3>1, <3>2, <3>3, PutPieces
    <3>5. /\ DOMAIN more = DOMAIN attempted \union {s}
          /\ \A other \in DOMAIN attempted : other # s => more[other] = attempted[other]
      BY <3>2 DEF Put
    <3> QED BY <3>4, <3>5
  <2>7. PICK first : first = "davisbase_tables"
    OBVIOUS
  <2>8. At(columns, first) = {} /\ WritingOf(columns, attempted, first, SchemaColumns[first])
    BY <1>3, <1>12, <2>7 DEF ColumnsInv, BootstrapWrites
  <2>9. first \in DOMAIN attempted /\ first # s
    BY <2>1, <2>7, <2>8 DEF WritingOf
  <2>10. At(none, first) = {} /\ first \in DOMAIN more /\ more[first] = attempted[first]
    BY <2>2, <2>6, <2>9 DEF NoRow
  <2>11. WritingOf(none, more, first, SchemaColumns[first])
    BY <1>9, <2>2, <2>8, <2>10, StillAllLeft
  <2>12. \A t \in SchemaTables : WritingOf(none, more, t, SchemaColumns[t])
    BY <1>2, <2>1, <2>6, <2>7, <2>11, SchemaNames
  <2>13. BootstrapWrites'
    BY <2>1, <2>2, <2>4, <2>12 DEF BootstrapWrites, Unready
  <2> QED BY <1>10, <2>2, <2>4, <2>6, <2>13 DEF ColumnsInv
<1> QED BY <1>11, <1>12

LEMMA WriteRootColumns ==
  ASSUME CatalogInv, CatalogInv', ColumnsInv, WriteSchemaRoot
  PROVE  ColumnsInv'
<1>1. PICK s : s = Head(op.left)
  OBVIOUS
<1>2. /\ pc = "write_roots" /\ schema' = [schema EXCEPT ![s] = <<EmptyLeaf>>]
      /\ GoOn("bootstrap_tables", SchemaOrder) /\ attempted' = attempted
  BY <1>1 DEF WriteSchemaRoot, history
<1>3. op \in [left : {SchemaOrder, Tail(SchemaOrder)}]
  BY <1>2 DEF CatalogInv, OpTyped, Loops
<1>4. \/ s = "davisbase_tables" /\ pc' = "write_roots"
      \/ s = "davisbase_columns" /\ pc' = "bootstrap_tables"
  BY <1>1, <1>2, <1>3, NextOfTwo
<1>5. columns' = columns \/ columns' = <<EmptyLeaf>>
  BY <1>2, <1>4, TablesWritten, ColumnsWritten DEF CatalogInv
<1>6. columns \in Leaves(ColumnRow) /\ columns' \in Leaves(ColumnRow)
  BY DEF CatalogInv, SchemaTyped
<1>7. NoRow(columns) /\ \A t \in SchemaTables : WritingOf(columns, attempted, t, SchemaColumns[t])
  BY <1>2 DEF ColumnsInv, BootstrapWrites
<1>8. PICK new : new = columns' /\ new \in Leaves(ColumnRow) /\ NoRow(new)
  <2>1. NoRow(columns')
    BY <1>5, <1>7, NoRows DEF NoRow
  <2> QED BY <1>6, <2>1
<1>9. TriedTyped(attempted) /\ Pieces(new, attempted)
  BY <1>8, NoRowPieces DEF ColumnsInv
<1>10. ASSUME NEW t \in SchemaTables PROVE WritingOf(new, attempted, t, SchemaColumns[t])
  <2>1. WritingOf(columns, attempted, t, SchemaColumns[t]) /\ At(columns, t) = {} /\ At(new, t) = {}
    BY <1>7, <1>8 DEF NoRow
  <2>2. t \in DOMAIN attempted
    BY <2>1 DEF WritingOf
  <2> QED BY <1>6, <1>8, <2>1, <2>2, StillAllLeft
<1>11. BothFilesExist'
  BY <1>4 DEF CatalogInv, StartUnderWay
<1>12. BootstrapWrites'
  BY <1>2, <1>4, <1>8, <1>10, <1>11 DEF BootstrapWrites, BothFilesExist
<1>13. CreateWrites'
  BY <1>4 DEF CreateWrites, CreatePhases
<1> QED BY <1>2, <1>8, <1>9, <1>12, <1>13 DEF ColumnsInv

LEMMA TableRowColumns ==
  ASSUME CatalogInv, CatalogInv', ColumnsInv, BootstrapTableRow
  PROVE  ColumnsInv'
<1>1. PICK left : left = ColumnsOf("davisbase_tables") \o ColumnsOf("davisbase_columns")
  OBVIOUS
<1>2. PICK new : schema' = [schema EXCEPT !.davisbase_tables = new]
  BY DEF BootstrapTableRow, tables
<1>3. /\ pc = "bootstrap_tables" /\ GoOn("bootstrap_columns", left) /\ attempted' = attempted
  BY <1>1 DEF BootstrapTableRow, history
<1>4. op \in [left : {SchemaOrder, Tail(SchemaOrder)}]
  BY <1>3 DEF CatalogInv, OpTyped, Loops
<1>5. \/ pc' = "bootstrap_tables"
      \/ op' = [left |-> left] /\ pc' = "bootstrap_columns"
  BY <1>3, <1>4, NextOfTwo
<1>6. columns' = columns
  BY <1>2, TablesWritten DEF CatalogInv
<1>7. TriedTyped(attempted') /\ Pieces(columns', attempted')
  BY <1>3, <1>6, SameColumns
<1>8. NoRow(columns) /\ \A t \in SchemaTables : WritingOf(columns, attempted, t, SchemaColumns[t])
  BY <1>3 DEF ColumnsInv, BootstrapWrites
<1>9. \A t \in SchemaTables : WritingOf(columns, attempted, t, LeftOf(left, t))
  BY <1>1, <1>8, AllColumnsLeft
<1>10. BothFilesExist'
  BY <1>5 DEF CatalogInv, StartUnderWay
<1>11. BootstrapWrites'
  <2>1. pc' = "bootstrap_columns" => op'.left = left
    BY <1>5
  <2> QED BY <1>3, <1>5, <1>6, <1>8, <1>9, <1>10, <2>1
      DEF BootstrapWrites, BothFilesExist, Unready, NoRow
<1>12. CreateWrites'
  BY <1>5 DEF CreateWrites, CreatePhases
<1> QED BY <1>7, <1>11, <1>12 DEF ColumnsInv

(* A step of the bootstrap writes the first of the columns that were left. *)
LEMMA ColumnRowWrites ==
  ASSUME CatalogInv, ColumnsInv, BootstrapColumnRow
  PROVE  /\ \A t \in SchemaTables :
              /\ WritingOf(columns', attempted, t, LeftOf(Tail(op.left), t))
              /\ LeftOf(Tail(op.left), t) \in Seq(ColumnName)
         /\ \A other : other \notin SchemaTables => Found(columns', other) = Found(columns, other)
<1>1. PICK first : first = Head(op.left)
  OBVIOUS
<1>2. PICK row : row = [row_id |-> next.davisbase_columns, table |-> first.table,
                        column |-> first.column, unique |-> FALSE]
  OBVIOUS
<1>3. PICK new : new = AppendRow(columns, row)
  OBVIOUS
<1>4. /\ pc = "bootstrap_columns" /\ schema' = [schema EXCEPT !.davisbase_columns = new]
      /\ GoOn("store_entries", SchemaOrder) /\ attempted' = attempted
  BY <1>1, <1>2, <1>3 DEF BootstrapColumnRow, columns, history
<1>5. PICK left : left = op.left
  OBVIOUS
<1>6. left \in Seq(Pair) /\ left # << >>
  BY <1>4, <1>5 DEF CatalogInv, OpTyped, ColumnsLeft, Pair
<1>7. PICK rest : rest = Tail(left) /\ rest \in Seq(Pair)
  BY <1>6, HeadTailProperties
<1>8. first \in Pair
  BY <1>1, <1>5, <1>6, HeadTailProperties
<1>9. columns' = new /\ columns \in Leaves(ColumnRow) /\ columns # << >>
  BY <1>4, ColumnsWritten DEF CatalogInv, SchemaTyped, StartUnderWay, Unready
<1>10. next.davisbase_columns \in Nat
  BY SchemaNames DEF CatalogInv, SessionTyped
<1>11. row \in ColumnRow /\ row.table = first.table /\ row.column = first.column
       /\ first.table \in SchemaTables
  BY <1>2, <1>8, <1>10 DEF ColumnRow, Pair
<1>12. Appended(columns, new, row)
  BY <1>3 DEF Appended
<1>13. \A t \in SchemaTables : WritingOf(columns, attempted, t, LeftOf(left, t))
  BY <1>4, <1>5 DEF ColumnsInv, BootstrapWrites
<1>14. PICK name : name = row.table
  OBVIOUS
<1>15. WritingOf(new, attempted, name, LeftOf(rest, name)) /\ LeftOf(rest, name) \in Seq(ColumnName)
  <2>1. WritingOf(columns, attempted, name, LeftOf(left, name))
    BY <1>11, <1>13, <1>14
  <2>2. LeftOf(rest, name) \in Seq(ColumnName)
    BY <1>7, LeftTyped
  <2>3. Joined(LeftOf(left, name), <<row.column>>, LeftOf(rest, name))
    <3>1. first.table = name /\ first = Head(left)
      BY <1>1, <1>5, <1>11, <1>14
    <3>2. Joined(LeftOf(left, name), <<first.column>>, LeftOf(rest, name))
      BY <1>6, <1>7, <3>1, LeftNext
    <3> QED BY <1>11, <3>2
  <2>4. PICK l, r : l = LeftOf(left, name) /\ r = LeftOf(rest, name)
    OBVIOUS
  <2>5. WritingOf(new, attempted, name, r)
    BY <1>9, <1>11, <1>12, <1>14, <2>1, <2>2, <2>3, <2>4, WritingGoesOn
  <2> QED BY <2>2, <2>4, <2>5
<1>16. ASSUME NEW other, other # name
       PROVE  Found(new, other) = Found(columns, other) /\ LeftOf(left, other) = LeftOf(rest, other)
  <2>1. Found(new, other) = Found(columns, other)
    BY <1>9, <1>11, <1>12, <1>14, <1>16, OthersFound
  <2>2. first.table # other /\ first = Head(left)
    BY <1>1, <1>5, <1>11, <1>14, <1>16
  <2>3. rest = Tail(left)
    BY <1>7
  <2>4. /\ first.table = other => Joined(LeftOf(left, other), <<first.column>>, LeftOf(rest, other))
        /\ first.table # other => LeftOf(left, other) = LeftOf(rest, other)
    BY <1>6, <2>2, <2>3, LeftNext
  <2> QED BY <2>1, <2>2, <2>4
<1>17. ASSUME NEW t \in SchemaTables PROVE WritingOf(new, attempted, t, LeftOf(rest, t))
  <2>1. CASE t = name
    BY <1>15, <2>1
  <2>2. CASE t # name
    BY <1>13, <1>16, <2>2 DEF WritingOf
  <2> QED BY <2>1, <2>2
<1>18. ASSUME NEW t \in SchemaTables PROVE LeftOf(rest, t) \in Seq(ColumnName)
  BY <1>7, LeftTyped
<1>19. \A other : other \notin SchemaTables => Found(new, other) = Found(columns, other)
  BY <1>11, <1>14, <1>16
<1> QED BY <1>5, <1>7, <1>9, <1>17, <1>18, <1>19

LEMMA ColumnRowColumns ==
  ASSUME CatalogInv, CatalogInv', ColumnsInv, BootstrapColumnRow
  PROVE  ColumnsInv'
<1>1. PICK rest : rest = Tail(op.left)
  OBVIOUS
<1>2. /\ pc = "bootstrap_columns" /\ attempted' = attempted
      /\ GoOn("store_entries", SchemaOrder) /\ DOMAIN files' = DOMAIN files
  BY DEF BootstrapColumnRow, history
<1>3. \/ op' = [left |-> rest] /\ pc' = "bootstrap_columns"
      \/ pc' = "store_entries"
  BY <1>1, <1>2 DEF GoOn
<1>4. /\ \A t \in SchemaTables :
           /\ WritingOf(columns', attempted, t, LeftOf(rest, t))
           /\ LeftOf(rest, t) \in Seq(ColumnName)
      /\ \A other : other \notin SchemaTables => Found(columns', other) = Found(columns, other)
  BY <1>1, ColumnRowWrites
<1>5. Pieces(columns', attempted)
  <2>1. columns' \in Leaves(ColumnRow)
    BY DEF CatalogInv, SchemaTyped
  <2>2. ASSUME NEW t \in SchemaTables PROVE PieceOf(columns', attempted, t)
    BY <1>4, <2>1, WritingIsPiece
  <2>3. ASSUME NEW other, other \notin SchemaTables PROVE PieceOf(columns', attempted, other)
    <3>1. PieceOf(columns, attempted, other)
      BY DEF ColumnsInv, Pieces
    <3> QED BY <1>4, <2>3, <3>1 DEF PieceOf
  <2> QED BY <2>2, <2>3 DEF Pieces
<1>6. BothFilesExist
  BY <1>2 DEF CatalogInv, StartUnderWay
<1>7. BootstrapWrites'
  <2>1. pc' = "bootstrap_columns" => op'.left = rest
    BY <1>3
  <2> QED BY <1>2, <1>3, <1>4, <1>6, <2>1 DEF BootstrapWrites, BothFilesExist, Unready
<1>8. CreateWrites'
  BY <1>3 DEF CreateWrites, CreatePhases
<1>9. TriedTyped(attempted')
  BY <1>2 DEF ColumnsInv
<1> QED BY <1>2, <1>5, <1>7, <1>8, <1>9 DEF ColumnsInv

-----------------------------------------------------------------------------
(* The steps of the statements.                                            *)

(* What the invariant says once the schema tables are made.                *)
LEMMA MadeColumns ==
  ASSUME ColumnsInv, pc \notin Unready
  PROVE  SchemaTables \subseteq DOMAIN files \union unlinked
BY DEF ColumnsInv, BootstrapWrites

LEMMA QuietColumns ==
  ASSUME ColumnsInv, pc \notin Unready, columns' = columns, attempted' = attempted,
         pc' \in {"store_entries", "idle"} \union DropPhases,
         SchemaTables \subseteq DOMAIN files' \union unlinked'
  PROVE  ColumnsInv'
<1>1. TriedTyped(attempted') /\ Pieces(columns', attempted')
  BY SameColumns
<1>2. CreateWrites'
  BY DEF CreateWrites, CreatePhases, DropPhases
<1>3. BootstrapWrites'
  BY DEF BootstrapWrites, Unready, DropPhases
<1> QED BY <1>1, <1>2, <1>3 DEF ColumnsInv

LEMMA StoreEntryColumns ==
  ASSUME CatalogInv, ColumnsInv, StoreEntry
  PROVE  ColumnsInv'
<1>1. PICK new : schema' = [schema EXCEPT !.davisbase_tables = new]
  BY DEF StoreEntry, tables
<1>2. /\ pc = "store_entries" /\ files' = files /\ unlinked' = unlinked /\ attempted' = attempted
      /\ pc' = "idle" \/ pc' = "store_entries"
  BY DEF StoreEntry, session, history, GoOn
<1>3. columns' = columns
  BY <1>1, TablesWritten DEF CatalogInv
<1>4. pc \notin Unready /\ pc' \in {"store_entries", "idle"} \union DropPhases
  BY <1>2 DEF Unready
<1>5. SchemaTables \subseteq DOMAIN files' \union unlinked'
  BY <1>2, <1>4, MadeColumns
<1> QED BY <1>2, <1>3, <1>4, <1>5, QuietColumns

LEMMA BeginCreateColumns ==
  ASSUME CatalogInv, ColumnsInv, NEW name \in Names, NEW definition \in Definitions,
         BeginCreate(name, definition)
  PROVE  ColumnsInv'
<1>1. /\ pc = "idle" /\ pc' = "write_root" /\ name \notin DOMAIN files
      /\ files' = Put(files, name, "empty") /\ op' = [name |-> name, columns |-> definition]
      /\ schema' = schema /\ unlinked' = unlinked /\ attempted' = Put(attempted, name, definition)
  BY DEF BeginCreate, session
<1>2. columns' = columns /\ columns \in Leaves(ColumnRow)
  BY <1>1 DEF columns, CatalogInv, SchemaTyped
<1>3. At(columns, name) = {}
  BY <1>1 DEF CatalogInv, RowsNamed, Within
<1>4. definition \in Seq(ColumnName)
  BY CatalogAssumption, ColumnsTyped
<1>5. PICK more : more = attempted'
  OBVIOUS
<1>6. more = Put(attempted, name, definition) /\ name \in Names \union SchemaTables
  BY <1>1, <1>5
<1>7. TriedTyped(attempted) /\ Pieces(columns, attempted)
  BY DEF ColumnsInv
<1>8. TriedTyped(more) /\ Pieces(columns, more) /\ WritingOf(columns, more, name, definition)
  BY <1>2, <1>3, <1>4, <1>6, <1>7, PutPieces
<1>9. op'.name = name /\ op'.columns = definition
  BY <1>1
<1>10. CreateWrites'
  BY <1>1, <1>2, <1>5, <1>8, <1>9 DEF CreateWrites
<1>11. DOMAIN files' = DOMAIN files \union {name}
  BY <1>1 DEF Put
<1>12. SchemaTables \subseteq DOMAIN files \union unlinked
  BY <1>1, MadeColumns DEF Unready
<1>13. BootstrapWrites'
  BY <1>1, <1>11, <1>12 DEF BootstrapWrites, Unready
<1> QED BY <1>2, <1>5, <1>8, <1>10, <1>13 DEF ColumnsInv

(* The steps of CREATE TABLE that write no column row.                     *)
LEMMA CreateGoesOnColumns ==
  ASSUME CatalogInv, ColumnsInv, WriteRoot \/ AppendTableRow \/ CountTableRow \/ CountColumnRow
  PROVE  ColumnsInv'
<1>1. /\ pc \in CreatePhases /\ pc \notin Unready /\ unlinked' = unlinked /\ attempted' = attempted
      /\ pc' \in {"append_table", "count_table", "append_column"}
  BY DEF WriteRoot, AppendTableRow, CountTableRow, CountColumnRow, session, history,
     CreatePhases, Unready
<1>2. op \in [name : Names, columns : Seq(Columns)]
  BY <1>1 DEF CatalogInv, OpTyped
<1>3. \/ pc # "count_column" /\ op' = op
      \/ pc = "count_column" /\ op' = [op EXCEPT !.columns = Tail(@)]
  BY DEF WriteRoot, AppendTableRow, CountTableRow, CountColumnRow
<1>4. columns' = columns
  <2>1. schema' = schema \/ \E new : schema' = [schema EXCEPT !.davisbase_tables = new]
    BY DEF WriteRoot, AppendTableRow, CountTableRow, CountColumnRow, CountRow
  <2>2. CASE schema' = schema
    BY <2>2 DEF columns
  <2>3. CASE \E new : schema' = [schema EXCEPT !.davisbase_tables = new]
    BY <2>3, TablesWritten DEF CatalogInv
  <2> QED BY <2>1, <2>2, <2>3
<1>5. DOMAIN files \subseteq DOMAIN files'
  BY DEF WriteRoot, AppendTableRow, CountTableRow, CountColumnRow, Put
<1>6. TriedTyped(attempted') /\ Pieces(columns', attempted')
  BY <1>1, <1>4, SameColumns
<1>7. PICK left : left = IF pc = "count_column" THEN Tail(op.columns) ELSE op.columns
  OBVIOUS
<1>8. WritingOf(columns, attempted, op.name, left)
  BY <1>1, <1>7 DEF ColumnsInv, CreateWrites
<1>9. op'.name = op.name /\ op'.columns = left
  BY <1>2, <1>3, <1>7
<1>10. CreateWrites'
  BY <1>1, <1>4, <1>8, <1>9 DEF CreateWrites
<1>11. SchemaTables \subseteq DOMAIN files' \union unlinked'
  BY <1>1, <1>5, MadeColumns
<1>12. BootstrapWrites'
  BY <1>1, <1>11 DEF BootstrapWrites, Unready
<1> QED BY <1>6, <1>10, <1>12 DEF ColumnsInv

LEMMA HeadJoined ==
  ASSUME NEW S, NEW s \in Seq(S), s # << >>
  PROVE  Joined(s, <<Head(s)>>, Tail(s))
<1>1. PICK n \in Nat : n = Len(s) /\ n # 0
  BY EmptySeq, LenProperties
<1>2. 1 \in 1..Len(s) /\ n \in 1..Len(s)
  BY <1>1
<1>3. SubSeq(s, 1, n) = <<s[1]>> \o SubSeq(s, 1+1, n)
  BY <1>2, SubSeqRecursiveFirst
<1>4. SubSeq(s, 1, n) = s
  BY <1>1, SubSeqFull
<1>5. Head(SubSeq(s, 1, n)) = s[1] /\ Tail(SubSeq(s, 1, n)) = SubSeq(s, 1+1, n)
  BY <1>2, HeadTailOfSubSeq
<1> QED BY <1>3, <1>4, <1>5 DEF Joined

LEMMA AppendColumnColumns ==
  ASSUME CatalogInv, CatalogInv', ColumnsInv, AppendColumnRow
  PROVE  ColumnsInv'
<1>1. PICK name : name = op.name
  OBVIOUS
<1>2. PICK left : left = op.columns
  OBVIOUS
<1>3. PICK row : row = [row_id |-> next.davisbase_columns, table |-> name,
                        column |-> Head(left), unique |-> FALSE]
  OBVIOUS
<1>4. PICK new : new = AppendRow(columns, row)
  OBVIOUS
<1>5. /\ pc = "append_column" /\ pc' = "count_column" /\ left # << >> /\ files' = files
      /\ schema' = [schema EXCEPT !.davisbase_columns = new] /\ unlinked' = unlinked /\ op' = op
      /\ attempted' = attempted
  BY <1>1, <1>2, <1>3, <1>4 DEF AppendColumnRow, columns, session, history
<1>6. name \in Names /\ left \in Seq(Columns)
  BY <1>1, <1>2, <1>5 DEF CatalogInv, OpTyped, CreatePhases
<1>7. PICK rest : rest = Tail(left) /\ rest \in Seq(Columns)
  BY <1>5, <1>6, HeadTailProperties
<1>8. rest \in Seq(ColumnName)
  BY <1>7, ColumnsTyped
<1>9. row \in ColumnRow /\ row.table = name /\ row.column = Head(left)
  <2>1. next.davisbase_columns \in Nat
    BY SchemaNames DEF CatalogInv, SessionTyped
  <2>2. Head(left) \in Columns
    BY <1>5, <1>6, HeadTailProperties
  <2> QED BY <1>3, <1>6, <2>1, <2>2 DEF ColumnRow
<1>10. columns' = new /\ columns \in Leaves(ColumnRow) /\ columns # << >>
  BY <1>5, ColumnsWritten DEF CatalogInv, SchemaTyped, StartUnderWay, Unready
<1>11. Appended(columns, new, row)
  BY <1>4 DEF Appended
<1>12. WritingOf(columns, attempted, name, left)
  BY <1>1, <1>2, <1>5 DEF ColumnsInv, CreateWrites, CreatePhases
<1>13. Joined(left, <<row.column>>, rest)
  BY <1>5, <1>6, <1>7, <1>9, HeadJoined
<1>14. WritingOf(new, attempted, name, rest)
  <2>1. name = row.table /\ row \in ColumnRow
    BY <1>9
  <2>2. columns \in Leaves(ColumnRow) /\ columns # << >>
    BY <1>10
  <2> QED BY <1>8, <1>11, <1>12, <1>13, <2>1, <2>2, WritingGoesOn
<1>15. Pieces(new, attempted)
  <2>1. new \in Leaves(ColumnRow)
    BY <1>10 DEF CatalogInv, SchemaTyped
  <2>2. PieceOf(new, attempted, name)
    BY <1>8, <1>14, <2>1, WritingIsPiece
  <2>3. ASSUME NEW other, other # name PROVE PieceOf(new, attempted, other)
    <3>1. PieceOf(columns, attempted, other)
      BY DEF ColumnsInv, Pieces
    <3>2. Found(new, other) = Found(columns, other)
      BY <1>9, <1>10, <1>11, <2>3, OthersFound
    <3> QED BY <3>1, <3>2 DEF PieceOf
  <2> QED BY <2>2, <2>3 DEF Pieces
<1>16. TriedTyped(attempted)
  BY DEF ColumnsInv
<1>17. CreateWrites'
  BY <1>1, <1>2, <1>5, <1>7, <1>10, <1>14 DEF CreateWrites, CreatePhases
<1>18. BootstrapWrites'
  BY <1>5, MadeColumns DEF BootstrapWrites, Unready
<1> QED BY <1>5, <1>10, <1>15, <1>16, <1>17, <1>18 DEF ColumnsInv

(* However CREATE TABLE ends, and the steps of DROP TABLE.                 *)
LEMMA CreateEndsColumns ==
  ASSUME CatalogInv, ColumnsInv, CreateThrows \/ CreateReturns \/ \E name \in Names : BeginDrop(name)
  PROVE  ColumnsInv'
<1>1. /\ pc \in {"append_table", "append_column", "idle"} /\ pc' \in {"idle", "drop_table"}
      /\ files' = files /\ schema' = schema /\ unlinked' = unlinked /\ attempted' = attempted
  BY DEF CreateThrows, CreateReturns, BeginDrop, EndStatement, session, history
<1>2. columns' = columns
  BY <1>1 DEF columns
<1>3. pc \notin Unready /\ pc' \in {"store_entries", "idle"} \union DropPhases
  BY <1>1 DEF Unready, DropPhases
<1>4. SchemaTables \subseteq DOMAIN files' \union unlinked'
  BY <1>1, <1>3, MadeColumns
<1> QED BY <1>1, <1>2, <1>3, <1>4, QuietColumns

LEMMA DropTableColumns ==
  ASSUME CatalogInv, ColumnsInv, DropTableRow
  PROVE  ColumnsInv'
<1>1. /\ pc = "drop_table" /\ pc' = "drop_columns" /\ files' = files /\ unlinked' = unlinked
      /\ attempted' = attempted
  BY DEF DropTableRow, session, history
<1>2. columns' = columns
  BY EntryDropped
<1>3. pc \notin Unready /\ pc' \in {"store_entries", "idle"} \union DropPhases
  BY <1>1 DEF Unready, DropPhases
<1>4. SchemaTables \subseteq DOMAIN files' \union unlinked'
  BY <1>1, <1>3, MadeColumns
<1> QED BY <1>1, <1>2, <1>3, <1>4, QuietColumns

LEMMA DropColumnColumns ==
  ASSUME CatalogInv, CatalogInv', ColumnsInv, DropColumnRow
  PROVE  ColumnsInv'
<1>1. PICK name, places : name = op.name /\ places = ColumnRowsAhead
  OBVIOUS
<1>2. PICK place : place = First(places)
  OBVIOUS
<1>3. PICK new : new = DeleteAt(columns, place)
  OBVIOUS
<1>4. /\ pc = "drop_columns" /\ pc' = "drop_columns" /\ places # {} /\ files' = files
      /\ schema' = [schema EXCEPT !.davisbase_columns = new] /\ unlinked' = unlinked
      /\ attempted' = attempted
  BY <1>1, <1>2, <1>3 DEF DropColumnRow, columns, session, history
<1>5. places = At(columns, name)
  BY <1>1, <1>4, AllAhead
<1>6. columns' = new /\ columns \in Leaves(ColumnRow)
  BY <1>4, ColumnsWritten DEF CatalogInv, SchemaTyped
<1>7. place \in places /\ \A other \in places : Before(place, other)
  BY <1>2, <1>4, <1>5, <1>6, FirstRow
<1>8. Ahead(columns, name, place) /\ place \in At(columns, name)
  BY <1>5, <1>7 DEF Ahead
<1>9. DeletedAt(columns, new, place)
  BY <1>3 DEF DeletedAt
<1>10. new \in Leaves(ColumnRow)
  BY <1>6 DEF CatalogInv, SchemaTyped
<1>11. TriedTyped(attempted) /\ Pieces(columns, attempted)
  BY DEF ColumnsInv
<1>12. Pieces(new, attempted)
  BY <1>6, <1>8, <1>9, <1>10, <1>11, LostIsPiece
<1>13. CreateWrites'
  BY <1>4 DEF CreateWrites, CreatePhases
<1>14. BootstrapWrites'
  BY <1>4, MadeColumns DEF BootstrapWrites, Unready
<1> QED BY <1>4, <1>6, <1>11, <1>12, <1>13, <1>14 DEF ColumnsInv

LEMMA RemoveFileColumns ==
  ASSUME CatalogInv, ColumnsInv, RemoveFile
  PROVE  ColumnsInv'
<1>1. PICK name : name = op.name
  OBVIOUS
<1>2. /\ pc = "drop_columns" /\ pc' = "idle" /\ files' = Without(files, name) /\ schema' = schema
      /\ unlinked' = unlinked \union ({name} \intersect SchemaTables) /\ attempted' = attempted
  BY <1>1 DEF RemoveFile, EndStatement, history
<1>3. columns' = columns
  BY <1>2 DEF columns
<1>4. DOMAIN files' = DOMAIN files \ {name}
  BY <1>2 DEF Without
<1>5. pc \notin Unready /\ pc' \in {"store_entries", "idle"} \union DropPhases
  BY <1>2 DEF Unready
<1>6. SchemaTables \subseteq DOMAIN files' \union unlinked'
  BY <1>2, <1>4, <1>5, MadeColumns
<1> QED BY <1>2, <1>3, <1>5, <1>6, QuietColumns
(* CREATE INDEX changes no name.                                           *)
LEMMA NamesAround ==
  ASSUME NEW rows, NEW first \in Seq(InfoRow), NEW e \in InfoRow, NEW last \in Seq(InfoRow),
         Between(rows, first, e, last)
  PROVE  NamesOf(rows) = (NamesOf(first) \o <<e.column>>) \o NamesOf(last)
<1>1. PICK front \in Seq(InfoRow) : front = Append(first, e)
  BY AppendProperties
<1>2. PICK one \in Seq(InfoRow) : one = <<e>>
  <2>1. <<e>> \in Seq(InfoRow)
    OBVIOUS
  <2> QED BY <2>1
<1>3. Joined(front, first, one)
  BY <1>1, <1>2, AppendIsConcat DEF Joined
<1>4. Joined(rows, front, last)
  BY <1>1 DEF Between
<1>5. Joined(NamesOf(front), NamesOf(first), NamesOf(one))
  BY <1>2, <1>3, NamesJoined
<1>6. Joined(NamesOf(rows), NamesOf(front), NamesOf(last))
  BY <1>1, <1>4, NamesJoined
<1>7. NamesOf(one) = <<e.column>>
  BY <1>2, InfoOne
<1> QED BY <1>5, <1>6, <1>7 DEF Joined

LEMMA MarkedNames ==
  ASSUME NEW info, NEW more, NEW column, Marked(info, more, column)
  PROVE  NamesOf(more) = NamesOf(info)
<1>1. PICK first \in Seq({e \in InfoRow : e.column # column}), e \in InfoRow, last \in Seq(InfoRow) :
        /\ e.column = column
        /\ Between(info, first, e, last)
        /\ Between(more, first, [column |-> column, unique |-> TRUE], last)
  BY DEF Marked
<1>2. first \in Seq(InfoRow)
  <2>1. {d \in InfoRow : d.column # column} \subseteq InfoRow
    OBVIOUS
  <2> QED BY <1>1, <2>1
<1>3. PICK d : d = [column |-> column, unique |-> TRUE]
  OBVIOUS
<1>4. d \in InfoRow /\ d.column = column
  BY <1>1, <1>3 DEF InfoRow
<1>5. Between(more, first, d, last) /\ Between(info, first, e, last)
  BY <1>1, <1>3
<1>6. NamesOf(info) = (NamesOf(first) \o <<e.column>>) \o NamesOf(last)
  BY <1>1, <1>2, <1>5, NamesAround
<1>7. NamesOf(more) = (NamesOf(first) \o <<d.column>>) \o NamesOf(last)
  BY <1>1, <1>2, <1>4, <1>5, NamesAround
<1> QED BY <1>1, <1>4, <1>6, <1>7

LEMMA IndexColumns ==
  ASSUME CatalogInv, ColumnsInv, NEW name \in Names, NEW column \in Columns,
         MakeColumnUnique(name, column)
  PROVE  ColumnsInv'
<1>1. PICK places :
        places = {at \in At(columns, name) : columns[at[1]].rows[at[2]].column = column}
  OBVIOUS
<1>2. PICK place : place = First(places)
  OBVIOUS
<1>3. PICK new : new = [columns EXCEPT ![place[1]].rows[place[2]].unique = TRUE]
  OBVIOUS
<1>4. /\ pc = "idle" /\ pc' = "idle" /\ places # {} /\ files' = files
      /\ schema' = [schema EXCEPT !.davisbase_columns = new] /\ unlinked' = unlinked
      /\ attempted' = attempted
  BY <1>1, <1>2, <1>3 DEF MakeColumnUnique, columns, session
<1>5. columns' = new /\ columns \in Leaves(ColumnRow)
  BY <1>4, ColumnsWritten DEF CatalogInv, SchemaTyped
<1>6. PlacesOf(columns, name, column, places)
  BY <1>1 DEF PlacesOf
<1>7. IndexMade(columns, new, First(places))
  BY <1>2, <1>3 DEF IndexMade
<1>8. /\ Marked(Info(columns, name), Info(new, name), column)
      /\ OthersKeep(columns, new, name)
  BY <1>4, <1>5, <1>6, <1>7, InfoMarked
<1>9. ASSUME NEW other PROVE Found(new, other) = Found(columns, other)
  <2>1. CASE other = name
    BY <1>8, <2>1, MarkedNames DEF Found
  <2>2. CASE other # name
    BY <1>8, <2>2 DEF OthersKeep, Found
  <2> QED BY <2>1, <2>2
<1>10. Pieces(new, attempted)
  BY <1>9 DEF ColumnsInv, Pieces, PieceOf
<1>11. CreateWrites'
  BY <1>4 DEF CreateWrites, CreatePhases
<1>12. BootstrapWrites'
  BY <1>4, MadeColumns DEF BootstrapWrites, Unready
<1>13. TriedTyped(attempted)
  BY DEF ColumnsInv
<1> QED BY <1>4, <1>5, <1>10, <1>11, <1>12, <1>13 DEF ColumnsInv

LEMMA EndColumns ==
  ASSUME CatalogInv, CatalogInv', ColumnsInv, End, pc # "down"
  PROVE  ColumnsInv'
<1>1. pc' = "down" /\ files' = files /\ attempted' = attempted /\ schema' = [s \in SchemaTables |-> OnDisk(s)]
  BY DEF End
<1>2. columns' = OnDisk("davisbase_columns")
  BY <1>1, SchemaNames DEF columns
<1>3. /\ "davisbase_columns" \notin unlinked => columns' = columns
      /\ columns' # columns => NoRow(columns')
      /\ "davisbase_columns" \in unlinked => NoRow(columns')
  <2>1. OnDisk("davisbase_columns") = columns
          \/ OnDisk("davisbase_columns") \in {<< >>, <<EmptyLeaf>>}
    BY DEF OnDisk, columns
  <2>2. columns' \in {<< >>, <<EmptyLeaf>>} => NoRow(columns')
    BY NoRows DEF NoRow
  <2>3. "davisbase_columns" \notin unlinked => columns' = columns
    BY <1>2 DEF OnDisk, columns
  <2>4. "davisbase_columns" \in unlinked => columns' \in {<< >>, <<EmptyLeaf>>}
    BY <1>2 DEF OnDisk
  <2> QED BY <1>2, <2>1, <2>2, <2>3, <2>4
<1>4. columns' \in Leaves(ColumnRow)
  BY DEF CatalogInv, SchemaTyped
<1>5. TriedTyped(attempted) /\ Pieces(columns, attempted)
  BY DEF ColumnsInv
<1>6. Pieces(columns', attempted)
  <2>1. PICK new : new = columns' /\ new \in Leaves(ColumnRow)
    BY <1>4
  <2>2. CASE new = columns
    BY <1>5, <2>1, <2>2
  <2>3. CASE NoRow(new)
    BY <2>1, <2>3, NoRowPieces
  <2> QED BY <1>3, <2>1, <2>2, <2>3
<1>7. "davisbase_columns" \notin DOMAIN files => NoRow(columns')
  <2>1. CASE pc \in Unready
    <3>1. "davisbase_columns" \notin DOMAIN files => NoRow(columns)
      BY <2>1 DEF ColumnsInv, BootstrapWrites
    <3>2. NoRow(columns) => NoRow(columns')
      BY <1>3 DEF NoRow
    <3> QED BY <3>1, <3>2
  <2>2. CASE pc \notin Unready
    BY <1>3, <2>2, MadeColumns, SchemaNames
  <2> QED BY <2>1, <2>2
<1>8. BootstrapWrites'
  BY <1>1, <1>7 DEF BootstrapWrites, Unready
<1>9. CreateWrites'
  BY <1>1 DEF CreateWrites, CreatePhases
<1> QED BY <1>1, <1>5, <1>6, <1>8, <1>9 DEF ColumnsInv

-----------------------------------------------------------------------------
(* The invariant holds, and what follows from it.                           *)

LEMMA ColumnsStep == CatalogInv /\ CatalogInv' /\ ColumnsInv /\ [Next \/ Kill]_vars => ColumnsInv'
<1> SUFFICES ASSUME CatalogInv, CatalogInv', ColumnsInv, [Next \/ Kill]_vars PROVE ColumnsInv'
  OBVIOUS
<1>1. CASE \E name \in Names, definition \in Definitions : BeginCreate(name, definition)
  BY <1>1, BeginCreateColumns
<1>2. CASE \E name \in Names : BeginDrop(name)
  BY <1>2, CreateEndsColumns
<1>3. CASE \E name \in Names, column \in Columns : MakeColumnUnique(name, column)
  BY <1>3, IndexColumns
<1>4. CASE StatementStep
  BY <1>4, CreateGoesOnColumns, AppendColumnColumns, CreateEndsColumns, DropTableColumns,
     DropColumnColumns, RemoveFileColumns
  DEF StatementStep
<1>5. CASE Start
  BY <1>5, StartsColumns, TruncateColumns, WriteRootColumns, TableRowColumns, ColumnRowColumns,
     StoreEntryColumns
  DEF Start
<1>6. CASE Exit \/ Kill
  BY <1>6, EndColumns DEF Exit, Kill
<1>7. CASE UNCHANGED vars
  <2>1. /\ files' = files /\ schema' = schema /\ pc' = pc /\ op' = op
        /\ unlinked' = unlinked /\ attempted' = attempted
    BY <1>7 DEF vars, session, history
  <2>2. columns' = columns
    BY <2>1 DEF columns
  <2>3. TriedTyped(attempted') /\ Pieces(columns', attempted')
    BY <2>1, <2>2, SameColumns
  <2>4. CreateWrites' /\ BootstrapWrites'
    BY <2>1, <2>2 DEF ColumnsInv, CreateWrites, BootstrapWrites, NoRow
  <2> QED BY <2>3, <2>4 DEF ColumnsInv
<1> QED BY <1>1, <1>2, <1>3, <1>4, <1>5, <1>6, <1>7 DEF Next

LEMMA ColumnsInvariant == CrashSpec => []ColumnsInv
<1>1. CatalogInv /\ [Next \/ Kill]_vars => CatalogInv'
  BY StepInv
<1> QED BY <1>1, CatalogInvariant, ColumnsInit, ColumnsStep, PTL DEF CrashSpec

(* Wherever CREATE TABLE and DROP TABLE were interrupted, and whatever was *)
(* created and dropped under a name before, the columns that               *)
(* davisbase_columns has for it are consecutive ones of the latest CREATE  *)
(* TABLE that named it: rows of two definitions never mix, because a drop  *)
(* leaves no column row behind and a create begins where no file is.       *)
THEOREM DefinitionsDoNotMix == CrashSpec => []NoMixedDefinition
<1>1. ColumnsInv => NoMixedDefinition
  <2> SUFFICES ASSUME ColumnsInv, NEW name \in Names, ColumnNames(name) # << >>
               PROVE  /\ name \in DOMAIN attempted
                      /\ \E from, to \in DOMAIN attempted[name] :
                           ColumnNames(name) = SubSeq(attempted[name], from, to)
    BY DEF NoMixedDefinition
  <2>1. ColumnNames(name) = Found(columns, name)
    BY InfoIs DEF Found
  <2>2. PieceOf(columns, attempted, name)
    BY DEF ColumnsInv, Pieces
  <2> QED BY <2>1, <2>2 DEF PieceOf, IsPiece
<1> QED BY <1>1, ColumnsInvariant, PTL
-----------------------------------------------------------------------------
(* A table whose CREATE TABLE returned is whole, and neither the table of  *)
(* the statement under way nor, while the schema tables are made, any.     *)

PlainRow == [column : ColumnName, unique : {FALSE}]

Whole(name) ==
  /\ name \in DOMAIN files /\ files[name] = "paged"
  /\ At(tables, name) # {}
  /\ Info(columns, name) = created[name]

Wholes == \A name \in DOMAIN created : Whole(name)

CreatedApart ==
  /\ DOMAIN created \subseteq Names
  /\ pc \in BootstrapPhases \/ (pc = "down" /\ ~ BothFilesExist) => DOMAIN created = {}
  /\ pc \in CreatePhases \union DropPhases => op.name \notin DOMAIN created

(* What CREATE TABLE has written: its file, its entry and plain columns.   *)
CreateHasWritten ==
  /\ pc \in CreatePhases \ {"write_root"} => op.name \in DOMAIN files /\ files[op.name] = "paged"
  /\ pc \in {"count_table", "append_column", "count_column"} => At(tables, op.name) # {}
  /\ pc \in CreatePhases => Info(columns, op.name) \in Seq(PlainRow)

CreatedInv == Wholes /\ CreatedApart /\ CreateHasWritten

(* The tables that are still there are as they were.                       *)
LEMMA WholesStay ==
  ASSUME Wholes, DOMAIN created' \subseteq DOMAIN created,
         \A name \in DOMAIN created' :
           /\ created'[name] = created[name]
           /\ name \in DOMAIN files' /\ files'[name] = files[name]
           /\ At(tables, name) # {} => At(tables', name) # {}
           /\ Info(columns', name) = Info(columns, name)
  PROVE  Wholes'
<1>1. \A name \in DOMAIN created : Whole(name)
  BY DEF Wholes
<1> QED BY <1>1 DEF Wholes, Whole

LEMMA CreatedInit == Init => CreatedInv
<1> SUFFICES ASSUME Init PROVE CreatedInv
  OBVIOUS
<1>1. DOMAIN created = {} /\ pc = "down"
  BY DEF Init
<1> QED BY <1>1 DEF CreatedInv, Wholes, CreatedApart, CreateHasWritten, CreatePhases, DropPhases

(* No table is there yet.                                                  *)
LEMMA NoneCreated ==
  ASSUME DOMAIN created = {}, created' = created, pc' \notin CreatePhases \union DropPhases
  PROVE  CreatedInv'
BY DEF CreatedInv, Wholes, CreatedApart, CreateHasWritten, CreatePhases

LEMMA StartCreated ==
  ASSUME CreatedInv, Start
  PROVE  CreatedInv'
<1>1. created' = created
  BY DEF Start, OpenExisting, BeginBootstrap, TruncateSchemaFile, WriteSchemaRoot, BootstrapTableRow,
     BootstrapColumnRow, StoreEntry, history
<1>2. CASE OpenExisting
  <2>1. pc = "down" /\ pc' = "idle" /\ files' = files /\ schema' = schema
    BY <1>2 DEF OpenExisting
  <2>2. tables' = tables /\ columns' = columns
    BY <2>1 DEF tables, columns
  <2>3. Wholes'
    BY <1>1, <2>1, <2>2 DEF CreatedInv, Wholes, Whole
  <2>4. CreatedApart' /\ CreateHasWritten'
    BY <1>1, <2>1
    DEF CreatedInv, CreatedApart, CreateHasWritten, BootstrapPhases, CreatePhases, DropPhases
  <2> QED BY <2>3, <2>4 DEF CreatedInv
<1>3. CASE ~ OpenExisting
  <2>1. pc' \in BootstrapPhases \union {"idle"}
    BY <1>3 DEF Start, BeginBootstrap, TruncateSchemaFile, WriteSchemaRoot, BootstrapTableRow,
       BootstrapColumnRow, StoreEntry, GoOn, BootstrapPhases
  <2>2. pc \in BootstrapPhases \/ (pc = "down" /\ ~ BothFilesExist)
    BY <1>3 DEF Start, BeginBootstrap, TruncateSchemaFile, WriteSchemaRoot, BootstrapTableRow,
       BootstrapColumnRow, StoreEntry, BootstrapPhases
  <2>3. DOMAIN created = {}
    BY <2>2 DEF CreatedInv, CreatedApart
  <2>4. pc' \notin CreatePhases \union DropPhases
    BY <2>1 DEF BootstrapPhases, CreatePhases, DropPhases
  <2> QED BY <1>1, <2>3, <2>4, NoneCreated
<1> QED BY <1>2, <1>3

LEMMA BeginCreateCreated ==
  ASSUME CatalogInv, CreatedInv, NEW name \in Names, NEW definition \in Definitions,
         BeginCreate(name, definition)
  PROVE  CreatedInv'
<1>1. /\ pc = "idle" /\ pc' = "write_root" /\ name \notin DOMAIN files
      /\ files' = Put(files, name, "empty") /\ op' = [name |-> name, columns |-> definition]
      /\ schema' = schema /\ created' = created
  BY DEF BeginCreate
<1>2. tables' = tables /\ columns' = columns /\ columns \in Leaves(ColumnRow)
  BY <1>1 DEF tables, columns, CatalogInv, SchemaTyped
<1>3. name \notin DOMAIN created
  BY <1>1 DEF CreatedInv, Wholes, Whole
<1>4. /\ DOMAIN files' = DOMAIN files \union {name}
      /\ \A other \in DOMAIN files : other # name => files'[other] = files[other]
  BY <1>1 DEF Put
<1>5. Wholes'
  BY <1>1, <1>2, <1>3, <1>4 DEF CreatedInv, Wholes, Whole
<1>6. op'.name = name
  BY <1>1
<1>7. CreatedApart'
  BY <1>1, <1>3, <1>6 DEF CreatedInv, CreatedApart, BootstrapPhases
<1>8. Info(columns', name) \in Seq(PlainRow)
  <2>1. At(columns, name) = {}
    BY <1>1 DEF CatalogInv, RowsNamed, Within
  <2>2. Info(columns, name) = << >>
    BY <1>2, <2>1, EmptyInfo
  <2> QED BY <1>2, <2>2, EmptySeq
<1>9. CreateHasWritten'
  BY <1>1, <1>6, <1>8 DEF CreateHasWritten
<1> QED BY <1>5, <1>7, <1>9 DEF CreatedInv

(* The steps of CREATE TABLE that leave davisbase_columns alone.           *)
LEMMA CreateGoesOnCreated ==
  ASSUME CatalogInv, CreatedInv, WriteRoot \/ AppendTableRow \/ CountTableRow \/ CountColumnRow
  PROVE  CreatedInv'
<1>1. PICK name : name = op.name
  OBVIOUS
<1>2. /\ pc \in CreatePhases /\ created' = created
      /\ \/ pc = "write_root" /\ pc' = "append_table"
         \/ pc = "append_table" /\ pc' = "count_table"
         \/ pc \in {"count_table", "count_column"} /\ pc' = "append_column"
  BY DEF WriteRoot, AppendTableRow, CountTableRow, CountColumnRow, history, CreatePhases
<1>3. op \in [name : Names, columns : Seq(Columns)]
  BY <1>2 DEF CatalogInv, OpTyped
<1>4. op'.name = name
  BY <1>1, <1>3 DEF WriteRoot, AppendTableRow, CountTableRow, CountColumnRow
<1>5. name \notin DOMAIN created /\ Info(columns, name) \in Seq(PlainRow)
  BY <1>1, <1>2 DEF CreatedInv, CreatedApart, CreateHasWritten
<1>6. /\ columns' = columns
      /\ \A other : At(tables, other) # {} => At(tables', other) # {}
      /\ pc = "append_table" => At(tables', name) # {}
  <2>1. CASE WriteRoot
    <3>1. schema' = schema /\ pc = "write_root"
      BY <2>1 DEF WriteRoot
    <3> QED BY <3>1 DEF tables, columns
  <2>2. CASE AppendTableRow
    <3>1. PICK row : row = [row_id |-> next.davisbase_tables, table |-> name,
                            next_row_id |-> INITIAL_ROW_ID]
      OBVIOUS
    <3>2. PICK new : new = AppendRow(tables, row)
      OBVIOUS
    <3>3. pc = "append_table" /\ schema' = [schema EXCEPT !.davisbase_tables = new]
      BY <1>1, <2>2, <3>1, <3>2 DEF AppendTableRow, tables
    <3>4. next.davisbase_tables \in Nat
      BY SchemaNames DEF CatalogInv, SessionTyped
    <3>5. row \in TableRow /\ row.table = name
      BY <1>1, <1>3, <3>1, <3>4 DEF TableRow, INITIAL_ROW_ID
    <3>6. Appended(tables, new, row)
      BY <3>2 DEF Appended
    <3>7. tables \in Leaves(TableRow) /\ tables # << >>
      BY <3>3 DEF CatalogInv, SchemaTyped, StartUnderWay, Unready
    <3>8. /\ \A other : other # row.table => At(new, other) = At(tables, other)
          /\ OneMore(tables, new, row.table)
      BY <3>5, <3>6, <3>7, RowAppended
    <3>9. PICK p : At(new, name) = At(tables, name) \union {p}
      BY <3>5, <3>8 DEF OneMore
    <3>10. ASSUME NEW other, At(tables, other) # {} PROVE At(new, other) # {}
      BY <3>5, <3>8, <3>9, <3>10
    <3>11. tables' = new /\ columns' = columns
      BY <3>3, TablesWritten DEF CatalogInv
    <3> QED BY <3>9, <3>10, <3>11
  <2>3. CASE CountTableRow \/ CountColumnRow
    <3>1. PICK s \in SchemaTables : CountRow(s)
      BY <2>3, SchemaNames DEF CountTableRow, CountColumnRow
    <3>2. pc \notin Unready /\ files' = files /\ known' = known /\ unlinked' = unlinked
          /\ pc # "append_table"
      BY <2>3 DEF CountTableRow, CountColumnRow, Unready
    <3>3. Kept(tables, tables') /\ columns' = columns
      BY <3>1, <3>2, RowCounted
    <3> QED BY <3>2, <3>3 DEF Kept
  <2> QED BY <2>1, <2>2, <2>3
<1>7. /\ DOMAIN files \subseteq DOMAIN files'
      /\ \A other \in DOMAIN files : other # name => files'[other] = files[other]
      /\ pc # "write_root" => files' = files
      /\ pc = "write_root" => name \in DOMAIN files' /\ files'[name] = "paged"
  <2>1. CASE pc = "write_root"
    <3>1. files' = Put(files, name, "paged")
      BY <1>1, <2>1 DEF WriteRoot, AppendTableRow, CountTableRow, CountColumnRow
    <3> QED BY <2>1, <3>1 DEF Put
  <2>2. CASE pc # "write_root"
    <3>1. files' = files
      BY <2>2 DEF WriteRoot, AppendTableRow, CountTableRow, CountColumnRow
    <3> QED BY <2>2, <3>1
  <2> QED BY <2>1, <2>2
<1>8. Wholes'
  BY <1>2, <1>5, <1>6, <1>7 DEF CreatedInv, Wholes, Whole
<1>9. CreatedApart'
  BY <1>2, <1>4, <1>5 DEF CreatedInv, CreatedApart, BootstrapPhases
<1>10. CreateHasWritten'
  <2>1. pc # "write_root" => name \in DOMAIN files /\ files[name] = "paged"
    BY <1>1, <1>2 DEF CreatedInv, CreateHasWritten
  <2>2. name \in DOMAIN files' /\ files'[name] = "paged"
    BY <1>7, <2>1
  <2>3. pc \in {"count_table", "count_column"} => At(tables, name) # {}
    BY <1>1 DEF CreatedInv, CreateHasWritten
  <2>4. pc' \in {"count_table", "append_column"} => At(tables', name) # {}
    BY <1>2, <1>6, <2>3
  <2> QED BY <1>2, <1>4, <1>5, <1>6, <2>2, <2>4 DEF CreateHasWritten
<1> QED BY <1>8, <1>9, <1>10 DEF CreatedInv
LEMMA AppendColumnCreated ==
  ASSUME CatalogInv, CreatedInv, AppendColumnRow
  PROVE  CreatedInv'
<1>1. PICK name : name = op.name
  OBVIOUS
<1>2. PICK row : row = [row_id |-> next.davisbase_columns, table |-> name,
                        column |-> Head(op.columns), unique |-> FALSE]
  OBVIOUS
<1>3. PICK new : new = AppendRow(columns, row)
  OBVIOUS
<1>4. /\ pc = "append_column" /\ pc' = "count_column" /\ op.columns # << >> /\ files' = files
      /\ schema' = [schema EXCEPT !.davisbase_columns = new] /\ op' = op /\ created' = created
  BY <1>1, <1>2, <1>3 DEF AppendColumnRow, columns, history
<1>5. name \in Names /\ op.columns \in Seq(Columns)
  BY <1>1, <1>4 DEF CatalogInv, OpTyped, CreatePhases
<1>6. row \in ColumnRow /\ row.table = name /\ row.unique = FALSE /\ row.column \in ColumnName
  <2>1. next.davisbase_columns \in Nat
    BY SchemaNames DEF CatalogInv, SessionTyped
  <2>2. Head(op.columns) \in Columns
    BY <1>4, <1>5, HeadTailProperties
  <2> QED BY <1>2, <1>5, <2>1, <2>2 DEF ColumnRow, ColumnName
<1>7. tables' = tables /\ columns' = new /\ columns \in Leaves(ColumnRow) /\ columns # << >>
  BY <1>4, ColumnsWritten DEF CatalogInv, SchemaTyped, StartUnderWay, Unready
<1>8. Appended(columns, new, row)
  BY <1>3 DEF Appended
<1>9. ASSUME NEW other PROVE Grows(Info(columns, other), Info(new, other), row, other)
  BY <1>6, <1>7, <1>8, InfoAppended
<1>10. name \notin DOMAIN created /\ Info(columns, name) \in Seq(PlainRow)
       /\ name \in DOMAIN files /\ files[name] = "paged" /\ At(tables, name) # {}
  BY <1>1, <1>4 DEF CreatedInv, CreatedApart, CreateHasWritten, CreatePhases
<1>11. ASSUME NEW other, other # name PROVE Info(new, other) = Info(columns, other)
  <2>1. Grows(Info(columns, other), Info(new, other), row, other) /\ row.table # other
    BY <1>6, <1>9, <1>11
  <2> QED BY <2>1 DEF Grows
<1>12. Wholes'
  <2>1. ASSUME NEW other \in DOMAIN created
        PROVE  /\ other \in DOMAIN files /\ files[other] = "paged"
               /\ At(tables, other) # {}
               /\ Info(new, other) = created[other]
    <3>1. other # name
      BY <1>10
    <3> QED BY <1>11, <3>1 DEF CreatedInv, Wholes, Whole
  <2> QED BY <1>4, <1>7, <2>1 DEF Wholes, Whole
<1>13. CreatedApart'
  BY <1>1, <1>4, <1>10 DEF CreatedInv, CreatedApart, BootstrapPhases
<1>14. Info(new, name) \in Seq(PlainRow)
  <2>1. PICK info \in Seq(PlainRow) : info = Info(columns, name)
    BY <1>10
  <2>2. PICK e : e = Seen(row)
    OBVIOUS
  <2>3. e \in PlainRow
    BY <1>6, <2>2 DEF Seen, PlainRow
  <2>4. PICK one \in Seq(PlainRow) : one = <<e>>
    <3>1. <<e>> \in Seq(PlainRow)
      BY <2>3
    <3> QED BY <3>1
  <2>5. Joined(Info(new, name), info, one)
    BY <1>6, <1>9, <2>1, <2>2, <2>4 DEF Grows
  <2>6. Info(new, name) = info \o one
    BY <2>5 DEF Joined
  <2>7. info \o one \in Seq(PlainRow)
    BY ConcatProperties
  <2> QED BY <2>6, <2>7
<1>15. CreateHasWritten'
  BY <1>1, <1>4, <1>7, <1>10, <1>14 DEF CreateHasWritten, CreatePhases
<1> QED BY <1>12, <1>13, <1>15 DEF CreatedInv

(* The columns that createTable returns from are its definition's.         *)
LEMMA PlainIsDefinition ==
  ASSUME NEW info \in Seq(PlainRow), NEW all \in Seq(ColumnName), Joined(all, NamesOf(info), << >>),
         NEW made, made = [i \in DOMAIN all |-> [column |-> all[i], unique |-> FALSE]]
  PROVE  info = made
<1>1. \A e \in PlainRow : e.column \in ColumnName
  BY DEF PlainRow
<1>2. PICK names \in Seq(ColumnName) :
        /\ names = NamesOf(info) /\ Len(names) = Len(info)
        /\ \A i \in 1..Len(info) : names[i] = info[i].column
  BY <1>1, NamesType
<1>3. all = names
  <2>1. all = names \o << >>
    BY <1>2 DEF Joined
  <2> QED BY <2>1, ConcatEmptySeq
<1>4. PICK n \in Nat : n = Len(info) /\ DOMAIN all = 1..n
  BY <1>2, <1>3, LenProperties
<1>5. ASSUME NEW i \in 1..n PROVE info[i] = [column |-> all[i], unique |-> FALSE]
  <2>1. info[i] \in PlainRow
    BY <1>4, ElementOfSeq
  <2>2. all[i] = info[i].column
    BY <1>2, <1>3, <1>4
  <2>3. PICK e : e = info[i] /\ e \in PlainRow
    BY <2>1
  <2>4. e = [column |-> e.column, unique |-> FALSE]
    BY <2>3 DEF PlainRow
  <2> QED BY <2>2, <2>3, <2>4
<1>6. info = [i \in 1..n |-> info[i]]
  BY <1>4, LenProperties
<1> QED BY <1>4, <1>5, <1>6

LEMMA CreateReturnsCreated ==
  ASSUME CatalogInv, ColumnsInv, CreatedInv, CreateReturns
  PROVE  CreatedInv'
<1>1. PICK name : name = op.name
  OBVIOUS
<1>2. PICK made : made = [i \in DOMAIN attempted[name] |->
                            [column |-> attempted[name][i], unique |-> FALSE]]
  OBVIOUS
<1>3. /\ pc = "append_column" /\ op.columns = << >> /\ pc' = "idle"
      /\ created' = Put(created, name, made) /\ files' = files /\ schema' = schema
  BY <1>1, <1>2 DEF CreateReturns, EndStatement
<1>4. tables' = tables /\ columns' = columns
  BY <1>3 DEF tables, columns
<1>5. WritingOf(columns, attempted, name, << >>) /\ TriedTyped(attempted)
  BY <1>1, <1>3 DEF ColumnsInv, CreateWrites, CreatePhases
<1>6. PICK all \in Seq(ColumnName) : all = attempted[name]
  BY <1>5 DEF WritingOf, TriedTyped
<1>7. PICK info \in Seq(PlainRow) : info = Info(columns, name)
  BY <1>1, <1>3 DEF CreatedInv, CreateHasWritten, CreatePhases
<1>8. Joined(all, NamesOf(info), << >>)
  BY <1>5, <1>6, <1>7 DEF WritingOf, Found
<1>9. info = made
  BY <1>2, <1>6, <1>8, PlainIsDefinition
<1>10. name \in Names
  BY <1>1, <1>3 DEF CatalogInv, OpTyped, CreatePhases
<1>11. name \in DOMAIN files /\ files[name] = "paged" /\ At(tables, name) # {}
  BY <1>1, <1>3 DEF CreatedInv, CreateHasWritten, CreatePhases
<1>12. /\ DOMAIN created' = DOMAIN created \union {name} /\ created'[name] = made
       /\ \A other \in DOMAIN created : other # name => created'[other] = created[other]
  BY <1>3 DEF Put
<1>13. Wholes'
  <2>1. ASSUME NEW other \in DOMAIN created, other # name
        PROVE  /\ other \in DOMAIN files /\ files[other] = "paged"
               /\ At(tables, other) # {}
               /\ Info(columns, other) = created'[other]
    BY <1>12, <2>1 DEF CreatedInv, Wholes, Whole
  <2>2. Info(columns, name) = created'[name]
    BY <1>7, <1>9, <1>12
  <2> QED BY <1>3, <1>4, <1>11, <1>12, <2>1, <2>2 DEF Wholes, Whole
<1>14. CreatedApart' /\ CreateHasWritten'
  BY <1>3, <1>10, <1>12
  DEF CreatedInv, CreatedApart, CreateHasWritten, BootstrapPhases, CreatePhases, DropPhases
<1> QED BY <1>13, <1>14 DEF CreatedInv

LEMMA CreateThrowsCreated ==
  ASSUME CreatedInv, CreateThrows
  PROVE  CreatedInv'
<1>1. pc' = "idle" /\ files' = files /\ schema' = schema /\ created' = created
  BY DEF CreateThrows, EndStatement, history
<1>2. tables' = tables /\ columns' = columns
  BY <1>1 DEF tables, columns
<1>3. Wholes'
  BY <1>1, <1>2 DEF CreatedInv, Wholes, Whole
<1>4. CreatedApart' /\ CreateHasWritten'
  BY <1>1 DEF CreatedInv, CreatedApart, CreateHasWritten, BootstrapPhases, CreatePhases, DropPhases
<1> QED BY <1>3, <1>4 DEF CreatedInv

(* The steps of DROP TABLE.                                                *)
LEMMA BeginDropCreated ==
  ASSUME CreatedInv, NEW name \in Names, BeginDrop(name)
  PROVE  CreatedInv'
<1>1. /\ pc' = "drop_table" /\ files' = files /\ schema' = schema /\ op' = [name |-> name]
      /\ created' = Without(created, name)
  BY DEF BeginDrop
<1>2. tables' = tables /\ columns' = columns
  BY <1>1 DEF tables, columns
<1>3. /\ DOMAIN created' = DOMAIN created \ {name}
      /\ \A other \in DOMAIN created' : created'[other] = created[other]
  BY <1>1 DEF Without
<1>4. Wholes'
  BY <1>1, <1>2, <1>3 DEF CreatedInv, Wholes, Whole
<1>5. op'.name = name
  BY <1>1
<1>6. CreatedApart' /\ CreateHasWritten'
  BY <1>1, <1>3, <1>5
  DEF CreatedInv, CreatedApart, CreateHasWritten, BootstrapPhases, CreatePhases, DropPhases
<1> QED BY <1>4, <1>6 DEF CreatedInv

LEMMA DropTableCreated ==
  ASSUME CatalogInv, CreatedInv, DropTableRow
  PROVE  CreatedInv'
<1>1. /\ pc = "drop_table" /\ pc' = "drop_columns" /\ files' = files /\ op' = op /\ created' = created
  BY DEF DropTableRow, history
<1>2. /\ columns' = columns
      /\ \A name : name # op.name /\ At(tables, name) # {} => At(tables', name) # {}
  BY EntryDropped
<1>3. op.name \notin DOMAIN created
  BY <1>1 DEF CreatedInv, CreatedApart, DropPhases
<1>4. Wholes'
  BY <1>1, <1>2, <1>3 DEF CreatedInv, Wholes, Whole
<1>5. CreatedApart' /\ CreateHasWritten'
  BY <1>1, <1>3
  DEF CreatedInv, CreatedApart, CreateHasWritten, BootstrapPhases, CreatePhases, DropPhases
<1> QED BY <1>4, <1>5 DEF CreatedInv

LEMMA DropColumnCreated ==
  ASSUME CatalogInv, CreatedInv, DropColumnRow
  PROVE  CreatedInv'
<1>1. PICK name, places : name = op.name /\ places = ColumnRowsAhead
  OBVIOUS
<1>2. PICK place : place = First(places)
  OBVIOUS
<1>3. PICK new : new = DeleteAt(columns, place)
  OBVIOUS
<1>4. /\ pc = "drop_columns" /\ pc' = "drop_columns" /\ places # {} /\ files' = files /\ op' = op
      /\ schema' = [schema EXCEPT !.davisbase_columns = new] /\ created' = created
  BY <1>1, <1>2, <1>3 DEF DropColumnRow, columns, history
<1>5. places = At(columns, name)
  BY <1>1, <1>4, AllAhead
<1>6. tables' = tables /\ columns' = new /\ columns \in Leaves(ColumnRow)
  BY <1>4, ColumnsWritten DEF CatalogInv, SchemaTyped
<1>7. place \in places /\ \A other \in places : Before(place, other)
  BY <1>2, <1>4, <1>5, <1>6, FirstRow
<1>8. Ahead(columns, name, place) /\ place \in At(columns, name)
  BY <1>5, <1>7 DEF Ahead
<1>9. DeletedAt(columns, new, place)
  BY <1>3 DEF DeletedAt
<1>10. Loses(columns, new, name)
  BY <1>6, <1>8, <1>9, InfoLost
<1>11. name \notin DOMAIN created
  BY <1>1, <1>4 DEF CreatedInv, CreatedApart, DropPhases
<1>12. Wholes'
  <2>1. \A other \in DOMAIN created : Info(new, other) = Info(columns, other)
    BY <1>10, <1>11 DEF Loses
  <2> QED BY <1>4, <1>6, <2>1 DEF CreatedInv, Wholes, Whole
<1>13. CreatedApart' /\ CreateHasWritten'
  BY <1>1, <1>4, <1>11
  DEF CreatedInv, CreatedApart, CreateHasWritten, BootstrapPhases, CreatePhases, DropPhases
<1> QED BY <1>12, <1>13 DEF CreatedInv

LEMMA RemoveFileCreated ==
  ASSUME CreatedInv, RemoveFile
  PROVE  CreatedInv'
<1>1. PICK name : name = op.name
  OBVIOUS
<1>2. /\ pc = "drop_columns" /\ pc' = "idle" /\ files' = Without(files, name) /\ schema' = schema
      /\ created' = created
  BY <1>1 DEF RemoveFile, EndStatement, history
<1>3. tables' = tables /\ columns' = columns
  BY <1>2 DEF tables, columns
<1>4. name \notin DOMAIN created
  BY <1>1, <1>2 DEF CreatedInv, CreatedApart, DropPhases
<1>5. \A other \in DOMAIN files : other # name => other \in DOMAIN files' /\ files'[other] = files[other]
  BY <1>2 DEF Without
<1>6. Wholes'
  BY <1>2, <1>3, <1>4, <1>5 DEF CreatedInv, Wholes, Whole
<1>7. CreatedApart' /\ CreateHasWritten'
  BY <1>2 DEF CreatedInv, CreatedApart, CreateHasWritten, BootstrapPhases, CreatePhases, DropPhases
<1> QED BY <1>6, <1>7 DEF CreatedInv
(* The history marks the column that makeColumnUnique marks: the first of  *)
(* that name.                                                              *)
FirstOf(info, column) ==
  CHOOSE i \in DOMAIN info : info[i].column = column /\ \A j \in 1..i-1 : info[j].column # column

IsFirst(info, column, i) ==
  i \in DOMAIN info /\ info[i].column = column /\ \A j \in 1..i-1 : info[j].column # column

LEMMA FirstOfIs ==
  ASSUME NEW info \in Seq(InfoRow), NEW column, NEW k, IsFirst(info, column, k)
  PROVE  FirstOf(info, column) = k
<1>1. DOMAIN info \subseteq Nat \ {0}
  BY LenProperties
<1>2. PICK i : i = FirstOf(info, column)
  OBVIOUS
<1>3. \E m \in DOMAIN info : info[m].column = column /\ \A j \in 1..m-1 : info[j].column # column
  BY DEF IsFirst
<1>4. i \in DOMAIN info /\ info[i].column = column /\ \A j \in 1..i-1 : info[j].column # column
  BY <1>2, <1>3 DEF FirstOf
<1>5. k \in DOMAIN info /\ info[k].column = column /\ \A j \in 1..k-1 : info[j].column # column
  BY DEF IsFirst
<1>6. k \in Nat /\ k # 0 /\ i \in Nat /\ i # 0
  BY <1>1, <1>4, <1>5
<1>7. ~ (i < k)
  <2>1. i < k => i \in 1..k-1
    BY <1>6
  <2> QED BY <1>4, <1>5, <2>1
<1>8. ~ (k < i)
  <2>1. k < i => k \in 1..i-1
    BY <1>6
  <2> QED BY <1>4, <1>5, <2>1
<1> QED BY <1>2, <1>6, <1>7, <1>8

LEMMA MarkedIsFirst ==
  ASSUME NEW info, NEW more, NEW column, Marked(info, more, column)
  PROVE  /\ IsFirst(info, column, FirstOf(info, column))
         /\ more = [info EXCEPT ![FirstOf(info, column)].unique = TRUE]
<1>1. PICK first \in Seq({e \in InfoRow : e.column # column}), e \in InfoRow, last \in Seq(InfoRow) :
        /\ e.column = column
        /\ Between(info, first, e, last)
        /\ Between(more, first, [column |-> column, unique |-> TRUE], last)
  BY DEF Marked
<1>2. first \in Seq(InfoRow)
  <2>1. {d \in InfoRow : d.column # column} \subseteq InfoRow
    OBVIOUS
  <2> QED BY <1>1, <2>1
<1>3. PICK d : d = [column |-> column, unique |-> TRUE]
  OBVIOUS
<1>4. d \in InfoRow
  BY <1>1, <1>3 DEF InfoRow
<1>5. info = Append(first, e) \o last /\ more = Append(first, d) \o last
  BY <1>1, <1>3 DEF Between, Joined
<1>6. PICK n \in Nat : n = Len(first)
  BY LenProperties
<1>7. PICK k \in Nat : k = n+1
  OBVIOUS
<1>8. PICK m \in Nat : m = Len(last)
  BY LenProperties
<1>9. /\ info \in Seq(InfoRow) /\ Len(info) = n+1+m /\ info[k] = e
      /\ \A i \in 1..n : info[i] = first[i]
  BY <1>2, <1>5, <1>6, <1>7, <1>8, MiddleAt
<1>10. \A i \in 1..n : first[i].column # column
  <2> TAKE i \in 1..n
  <2>1. first[i] \in {c \in InfoRow : c.column # column}
    BY <1>1, <1>6, ElementOfSeq
  <2> QED BY <2>1
<1>11. IsFirst(info, column, k)
  <2>1. k \in DOMAIN info
    <3>1. k \in 1..n+1+m
      BY <1>7
    <3> QED BY <1>9, <3>1, LenProperties
  <2>2. \A j \in 1..k-1 : info[j].column # column
    <3> TAKE j \in 1..k-1
    <3>1. j \in 1..n
      BY <1>7
    <3> QED BY <1>9, <1>10, <3>1
  <2> QED BY <1>1, <1>9, <2>1, <2>2 DEF IsFirst
<1>12. FirstOf(info, column) = k
  BY <1>9, <1>11, FirstOfIs
<1>13. [info EXCEPT ![k] = d] = more
  BY <1>2, <1>4, <1>5, <1>6, <1>7, MiddleChanged
<1>14. [info EXCEPT ![k].unique = TRUE] = [info EXCEPT ![k] = d]
  <2>1. e = [column |-> column, unique |-> e.unique]
    BY <1>1 DEF InfoRow
  <2>2. [e EXCEPT !.unique = TRUE] = d
    <3>1. PICK u : e = [column |-> column, unique |-> u]
      BY <2>1
    <3>2. PICK t : t = TRUE
      OBVIOUS
    <3>3. [[column |-> column, unique |-> u] EXCEPT !.unique = t] = [column |-> column, unique |-> t]
      OBVIOUS
    <3>4. [e EXCEPT !.unique = t] = [column |-> column, unique |-> t]
      BY <3>1, <3>3
    <3>5. d = [column |-> column, unique |-> t]
      BY <1>3, <3>2
    <3>6. [e EXCEPT !.unique = t] = d
      BY <3>4, <3>5
    <3> QED BY <3>2, <3>6, Zenon
  <2>3. [info EXCEPT ![k].unique = TRUE] = [info EXCEPT ![k] = [info[k] EXCEPT !.unique = TRUE]]
    OBVIOUS
  <2> QED BY <1>9, <2>2, <2>3
<1> QED BY <1>11, <1>12, <1>13, <1>14

LEMMA IndexCreated ==
  ASSUME CatalogInv, CreatedInv, NEW name \in Names, NEW column \in Columns,
         MakeColumnUnique(name, column)
  PROVE  CreatedInv'
<1>1. PICK places :
        places = {at \in At(columns, name) : columns[at[1]].rows[at[2]].column = column}
  OBVIOUS
<1>2. PICK place : place = First(places)
  OBVIOUS
<1>3. PICK new : new = [columns EXCEPT ![place[1]].rows[place[2]].unique = TRUE]
  OBVIOUS
<1>4. /\ pc = "idle" /\ pc' = "idle" /\ places # {} /\ files' = files
      /\ schema' = [schema EXCEPT !.davisbase_columns = new]
  BY <1>1, <1>2, <1>3 DEF MakeColumnUnique, columns
<1>5. tables' = tables /\ columns' = new /\ columns \in Leaves(ColumnRow)
  BY <1>4, ColumnsWritten DEF CatalogInv, SchemaTyped
<1>6. PlacesOf(columns, name, column, places)
  BY <1>1 DEF PlacesOf
<1>7. IndexMade(columns, new, First(places))
  BY <1>2, <1>3 DEF IndexMade
<1>8. /\ Marked(Info(columns, name), Info(new, name), column)
      /\ OthersKeep(columns, new, name)
  BY <1>4, <1>5, <1>6, <1>7, InfoMarked
<1>9. PICK info, more : info = Info(columns, name) /\ more = Info(new, name)
  OBVIOUS
<1>10. more = [info EXCEPT ![FirstOf(info, column)].unique = TRUE]
  BY <1>8, <1>9, MarkedIsFirst
<1>11. created' = IF name \notin DOMAIN created THEN created
                  ELSE [created EXCEPT ![name] =
                          [@ EXCEPT ![FirstOf(created[name], column)].unique = TRUE]]
  BY DEF MakeColumnUnique, FirstOf
<1>12. Wholes'
  <2>1. CASE name \notin DOMAIN created
    <3>1. ASSUME NEW other \in DOMAIN created PROVE Info(new, other) = Info(columns, other)
      BY <1>8, <2>1 DEF OthersKeep
    <3> QED BY <1>4, <1>5, <1>11, <2>1, <3>1 DEF CreatedInv, Wholes, Whole
  <2>2. CASE name \in DOMAIN created
    <3>1. created[name] = info
      BY <1>9, <2>2 DEF CreatedInv, Wholes, Whole
    <3>2. created' = [created EXCEPT ![name] = more]
      BY <1>10, <1>11, <2>2, <3>1
    <3>3. ASSUME NEW other \in DOMAIN created
          PROVE  /\ other \in DOMAIN files /\ files[other] = "paged"
                 /\ At(tables, other) # {}
                 /\ Info(new, other) = created'[other]
      <4>1. /\ other \in DOMAIN files /\ files[other] = "paged" /\ At(tables, other) # {}
            /\ Info(columns, other) = created[other]
        BY DEF CreatedInv, Wholes, Whole
      <4>2. CASE other = name
        BY <1>9, <2>2, <3>2, <4>1, <4>2
      <4>3. CASE other # name
        BY <1>8, <3>2, <4>1, <4>3 DEF OthersKeep
      <4> QED BY <4>2, <4>3
    <3>4. DOMAIN created' = DOMAIN created
      BY <3>2
    <3> QED BY <1>4, <1>5, <3>3, <3>4 DEF Wholes, Whole
  <2> QED BY <2>1, <2>2
<1>13. DOMAIN created' = DOMAIN created
  BY <1>11
<1>14. CreatedApart' /\ CreateHasWritten'
  BY <1>4, <1>13
  DEF CreatedInv, CreatedApart, CreateHasWritten, BootstrapPhases, CreatePhases, DropPhases
<1> QED BY <1>12, <1>14 DEF CreatedInv

LEMMA EndCreated ==
  ASSUME CatalogInv, ColumnsInv, CreatedInv, End, pc # "down"
  PROVE  CreatedInv'
<1>1. /\ pc' = "down" /\ files' = files /\ schema' = [s \in SchemaTables |-> OnDisk(s)]
      /\ created' = IF unlinked = {} THEN created ELSE << >>
  BY DEF End
<1>2. CASE unlinked = {}
  <2>1. tables' = tables /\ columns' = columns
    BY <1>1, <1>2, SchemaNames DEF OnDisk, tables, columns
  <2>2. Wholes'
    BY <1>1, <1>2, <2>1 DEF CreatedInv, Wholes, Whole
  <2>3. ~ BothFilesExist => DOMAIN created = {}
    <3>1. CASE pc \in Unready
      <4>1. pc \in BootstrapPhases
        BY <3>1 DEF Unready, BootstrapPhases
      <4> QED BY <4>1 DEF CreatedInv, CreatedApart
    <3>2. CASE pc \notin Unready
      BY <1>2, <3>2, MadeColumns DEF BothFilesExist
    <3> QED BY <3>1, <3>2
  <2>4. CreatedApart' /\ CreateHasWritten'
    BY <1>1, <1>2, <2>3
    DEF CreatedInv, CreatedApart, CreateHasWritten, BothFilesExist, BootstrapPhases, CreatePhases,
        DropPhases
  <2> QED BY <2>2, <2>4 DEF CreatedInv
<1>3. CASE unlinked # {}
  <2>1. DOMAIN created' = {}
    BY <1>1, <1>3
  <2> QED BY <1>1, <2>1
      DEF CreatedInv, Wholes, CreatedApart, CreateHasWritten, CreatePhases, DropPhases
<1> QED BY <1>2, <1>3

LEMMA CreatedStep == CatalogInv /\ ColumnsInv /\ CreatedInv /\ [Next \/ Kill]_vars => CreatedInv'
<1> SUFFICES ASSUME CatalogInv, ColumnsInv, CreatedInv, [Next \/ Kill]_vars PROVE CreatedInv'
  OBVIOUS
<1>1. CASE \E name \in Names, definition \in Definitions : BeginCreate(name, definition)
  BY <1>1, BeginCreateCreated
<1>2. CASE \E name \in Names : BeginDrop(name)
  BY <1>2, BeginDropCreated
<1>3. CASE \E name \in Names, column \in Columns : MakeColumnUnique(name, column)
  BY <1>3, IndexCreated
<1>4. CASE StatementStep
  BY <1>4, CreateGoesOnCreated, AppendColumnCreated, CreateThrowsCreated, CreateReturnsCreated,
     DropTableCreated, DropColumnCreated, RemoveFileCreated
  DEF StatementStep
<1>5. CASE Start
  BY <1>5, StartCreated
<1>6. CASE Exit \/ Kill
  BY <1>6, EndCreated DEF Exit, Kill
<1>7. CASE UNCHANGED vars
  <2>1. files' = files /\ schema' = schema /\ pc' = pc /\ op' = op /\ created' = created
    BY <1>7 DEF vars, history
  <2>2. tables' = tables /\ columns' = columns
    BY <2>1 DEF tables, columns
  <2>3. Wholes'
    BY <2>1, <2>2 DEF CreatedInv, Wholes, Whole
  <2>4. CreatedApart' /\ CreateHasWritten'
    BY <2>1, <2>2 DEF CreatedInv, CreatedApart, CreateHasWritten, BothFilesExist
  <2> QED BY <2>3, <2>4 DEF CreatedInv
<1> QED BY <1>1, <1>2, <1>3, <1>4, <1>5, <1>6, <1>7 DEF Next

LEMMA CreatedInvariant == CrashSpec => []CreatedInv
<1> QED BY CatalogInvariant, ColumnsInvariant, CreatedInit, CreatedStep, PTL DEF CrashSpec

(* A table whose CREATE TABLE returned and that no DROP TABLE has touched  *)
(* keeps its file, its row in davisbase_tables and exactly its columns, in *)
(* order, with the indexes made since: whatever statement on another table *)
(* is refused, cut short by a kill or an exception, or goes through.       *)
THEOREM TablesStayWhole == CrashSpec => []CreatedTablesAreWhole
<1>1. CreatedInv => CreatedTablesAreWhole
  BY InfoIs DEF CreatedInv, Wholes, Whole, CreatedTablesAreWhole, HasEntry
<1> QED BY <1>1, CreatedInvariant, PTL

-----------------------------------------------------------------------------
(* The row ids of a schema table: where a row is, whether it is the last of *)
(* all, and whether the ids are below a next_row_id, or the last row has    *)
(* just taken it.                                                          *)

Placed(leaves, l, i) == l \in 1..Len(leaves) /\ i \in 1..Len(leaves[l].rows)
Ends(leaves, l, i) == l = Len(leaves) /\ i = Len(leaves[l].rows)
RowIn(leaves, l, i) == leaves[l].rows[i]
IdsBelow(leaves, n) == \A l, i : Placed(leaves, l, i) => RowIn(leaves, l, i).row_id < n
IdsUpTo(leaves, n) ==
  \A l, i : Placed(leaves, l, i) =>
    RowIn(leaves, l, i).row_id < n \/ (RowIn(leaves, l, i).row_id = n /\ Ends(leaves, l, i))
TakesId(leaves, n) ==
  LET rows == Last(leaves).rows IN rows # << >> => Last(rows).row_id < n
HasIds(R) == \A row \in R : row.row_id \in Nat

LEMMA RowsHaveIds == HasIds(TableRow) /\ HasIds(ColumnRow)
BY DEF HasIds, TableRow, ColumnRow

LEMMA LeafOf ==
  ASSUME NEW R, NEW leaves \in Leaves(R), NEW l \in 1..Len(leaves)
  PROVE  /\ leaves[l] \in FullLeaf(R) /\ leaves[l].rows \in Seq(R) /\ Len(leaves[l].rows) \in Nat
         /\ \A i \in 1..Len(leaves[l].rows) : leaves[l].rows[i] \in R
<1>1. leaves[l] \in FullLeaf(R)
  BY ElementOfSeq DEF Leaves
<1>2. leaves[l].rows \in Seq(R) /\ Len(leaves[l].rows) \in Nat
  BY <1>1, LeafRows
<1> QED BY <1>1, <1>2, ElementOfSeq

LEMMA LeafCount ==
  ASSUME NEW R, NEW leaves \in Leaves(R)
  PROVE  Len(leaves) \in Nat /\ (leaves # << >> => Len(leaves) \in 1..Len(leaves))
BY EmptySeq, LenProperties DEF Leaves

LEMMA TakesWhenLastBelow ==
  ASSUME NEW R, NEW leaves \in Leaves(R), leaves # << >>, NEW n
  PROVE  /\ TakesId(leaves, n) => \A l, i : Placed(leaves, l, i) /\ Ends(leaves, l, i)
                                              => RowIn(leaves, l, i).row_id < n
         /\ ~ TakesId(leaves, n) => \E l, i : /\ Placed(leaves, l, i) /\ Ends(leaves, l, i)
                                              /\ ~ RowIn(leaves, l, i).row_id < n
<1>1. PICK l : l = Len(leaves)
  OBVIOUS
<1>2. l \in 1..Len(leaves) /\ Last(leaves) = leaves[l]
  BY <1>1, LeafCount DEF Last
<1>3. PICK rows : rows = leaves[l].rows
  OBVIOUS
<1>4. rows \in Seq(R) /\ Len(rows) \in Nat
  BY <1>2, <1>3, LeafOf
<1>5. rows # << >> <=> Len(rows) \in 1..Len(rows)
  BY <1>4, EmptySeq
<1>6. Last(rows) = rows[Len(rows)]
  BY DEF Last
<1>7. TakesId(leaves, n) <=> (rows # << >> => rows[Len(rows)].row_id < n)
  BY <1>2, <1>3, <1>6 DEF TakesId
<1>8. ASSUME TakesId(leaves, n), NEW k, NEW i, Placed(leaves, k, i), Ends(leaves, k, i)
      PROVE  RowIn(leaves, k, i).row_id < n
  <2>1. k = l /\ i = Len(rows) /\ i \in 1..Len(rows)
    BY <1>1, <1>3, <1>8 DEF Ends, Placed
  <2> QED BY <1>3, <1>5, <1>7, <1>8, <2>1 DEF RowIn
<1>9. ASSUME ~ TakesId(leaves, n)
      PROVE  \E k, i : Placed(leaves, k, i) /\ Ends(leaves, k, i) /\ ~ RowIn(leaves, k, i).row_id < n
  <2>1. PICK i : i = Len(rows)
    OBVIOUS
  <2>2. Placed(leaves, l, i) /\ Ends(leaves, l, i)
    BY <1>1, <1>2, <1>3, <1>5, <1>7, <1>9, <2>1 DEF Placed, Ends
  <2>3. ~ RowIn(leaves, l, i).row_id < n
    BY <1>3, <1>7, <1>9, <2>1 DEF RowIn
  <2> QED BY <2>2, <2>3
<1> QED BY <1>8, <1>9

LEMMA IdsCounted ==
  ASSUME NEW R, HasIds(R), NEW leaves \in Leaves(R), NEW n \in Nat, IdsUpTo(leaves, n)
  PROVE  /\ IdsBelow(leaves, n + 1)
         /\ leaves # << >> /\ TakesId(leaves, n) => IdsBelow(leaves, n)
<1>1. ASSUME NEW l, NEW i, Placed(leaves, l, i) PROVE RowIn(leaves, l, i).row_id \in Nat
  BY <1>1, LeafOf DEF Placed, RowIn, HasIds
<1>2. IdsBelow(leaves, n + 1)
  <2> SUFFICES ASSUME NEW l, NEW i, Placed(leaves, l, i)
               PROVE  RowIn(leaves, l, i).row_id < n + 1
    BY DEF IdsBelow
  <2>1. PICK id \in Nat : id = RowIn(leaves, l, i).row_id
    BY <1>1
  <2>2. id < n \/ id = n
    BY <2>1 DEF IdsUpTo
  <2>3. id < n + 1
    BY <2>2
  <2> QED BY <2>1, <2>3
<1>3. ASSUME leaves # << >>, TakesId(leaves, n) PROVE IdsBelow(leaves, n)
  BY <1>3, TakesWhenLastBelow DEF IdsUpTo, IdsBelow
<1> QED BY <1>2, <1>3

LEMMA BelowIsUpTo ==
  ASSUME NEW leaves, NEW n, IdsBelow(leaves, n)
  PROVE  IdsUpTo(leaves, n)
BY DEF IdsBelow, IdsUpTo

(* An append makes its row the last, the others stay where they are.       *)
RowComesLast(leaves, new, row) ==
  /\ \A l, i : Placed(leaves, l, i) => Placed(new, l, i) /\ RowIn(new, l, i) = RowIn(leaves, l, i)
  /\ \A l, i : Placed(new, l, i) => Placed(leaves, l, i) \/ (Ends(new, l, i) /\ RowIn(new, l, i) = row)
  /\ \E l, i : Placed(new, l, i) /\ Ends(new, l, i) /\ RowIn(new, l, i) = row

LEMMA AppendComesLast ==
  ASSUME NEW R, NEW leaves \in Leaves(R), leaves # << >>, NEW row \in R,
         NEW new, Appended(leaves, new, row)
  PROVE  RowComesLast(leaves, new, row)
<1>1. PICK n : n = Len(leaves)
  OBVIOUS
<1>2. n \in Nat /\ n \in 1..n /\ Last(leaves) = leaves[n] /\ leaves \in Seq(FullLeaf(R))
  BY <1>1, LeafCount DEF Last, Leaves
<1>3. /\ leaves[n] \in FullLeaf(R) /\ leaves[n].rows \in Seq(R) /\ Len(leaves[n].rows) \in Nat
  BY <1>1, <1>2, LeafOf
<1>4. PICK m : m = Len(leaves[n].rows) + 1
  OBVIOUS
<1>5. CASE Last(leaves).used < LeafCapacity
  <2>1. PICK rows : rows = Append(leaves[n].rows, row)
    OBVIOUS
  <2>2. PICK used : used = leaves[n].used + 1
    OBVIOUS
  <2>4. /\ rows \in Seq(R) /\ Len(rows) = m
        /\ \A j \in 1..Len(leaves[n].rows) : rows[j] = leaves[n].rows[j]
        /\ rows[m] = row
    BY <1>3, <1>4, <2>1, AppendProperties
  <2>5. used \in 0..LeafCapacity /\ Len(rows) <= used
    BY <1>2, <1>3, <1>4, <1>5, <2>2, <2>4, LeafRows
  <2>6. PICK longer : longer = [leaves[n] EXCEPT !.rows = rows]
    OBVIOUS
  <2>7. PICK leaf : leaf = [longer EXCEPT !.used = used]
    OBVIOUS
  <2>8. longer \in Leaf(R) /\ longer.rows = rows
    BY <1>3, <2>4, <2>6 DEF FullLeaf, Leaf
  <2>9. leaf \in FullLeaf(R) /\ leaf.rows = rows
    BY <2>5, <2>7, <2>8 DEF FullLeaf, Leaf
  <2>10. new = [leaves EXCEPT ![n] = leaf]
    BY <1>1, <1>3, <1>5, <2>1, <2>2, <2>6, <2>7 DEF Appended, AppendRow, FullLeaf, Leaf
  <2>11. /\ Len(new) = n
         /\ \A k \in 1..n : new[k] = IF k = n THEN leaf ELSE leaves[k]
    BY <1>1, <1>2, <2>9, <2>10, Replaced
  <2>12. \A k \in 1..n : k # n => new[k].rows = leaves[k].rows
    BY <2>11
  <2>13. new[n].rows = rows
    BY <1>2, <2>9, <2>11
  <2>14. 1..m = 1..(m-1) \union {m} /\ m-1 = Len(leaves[n].rows) /\ m \in 1..m
    BY <1>3, <1>4
  <2>15. ASSUME NEW l, NEW i, Placed(leaves, l, i)
         PROVE  Placed(new, l, i) /\ RowIn(new, l, i) = RowIn(leaves, l, i)
    <3>1. l \in 1..n /\ i \in 1..Len(leaves[l].rows)
      BY <1>1, <2>15 DEF Placed
    <3>2. CASE l = n
      BY <2>4, <2>11, <2>13, <2>14, <3>1, <3>2 DEF Placed, RowIn
    <3>3. CASE l # n
      BY <2>11, <2>12, <3>1, <3>3 DEF Placed, RowIn
    <3> QED BY <3>2, <3>3
  <2>16. ASSUME NEW l, NEW i, Placed(new, l, i)
         PROVE  Placed(leaves, l, i) \/ (Ends(new, l, i) /\ RowIn(new, l, i) = row)
    <3>1. l \in 1..n /\ i \in 1..Len(new[l].rows)
      BY <2>11, <2>16 DEF Placed
    <3>2. CASE l = n
      <4>1. i \in 1..(m-1) \/ i = m
        BY <2>4, <2>13, <2>14, <3>1, <3>2
      <4> QED BY <1>1, <2>4, <2>11, <2>13, <2>14, <3>1, <3>2, <4>1 DEF Placed, RowIn, Ends
    <3>3. CASE l # n
      BY <1>1, <2>12, <3>1, <3>3 DEF Placed
    <3> QED BY <3>2, <3>3
  <2>17. Placed(new, n, m) /\ Ends(new, n, m) /\ RowIn(new, n, m) = row
    BY <1>2, <2>4, <2>11, <2>13, <2>14 DEF Placed, Ends, RowIn
  <2> QED BY <2>15, <2>16, <2>17 DEF RowComesLast
<1>6. CASE ~ Last(leaves).used < LeafCapacity
  <2>1. PICK leaf : leaf = [rows |-> <<row>>, used |-> 1]
    OBVIOUS
  <2>2. new = Append(leaves, leaf)
    BY <1>6, <2>1 DEF Appended, AppendRow
  <2>3. LeafCapacity \in Nat /\ 1 <= LeafCapacity
    BY <1>3, LeafRows
  <2>4. leaf \in FullLeaf(R) /\ leaf.rows = <<row>>
    <3>1. <<row>> \in Seq(R) /\ Len(<<row>>) = 1
      OBVIOUS
    <3>2. 1 \in 0..LeafCapacity
      BY <2>3
    <3>3. leaf \in Leaf(R) /\ leaf.rows = <<row>> /\ leaf.used = 1
      BY <2>1, <3>1, <3>2 DEF Leaf
    <3>4. Len(leaf.rows) <= leaf.used
      BY <3>1, <3>3
    <3> QED BY <3>3, <3>4 DEF FullLeaf
  <2>5. /\ Len(new) = n + 1 /\ new[n+1] = leaf /\ \A k \in 1..n : new[k] = leaves[k]
    BY <1>1, <1>2, <2>2, <2>4, AppendProperties
  <2>6. Len(leaf.rows) = 1 /\ leaf.rows[1] = row
    BY <2>4
  <2>7. n+1 \notin 1..n /\ 1..(n+1) = 1..n \union {n+1} /\ 1..1 = {1}
    BY <1>2
  <2>8. ASSUME NEW l, NEW i, Placed(leaves, l, i)
        PROVE  Placed(new, l, i) /\ RowIn(new, l, i) = RowIn(leaves, l, i)
    BY <1>1, <2>5, <2>7, <2>8 DEF Placed, RowIn
  <2>9. ASSUME NEW l, NEW i, Placed(new, l, i)
        PROVE  Placed(leaves, l, i) \/ (Ends(new, l, i) /\ RowIn(new, l, i) = row)
    <3>1. l \in 1..n \/ l = n+1
      BY <2>5, <2>7, <2>9 DEF Placed
    <3>2. CASE l \in 1..n
      BY <1>1, <2>5, <2>9, <3>2 DEF Placed
    <3>3. CASE l = n+1
      BY <2>5, <2>6, <2>7, <2>9, <3>3 DEF Placed, Ends, RowIn
    <3> QED BY <3>1, <3>2, <3>3
  <2>10. Placed(new, n+1, 1) /\ Ends(new, n+1, 1) /\ RowIn(new, n+1, 1) = row
    BY <1>2, <2>5, <2>6, <2>7 DEF Placed, Ends, RowIn
  <2> QED BY <2>8, <2>9, <2>10 DEF RowComesLast
<1> QED BY <1>5, <1>6

(* So a table that takes the next id has it in its last row.               *)
LEMMA IdsAfterAppend ==
  ASSUME NEW R, HasIds(R), NEW leaves \in Leaves(R), leaves # << >>, NEW row \in R,
         NEW new, Appended(leaves, new, row), NEW n \in Nat, n = row.row_id,
         IdsBelow(leaves, n)
  PROVE  /\ IdsUpTo(new, n) /\ IdsBelow(new, n + 1)
         /\ \A m \in Nat : m <= n => ~ TakesId(new, m)
<1>1. RowComesLast(leaves, new, row)
  BY AppendComesLast
<1>2. new \in Leaves(R) /\ new # << >>
  BY RowAppended
<1>3. IdsUpTo(new, n)
  <2> SUFFICES ASSUME NEW l, NEW i, Placed(new, l, i)
               PROVE  RowIn(new, l, i).row_id < n \/ (RowIn(new, l, i).row_id = n /\ Ends(new, l, i))
    BY DEF IdsUpTo
  <2>1. CASE Placed(leaves, l, i)
    BY <1>1, <2>1 DEF RowComesLast, IdsBelow
  <2>2. CASE Ends(new, l, i) /\ RowIn(new, l, i) = row
    BY <2>2
  <2> QED BY <1>1, <2>1, <2>2 DEF RowComesLast
<1>4. ASSUME NEW m \in Nat, m <= n PROVE ~ TakesId(new, m)
  <2>1. PICK l, i : Placed(new, l, i) /\ Ends(new, l, i) /\ RowIn(new, l, i) = row
    BY <1>1 DEF RowComesLast
  <2>2. ~ row.row_id < m
    BY <1>4
  <2> QED BY <1>2, <2>1, <2>2, TakesWhenLastBelow
<1> QED BY <1>2, <1>3, <1>4, IdsCounted

(* A deletion moves rows within their leaf, the last one of all stays it.  *)
RowsMoveUp(leaves, new) ==
  \A l, j : Placed(new, l, j) =>
    \E i : /\ Placed(leaves, l, i) /\ RowIn(new, l, j) = RowIn(leaves, l, i)
           /\ Ends(leaves, l, i) => Ends(new, l, j)

LEMMA DeleteMovesUp ==
  ASSUME NEW R, NEW leaves \in Leaves(R), NEW name, NEW place \in At(leaves, name),
         NEW new, DeletedAt(leaves, new, place)
  PROVE  RowsMoveUp(leaves, new)
<1>1. PICK k : k = place[1]
  OBVIOUS
<1>2. PICK m : m = place[2]
  OBVIOUS
<1>3. <<k, m>> \in At(leaves, name) /\ place = <<k, m>>
  BY <1>1, <1>2, Places
<1>4. k \in 1..Len(leaves) /\ m \in 1..Len(leaves[k].rows)
  BY <1>3, Places DEF RowAt
<1>5. PICK rows : rows = leaves[k].rows
  OBVIOUS
<1>6. /\ leaves[k] \in FullLeaf(R) /\ rows \in Seq(R) /\ Len(rows) \in Nat /\ m \in 1..Len(rows)
  BY <1>4, <1>5, LeafOf
<1>7. PICK rest : rest = RemoveAt(rows, m)
  OBVIOUS
<1>8. /\ rest \in Seq(R) /\ Len(rest) = Len(rows) - 1
      /\ \A j \in 1..Len(rest) : rest[j] = IF j < m THEN rows[j] ELSE rows[j + 1]
  BY <1>6, <1>7, RowRemoved
<1>9. PICK leaf : leaf = [leaves[k] EXCEPT !.rows = rest]
  OBVIOUS
<1>10. leaf \in FullLeaf(R) /\ leaf.rows = rest
  <2>1. Len(rest) <= leaves[k].used
    BY <1>5, <1>6, <1>8, LeafRows
  <2> QED BY <1>6, <1>8, <1>9, <2>1 DEF FullLeaf, Leaf
<1>11. LeafBecomes(leaves, new, k, leaf)
  BY <1>1, <1>2, <1>5, <1>7, <1>9 DEF DeletedAt, DeleteAt, LeafBecomes
<1>12. /\ Len(new) = Len(leaves)
       /\ \A l \in 1..Len(leaves) : new[l] = IF l = k THEN leaf ELSE leaves[l]
  BY <1>4, <1>10, <1>11, LeafWritten
<1>13. ASSUME NEW l, NEW j, Placed(new, l, j)
       PROVE  \E i : /\ Placed(leaves, l, i) /\ RowIn(new, l, j) = RowIn(leaves, l, i)
                     /\ Ends(leaves, l, i) => Ends(new, l, j)
  <2>1. l \in 1..Len(leaves) /\ j \in 1..Len(new[l].rows)
    BY <1>12, <1>13 DEF Placed
  <2>2. CASE l # k
    <3>1. new[l] = leaves[l]
      BY <1>12, <2>1, <2>2
    <3> QED BY <1>12, <2>1, <3>1 DEF Placed, RowIn, Ends
  <2>3. CASE l = k
    <3>1. new[l].rows = rest /\ leaves[l].rows = rows
      BY <1>5, <1>10, <1>12, <2>1, <2>3
    <3>2. j \in 1..Len(rest) /\ j \in Nat /\ Len(rest) \in Nat
      BY <1>6, <1>8, <2>1, <3>1
    <3>3. CASE j < m
      <4>1. j \in 1..Len(rows) /\ j # Len(rows) /\ rest[j] = rows[j]
        BY <1>6, <1>8, <3>2, <3>3
      <4> QED BY <2>1, <3>1, <4>1 DEF Placed, RowIn, Ends
    <3>4. CASE ~ j < m
      <4>1. j + 1 \in 1..Len(rows) /\ rest[j] = rows[j + 1] /\ (j + 1 = Len(rows) => j = Len(rest))
        BY <1>6, <1>8, <3>2, <3>4
      <4>2. Placed(leaves, l, j + 1) /\ RowIn(new, l, j) = RowIn(leaves, l, j + 1)
        BY <2>1, <3>1, <4>1 DEF Placed, RowIn
      <4>3. Ends(leaves, l, j + 1) => Ends(new, l, j)
        BY <1>12, <3>1, <4>1 DEF Ends
      <4> QED BY <4>2, <4>3
    <3> QED BY <3>3, <3>4
  <2> QED BY <2>2, <2>3
<1> QED BY <1>13 DEF RowsMoveUp

LEMMA IdsAfterDelete ==
  ASSUME NEW leaves, NEW new, RowsMoveUp(leaves, new), NEW n
  PROVE  /\ IdsBelow(leaves, n) => IdsBelow(new, n)
         /\ IdsUpTo(leaves, n) => IdsUpTo(new, n)
<1>1. ASSUME IdsBelow(leaves, n) PROVE IdsBelow(new, n)
  BY <1>1 DEF IdsBelow, RowsMoveUp
<1>2. ASSUME IdsUpTo(leaves, n) PROVE IdsUpTo(new, n)
  BY <1>2 DEF IdsUpTo, RowsMoveUp
<1> QED BY <1>1, <1>2

(* A row that is written over keeps its id.                                *)
SameIds(leaves, new) ==
  /\ Len(new) = Len(leaves)
  /\ \A l \in 1..Len(leaves) :
       /\ Len(new[l].rows) = Len(leaves[l].rows)
       /\ \A i \in 1..Len(leaves[l].rows) : new[l].rows[i].row_id = leaves[l].rows[i].row_id

LEMMA WrittenOver ==
  ASSUME NEW R, NEW leaves \in Leaves(R), NEW l \in 1..Len(leaves),
         NEW i \in 1..Len(leaves[l].rows), NEW row \in R, row.row_id = leaves[l].rows[i].row_id,
         NEW new, RowBecomes(leaves, new, l, i, row)
  PROVE  /\ SameIds(leaves, new)
         /\ \A k, j : Placed(new, k, j) <=> Placed(leaves, k, j)
         /\ \A k, j : Placed(leaves, k, j) =>
              RowIn(new, k, j) = IF k = l /\ j = i THEN row ELSE RowIn(leaves, k, j)
<1>1. PICK rows : rows = leaves[l].rows
  OBVIOUS
<1>2. leaves[l] \in FullLeaf(R) /\ rows \in Seq(R) /\ i \in 1..Len(rows)
  BY <1>1, LeafOf
<1>3. PICK others : others = [rows EXCEPT ![i] = row]
  OBVIOUS
<1>4. /\ others \in Seq(R) /\ Len(others) = Len(rows)
      /\ \A j \in 1..Len(rows) : others[j] = IF j = i THEN row ELSE rows[j]
  BY <1>2, <1>3, Replaced
<1>5. PICK leaf : leaf = [leaves[l] EXCEPT !.rows = others]
  OBVIOUS
<1>6. leaf \in FullLeaf(R) /\ leaf.rows = others
  <2>1. Len(others) <= leaves[l].used
    BY <1>1, <1>2, <1>4, LeafRows
  <2> QED BY <1>2, <1>4, <1>5, <2>1 DEF FullLeaf, Leaf
<1>7. LeafBecomes(leaves, new, l, leaf)
  BY <1>1, <1>3, <1>5 DEF RowBecomes, LeafBecomes
<1>8. /\ Len(new) = Len(leaves)
      /\ \A k \in 1..Len(leaves) : new[k] = IF k = l THEN leaf ELSE leaves[k]
  BY <1>6, <1>7, LeafWritten
<1>9. ASSUME NEW k \in 1..Len(leaves)
      PROVE  /\ Len(new[k].rows) = Len(leaves[k].rows)
             /\ \A j \in 1..Len(leaves[k].rows) :
                  new[k].rows[j] = IF k = l /\ j = i THEN row ELSE leaves[k].rows[j]
  <2>1. CASE k = l
    BY <1>1, <1>4, <1>6, <1>8, <2>1
  <2>2. CASE k # l
    BY <1>8, <2>2
  <2> QED BY <2>1, <2>2
<1>10. SameIds(leaves, new)
  BY <1>8, <1>9 DEF SameIds
<1>11. \A k, j : Placed(new, k, j) <=> Placed(leaves, k, j)
  BY <1>8, <1>9 DEF Placed
<1>12. \A k, j : Placed(leaves, k, j) =>
         RowIn(new, k, j) = IF k = l /\ j = i THEN row ELSE RowIn(leaves, k, j)
  BY <1>9 DEF Placed, RowIn
<1> QED BY <1>10, <1>11, <1>12

LEMMA IdsOfSame ==
  ASSUME NEW R, NEW leaves \in Leaves(R), NEW new \in Leaves(R), leaves # << >>,
         SameIds(leaves, new), NEW n
  PROVE  /\ IdsBelow(leaves, n) => IdsBelow(new, n)
         /\ IdsUpTo(leaves, n) => IdsUpTo(new, n)
         /\ ~ TakesId(leaves, n) => ~ TakesId(new, n)
<1>1. \A l, i : Placed(new, l, i) <=> Placed(leaves, l, i)
  BY DEF SameIds, Placed
<1>2. \A l, i : Placed(leaves, l, i) => RowIn(new, l, i).row_id = RowIn(leaves, l, i).row_id
  BY DEF SameIds, Placed, RowIn
<1>3. \A l, i : Placed(leaves, l, i) => (Ends(new, l, i) <=> Ends(leaves, l, i))
  BY DEF SameIds, Placed, Ends
<1>4. ASSUME IdsBelow(leaves, n) PROVE IdsBelow(new, n)
  BY <1>1, <1>2, <1>4 DEF IdsBelow
<1>5. ASSUME IdsUpTo(leaves, n) PROVE IdsUpTo(new, n)
  BY <1>1, <1>2, <1>3, <1>5 DEF IdsUpTo
<1>6. ASSUME ~ TakesId(leaves, n) PROVE ~ TakesId(new, n)
  <2>1. PICK l, i : Placed(leaves, l, i) /\ Ends(leaves, l, i) /\ ~ RowIn(leaves, l, i).row_id < n
    BY <1>6, TakesWhenLastBelow
  <2>2. Placed(new, l, i) /\ Ends(new, l, i) /\ ~ RowIn(new, l, i).row_id < n
    BY <1>1, <1>2, <1>3, <2>1
  <2>3. new # << >>
    <3>1. Len(leaves) \in 1..Len(leaves) /\ Len(new) = Len(leaves)
      BY LeafCount DEF SameIds
    <3> QED BY <3>1
  <2> QED BY <2>2, <2>3, TakesWhenLastBelow
<1> QED BY <1>4, <1>5, <1>6

-----------------------------------------------------------------------------
(* The row of davisbase_tables about a table.                               *)

StoredIn(leaves, name) == LET at == First(At(leaves, name)) IN leaves[at[1]].rows[at[2]].next_row_id

LEMMA EntryIs ==
  ASSUME NEW leaves \in Leaves(TableRow), Single(leaves), NEW name
  PROVE  /\ At(leaves, name) # {} =>
              \E l, i : /\ Placed(leaves, l, i) /\ RowIn(leaves, l, i) \in TableRow
                        /\ RowIn(leaves, l, i).table = name
                        /\ First(At(leaves, name)) = <<l, i>>
                        /\ StoredIn(leaves, name) = RowIn(leaves, l, i).next_row_id
         /\ \A l, i : Placed(leaves, l, i) /\ RowIn(leaves, l, i).table = name =>
              At(leaves, name) # {} /\ StoredIn(leaves, name) = RowIn(leaves, l, i).next_row_id
<1>1. PICK places : places = At(leaves, name)
  OBVIOUS
<1>2. PICK first : first = First(places)
  OBVIOUS
<1>3. ASSUME places # {}
      PROVE  /\ first \in places /\ first = <<first[1], first[2]>>
             /\ Placed(leaves, first[1], first[2])
             /\ RowIn(leaves, first[1], first[2]) \in TableRow
             /\ RowIn(leaves, first[1], first[2]).table = name
  <2>1. /\ first \in places
        /\ first[1] \in 1..Len(leaves) /\ first[2] \in 1..Len(leaves[first[1]].rows)
        /\ leaves[first[1]].rows[first[2]] \in TableRow
        /\ leaves[first[1]].rows[first[2]].table = name
    BY <1>1, <1>2, <1>3, FirstRow
  <2> QED BY <1>1, <2>1, Places DEF Placed, RowIn
<1>4. StoredIn(leaves, name) = RowIn(leaves, first[1], first[2]).next_row_id
  BY <1>1, <1>2 DEF StoredIn, RowIn
<1>5. ASSUME NEW l, NEW i, Placed(leaves, l, i), RowIn(leaves, l, i).table = name
      PROVE  places # {} /\ StoredIn(leaves, name) = RowIn(leaves, l, i).next_row_id
  <2>1. <<l, i>> \in At(leaves, name)
    BY <1>5, Places DEF RowAt, Placed, RowIn
  <2>2. places # {} /\ first = <<l, i>>
    BY <1>1, <1>3, <2>1 DEF Single
  <2>3. first[1] = l /\ first[2] = i
    BY <2>2
  <2> QED BY <1>4, <2>2, <2>3
<1> QED BY <1>1, <1>2, <1>3, <1>4, <1>5

LEMMA StoredAfterAppend ==
  ASSUME NEW leaves \in Leaves(TableRow), leaves # << >>, Single(leaves), NEW row \in TableRow,
         At(leaves, row.table) = {}, NEW new, Appended(leaves, new, row)
  PROVE  /\ StoredIn(new, row.table) = row.next_row_id
         /\ \A name : At(leaves, name) # {} => StoredIn(new, name) = StoredIn(leaves, name)
<1>1. new \in Leaves(TableRow) /\ Single(new)
  BY TableAdded
<1>2. RowComesLast(leaves, new, row)
  BY AppendComesLast
<1>3. StoredIn(new, row.table) = row.next_row_id
  <2>1. PICK l, i : Placed(new, l, i) /\ RowIn(new, l, i) = row
    BY <1>2 DEF RowComesLast
  <2> QED BY <1>1, <2>1, EntryIs
<1>4. ASSUME NEW name, At(leaves, name) # {} PROVE StoredIn(new, name) = StoredIn(leaves, name)
  <2>1. PICK l, i : /\ Placed(leaves, l, i) /\ RowIn(leaves, l, i).table = name
                    /\ StoredIn(leaves, name) = RowIn(leaves, l, i).next_row_id
    BY <1>4, EntryIs
  <2>2. Placed(new, l, i) /\ RowIn(new, l, i) = RowIn(leaves, l, i)
    BY <1>2, <2>1 DEF RowComesLast
  <2> QED BY <1>1, <2>1, <2>2, EntryIs
<1> QED BY <1>3, <1>4

LEMMA StoredAfterDelete ==
  ASSUME NEW leaves \in Leaves(TableRow), Single(leaves), NEW new \in Leaves(TableRow), Single(new),
         RowsMoveUp(leaves, new), NEW name, At(new, name) # {}
  PROVE  StoredIn(new, name) = StoredIn(leaves, name)
<1>1. PICK l, j : /\ Placed(new, l, j) /\ RowIn(new, l, j).table = name
                  /\ StoredIn(new, name) = RowIn(new, l, j).next_row_id
  BY EntryIs
<1>2. PICK i : Placed(leaves, l, i) /\ RowIn(new, l, j) = RowIn(leaves, l, i)
  BY <1>1 DEF RowsMoveUp
<1> QED BY <1>1, <1>2, EntryIs

LEMMA StoredAfterStore ==
  ASSUME NEW leaves \in Leaves(TableRow), Single(leaves), NEW name, At(leaves, name) # {},
         NEW row_id \in Nat, NEW new, NextStored(leaves, new, name, row_id)
  PROVE  /\ new \in Leaves(TableRow) /\ Kept(leaves, new) /\ SameIds(leaves, new)
         /\ StoredIn(new, name) = row_id
         /\ \A other : other # name /\ At(leaves, other) # {} =>
              StoredIn(new, other) = StoredIn(leaves, other)
<1>1. PICK l, i : /\ Placed(leaves, l, i) /\ RowIn(leaves, l, i) \in TableRow
                  /\ RowIn(leaves, l, i).table = name /\ First(At(leaves, name)) = <<l, i>>
  BY EntryIs
<1>2. PICK row : row = [RowIn(leaves, l, i) EXCEPT !.next_row_id = row_id]
  OBVIOUS
<1>3. /\ row \in TableRow /\ row.table = name /\ row.next_row_id = row_id
      /\ row.row_id = RowIn(leaves, l, i).row_id
  BY <1>1, <1>2 DEF TableRow
<1>4. RowBecomes(leaves, new, l, i, row)
  <2>1. PICK first : first = First(At(leaves, name))
    OBVIOUS
  <2>2. new = [leaves EXCEPT ![first[1]].rows[first[2]].next_row_id = row_id]
    BY <2>1 DEF NextStored, StoreNext
  <2>3. first[1] = l /\ first[2] = i
    BY <1>1, <2>1
  <2>4. new = [leaves EXCEPT ![l].rows[i].next_row_id = row_id]
    BY <2>2, <2>3
  <2> QED BY <1>2, <2>4 DEF RowBecomes, RowIn
<1>5. new \in Leaves(TableRow) /\ Kept(leaves, new)
  BY StoreKeepsRows
<1>6. Single(new)
  BY <1>5 DEF Single, Kept
<1>7. l \in 1..Len(leaves) /\ i \in 1..Len(leaves[l].rows)
  BY <1>1 DEF Placed
<1>8. row.row_id = leaves[l].rows[i].row_id
  BY <1>3 DEF RowIn
<1>9. /\ SameIds(leaves, new)
      /\ \A k, j : Placed(new, k, j) <=> Placed(leaves, k, j)
      /\ \A k, j : Placed(leaves, k, j) =>
           RowIn(new, k, j) = IF k = l /\ j = i THEN row ELSE RowIn(leaves, k, j)
  BY <1>3, <1>4, <1>7, <1>8, WrittenOver
<1>10. StoredIn(new, name) = row_id
  <2>1. Placed(new, l, i) /\ RowIn(new, l, i) = row
    BY <1>1, <1>9
  <2> QED BY <1>3, <1>5, <1>6, <2>1, EntryIs
<1>11. ASSUME NEW other, other # name, At(leaves, other) # {}
       PROVE  StoredIn(new, other) = StoredIn(leaves, other)
  <2>1. PICK k, j : /\ Placed(leaves, k, j) /\ RowIn(leaves, k, j).table = other
                    /\ StoredIn(leaves, other) = RowIn(leaves, k, j).next_row_id
    BY <1>11, EntryIs
  <2>2. ~ (k = l /\ j = i)
    BY <1>1, <1>11, <2>1
  <2>3. Placed(new, k, j) /\ RowIn(new, k, j) = RowIn(leaves, k, j)
    BY <1>9, <2>1, <2>2
  <2> QED BY <1>5, <1>6, <2>1, <2>3, EntryIs
<1> QED BY <1>5, <1>9, <1>10, <1>11

-----------------------------------------------------------------------------
(* A schema table refuses rows whose last row no next_row_id stored for it *)
(* is above, as a bootstrap that was cut short leaves it, and only rows    *)
(* about the schema tables themselves; and so does one that a process      *)
(* finds without all its columns.  It is sound when all ids are below the  *)
(* next_row_id stored, but for a last row that a kill has left uncounted,  *)
(* and when its columns are there.                                         *)
Refuses(leaves, stored, found, s) ==
  \/ ~ TakesId(leaves, stored) /\ Within(leaves, SchemaTables)
  \/ Len(found) # Len(SchemaColumns[s])
Sound(leaves, stored, found, s) == IdsUpTo(leaves, stored) /\ found = SchemaColumns[s]

TablesRefuse(ts, cs) ==
  Refuses(ts, StoredIn(ts, "davisbase_tables"), Found(cs, "davisbase_tables"), "davisbase_tables")
ColumnsRefuse(ts, cs) ==
  Refuses(cs, StoredIn(ts, "davisbase_columns"), Found(cs, "davisbase_columns"), "davisbase_columns")
TablesSound(ts, cs) ==
  Sound(ts, StoredIn(ts, "davisbase_tables"), Found(cs, "davisbase_tables"), "davisbase_tables")
ColumnsSound(ts, cs) ==
  Sound(cs, StoredIn(ts, "davisbase_columns"), Found(cs, "davisbase_columns"), "davisbase_columns")

BothEntries(ts) == \A s \in SchemaTables : At(ts, s) # {}
SchemaSound(ts, cs) ==
  BothEntries(ts) =>
    TablesRefuse(ts, cs) \/ (TablesSound(ts, cs) /\ (ColumnsRefuse(ts, cs) \/ ColumnsSound(ts, cs)))
FoundOnDisk == unlinked = {} /\ pc \notin BootstrapPhases => SchemaSound(tables, columns)

(* What a process that runs knows of the schema tables is what they hold.  *)
DropsSchemaTable == pc = "drop_columns" /\ op.name \in SchemaTables
MemoryIs(ts, cs, ids, counts) ==
  /\ BothEntries(ts)
  /\ \A s \in SchemaTables : ids[s] = StoredIn(ts, s) /\ counts[s] = Len(Found(cs, s))
InMemory ==
  unlinked = {} /\ pc \notin {"down"} \union BootstrapPhases /\ ~ DropsSchemaTable =>
    MemoryIs(tables, columns, next, known)

(* A CREATE TABLE that gets anywhere does so on sound schema tables.       *)
Creating ==
  unlinked = {} /\ pc \in CreatePhases =>
    /\ op.name \notin SchemaTables /\ attempted[op.name] # << >>
    /\ pc \in {"write_root", "append_table", "count_table"} => Found(columns, op.name) = << >>
    /\ pc \in {"count_table", "append_column", "count_column"} => TablesSound(tables, columns)
    /\ pc \in {"append_column", "count_column"} => IdsBelow(tables, next["davisbase_tables"])
    /\ pc = "count_column" => ColumnsSound(tables, columns)
    /\ pc = "append_column" /\ Found(columns, op.name) # << >> =>
         ColumnsSound(tables, columns) /\ IdsBelow(columns, next["davisbase_columns"])

(* The schema tables in the making.                                        *)
Growing(leaves, n) ==
  /\ Within(leaves, SchemaTables) /\ IdsBelow(leaves, n)
  /\ NoRow(leaves) \/ ~ TakesId(leaves, 0)
Making ==
  /\ pc = "write_roots" /\ op.left # SchemaOrder =>
       known["davisbase_tables"] = Len(SchemaColumns["davisbase_tables"])
  /\ pc \in {"bootstrap_tables", "bootstrap_columns", "store_entries"} =>
       /\ Growing(tables, next["davisbase_tables"]) /\ Growing(columns, next["davisbase_columns"])
       /\ \A s \in SchemaTables : known[s] = Len(SchemaColumns[s])
  /\ pc = "bootstrap_tables" /\ op.left # SchemaOrder =>
       At(tables, "davisbase_tables") # {} /\ StoredIn(tables, "davisbase_tables") = 0
  /\ pc \in {"bootstrap_columns", "store_entries"} =>
       BothEntries(tables) /\ StoredIn(tables, "davisbase_columns") = 0
  /\ pc = "bootstrap_columns" =>
       /\ StoredIn(tables, "davisbase_tables") = 0
       /\ \A s \in SchemaTables : attempted[s] = SchemaColumns[s]
  /\ pc = "store_entries" => \A s \in SchemaTables : Found(columns, s) = SchemaColumns[s]
  /\ pc = "store_entries" /\ op.left = SchemaOrder => StoredIn(tables, "davisbase_tables") = 0
  /\ pc = "store_entries" /\ op.left # SchemaOrder =>
       StoredIn(tables, "davisbase_tables") = next["davisbase_tables"]

SchemaInv == FoundOnDisk /\ InMemory /\ Creating /\ Making

LEMMA SchemaInit == ASSUME Init PROVE SchemaInv
<1>1. pc = "down" /\ tables = << >>
  BY SchemaNames DEF Init, tables
<1>2. pc \notin BootstrapPhases \union CreatePhases
  BY <1>1 DEF BootstrapPhases, CreatePhases
<1>3. SchemaSound(tables, columns)
  <2>1. \A name : At(tables, name) = {}
    BY <1>1, NoRows
  <2>2. "davisbase_tables" \in SchemaTables
    BY SchemaNames
  <2> QED BY <2>1, <2>2 DEF SchemaSound, BothEntries
<1> QED BY <1>1, <1>2, <1>3 DEF SchemaInv, FoundOnDisk, InMemory, Creating, Making, BootstrapPhases

(* No schema table is made while a statement runs, and conversely.         *)
LEMMA Phases ==
  /\ BootstrapPhases = {"truncate", "write_roots", "bootstrap_tables", "bootstrap_columns",
                        "store_entries"}
  /\ CreatePhases = {"write_root", "append_table", "count_table", "append_column", "count_column"}
  /\ DropPhases = {"drop_table", "drop_columns"}
BY DEF BootstrapPhases, CreatePhases, DropPhases

LEMMA OutOfMaking ==
  ASSUME pc' \in {"idle", "down", "truncate"} \union CreatePhases \union DropPhases
  PROVE  Making'
BY Phases DEF Making

LEMMA OutOfCreating ==
  ASSUME pc' \notin CreatePhases
  PROVE  Creating'
BY DEF Creating

LEMMA SchemaTypes ==
  ASSUME CatalogInv
  PROVE  /\ tables \in Leaves(TableRow) /\ columns \in Leaves(ColumnRow) /\ Single(tables)
         /\ next \in [SchemaTables -> Nat] /\ known \in [SchemaTables -> Nat]
         /\ pc \notin Unready => tables # << >> /\ columns # << >>
         /\ DOMAIN schema = SchemaTables
BY DEF CatalogInv, SchemaTyped, SessionTyped, RowsNamed, StartUnderWay

LEMMA QuietSchema ==
  ASSUME SchemaInv, schema' = schema, next' = next, known' = known, unlinked' = unlinked,
         pc \in {"idle", "drop_table"} \union CreatePhases,
         pc' \in {"idle", "drop_table"} \union CreatePhases
  PROVE  FoundOnDisk' /\ InMemory' /\ Making' /\ tables' = tables /\ columns' = columns
<1>1. tables' = tables /\ columns' = columns
  BY DEF tables, columns
<1>2. FoundOnDisk'
  BY <1>1, Phases DEF SchemaInv, FoundOnDisk
<1>3. InMemory'
  BY <1>1, Phases DEF SchemaInv, InMemory, DropsSchemaTable
<1> QED BY <1>1, <1>2, <1>3, OutOfMaking, Phases

LEMMA BeginCreateSchema ==
  ASSUME CatalogInv, SchemaInv, NEW name \in Names, NEW definition \in Definitions,
         BeginCreate(name, definition)
  PROVE  SchemaInv'
<1>1. /\ pc = "idle" /\ pc' = "write_root" /\ name \notin DOMAIN files
      /\ schema' = schema /\ next' = next /\ known' = known /\ unlinked' = unlinked
      /\ op' = [name |-> name, columns |-> definition] /\ attempted' = Put(attempted, name, definition)
  BY DEF BeginCreate, session
<1>2. FoundOnDisk' /\ InMemory' /\ Making' /\ tables' = tables /\ columns' = columns
  BY <1>1, QuietSchema, Phases
<1>3. Creating'
  <2> SUFFICES ASSUME unlinked = {}
               PROVE  /\ name \notin SchemaTables /\ attempted'[name] # << >>
                      /\ Found(columns', name) = << >>
    BY <1>1 DEF Creating
  <2>1. name \notin SchemaTables
    <3>1. BothEntries(tables)
      BY <1>1, Phases DEF SchemaInv, InMemory, DropsSchemaTable, MemoryIs
    <3>2. Within(tables, DOMAIN files)
      BY DEF CatalogInv, RowsNamed
    <3> QED BY <1>1, <3>1, <3>2 DEF BothEntries, Within
  <2>2. attempted'[name] # << >>
    BY <1>1, CatalogAssumption DEF Put
  <2>3. At(columns, name) = {}
    BY <1>1 DEF CatalogInv, RowsNamed, Within
  <2>4. Found(columns, name) = << >>
    BY <2>3, NothingFound, SchemaTypes
  <2> QED BY <1>2, <2>1, <2>2, <2>4
<1> QED BY <1>2, <1>3 DEF SchemaInv

LEMMA QuietCreate ==
  ASSUME CatalogInv, SchemaInv,
         WriteRoot \/ CreateThrows \/ CreateReturns \/ \E name \in Names : BeginDrop(name)
  PROVE  SchemaInv'
<1>1. /\ schema' = schema /\ next' = next /\ known' = known /\ unlinked' = unlinked
      /\ pc \in {"idle", "write_root", "append_table", "append_column"}
      /\ pc' \in {"idle", "drop_table", "append_table"}
  BY DEF WriteRoot, CreateThrows, CreateReturns, BeginDrop, session, EndStatement
<1>2. FoundOnDisk' /\ InMemory' /\ Making' /\ tables' = tables /\ columns' = columns
  BY <1>1, QuietSchema, Phases
<1>3. Creating'
  <2>1. CASE WriteRoot
    <3>1. pc = "write_root" /\ pc' = "append_table" /\ op' = op /\ attempted' = attempted
      BY <2>1 DEF WriteRoot, history
    <3> QED BY <1>1, <1>2, <3>1, Phases DEF SchemaInv, Creating
  <2>2. CASE CreateThrows \/ CreateReturns \/ \E name \in Names : BeginDrop(name)
    <3>1. pc' \in {"idle", "drop_table"}
      BY <2>2 DEF CreateThrows, CreateReturns, BeginDrop, EndStatement
    <3> QED BY <3>1, OutOfCreating, Phases
  <2> QED BY <2>1, <2>2
<1> QED BY <1>2, <1>3 DEF SchemaInv

(* What keeps sound schema tables so: steps that change neither their      *)
(* entries nor their columns.                                              *)
LEMMA StaysSound ==
  ASSUME NEW ts, NEW cs, NEW nt, NEW nc, SchemaSound(ts, cs),
         BothEntries(nt) =>
           /\ BothEntries(ts)
           /\ \A s \in SchemaTables : StoredIn(nt, s) = StoredIn(ts, s) /\ Found(nc, s) = Found(cs, s)
           /\ TablesRefuse(ts, cs) => TablesRefuse(nt, nc)
           /\ TablesSound(ts, cs) => TablesSound(nt, nc)
           /\ ColumnsRefuse(ts, cs) => ColumnsRefuse(nt, nc)
           /\ ColumnsSound(ts, cs) => ColumnsSound(nt, nc)
  PROVE  SchemaSound(nt, nc)
BY DEF SchemaSound

LEMMA TablesAccept ==
  ASSUME CatalogInv, SchemaInv, unlinked = {}, pc \in CreatePhases, CanAppend("davisbase_tables")
  PROVE  TablesSound(tables, columns) /\ TakesId(tables, next["davisbase_tables"])
<1>1. pc \notin BootstrapPhases /\ pc \notin {"down"} \union BootstrapPhases /\ pc # "drop_columns"
  BY Phases
<1>2. MemoryIs(tables, columns, next, known)
  BY <1>1 DEF SchemaInv, InMemory, DropsSchemaTable
<1>3. /\ BothEntries(tables)
      /\ next["davisbase_tables"] = StoredIn(tables, "davisbase_tables")
      /\ known["davisbase_tables"] = Len(Found(columns, "davisbase_tables"))
  BY <1>2, SchemaNames DEF MemoryIs
<1>4. TakesId(tables, next["davisbase_tables"])
  BY DEF CanAppend, TakesId, tables
<1>5. ~ TablesRefuse(tables, columns)
  BY <1>3, <1>4 DEF CanAppend, TablesRefuse, Refuses
<1> QED BY <1>1, <1>3, <1>4, <1>5 DEF SchemaInv, FoundOnDisk, SchemaSound

LEMMA ColumnsAccept ==
  ASSUME CatalogInv, SchemaInv, unlinked = {}, pc \in CreatePhases, CanAppend("davisbase_columns"),
         TablesSound(tables, columns), TakesId(tables, next["davisbase_tables"])
  PROVE  ColumnsSound(tables, columns) /\ TakesId(columns, next["davisbase_columns"])
<1>1. pc \notin BootstrapPhases /\ pc \notin {"down"} \union BootstrapPhases /\ pc # "drop_columns"
  BY Phases
<1>2. MemoryIs(tables, columns, next, known)
  BY <1>1 DEF SchemaInv, InMemory, DropsSchemaTable
<1>3. /\ BothEntries(tables)
      /\ \A s \in {"davisbase_tables", "davisbase_columns"} :
           next[s] = StoredIn(tables, s) /\ known[s] = Len(Found(columns, s))
  BY <1>2, SchemaNames DEF MemoryIs
<1>4. TakesId(columns, next["davisbase_columns"])
  BY DEF CanAppend, TakesId, columns
<1>5. ~ ColumnsRefuse(tables, columns)
  BY <1>3, <1>4 DEF CanAppend, ColumnsRefuse, Refuses
<1>6. ~ TablesRefuse(tables, columns)
  BY <1>3 DEF TablesRefuse, TablesSound, Refuses, Sound
<1> QED BY <1>1, <1>3, <1>4, <1>5, <1>6 DEF SchemaInv, FoundOnDisk, SchemaSound

LEMMA BelowTakes ==
  ASSUME NEW R, NEW leaves \in Leaves(R), leaves # << >>, NEW n, IdsBelow(leaves, n)
  PROVE  TakesId(leaves, n)
BY TakesWhenLastBelow DEF IdsBelow

LEMMA AppendTableSchema ==
  ASSUME CatalogInv, SchemaInv, AppendTableRow
  PROVE  SchemaInv'
<1>1. PICK n : n = next["davisbase_tables"]
  OBVIOUS
<1>2. PICK row : row = [row_id |-> n, table |-> op.name, next_row_id |-> INITIAL_ROW_ID]
  OBVIOUS
<1>3. PICK new : new = AppendRow(tables, row)
  OBVIOUS
<1>4. /\ pc = "append_table" /\ pc' = "count_table" /\ CanAppend("davisbase_tables")
      /\ schema' = [schema EXCEPT !.davisbase_tables = new]
      /\ next' = next /\ known' = known /\ unlinked' = unlinked /\ op' = op /\ attempted' = attempted
  BY <1>1, <1>2, <1>3 DEF AppendTableRow, session, history, tables
<1>5. tables' = new /\ columns' = columns
  BY <1>4, TablesWritten DEF CatalogInv
<1>6. Making'
  BY <1>4, OutOfMaking, Phases
<1>7. /\ tables \in Leaves(TableRow) /\ tables # << >> /\ Single(tables) /\ n \in Nat
  BY <1>1, <1>4, SchemaTypes, SchemaNames DEF Unready
<1>8. op.name \in Names /\ At(tables, op.name) = {}
  BY <1>4, Phases DEF CatalogInv, OpTyped, StatementUnderWay
<1>9. row \in TableRow /\ row.table = op.name /\ row.row_id = n
  BY <1>2, <1>7, <1>8 DEF TableRow, INITIAL_ROW_ID
<1>10. Appended(tables, new, row)
  BY <1>3 DEF Appended
<1>11. SUFFICES ASSUME unlinked = {} PROVE FoundOnDisk' /\ InMemory' /\ Creating'
  BY <1>4, <1>6 DEF SchemaInv, FoundOnDisk, InMemory, Creating
<1>12. /\ op.name \notin SchemaTables /\ attempted[op.name] # << >> /\ Found(columns, op.name) = << >>
  BY <1>4, <1>11, Phases DEF SchemaInv, Creating
<1>13. TablesSound(tables, columns) /\ TakesId(tables, n)
  BY <1>1, <1>4, <1>11, TablesAccept, Phases
<1>14. MemoryIs(tables, columns, next, known)
  BY <1>4, <1>11, Phases DEF SchemaInv, InMemory, DropsSchemaTable
<1>15. BothEntries(tables) /\ n = StoredIn(tables, "davisbase_tables")
  BY <1>1, <1>14, SchemaNames DEF MemoryIs
<1>16. IdsUpTo(new, n)
  <2>1. IdsUpTo(tables, n)
    BY <1>13, <1>15 DEF TablesSound, Sound
  <2>2. IdsBelow(tables, n)
    BY <1>7, <1>13, <2>1, IdsCounted, RowsHaveIds
  <2> QED BY <1>7, <1>9, <1>10, <2>2, IdsAfterAppend, RowsHaveIds
<1>17. \A s \in SchemaTables : StoredIn(new, s) = StoredIn(tables, s)
  BY <1>7, <1>8, <1>9, <1>10, <1>15, StoredAfterAppend DEF BothEntries
<1>18. BothEntries(new)
  BY <1>7, <1>9, <1>10, <1>15, TableAdded DEF BothEntries
<1>19. /\ StoredIn(new, "davisbase_tables") = n
       /\ StoredIn(new, "davisbase_columns") = StoredIn(tables, "davisbase_columns")
  BY <1>15, <1>17, SchemaNames
<1>20. TablesSound(new, columns)
  BY <1>13, <1>16, <1>19 DEF TablesSound, Sound
<1>21. /\ ColumnsRefuse(tables, columns) => ColumnsRefuse(new, columns)
       /\ ColumnsSound(tables, columns) => ColumnsSound(new, columns)
  BY <1>19 DEF ColumnsRefuse, ColumnsSound
<1>22. FoundOnDisk'
  <2>1. SchemaSound(tables, columns)
    BY <1>4, <1>11, Phases DEF SchemaInv, FoundOnDisk
  <2>2. TablesSound(tables, columns) => ~ TablesRefuse(tables, columns)
    BY <1>13, <1>15 DEF TablesRefuse, TablesSound, Refuses, Sound
  <2>3. SchemaSound(new, columns)
    BY <1>13, <1>15, <1>20, <1>21, <2>1, <2>2 DEF SchemaSound
  <2> QED BY <1>5, <2>3 DEF FoundOnDisk
<1>23. InMemory'
  <2>1. MemoryIs(new, columns, next, known)
    BY <1>14, <1>17, <1>18 DEF MemoryIs
  <2> QED BY <1>4, <1>5, <2>1 DEF InMemory
<1>24. Creating'
  BY <1>4, <1>5, <1>12, <1>20 DEF Creating
<1> QED BY <1>22, <1>23, <1>24

LEMMA CountTableSchema ==
  ASSUME CatalogInv, CreatedInv, SchemaInv, CountTableRow
  PROVE  SchemaInv'
<1>1. PICK n : n = next["davisbase_tables"]
  OBVIOUS
<1>2. PICK new : new = StoreNext(tables, "davisbase_tables", n + 1)
  OBVIOUS
<1>3. /\ next \in [SchemaTables -> Nat] /\ tables \in Leaves(TableRow) /\ Single(tables) /\ n \in Nat
  BY <1>1, SchemaTypes, SchemaNames
<1>4. /\ pc = "count_table" /\ pc' = "append_column"
      /\ next' = [next EXCEPT !["davisbase_tables"] = n + 1]
      /\ known' = known /\ unlinked' = unlinked /\ op' = op /\ attempted' = attempted
  BY <1>1 DEF CountTableRow, CountRow, history
<1>5. next'["davisbase_tables"] = n + 1 /\ next'["davisbase_columns"] = next["davisbase_columns"]
  BY <1>3, <1>4, SchemaNames
<1>6. schema' = [schema EXCEPT !.davisbase_tables = new]
  BY <1>2, <1>5 DEF CountTableRow, CountRow, tables
<1>7. tables' = new /\ columns' = columns
  BY <1>6, TablesWritten DEF CatalogInv
<1>8. Making'
  BY <1>4, OutOfMaking, Phases
<1>9. SUFFICES ASSUME unlinked = {} PROVE FoundOnDisk' /\ InMemory' /\ Creating'
  BY <1>4, <1>8 DEF SchemaInv, FoundOnDisk, InMemory, Creating
<1>10. /\ op.name \notin SchemaTables /\ attempted[op.name] # << >> /\ Found(columns, op.name) = << >>
       /\ TablesSound(tables, columns)
  BY <1>4, <1>9, Phases DEF SchemaInv, Creating
<1>11. MemoryIs(tables, columns, next, known)
  BY <1>4, <1>9, Phases DEF SchemaInv, InMemory, DropsSchemaTable
<1>12. BothEntries(tables) /\ n = StoredIn(tables, "davisbase_tables")
  BY <1>1, <1>11, SchemaNames DEF MemoryIs
<1>13. At(tables, "davisbase_tables") # {} /\ At(tables, "davisbase_columns") # {}
  BY <1>12, SchemaNames DEF BothEntries
<1>14. /\ new \in Leaves(TableRow) /\ Kept(tables, new) /\ SameIds(tables, new)
       /\ StoredIn(new, "davisbase_tables") = n + 1
       /\ StoredIn(new, "davisbase_columns") = StoredIn(tables, "davisbase_columns")
  BY <1>2, <1>3, <1>13, StoredAfterStore DEF NextStored
<1>15. IdsBelow(new, n + 1)
  <2>1. IdsUpTo(tables, n)
    BY <1>10, <1>12 DEF TablesSound, Sound
  <2>2. IdsBelow(tables, n + 1)
    BY <1>3, <2>1, IdsCounted, RowsHaveIds
  <2>3. tables # << >>
    BY <1>4, SchemaTypes DEF Unready
  <2> QED BY <1>3, <1>14, <2>2, <2>3, IdsOfSame
<1>16. TablesSound(new, columns)
  BY <1>10, <1>14, <1>15, BelowIsUpTo DEF TablesSound, Sound
<1>17. /\ ColumnsRefuse(tables, columns) => ColumnsRefuse(new, columns)
       /\ ColumnsSound(tables, columns) => ColumnsSound(new, columns)
  BY <1>14 DEF ColumnsRefuse, ColumnsSound
<1>18. FoundOnDisk'
  <2>1. SchemaSound(tables, columns)
    BY <1>4, <1>9, Phases DEF SchemaInv, FoundOnDisk
  <2>2. ~ Within(tables, SchemaTables)
    BY <1>4, <1>10 DEF CreatedInv, CreateHasWritten, Within
  <2>4. ~ TablesRefuse(tables, columns)
    BY <1>10, <2>2 DEF TablesRefuse, TablesSound, Refuses, Sound
  <2>3. SchemaSound(new, columns)
    BY <1>12, <1>16, <1>17, <2>1, <2>4 DEF SchemaSound
  <2> QED BY <1>7, <2>3 DEF FoundOnDisk
<1>19. InMemory'
  <2>1. BothEntries(new)
    BY <1>12, <1>14 DEF BothEntries, Kept
  <2>2. \A s \in SchemaTables : next'[s] = StoredIn(new, s)
    BY <1>5, <1>11, <1>14, SchemaNames DEF MemoryIs
  <2>3. MemoryIs(new, columns, next', known)
    BY <1>11, <2>1, <2>2 DEF MemoryIs
  <2> QED BY <1>4, <1>7, <2>3 DEF InMemory
<1>20. Creating'
  BY <1>4, <1>5, <1>7, <1>10, <1>15, <1>16 DEF Creating
<1> QED BY <1>18, <1>19, <1>20

LEMMA AppendColumnSchema ==
  ASSUME CatalogInv, SchemaInv, AppendColumnRow
  PROVE  SchemaInv'
<1>1. PICK n : n = next["davisbase_columns"]
  OBVIOUS
<1>2. PICK row : row = [row_id |-> n, table |-> op.name, column |-> Head(op.columns), unique |-> FALSE]
  OBVIOUS
<1>3. PICK new : new = AppendRow(columns, row)
  OBVIOUS
<1>4. /\ pc = "append_column" /\ pc' = "count_column" /\ op.columns # << >>
      /\ CanAppend("davisbase_columns")
      /\ schema' = [schema EXCEPT !.davisbase_columns = new]
      /\ next' = next /\ known' = known /\ unlinked' = unlinked /\ op' = op /\ attempted' = attempted
  BY <1>1, <1>2, <1>3 DEF AppendColumnRow, session, history, columns
<1>5. tables' = tables /\ columns' = new
  BY <1>4, ColumnsWritten DEF CatalogInv
<1>6. Making'
  BY <1>4, OutOfMaking, Phases
<1>7. /\ columns \in Leaves(ColumnRow) /\ columns # << >> /\ n \in Nat
      /\ tables \in Leaves(TableRow) /\ tables # << >>
  BY <1>1, <1>4, SchemaTypes, SchemaNames DEF Unready
<1>8. op.name \in Names /\ op.columns \in Seq(Columns)
  BY <1>4, Phases DEF CatalogInv, OpTyped
<1>9. row \in ColumnRow /\ row.table = op.name /\ row.row_id = n
  <2>1. Head(op.columns) \in Columns
    BY <1>4, <1>8, HeadTailProperties
  <2> QED BY <1>2, <1>7, <1>8, <2>1 DEF ColumnRow
<1>10. Appended(columns, new, row)
  BY <1>3 DEF Appended
<1>11. SUFFICES ASSUME unlinked = {} PROVE FoundOnDisk' /\ InMemory' /\ Creating'
  BY <1>4, <1>6 DEF SchemaInv, FoundOnDisk, InMemory, Creating
<1>12. /\ op.name \notin SchemaTables /\ attempted[op.name] # << >>
       /\ TablesSound(tables, columns) /\ IdsBelow(tables, next["davisbase_tables"])
  BY <1>4, <1>11, Phases DEF SchemaInv, Creating
<1>13. ColumnsSound(tables, columns) /\ TakesId(columns, n)
  <2>1. TakesId(tables, next["davisbase_tables"])
    BY <1>7, <1>12, BelowTakes
  <2> QED BY <1>1, <1>4, <1>11, <1>12, <2>1, ColumnsAccept, Phases
<1>14. MemoryIs(tables, columns, next, known)
  BY <1>4, <1>11, Phases DEF SchemaInv, InMemory, DropsSchemaTable
<1>15. n = StoredIn(tables, "davisbase_columns")
  BY <1>1, <1>14, SchemaNames DEF MemoryIs
<1>16. IdsUpTo(new, n)
  <2>1. IdsUpTo(columns, n)
    BY <1>13, <1>15 DEF ColumnsSound, Sound
  <2>2. IdsBelow(columns, n)
    BY <1>7, <1>13, <2>1, IdsCounted, RowsHaveIds
  <2> QED BY <1>7, <1>9, <1>10, <2>2, IdsAfterAppend, RowsHaveIds
<1>17. \A s \in SchemaTables : Found(new, s) = Found(columns, s)
  BY <1>7, <1>9, <1>10, <1>12, OthersFound
<1>18. /\ Found(new, "davisbase_tables") = Found(columns, "davisbase_tables")
       /\ Found(new, "davisbase_columns") = Found(columns, "davisbase_columns")
  BY <1>17, SchemaNames
<1>19. TablesSound(tables, new)
  BY <1>12, <1>18 DEF TablesSound
<1>20. ColumnsSound(tables, new)
  BY <1>13, <1>15, <1>16, <1>18 DEF ColumnsSound, Sound
<1>21. FoundOnDisk'
  BY <1>5, <1>19, <1>20 DEF FoundOnDisk, SchemaSound
<1>22. InMemory'
  <2>1. MemoryIs(tables, new, next, known)
    BY <1>14, <1>17 DEF MemoryIs
  <2> QED BY <1>4, <1>5, <2>1 DEF InMemory
<1>23. Creating'
  BY <1>4, <1>5, <1>12, <1>19, <1>20 DEF Creating
<1> QED BY <1>21, <1>22, <1>23

LEMMA CountColumnSchema ==
  ASSUME CatalogInv, SchemaInv, CountColumnRow
  PROVE  SchemaInv'
<1>1. PICK n : n = next["davisbase_columns"]
  OBVIOUS
<1>2. PICK new : new = StoreNext(tables, "davisbase_columns", n + 1)
  OBVIOUS
<1>3. /\ next \in [SchemaTables -> Nat] /\ tables \in Leaves(TableRow) /\ Single(tables) /\ n \in Nat
      /\ columns \in Leaves(ColumnRow)
  BY <1>1, SchemaTypes, SchemaNames
<1>4. /\ pc = "count_column" /\ pc' = "append_column"
      /\ next' = [next EXCEPT !["davisbase_columns"] = n + 1]
      /\ op' = [op EXCEPT !.columns = Tail(@)]
      /\ known' = known /\ unlinked' = unlinked /\ attempted' = attempted
  BY <1>1 DEF CountColumnRow, CountRow, history
<1>5. next'["davisbase_columns"] = n + 1 /\ next'["davisbase_tables"] = next["davisbase_tables"]
  BY <1>3, <1>4, SchemaNames
<1>6. schema' = [schema EXCEPT !.davisbase_tables = new]
  BY <1>2, <1>5 DEF CountColumnRow, CountRow, tables
<1>7. tables' = new /\ columns' = columns
  BY <1>6, TablesWritten DEF CatalogInv
<1>8. Making'
  BY <1>4, OutOfMaking, Phases
<1>9. SUFFICES ASSUME unlinked = {} PROVE FoundOnDisk' /\ InMemory' /\ Creating'
  BY <1>4, <1>8 DEF SchemaInv, FoundOnDisk, InMemory, Creating
<1>10. /\ op.name \notin SchemaTables /\ attempted[op.name] # << >>
       /\ TablesSound(tables, columns) /\ ColumnsSound(tables, columns)
       /\ IdsBelow(tables, next["davisbase_tables"])
  BY <1>4, <1>9, Phases DEF SchemaInv, Creating
<1>11. MemoryIs(tables, columns, next, known)
  BY <1>4, <1>9, Phases DEF SchemaInv, InMemory, DropsSchemaTable
<1>12. BothEntries(tables) /\ n = StoredIn(tables, "davisbase_columns")
  BY <1>1, <1>11, SchemaNames DEF MemoryIs
<1>13. At(tables, "davisbase_tables") # {} /\ At(tables, "davisbase_columns") # {}
  BY <1>12, SchemaNames DEF BothEntries
<1>14. /\ new \in Leaves(TableRow) /\ Kept(tables, new) /\ SameIds(tables, new)
       /\ StoredIn(new, "davisbase_columns") = n + 1
       /\ StoredIn(new, "davisbase_tables") = StoredIn(tables, "davisbase_tables")
  BY <1>2, <1>3, <1>13, StoredAfterStore DEF NextStored
<1>15. tables # << >> /\ columns # << >>
  BY <1>4, SchemaTypes DEF Unready
<1>16. TablesSound(new, columns) /\ IdsBelow(new, next["davisbase_tables"])
  <2>1. IdsUpTo(new, StoredIn(tables, "davisbase_tables")) /\ IdsBelow(new, next["davisbase_tables"])
    BY <1>3, <1>10, <1>14, <1>15, IdsOfSame DEF TablesSound, Sound
  <2> QED BY <1>10, <1>14, <2>1 DEF TablesSound, Sound
<1>17. IdsBelow(columns, n + 1)
  BY <1>3, <1>10, <1>12, IdsCounted, RowsHaveIds DEF ColumnsSound, Sound
<1>18. ColumnsSound(new, columns)
  BY <1>10, <1>14, <1>17, BelowIsUpTo DEF ColumnsSound, Sound
<1>19. FoundOnDisk'
  BY <1>7, <1>16, <1>18 DEF FoundOnDisk, SchemaSound
<1>20. InMemory'
  <2>1. BothEntries(new)
    BY <1>12, <1>14 DEF BothEntries, Kept
  <2>2. \A s \in SchemaTables : next'[s] = StoredIn(new, s)
    BY <1>5, <1>11, <1>14, SchemaNames DEF MemoryIs
  <2>3. MemoryIs(new, columns, next', known)
    BY <1>11, <2>1, <2>2 DEF MemoryIs
  <2> QED BY <1>4, <1>7, <2>3 DEF InMemory
<1>21. op'.name = op.name
  BY <1>4, Phases DEF CatalogInv, OpTyped
<1>22. Creating'
  BY <1>4, <1>5, <1>7, <1>10, <1>16, <1>17, <1>18, <1>21 DEF Creating
<1> QED BY <1>19, <1>20, <1>22

(* What the two scans of DROP TABLE leave of row ids and columns.          *)
LEMMA DropTableMoves ==
  ASSUME CatalogInv, DropTableRow
  PROVE  /\ columns' = columns
         /\ At(tables, op.name) = {} => tables' = tables
         /\ At(tables, op.name) # {} => RowsMoveUp(tables, tables')
<1>1. PICK places : places = At(tables, op.name)
  OBVIOUS
<1>2. PICK new : new = IF places = {} THEN tables ELSE DeleteAt(tables, First(places))
  OBVIOUS
<1>3. schema' = [schema EXCEPT !.davisbase_tables = new]
  BY <1>1, <1>2 DEF DropTableRow, tables
<1>4. tables' = new /\ columns' = columns
  BY <1>3, TablesWritten DEF CatalogInv
<1>5. tables \in Leaves(TableRow)
  BY SchemaTypes
<1>6. ASSUME places # {} PROVE RowsMoveUp(tables, new)
  <2>1. First(places) \in At(tables, op.name)
    BY <1>1, <1>5, <1>6, FirstRow
  <2>2. DeletedAt(tables, new, First(places))
    BY <1>2, <1>6 DEF DeletedAt
  <2> QED BY <1>5, <2>1, <2>2, DeleteMovesUp
<1> QED BY <1>1, <1>2, <1>4, <1>6

LEMMA DropColumnMoves ==
  ASSUME CatalogInv, DropColumnRow
  PROVE  /\ tables' = tables /\ RowsMoveUp(columns, columns')
         /\ \A other : other # op.name => Found(columns', other) = Found(columns, other)
<1>1. PICK name, places : name = op.name /\ places = ColumnRowsAhead
  OBVIOUS
<1>2. PICK place : place = First(places)
  OBVIOUS
<1>3. PICK new : new = DeleteAt(columns, place)
  OBVIOUS
<1>4. /\ pc = "drop_columns" /\ places # {}
      /\ schema' = [schema EXCEPT !.davisbase_columns = new]
  BY <1>1, <1>2, <1>3 DEF DropColumnRow, columns
<1>5. tables' = tables /\ columns' = new
  BY <1>4, ColumnsWritten DEF CatalogInv
<1>6. places = At(columns, name) /\ columns \in Leaves(ColumnRow)
  BY <1>1, <1>4, AllAhead, SchemaTypes
<1>7. place \in At(columns, name) /\ \A other \in At(columns, name) : Before(place, other)
  BY <1>2, <1>4, <1>6, FirstRow
<1>8. Ahead(columns, name, place) /\ DeletedAt(columns, new, place)
  BY <1>3, <1>7 DEF Ahead, DeletedAt
<1>9. Loses(columns, new, name) /\ RowsMoveUp(columns, new)
  BY <1>6, <1>7, <1>8, InfoLost, DeleteMovesUp
<1> QED BY <1>1, <1>5, <1>9 DEF Loses, Found

LEMMA DropTableSchema ==
  ASSUME CatalogInv, SchemaInv, DropTableRow
  PROVE  SchemaInv'
<1>1. PICK name : name = op.name
  OBVIOUS
<1>2. PICK place : place = First(At(tables, name))
  OBVIOUS
<1>3. PICK new : new = IF At(tables, name) = {} THEN tables ELSE DeleteAt(tables, place)
  OBVIOUS
<1>4. /\ pc = "drop_table" /\ pc' = "drop_columns" /\ op' = op
      /\ schema' = [schema EXCEPT !.davisbase_tables = new]
      /\ next' = next /\ known' = known /\ unlinked' = unlinked
  BY <1>1, <1>2, <1>3 DEF DropTableRow, session, tables
<1>5. tables' = new /\ columns' = columns
  BY <1>4, TablesWritten DEF CatalogInv
<1>6. Making' /\ Creating'
  BY <1>4, OutOfMaking, OutOfCreating, Phases
<1>7. tables \in Leaves(TableRow) /\ Single(tables)
  BY SchemaTypes
<1>8. /\ new \in Leaves(TableRow) /\ Single(new) /\ At(new, name) = {}
      /\ \A other : other # name /\ At(tables, other) # {} => At(new, other) # {}
  BY <1>1, <1>5, EntryDropped DEF SchemaTyped, RowsNamed
<1>9. SUFFICES ASSUME unlinked = {} PROVE FoundOnDisk' /\ InMemory'
  BY <1>4, <1>6 DEF SchemaInv, FoundOnDisk, InMemory
<1>10. SchemaSound(tables, columns) /\ MemoryIs(tables, columns, next, known)
  BY <1>4, <1>9, Phases DEF SchemaInv, FoundOnDisk, InMemory, DropsSchemaTable
<1>11. CASE name \in SchemaTables
  <2>1. SchemaSound(new, columns)
    BY <1>8, <1>11 DEF SchemaSound, BothEntries
  <2>2. DropsSchemaTable'
    BY <1>1, <1>4, <1>11 DEF DropsSchemaTable
  <2> QED BY <1>5, <2>1, <2>2 DEF FoundOnDisk, InMemory
<1>12. CASE name \notin SchemaTables /\ At(tables, name) = {}
  <2>1. tables' = tables /\ columns' = columns
    BY <1>3, <1>5, <1>12
  <2> QED BY <1>4, <1>10, <2>1 DEF FoundOnDisk, InMemory
<1>13. CASE name \notin SchemaTables /\ At(tables, name) # {}
  <2>3. RowsMoveUp(tables, new)
    BY <1>1, <1>5, <1>13, DropTableMoves
  <2>4. \A s \in SchemaTables : At(tables, s) # {} /\ At(new, s) # {}
    BY <1>8, <1>10, <1>13 DEF MemoryIs, BothEntries
  <2>5. \A s \in SchemaTables : StoredIn(new, s) = StoredIn(tables, s)
    BY <1>7, <1>8, <2>3, <2>4, StoredAfterDelete
  <2>6. /\ StoredIn(new, "davisbase_tables") = StoredIn(tables, "davisbase_tables")
        /\ StoredIn(new, "davisbase_columns") = StoredIn(tables, "davisbase_columns")
    BY <2>5, SchemaNames
  <2>7. ~ Within(tables, SchemaTables)
    BY <1>13 DEF Within
  <2>8. TablesRefuse(tables, columns) => TablesRefuse(new, columns)
    BY <2>6, <2>7 DEF TablesRefuse, Refuses
  <2>9. TablesSound(tables, columns) => TablesSound(new, columns)
    BY <2>3, <2>6, IdsAfterDelete DEF TablesSound, Sound
  <2>10. /\ ColumnsRefuse(tables, columns) => ColumnsRefuse(new, columns)
         /\ ColumnsSound(tables, columns) => ColumnsSound(new, columns)
    BY <2>6 DEF ColumnsRefuse, ColumnsSound
  <2>11. BothEntries(tables) /\ BothEntries(new)
    BY <2>4 DEF BothEntries
  <2>12. SchemaSound(new, columns)
    BY <1>10, <2>8, <2>9, <2>10, <2>11 DEF SchemaSound
  <2>13. MemoryIs(new, columns, next, known)
    BY <1>10, <2>5, <2>11 DEF MemoryIs
  <2> QED BY <1>4, <1>5, <2>12, <2>13 DEF FoundOnDisk, InMemory
<1> QED BY <1>11, <1>12, <1>13

LEMMA DropColumnSchema ==
  ASSUME CatalogInv, SchemaInv, DropColumnRow
  PROVE  SchemaInv'
<1>1. PICK name, places : name = op.name /\ places = ColumnRowsAhead
  OBVIOUS
<1>2. PICK place : place = First(places)
  OBVIOUS
<1>3. PICK new : new = DeleteAt(columns, place)
  OBVIOUS
<1>4. /\ pc = "drop_columns" /\ pc' = "drop_columns" /\ places # {} /\ op' = op
      /\ schema' = [schema EXCEPT !.davisbase_columns = new]
      /\ next' = next /\ known' = known /\ unlinked' = unlinked
  BY <1>1, <1>2, <1>3 DEF DropColumnRow, columns, session
<1>5. tables' = tables /\ columns' = new
  BY <1>4, ColumnsWritten DEF CatalogInv
<1>6. Making' /\ Creating'
  BY <1>4, OutOfMaking, OutOfCreating, Phases
<1>7. places = At(columns, name) /\ columns \in Leaves(ColumnRow)
  BY <1>1, <1>4, AllAhead, SchemaTypes
<1>8. place \in At(columns, name) /\ \A other \in At(columns, name) : Before(place, other)
  BY <1>2, <1>4, <1>7, FirstRow
<1>9. /\ RowsMoveUp(columns, new)
      /\ \A other : other # name => Found(new, other) = Found(columns, other)
  BY <1>1, <1>5, DropColumnMoves
<1>10. SUFFICES ASSUME unlinked = {} PROVE FoundOnDisk' /\ InMemory'
  BY <1>4, <1>6 DEF SchemaInv, FoundOnDisk, InMemory
<1>11. SchemaSound(tables, columns)
  BY <1>4, <1>10, Phases DEF SchemaInv, FoundOnDisk
<1>12. CASE name \in SchemaTables
  <2>1. At(tables, name) = {}
    BY <1>1, <1>4 DEF CatalogInv, StatementUnderWay
  <2>2. SchemaSound(tables, new)
    BY <1>12, <2>1 DEF SchemaSound, BothEntries
  <2>3. DropsSchemaTable'
    BY <1>1, <1>4, <1>12 DEF DropsSchemaTable
  <2> QED BY <1>5, <2>2, <2>3 DEF FoundOnDisk, InMemory
<1>13. CASE name \notin SchemaTables
  <2>1. \A s \in SchemaTables : Found(new, s) = Found(columns, s)
    BY <1>9, <1>13
  <2>2. /\ Found(new, "davisbase_tables") = Found(columns, "davisbase_tables")
        /\ Found(new, "davisbase_columns") = Found(columns, "davisbase_columns")
    BY <2>1, SchemaNames
  <2>3. ~ Within(columns, SchemaTables)
    BY <1>8, <1>13 DEF Within
  <2>4. /\ TablesRefuse(tables, columns) => TablesRefuse(tables, new)
        /\ TablesSound(tables, columns) => TablesSound(tables, new)
    BY <2>2 DEF TablesRefuse, TablesSound
  <2>5. ColumnsRefuse(tables, columns) => ColumnsRefuse(tables, new)
    BY <2>2, <2>3 DEF ColumnsRefuse, Refuses
  <2>6. ColumnsSound(tables, columns) => ColumnsSound(tables, new)
    BY <1>9, <2>2, IdsAfterDelete DEF ColumnsSound, Sound
  <2>7. SchemaSound(tables, new)
    BY <1>11, <2>4, <2>5, <2>6 DEF SchemaSound
  <2>8. MemoryIs(tables, columns, next, known)
    BY <1>1, <1>4, <1>10, <1>13, Phases DEF SchemaInv, InMemory, DropsSchemaTable
  <2>9. MemoryIs(tables, new, next, known)
    BY <2>1, <2>8 DEF MemoryIs
  <2> QED BY <1>4, <1>5, <2>7, <2>9 DEF FoundOnDisk, InMemory
<1> QED BY <1>12, <1>13

LEMMA RemoveFileSchema ==
  ASSUME CatalogInv, SchemaInv, RemoveFile
  PROVE  SchemaInv'
<1>1. /\ pc = "drop_columns" /\ pc' = "idle" /\ schema' = schema /\ next' = next /\ known' = known
      /\ unlinked' = unlinked \union ({op.name} \intersect SchemaTables)
  BY DEF RemoveFile, EndStatement
<1>2. tables' = tables /\ columns' = columns
  BY <1>1 DEF tables, columns
<1>3. Making' /\ Creating'
  BY <1>1, OutOfMaking, OutOfCreating, Phases
<1>4. SUFFICES ASSUME unlinked' = {} PROVE FoundOnDisk' /\ InMemory'
  BY <1>3 DEF SchemaInv, FoundOnDisk, InMemory
<1>5. unlinked = {} /\ op.name \notin SchemaTables
  BY <1>1, <1>4
<1>6. SchemaSound(tables, columns) /\ MemoryIs(tables, columns, next, known)
  BY <1>1, <1>5, Phases DEF SchemaInv, FoundOnDisk, InMemory, DropsSchemaTable
<1> QED BY <1>1, <1>2, <1>6 DEF FoundOnDisk, InMemory

(* CREATE INDEX writes over a row and changes neither ids nor columns.     *)
LEMMA IndexKeepsSchema ==
  ASSUME CatalogInv, NEW name \in Names, NEW column \in Columns, MakeColumnUnique(name, column)
  PROVE  /\ tables' = tables /\ columns' \in Leaves(ColumnRow) /\ Kept(columns, columns')
         /\ SameIds(columns, columns')
         /\ \A other : Found(columns', other) = Found(columns, other)
         /\ Marked(Info(columns, name), Info(columns', name), column)
<1>1. PICK places :
        places = {at \in At(columns, name) : columns[at[1]].rows[at[2]].column = column}
  OBVIOUS
<1>2. PICK place : place = First(places)
  OBVIOUS
<1>3. PICK new : new = [columns EXCEPT ![place[1]].rows[place[2]].unique = TRUE]
  OBVIOUS
<1>4. /\ pc = "idle" /\ places # {}
      /\ schema' = [schema EXCEPT !.davisbase_columns = new]
  BY <1>1, <1>2, <1>3 DEF MakeColumnUnique, columns
<1>5. tables' = tables /\ columns' = new
  BY <1>4, ColumnsWritten DEF CatalogInv
<1>6. columns \in Leaves(ColumnRow) /\ columns # << >>
  BY <1>4, SchemaTypes DEF Unready
<1>7. /\ IndexMade(columns, new, place) /\ places \subseteq At(columns, name)
      /\ PlacesOf(columns, name, column, places)
  BY <1>1, <1>3 DEF IndexMade, PlacesOf
<1>8. new \in Leaves(ColumnRow) /\ Kept(columns, new)
  <2>1. IndexMade(columns, new, First(places))
    BY <1>2, <1>7
  <2> QED BY <1>4, <1>6, <1>7, <2>1, IndexKeepsRows
<1>9. Marked(Info(columns, name), Info(new, name), column) /\ OthersKeep(columns, new, name)
  <2>1. IndexMade(columns, new, First(places))
    BY <1>2, <1>7
  <2> QED BY <1>4, <1>6, <1>7, <2>1, InfoMarked
<1>10. ASSUME NEW other PROVE Found(new, other) = Found(columns, other)
  <2>1. CASE other = name
    BY <1>9, <2>1, MarkedNames DEF Found
  <2>2. CASE other # name
    BY <1>9, <2>2 DEF OthersKeep, Found
  <2> QED BY <2>1, <2>2
<1>11. SameIds(columns, new)
  <2>1. /\ place[1] \in 1..Len(columns) /\ place[2] \in 1..Len(columns[place[1]].rows)
        /\ columns[place[1]].rows[place[2]] \in ColumnRow
    BY <1>2, <1>4, <1>6, <1>7, FirstRow
  <2>2. PICK l, i : l = place[1] /\ i = place[2]
    OBVIOUS
  <2>3. PICK row : row = [columns[l].rows[i] EXCEPT !.unique = TRUE]
    OBVIOUS
  <2>4. row \in ColumnRow /\ row.row_id = columns[l].rows[i].row_id
    BY <2>1, <2>2, <2>3 DEF ColumnRow
  <2>5. RowBecomes(columns, new, l, i, row)
    BY <1>3, <2>2, <2>3 DEF RowBecomes
  <2>6. l \in 1..Len(columns) /\ i \in 1..Len(columns[l].rows)
    BY <2>1, <2>2
  <2> QED BY <1>6, <2>4, <2>5, <2>6, WrittenOver
<1> QED BY <1>5, <1>8, <1>9, <1>10, <1>11

LEMMA IndexSchema ==
  ASSUME CatalogInv, SchemaInv, NEW name \in Names, NEW column \in Columns,
         MakeColumnUnique(name, column)
  PROVE  SchemaInv'
<1>1. /\ pc = "idle" /\ pc' = "idle" /\ next' = next /\ known' = known /\ unlinked' = unlinked
  BY DEF MakeColumnUnique, session
<1>2. PICK new : new = columns'
  OBVIOUS
<1>3. Making' /\ Creating'
  BY <1>1, OutOfMaking, OutOfCreating, Phases
<1>4. columns \in Leaves(ColumnRow) /\ columns # << >>
  BY <1>1, SchemaTypes DEF Unready
<1>5. /\ tables' = tables /\ new \in Leaves(ColumnRow) /\ Kept(columns, new)
      /\ SameIds(columns, new)
  BY <1>2, IndexKeepsSchema
<1>6. \A other : Found(new, other) = Found(columns, other)
  BY <1>2, IndexKeepsSchema
<1>7. SUFFICES ASSUME unlinked = {} PROVE FoundOnDisk' /\ InMemory'
  BY <1>1, <1>3 DEF SchemaInv, FoundOnDisk, InMemory
<1>8. SchemaSound(tables, columns) /\ MemoryIs(tables, columns, next, known)
  BY <1>1, <1>7, Phases DEF SchemaInv, FoundOnDisk, InMemory, DropsSchemaTable
<1>9. /\ TablesRefuse(tables, columns) => TablesRefuse(tables, new)
      /\ TablesSound(tables, columns) => TablesSound(tables, new)
  BY <1>6 DEF TablesRefuse, TablesSound
<1>10. PICK n : n = StoredIn(tables, "davisbase_columns")
  OBVIOUS
<1>11. ColumnsRefuse(tables, columns) => ColumnsRefuse(tables, new)
  <2>1. ~ TakesId(columns, n) => ~ TakesId(new, n)
    BY <1>4, <1>5, IdsOfSame
  <2>2. Within(columns, SchemaTables) => Within(new, SchemaTables)
    BY <1>5 DEF Within, Kept
  <2> QED BY <1>6, <1>10, <2>1, <2>2 DEF ColumnsRefuse, Refuses
<1>12. ColumnsSound(tables, columns) => ColumnsSound(tables, new)
  <2>1. IdsUpTo(columns, n) => IdsUpTo(new, n)
    BY <1>4, <1>5, IdsOfSame
  <2> QED BY <1>6, <1>10, <2>1 DEF ColumnsSound, Sound
<1>13. SchemaSound(tables, new)
  BY <1>8, <1>9, <1>11, <1>12 DEF SchemaSound
<1>14. MemoryIs(tables, new, next, known)
  BY <1>6, <1>8 DEF MemoryIs
<1> QED BY <1>1, <1>2, <1>5, <1>13, <1>14 DEF FoundOnDisk, InMemory

(* What a process leaves to the next one, wherever it ends.                *)
LEMMA MadeInPart ==
  ASSUME CatalogInv, SchemaInv, pc \in BootstrapPhases
  PROVE  SchemaSound(tables, columns)
<1>1. /\ op.left = SchemaOrder \/ op.left # SchemaOrder
      /\ tables \in Leaves(TableRow) /\ columns \in Leaves(ColumnRow)
  BY SchemaTypes
<1>2. SUFFICES ASSUME BothEntries(tables)
               PROVE  \/ TablesRefuse(tables, columns)
                      \/ TablesSound(tables, columns) /\ ColumnsRefuse(tables, columns)
  BY DEF SchemaSound
<1>3. At(tables, "davisbase_tables") # {} /\ At(tables, "davisbase_columns") # {}
  BY <1>2, SchemaNames DEF BothEntries
<1>4. pc \in {"bootstrap_columns", "store_entries"}
  <2>1. ~ NoRow(tables)
    BY <1>3 DEF NoRow
  <2>2. BothFilesExist
    BY <1>2 DEF CatalogInv, RowsNamed, Within, BothEntries, BothFilesExist
  <2>3. ~ (pc = "truncate") /\ ~ (pc = "write_roots") /\ ~ (pc = "bootstrap_tables")
    BY <1>3, <2>1, <2>2 DEF CatalogInv, StartUnderWay
  <2> QED BY <2>3, Phases
<1>5. Growing(tables, next["davisbase_tables"]) /\ Growing(columns, next["davisbase_columns"])
  BY <1>4 DEF SchemaInv, Making
<1>6. ~ TakesId(tables, 0) /\ Within(tables, SchemaTables) /\ IdsBelow(tables, next["davisbase_tables"])
  BY <1>3, <1>5 DEF Growing, NoRow
<1>7. CASE pc = "bootstrap_columns" \/ op.left = SchemaOrder
  <2>1. StoredIn(tables, "davisbase_tables") = 0
    BY <1>4, <1>7 DEF SchemaInv, Making
  <2>2. TablesRefuse(tables, columns)
    BY <1>6, <2>1 DEF TablesRefuse, Refuses
  <2> QED BY <2>2
<1>8. CASE pc = "store_entries" /\ op.left # SchemaOrder
  <2>1. /\ StoredIn(tables, "davisbase_tables") = next["davisbase_tables"]
        /\ StoredIn(tables, "davisbase_columns") = 0
        /\ Found(columns, "davisbase_tables") = SchemaColumns["davisbase_tables"]
        /\ Found(columns, "davisbase_columns") = SchemaColumns["davisbase_columns"]
    BY <1>8, SchemaNames DEF SchemaInv, Making
  <2>2. TablesSound(tables, columns)
    BY <1>6, <2>1, BelowIsUpTo DEF TablesSound, Sound
  <2>3. ~ NoRow(columns)
    <3>1. SchemaColumns["davisbase_columns"] # << >>
      BY CatalogAssumption, SchemaNames
    <3> QED BY <1>1, <2>1, <3>1, NothingFound DEF NoRow
  <2>4. ColumnsRefuse(tables, columns)
    BY <1>5, <2>1, <2>3 DEF Growing, ColumnsRefuse, Refuses
  <2> QED BY <2>2, <2>4
<1> QED BY <1>1, <1>4, <1>7, <1>8

LEMMA EndSchema ==
  ASSUME CatalogInv, SchemaInv, End, pc # "down"
  PROVE  SchemaInv'
<1>1. /\ schema' = [s \in SchemaTables |-> OnDisk(s)] /\ unlinked' = {} /\ pc' = "down"
  BY DEF End
<1>2. InMemory' /\ Creating' /\ Making'
  BY <1>1, OutOfMaking, OutOfCreating, Phases DEF InMemory
<1>3. SUFFICES SchemaSound(tables', columns')
  BY <1>2 DEF SchemaInv, FoundOnDisk
<1>4. tables' = OnDisk("davisbase_tables") /\ columns' = OnDisk("davisbase_columns")
  BY <1>1, SchemaNames DEF tables, columns
<1>5. CASE unlinked = {}
  <2>1. tables' = tables /\ columns' = columns
    BY <1>4, <1>5 DEF OnDisk, tables, columns
  <2>2. SchemaSound(tables, columns)
    BY <1>5, MadeInPart DEF SchemaInv, FoundOnDisk
  <2> QED BY <2>1, <2>2
<1>6. CASE "davisbase_tables" \in unlinked
  <2>1. tables' = << >> \/ tables' = <<EmptyLeaf>>
    BY <1>4, <1>6 DEF OnDisk
  <2>2. At(tables', "davisbase_tables") = {}
    BY <2>1, NoRows
  <2> QED BY <2>2, SchemaNames DEF SchemaSound, BothEntries
<1>7. CASE "davisbase_columns" \in unlinked
  <2>1. columns' = << >> \/ columns' = <<EmptyLeaf>>
    BY <1>4, <1>7 DEF OnDisk
  <2>2. columns' \in Leaves(ColumnRow) /\ At(columns', "davisbase_tables") = {}
    BY <2>1, NoRows
  <2>3. Found(columns', "davisbase_tables") = << >>
    BY <2>2, NothingFound
  <2>4. Len(SchemaColumns["davisbase_tables"]) # Len(<< >>)
    BY CatalogAssumption, SchemaNames, EmptySeq
  <2>5. TablesRefuse(tables', columns')
    BY <2>3, <2>4 DEF TablesRefuse, Refuses
  <2> QED BY <2>5 DEF SchemaSound
<1>8. unlinked \subseteq {"davisbase_tables", "davisbase_columns"}
  BY SchemaNames DEF CatalogInv, SessionTyped
<1> QED BY <1>5, <1>6, <1>7, <1>8

(* What a process reads when it starts.                                    *)
LEMMA OpenSchema ==
  ASSUME CatalogInv, SchemaInv, OpenExisting
  PROVE  SchemaInv'
<1>1. /\ pc = "down" /\ pc' = "idle" /\ schema' = schema /\ unlinked' = unlinked
      /\ \A s \in SchemaTables : HasEntry(s)
      /\ next' = [s \in SchemaTables |-> Entry(s).next_row_id]
      /\ known' = [s \in SchemaTables |-> Len(ColumnsInfo(s))]
  BY DEF OpenExisting
<1>2. tables' = tables /\ columns' = columns
  BY <1>1 DEF tables, columns
<1>3. Making' /\ Creating'
  BY <1>1, OutOfMaking, OutOfCreating, Phases
<1>4. FoundOnDisk'
  BY <1>1, <1>2, Phases DEF SchemaInv, FoundOnDisk
<1>5. ASSUME NEW s \in SchemaTables
      PROVE  next'[s] = StoredIn(tables, s) /\ known'[s] = Len(Found(columns, s))
  <2>1. Entry(s).next_row_id = StoredIn(tables, s)
    BY DEF Entry, StoredIn
  <2>2. Len(ColumnsInfo(s)) = Len(Found(columns, s))
    <3>1. PICK info \in Seq(InfoRow) : info = Info(columns, s)
      BY InfoTyped, SchemaTypes
    <3>2. \A e \in InfoRow : e.column \in ColumnName
      BY DEF InfoRow, ColumnName
    <3>3. Len(NamesOf(info)) = Len(info)
      BY <3>2, NamesType
    <3> QED BY <3>1, <3>3, InfoIs DEF Found
  <2> QED BY <1>1, <2>1, <2>2
<1>6. MemoryIs(tables, columns, next', known')
  BY <1>1, <1>5 DEF MemoryIs, BothEntries, HasEntry
<1>7. InMemory'
  BY <1>2, <1>6 DEF InMemory
<1> QED BY <1>3, <1>4, <1>7 DEF SchemaInv

LEMMA BeginBootstrapSchema ==
  ASSUME CatalogInv, SchemaInv, BeginBootstrap
  PROVE  SchemaInv'
<1>1. pc' = "truncate"
  BY DEF BeginBootstrap
<1>2. Making' /\ Creating'
  BY <1>1, OutOfMaking, OutOfCreating, Phases
<1>3. FoundOnDisk' /\ InMemory'
  BY <1>1, Phases DEF FoundOnDisk, InMemory
<1> QED BY <1>2, <1>3 DEF SchemaInv

LEMMA InMaking ==
  ASSUME pc' \in BootstrapPhases
  PROVE  FoundOnDisk' /\ InMemory' /\ Creating'
BY Phases, OutOfCreating DEF FoundOnDisk, InMemory

LEMMA TruncateSchema ==
  ASSUME CatalogInv, SchemaInv, TruncateSchemaFile
  PROVE  SchemaInv'
<1>1. pc = "truncate" /\ GoOn("write_roots", SchemaOrder)
  BY DEF TruncateSchemaFile
<1>2. op \in [left : {SchemaOrder, Tail(SchemaOrder)}]
  BY <1>1 DEF CatalogInv, OpTyped, Loops
<1>3. pc' = "truncate" \/ (pc' = "write_roots" /\ op' = [left |-> SchemaOrder])
  BY <1>1, <1>2, NextOfTwo
<1>4. FoundOnDisk' /\ InMemory' /\ Creating'
  BY <1>3, InMaking, Phases
<1>5. Making'
  BY <1>3 DEF Making
<1> QED BY <1>4, <1>5 DEF SchemaInv

(* The steps by which a process makes the schema tables.                   *)
LEMMA MakesRoots ==
  ASSUME pc' = "write_roots",
         known'["davisbase_tables"] = Len(SchemaColumns["davisbase_tables"])
  PROVE  Making'
BY DEF Making

GrowingTables ==
  /\ Growing(tables, next["davisbase_tables"]) /\ Growing(columns, next["davisbase_columns"])
  /\ \A s \in SchemaTables : known[s] = Len(SchemaColumns[s])

LEMMA MakesEntries ==
  ASSUME pc' = "bootstrap_tables", GrowingTables',
         op'.left # SchemaOrder =>
           At(tables', "davisbase_tables") # {} /\ StoredIn(tables', "davisbase_tables") = 0
  PROVE  Making'
<1>1. pc' \notin {"write_roots", "bootstrap_columns", "store_entries"}
  OBVIOUS
<1> QED BY <1>1 DEF Making, GrowingTables

LEMMA MakesColumns ==
  ASSUME pc' = "bootstrap_columns", GrowingTables', BothEntries(tables'),
         StoredIn(tables', "davisbase_columns") = 0, StoredIn(tables', "davisbase_tables") = 0,
         \A s \in SchemaTables : attempted'[s] = SchemaColumns[s]
  PROVE  Making'
<1>1. pc' \notin {"write_roots", "bootstrap_tables", "store_entries"}
  OBVIOUS
<1> QED BY <1>1 DEF Making, GrowingTables

LEMMA StoresEntries ==
  ASSUME pc' = "store_entries", GrowingTables', BothEntries(tables'),
         StoredIn(tables', "davisbase_columns") = 0,
         op'.left = SchemaOrder => StoredIn(tables', "davisbase_tables") = 0,
         op'.left # SchemaOrder => StoredIn(tables', "davisbase_tables") = next'["davisbase_tables"],
         \A s \in SchemaTables : Found(columns', s) = SchemaColumns[s]
  PROVE  Making'
<1>1. pc' \notin {"write_roots", "bootstrap_tables", "bootstrap_columns"}
  OBVIOUS
<1> QED BY <1>1 DEF Making, GrowingTables

LEMMA GrowsFromNothing ==
  ASSUME NEW R, NEW leaves \in Leaves(R), NoRow(leaves), NEW n
  PROVE  Growing(leaves, n)
<1>1. ASSUME NEW l, NEW i, Placed(leaves, l, i) PROVE FALSE
  <2>1. PICK name : name = leaves[l].rows[i].table
    OBVIOUS
  <2>2. RowAt(leaves, name, l, i)
    BY <1>1, <2>1 DEF Placed, RowAt
  <2>3. <<l, i>> \in At(leaves, name)
    BY <2>2, Places
  <2> QED BY <2>3 DEF NoRow
<1>2. IdsBelow(leaves, n)
  BY <1>1 DEF IdsBelow
<1>3. Within(leaves, SchemaTables)
  BY DEF NoRow, Within
<1> QED BY <1>2, <1>3 DEF Growing

LEMMA GrowsOn ==
  ASSUME NEW R, HasIds(R), NEW leaves \in Leaves(R), leaves # << >>, NEW row \in R,
         NEW new, Appended(leaves, new, row), NEW n \in Nat, n = row.row_id,
         Growing(leaves, n), row.table \in SchemaTables
  PROVE  Growing(new, n + 1) /\ At(new, row.table) # {}
<1>1. IdsBelow(new, n + 1) /\ \A m \in Nat : m <= n => ~ TakesId(new, m)
  BY IdsAfterAppend DEF Growing
<1>2. ~ TakesId(new, 0)
  BY <1>1
<1>3. /\ new \in Leaves(R) /\ \A name : name # row.table => At(new, name) = At(leaves, name)
  BY TableAdded
<1>4. Within(new, SchemaTables)
  BY <1>3 DEF Within, Growing
<1>5. At(new, row.table) # {}
  <2>1. PICK l, i : Placed(new, l, i) /\ RowIn(new, l, i) = row
    BY AppendComesLast DEF RowComesLast
  <2>2. RowAt(new, row.table, l, i)
    BY <2>1 DEF Placed, RowIn, RowAt
  <2>3. <<l, i>> \in At(new, row.table)
    BY <1>3, <2>2, Places
  <2> QED BY <2>3
<1> QED BY <1>1, <1>2, <1>4, <1>5 DEF Growing

LEMMA WriteRootSchema ==
  ASSUME CatalogInv, CatalogInv', SchemaInv, ColumnsInv', WriteSchemaRoot
  PROVE  SchemaInv'
<1>1. PICK s : s = Head(op.left)
  OBVIOUS
<1>2. /\ pc = "write_roots"
      /\ schema' = [schema EXCEPT ![s] = <<EmptyLeaf>>]
      /\ known' = [known EXCEPT ![s] = Len(SchemaColumns[s])]
      /\ GoOn("bootstrap_tables", SchemaOrder)
  BY <1>1 DEF WriteSchemaRoot
<1>3. op \in [left : {SchemaOrder, Tail(SchemaOrder)}]
  BY <1>2 DEF CatalogInv, OpTyped, Loops
<1>4. \/ /\ op.left = SchemaOrder /\ s = "davisbase_tables"
         /\ op' = [left |-> Tail(SchemaOrder)] /\ pc' = "write_roots"
      \/ /\ op.left = Tail(SchemaOrder) /\ s = "davisbase_columns"
         /\ op' = [left |-> SchemaOrder] /\ pc' = "bootstrap_tables"
  BY <1>1, <1>2, <1>3, NextOfTwo
<1>5. FoundOnDisk' /\ InMemory' /\ Creating'
  BY <1>4, InMaking, Phases
<1>6. known \in [SchemaTables -> Nat] /\ s \in SchemaTables
  BY <1>4, SchemaTypes, SchemaNames
<1>7. known'[s] = Len(SchemaColumns[s]) /\ \A t \in SchemaTables : t # s => known'[t] = known[t]
  BY <1>2, <1>6
<1>8. ASSUME pc' = "write_roots" PROVE Making'
  <2>1. s = "davisbase_tables"
    BY <1>4, <1>8
  <2>2. known'["davisbase_tables"] = Len(SchemaColumns["davisbase_tables"])
    BY <1>7, <2>1
  <2> QED BY <1>8, <2>2, MakesRoots
<1>9. ASSUME pc' = "bootstrap_tables" PROVE Making'
  <2>1. op.left = Tail(SchemaOrder) /\ s = "davisbase_columns" /\ op'.left = SchemaOrder
    BY <1>4, <1>9
  <2>2. known["davisbase_tables"] = Len(SchemaColumns["davisbase_tables"])
    BY <1>2, <2>1, SchemaOrders DEF SchemaInv, Making
  <2>3. \A t \in SchemaTables : known'[t] = Len(SchemaColumns[t])
    BY <1>7, <2>1, <2>2, SchemaNames
  <2>4. tables' \in Leaves(TableRow) /\ columns' \in Leaves(ColumnRow)
    BY DEF CatalogInv, SchemaTyped
  <2>5. NoRow(tables') /\ NoRow(columns')
    <3>1. NoRow(tables)
      BY <1>2 DEF CatalogInv, StartUnderWay
    <3>2. schema' = [schema EXCEPT !.davisbase_columns = <<EmptyLeaf>>]
      BY <1>2, <2>1
    <3>3. tables' = tables
      BY <3>2, ColumnsWritten DEF CatalogInv
    <3>4. NoRow(columns')
      BY <1>9 DEF ColumnsInv, BootstrapWrites, NoRow
    <3> QED BY <3>1, <3>3, <3>4
  <2>6. Growing(tables', next'["davisbase_tables"]) /\ Growing(columns', next'["davisbase_columns"])
    BY <2>4, <2>5, GrowsFromNothing
  <2>7. GrowingTables'
    BY <2>3, <2>6 DEF GrowingTables
  <2>8. op'.left # SchemaOrder =>
          At(tables', "davisbase_tables") # {} /\ StoredIn(tables', "davisbase_tables") = 0
    BY <2>1
  <2> QED BY <1>9, <2>7, <2>8, MakesEntries
<1> QED BY <1>4, <1>5, <1>8, <1>9 DEF SchemaInv

LEMMA BootstrapTableSchema ==
  ASSUME CatalogInv, SchemaInv, ColumnsInv, BootstrapTableRow
  PROVE  SchemaInv'
<1>1. PICK s : s = Head(op.left)
  OBVIOUS
<1>2. PICK n : n = next["davisbase_tables"]
  OBVIOUS
<1>3. PICK row : row = [row_id |-> n, table |-> s, next_row_id |-> 0]
  OBVIOUS
<1>4. PICK left : left = ColumnsOf("davisbase_tables") \o ColumnsOf("davisbase_columns")
  OBVIOUS
<1>5. PICK new : new = AppendRow(tables, row)
  OBVIOUS
<1>6. /\ pc = "bootstrap_tables" /\ schema' = [schema EXCEPT !.davisbase_tables = new]
      /\ next' = [next EXCEPT !["davisbase_tables"] = n + 1]
      /\ GoOn("bootstrap_columns", left) /\ known' = known /\ attempted' = attempted
  BY <1>1, <1>2, <1>3, <1>4, <1>5 DEF BootstrapTableRow, tables, history
<1>7. op \in [left : {SchemaOrder, Tail(SchemaOrder)}]
  BY <1>6 DEF CatalogInv, OpTyped, Loops
<1>8. \/ /\ op.left = SchemaOrder /\ s = "davisbase_tables"
         /\ op' = [left |-> Tail(SchemaOrder)] /\ pc' = "bootstrap_tables"
      \/ /\ op.left = Tail(SchemaOrder) /\ s = "davisbase_columns"
         /\ op' = [left |-> left] /\ pc' = "bootstrap_columns"
  BY <1>1, <1>6, <1>7, NextOfTwo
<1>9. FoundOnDisk' /\ InMemory' /\ Creating'
  BY <1>8, InMaking, Phases
<1>10. tables' = new /\ columns' = columns
  BY <1>6, TablesWritten DEF CatalogInv
<1>11. /\ tables \in Leaves(TableRow) /\ tables # << >> /\ Single(tables) /\ n \in Nat
       /\ next \in [SchemaTables -> Nat]
  BY <1>2, <1>6, SchemaTypes, SchemaNames DEF Unready
<1>12. next'["davisbase_tables"] = n + 1 /\ next'["davisbase_columns"] = next["davisbase_columns"]
  BY <1>6, <1>11, SchemaNames
<1>13. row \in TableRow /\ row.table = s /\ row.row_id = n /\ row.next_row_id = 0 /\ s \in SchemaTables
  BY <1>3, <1>8, <1>11, SchemaNames DEF TableRow
<1>14. Appended(tables, new, row)
  BY <1>5 DEF Appended
<1>15. /\ Growing(tables, n) /\ Growing(columns, next["davisbase_columns"])
       /\ \A t \in SchemaTables : known[t] = Len(SchemaColumns[t])
  BY <1>2, <1>6 DEF SchemaInv, Making
<1>16. Growing(new, n + 1) /\ At(new, s) # {}
  BY <1>11, <1>13, <1>14, <1>15, GrowsOn, RowsHaveIds
<1>17. At(tables, s) = {}
  BY <1>6, <1>8 DEF CatalogInv, StartUnderWay
<1>18. StoredIn(new, s) = 0
  BY <1>11, <1>13, <1>14, <1>17, StoredAfterAppend
<1>19. GrowingTables'
  BY <1>6, <1>10, <1>12, <1>15, <1>16 DEF GrowingTables
<1>20. ASSUME pc' = "bootstrap_tables" PROVE Making'
  <2>1. At(new, "davisbase_tables") # {} /\ StoredIn(new, "davisbase_tables") = 0
    BY <1>8, <1>16, <1>18, <1>20
  <2>2. op'.left # SchemaOrder =>
          At(tables', "davisbase_tables") # {} /\ StoredIn(tables', "davisbase_tables") = 0
    BY <1>10, <2>1
  <2> QED BY <1>20, <1>19, <2>2, MakesEntries
<1>21. ASSUME pc' = "bootstrap_columns" PROVE Making'
  <2>1. op.left = Tail(SchemaOrder) /\ s = "davisbase_columns"
    BY <1>8, <1>21
  <2>2. At(tables, "davisbase_tables") # {} /\ StoredIn(tables, "davisbase_tables") = 0
    BY <1>6, <2>1, SchemaOrders DEF SchemaInv, Making
  <2>3. StoredIn(new, "davisbase_tables") = 0
    BY <1>11, <1>13, <1>14, <1>17, <2>2, StoredAfterAppend
  <2>4. At(new, "davisbase_tables") # {}
    BY <1>11, <1>13, <1>14, <2>2, TableAdded
  <2>5. BothEntries(new)
    BY <1>16, <2>1, <2>4, SchemaNames DEF BothEntries
  <2>6. ASSUME NEW t \in SchemaTables PROVE attempted[t] = SchemaColumns[t]
    <3>1. NoRow(columns) /\ WritingOf(columns, attempted, t, SchemaColumns[t])
      BY <1>6 DEF ColumnsInv, BootstrapWrites
    <3>2. Found(columns, t) = << >>
      BY <3>1, NothingFound, SchemaTypes DEF NoRow
    <3>3. attempted[t] = << >> \o SchemaColumns[t]
      BY <3>1, <3>2 DEF WritingOf, Joined
    <3>4. SchemaColumns[t] \in Seq(ColumnName)
      BY SchemaColumnsTyped
    <3> QED BY <3>3, <3>4, ConcatEmptySeq
  <2>7. BothEntries(tables')
    BY <1>10, <2>5
  <2>8. StoredIn(tables', "davisbase_columns") = 0
    BY <1>10, <1>18, <2>1
  <2>9. StoredIn(tables', "davisbase_tables") = 0
    BY <1>10, <2>3
  <2>10. \A t \in SchemaTables : attempted'[t] = SchemaColumns[t]
    BY <1>6, <2>6
  <2> QED BY <1>21, <1>19, <2>7, <2>8, <2>9, <2>10, MakesColumns
<1> QED BY <1>8, <1>9, <1>20, <1>21 DEF SchemaInv

LEMMA BootstrapColumnSchema ==
  ASSUME CatalogInv, CatalogInv', SchemaInv, ColumnsInv, BootstrapColumnRow
  PROVE  SchemaInv'
<1>1. PICK first : first = Head(op.left)
  OBVIOUS
<1>2. PICK n : n = next["davisbase_columns"]
  OBVIOUS
<1>3. PICK row : row = [row_id |-> n, table |-> first.table, column |-> first.column, unique |-> FALSE]
  OBVIOUS
<1>4. PICK new : new = AppendRow(columns, row)
  OBVIOUS
<1>5. /\ pc = "bootstrap_columns" /\ schema' = [schema EXCEPT !.davisbase_columns = new]
      /\ next' = [next EXCEPT !["davisbase_columns"] = n + 1]
      /\ GoOn("store_entries", SchemaOrder) /\ known' = known /\ attempted' = attempted
  BY <1>1, <1>2, <1>3, <1>4 DEF BootstrapColumnRow, columns, history
<1>6. PICK left : left = op.left
  OBVIOUS
<1>7. left \in Seq(Pair) /\ left # << >>
  BY <1>5, <1>6 DEF CatalogInv, OpTyped, ColumnsLeft, Pair
<1>8. first \in Pair /\ Tail(left) \in Seq(Pair) /\ Len(left) \in Nat /\ Len(Tail(left)) = Len(left) - 1
  BY <1>1, <1>6, <1>7, HeadTailProperties, LenProperties
<1>9. \/ pc' = "bootstrap_columns"
      \/ op' = [left |-> SchemaOrder] /\ pc' = "store_entries" /\ ~ Len(left) > 1
  BY <1>5, <1>6 DEF GoOn
<1>10. FoundOnDisk' /\ InMemory' /\ Creating'
  BY <1>9, InMaking, Phases
<1>11. tables' = tables /\ columns' = new
  BY <1>5, ColumnsWritten DEF CatalogInv
<1>12. /\ columns \in Leaves(ColumnRow) /\ columns # << >> /\ n \in Nat
       /\ next \in [SchemaTables -> Nat]
  BY <1>2, <1>5, SchemaTypes, SchemaNames DEF Unready
<1>13. next'["davisbase_columns"] = n + 1 /\ next'["davisbase_tables"] = next["davisbase_tables"]
  BY <1>5, <1>12, SchemaNames
<1>14. row \in ColumnRow /\ row.row_id = n /\ row.table \in SchemaTables
  BY <1>3, <1>8, <1>12 DEF ColumnRow, Pair
<1>15. Appended(columns, new, row)
  BY <1>4 DEF Appended
<1>16. /\ Growing(tables, next["davisbase_tables"]) /\ Growing(columns, n)
       /\ \A t \in SchemaTables : known[t] = Len(SchemaColumns[t])
       /\ BothEntries(tables)
       /\ StoredIn(tables, "davisbase_tables") = 0 /\ StoredIn(tables, "davisbase_columns") = 0
       /\ \A t \in SchemaTables : attempted[t] = SchemaColumns[t]
  BY <1>2, <1>5 DEF SchemaInv, Making
<1>17. Growing(new, n + 1)
  BY <1>12, <1>14, <1>15, <1>16, GrowsOn, RowsHaveIds
<1>18. GrowingTables'
  BY <1>5, <1>11, <1>13, <1>16, <1>17 DEF GrowingTables
<1>19. BothEntries(tables')
  BY <1>11, <1>16
<1>20. StoredIn(tables', "davisbase_columns") = 0
  BY <1>11, <1>16
<1>21. StoredIn(tables', "davisbase_tables") = 0
  BY <1>11, <1>16
<1>22. ASSUME pc' = "bootstrap_columns" PROVE Making'
  <2>1. \A t \in SchemaTables : attempted'[t] = SchemaColumns[t]
    BY <1>5, <1>16
  <2> QED BY <1>22, <1>18, <1>19, <1>20, <1>21, <2>1, MakesColumns
<1>23. ASSUME pc' = "store_entries" PROVE Making'
  <2>1. op'.left = SchemaOrder /\ Tail(left) = << >>
    <3>1. PICK m, k : m = Len(left) /\ k = Len(Tail(left))
      OBVIOUS
    <3>2. m # 0
      BY <1>7, <3>1, EmptySeq
    <3>3. k = 0
      BY <1>8, <1>9, <1>23, <3>1, <3>2
    <3> QED BY <1>8, <1>9, <1>23, <3>1, <3>3, EmptySeq
  <2>2. ASSUME NEW t \in SchemaTables PROVE Found(new, t) = SchemaColumns[t]
    <3>1. WritingOf(new, attempted, t, LeftOf(<< >>, t))
      BY <1>6, <1>11, <2>1, ColumnRowWrites
    <3>2. RowsAbout(<< >>, t) = << >>
      <4>1. PICK R : R = {}
        OBVIOUS
      <4>2. << >> \in Seq(R) /\ \A r \in R : r.table # t
        BY <4>1, EmptySeq
      <4>3. PICK none : none = << >>
        OBVIOUS
      <4> QED BY <4>2, <4>3, AboutNone
    <3>3. LeftOf(<< >>, t) = << >>
      BY <3>2, InfoOne DEF LeftOf
    <3>4. attempted[t] = Found(new, t) \o << >>
      BY <3>1, <3>3 DEF WritingOf, Joined
    <3>5. new \in Leaves(ColumnRow)
      BY <1>11 DEF CatalogInv, SchemaTyped
    <3>6. Found(new, t) \in Seq(ColumnName)
      BY <3>5, InfoTyped DEF Found
    <3> QED BY <1>16, <3>4, <3>6, ConcatEmptySeq
  <2>3. op'.left = SchemaOrder => StoredIn(tables', "davisbase_tables") = 0
    BY <1>21
  <2>4. op'.left # SchemaOrder => StoredIn(tables', "davisbase_tables") = next'["davisbase_tables"]
    BY <2>1
  <2>5. \A t \in SchemaTables : Found(columns', t) = SchemaColumns[t]
    BY <1>11, <2>2
  <2> QED BY <1>23, <1>18, <1>19, <1>20, <2>3, <2>4, <2>5, StoresEntries
<1> QED BY <1>9, <1>10, <1>22, <1>23 DEF SchemaInv

LEMMA GrowsSame ==
  ASSUME NEW R, NEW leaves \in Leaves(R), leaves # << >>, NEW new \in Leaves(R),
         Kept(leaves, new), SameIds(leaves, new), NEW n, Growing(leaves, n)
  PROVE  Growing(new, n)
<1>1. IdsBelow(new, n) /\ (~ TakesId(leaves, 0) => ~ TakesId(new, 0))
  BY IdsOfSame DEF Growing
<1>2. Within(new, SchemaTables) /\ (NoRow(leaves) => NoRow(new))
  BY DEF Kept, Growing, Within, NoRow
<1> QED BY <1>1, <1>2 DEF Growing

LEMMA StoreEntrySchema ==
  ASSUME CatalogInv, SchemaInv, StoreEntry
  PROVE  SchemaInv'
<1>1. PICK s : s = Head(op.left)
  OBVIOUS
<1>2. PICK n : n = next[s]
  OBVIOUS
<1>3. PICK new : new = StoreNext(tables, s, n)
  OBVIOUS
<1>4. /\ pc = "store_entries" /\ schema' = [schema EXCEPT !.davisbase_tables = new]
      /\ next' = next /\ known' = known
  BY <1>1, <1>2, <1>3 DEF StoreEntry, tables, session
<1>5. op \in [left : {SchemaOrder, Tail(SchemaOrder)}]
  BY <1>4 DEF CatalogInv, OpTyped, Loops
<1>6. \/ /\ op.left = SchemaOrder /\ s = "davisbase_tables"
         /\ op' = [left |-> Tail(SchemaOrder)] /\ pc' = "store_entries"
      \/ op.left = Tail(SchemaOrder) /\ s = "davisbase_columns" /\ pc' = "idle"
  <2>1. CASE op.left = SchemaOrder
    <3>1. Len(op.left) > 1 /\ s = "davisbase_tables"
      BY <1>1, <2>1, SchemaOrders
    <3> QED BY <1>4, <2>1, <3>1 DEF StoreEntry, GoOn
  <2>2. CASE op.left = Tail(SchemaOrder)
    <3>1. Len(op.left) = 1 /\ Head(op.left) = "davisbase_columns"
      BY <2>2, SchemaOrders, Zenon
    <3>2. ~ (Len(op.left) > 1)
      BY <3>1
    <3> QED BY <1>1, <2>2, <3>1, <3>2 DEF StoreEntry
  <2> QED BY <1>5, <2>1, <2>2
<1>7. tables' = new /\ columns' = columns
  BY <1>4, TablesWritten DEF CatalogInv
<1>8. /\ tables \in Leaves(TableRow) /\ tables # << >> /\ Single(tables)
      /\ next \in [SchemaTables -> Nat] /\ s \in SchemaTables /\ n \in Nat
  BY <1>2, <1>4, <1>6, SchemaTypes, SchemaNames DEF Unready
<1>9. /\ Growing(tables, next["davisbase_tables"]) /\ Growing(columns, next["davisbase_columns"])
      /\ \A t \in SchemaTables : known[t] = Len(SchemaColumns[t])
      /\ BothEntries(tables) /\ StoredIn(tables, "davisbase_columns") = 0
      /\ \A t \in SchemaTables : Found(columns, t) = SchemaColumns[t]
  BY <1>4 DEF SchemaInv, Making
<1>10. At(tables, "davisbase_tables") # {} /\ At(tables, "davisbase_columns") # {}
  BY <1>9, SchemaNames DEF BothEntries
<1>11. /\ new \in Leaves(TableRow) /\ Kept(tables, new) /\ SameIds(tables, new)
       /\ StoredIn(new, s) = n
       /\ \A t : t # s /\ At(tables, t) # {} => StoredIn(new, t) = StoredIn(tables, t)
  <2>1. NextStored(tables, new, s, n)
    BY <1>3 DEF NextStored
  <2>2. At(tables, s) # {}
    BY <1>6, <1>10
  <2> QED BY <1>8, <2>1, <2>2, StoredAfterStore
<1>12. Growing(new, next["davisbase_tables"])
  BY <1>8, <1>9, <1>11, GrowsSame
<1>13. BothEntries(new)
  BY <1>9, <1>11 DEF BothEntries, Kept
<1>14. ASSUME s = "davisbase_tables", op'.left = Tail(SchemaOrder), pc' = "store_entries"
       PROVE  SchemaInv'
  <2>1. GrowingTables'
    BY <1>4, <1>7, <1>9, <1>12 DEF GrowingTables
  <2>2. BothEntries(tables')
    BY <1>7, <1>13
  <2>3. StoredIn(tables', "davisbase_columns") = 0
    BY <1>7, <1>9, <1>10, <1>11, <1>14
  <2>4. op'.left = SchemaOrder => StoredIn(tables', "davisbase_tables") = 0
    BY <1>14, SchemaOrders
  <2>5. op'.left # SchemaOrder => StoredIn(tables', "davisbase_tables") = next'["davisbase_tables"]
    BY <1>2, <1>4, <1>7, <1>11, <1>14
  <2>6. \A t \in SchemaTables : Found(columns', t) = SchemaColumns[t]
    BY <1>7, <1>9
  <2>7. Making'
    BY <1>14, <2>1, <2>2, <2>3, <2>4, <2>5, <2>6, StoresEntries
  <2> QED BY <1>14, <2>7, InMaking, Phases DEF SchemaInv
<1>15. ASSUME s = "davisbase_columns", op.left = Tail(SchemaOrder), pc' = "idle"
       PROVE  SchemaInv'
  <2>1. StoredIn(tables, "davisbase_tables") = next["davisbase_tables"]
    BY <1>4, <1>15, SchemaOrders DEF SchemaInv, Making
  <2>2. /\ StoredIn(new, "davisbase_tables") = next["davisbase_tables"]
        /\ StoredIn(new, "davisbase_columns") = next["davisbase_columns"]
    BY <1>2, <1>10, <1>11, <1>15, <2>1
  <2>3. /\ Found(columns, "davisbase_tables") = SchemaColumns["davisbase_tables"]
        /\ Found(columns, "davisbase_columns") = SchemaColumns["davisbase_columns"]
    BY <1>9, SchemaNames
  <2>4. TablesSound(new, columns)
    BY <1>12, <2>2, <2>3, BelowIsUpTo DEF Growing, TablesSound, Sound
  <2>5. ColumnsSound(new, columns)
    BY <1>9, <2>2, <2>3, BelowIsUpTo DEF Growing, ColumnsSound, Sound
  <2>6. FoundOnDisk'
    BY <1>7, <2>4, <2>5 DEF FoundOnDisk, SchemaSound
  <2>7. MemoryIs(new, columns, next, known)
    BY <1>9, <1>13, <2>2, SchemaNames DEF MemoryIs
  <2>8. InMemory'
    BY <1>4, <1>7, <2>7 DEF InMemory
  <2>9. Making' /\ Creating'
    BY <1>15, OutOfMaking, OutOfCreating, Phases
  <2> QED BY <2>6, <2>8, <2>9 DEF SchemaInv
<1>16. op' = [left |-> Tail(SchemaOrder)] => op'.left = Tail(SchemaOrder)
  OBVIOUS
<1> QED BY <1>6, <1>14, <1>15, <1>16

LEMMA SchemaStep ==
  CatalogInv /\ CatalogInv' /\ ColumnsInv /\ ColumnsInv' /\ CreatedInv /\ SchemaInv
    /\ [Next \/ Kill]_vars => SchemaInv'
<1> SUFFICES ASSUME CatalogInv, CatalogInv', ColumnsInv, ColumnsInv', CreatedInv, SchemaInv,
                    [Next \/ Kill]_vars
             PROVE  SchemaInv'
  OBVIOUS
<1>1. CASE \E name \in Names, definition \in Definitions : BeginCreate(name, definition)
  BY <1>1, BeginCreateSchema
<1>2. CASE WriteRoot \/ CreateThrows \/ CreateReturns \/ \E name \in Names : BeginDrop(name)
  BY <1>2, QuietCreate
<1>3. CASE \E name \in Names, column \in Columns : MakeColumnUnique(name, column)
  BY <1>3, IndexSchema
<1>4. CASE AppendTableRow \/ CountTableRow \/ AppendColumnRow \/ CountColumnRow
  BY <1>4, AppendTableSchema, CountTableSchema, AppendColumnSchema, CountColumnSchema
<1>5. CASE DropTableRow \/ DropColumnRow \/ RemoveFile
  BY <1>5, DropTableSchema, DropColumnSchema, RemoveFileSchema
<1>6. CASE OpenExisting \/ BeginBootstrap \/ TruncateSchemaFile \/ WriteSchemaRoot
  BY <1>6, OpenSchema, BeginBootstrapSchema, TruncateSchema, WriteRootSchema
<1>7. CASE BootstrapTableRow \/ BootstrapColumnRow \/ StoreEntry
  BY <1>7, BootstrapTableSchema, BootstrapColumnSchema, StoreEntrySchema
<1>8. CASE Exit \/ Kill
  BY <1>8, EndSchema DEF Exit, Kill
<1>9. CASE UNCHANGED vars
  <2>1. /\ schema' = schema /\ next' = next /\ known' = known /\ unlinked' = unlinked
        /\ pc' = pc /\ op' = op /\ attempted' = attempted
    BY <1>9 DEF vars, session, history
  <2>2. tables' = tables /\ columns' = columns
    BY <2>1 DEF tables, columns
  <2>3. FoundOnDisk' /\ InMemory'
    BY <2>1, <2>2 DEF SchemaInv, FoundOnDisk, InMemory, DropsSchemaTable
  <2>4. Creating'
    BY <2>1, <2>2 DEF SchemaInv, Creating
  <2>5. Making'
    BY <2>1, <2>2 DEF SchemaInv, Making
  <2> QED BY <2>3, <2>4, <2>5 DEF SchemaInv
<1> QED BY <1>1, <1>2, <1>3, <1>4, <1>5, <1>6, <1>7, <1>8, <1>9 DEF Next, StatementStep, Start

LEMMA SchemaInvariant == CrashSpec => []SchemaInv
<1>1. Init => SchemaInv
  BY SchemaInit
<1>2. CatalogInv /\ CatalogInv' /\ ColumnsInv /\ ColumnsInv' /\ CreatedInv /\ SchemaInv
        /\ [Next \/ Kill]_vars => SchemaInv'
  BY SchemaStep
<1> QED BY <1>1, <1>2, CatalogInvariant, ColumnsInvariant, CreatedInvariant, PTL DEF CrashSpec

(* What holds of every row holds of what a scan of them finds.             *)
LEMMA RowOfScan ==
  ASSUME NEW R, NEW leaves \in Leaves(R), NEW n, IdsBelow(leaves, n),
         NEW i \in DOMAIN Rows(leaves)
  PROVE  Rows(leaves)[i].row_id < n
<1>1. PICK T : T = {row \in R : row.row_id < n}
  OBVIOUS
<1>2. ASSUME NEW l \in 1..Len(leaves) PROVE leaves[l].rows \in Seq(T)
  <2>1. leaves[l].rows \in Seq(R) /\ \A k \in 1..Len(leaves[l].rows) : leaves[l].rows[k] \in R
    BY LeafOf
  <2>2. \A k \in 1..Len(leaves[l].rows) : leaves[l].rows[k] \in T
    BY <1>1, <2>1 DEF IdsBelow, Placed, RowIn
  <2>3. PICK rows \in Seq(R) : rows = leaves[l].rows
    BY <2>1
  <2>4. PICK m \in Nat : m = Len(rows)
    BY LenProperties
  <2>5. rows \in [1..m -> T]
    <3>1. DOMAIN rows = 1..m /\ rows = [k \in 1..m |-> rows[k]]
      BY <2>4, LenProperties
    <3>2. \A k \in 1..m : rows[k] \in T
      BY <2>2, <2>3, <2>4
    <3> QED BY <3>1, <3>2
  <2>6. rows \in Seq(T)
    BY <2>5, SeqDef
  <2> QED BY <2>3, <2>6
<1>3. Rows(leaves) \in Seq(T)
  BY <1>2, RowsType
<1>4. PICK rows \in Seq(T) : rows = Rows(leaves)
  BY <1>3
<1>5. DOMAIN rows = 1..Len(rows)
  BY LenProperties
<1>6. rows[i] \in T
  BY <1>4, <1>5, ElementOfSeq
<1> QED BY <1>1, <1>4, <1>6

LEMMA ReturnsOnWhole ==
  ASSUME CatalogInv, ColumnsInv, SchemaInv, CreateReturns, unlinked = {}, NEW s \in SchemaTables
  PROVE  /\ HasEntry(s)
         /\ \A i \in DOMAIN Rows(schema[s]) : Rows(schema[s])[i].row_id < Entry(s).next_row_id
         /\ ColumnNames(s) = SchemaColumns[s]
<1>1. pc = "append_column" /\ op.columns = << >>
  BY DEF CreateReturns
<1>2. MemoryIs(tables, columns, next, known)
  BY <1>1, Phases DEF SchemaInv, InMemory, DropsSchemaTable
<1>3. HasEntry(s) /\ next[s] = StoredIn(tables, s) /\ Entry(s).next_row_id = next[s]
  BY <1>2 DEF MemoryIs, BothEntries, HasEntry, Entry, StoredIn
<1>4. /\ attempted[op.name] # << >> /\ TablesSound(tables, columns)
      /\ IdsBelow(tables, next["davisbase_tables"])
      /\ Found(columns, op.name) # << >> =>
           ColumnsSound(tables, columns) /\ IdsBelow(columns, next["davisbase_columns"])
  BY <1>1, Phases DEF SchemaInv, Creating
<1>5. Found(columns, op.name) # << >>
  <2>1. WritingOf(columns, attempted, op.name, << >>)
    BY <1>1, Phases DEF ColumnsInv, CreateWrites
  <2>2. attempted[op.name] = Found(columns, op.name) \o << >>
    BY <2>1 DEF WritingOf, Joined
  <2>3. << >> \o << >> = << >>
    BY EmptySeq, ConcatEmptySeq
  <2> QED BY <1>4, <2>2, <2>3
<1>6. tables \in Leaves(TableRow) /\ columns \in Leaves(ColumnRow)
  BY SchemaTypes
<1>7. ColumnNames(s) = Found(columns, s)
  BY InfoIs DEF Found
<1>8. CASE s = "davisbase_tables"
  <2>1. schema[s] = tables /\ IdsBelow(tables, next[s]) /\ Found(columns, s) = SchemaColumns[s]
    BY <1>4, <1>8 DEF TablesSound, Sound, tables
  <2> QED BY <1>3, <1>6, <1>7, <2>1, RowOfScan
<1>9. CASE s = "davisbase_columns"
  <2>1. schema[s] = columns /\ IdsBelow(columns, next[s]) /\ Found(columns, s) = SchemaColumns[s]
    BY <1>4, <1>5, <1>9 DEF ColumnsSound, Sound, columns
  <2> QED BY <1>3, <1>6, <1>7, <2>1, RowOfScan
<1> QED BY <1>8, <1>9, SchemaNames

(* No other step adds a table to those that are created.                   *)
LEMMA OnlyReturnsCreate ==
  ASSUME CatalogInv, [Next \/ Kill]_vars, ~ CreateReturns
  PROVE  DOMAIN created' \subseteq DOMAIN created
<1>1. CASE \E name \in Names, definition \in Definitions : BeginCreate(name, definition)
  BY <1>1 DEF BeginCreate
<1>2. CASE \E name \in Names : BeginDrop(name)
  BY <1>2 DEF BeginDrop, Without
<1>3. CASE \E name \in Names, column \in Columns : MakeColumnUnique(name, column)
  <2>1. PICK name \in Names, column \in Columns : MakeColumnUnique(name, column)
    BY <1>3
  <2>2. created' = created \/ \E value : created' = [created EXCEPT ![name] = value]
    BY <2>1 DEF MakeColumnUnique
  <2> QED BY <2>2
<1>4. CASE WriteRoot \/ AppendTableRow \/ CountTableRow \/ AppendColumnRow \/ CountColumnRow
             \/ CreateThrows \/ DropTableRow \/ DropColumnRow \/ RemoveFile
  BY <1>4 DEF WriteRoot, AppendTableRow, CountTableRow, AppendColumnRow, CountColumnRow, CreateThrows,
     DropTableRow, DropColumnRow, RemoveFile, history
<1>5. CASE Start
  BY <1>5 DEF Start, OpenExisting, BeginBootstrap, TruncateSchemaFile, WriteSchemaRoot,
     BootstrapTableRow, BootstrapColumnRow, StoreEntry, history
<1>6. CASE Exit \/ Kill
  BY <1>6 DEF Exit, Kill, End
<1>7. CASE UNCHANGED vars
  BY <1>7 DEF vars, history
<1> QED BY <1>1, <1>2, <1>3, <1>4, <1>5, <1>6, <1>7 DEF Next, StatementStep

(* A kill while the schema tables are made may leave a database that opens *)
(* and lacks some of their rows.  No CREATE TABLE returns in it: whenever  *)
(* one does, both schema tables have their entries and all their columns,  *)
(* and each next_row_id stored is above every row id in use, so that a     *)
(* later process can append.  However many leaves and names there are.     *)
THEOREM CreateNeedsWholeSchema == CrashSpec => CreateReturnsOnWholeSchema
<1>1. CatalogInv /\ ColumnsInv /\ SchemaInv /\ [Next \/ Kill]_vars =>
        [\A name \in DOMAIN created' \ DOMAIN created : unlinked = {} =>
           \A s \in SchemaTables :
             /\ HasEntry(s)
             /\ \A i \in DOMAIN Rows(schema[s]) : Rows(schema[s])[i].row_id < Entry(s).next_row_id
             /\ ColumnNames(s) = SchemaColumns[s]]_vars
  <2> SUFFICES ASSUME CatalogInv, ColumnsInv, SchemaInv, [Next \/ Kill]_vars,
                      NEW name \in DOMAIN created' \ DOMAIN created, unlinked = {},
                      NEW s \in SchemaTables
               PROVE  /\ HasEntry(s)
                      /\ \A i \in DOMAIN Rows(schema[s]) :
                           Rows(schema[s])[i].row_id < Entry(s).next_row_id
                      /\ ColumnNames(s) = SchemaColumns[s]
    OBVIOUS
  <2>1. CreateReturns
    BY OnlyReturnsCreate
  <2> QED BY <2>1, ReturnsOnWhole
<1> QED BY <1>1, CatalogInvariant, ColumnsInvariant, SchemaInvariant, PTL
    DEF CrashSpec, CreateReturnsOnWholeSchema

-----------------------------------------------------------------------------
(* Statements that nothing interrupts, on tables other than the schema      *)
(* tables: these are whole from the end of the bootstrap on, but for the    *)
(* row that an append has not counted yet, and every other file belongs to  *)
(* a created table or to the statement under way.                          *)
OnlyUserTables == Names \intersect SchemaTables = {}
DefinitionsFit == \A definition \in Definitions : Len(definition) <= MaxOrdinal

Started == pc \notin BootstrapPhases /\ (pc = "down" => BothFilesExist)
Busy == IF pc \in CreatePhases \union DropPhases THEN {op.name} ELSE {}

SchemaWhole(ts, cs, phase) ==
  /\ TablesSound(ts, cs) /\ ColumnsSound(ts, cs)
  /\ phase # "count_table" => IdsBelow(ts, StoredIn(ts, "davisbase_tables"))
  /\ phase # "count_column" => IdsBelow(cs, StoredIn(ts, "davisbase_columns"))

StartedWhole == Started => SchemaWhole(tables, columns, pc)

FilesInOrder ==
  /\ unlinked = {}
  /\ IF Started THEN SchemaTables \subseteq DOMAIN files ELSE DOMAIN files \subseteq SchemaTables
  /\ created = [name \in (DOMAIN files \ SchemaTables) \ Busy |-> created[name]]
  /\ pc \in CreatePhases => attempted[op.name] \in Definitions

OrderInv == StartedWhole /\ FilesInOrder

LEMMA OrderInit == ASSUME Init PROVE OrderInv
<1>1. /\ DOMAIN files = {} /\ pc = "down" /\ unlinked = {} /\ created = << >>
  BY DEF Init
<1>2. ~ Started
  BY <1>1, SchemaNames DEF Started, BothFilesExist
<1>3. Busy = {}
  BY <1>1, Phases DEF Busy
<1>4. created = [name \in {} |-> created[name]]
  <2>1. created \in [1..0 -> {}]
    BY <1>1
  <2> QED BY <2>1
<1>5. (DOMAIN files \ SchemaTables) \ Busy = {}
  BY <1>1
<1>6. FilesInOrder
  BY <1>1, <1>2, <1>4, <1>5, Phases DEF FilesInOrder
<1> QED BY <1>2, <1>6 DEF OrderInv, StartedWhole

(* What the process knows of the schema tables while statements run.       *)
LEMMA KnowsSchema ==
  ASSUME OnlyUserTables, CatalogInv, SchemaInv, OrderInv, pc \notin {"down"} \union BootstrapPhases
  PROVE  /\ BothEntries(tables)
         /\ next["davisbase_tables"] = StoredIn(tables, "davisbase_tables")
         /\ next["davisbase_columns"] = StoredIn(tables, "davisbase_columns")
         /\ known["davisbase_tables"] = Len(SchemaColumns["davisbase_tables"])
         /\ known["davisbase_columns"] = Len(SchemaColumns["davisbase_columns"])
         /\ SchemaWhole(tables, columns, pc)
<1>1. ~ DropsSchemaTable
  BY Phases DEF DropsSchemaTable, CatalogInv, OpTyped, OnlyUserTables
<1>2. unlinked = {} /\ SchemaWhole(tables, columns, pc)
  BY DEF OrderInv, FilesInOrder, StartedWhole, Started
<1>3. MemoryIs(tables, columns, next, known)
  BY <1>1, <1>2 DEF SchemaInv, InMemory
<1>4. /\ Found(columns, "davisbase_tables") = SchemaColumns["davisbase_tables"]
      /\ Found(columns, "davisbase_columns") = SchemaColumns["davisbase_columns"]
  BY <1>2 DEF SchemaWhole, TablesSound, ColumnsSound, Sound
<1> QED BY <1>2, <1>3, <1>4, SchemaNames DEF MemoryIs

(* No CREATE TABLE throws.                                                 *)
LEMMA NothingThrows ==
  ASSUME OnlyUserTables, DefinitionsFit, CatalogInv, SchemaInv, OrderInv
  PROVE  ~ CreateThrows
<1> SUFFICES ASSUME CreateThrows PROVE FALSE
  OBVIOUS
<1>1. pc \in {"append_table", "append_column"}
  BY DEF CreateThrows
<1>2. /\ known["davisbase_tables"] = Len(SchemaColumns["davisbase_tables"])
      /\ known["davisbase_columns"] = Len(SchemaColumns["davisbase_columns"])
      /\ IdsBelow(tables, next["davisbase_tables"]) /\ IdsBelow(columns, next["davisbase_columns"])
  BY <1>1, KnowsSchema, Phases DEF SchemaWhole
<1>3. /\ tables \in Leaves(TableRow) /\ tables # << >>
      /\ columns \in Leaves(ColumnRow) /\ columns # << >>
  BY <1>1, SchemaTypes DEF Unready
<1>4. TakesId(tables, next["davisbase_tables"]) /\ TakesId(columns, next["davisbase_columns"])
  BY <1>2, <1>3, BelowTakes
<1>5. CanAppend("davisbase_tables") /\ CanAppend("davisbase_columns")
  BY <1>2, <1>4 DEF CanAppend, TakesId, tables, columns
<1>6. pc = "append_column" /\ op.columns # << >> /\ Ordinal > MaxOrdinal
  BY <1>5 DEF CreateThrows
<1>7. op.columns \in Seq(Columns) /\ attempted[op.name] \in Definitions
  BY <1>6, Phases DEF CatalogInv, OpTyped, OrderInv, FilesInOrder
<1>8. PICK m \in Nat : m = Len(op.columns) /\ m # 0
  BY <1>6, <1>7, LenProperties, EmptySeq
<1>9. PICK n \in Nat : n = Len(attempted[op.name])
  BY <1>7, CatalogAssumption, LenProperties
<1>10. MaxOrdinal \in Nat /\ n <= MaxOrdinal
  BY <1>7, <1>9, CatalogAssumption DEF DefinitionsFit
<1>11. ~ (n - m + 1 > MaxOrdinal)
  <2>1. \A i, j, k \in Nat : j # 0 /\ i <= k => ~ (i - j + 1 > k)
    OBVIOUS
  <2> QED BY <1>8, <1>9, <1>10, <2>1
<1>12. ~ (Ordinal > MaxOrdinal)
  BY <1>8, <1>9, <1>11 DEF Ordinal
<1> QED BY <1>6, <1>12

(* Steps that leave the schema tables alone.                               *)
LEMMA QuietOrder ==
  ASSUME OrderInv, tables' = tables, columns' = columns,
         pc \notin {"count_table", "count_column"}, Started' => Started
  PROVE  StartedWhole'
BY DEF OrderInv, StartedWhole, SchemaWhole
(* The writes of CREATE TABLE to the schema tables.                        *)
LEMMA AppendTableOrder ==
  ASSUME OnlyUserTables, CatalogInv, SchemaInv, SchemaInv', OrderInv, AppendTableRow, unlinked' = {}
  PROVE  StartedWhole'
<1>1. /\ pc = "append_table" /\ pc' = "count_table" /\ next' = next
  BY DEF AppendTableRow, session
<1>2. columns' = columns
  BY TablesWritten DEF AppendTableRow, CatalogInv, tables
<1>3. SchemaWhole(tables, columns, pc) /\ next["davisbase_columns"] = StoredIn(tables, "davisbase_columns")
  BY <1>1, KnowsSchema, Phases
<1>4. MemoryIs(tables', columns', next', known')
  BY <1>1, Phases DEF SchemaInv, InMemory, DropsSchemaTable
<1>5. TablesSound(tables', columns')
  BY <1>1, Phases DEF SchemaInv, Creating
<1>6. StoredIn(tables', "davisbase_columns") = StoredIn(tables, "davisbase_columns")
  BY <1>1, <1>3, <1>4, SchemaNames DEF MemoryIs
<1>7. ColumnsSound(tables', columns') /\ IdsBelow(columns', StoredIn(tables', "davisbase_columns"))
  BY <1>1, <1>2, <1>3, <1>6 DEF SchemaWhole, ColumnsSound
<1> QED BY <1>1, <1>5, <1>7 DEF StartedWhole, SchemaWhole

LEMMA CountTableOrder ==
  ASSUME OnlyUserTables, CatalogInv, SchemaInv, SchemaInv', OrderInv, CountTableRow, unlinked' = {}
  PROVE  StartedWhole'
<1>1. pc = "count_table" /\ pc' = "append_column"
  BY DEF CountTableRow
<1>2. columns' = columns /\ next'["davisbase_columns"] = next["davisbase_columns"]
  <2>1. next \in [SchemaTables -> Nat]
    BY SchemaTypes
  <2>2. next' = [next EXCEPT !["davisbase_tables"] = @ + 1]
    BY DEF CountTableRow, CountRow
  <2> QED BY <2>1, <2>2, TablesWritten, SchemaNames DEF CountTableRow, CountRow, CatalogInv, tables
<1>3. SchemaWhole(tables, columns, pc) /\ next["davisbase_columns"] = StoredIn(tables, "davisbase_columns")
  BY <1>1, KnowsSchema, Phases
<1>4. MemoryIs(tables', columns', next', known')
  BY <1>1, Phases DEF SchemaInv, InMemory, DropsSchemaTable
<1>5. TablesSound(tables', columns') /\ IdsBelow(tables', next'["davisbase_tables"])
  BY <1>1, Phases DEF SchemaInv, Creating
<1>6. /\ StoredIn(tables', "davisbase_columns") = StoredIn(tables, "davisbase_columns")
      /\ StoredIn(tables', "davisbase_tables") = next'["davisbase_tables"]
  BY <1>2, <1>3, <1>4, SchemaNames DEF MemoryIs
<1>7. ColumnsSound(tables', columns') /\ IdsBelow(columns', StoredIn(tables', "davisbase_columns"))
  BY <1>1, <1>2, <1>3, <1>6 DEF SchemaWhole, ColumnsSound
<1> QED BY <1>5, <1>6, <1>7 DEF StartedWhole, SchemaWhole

LEMMA AppendColumnOrder ==
  ASSUME SchemaInv', AppendColumnRow, unlinked' = {}
  PROVE  StartedWhole'
<1>1. pc' = "count_column"
  BY DEF AppendColumnRow
<1>2. MemoryIs(tables', columns', next', known')
  BY <1>1, Phases DEF SchemaInv, InMemory, DropsSchemaTable
<1>3. /\ TablesSound(tables', columns') /\ ColumnsSound(tables', columns')
      /\ IdsBelow(tables', next'["davisbase_tables"])
  BY <1>1, Phases DEF SchemaInv, Creating
<1>4. StoredIn(tables', "davisbase_tables") = next'["davisbase_tables"]
  BY <1>2, SchemaNames DEF MemoryIs
<1> QED BY <1>1, <1>3, <1>4 DEF StartedWhole, SchemaWhole

LEMMA CountColumnOrder ==
  ASSUME OnlyUserTables, CatalogInv, SchemaInv, SchemaInv', OrderInv, CountColumnRow, unlinked' = {}
  PROVE  StartedWhole'
<1>1. pc = "count_column" /\ pc' = "append_column"
  BY DEF CountColumnRow
<1>2. PICK n \in Nat : n = next["davisbase_columns"]
  BY SchemaTypes, SchemaNames
<1>3. columns' = columns /\ next'["davisbase_columns"] = n + 1
  <2>1. next \in [SchemaTables -> Nat]
    BY SchemaTypes
  <2>2. next' = [next EXCEPT !["davisbase_columns"] = n + 1]
    BY <1>2 DEF CountColumnRow, CountRow
  <2> QED BY <2>1, <2>2, TablesWritten, SchemaNames DEF CountColumnRow, CountRow, CatalogInv, tables
<1>4. SchemaWhole(tables, columns, pc) /\ n = StoredIn(tables, "davisbase_columns")
  BY <1>1, <1>2, KnowsSchema, Phases
<1>5. MemoryIs(tables', columns', next', known')
  BY <1>1, Phases DEF SchemaInv, InMemory, DropsSchemaTable
<1>6. TablesSound(tables', columns') /\ IdsBelow(tables', next'["davisbase_tables"])
  BY <1>1, Phases DEF SchemaInv, Creating
<1>7. /\ StoredIn(tables', "davisbase_columns") = n + 1
      /\ StoredIn(tables', "davisbase_tables") = next'["davisbase_tables"]
  BY <1>3, <1>5, SchemaNames DEF MemoryIs
<1>8. ColumnsSound(tables, columns) /\ columns \in Leaves(ColumnRow)
  BY <1>4, SchemaTypes DEF SchemaWhole
<1>9. IdsBelow(columns', n + 1)
  BY <1>3, <1>4, <1>8, IdsCounted, RowsHaveIds DEF ColumnsSound, Sound
<1>10. ColumnsSound(tables', columns')
  BY <1>3, <1>7, <1>8, <1>9, BelowIsUpTo DEF ColumnsSound, Sound
<1> QED BY <1>6, <1>7, <1>9, <1>10 DEF StartedWhole, SchemaWhole
(* DROP TABLE and CREATE INDEX.                                            *)
LEMMA DropTableOrder ==
  ASSUME OnlyUserTables, CatalogInv, SchemaInv, SchemaInv', OrderInv, DropTableRow, unlinked' = {}
  PROVE  StartedWhole'
<1>1. pc = "drop_table" /\ pc' = "drop_columns" /\ op' = op /\ next' = next
  BY DEF DropTableRow, session
<1>2. op.name \notin SchemaTables
  BY <1>1, Phases DEF CatalogInv, OpTyped, OnlyUserTables
<1>3. /\ SchemaWhole(tables, columns, pc)
      /\ next["davisbase_tables"] = StoredIn(tables, "davisbase_tables")
      /\ next["davisbase_columns"] = StoredIn(tables, "davisbase_columns")
  BY <1>1, KnowsSchema, Phases
<1>4. MemoryIs(tables', columns', next', known')
  BY <1>1, <1>2, Phases DEF SchemaInv, InMemory, DropsSchemaTable
<1>5. /\ StoredIn(tables', "davisbase_tables") = StoredIn(tables, "davisbase_tables")
      /\ StoredIn(tables', "davisbase_columns") = StoredIn(tables, "davisbase_columns")
  BY <1>1, <1>3, <1>4, SchemaNames DEF MemoryIs
<1>6. columns' = columns /\ (tables' = tables \/ RowsMoveUp(tables, tables'))
  BY DropTableMoves
<1>7. PICK n : n = StoredIn(tables, "davisbase_tables")
  OBVIOUS
<1>8. IdsBelow(tables, n) /\ IdsUpTo(tables, n)
  BY <1>1, <1>3, <1>7, BelowIsUpTo DEF SchemaWhole
<1>9. IdsBelow(tables', n) /\ IdsUpTo(tables', n)
  <2>1. CASE tables' = tables
    BY <1>8, <2>1
  <2>2. CASE RowsMoveUp(tables, tables')
    BY <1>8, <2>2, IdsAfterDelete
  <2> QED BY <1>6, <2>1, <2>2
<1>10. TablesSound(tables', columns')
  BY <1>3, <1>5, <1>6, <1>7, <1>9 DEF SchemaWhole, TablesSound, Sound
<1>11. ColumnsSound(tables', columns') /\ IdsBelow(columns', StoredIn(tables', "davisbase_columns"))
  BY <1>1, <1>3, <1>5, <1>6 DEF SchemaWhole, ColumnsSound
<1> QED BY <1>5, <1>7, <1>9, <1>10, <1>11 DEF StartedWhole, SchemaWhole

LEMMA SameFoundOrder ==
  ASSUME SchemaWhole(tables, columns, pc), pc \notin {"count_table", "count_column"},
         tables' = tables,
         \A s \in SchemaTables : Found(columns', s) = Found(columns, s),
         \A n : /\ IdsBelow(columns, n) => IdsBelow(columns', n)
                /\ IdsUpTo(columns, n) => IdsUpTo(columns', n)
  PROVE  StartedWhole'
<1>1. /\ Found(columns', "davisbase_tables") = Found(columns, "davisbase_tables")
      /\ Found(columns', "davisbase_columns") = Found(columns, "davisbase_columns")
  BY SchemaNames
<1>2. TablesSound(tables', columns') /\ ColumnsSound(tables', columns')
  BY <1>1 DEF SchemaWhole, TablesSound, ColumnsSound, Sound
<1>3. /\ IdsBelow(tables', StoredIn(tables', "davisbase_tables"))
      /\ IdsBelow(columns', StoredIn(tables', "davisbase_columns"))
  BY DEF SchemaWhole
<1> QED BY <1>2, <1>3 DEF StartedWhole, SchemaWhole

LEMMA DropColumnOrder ==
  ASSUME OnlyUserTables, CatalogInv, SchemaInv, OrderInv, DropColumnRow
  PROVE  StartedWhole'
<1>1. pc = "drop_columns"
  BY DEF DropColumnRow
<1>2. op.name \notin SchemaTables
  BY <1>1, Phases DEF CatalogInv, OpTyped, OnlyUserTables
<1>3. SchemaWhole(tables, columns, pc)
  BY <1>1, KnowsSchema, Phases
<1>4. /\ tables' = tables /\ RowsMoveUp(columns, columns')
      /\ \A s \in SchemaTables : Found(columns', s) = Found(columns, s)
  BY <1>2, DropColumnMoves
<1>5. \A n : /\ IdsBelow(columns, n) => IdsBelow(columns', n)
             /\ IdsUpTo(columns, n) => IdsUpTo(columns', n)
  BY <1>4, IdsAfterDelete
<1> QED BY <1>1, <1>3, <1>4, <1>5, SameFoundOrder

LEMMA IndexOrder ==
  ASSUME OnlyUserTables, CatalogInv, SchemaInv, OrderInv,
         NEW name \in Names, NEW column \in Columns, MakeColumnUnique(name, column)
  PROVE  StartedWhole'
<1>1. pc = "idle"
  BY DEF MakeColumnUnique
<1>2. SchemaWhole(tables, columns, pc)
  BY <1>1, KnowsSchema, Phases
<1>3. /\ tables' = tables /\ columns' \in Leaves(ColumnRow) /\ SameIds(columns, columns')
      /\ \A s \in SchemaTables : Found(columns', s) = Found(columns, s)
  BY IndexKeepsSchema
<1>4. columns \in Leaves(ColumnRow) /\ columns # << >>
  BY <1>1, SchemaTypes DEF Unready
<1>5. \A n : /\ IdsBelow(columns, n) => IdsBelow(columns', n)
             /\ IdsUpTo(columns, n) => IdsUpTo(columns', n)
  BY <1>3, <1>4, IdsOfSame
<1> QED BY <1>1, <1>2, <1>3, <1>5, SameFoundOrder

(* The last write of the bootstrap.                                        *)
LEMMA StoreEntryOrder ==
  ASSUME CatalogInv, SchemaInv, SchemaInv', StoreEntry, unlinked' = {}
  PROVE  StartedWhole'
<1> SUFFICES ASSUME pc' \notin BootstrapPhases PROVE SchemaWhole(tables', columns', pc')
  BY DEF StartedWhole, Started
<1>1. PICK s, n : s = Head(op.left) /\ n = next[s]
  OBVIOUS
<1>2. PICK new : new = StoreNext(tables, s, n)
  OBVIOUS
<1>3. /\ pc = "store_entries" /\ schema' = [schema EXCEPT !.davisbase_tables = new] /\ next' = next
  BY <1>1, <1>2 DEF StoreEntry, tables, session
<1>4. op \in [left : {SchemaOrder, Tail(SchemaOrder)}]
  BY <1>3 DEF CatalogInv, OpTyped, Loops
<1>5. s \in SchemaTables /\ pc' \in {"idle", "store_entries"}
  <2>1. Head(op.left) \in SchemaTables
    BY <1>4, SchemaOrders, SchemaNames
  <2> QED BY <1>1, <1>3, <2>1 DEF StoreEntry, GoOn
<1>6. pc' = "idle"
  BY <1>5, Phases
<1>7. tables' = new /\ columns' = columns
  BY <1>3, TablesWritten DEF CatalogInv
<1>8. /\ tables \in Leaves(TableRow) /\ tables # << >> /\ Single(tables)
      /\ next \in [SchemaTables -> Nat] /\ n \in Nat
  BY <1>1, <1>3, <1>5, SchemaTypes DEF Unready
<1>9. /\ IdsBelow(tables, next["davisbase_tables"]) /\ IdsBelow(columns, next["davisbase_columns"])
      /\ At(tables, s) # {}
      /\ \A t \in SchemaTables : Found(columns, t) = SchemaColumns[t]
  BY <1>3, <1>5 DEF SchemaInv, Making, Growing, BothEntries
<1>10. new \in Leaves(TableRow) /\ SameIds(tables, new)
  <2>1. NextStored(tables, new, s, n)
    BY <1>2 DEF NextStored
  <2> QED BY <1>8, <1>9, <2>1, StoredAfterStore
<1>11. IdsBelow(new, next["davisbase_tables"])
  BY <1>8, <1>9, <1>10, IdsOfSame
<1>12. MemoryIs(tables', columns', next', known')
  BY <1>6, Phases DEF SchemaInv, InMemory, DropsSchemaTable
<1>13. /\ StoredIn(new, "davisbase_tables") = next["davisbase_tables"]
       /\ StoredIn(new, "davisbase_columns") = next["davisbase_columns"]
  BY <1>3, <1>7, <1>12, SchemaNames DEF MemoryIs
<1>14. /\ Found(columns, "davisbase_tables") = SchemaColumns["davisbase_tables"]
       /\ Found(columns, "davisbase_columns") = SchemaColumns["davisbase_columns"]
  BY <1>9, SchemaNames
<1>15. TablesSound(new, columns) /\ ColumnsSound(new, columns)
  BY <1>9, <1>11, <1>13, <1>14, BelowIsUpTo DEF TablesSound, ColumnsSound, Sound
<1> QED BY <1>7, <1>9, <1>11, <1>13, <1>15 DEF SchemaWhole
(* The files, and the statement under way.                                 *)
LEMMA NotBusy ==
  ASSUME pc \notin CreatePhases \union DropPhases
  PROVE  Busy = {}
BY DEF Busy

LEMMA StatementStarted ==
  ASSUME OrderInv, pc \in {"idle"} \union CreatePhases \union DropPhases
  PROVE  Started /\ SchemaTables \subseteq DOMAIN files
BY Phases DEF Started, OrderInv, FilesInOrder

LEMMA StatementFiles ==
  ASSUME CatalogInv, OrderInv,
         \/ WriteRoot \/ AppendTableRow \/ CountTableRow \/ AppendColumnRow \/ CountColumnRow
         \/ DropTableRow \/ DropColumnRow
  PROVE  FilesInOrder'
<1>1. /\ \/ pc \in CreatePhases /\ pc' \in CreatePhases
         \/ pc \in DropPhases /\ pc' \in DropPhases
      /\ unlinked' = unlinked /\ created' = created /\ attempted' = attempted
      /\ op' = op \/ op' = [op EXCEPT !.columns = Tail(@)]
      /\ files' = files \/ files' = Put(files, op.name, "paged")
  <2>1. CASE WriteRoot
    BY <2>1, Phases DEF WriteRoot, session, history
  <2>2. CASE AppendTableRow
    BY <2>2, Phases DEF AppendTableRow, session, history
  <2>3. CASE CountTableRow
    BY <2>3, Phases DEF CountTableRow, CountRow, session, history
  <2>4. CASE AppendColumnRow
    BY <2>4, Phases DEF AppendColumnRow, session, history
  <2>5. CASE CountColumnRow
    BY <2>5, Phases DEF CountColumnRow, CountRow, session, history
  <2>6. CASE DropTableRow
    BY <2>6, Phases DEF DropTableRow, session, history
  <2>7. CASE DropColumnRow
    BY <2>7, Phases DEF DropColumnRow, session, history
  <2> QED BY <2>1, <2>2, <2>3, <2>4, <2>5, <2>6, <2>7
<1>2. op'.name = op.name
  BY <1>1 DEF CatalogInv, OpTyped
<1>3. op.name \in DOMAIN files
  BY <1>1 DEF CatalogInv, StatementUnderWay
<1>4. DOMAIN files' = DOMAIN files
  BY <1>1, <1>3 DEF Put
<1>5. Busy' = Busy
  BY <1>1, <1>2 DEF Busy
<1>6. Started' /\ SchemaTables \subseteq DOMAIN files
  BY <1>1, StatementStarted, Phases DEF Started
<1>7. pc' \in CreatePhases => attempted[op.name] \in Definitions
  BY <1>1, Phases DEF OrderInv, FilesInOrder
<1> QED BY <1>1, <1>2, <1>4, <1>5, <1>6, <1>7 DEF OrderInv, FilesInOrder

LEMMA BeginCreateFiles ==
  ASSUME CatalogInv, OrderInv, NEW name \in Names, NEW definition \in Definitions,
         BeginCreate(name, definition)
  PROVE  FilesInOrder'
<1>1. /\ pc = "idle" /\ pc' = "write_root" /\ name \notin DOMAIN files
      /\ files' = Put(files, name, "empty") /\ op' = [name |-> name, columns |-> definition]
      /\ unlinked' = unlinked /\ created' = created /\ attempted' = Put(attempted, name, definition)
  BY DEF BeginCreate, session
<1>2. DOMAIN files' = DOMAIN files \union {name} /\ attempted'[name] = definition
  BY <1>1 DEF Put
<1>3. op'.name = name
  BY <1>1
<1>4. Busy = {} /\ Busy' = {name}
  BY <1>1, <1>3, Phases DEF Busy
<1>5. Started' /\ SchemaTables \subseteq DOMAIN files
  BY <1>1, StatementStarted, Phases DEF Started
<1>6. (DOMAIN files' \ SchemaTables) \ Busy' = (DOMAIN files \ SchemaTables) \ Busy
  BY <1>1, <1>2, <1>4
<1> QED BY <1>1, <1>2, <1>3, <1>5, <1>6 DEF OrderInv, FilesInOrder

LEMMA CreateReturnsFiles ==
  ASSUME OnlyUserTables, CatalogInv, OrderInv, CreateReturns
  PROVE  FilesInOrder'
<1>1. PICK value :
        value = [i \in DOMAIN attempted[op.name] |->
                   [column |-> attempted[op.name][i], unique |-> FALSE]]
  OBVIOUS
<1>2. /\ pc = "append_column" /\ pc' = "idle" /\ files' = files /\ unlinked' = unlinked
      /\ created' = Put(created, op.name, value)
  BY <1>1 DEF CreateReturns, EndStatement, session
<1>3. op.name \in DOMAIN files /\ op.name \notin SchemaTables
  BY <1>2, Phases DEF CatalogInv, OpTyped, StatementUnderWay, OnlyUserTables
<1>4. Busy = {op.name} /\ Busy' = {}
  BY <1>2, Phases DEF Busy
<1>5. Started' /\ SchemaTables \subseteq DOMAIN files
  BY <1>2, StatementStarted, Phases DEF Started
<1>6. DOMAIN created = (DOMAIN files \ SchemaTables) \ {op.name}
  BY <1>4 DEF OrderInv, FilesInOrder
<1>7. (DOMAIN files' \ SchemaTables) \ Busy' = DOMAIN created \union {op.name}
  BY <1>2, <1>3, <1>4, <1>6
<1>8. created' = [n \in DOMAIN created \union {op.name} |-> created'[n]]
  BY <1>2 DEF Put
<1>9. unlinked' = {}
  BY <1>2 DEF OrderInv, FilesInOrder
<1> QED BY <1>2, <1>5, <1>7, <1>8, <1>9, Phases DEF FilesInOrder

LEMMA BeginDropFiles ==
  ASSUME CatalogInv, OrderInv, NEW name \in Names, BeginDrop(name)
  PROVE  FilesInOrder'
<1>1. /\ pc = "idle" /\ pc' = "drop_table" /\ files' = files /\ unlinked' = unlinked
      /\ op' = [name |-> name] /\ created' = Without(created, name)
  BY DEF BeginDrop, session
<1>2. Busy = {} /\ Busy' = {name}
  BY <1>1, Phases DEF Busy
<1>3. Started' /\ SchemaTables \subseteq DOMAIN files
  BY <1>1, StatementStarted, Phases DEF Started
<1>4. DOMAIN created = DOMAIN files \ SchemaTables
  BY <1>2 DEF OrderInv, FilesInOrder
<1>5. (DOMAIN files' \ SchemaTables) \ Busy' = DOMAIN created \ {name}
  BY <1>1, <1>2, <1>4
<1>6. created' = [n \in DOMAIN created \ {name} |-> created'[n]]
  BY <1>1 DEF Without
<1>7. unlinked' = {}
  BY <1>1 DEF OrderInv, FilesInOrder
<1> QED BY <1>1, <1>3, <1>5, <1>6, <1>7, Phases DEF FilesInOrder

LEMMA RemoveFileFiles ==
  ASSUME OnlyUserTables, CatalogInv, OrderInv, RemoveFile
  PROVE  FilesInOrder'
<1>1. /\ pc = "drop_columns" /\ pc' = "idle" /\ files' = Without(files, op.name)
      /\ unlinked' = unlinked \union ({op.name} \intersect SchemaTables) /\ created' = created
  BY DEF RemoveFile, EndStatement, history
<1>2. op.name \notin SchemaTables
  BY <1>1, Phases DEF CatalogInv, OpTyped, OnlyUserTables
<1>3. Busy = {op.name} /\ Busy' = {}
  BY <1>1, Phases DEF Busy
<1>4. Started' /\ SchemaTables \subseteq DOMAIN files
  BY <1>1, StatementStarted, Phases DEF Started
<1>5. DOMAIN files' = DOMAIN files \ {op.name}
  BY <1>1 DEF Without
<1>6. (DOMAIN files' \ SchemaTables) \ Busy' = (DOMAIN files \ SchemaTables) \ Busy
  BY <1>3, <1>5
<1>7. unlinked' = {} /\ SchemaTables \subseteq DOMAIN files'
  BY <1>1, <1>2, <1>4, <1>5 DEF OrderInv, FilesInOrder
<1> QED BY <1>1, <1>4, <1>6, <1>7, Phases DEF OrderInv, FilesInOrder

LEMMA IndexFiles ==
  ASSUME OrderInv, NEW name \in Names, NEW column \in Columns, MakeColumnUnique(name, column)
  PROVE  FilesInOrder'
<1>1. /\ pc = "idle" /\ pc' = "idle" /\ files' = files /\ unlinked' = unlinked
      /\ created' = created \/ \E value : created' = [created EXCEPT ![name] = value]
  BY DEF MakeColumnUnique, session
<1>2. Busy = {} /\ Busy' = {}
  BY <1>1, Phases DEF Busy
<1>3. Started' /\ SchemaTables \subseteq DOMAIN files
  BY <1>1, StatementStarted, Phases DEF Started
<1>4. DOMAIN created = DOMAIN files \ SchemaTables
  BY <1>2 DEF OrderInv, FilesInOrder
<1>5. created' = [n \in DOMAIN created |-> created'[n]]
  BY <1>1, <1>2, <1>4 DEF OrderInv, FilesInOrder
<1>6. unlinked' = {}
  BY <1>1 DEF OrderInv, FilesInOrder
<1> QED BY <1>1, <1>2, <1>3, <1>4, <1>5, <1>6, Phases DEF FilesInOrder

LEMMA ExitFiles ==
  ASSUME OrderInv, Exit
  PROVE  FilesInOrder'
<1>1. /\ pc = "idle" /\ pc' = "down" /\ files' = files /\ unlinked' = {}
      /\ created' = IF unlinked = {} THEN created ELSE << >>
  BY DEF Exit, End
<1>2. Busy = {} /\ Busy' = {}
  BY <1>1, Phases DEF Busy
<1>3. Started' /\ SchemaTables \subseteq DOMAIN files
  BY <1>1, StatementStarted, Phases DEF Started, BothFilesExist
<1>4. created' = created
  BY <1>1 DEF OrderInv, FilesInOrder
<1> QED BY <1>1, <1>2, <1>3, <1>4, Phases DEF OrderInv, FilesInOrder

LEMMA StartFiles ==
  ASSUME CatalogInv, ColumnsInv, OrderInv, Start
  PROVE  FilesInOrder'
<1>1. /\ pc \in {"down"} \union BootstrapPhases
      /\ unlinked' = unlinked /\ created' = created
  BY Phases DEF Start, OpenExisting, BeginBootstrap, TruncateSchemaFile, WriteSchemaRoot,
     BootstrapTableRow, BootstrapColumnRow, StoreEntry, session, history
<1>2. Busy = {}
  BY <1>1, Phases DEF Busy
<1>3. CASE OpenExisting
  <2>1. pc = "down" /\ pc' = "idle" /\ files' = files /\ Started /\ Started' /\ Busy' = {}
    BY <1>3, Phases DEF OpenExisting, Started, Busy
  <2> QED BY <1>1, <1>2, <2>1, Phases DEF OrderInv, FilesInOrder
<1>4. CASE ~ OpenExisting
  <2>1. ~ Started
    BY <1>1, <1>4 DEF Start, Started, BeginBootstrap, TruncateSchemaFile, WriteSchemaRoot,
       BootstrapTableRow, BootstrapColumnRow, StoreEntry, BootstrapPhases
  <2>2. files' = files \/ \E s \in SchemaTables : \E value : files' = Put(files, s, value)
    <3>1. pc \in {"truncate", "write_roots"} => Head(op.left) \in SchemaTables
      <4>1. pc \in {"truncate", "write_roots"} => op \in [left : {SchemaOrder, Tail(SchemaOrder)}]
        BY DEF CatalogInv, OpTyped, Loops
      <4> QED BY <4>1, SchemaOrders, SchemaNames
    <3> QED BY <1>4, <3>1 DEF Start, BeginBootstrap, TruncateSchemaFile, WriteSchemaRoot,
            BootstrapTableRow, BootstrapColumnRow, StoreEntry
  <2>3. DOMAIN files' \subseteq SchemaTables /\ DOMAIN files \subseteq SchemaTables
    BY <2>1, <2>2 DEF Put, OrderInv, FilesInOrder
  <2>4. pc' \in BootstrapPhases \/ (pc = "store_entries" /\ pc' = "idle" /\ files' = files)
    BY <1>1, <1>4, Phases DEF Start, BeginBootstrap, TruncateSchemaFile, WriteSchemaRoot,
       BootstrapTableRow, BootstrapColumnRow, StoreEntry, GoOn
  <2>5. IF Started' THEN SchemaTables \subseteq DOMAIN files' ELSE DOMAIN files' \subseteq SchemaTables
    <3>1. CASE pc' \in BootstrapPhases
      BY <2>3, <3>1 DEF Started
    <3>2. CASE pc = "store_entries" /\ pc' = "idle" /\ files' = files
      <4>1. SchemaTables \subseteq DOMAIN files \union unlinked
        BY <3>2 DEF ColumnsInv, BootstrapWrites, Unready
      <4> QED BY <2>3, <3>2, <4>1 DEF OrderInv, FilesInOrder
    <3> QED BY <2>4, <3>1, <3>2
  <2>6. Busy' = {}
    BY <2>4, Phases DEF Busy
  <2> QED BY <1>1, <1>2, <2>3, <2>4, <2>5, <2>6, Phases DEF OrderInv, FilesInOrder
<1> QED BY <1>3, <1>4
LEMMA StartOrder ==
  ASSUME CatalogInv, SchemaInv, SchemaInv', OrderInv, Start, unlinked' = {}
  PROVE  StartedWhole'
<1>1. CASE OpenExisting
  <2>1. /\ pc = "down" /\ pc' = "idle" /\ schema' = schema /\ Started
    BY <1>1, Phases DEF OpenExisting, Started
  <2>2. tables' = tables /\ columns' = columns
    BY <2>1 DEF tables, columns
  <2> QED BY <2>1, <2>2, QuietOrder
<1>2. CASE StoreEntry
  BY <1>2, StoreEntryOrder
<1>3. CASE \/ BeginBootstrap \/ TruncateSchemaFile \/ WriteSchemaRoot \/ BootstrapTableRow
           \/ BootstrapColumnRow
  <2>1. pc' \in BootstrapPhases
    BY <1>3, Phases DEF BeginBootstrap, TruncateSchemaFile, WriteSchemaRoot, BootstrapTableRow,
       BootstrapColumnRow, GoOn
  <2> QED BY <2>1 DEF StartedWhole, Started
<1> QED BY <1>1, <1>2, <1>3 DEF Start

LEMMA QuietStepOrder ==
  ASSUME OrderInv,
         \/ \E name \in Names, definition \in Definitions : BeginCreate(name, definition)
         \/ \E name \in Names : BeginDrop(name)
         \/ WriteRoot \/ CreateReturns \/ RemoveFile \/ Exit
  PROVE  StartedWhole'
<1>1. /\ pc \in {"idle", "write_root", "append_column", "drop_columns"}
      /\ schema' = schema \/ schema' = [s \in SchemaTables |-> OnDisk(s)]
  BY DEF BeginCreate, BeginDrop, WriteRoot, CreateReturns, RemoveFile, Exit, End
<1>2. unlinked = {}
  BY DEF OrderInv, FilesInOrder
<1>3. tables' = tables /\ columns' = columns
  BY <1>1, <1>2, SchemaNames DEF tables, columns, OnDisk
<1>4. Started
  BY <1>1, Phases DEF Started
<1> QED BY <1>1, <1>3, <1>4, QuietOrder

LEMMA OrderStep ==
  ASSUME OnlyUserTables, DefinitionsFit
  PROVE  CatalogInv /\ ColumnsInv /\ SchemaInv /\ SchemaInv' /\ OrderInv /\ [Next]_vars => OrderInv'
<1> SUFFICES ASSUME CatalogInv, ColumnsInv, SchemaInv, SchemaInv', OrderInv, [Next]_vars
             PROVE  OrderInv'
  OBVIOUS
<1>1. CASE \E name \in Names, definition \in Definitions : BeginCreate(name, definition)
  BY <1>1, BeginCreateFiles, QuietStepOrder DEF OrderInv
<1>2. CASE \E name \in Names : BeginDrop(name)
  BY <1>2, BeginDropFiles, QuietStepOrder DEF OrderInv
<1>3. CASE \E name \in Names, column \in Columns : MakeColumnUnique(name, column)
  BY <1>3, IndexFiles, IndexOrder DEF OrderInv
<1>4. CASE StatementStep
  <2>1. CASE WriteRoot
    BY <2>1, StatementFiles, QuietStepOrder DEF OrderInv
  <2>2. CASE CreateReturns
    BY <2>2, CreateReturnsFiles, QuietStepOrder DEF OrderInv
  <2>3. CASE RemoveFile
    BY <2>3, RemoveFileFiles, QuietStepOrder DEF OrderInv
  <2>4. CASE CreateThrows
    BY <2>4, NothingThrows
  <2>5. CASE AppendTableRow \/ CountTableRow \/ AppendColumnRow \/ CountColumnRow
               \/ DropTableRow \/ DropColumnRow
    <3>1. FilesInOrder'
      BY <2>5, StatementFiles
    <3>2. unlinked' = {}
      BY <3>1 DEF FilesInOrder
    <3>3. StartedWhole'
      BY <2>5, <3>2, AppendTableOrder, CountTableOrder, AppendColumnOrder, CountColumnOrder,
         DropTableOrder, DropColumnOrder
    <3> QED BY <3>1, <3>3 DEF OrderInv
  <2> QED BY <1>4, <2>1, <2>2, <2>3, <2>4, <2>5 DEF StatementStep
<1>5. CASE Start
  <2>1. FilesInOrder' /\ unlinked' = {}
    BY <1>5, StartFiles DEF FilesInOrder
  <2> QED BY <1>5, <2>1, StartOrder DEF OrderInv
<1>6. CASE Exit
  BY <1>6, ExitFiles, QuietStepOrder DEF OrderInv
<1>7. CASE UNCHANGED vars
  <2>1. /\ files' = files /\ schema' = schema /\ unlinked' = unlinked /\ pc' = pc /\ op' = op
        /\ attempted' = attempted /\ created' = created
    BY <1>7 DEF vars, session, history
  <2>2. tables' = tables /\ columns' = columns /\ Busy' = Busy /\ Started' = Started
    BY <2>1 DEF tables, columns, Busy, Started, BothFilesExist
  <2>3. StartedWhole'
    BY <2>1, <2>2 DEF OrderInv, StartedWhole
  <2>4. FilesInOrder'
    BY <2>1, <2>2 DEF OrderInv, FilesInOrder
  <2> QED BY <2>3, <2>4 DEF OrderInv
<1> QED BY <1>1, <1>2, <1>3, <1>4, <1>5, <1>6, <1>7 DEF Next

LEMMA NextWithoutKill == Spec => CrashSpec
<1>1. [Next]_vars => [Next \/ Kill]_vars
  OBVIOUS
<1> QED BY <1>1, PTL DEF Spec, CrashSpec

LEMMA OrderInvariant ==
  ASSUME OnlyUserTables, DefinitionsFit
  PROVE  Spec => []OrderInv
<1>1. Init => OrderInv
  BY OrderInit
<1>2. CatalogInv /\ ColumnsInv /\ SchemaInv /\ SchemaInv' /\ OrderInv /\ [Next]_vars => OrderInv'
  BY OrderStep
<1> QED BY <1>1, <1>2, NextWithoutKill, CatalogInvariant, ColumnsInvariant, SchemaInvariant, PTL
    DEF Spec
-----------------------------------------------------------------------------
(* The directory: what its operations do to the created tables.             *)
Enters(d, e, name, names) ==
  /\ name \notin DOMAIN d
  /\ e = [n \in DOMAIN d \union {name} |->
            IF n # name THEN d[n]
            ELSE [i \in DOMAIN names |-> [column |-> names[i], unique |-> FALSE]]]
Goes(d, e, name) == name \in DOMAIN d /\ e = [n \in DOMAIN d \ {name} |-> d[n]]
Restricts(d, e, name, column) ==
  /\ name \in DOMAIN d
  /\ \E i : /\ IsFirst(d[name], column, i)
            /\ e = [d EXCEPT ![name] = [d[name] EXCEPT ![i].unique = TRUE]]

LEMMA CreateEnters ==
  ASSUME OnlyUserTables, CatalogInv, OrderInv, CreateReturns
  PROVE  \E name \in Names, names \in Definitions : Enters(created, created', name, names)
<1>1. pc = "append_column"
  BY DEF CreateReturns
<1>2. PICK name, names : name = op.name /\ names = attempted[op.name]
  OBVIOUS
<1>3. name \in Names /\ names \in Definitions
  BY <1>1, <1>2, Phases DEF CatalogInv, OpTyped, OrderInv, FilesInOrder
<1>4. name \notin DOMAIN created
  BY <1>1, <1>2, Phases DEF OrderInv, FilesInOrder, Busy
<1>5. PICK value : value = [i \in DOMAIN names |-> [column |-> names[i], unique |-> FALSE]]
  OBVIOUS
<1>6. created' = Put(created, name, value)
  BY <1>2, <1>5 DEF CreateReturns
<1>7. created' = [n \in DOMAIN created \union {name} |-> IF n # name THEN created[n] ELSE value]
  BY <1>6 DEF Put
<1>8. Enters(created, created', name, names)
  BY <1>4, <1>5, <1>7 DEF Enters
<1> QED BY <1>3, <1>8

LEMMA DropLeaves ==
  ASSUME OnlyUserTables, OrderInv, NEW name \in Names, BeginDrop(name)
  PROVE  Goes(created, created', name)
<1>1. /\ pc = "idle" /\ name \in DOMAIN files /\ created' = Without(created, name)
  BY DEF BeginDrop
<1>2. Busy = {}
  BY <1>1, Phases DEF Busy
<1>3. name \in DOMAIN created
  BY <1>1, <1>2 DEF OrderInv, FilesInOrder, OnlyUserTables
<1> QED BY <1>1, <1>3 DEF Goes, Without

LEMMA IndexRestricts ==
  ASSUME OnlyUserTables, CatalogInv, CreatedInv, OrderInv,
         NEW name \in Names, NEW column \in Columns, MakeColumnUnique(name, column)
  PROVE  Restricts(created, created', name, column)
<1>1. pc = "idle" /\ name \in DOMAIN files
  BY DEF MakeColumnUnique
<1>2. Busy = {}
  BY <1>1, Phases DEF Busy
<1>3. name \in DOMAIN created
  BY <1>1, <1>2 DEF OrderInv, FilesInOrder, OnlyUserTables
<1>4. PICK info, i : info = created[name] /\ i = FirstOf(info, column)
  OBVIOUS
<1>5. info = Info(columns, name)
  BY <1>3, <1>4 DEF CreatedInv, Wholes, Whole
<1>6. Marked(info, Info(columns', name), column)
  BY <1>5, IndexKeepsSchema
<1>7. IsFirst(info, column, i)
  BY <1>4, <1>6, MarkedIsFirst
<1>8. created' = [created EXCEPT ![name] = [@ EXCEPT ![FirstOf(created[name], column)].unique = TRUE]]
  BY <1>3 DEF MakeColumnUnique, FirstOf
<1>9. created' = [created EXCEPT ![name] = [created[name] EXCEPT ![i].unique = TRUE]]
  BY <1>4, <1>8
<1>10. IsFirst(created[name], column, i)
  BY <1>4, <1>7
<1> QED BY <1>3, <1>9, <1>10 DEF Restricts

LEMMA OthersCreateNothing ==
  ASSUME OrderInv, [Next]_vars, ~ CreateReturns,
         ~ \E name \in Names : BeginDrop(name),
         ~ \E name \in Names, column \in Columns : MakeColumnUnique(name, column)
  PROVE  created' = created
<1>1. CASE \E name \in Names, definition \in Definitions : BeginCreate(name, definition)
  BY <1>1 DEF BeginCreate
<1>2. CASE WriteRoot \/ AppendTableRow \/ CountTableRow \/ AppendColumnRow \/ CountColumnRow
             \/ CreateThrows \/ DropTableRow \/ DropColumnRow \/ RemoveFile
  BY <1>2 DEF WriteRoot, AppendTableRow, CountTableRow, AppendColumnRow, CountColumnRow, CreateThrows,
     DropTableRow, DropColumnRow, RemoveFile, history
<1>3. CASE Start
  BY <1>3 DEF Start, OpenExisting, BeginBootstrap, TruncateSchemaFile, WriteSchemaRoot,
     BootstrapTableRow, BootstrapColumnRow, StoreEntry, history
<1>4. CASE Exit
  BY <1>4 DEF Exit, End, OrderInv, FilesInOrder
<1>5. CASE UNCHANGED vars
  BY <1>5 DEF vars, history
<1> QED BY <1>1, <1>2, <1>3, <1>4, <1>5 DEF Next, StatementStep

(* The tables that count: their columns are those found, which are those   *)
(* that CREATE TABLE and CREATE INDEX made.                                *)
Listed ==
  [name \in (DOMAIN files \ SchemaTables)
              \ (IF pc \in DropPhases \union CreatePhases THEN {op.name} ELSE {})
     |-> ColumnsInfo(name)]

LEMMA ListedAreCreated == CreatedInv /\ OrderInv => Listed = created
<1> SUFFICES ASSUME CreatedInv, OrderInv PROVE Listed = created
  OBVIOUS
<1>1. PICK F : F = (DOMAIN files \ SchemaTables) \ Busy
  OBVIOUS
<1>2. created = [name \in F |-> created[name]]
  BY <1>1 DEF OrderInv, FilesInOrder
<1>3. Listed = [name \in F |-> ColumnsInfo(name)]
  BY <1>1 DEF Listed, Busy
<1>4. ASSUME NEW name \in F PROVE ColumnsInfo(name) = created[name]
  <2>1. name \in DOMAIN created
    BY <1>2
  <2> QED BY <2>1, InfoIs DEF CreatedInv, Wholes, Whole
<1> QED BY <1>2, <1>3, <1>4

LEMMA DirectoryStep ==
  ASSUME OnlyUserTables, CatalogInv, CreatedInv, OrderInv, Listed = created, Listed' = created',
         [Next]_vars
  PROVE  [Directory!Next]_Listed
<1>1. CASE CreateReturns
  <2>1. PICK name \in Names, names \in Definitions : Enters(Listed, Listed', name, names)
    BY <1>1, CreateEnters
  <2>2. Directory!Create(name, names)
    BY <2>1 DEF Enters, Directory!Create, Listed
  <2> QED BY <2>2 DEF Directory!Next
<1>2. CASE \E name \in Names : BeginDrop(name)
  <2>1. PICK name \in Names : Goes(Listed, Listed', name)
    BY <1>2, DropLeaves
  <2>2. Directory!Drop(name)
    BY <2>1 DEF Goes, Directory!Drop, Listed
  <2> QED BY <2>2 DEF Directory!Next
<1>3. CASE \E name \in Names, column \in Columns : MakeColumnUnique(name, column)
  <2>1. PICK name \in Names, column \in Columns : Restricts(Listed, Listed', name, column)
    BY <1>3, IndexRestricts
  <2>2. Directory!MakeUnique(name, column)
    BY <2>1 DEF Restricts, IsFirst, Directory!MakeUnique, Listed
  <2> QED BY <2>2 DEF Directory!Next
<1>4. CASE /\ ~ CreateReturns
           /\ ~ \E name \in Names : BeginDrop(name)
           /\ ~ \E name \in Names, column \in Columns : MakeColumnUnique(name, column)
  BY <1>4, OthersCreateNothing
<1> QED BY <1>1, <1>2, <1>3, <1>4

LEMMA DirectoryInit == ASSUME Init, Listed = created PROVE Directory!Init
<1>1. Listed = << >>
  BY DEF Init
<1> QED BY <1>1 DEF Directory!Init, Listed

(* Where nothing is killed, no schema table is named and no definition is    *)
(* longer than an ordinal can count, the tables are a directory: the columns *)
(* found for each change by one whole CREATE TABLE, DROP TABLE or CREATE     *)
(* INDEX, whatever was done in between.                                      *)
THEOREM CatalogIsDirectory ==
  ASSUME Names \intersect SchemaTables = {},
         \A definition \in Definitions : Len(definition) <= MaxOrdinal
  PROVE  Spec => ImplementsTableDirectory
<1>1. OnlyUserTables /\ DefinitionsFit
  BY DEF OnlyUserTables, DefinitionsFit
<1>2. Spec => []OrderInv
  BY <1>1, OrderInvariant
<1>3. CreatedInv /\ OrderInv => Listed = created
  BY ListedAreCreated
<1>4. Init /\ Listed = created => Directory!Init
  BY DirectoryInit
<1>5. CatalogInv /\ CreatedInv /\ OrderInv /\ Listed = created /\ (Listed = created)' /\ [Next]_vars
        => [Directory!Next]_Listed
  BY <1>1, DirectoryStep
<1>6. Spec => Directory!Init /\ [][Directory!Next]_Listed
  BY <1>2, <1>3, <1>4, <1>5, NextWithoutKill, CatalogInvariant, CreatedInvariant, PTL DEF Spec
<1> QED BY <1>6, PTL DEF ImplementsTableDirectory, Directory!Spec, Listed
=============================================================================
