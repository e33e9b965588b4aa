---------------------------- MODULE SequenceFacts ----------------------------
(***************************************************************************)
(* What the proofs about the modules need of numbers and sequences and     *)
(* the library has no theorem for: the least of a set, induction on the    *)
(* places of a sequence, RemoveAt, and FlattenSeq of the community modules.*)
(***************************************************************************)
EXTENDS Integers, Sequences, SequencesExt, SequenceTheorems, WellFoundedInduction, TLAPS

(* A set of numbers has a least one, a bounded one a greatest.             *)
LEMMA FirstPosition ==
  ASSUME NEW S, S \subseteq Nat, S # {}
  PROVE  \E m \in S : \A k \in S : m <= k
<1>1. PICK less : less = OpToRel(<, Nat)
  OBVIOUS
<1>2. IsWellFoundedOn(less, Nat)
  BY <1>1, NatLessThanWellFounded
<1>3. PICK m \in S : \A k \in S : ~ (<<k, m>> \in less)
  BY <1>2, WFMin
<1>4. \A k \in Nat : <<k, m>> \in less <=> k < m
  BY <1>1 DEF OpToRel
<1>5. ASSUME NEW k \in S PROVE m <= k
  <2>1. k \in Nat /\ m \in Nat
    OBVIOUS
  <2>2. ~ (k < m)
    BY <1>3, <1>4, <2>1
  <2> QED BY <2>1, <2>2
<1> QED BY <1>5

LEMMA LastPosition ==
  ASSUME NEW n \in Nat, NEW given, given \subseteq 1..n, given # {}
  PROVE  \E j \in given : \A k \in given : k <= j
<1>1. PICK fromEnd : fromEnd = {m \in Nat : \E j \in given : m = n - j}
  OBVIOUS
<1>2. fromEnd \subseteq Nat /\ fromEnd # {}
  <2>1. PICK j \in given : TRUE
    OBVIOUS
  <2>2. n - j \in Nat
    BY <2>1
  <2> QED BY <1>1, <2>1, <2>2
<1>3. PICK m \in fromEnd : \A k \in fromEnd : m <= k
  BY <1>2, FirstPosition
<1>4. PICK j \in given : m = n - j
  BY <1>1, <1>3
<1>5. ASSUME NEW k \in given PROVE k <= j
  <2>1. n - k \in fromEnd
    BY <1>1, <1>5
  <2>2. m <= n - k
    BY <1>3, <2>1
  <2> QED BY <1>4, <1>5, <2>2
<1> QED BY <1>4, <1>5

(* Induction on the places of a sequence, for a set of places.             *)
LEMMA UpTo ==
  ASSUME NEW n \in Nat, NEW A, 0 \in A, \A i \in 0..n-1 : i \in A => i+1 \in A
  PROVE  0..n \subseteq A
<1> SUFFICES ASSUME ~ (0..n \subseteq A) PROVE FALSE
  OBVIOUS
<1>1. PICK S : S = (0..n) \ A
  OBVIOUS
<1>2. S \subseteq Nat /\ S # {}
  BY <1>1
<1>3. PICK m \in S : \A k \in S : m <= k
  BY <1>2, FirstPosition
<1>4. m \in Nat /\ m <= n /\ m \notin A /\ m # 0
  BY <1>1, <1>3
<1>5. m-1 \in 0..n-1 /\ ~ (m <= m-1)
  BY <1>4
<1>6. m-1 \in A
  BY <1>1, <1>3, <1>4, <1>5
<1> QED BY <1>4, <1>5, <1>6

-----------------------------------------------------------------------------
LEMMA Removed ==
  ASSUME NEW S, NEW s \in Seq(S), NEW i \in 1..Len(s)
  PROVE  RemoveAt(s, i) \in Seq(S) /\ Len(RemoveAt(s, i)) = Len(s) - 1
<1>1. Len(s) \in Nat /\ i \in Nat /\ i >= 1 /\ i <= Len(s)
  BY LenProperties
<1>2. \A k \in 1..Len(s) : s[k] \in S
  BY ElementOfSeq
<1>3. PICK front : front = SubSeq(s, 1, i-1)
  OBVIOUS
<1>4. front \in Seq(S) /\ Len(front) = i-1
  <2>1. \A k \in 1..i-1 : s[k] \in S
    BY <1>1, <1>2
  <2> QED BY <1>1, <1>3, <2>1, SubSeqProperties
<1>5. PICK back : back = SubSeq(s, i+1, Len(s))
  OBVIOUS
<1>6. back \in Seq(S) /\ Len(back) = Len(s) - i
  <2>1. \A k \in i+1..Len(s) : s[k] \in S
    BY <1>1, <1>2
  <2>2. /\ back \in Seq(S)
        /\ Len(back) = IF i+1 <= Len(s) THEN Len(s)-(i+1)+1 ELSE 0
    BY <1>1, <1>5, <2>1, SubSeqProperties
  <2> QED BY <1>1, <2>2
<1>7. RemoveAt(s, i) = front \o back
  BY <1>3, <1>5 DEF RemoveAt
<1>8. front \o back \in Seq(S) /\ Len(front \o back) = Len(front) + Len(back)
  BY <1>4, <1>6, ConcatProperties
<1> QED BY <1>1, <1>4, <1>6, <1>7, <1>8


LEMMA ConcatLengths ==
  ASSUME NEW S
  PROVE  \A s, t \in Seq(S) : s \o t \in Seq(S) /\ Len(s \o t) = Len(s) + Len(t)
<1> TAKE s, t \in Seq(S)
<1> QED BY ConcatProperties

LEMMA AppendBefore ==
  ASSUME NEW S, NEW e \in S
  PROVE  \A s, t \in Seq(S) : Append(s, e) \o t = s \o (<<e>> \o t)
<1> TAKE s, t \in Seq(S)
<1>1. Append(s, e) = s \o <<e>> /\ <<e>> \in Seq(S)
  BY AppendIsConcat
<1> QED BY <1>1, ConcatAssociative

LEMMA ConcatAppend ==
  ASSUME NEW S, NEW e \in S
  PROVE  \A s, t \in Seq(S) : s \o Append(t, e) = Append(s \o t, e)
<1> TAKE s, t \in Seq(S)
<1>1. <<e>> \in Seq(S) /\ s \o t \in Seq(S)
  BY ConcatProperties
<1>2. Append(t, e) = t \o <<e>> /\ Append(s \o t, e) = (s \o t) \o <<e>>
  BY <1>1, AppendIsConcat
<1> QED BY <1>1, <1>2, ConcatAssociative

-----------------------------------------------------------------------------
(* FlattenSeq as the function of the first i sequences that it is the last *)
(* value of.                                                               *)
Flattens(f, parts, n) ==
  f = [i \in 1..n |-> IF i = 1 THEN parts[i] ELSE f[i-1] \o parts[i]]
Flattenable(parts, n) == \E f : Flattens(f, parts, n)

LEMMA FlattensFirst ==
  ASSUME NEW parts, NEW n \in Nat, n # 0, NEW f, Flattens(f, parts, n)
  PROVE  f[1] = parts[1]
<1>1. 1 \in 1..n
  OBVIOUS
<1> QED BY <1>1 DEF Flattens

LEMMA FlattensNext ==
  ASSUME NEW parts, NEW n \in Nat, NEW f, Flattens(f, parts, n), NEW i \in 1..n, i # 1
  PROVE  f[i] = f[i-1] \o parts[i]
BY DEF Flattens

LEMMA FlattensOn ==
  ASSUME NEW parts, NEW n \in Nat, NEW f, Flattens(f, parts, n), NEW i \in 1..n, i+1 \in 1..n
  PROVE  f[i+1] = f[i] \o parts[i+1]
<1>1. PICK k \in 1..n : k = i+1
  OBVIOUS
<1>2. k # 1 /\ k-1 = i
  BY <1>1
<1>3. f[k] = f[k-1] \o parts[k]
  BY <1>2, FlattensNext
<1> QED BY <1>1, <1>2, <1>3

LEMMA AlwaysFlattenable ==
  ASSUME NEW parts, NEW n \in Nat, n # 0
  PROVE  Flattenable(parts, n)
<1>1. PICK A : A = {m \in Nat : m = 0 \/ Flattenable(parts, m)}
  OBVIOUS
<1>2. 0 \in A
  BY <1>1
<1>3. ASSUME NEW m \in 0..n-1, m \in A PROVE m+1 \in A
  <2>1. CASE m = 0
    <3>1. PICK f : f = [i \in 1..1 |-> parts[i]]
      OBVIOUS
    <3>2. Flattens(f, parts, 1)
      BY <3>1 DEF Flattens
    <3> QED BY <1>1, <2>1, <3>2 DEF Flattenable
  <2>2. CASE m # 0
    <3>1. PICK f : Flattens(f, parts, m)
      BY <1>1, <1>3, <2>2 DEF Flattenable
    <3>2. PICK g : g = [i \in 1..m+1 |-> IF i = m+1 THEN f[m] \o parts[m+1] ELSE f[i]]
      OBVIOUS
    <3>3. ASSUME NEW i \in 1..m+1
          PROVE  g[i] = IF i = 1 THEN parts[i] ELSE g[i-1] \o parts[i]
      <4>1. CASE i = m+1
        <5>1. m \in 1..m+1 /\ m # m+1 /\ i # 1 /\ i-1 = m
          BY <2>2, <4>1
        <5>2. g[i] = f[m] \o parts[i] /\ g[m] = f[m]
          BY <3>2, <4>1, <5>1
        <5> QED BY <5>1, <5>2
      <4>2. CASE i # m+1 /\ i # 1
        <5>1. i \in 1..m /\ i-1 \in 1..m+1 /\ i-1 # m+1
          BY <4>2
        <5>2. g[i] = f[i] /\ g[i-1] = f[i-1]
          BY <3>2, <4>2, <5>1
        <5>3. f[i] = f[i-1] \o parts[i]
          <6>1. m \in Nat
            OBVIOUS
          <6> QED BY <3>1, <4>2, <5>1, <6>1, FlattensNext
        <5> QED BY <4>2, <5>2, <5>3
      <4>3. CASE i # m+1 /\ i = 1
        <5>1. g[i] = f[1]
          BY <3>2, <4>3
        <5> QED BY <2>2, <3>1, <4>3, <5>1, FlattensFirst
      <4> QED BY <4>1, <4>2, <4>3
    <3>4. Flattens(g, parts, m+1)
      BY <3>2, <3>3 DEF Flattens
    <3> QED BY <1>1, <3>4 DEF Flattenable
  <2> QED BY <2>1, <2>2
<1>4. 0..n \subseteq A
  BY <1>2, <1>3, UpTo
<1> QED BY <1>1, <1>4

LEMMA FlattenSeqFlattens ==
  ASSUME NEW parts, NEW n \in Nat, n # 0, n = Len(parts)
  PROVE  \E f : Flattens(f, parts, n) /\ FlattenSeq(parts) = f[n]
<1>1. PICK f : f = CHOOSE g : Flattens(g, parts, n)
  OBVIOUS
<1>2. Flattens(f, parts, n)
  BY <1>1, AlwaysFlattenable, Zenon DEF Flattenable
<1>3. FlattenSeq(parts) = f[n]
  BY <1>1 DEF FlattenSeq, Flattens
<1> QED BY <1>2, <1>3

LEMMA FlattensType ==
  ASSUME NEW S, NEW parts \in Seq(Seq(S)), NEW n \in Nat, n = Len(parts),
         NEW f, Flattens(f, parts, n)
  PROVE  \A i \in 1..n : f[i] \in Seq(S)
<1> SUFFICES ASSUME NEW k \in 1..n PROVE f[k] \in Seq(S)
  OBVIOUS
<1>1. PICK A : A = {i \in 0..n : i # 0 => f[i] \in Seq(S)}
  OBVIOUS
<1>2. 0 \in A
  BY <1>1
<1>3. ASSUME NEW i \in 0..n-1, i \in A PROVE i+1 \in A
  <2>1. i+1 \in 1..n /\ i+1-1 = i /\ n # 0
    OBVIOUS
  <2>2. parts[i+1] \in Seq(S)
    BY <2>1, ElementOfSeq
  <2>3. CASE i = 0
    <3>1. f[i+1] = parts[i+1]
      BY <2>1, <2>3, FlattensFirst
    <3> QED BY <1>1, <2>1, <2>2, <3>1
  <2>4. CASE i # 0
    <3>1. f[i+1] = f[i] \o parts[i+1]
      <4>1. i \in 1..n
        BY <2>4
      <4> QED BY <2>1, <4>1, FlattensOn
    <3>2. f[i] \in Seq(S)
      BY <1>1, <1>3, <2>4
    <3>3. f[i+1] \in Seq(S)
      BY <2>1, <2>2, <3>1, <3>2, ConcatProperties
    <3> QED BY <1>1, <2>1, <3>3
  <2> QED BY <2>3, <2>4
<1>4. 0..n \subseteq A
  BY <1>2, <1>3, UpTo
<1>5. k \in A /\ k # 0
  BY <1>4
<1> QED BY <1>1, <1>5

LEMMA FlattenType ==
  ASSUME NEW S, NEW parts \in Seq(Seq(S)), parts # << >>
  PROVE  FlattenSeq(parts) \in Seq(S)
<1>1. PICK n \in Nat : n = Len(parts) /\ n # 0
  BY EmptySeq
<1>2. PICK f : Flattens(f, parts, n) /\ FlattenSeq(parts) = f[n]
  BY <1>1, FlattenSeqFlattens
<1>3. n \in 1..n
  BY <1>1
<1> QED BY <1>1, <1>2, <1>3, FlattensType

(* Sequences of which all are empty.                                       *)
LEMMA FlattenEmpty ==
  ASSUME NEW S, NEW parts \in Seq(Seq(S)), parts # << >>,
         \A i \in 1..Len(parts) : parts[i] = << >>
  PROVE  FlattenSeq(parts) = << >>
<1>1. PICK n \in Nat : n = Len(parts) /\ n # 0
  BY EmptySeq
<1>2. PICK f : Flattens(f, parts, n) /\ FlattenSeq(parts) = f[n]
  BY <1>1, FlattenSeqFlattens
<1>3. PICK A : A = {i \in 0..n : i # 0 => f[i] = << >>}
  OBVIOUS
<1>4. 0 \in A
  BY <1>3
<1>5. ASSUME NEW i \in 0..n-1, i \in A PROVE i+1 \in A
  <2>1. i+1 \in 1..n /\ i+1-1 = i
    OBVIOUS
  <2>2. parts[i+1] = << >>
    BY <1>1, <2>1
  <2>3. CASE i = 0
    <3>1. f[i+1] = parts[i+1]
      BY <1>1, <1>2, <2>3, FlattensFirst
    <3> QED BY <1>3, <2>1, <2>2, <3>1
  <2>4. CASE i # 0
    <3>0. i \in 1..n
      BY <2>4
    <3>1. f[i+1] = f[i] \o parts[i+1]
      BY <1>2, <2>1, <3>0, FlattensOn
    <3>2. f[i+1] = << >> \o << >>
      BY <1>3, <1>5, <2>1, <2>2, <2>4, <3>1
    <3>3. << >> \o << >> = << >>
      BY EmptySeq, ConcatEmptySeq
    <3> QED BY <1>3, <2>1, <3>2, <3>3
  <2> QED BY <2>3, <2>4
<1>6. 0..n \subseteq A
  BY <1>4, <1>5, UpTo
<1>7. n \in A
  BY <1>6
<1> QED BY <1>1, <1>2, <1>3, <1>7

(* One more element at the end of the last sequence that is not empty.     *)
AppendedIn(parts, more, c, e) ==
  /\ Len(more) = Len(parts) /\ c \in 1..Len(parts)
  /\ more[c] = Append(parts[c], e)
  /\ \A i \in 1..Len(parts) : i # c => more[i] = parts[i]
  /\ \A i \in 1..Len(parts) : i > c => parts[i] = << >>

LEMMA FlattenAppend ==
  ASSUME NEW S, NEW parts \in Seq(Seq(S)), NEW more \in Seq(Seq(S)), NEW e \in S, NEW c,
         AppendedIn(parts, more, c, e)
  PROVE  FlattenSeq(more) = Append(FlattenSeq(parts), e)
<1>0. /\ Len(more) = Len(parts) /\ c \in 1..Len(parts)
      /\ more[c] = Append(parts[c], e)
      /\ \A i \in 1..Len(parts) : i # c => more[i] = parts[i]
      /\ \A i \in 1..Len(parts) : i > c => parts[i] = << >>
  BY DEF AppendedIn
<1>1. PICK n \in Nat : n = Len(parts) /\ n # 0 /\ c \in 1..n /\ c \in Nat
  BY <1>0, LenProperties
<1>2. PICK f : Flattens(f, parts, n) /\ FlattenSeq(parts) = f[n]
  BY <1>1, FlattenSeqFlattens
<1>3. PICK g : Flattens(g, more, n) /\ FlattenSeq(more) = g[n]
  BY <1>0, <1>1, FlattenSeqFlattens
<1>4. \A i \in 1..n : f[i] \in Seq(S)
  BY <1>1, <1>2, FlattensType
<1>5. PICK A : A = {i \in 0..n : i # 0 => g[i] = IF i < c THEN f[i] ELSE Append(f[i], e)}
  OBVIOUS
<1>6. 0 \in A
  BY <1>5
<1>7. ASSUME NEW i \in 0..n-1, i \in A PROVE i+1 \in A
  <2>1. i+1 \in 1..n /\ i+1-1 = i
    OBVIOUS
  <2>2. parts[i+1] \in Seq(S)
    BY <1>1, <2>1, ElementOfSeq
  <2>3. CASE i = 0
    <3>1. f[i+1] = parts[i+1] /\ g[i+1] = more[i+1]
      BY <1>1, <1>2, <1>3, <2>3, FlattensFirst
    <3>2. CASE c = 1
      <4>1. more[1] = Append(parts[1], e) /\ ~ (1 < c)
        BY <1>0, <3>2
      <4>2. f[1] = parts[1] /\ g[1] = more[1]
        BY <1>1, <1>2, <1>3, FlattensFirst
      <4>3. 1 \in 0..n
        BY <1>1
      <4>4. 1 \in A
        BY <1>5, <4>1, <4>2, <4>3
      <4> QED BY <2>3, <4>4
    <3>3. CASE c # 1
      <4>1. more[i+1] = parts[i+1] /\ i+1 < c
        BY <1>0, <1>1, <2>1, <2>3, <3>3
      <4> QED BY <1>5, <2>1, <3>1, <4>1
    <3> QED BY <3>2, <3>3
  <2>4. CASE i # 0
    <3>0. i \in 1..n
      BY <2>4
    <3>1. f[i+1] = f[i] \o parts[i+1]
      BY <1>2, <2>1, <3>0, FlattensOn
    <3>2. g[i+1] = g[i] \o more[i+1]
      BY <1>3, <2>1, <3>0, FlattensOn
    <3>3. f[i] \in Seq(S) /\ g[i] = IF i < c THEN f[i] ELSE Append(f[i], e)
      BY <1>4, <1>5, <1>7, <2>1, <2>4
    <3>4. CASE i+1 < c
      <4>1. more[i+1] = parts[i+1] /\ i < c
        BY <1>0, <1>1, <2>1, <3>4
      <4>2. g[i+1] = f[i+1]
        BY <3>1, <3>2, <3>3, <4>1
      <4> QED BY <1>5, <2>1, <3>4, <4>2
    <3>5. CASE i+1 = c
      <4>1. more[i+1] = Append(parts[i+1], e) /\ i < c /\ ~ (i+1 < c)
        BY <1>0, <1>1, <3>5
      <4>2. f[i] \in Seq(S) /\ g[i+1] = f[i] \o Append(parts[i+1], e)
        BY <3>2, <3>3, <4>1
      <4>3. f[i] \o Append(parts[i+1], e) = Append(f[i] \o parts[i+1], e)
        <5>1. \A s, t \in Seq(S) : s \o Append(t, e) = Append(s \o t, e)
          BY ConcatAppend
        <5> QED BY <2>2, <4>2, <5>1
      <4>4. g[i+1] = Append(f[i+1], e)
        BY <3>1, <4>2, <4>3
      <4> QED BY <1>5, <2>1, <4>1, <4>4
    <3>6. CASE i+1 > c
      <4>0. parts[i+1] = << >> /\ more[i+1] = << >> /\ ~ (i < c)
        <5>1. i+1 # c /\ i+1 \in 1..Len(parts) /\ ~ (i < c)
          BY <1>1, <2>1, <3>6
        <5> QED BY <1>0, <3>6, <5>1
      <4>1. g[i] = Append(f[i], e) /\ parts[i+1] = << >> /\ more[i+1] = << >>
        BY <3>3, <4>0
      <4>2. f[i+1] = f[i] /\ Append(f[i], e) \in Seq(S)
        BY <2>1, <3>1, <3>3, <4>1, ConcatEmptySeq, AppendProperties
      <4>3. g[i+1] = Append(f[i+1], e)
        BY <2>1, <3>2, <4>1, <4>2, ConcatEmptySeq
      <4>4. ~ (i+1 < c)
        BY <1>1, <3>6
      <4> QED BY <1>5, <2>1, <4>3, <4>4
    <3> QED BY <1>1, <3>4, <3>5, <3>6
  <2> QED BY <2>3, <2>4
<1>8. 0..n \subseteq A
  BY <1>6, <1>7, UpTo
<1>9. n \in A /\ ~ (n < c)
  <2>1. n \in 0..n /\ ~ (n < c)
    BY <1>1
  <2> QED BY <1>8, <2>1
<1> QED BY <1>1, <1>2, <1>3, <1>5, <1>9

(* A sequence of one element between two others: that element, changed or  *)
(* removed.                                                                *)
LEMMA MiddleAt ==
  ASSUME NEW S, NEW front \in Seq(S), NEW e \in S, NEW back \in Seq(S), NEW n \in Nat,
         n = Len(front)
  PROVE  /\ Append(front, e) \o back \in Seq(S)
         /\ Len(Append(front, e) \o back) = n + 1 + Len(back)
         /\ (Append(front, e) \o back)[n+1] = e
         /\ \A i \in 1..n : (Append(front, e) \o back)[i] = front[i]
         /\ \A i \in 1..Len(back) : (Append(front, e) \o back)[n+1+i] = back[i]
<1>1. PICK s : s = Append(front, e)
  OBVIOUS
<1>2. /\ s \in Seq(S) /\ Len(s) = n+1 /\ s[n+1] = e
      /\ \A i \in 1..n : s[i] = front[i]
  BY <1>1, AppendProperties
<1>3. PICK b \in Nat : b = Len(back)
  BY LenProperties
<1>4. PICK t : t = s \o back
  OBVIOUS
<1>5. /\ t \in Seq(S) /\ Len(t) = n+1+b
      /\ \A i \in 1..n+1+b : t[i] = IF i <= n+1 THEN s[i] ELSE back[i-(n+1)]
  BY <1>2, <1>3, <1>4, ConcatProperties
<1>6. t[n+1] = e
  <2>1. n+1 \in 1..n+1+b /\ n+1 <= n+1
    OBVIOUS
  <2> QED BY <1>2, <1>5, <2>1
<1>7. ASSUME NEW i \in 1..n PROVE t[i] = front[i]
  <2>1. i \in 1..n+1+b /\ i <= n+1
    OBVIOUS
  <2> QED BY <1>2, <1>5, <2>1
<1>8. ASSUME NEW i \in 1..b PROVE t[n+1+i] = back[i]
  <2>1. n+1+i \in 1..n+1+b /\ ~ (n+1+i <= n+1) /\ n+1+i-(n+1) = i
    OBVIOUS
  <2> QED BY <1>5, <2>1
<1> QED BY <1>1, <1>3, <1>4, <1>5, <1>6, <1>7, <1>8

LEMMA MiddleChanged ==
  ASSUME NEW S, NEW front \in Seq(S), NEW e \in S, NEW d \in S, NEW back \in Seq(S),
         NEW n \in Nat, n = Len(front)
  PROVE  [Append(front, e) \o back EXCEPT ![n+1] = d] = Append(front, d) \o back
<1>1. PICK s \in Seq(S) : s = Append(front, e) \o back
  BY MiddleAt
<1>2. PICK t \in Seq(S) : t = Append(front, d) \o back
  BY MiddleAt
<1>3. PICK b \in Nat : b = Len(back)
  BY LenProperties
<1>4. Len(s) = n+1+b /\ Len(t) = n+1+b /\ t[n+1] = d
  BY <1>1, <1>2, <1>3, MiddleAt
<1>5. PICK u : u = [s EXCEPT ![n+1] = d]
  OBVIOUS
<1>6. n+1 \in 1..Len(s) /\ DOMAIN s = 1..n+1+b
  BY <1>4, LenProperties
<1>7. u \in Seq(S) /\ Len(u) = n+1+b
  BY <1>4, <1>5, <1>6, ExceptSeq
<1>8. u[n+1] = d /\ \A i \in 1..n+1+b : i # n+1 => u[i] = s[i]
  BY <1>4, <1>5, <1>6
<1>9. \A i \in 1..n : s[i] = front[i] /\ t[i] = front[i]
  BY <1>1, <1>2, MiddleAt
<1>10. \A i \in 1..b : s[n+1+i] = back[i] /\ t[n+1+i] = back[i]
  BY <1>1, <1>2, <1>3, MiddleAt
<1>11. ASSUME NEW i \in 1..n+1+b PROVE u[i] = t[i]
  <2>1. CASE i = n+1
    BY <1>4, <1>8, <2>1
  <2>2. CASE i <= n
    <3>1. i \in 1..n /\ i # n+1
      BY <2>2
    <3> QED BY <1>8, <1>9, <3>1
  <2>3. CASE i > n+1
    <3>1. PICK j \in 1..b : i = n+1+j
      <4>1. i-(n+1) \in 1..b /\ i = n+1+(i-(n+1))
        BY <2>3
      <4> QED BY <4>1
    <3>2. s[i] = back[j] /\ t[i] = back[j]
      BY <1>10, <3>1
    <3> QED BY <1>8, <2>3, <3>2
  <2> QED BY <2>1, <2>2, <2>3
<1>12. u = t
  BY <1>4, <1>7, <1>11, SeqEqual
<1> QED BY <1>1, <1>2, <1>5, <1>12

LEMMA MiddleRemoved ==
  ASSUME NEW S, NEW front \in Seq(S), NEW e \in S, NEW back \in Seq(S),
         NEW n \in Nat, n = Len(front)
  PROVE  RemoveAt(Append(front, e) \o back, n+1) = front \o back
<1>1. PICK s \in Seq(S) : s = Append(front, e) \o back
  BY MiddleAt
<1>2. PICK b \in Nat : b = Len(back)
  BY LenProperties
<1>3. /\ Len(s) = n+1+b
      /\ \A i \in 1..n : s[i] = front[i]
      /\ \A i \in 1..b : s[n+1+i] = back[i]
  <2>1. Len(s) = n+1+Len(back) /\ \A i \in 1..n : s[i] = front[i]
    BY <1>1, MiddleAt
  <2>2. \A i \in 1..Len(back) : s[n+1+i] = back[i]
    BY <1>1, MiddleAt
  <2> QED BY <1>2, <2>1, <2>2
<1>4. \A i \in 1..n : front[i] \in S
  BY ElementOfSeq
<1>5. \A i \in 1..b : back[i] \in S
  BY <1>2, ElementOfSeq
<1>6. SubSeq(s, 1, n) = front
  <2>1. PICK t : t = SubSeq(s, 1, n)
    OBVIOUS
  <2>2. /\ t \in Seq(S) /\ Len(t) = (IF 1 <= n THEN n-1+1 ELSE 0)
        /\ \A i \in 1..n-1+1 : t[i] = s[1+i-1]
    BY <1>3, <1>4, <2>1, SubSeqProperties
  <2>3. Len(t) = n /\ \A i \in 1..n : t[i] = front[i]
    BY <1>3, <2>2
  <2> QED BY <2>1, <2>2, <2>3, SeqEqual
<1>7. SubSeq(s, n+2, n+1+b) = back
  <2>1. PICK t : t = SubSeq(s, n+2, n+1+b)
    OBVIOUS
  <2>0. ASSUME NEW i \in n+2..n+1+b PROVE s[i] \in S
    <3>1. i-(n+1) \in 1..b /\ i = n+1+(i-(n+1))
      OBVIOUS
    <3> QED BY <1>3, <1>5, <3>1
  <2>2. PICK lo \in Nat : lo = n+2
    OBVIOUS
  <2>3. PICK hi \in Nat : hi = n+1+b
    OBVIOUS
  <2>4. \A i \in lo..hi : s[i] \in S
    BY <2>0, <2>2, <2>3
  <2>5. /\ t \in Seq(S) /\ Len(t) = (IF lo <= hi THEN hi-lo+1 ELSE 0)
        /\ \A i \in 1..hi-lo+1 : t[i] = s[lo+i-1]
    BY <2>1, <2>2, <2>3, <2>4, SubSeqProperties
  <2>6. Len(t) = b
    BY <2>2, <2>3, <2>5
  <2>7. ASSUME NEW i \in 1..b PROVE t[i] = back[i]
    <3>1. i \in 1..hi-lo+1 /\ lo+i-1 = n+1+i
      BY <2>2, <2>3
    <3> QED BY <1>3, <2>5, <3>1
  <2> QED BY <1>2, <2>1, <2>5, <2>6, <2>7, SeqEqual
<1>8. PICK k \in Nat : k = n+1
  OBVIOUS
<1>9. RemoveAt(s, k) = SubSeq(s, 1, k-1) \o SubSeq(s, k+1, Len(s)) /\ k-1 = n /\ k+1 = n+2
  BY <1>8 DEF RemoveAt
<1> QED BY <1>1, <1>3, <1>6, <1>7, <1>8, <1>9

(* The same of a sequence s with e at place k.                             *)
Middle(S, s, k, front, e, back) ==
  /\ front \in Seq(S) /\ e \in S /\ back \in Seq(S)
  /\ k = Len(front) + 1
  /\ s = Append(front, e) \o back

LEMMA MiddleIs ==
  ASSUME NEW S, NEW s, NEW k, NEW front, NEW e, NEW back, Middle(S, s, k, front, e, back)
  PROVE  s \in Seq(S) /\ k \in 1..Len(s) /\ s[k] = e
<1>1. PICK n \in Nat : n = Len(front) /\ k = n+1 /\ front \in Seq(S) /\ back \in Seq(S) /\ e \in S
  BY LenProperties DEF Middle
<1>2. s = Append(front, e) \o back
  BY DEF Middle
<1>3. PICK b \in Nat : b = Len(back)
  BY <1>1, LenProperties
<1>4. s \in Seq(S) /\ Len(s) = n+1+Len(back) /\ s[n+1] = e
  BY <1>1, <1>2, MiddleAt
<1> QED BY <1>1, <1>3, <1>4

LEMMA MiddleGone ==
  ASSUME NEW S, NEW s, NEW k, NEW front, NEW e, NEW back, Middle(S, s, k, front, e, back)
  PROVE  RemoveAt(s, k) = front \o back
<1>1. PICK n \in Nat : n = Len(front) /\ k = n+1 /\ front \in Seq(S) /\ back \in Seq(S) /\ e \in S
  BY LenProperties DEF Middle
<1>2. s = Append(front, e) \o back
  BY DEF Middle
<1>3. RemoveAt(Append(front, e) \o back, n+1) = front \o back
  BY <1>1, MiddleRemoved
<1> QED BY <1>1, <1>2, <1>3, Zenon

LEMMA MiddleNew ==
  ASSUME NEW S, NEW s, NEW k, NEW front, NEW e, NEW back, Middle(S, s, k, front, e, back),
         NEW d \in S
  PROVE  Middle(S, [s EXCEPT ![k] = d], k, front, d, back)
<1>1. PICK n \in Nat : n = Len(front) /\ k = n+1 /\ front \in Seq(S) /\ back \in Seq(S) /\ e \in S
  BY LenProperties DEF Middle
<1>2. s = Append(front, e) \o back
  BY DEF Middle
<1>3. [Append(front, e) \o back EXCEPT ![n+1] = d] = Append(front, d) \o back
  BY <1>1, MiddleChanged
<1>4. [s EXCEPT ![k] = d] = Append(front, d) \o back
  BY <1>1, <1>2, <1>3, Zenon
<1> QED BY <1>1, <1>4 DEF Middle

(* A scan at place k of rows of which it has treated v: the row there is   *)
(* the next of those it began with.                                        *)
Reaches(rows, then, v, k) ==
  /\ v \in Nat /\ v <= Len(then)
  /\ k \in Nat /\ k >= 1 /\ k <= Len(rows)
  /\ v = Len(then) - (Len(rows) - k + 1)
Resting(rows, front, then, v) == rows = front \o SubSeq(then, v+1, Len(then))

LEMMA NextOfRest ==
  ASSUME NEW S, NEW then \in Seq(S), NEW front \in Seq(S), NEW rows, NEW v, NEW k,
         Resting(rows, front, then, v), Reaches(rows, then, v, k)
  PROVE  /\ v+1 \in 1..Len(then) /\ rows[k] = then[v+1]
         /\ SubSeq(then, 1, v) \in Seq(S)
         /\ SubSeq(then, 1, v+1) = Append(SubSeq(then, 1, v), rows[k])
         /\ Middle(S, rows, k, front, rows[k], SubSeq(then, v+2, Len(then)))
<1>0. v \in Nat /\ v <= Len(then) /\ k \in Nat /\ k >= 1
  BY DEF Reaches
<1>1. PICK n \in Nat : n = Len(then)
  BY LenProperties
<1>2. PICK m \in Nat : m = Len(front)
  BY LenProperties
<1>3. \A i \in 1..n : then[i] \in S
  BY <1>1, ElementOfSeq
<1>4. PICK rest : rest = SubSeq(then, v+1, n)
  OBVIOUS
<1>5. rest \in Seq(S) /\ Len(rest) = n - v
  <2>1. PICK lo \in Nat : lo = v+1
    BY <1>0
  <2>2. \A i \in lo..n : then[i] \in S
    BY <1>0, <1>3, <2>1
  <2>3. rest \in Seq(S) /\ Len(rest) = IF lo <= n THEN n-lo+1 ELSE 0
    BY <1>4, <2>1, <2>2, SubSeqProperties
  <2> QED BY <1>0, <1>1, <2>1, <2>3
<1>6. Len(front \o rest) = m + (n - v)
  <2>1. \A s, t \in Seq(S) : s \o t \in Seq(S) /\ Len(s \o t) = Len(s) + Len(t)
    BY ConcatLengths
  <2>2. Len(front \o rest) = Len(front) + Len(rest)
    BY <1>5, <2>1, Zenon
  <2> QED BY <1>2, <1>5, <2>2
<1>7. v = n - (m + (n - v) - k + 1) /\ k <= m + (n - v)
  <2>1. rows = front \o rest
    BY <1>1, <1>4 DEF Resting
  <2>2. PICK r : r = Len(rows)
    OBVIOUS
  <2>3. k <= r /\ v = n - (r - k + 1)
    BY <1>1, <2>2 DEF Reaches
  <2>4. r = m + (n - v)
    BY <1>6, <2>1, <2>2
  <2> QED BY <1>0, <2>3, <2>4
<1>8. k = m+1 /\ v+1 \in 1..n
  BY <1>0, <1>1, <1>7
<1>9. then[v+1] \in S
  BY <1>3, <1>8
<1>10. PICK w \in 1..n : w = v+1
  BY <1>8
<1>11. w+1 = v+2 /\ w-1 = v /\ n \in w..n /\ w \in Nat
  BY <1>0, <1>10
<1>12. PICK back : back = SubSeq(then, v+2, n)
  OBVIOUS
<1>13. back \in Seq(S)
  <2>1. PICK lo \in Nat : lo = v+2
    BY <1>0
  <2>2. \A i \in lo..n : then[i] \in S
    BY <1>0, <1>3, <2>1
  <2> QED BY <1>12, <2>1, <2>2, SubSeqProperties
<1>14. rest = <<then[w]>> \o back
  BY <1>1, <1>4, <1>10, <1>11, <1>12, SubSeqRecursiveFirst
<1>15. front \o rest = Append(front, then[w]) \o back
  <2>1. PICK e \in S : e = then[w]
    BY <1>9, <1>10
  <2>2. \A s, t \in Seq(S) : Append(s, e) \o t = s \o (<<e>> \o t)
    BY AppendBefore
  <2> QED BY <1>13, <1>14, <2>1, <2>2, Zenon
<1>16. SubSeq(then, 1, v) \in Seq(S)
  <2>1. \A i \in 1..v : then[i] \in S
    BY <1>0, <1>1, <1>3
  <2> QED BY <1>0, <2>1, SubSeqProperties
<1>17. SubSeq(then, 1, w) = Append(SubSeq(then, 1, v), then[w])
  <2>1. 1 \in 1..n /\ w \in 1..n
    BY <1>10
  <2>2. SubSeq(then, 1, w) = SubSeq(then, 1, w-1) \o <<then[w]>>
    BY <1>1, <2>1, SubSeqRecursiveSecond
  <2> QED BY <1>9, <1>10, <1>11, <1>16, <2>2, AppendIsConcat
<1>18. rows = Append(front, then[w]) \o back
  BY <1>1, <1>4, <1>15 DEF Resting
<1>19. Middle(S, rows, k, front, then[w], back)
  BY <1>2, <1>8, <1>9, <1>10, <1>13, <1>18 DEF Middle
<1>20. rows[k] = then[w]
  BY <1>19, MiddleIs
<1> QED BY <1>1, <1>8, <1>10, <1>12, <1>16, <1>17, <1>19, <1>20

(* What RemoveAt leaves: the elements behind the place move up.            *)
LEMMA RemovedAt ==
  ASSUME NEW S, NEW s \in Seq(S), NEW i \in 1..Len(s), NEW n \in Nat, n = Len(s)
  PROVE  \A j \in 1..n-1 : RemoveAt(s, i)[j] = IF j < i THEN s[j] ELSE s[j+1]
<1>1. i \in Nat /\ i >= 1 /\ i <= n /\ \A j \in 1..n : s[j] \in S
  BY ElementOfSeq
<1>2. PICK front : front = SubSeq(s, 1, i-1)
  OBVIOUS
<1>3. front \in Seq(S) /\ Len(front) = i-1 /\ \A j \in 1..i-1 : front[j] = s[j]
  <2>1. PICK hi \in Nat : hi = i-1
    BY <1>1
  <2>2. \A j \in 1..hi : s[j] \in S
    BY <1>1, <2>1
  <2>3. /\ front \in Seq(S) /\ Len(front) = IF 1 <= hi THEN hi-1+1 ELSE 0
        /\ \A j \in 1..hi-1+1 : front[j] = s[1+j-1]
    BY <1>2, <2>1, <2>2, SubSeqProperties
  <2> QED BY <2>1, <2>3
<1>4. PICK lo \in Nat : lo = i+1
  BY <1>1
<1>5. PICK back : back = SubSeq(s, lo, n)
  OBVIOUS
<1>6. back \in Seq(S) /\ Len(back) = n-i /\ \A j \in 1..n-i : back[j] = s[i+j]
  <2>1. \A j \in lo..n : s[j] \in S
    BY <1>1, <1>4
  <2>2. /\ back \in Seq(S) /\ Len(back) = IF lo <= n THEN n-lo+1 ELSE 0
        /\ \A j \in 1..n-lo+1 : back[j] = s[lo+j-1]
    BY <1>5, <2>1, SubSeqProperties
  <2>3. Len(back) = n-i
    BY <1>1, <1>4, <2>2
  <2>4. ASSUME NEW j \in 1..n-i PROVE back[j] = s[i+j]
    <3>1. j \in 1..n-lo+1 /\ lo+j-1 = i+j
      BY <1>1, <1>4
    <3> QED BY <2>2, <3>1
  <2> QED BY <2>2, <2>3, <2>4
<1>7. PICK r : r = front \o back
  OBVIOUS
<1>8. RemoveAt(s, i) = r
  BY <1>2, <1>4, <1>5, <1>7 DEF RemoveAt
<1>9. /\ r \in Seq(S)
      /\ \A j \in 1..Len(front)+Len(back) :
           r[j] = IF j <= Len(front) THEN front[j] ELSE back[j-Len(front)]
  BY <1>3, <1>6, <1>7, ConcatProperties
<1>10. ASSUME NEW j \in 1..n-1 PROVE r[j] = IF j < i THEN s[j] ELSE s[j+1]
  <2>1. j \in 1..(i-1)+(n-i)
    BY <1>1
  <2>2. r[j] = IF j <= i-1 THEN front[j] ELSE back[j-(i-1)]
    BY <1>3, <1>6, <1>9, <2>1
  <2>3. CASE j < i
    <3>1. j <= i-1 /\ j \in 1..i-1
      BY <1>1, <2>3
    <3> QED BY <1>3, <2>2, <2>3, <3>1
  <2>4. CASE ~ (j < i)
    <3>1. ~ (j <= i-1) /\ j-(i-1) \in 1..n-i /\ i+(j-(i-1)) = j+1
      BY <1>1, <2>4
    <3> QED BY <1>6, <2>2, <2>4, <3>1
  <2> QED BY <2>3, <2>4
<1> QED BY <1>8, <1>10
=============================================================================
