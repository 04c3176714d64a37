--------------------------- MODULE HistoryLemmas ---------------------------
(***************************************************************************)
(* Facts about histories that the proofs of several components need: cuts, *)
(* prefixes and appends of sequences, and greatest elements.               *)
(***************************************************************************)
EXTENDS Integers, Sequences, SequencesExt, WellFoundedInduction, FiniteSetTheorems, TLAPS

\* s begins t, element by element.
Begins(s, t) == Len(s) <= Len(t) /\ \A i \in 1 .. Len(s) : s[i] = t[i]

\* A cut is what the history was up to there.
LEMMA CutFacts ==
    ASSUME NEW S, NEW s \in Seq(S), NEW n \in 0 .. Len(s)
    PROVE  /\ SubSeq(s, 1, n) \in Seq(S)
           /\ Len(SubSeq(s, 1, n)) = n
           /\ \A i \in 1 .. n : SubSeq(s, 1, n)[i] = s[i]
OBVIOUS

\* A place of a history holds a member.
LEMMA Members ==
    ASSUME NEW S, NEW s \in Seq(S), NEW i \in 1 .. Len(s)
    PROVE  s[i] \in S
OBVIOUS

\* Histories that agree everywhere are the same.
LEMMA Equal ==
    ASSUME NEW S, NEW s \in Seq(S), NEW t \in Seq(S), Len(s) = Len(t),
           \A i \in 1 .. Len(s) : s[i] = t[i]
    PROVE  s = t
OBVIOUS

\* IsPrefix, element by element.
LEMMA PrefixFacts ==
    ASSUME NEW S, NEW s \in Seq(S), NEW t \in Seq(S)
    PROVE  IsPrefix(s, t) <=> Begins(s, t)
<1>1. Len(s) \in Nat /\ Len(t) \in Nat
  OBVIOUS
<1>2. SUFFICES ASSUME Len(s) <= Len(t)
               PROVE  SubSeq(s, 1, Len(s)) = SubSeq(t, 1, Len(s))
                      <=> \A i \in 1 .. Len(s) : s[i] = t[i]
  BY DEF IsPrefix, Begins
<1>3. Len(s) \in 0 .. Len(s) /\ Len(s) \in 0 .. Len(t)
  BY <1>1, <1>2
<1>4. /\ SubSeq(s, 1, Len(s)) \in Seq(S) /\ Len(SubSeq(s, 1, Len(s))) = Len(s)
      /\ \A i \in 1 .. Len(s) : SubSeq(s, 1, Len(s))[i] = s[i]
  BY <1>3, CutFacts
<1>5. /\ SubSeq(t, 1, Len(s)) \in Seq(S) /\ Len(SubSeq(t, 1, Len(s))) = Len(s)
      /\ \A i \in 1 .. Len(s) : SubSeq(t, 1, Len(s))[i] = t[i]
  BY <1>3, CutFacts
<1>6. ASSUME \A i \in 1 .. Len(s) : s[i] = t[i]
      PROVE  SubSeq(s, 1, Len(s)) = SubSeq(t, 1, Len(s))
  BY <1>4, <1>5, <1>6, Equal
<1>7. ASSUME SubSeq(s, 1, Len(s)) = SubSeq(t, 1, Len(s)), NEW i \in 1 .. Len(s)
      PROVE  s[i] = t[i]
  BY <1>4, <1>5, <1>7
<1> QED BY <1>6, <1>7

\* One more record at the end of a history.
LEMMA AppendFacts ==
    ASSUME NEW S, NEW s \in Seq(S), NEW x \in S
    PROVE  /\ Append(s, x) \in Seq(S)
           /\ Len(Append(s, x)) = Len(s) + 1
           /\ Append(s, x)[Len(s) + 1] = x
           /\ Begins(s, Append(s, x))
BY DEF Begins

\* The prefixes of a longer history are those of the history, and itself.
LEMMA AppendCuts ==
    ASSUME NEW S, NEW s \in Seq(S), NEW x \in S, NEW n \in 0 .. Len(s)
    PROVE  SubSeq(Append(s, x), 1, n) = SubSeq(s, 1, n)
<1>1. n \in 0 .. Len(Append(s, x)) /\ Append(s, x) \in Seq(S)
  OBVIOUS
<1>2. \A i \in 1 .. n : Append(s, x)[i] = s[i]
  OBVIOUS
<1>3. /\ SubSeq(s, 1, n) \in Seq(S) /\ Len(SubSeq(s, 1, n)) = n
      /\ \A i \in 1 .. n : SubSeq(s, 1, n)[i] = s[i]
  BY CutFacts
<1>4. /\ SubSeq(Append(s, x), 1, n) \in Seq(S) /\ Len(SubSeq(Append(s, x), 1, n)) = n
      /\ \A i \in 1 .. n : SubSeq(Append(s, x), 1, n)[i] = Append(s, x)[i]
  BY <1>1, CutFacts
<1> QED BY <1>2, <1>3, <1>4, Equal

\* Cutting at the end cuts nothing.
LEMMA WholeCut ==
    ASSUME NEW S, NEW s \in Seq(S)
    PROVE  SubSeq(s, 1, Len(s)) = s
<1>1. Len(s) \in 0 .. Len(s)
  OBVIOUS
<1> QED BY <1>1, CutFacts, Equal

\* A nonempty set of bounded numbers has a greatest element.
LEMMA Greatest ==
    ASSUME NEW n \in Nat, NEW S, S \subseteq 0 .. n, S # {}
    PROVE  \E x \in S : \A y \in S : y <= x
<1> DEFINE T == {n - x : x \in S}
<1>1. T \subseteq Nat /\ T # {}
  <2>1. \A x \in S : x \in Nat /\ n - x \in Nat
    OBVIOUS
  <2>2. PICK x \in S : TRUE
    OBVIOUS
  <2>3. n - x \in T
    BY <2>2
  <2> QED BY <2>1, <2>3
<1>2. \E m \in T : \A k \in T : ~(<<k, m>> \in OpToRel(<, Nat))
  BY <1>1, NatLessThanWellFounded, WFMin
<1>3. PICK m \in T : \A k \in T : ~(k < m)
  BY <1>1, <1>2 DEF OpToRel
<1>4. PICK x \in S : m = n - x
  OBVIOUS
<1>5. ASSUME NEW y \in S PROVE y <= x
  <2>1. n - y \in T
    OBVIOUS
  <2>2. ~(n - y < m) 
    BY <1>3, <2>1
  <2> QED BY <1>4, <2>2
<1> QED BY <1>5
\* R orders S, strictly and totally.
StrictOrder(S, R) ==
    /\ \A x \in S : <<x, x>> \notin R
    /\ \A x, y \in S : x # y => <<x, y>> \in R \/ <<y, x>> \in R
    /\ \A x, y, z \in S : <<x, y>> \in R /\ <<y, z>> \in R => <<x, z>> \in R

\* A strict total order on a finite set gives every element its own rank.
LEMMA RankFacts ==
    ASSUME NEW S, IsFiniteSet(S), NEW R, StrictOrder(S, R),
           NEW rank,
           rank = [x \in S |-> Cardinality({y \in S : <<y, x>> \in R}) + 1]
    PROVE  /\ Cardinality(S) \in Nat
           /\ rank \in [S -> 1 .. Cardinality(S)]
           /\ \A x, y \in S : <<x, y>> \in R => rank[x] < rank[y]
           /\ \A x, y \in S : rank[x] = rank[y] => x = y
           /\ \A i \in 1 .. Cardinality(S) : \E x \in S : rank[x] = i
<1>1. PICK below : below = [x \in S |-> {y \in S : <<y, x>> \in R}]
  OBVIOUS
<1>2. PICK n \in Nat : n = Cardinality(S)
  BY FS_CardinalityType
<1>3. \A x \in S : rank[x] = Cardinality(below[x]) + 1
  BY <1>1
<1>4. ASSUME NEW x \in S
      PROVE  IsFiniteSet(below[x]) /\ Cardinality(below[x]) \in Nat /\ rank[x] \in 1 .. n
  <2>1. IsFiniteSet(S \ {x}) /\ Cardinality(S \ {x}) = n - 1
    BY <1>2, FS_RemoveElement
  <2>2. below[x] \in SUBSET (S \ {x})
    BY <1>1 DEF StrictOrder
  <2>3. IsFiniteSet(below[x]) /\ Cardinality(below[x]) <= Cardinality(S \ {x})
    BY ONLY <2>1, <2>2, FS_Subset
  <2>4. Cardinality(below[x]) \in Nat
    BY ONLY <2>3, FS_CardinalityType
  <2> QED BY ONLY <1>2, <1>3, <2>1, <2>3, <2>4, x \in S
<1>5. ASSUME NEW x \in S, NEW y \in S, <<x, y>> \in R
      PROVE  rank[x] < rank[y]
  <2>1. below[x] \in SUBSET below[y] /\ x \in below[y] /\ x \notin below[x]
    BY <1>1, <1>5 DEF StrictOrder
  <2>2. /\ IsFiniteSet(below[y])
        /\ Cardinality(below[x]) \in Nat /\ Cardinality(below[y]) \in Nat
    BY ONLY <1>4, x \in S, y \in S
  <2>3. /\ Cardinality(below[x]) <= Cardinality(below[y])
        /\ Cardinality(below[y]) = Cardinality(below[x]) => below[y] = below[x]
    BY ONLY <2>1, <2>2, FS_Subset
  <2>4. Cardinality(below[x]) # Cardinality(below[y])
    BY ONLY <2>1, <2>3
  <2> QED BY ONLY <1>3, <2>2, <2>3, <2>4, x \in S, y \in S
<1>6. rank \in [S -> 1 .. n]
  <2>1. rank = [x \in S |-> rank[x]]
    OBVIOUS
  <2> QED BY ONLY <1>4, <2>1
<1>7. \A x, y \in S : rank[x] = rank[y] => x = y
  <2>1. SUFFICES ASSUME NEW x \in S, NEW y \in S, rank[x] = rank[y], x # y PROVE FALSE
    OBVIOUS
  <2>2. <<x, y>> \in R \/ <<y, x>> \in R
    BY <2>1 DEF StrictOrder
  <2>3. rank[x] \in Nat /\ rank[y] \in Nat
    BY ONLY <1>6, <1>2, x \in S, y \in S
  <2> QED BY ONLY <1>5, <2>1, <2>2, <2>3, x \in S, y \in S
<1>8. \A i \in 1 .. n : \E x \in S : rank[x] = i
  <2>1. rank \in Injection(S, 1 .. n)
    BY ONLY <1>6, <1>7 DEF Injection, IsInjective
  <2>2. IsFiniteSet(1 .. n) /\ Cardinality(1 .. n) = n
    <3>1. 1 \in Int /\ n \in Int /\ n \in Nat
      BY ONLY n \in Nat
    <3>2. IsFiniteSet(1 .. n) /\ Cardinality(1 .. n) = IF 1 > n THEN 0 ELSE n - 1 + 1
      BY ONLY <3>1, FS_Interval
    <3> QED BY ONLY <3>1, <3>2
  <2>3. rank \in Surjection(S, 1 .. n)
    BY ONLY <1>2, <2>1, <2>2, FS_Injection
  <2> QED BY ONLY <2>3 DEF Surjection
<1> QED BY ONLY <1>2, <1>5, <1>6, <1>7, <1>8

\* S in the order R.
SortedBy(S, R) ==
    [n \in 1 .. Cardinality(S) |->
        CHOOSE x \in S : Cardinality({y \in S : <<y, x>> \in R}) = n - 1]

\* A set sorted by a strict total order: each element once, in that order.
LEMMA SortedFacts ==
    ASSUME NEW S, IsFiniteSet(S), NEW R, StrictOrder(S, R), NEW s, s = SortedBy(S, R)
    PROVE  /\ s \in Seq(S) /\ Len(s) = Cardinality(S) /\ Cardinality(S) \in Nat
           /\ \A x \in S : \E i \in 1 .. Len(s) : s[i] = x
           /\ \A i, j \in 1 .. Len(s) : i < j => <<s[i], s[j]>> \in R
           /\ \A i, j \in 1 .. Len(s) : s[i] = s[j] => i = j
<1>1. PICK rank : rank = [x \in S |-> Cardinality({y \in S : <<y, x>> \in R}) + 1]
  OBVIOUS
<1>2. PICK n : n = Cardinality(S)
  OBVIOUS
<1>3. /\ n \in Nat /\ rank \in [S -> 1 .. n]
      /\ \A x, y \in S : <<x, y>> \in R => rank[x] < rank[y]
      /\ \A x, y \in S : rank[x] = rank[y] => x = y
      /\ \A i \in 1 .. n : \E x \in S : rank[x] = i
  BY ONLY IsFiniteSet(S), StrictOrder(S, R), <1>1, <1>2, RankFacts
<1>4. ASSUME NEW x \in S
      PROVE  IsFiniteSet({y \in S : <<y, x>> \in R}) /\ Cardinality({y \in S : <<y, x>> \in R}) \in Nat
  <2>1. {y \in S : <<y, x>> \in R} \in SUBSET S
    OBVIOUS
  <2> QED BY <2>1, FS_Subset, FS_CardinalityType
<1>5. ASSUME NEW i \in 1 .. n PROVE s[i] \in S /\ rank[s[i]] = i
  <2>1. \A x \in S : Cardinality({y \in S : <<y, x>> \in R}) = i - 1 <=> rank[x] = i
    BY ONLY <1>1, <1>3, <1>4, i \in 1 .. n
  <2>2. s[i] = CHOOSE x \in S : Cardinality({y \in S : <<y, x>> \in R}) = i - 1
    BY <1>2 DEF SortedBy
  <2>3. \E x \in S : Cardinality({y \in S : <<y, x>> \in R}) = i - 1
    BY ONLY <1>3, <2>1, i \in 1 .. n
  <2>4. s[i] \in S /\ Cardinality({y \in S : <<y, s[i]>> \in R}) = i - 1
    BY ONLY <2>2, <2>3
  <2> QED BY ONLY <2>1, <2>4
<1>6. DOMAIN s = 1 .. n
  BY <1>2 DEF SortedBy
<1>7. s \in [1 .. n -> S]
  <2>1. \A i \in 1 .. n : (CHOOSE x \in S : Cardinality({y \in S : <<y, x>> \in R}) = i - 1) \in S
    BY <1>2, <1>5 DEF SortedBy
  <2> QED BY <1>2, <2>1 DEF SortedBy
<1>8. s \in Seq(S) /\ Len(s) = n
  BY ONLY <1>3, <1>7
<1>9. ASSUME NEW x \in S PROVE \E i \in 1 .. n : s[i] = x
  <2>1. rank[x] \in 1 .. n
    BY ONLY <1>3, x \in S
  <2>2. s[rank[x]] \in S /\ rank[s[rank[x]]] = rank[x]
    BY ONLY <1>5, <2>1
  <2>3. s[rank[x]] = x
    BY ONLY <1>3, <2>2, x \in S
  <2> QED BY ONLY <2>1, <2>3
<1>10. ASSUME NEW i \in 1 .. n, NEW j \in 1 .. n, i < j PROVE <<s[i], s[j]>> \in R
  <2>1. PICK x \in S : x = s[i] /\ rank[x] = i
    BY ONLY <1>5, i \in 1 .. n
  <2>2. PICK y \in S : y = s[j] /\ rank[y] = j
    BY ONLY <1>5, j \in 1 .. n
  <2>3. i \in Nat /\ j \in Nat /\ ~(j < i) /\ i # j
    BY ONLY <1>3, <1>10, i \in 1 .. n, j \in 1 .. n
  <2>4. x # y /\ ~(<<y, x>> \in R)
    BY ONLY <1>3, <2>1, <2>2, <2>3
  <2>5. <<x, y>> \in R
    BY <2>4 DEF StrictOrder
  <2> QED BY ONLY <2>1, <2>2, <2>5
<1>11. \A i, j \in 1 .. n : s[i] = s[j] => i = j
  BY ONLY <1>5
<1> QED BY ONLY <1>2, <1>3, <1>8, <1>9, <1>10, <1>11

\* A nonempty set of numbers has a least element.
LEMMA Least ==
    ASSUME NEW S, S \subseteq Nat, S # {}
    PROVE  \E x \in S : \A y \in S : x <= y
<1>1. \E m \in S : \A k \in S : ~(<<k, m>> \in OpToRel(<, Nat))
  BY NatLessThanWellFounded, WFMin
<1>2. PICK m \in S : \A k \in S : ~(k < m)
  BY <1>1 DEF OpToRel
<1>3. \A k \in S : m <= k
  BY <1>2
<1> QED BY <1>3

\* The first n numbers.
LEMMA Counting ==
    ASSUME NEW n \in Nat
    PROVE  IsFiniteSet(1 .. n) /\ Cardinality(1 .. n) = n
<1>1. 1 \in Int /\ n \in Int
  OBVIOUS
<1>2. IsFiniteSet(1 .. n) /\ Cardinality(1 .. n) = IF 1 > n THEN 0 ELSE n - 1 + 1
  BY ONLY <1>1, FS_Interval
<1> QED BY <1>2

\* Places whose members differ are as many as their members.
LEMMA PlacesCounted ==
    ASSUME NEW I, NEW G, IsFiniteSet(I), NEW s,
           \A i, j \in I : s[i] = s[j] => i = j,
           G = {s[i] : i \in I}
    PROVE  IsFiniteSet(G) /\ Cardinality(G) = Cardinality(I) /\ Cardinality(G) \in Nat
<1>1. PICK f : f = [i \in I |-> s[i]]
  OBVIOUS
<1>2. f \in Surjection(I, G) /\ f \in Injection(I, G)
  BY <1>1 DEF Surjection, Injection, IsInjective
<1>3. IsFiniteSet(G) /\ Cardinality(G) = Cardinality(I)
  BY ONLY <1>2, IsFiniteSet(I), FS_Surjection
<1> QED BY <1>3, FS_CardinalityType

=============================================================================
