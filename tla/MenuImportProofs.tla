---------------------------- MODULE MenuImportProofs ----------------------------
(***************************************************************************)
(* What holds of the descriptions a publisher has, however they are added, *)
(* replaced, removed and changed, the assertion of description_changed;    *)
(* and of the menu the importer makes of them, however far its signals are *)
(* behind: the changes on their way lead from the items of the proxy to    *)
(* those of the publisher, and so each fits where it arrives.              *)
(***************************************************************************)
EXTENDS MenuImport, FiniteSetTheorems, SequenceTheorems, WellFoundedInduction, TLAPS

USE PublisherAssumption

RankOf(d) == Rank[IdOf[d]]

-----------------------------------------------------------------------------
(* Sequences and positions.                                                *)

\* One sequence behind another: what is where.
LEMMA ConcatElements ==
  ASSUME NEW S, NEW s \in Seq(S), NEW t \in Seq(S), NEW u, u = s \o t
  PROVE  /\ u \in Seq(S) /\ Len(u) = Len(s) + Len(t)
         /\ \A i \in 1..(Len(s) + Len(t)) : u[i] = IF i <= Len(s) THEN s[i] ELSE t[i - Len(s)]
BY ConcatProperties

\* A part of s, from at, of r elements, and what may take its place.
PartOf(S, s, at, r, a) ==
  /\ s \in Seq(S) /\ a \in Seq(S)
  /\ at \in Nat /\ r \in Nat /\ at >= 1 /\ at + r <= Len(s) + 1

\* What is where in u, which is s with a in the place of that part.
Replaced(S, u, s, at, r, a) ==
  /\ u \in Seq(S)
  /\ Len(u) = Len(s) - r + Len(a)
  /\ \A i \in 1..(at - 1) : u[i] = s[i]
  /\ \A i \in 1..Len(a) : u[at - 1 + i] = a[i]
  /\ \A i \in (at + r)..Len(s) : u[i - r + Len(a)] = s[i]

LEMMA SpliceElements ==
  ASSUME NEW S, NEW s, NEW at, NEW r, NEW a, PartOf(S, s, at, r, a)
  PROVE  Replaced(S, Splice(s, at, r, a), s, at, r, a)
<1> DEFINE before == SubSeq(s, 1, at - 1)
           after == SubSeq(s, at + r, Len(s))
           b == before \o a
           u == Splice(s, at, r, a)
<1>1. /\ Len(s) \in Nat /\ Len(a) \in Nat /\ at \in Nat /\ at >= 1 /\ r \in Nat
      /\ at + r <= Len(s) + 1 /\ s \in Seq(S) /\ a \in Seq(S)
  BY DEF PartOf
<1>2. /\ \A i \in 1..(at - 1) : s[i] \in S
      /\ \A i \in (at + r)..Len(s) : s[i] \in S
  BY <1>1
<1>3. /\ before \in Seq(S) /\ Len(before) = at - 1
      /\ \A i \in 1..(at - 1) : before[i] = s[i]
  BY <1>1, <1>2, SubSeqProperties
<1>4. /\ after \in Seq(S) /\ Len(after) = Len(s) + 1 - at - r
      /\ \A i \in 1..(Len(s) + 1 - at - r) : after[i] = s[at + r + i - 1]
  BY <1>1, <1>2, SubSeqProperties
<1>5. u = b \o after
  BY DEF Splice
<1> HIDE DEF before, after, u
<1>6. /\ b \in Seq(S) /\ Len(b) = at - 1 + Len(a)
      /\ \A i \in 1..(at - 1 + Len(a)) :
           b[i] = IF i <= at - 1 THEN before[i] ELSE a[i - (at - 1)]
  <2>1. /\ b \in Seq(S) /\ Len(b) = Len(before) + Len(a)
        /\ \A i \in 1..(Len(before) + Len(a)) :
             b[i] = IF i <= Len(before) THEN before[i] ELSE a[i - Len(before)]
    <3>1. before \in Seq(S) /\ a \in Seq(S)
      BY <1>1, <1>3
    <3> QED
      BY <3>1, ConcatElements
  <2> HIDE DEF b
  <2>2. Len(before) = at - 1
    BY <1>3
  <2> QED
    BY <2>1, <2>2
<1> HIDE DEF b
<1>7. /\ u \in Seq(S) /\ Len(u) = Len(b) + Len(after)
      /\ \A i \in 1..(Len(b) + Len(after)) :
           u[i] = IF i <= Len(b) THEN b[i] ELSE after[i - Len(b)]
  <2>1. b \in Seq(S) /\ after \in Seq(S)
    BY <1>4, <1>6
  <2> QED
    BY <1>5, <2>1, ConcatElements
<1>8. ASSUME NEW i \in 1..(at - 1) PROVE u[i] = s[i]
  <2>0. /\ i \in Nat /\ 1 <= i /\ i <= at - 1
        /\ Len(b) = at - 1 + Len(a) /\ Len(after) = Len(s) + 1 - at - r
    BY <1>1, <1>4, <1>6
  <2>1. i \in 1..(Len(b) + Len(after)) /\ i <= Len(b) /\ i <= at - 1 /\ i \in 1..(at - 1 + Len(a))
    BY ONLY <1>1, <2>0
  <2> QED
    BY <1>3, <1>6, <1>7, <2>1
<1>9. ASSUME NEW i \in 1..Len(a) PROVE u[at - 1 + i] = a[i]
  <2> DEFINE k == at - 1 + i
  <2>1. k \in 1..(at - 1 + Len(a)) /\ ~(k <= at - 1) /\ k - (at - 1) = i
    BY <1>1
  <2>2. u[k] = b[k]
    <3>1. k \in 1..(Len(b) + Len(after)) /\ k <= Len(b)
      BY <1>1, <1>4, <1>6, <2>1
    <3> QED
      BY <1>7, <3>1
  <2> HIDE DEF k
  <2>3. u[k] = a[i]
    BY <1>6, <2>1, <2>2
  <2> QED
    BY <2>3 DEF k
<1>10. ASSUME NEW i \in (at + r)..Len(s) PROVE u[i - r + Len(a)] = s[i]
  <2> DEFINE k == i - r + Len(a)
  <2>0. /\ i \in Nat /\ at + r <= i /\ i <= Len(s)
        /\ Len(b) = at - 1 + Len(a) /\ Len(after) = Len(s) + 1 - at - r
    BY <1>1, <1>4, <1>6
  <2>1. k \in 1..(Len(b) + Len(after)) /\ ~(k <= Len(b)) /\ k - Len(b) = i + 1 - at - r
    BY ONLY <1>1, <2>0
  <2>2. i + 1 - at - r \in 1..(Len(s) + 1 - at - r)
    BY <1>1
  <2>3. after[i + 1 - at - r] = s[i]
    BY <1>1, <1>4, <2>2
  <2> HIDE DEF k
  <2>4. u[k] = s[i]
    BY <1>7, <2>1, <2>3
  <2> QED
    BY <2>4 DEF k
<1>11. u \in Seq(S) /\ Len(u) = Len(s) - r + Len(a)
  BY <1>1, <1>4, <1>6, <1>7
<1> QED
  BY <1>8, <1>9, <1>10, <1>11 DEF u, Replaced

\* There is only one sequence with all that where it is.
LEMMA ReplacedIsSplice ==
  ASSUME NEW S, NEW s, NEW at, NEW r, NEW a, PartOf(S, s, at, r, a),
         NEW u, Replaced(S, u, s, at, r, a)
  PROVE  u = Splice(s, at, r, a)
<1> DEFINE v == Splice(s, at, r, a)
           n == Len(s)
           m == Len(a)
<1>1. /\ n \in Nat /\ m \in Nat /\ at \in Nat /\ at >= 1 /\ r \in Nat /\ at + r <= n + 1
  BY DEF PartOf
<1>2. Replaced(S, v, s, at, r, a)
  BY SpliceElements
<1> HIDE DEF v
<1>3. /\ u \in Seq(S) /\ v \in Seq(S) /\ Len(u) = n - r + m /\ Len(v) = n - r + m
  BY <1>2 DEF Replaced
<1>4. ASSUME NEW i \in 1..(n - r + m) PROVE u[i] = v[i]
  <2>0. i \in Nat /\ 1 <= i /\ i <= n - r + m
    BY <1>1
  <2>1. CASE i < at
    <3>1. i \in 1..(at - 1)
      BY <1>1, <2>0, <2>1
    <3> QED
      BY <1>2, <3>1 DEF Replaced
  <2>2. CASE at <= i /\ i < at + m
    <3>1. i - at + 1 \in 1..m /\ at - 1 + (i - at + 1) = i
      BY <1>1, <2>0, <2>2
    <3>2. u[at - 1 + (i - at + 1)] = a[i - at + 1] /\ v[at - 1 + (i - at + 1)] = a[i - at + 1]
      BY <1>2, <3>1 DEF Replaced
    <3> QED
      BY <3>1, <3>2
  <2>3. CASE at + m <= i
    <3> DEFINE k == i + r - m
    <3>1. k \in (at + r)..n /\ k - r + m = i
      BY <1>1, <2>0, <2>3
    <3> HIDE DEF k
    <3>2. u[k - r + m] = s[k] /\ v[k - r + m] = s[k]
      BY <1>2, <3>1 DEF Replaced
    <3> QED
      BY <3>1, <3>2
  <2> QED
    BY <1>1, <2>0, <2>1, <2>2, <2>3
<1> HIDE DEF n, m
<1>5. u = v
  <2>1. Len(u) = Len(v) /\ \A i \in 1..Len(u) : u[i] = v[i]
    BY <1>3, <1>4
  <2> QED
    BY <1>3, <2>1
<1> QED
  BY <1>5 DEF v

\* The elements of a sequence, each taken to another.
Mapped(f, s) == [i \in DOMAIN s |-> f[s[i]]]

\* To replace a part and to take the elements elsewhere, in either order.
LEMMA MapSplice ==
  ASSUME NEW S, NEW T, NEW f \in [S -> T],
         NEW s, NEW at, NEW r, NEW a, PartOf(S, s, at, r, a)
  PROVE  /\ PartOf(T, Mapped(f, s), at, r, Mapped(f, a))
         /\ Mapped(f, Splice(s, at, r, a)) = Splice(Mapped(f, s), at, r, Mapped(f, a))
<1> DEFINE u == Splice(s, at, r, a)
           ss == Mapped(f, s)
           aa == Mapped(f, a)
           uu == Mapped(f, u)
<1>1. Replaced(S, u, s, at, r, a)
  BY SpliceElements
<1> HIDE DEF u
<1>2. /\ s \in Seq(S) /\ a \in Seq(S) /\ u \in Seq(S)
      /\ at \in Nat /\ r \in Nat /\ at >= 1 /\ at + r <= Len(s) + 1
      /\ Len(u) = Len(s) - r + Len(a) /\ Len(s) \in Nat /\ Len(a) \in Nat
  BY <1>1 DEF PartOf, Replaced
<1>3. \A t \in Seq(S) :
        /\ Mapped(f, t) \in Seq(T) /\ Len(Mapped(f, t)) = Len(t)
        /\ \A i \in 1..Len(t) : Mapped(f, t)[i] = f[t[i]]
  <2> TAKE t \in Seq(S)
  <2>1. Len(t) \in Nat /\ \A i \in 1..Len(t) : f[t[i]] \in T
    OBVIOUS
  <2>2. Mapped(f, t) = [i \in 1..Len(t) |-> f[t[i]]]
    BY DEF Mapped
  <2>3. [i \in 1..Len(t) |-> f[t[i]]] \in Seq(T)
    BY <2>1
  <2> QED
    BY <2>1, <2>2, <2>3
<1>a. /\ ss \in Seq(T) /\ Len(ss) = Len(s)
      /\ \A i \in 1..Len(s) : ss[i] = f[s[i]]
  BY ONLY <1>2, <1>3
<1>b. /\ aa \in Seq(T) /\ Len(aa) = Len(a)
      /\ \A i \in 1..Len(a) : aa[i] = f[a[i]]
  BY ONLY <1>2, <1>3
<1>c. /\ uu \in Seq(T) /\ Len(uu) = Len(u)
      /\ \A i \in 1..Len(u) : uu[i] = f[u[i]]
  BY ONLY <1>2, <1>3
<1> HIDE DEF ss, aa, uu
<1>5. PartOf(T, ss, at, r, aa)
  BY <1>2, <1>a, <1>b DEF PartOf
<1>6. Replaced(T, uu, ss, at, r, aa)
  <2>1. ASSUME NEW i \in 1..(at - 1) PROVE uu[i] = ss[i]
    <3>1. i \in 1..Len(s) /\ i \in 1..Len(u)
      BY <1>2
    <3>2. u[i] = s[i]
      BY <1>1 DEF Replaced
    <3> QED
      BY <1>a, <1>c, <3>1, <3>2
  <2>2. ASSUME NEW i \in 1..Len(aa) PROVE uu[at - 1 + i] = aa[i]
    <3>1. i \in 1..Len(a) /\ at - 1 + i \in 1..Len(u)
      BY <1>2, <1>b
    <3>2. u[at - 1 + i] = a[i]
      BY <1>1, <3>1 DEF Replaced
    <3>3. uu[at - 1 + i] = f[u[at - 1 + i]] /\ aa[i] = f[a[i]]
      BY <1>b, <1>c, <3>1
    <3> QED
      BY <3>2, <3>3
  <2>3. ASSUME NEW i \in (at + r)..Len(ss) PROVE uu[i - r + Len(aa)] = ss[i]
    <3>1. i \in (at + r)..Len(s) /\ i \in 1..Len(s) /\ i - r + Len(a) \in 1..Len(u)
      BY <1>2, <1>a
    <3>2. u[i - r + Len(a)] = s[i]
      BY <1>1, <3>1 DEF Replaced
    <3> QED
      BY <1>a, <1>b, <1>c, <3>1, <3>2
  <2> QED
    BY <1>2, <1>a, <1>b, <1>c, <2>1, <2>2, <2>3 DEF Replaced
<1>7. uu = Splice(ss, at, r, aa)
  BY <1>5, <1>6, ReplacedIsSplice
<1> QED
  BY <1>5, <1>7 DEF uu, ss, aa, u

\* A part may be taken out before something is put in its place.
LEMMA TwoSplices ==
  ASSUME NEW S, NEW s, NEW at, NEW r, NEW a, PartOf(S, s, at, r, a)
  PROVE  Splice(Splice(s, at, r, <<>>), at, 0, a) = Splice(s, at, r, a)
<1> DEFINE rest == Splice(s, at, r, <<>>)
           u == Splice(rest, at, 0, a)
<1>0. Len(<<>>) = 0 /\ <<>> \in Seq(S)
  OBVIOUS
<1>1. /\ s \in Seq(S) /\ a \in Seq(S) /\ at \in Nat /\ r \in Nat /\ at >= 1
      /\ at + r <= Len(s) + 1 /\ Len(s) \in Nat /\ Len(a) \in Nat
  BY DEF PartOf
<1>2. Replaced(S, rest, s, at, r, <<>>)
  <2>1. PartOf(S, s, at, r, <<>>)
    BY <1>0, <1>1 DEF PartOf
  <2> QED
    BY <2>1, SpliceElements
<1> HIDE DEF rest
<1>3. /\ rest \in Seq(S) /\ Len(rest) = Len(s) - r
      /\ \A i \in 1..(at - 1) : rest[i] = s[i]
      /\ \A i \in (at + r)..Len(s) : rest[i - r] = s[i]
  <2>1. /\ rest \in Seq(S) /\ Len(rest) = Len(s) - r + 0
        /\ \A i \in 1..(at - 1) : rest[i] = s[i]
        /\ \A i \in (at + r)..Len(s) : rest[i - r + 0] = s[i]
    BY <1>0, <1>2 DEF Replaced
  <2>2. Len(s) - r + 0 = Len(s) - r
    BY <1>1
  <2>3. ASSUME NEW i \in (at + r)..Len(s) PROVE i - r + 0 = i - r
    BY <1>1
  <2> QED
    BY <2>1, <2>2, <2>3
<1>4. Replaced(S, u, rest, at, 0, a)
  <2>1. PartOf(S, rest, at, 0, a)
    BY <1>1, <1>3 DEF PartOf
  <2> QED
    BY <2>1, SpliceElements
<1> HIDE DEF u
<1>5. /\ u \in Seq(S) /\ Len(u) = Len(s) - r + Len(a)
      /\ \A i \in 1..(at - 1) : u[i] = s[i]
      /\ \A i \in 1..Len(a) : u[at - 1 + i] = a[i]
  <2>1. /\ u \in Seq(S) /\ Len(u) = Len(rest) - 0 + Len(a)
        /\ \A i \in 1..(at - 1) : u[i] = rest[i]
        /\ \A i \in 1..Len(a) : u[at - 1 + i] = a[i]
    BY <1>4 DEF Replaced
  <2> QED
    BY <1>1, <1>3, <2>1
<1>6. ASSUME NEW i \in (at + r)..Len(s) PROVE u[i - r + Len(a)] = s[i]
  <2>1. i - r \in (at + 0)..Len(rest) /\ (i - r) - 0 + Len(a) = i - r + Len(a)
    BY <1>1, <1>3
  <2>2. u[(i - r) - 0 + Len(a)] = rest[i - r]
    BY <1>4, <2>1 DEF Replaced
  <2> QED
    BY <1>3, <2>1, <2>2
<1>7. Replaced(S, u, s, at, r, a)
  BY <1>5, <1>6 DEF Replaced
<1> QED
  BY <1>7, ReplacedIsSplice DEF u, rest

\* The first numbers up to some number are as many as that number.
LEMMA SegmentIsInterval ==
  ASSUME NEW n \in Nat, NEW S \in SUBSET (1..n), \A i \in S : \A j \in 1..i : j \in S
  PROVE  Cardinality(S) \in 0..n /\ S = 1..Cardinality(S)
<1> DEFINE c == Cardinality(S)
<1>1. IsFiniteSet(1..n) /\ Cardinality(1..n) = n
  BY FS_Interval
<1>2. IsFiniteSet(S) /\ c \in Nat /\ c <= n
  <2>1. IsFiniteSet(S) /\ c <= Cardinality(1..n)
    BY <1>1, FS_Subset
  <2>2. c \in Nat
    BY <2>1, FS_CardinalityType
  <2> QED
    BY <1>1, <2>1, <2>2
<1>3. ASSUME NEW i \in S PROVE i <= c
  <2>1. 1..i \subseteq S /\ i \in Nat
    BY <1>3
  <2>2. Cardinality(1..i) = i
    BY <2>1, FS_Interval
  <2>3. Cardinality(1..i) <= c
    BY <1>2, <2>1, FS_Subset
  <2> QED
    BY <2>2, <2>3
<1>4. S \subseteq 1..c
  BY <1>2, <1>3
<1>5. IsFiniteSet(1..c) /\ Cardinality(1..c) = c
  BY <1>2, FS_Interval
<1>6. S = 1..c
  BY <1>4, <1>5, FS_Subset
<1> QED
  BY <1>2, <1>6

PublisherInv == descriptions \in Seq(Descriptions) /\ ChangedDescriptionsAreFound

LEMMA RankType == ASSUME NEW d \in Descriptions PROVE RankOf(d) \in Nat
BY DEF RankOf

\* The binary search: smaller identifiers come before the position, and what has the
\* identifier is there.
LEMMA PositionSplits ==
  ASSUME PublisherInv, NEW id \in Ids
  PROVE  /\ Position(id) \in 1..(Len(descriptions) + 1)
         /\ \A i \in DOMAIN descriptions : i < Position(id) <=> RankOf(descriptions[i]) < Rank[id]
         /\ Has(id) => /\ Position(id) \in DOMAIN descriptions
                       /\ IdOf[descriptions[Position(id)]] = id
         /\ ~Has(id) => \A i \in DOMAIN descriptions :
                          i >= Position(id) => Rank[id] < RankOf(descriptions[i])
<1> DEFINE n == Len(descriptions)
           S == Before(id)
<1>1. /\ n \in Nat /\ DOMAIN descriptions = 1..n
      /\ \A i \in 1..n : descriptions[i] \in Descriptions /\ RankOf(descriptions[i]) \in Nat
  BY RankType DEF PublisherInv
<1>2. \A i, j \in 1..n : i < j => RankOf(descriptions[i]) < RankOf(descriptions[j])
  BY <1>1 DEF PublisherInv, ChangedDescriptionsAreFound, RankOf
<1>3. S = {i \in 1..n : RankOf(descriptions[i]) < Rank[id]}
  BY <1>1 DEF Before, RankOf
<1>4. Rank[id] \in Nat
  OBVIOUS
<1> HIDE DEF S, n
<1>5. \A i \in S : \A j \in 1..i : j \in S
  <2> SUFFICES ASSUME NEW i \in S, NEW j \in 1..i PROVE j \in S
    OBVIOUS
  <2>1. i \in 1..n /\ j \in 1..n /\ RankOf(descriptions[i]) < Rank[id]
    BY <1>1, <1>3
  <2>2. RankOf(descriptions[j]) <= RankOf(descriptions[i])
    <3>1. j < i \/ j = i
      BY <2>1
    <3> QED
      BY <1>1, <1>2, <2>1, <3>1
  <2>3. RankOf(descriptions[j]) < Rank[id]
    BY <1>1, <1>4, <2>1, <2>2
  <2> QED
    BY <1>3, <2>1, <2>3
<1> DEFINE c == Cardinality(S)
<1>6. S \in SUBSET (1..n)
  BY <1>3
<1>7. c \in 0..n /\ S = 1..c
  BY <1>1, <1>5, <1>6, SegmentIsInterval
<1> HIDE DEF c
<1>8. Position(id) = c + 1
  BY DEF Position, S, c
<1>9. \A i \in 1..n : i < c + 1 <=> RankOf(descriptions[i]) < Rank[id]
  <2> SUFFICES ASSUME NEW i \in 1..n PROVE i < c + 1 <=> i \in S
    BY <1>3
  <2> QED
    BY <1>1, <1>7
<1>10. ASSUME Has(id) PROVE c + 1 \in 1..n /\ IdOf[descriptions[c + 1]] = id
  <2>1. PICK i \in 1..n : IdOf[descriptions[i]] = id
    BY <1>1, <1>10 DEF Has
  <2>2. RankOf(descriptions[i]) = Rank[id]
    BY <2>1 DEF RankOf
  <2>3. i >= c + 1 /\ c + 1 \in 1..n
    BY <1>1, <1>4, <1>7, <1>9, <2>2
  <2>4. ~(RankOf(descriptions[c + 1]) < Rank[id])
    BY <1>7, <1>9, <2>3
  <2>5. ~(c + 1 < i)
    BY <1>1, <1>2, <1>4, <2>2, <2>3, <2>4
  <2>6. i = c + 1
    BY <1>1, <1>7, <2>3, <2>5
  <2> QED
    BY <2>1, <2>3, <2>6
<1>11. ASSUME ~Has(id), NEW i \in 1..n, i >= c + 1 PROVE Rank[id] < RankOf(descriptions[i])
  <2>1. ~(RankOf(descriptions[i]) < Rank[id])
    BY <1>7, <1>9, <1>11
  <2>2. IdOf[descriptions[i]] # id /\ IdOf[descriptions[i]] \in Ids
    BY <1>1, <1>11 DEF Has
  <2>3. RankOf(descriptions[i]) # Rank[id]
    BY <2>2 DEF RankOf
  <2> QED
    BY <1>1, <1>4, <2>1, <2>3
<1> QED
  BY <1>1, <1>7, <1>8, <1>9, <1>10, <1>11 DEF n

-----------------------------------------------------------------------------
(* The steps of the publisher.                                             *)

Sorted(s) == \A i, j \in 1..Len(s) : i < j => RankOf(s[i]) < RankOf(s[j])

ElementsOf(s) == {s[i] : i \in 1..Len(s)}

\* What is to replace the part belongs there.
Fits(s, at, r, a) ==
  /\ Len(a) <= 1
  /\ \A k \in 1..Len(a) :
       /\ \A i \in 1..(at - 1) : RankOf(s[i]) < RankOf(a[k])
       /\ \A i \in (at + r)..Len(s) : RankOf(a[k]) < RankOf(s[i])

PartElements(s, at, r) == {s[i] : i \in at..(at + r - 1)}

\* A part of a sorted sequence is replaced by nothing or by what belongs there.
LEMMA SpliceKeepsOrder ==
  ASSUME NEW s, NEW at, NEW r, NEW a, PartOf(Descriptions, s, at, r, a), Sorted(s), Fits(s, at, r, a)
  PROVE  LET u == Splice(s, at, r, a) IN
         /\ u \in Seq(Descriptions) /\ Sorted(u)
         /\ ElementsOf(u) = (ElementsOf(s) \ PartElements(s, at, r)) \cup ElementsOf(a)
<1> DEFINE n == Len(s)
           m == Len(a)
           Out == PartElements(s, at, r)
           u == Splice(s, at, r, a)
           C == ElementsOf(s)
           D == (C \ Out) \cup ElementsOf(a)
<1>1. /\ n \in Nat
      /\ \A i \in 1..n : s[i] \in Descriptions
      /\ \A i, j \in 1..n : i < j => RankOf(s[i]) < RankOf(s[j])
      /\ C = {s[i] : i \in 1..n}
  BY DEF PartOf, Sorted, ElementsOf
<1>a. \A i \in 1..n : RankOf(s[i]) \in Nat
  BY <1>1, RankType
<1>2. m \in Nat /\ m <= 1 /\ \A k \in 1..m : a[k] \in Descriptions
  BY DEF PartOf, Fits
<1>b. \A k \in 1..m : RankOf(a[k]) \in Nat
  BY <1>2, RankType
<1>c. at \in 1..(n + 1) /\ r \in 0..(n + 1 - at)
  BY <1>1 DEF PartOf
<1>3. /\ u \in Seq(Descriptions)
      /\ Len(u) = n - r + m
      /\ \A i \in 1..(at - 1) : u[i] = s[i]
      /\ \A i \in 1..m : u[at - 1 + i] = a[i]
      /\ \A i \in (at + r)..n : u[i - r + m] = s[i]
  <2>1. Replaced(Descriptions, u, s, at, r, a)
    BY SpliceElements
  <2> QED
    BY <2>1 DEF Replaced
<1>4. \A k \in 1..m :
        /\ \A i \in 1..(at - 1) : RankOf(s[i]) < RankOf(a[k])
        /\ \A i \in (at + r)..n : RankOf(a[k]) < RankOf(s[i])
  BY DEF Fits
<1>5. D = (C \ Out) \cup {a[k] : k \in 1..m}
  BY DEF ElementsOf
<1>e. Out = {s[i] : i \in at..(at + r - 1)}
  BY DEF PartElements
<1> HIDE DEF n, m, Out, u, C, D
<1>d. m \in {0, 1} /\ at \in Nat /\ at >= 1 /\ r \in Nat /\ at + r <= n + 1
  BY <1>1, <1>2, <1>c
<1>6. DOMAIN u = 1..Len(u) /\ Len(u) \in Nat
  BY <1>3
<1>7. ASSUME NEW k \in 1..Len(u)
      PROVE  \/ k \in 1..(at - 1) /\ u[k] = s[k]
             \/ k = at /\ m = 1 /\ u[k] = a[1]
             \/ k >= at + m /\ k + r - m \in (at + r)..n /\ u[k] = s[k + r - m]
  <2>1. CASE k <= at - 1
    BY ONLY <1>d, <1>3, <1>6, <1>7, <2>1
  <2>2. CASE k >= at /\ k < at + m
    <3>1. k = at /\ m = 1 /\ at - 1 + 1 = k
      BY <1>d, <2>2
    <3>2. u[at - 1 + 1] = a[1]
      BY <1>3, <3>1
    <3> QED
      BY <3>1, <3>2
  <2>3. CASE k >= at + m
    <3>1. k + r - m \in (at + r)..n /\ (k + r - m) - r + m = k
      BY ONLY <1>1, <1>d, <1>3, <1>6, <1>7, <2>3
    <3>2. u[(k + r - m) - r + m] = s[k + r - m]
      BY <1>3, <3>1
    <3> QED
      BY <2>3, <3>1, <3>2
  <2> QED
    BY <1>d, <1>6, <2>1, <2>2, <2>3
<1>8. ASSUME NEW i \in 1..Len(u), NEW j \in 1..Len(u), i < j
      PROVE  RankOf(u[i]) < RankOf(u[j])
  <2>1. CASE i \in 1..(at - 1) /\ u[i] = s[i]
    <3>1. i \in 1..n
      BY <1>1, <1>a, <1>d, <2>1
    <3>2. CASE j \in 1..(at - 1) /\ u[j] = s[j]
      <4>1. j \in 1..n
        BY <1>1, <1>a, <1>d, <3>2
      <4> QED
        BY <1>1, <1>a, <1>8, <2>1, <3>1, <3>2, <4>1
    <3>3. CASE j = at /\ m = 1 /\ u[j] = a[1]
      BY <1>4, <2>1, <3>3
    <3>4. CASE j >= at + m /\ j + r - m \in (at + r)..n /\ u[j] = s[j + r - m]
      <4>1. j + r - m \in 1..n /\ i < j + r - m
        BY <1>1, <1>a, <1>d, <2>1, <3>4
      <4> QED
        BY <1>1, <1>a, <2>1, <3>1, <3>4, <4>1
    <3> QED
      BY <1>7, <3>2, <3>3, <3>4
  <2>2. CASE i = at /\ m = 1 /\ u[i] = a[1]
    <3>1. j >= at + m /\ j + r - m \in (at + r)..n /\ u[j] = s[j + r - m]
      <4>1. ~(j \in 1..(at - 1)) /\ j # at
        BY <1>d, <1>8, <2>2
      <4> QED
        BY <1>7, <4>1
    <3> QED
      BY <1>4, <2>2, <3>1
  <2>3. CASE i >= at + m /\ i + r - m \in (at + r)..n /\ u[i] = s[i + r - m]
    <3>1. j >= at + m /\ j + r - m \in (at + r)..n /\ u[j] = s[j + r - m]
      <4>1. ~(j \in 1..(at - 1)) /\ ~(j = at /\ m = 1)
        BY <1>d, <1>6, <1>8, <2>3
      <4> QED
        BY <1>7, <4>1
    <3>2. i + r - m \in 1..n /\ j + r - m \in 1..n /\ i + r - m < j + r - m
      BY <1>1, <1>a, <1>d, <1>6, <1>8, <2>3, <3>1
    <3> QED
      BY <1>1, <1>a, <2>3, <3>1, <3>2
  <2> QED
    BY <1>7, <2>1, <2>2, <2>3
<1>9. \A k \in 1..Len(u) : u[k] \in D
  <2> TAKE k \in 1..Len(u)
  <2>1. ASSUME NEW i \in 1..n, i \notin at..(at + r - 1) PROVE s[i] \in D
    <3>1. ASSUME NEW j \in at..(at + r - 1) PROVE s[i] # s[j]
      <4>1. j \in 1..n /\ (i < j \/ j < i)
        BY ONLY <1>1, <1>d, <2>1, <3>1
      <4> QED
        BY <1>1, <1>a, <2>1, <4>1
    <3>2. s[i] \notin Out
      BY <1>e, <3>1
    <3> QED
      BY <1>1, <1>a, <1>5, <2>1, <3>2
  <2>2. CASE k \in 1..(at - 1) /\ u[k] = s[k]
    <3>1. k \in 1..n /\ k \notin at..(at + r - 1)
      BY <1>1, <1>a, <1>d, <2>2
    <3> QED
      BY <2>1, <2>2, <3>1
  <2>3. CASE k = at /\ m = 1 /\ u[k] = a[1]
    BY ONLY <1>5, <2>3
  <2>4. CASE k >= at + m /\ k + r - m \in (at + r)..n /\ u[k] = s[k + r - m]
    <3>1. k + r - m \in 1..n /\ k + r - m \notin at..(at + r - 1)
      BY <1>1, <1>a, <1>d, <2>4
    <3> QED
      BY <2>1, <2>4, <3>1
  <2> QED
    BY <1>7, <2>2, <2>3, <2>4
<1>10. \A d \in D : \E k \in 1..Len(u) : u[k] = d
  <2> TAKE d \in D
  <2>1. CASE d \in C \ Out
    <3>1. PICK i \in 1..n : s[i] = d
      BY <1>1, <1>a, <2>1
    <3>2. i \notin at..(at + r - 1)
      BY <2>1, <1>e, <3>1
    <3>3. CASE i < at
      <4>1. i \in 1..(at - 1) /\ i \in 1..Len(u)
        BY <1>1, <1>a, <1>d, <1>3, <3>3
      <4> QED
        BY <1>3, <3>1, <4>1
    <3>4. CASE i >= at + r
      <4>1. i \in (at + r)..n /\ i - r + m \in 1..Len(u)
        BY <1>1, <1>a, <1>d, <1>3, <3>4
      <4> QED
        BY <1>3, <3>1, <4>1
    <3> QED
      BY <1>1, <1>a, <1>d, <3>2, <3>3, <3>4
  <2>2. CASE d \in {a[k] : k \in 1..m}
    <3>1. m = 1 /\ d = a[1]
      BY <1>d, <2>2
    <3>2. at - 1 + 1 \in 1..Len(u) /\ u[at - 1 + 1] = a[1]
      BY <1>1, <1>a, <1>d, <1>3, <3>1
    <3> QED
      BY <3>1, <3>2
  <2> QED
    BY <1>5, <2>1, <2>2
<1>11. D = {u[k] : k \in 1..Len(u)}
  BY ONLY <1>9, <1>10
<1> QED
  BY <1>3, <1>8, <1>11 DEF u, C, D, Out, Sorted, ElementsOf

LEMMA SpliceKeepsInv ==
  ASSUME PublisherInv, NEW at, NEW r, NEW a,
         PartOf(Descriptions, descriptions, at, r, a), Fits(descriptions, at, r, a),
         descriptions' = Splice(descriptions, at, r, a),
         connected' = (connected \ PartElements(descriptions, at, r)) \cup ElementsOf(a)
  PROVE  PublisherInv'
<1>1. descriptions \in Seq(Descriptions) /\ DOMAIN descriptions = 1..Len(descriptions)
  BY DEF PublisherInv
<1>2. Sorted(descriptions) /\ connected = ElementsOf(descriptions)
  BY <1>1 DEF PublisherInv, ChangedDescriptionsAreFound, RankOf, Sorted, ElementsOf
<1>3. /\ descriptions' \in Seq(Descriptions) /\ Sorted(descriptions')
      /\ ElementsOf(descriptions') = connected'
  BY <1>2, SpliceKeepsOrder
<1>4. DOMAIN descriptions' = 1..Len(descriptions')
  BY <1>3
<1>5. /\ connected' = {descriptions'[i] : i \in DOMAIN descriptions'}
      /\ \A i, j \in DOMAIN descriptions' :
           i < j => RankOf(descriptions'[i]) < RankOf(descriptions'[j])
  BY <1>3, <1>4 DEF Sorted, ElementsOf
<1> QED
  BY <1>3, <1>5 DEF PublisherInv, ChangedDescriptionsAreFound, RankOf

\* The smallest of some positions.
LEMMA SomePositionIsFirst ==
  ASSUME NEW n \in Nat, NEW S \in SUBSET (1..n), S # {}
  PROVE  \E i \in S : \A j \in S : i <= j
<1> DEFINE B == {j \in 1..n : \A i \in S : j < i}
           c == Cardinality(B)
<1>1. c \in 0..n /\ B = 1..c
  <2>1. \A i \in B : \A j \in 1..i : j \in B
    OBVIOUS
  <2>2. B \in SUBSET (1..n)
    OBVIOUS
  <2> HIDE DEF B
  <2> QED
    BY <2>1, <2>2, SegmentIsInterval
<1>2. ASSUME NEW i \in S PROVE c < i
  <2>1. CASE c = 0
    BY <2>1
  <2>2. CASE c \in B
    <3> HIDE DEF c
    <3> QED
      BY <2>2
  <2>3. c = 0 \/ c \in B
    <3> HIDE DEF c, B
    <3> QED
      BY <1>1
  <2> QED
    BY <2>1, <2>2, <2>3
<1>3. c + 1 \in 1..n /\ c + 1 \notin B
  <2> HIDE DEF c, B
  <2>1. PICK i \in S : TRUE
    OBVIOUS
  <2>2. i \in 1..n /\ c < i
    BY <1>2
  <2>3. c + 1 \notin 1..c
    BY <1>1
  <2> QED
    BY <1>1, <2>2, <2>3
<1> HIDE DEF c
<1>4. PICK i \in S : ~(c + 1 < i)
  BY <1>3
<1>5. i = c + 1
  BY <1>1, <1>2, <1>4
<1>6. \A j \in S : i <= j
  BY <1>1, <1>2, <1>5
<1> QED
  BY <1>6

\* Positions without a gap are those from the first to as many as there are.
LEMMA NoGapIsInterval ==
  ASSUME NEW n \in Nat, NEW S \in SUBSET (1..n),
         \A i, j \in S : \A k \in 1..n : i <= k /\ k <= j => k \in S,
         NEW first \in S, \A j \in S : first <= j
  PROVE  /\ Cardinality(S) \in Nat /\ first + Cardinality(S) <= n + 1
         /\ S = first..(first + Cardinality(S) - 1)
<1> DEFINE T == {j \in 1..n : first - 1 + j \in S}
           c == Cardinality(T)
<1>1. first \in Nat /\ first >= 1 /\ first <= n
  OBVIOUS
<1>2. c \in 0..n /\ T = 1..c
  <2>1. \A i \in T : \A j \in 1..i : j \in T
    <3> SUFFICES ASSUME NEW i \in T, NEW j \in 1..i PROVE j \in T
      OBVIOUS
    <3>1. /\ i \in 1..n /\ first - 1 + i \in S /\ first - 1 + i <= n /\ j \in 1..n
          /\ first - 1 + j \in 1..n /\ first <= first - 1 + j /\ first - 1 + j <= first - 1 + i
      BY <1>1
    <3>2. first - 1 + j \in S
      BY <3>1
    <3> QED
      BY <3>1, <3>2
  <2>2. T \in SUBSET (1..n)
    OBVIOUS
  <2> HIDE DEF T
  <2> QED
    BY <2>1, <2>2, SegmentIsInterval
<1>3. S = first..(first + c - 1)
  <2>1. ASSUME NEW i \in S PROVE i \in first..(first + c - 1)
    <3>1. i \in Nat /\ first <= i /\ i <= n
      OBVIOUS
    <3>2. i - first + 1 \in 1..n /\ first - 1 + (i - first + 1) = i
      BY <1>1, <3>1
    <3>3. i - first + 1 \in T
      BY <3>2
    <3> HIDE DEF T, c
    <3> QED
      BY <1>1, <1>2, <3>1, <3>3
  <2>2. ASSUME NEW i \in first..(first + c - 1) PROVE i \in S
    <3> HIDE DEF c
    <3>1. i - first + 1 \in 1..c /\ first - 1 + (i - first + 1) = i
      BY <1>1, <1>2
    <3>2. i - first + 1 \in T
      BY <1>2, <3>1
    <3> QED
      BY <3>1, <3>2
  <2> QED
    BY <2>1, <2>2
<1> HIDE DEF c, T
<1>4. c >= 1
  BY <1>1, <1>2, <1>3
<1>5. Cardinality(S) = c
  <2>1. first \in Int /\ first + c - 1 \in Int /\ ~(first > first + c - 1)
    BY <1>1, <1>2, <1>4
  <2>2. Cardinality(first..(first + c - 1)) = (first + c - 1) - first + 1
    BY <2>1, FS_Interval
  <2> QED
    BY <1>1, <1>2, <1>3, <2>2
<1>6. first + c <= n + 1
  <2>1. first + c - 1 \in S
    BY <1>1, <1>2, <1>3, <1>4
  <2>2. first + c - 1 <= n
    <3>1. first + c - 1 \in 1..n
      BY <2>1
    <3> QED
      BY <1>1, <1>2, <3>1
  <2> QED
    BY <1>1, <1>2, <2>2
<1> QED
  BY <1>2, <1>3, <1>5, <1>6

LEMMA AddKeepsInv ==
  ASSUME PublisherInv, NEW d \in Descriptions, AddDescription(d)
  PROVE  PublisherInv'
<1> DEFINE at == Position(IdOf[d])
           old == IF Has(IdOf[d]) THEN 1 ELSE 0
           n == Len(descriptions)
<1>1. /\ descriptions \in Seq(Descriptions) /\ n \in Nat /\ DOMAIN descriptions = 1..n
      /\ \A i \in 1..n : RankOf(descriptions[i]) \in Nat
      /\ \A i, j \in 1..n : i < j => RankOf(descriptions[i]) < RankOf(descriptions[j])
  <2>1. /\ descriptions \in Seq(Descriptions) /\ n \in Nat /\ DOMAIN descriptions = 1..n
        /\ \A i \in 1..n : descriptions[i] \in Descriptions
    BY DEF PublisherInv
  <2>2. \A i \in 1..n : RankOf(descriptions[i]) \in Nat
    BY <2>1, RankType
  <2> QED
    BY <2>1, <2>2 DEF PublisherInv, ChangedDescriptionsAreFound, RankOf
<1>2. IdOf[d] \in Ids /\ RankOf(d) = Rank[IdOf[d]] /\ RankOf(d) \in Nat
  BY RankType DEF RankOf
<1>3. /\ at \in 1..(n + 1)
      /\ \A i \in 1..n : i < at <=> RankOf(descriptions[i]) < RankOf(d)
      /\ Has(IdOf[d]) => at \in 1..n /\ RankOf(descriptions[at]) = RankOf(d)
      /\ ~Has(IdOf[d]) => \A i \in 1..n : i >= at => RankOf(d) < RankOf(descriptions[i])
  BY <1>1, <1>2, PositionSplits DEF RankOf
<1>4. /\ descriptions' = Splice(descriptions, at, old, <<d>>)
      /\ connected' = (connected \ {descriptions[i] : i \in at..(at + old - 1)}) \cup {d}
  BY DEF AddDescription
<1> HIDE DEF at, n
<1>5. PartOf(Descriptions, descriptions, at, old, <<d>>)
  <2>1. <<d>> \in Seq(Descriptions)
    OBVIOUS
  <2>2. at \in Nat /\ at >= 1 /\ old \in Nat /\ at + old <= n + 1
    BY <1>1, <1>3
  <2> QED
    BY <1>1, <2>1, <2>2 DEF PartOf, n
<1>6. ASSUME NEW i \in 1..(at - 1) PROVE RankOf(descriptions[i]) < RankOf(d)
  <2>1. i \in 1..n /\ i < at
    BY <1>1, <1>3
  <2> QED
    BY <1>3, <2>1
<1>7. ASSUME NEW i \in (at + old)..n PROVE RankOf(d) < RankOf(descriptions[i])
  <2>1. CASE Has(IdOf[d])
    <3>1. at \in 1..n /\ i \in 1..n /\ at < i
      BY <1>1, <1>3, <2>1
    <3> QED
      BY <1>1, <1>3, <2>1, <3>1
  <2>2. CASE ~Has(IdOf[d])
    <3>1. i \in 1..n /\ i >= at
      BY <1>1, <1>3, <2>2
    <3> QED
      BY <1>3, <2>2, <3>1
  <2> QED
    BY <2>1, <2>2
<1>8. Len(<<d>>) = 1 /\ \A k \in 1..1 : <<d>>[k] = d
  OBVIOUS
<1>9. Fits(descriptions, at, old, <<d>>)
  BY <1>6, <1>7, <1>8 DEF Fits, n
<1>10. ElementsOf(<<d>>) = {d}
  BY <1>8 DEF ElementsOf
<1>11. connected' = (connected \ PartElements(descriptions, at, old)) \cup ElementsOf(<<d>>)
  BY <1>4, <1>10 DEF PartElements
<1> HIDE DEF old
<1> QED
  BY <1>4, <1>5, <1>9, <1>11, SpliceKeepsInv

\* Nothing in the place of a part.
LEMMA CutKeepsInv ==
  ASSUME PublisherInv, NEW at, NEW r,
         at \in Nat /\ r \in Nat /\ at >= 1 /\ at + r <= Len(descriptions) + 1,
         descriptions' = Splice(descriptions, at, r, <<>>),
         connected' = connected \ PartElements(descriptions, at, r)
  PROVE  PublisherInv'
<1>1. Len(<<>>) = 0 /\ <<>> \in Seq(Descriptions)
  OBVIOUS
<1>2. PartOf(Descriptions, descriptions, at, r, <<>>)
  BY <1>1 DEF PartOf, PublisherInv
<1>3. Fits(descriptions, at, r, <<>>)
  BY <1>1 DEF Fits
<1>4. ElementsOf(<<>>) = {}
  BY <1>1 DEF ElementsOf
<1>5. connected' = (connected \ PartElements(descriptions, at, r)) \cup ElementsOf(<<>>)
  BY <1>4
<1> QED
  BY <1>2, <1>3, <1>5, SpliceKeepsInv

LEMMA RemoveKeepsInv ==
  ASSUME PublisherInv, NEW id \in Ids, RemoveDescription(id)
  PROVE  PublisherInv'
<1> DEFINE at == Position(id)
<1>1. /\ descriptions' = Splice(descriptions, at, 1, <<>>)
      /\ connected' = connected \ {descriptions[at]}
      /\ Has(id)
  BY DEF RemoveDescription
<1>2. at \in 1..Len(descriptions)
  <2>1. DOMAIN descriptions = 1..Len(descriptions)
    BY DEF PublisherInv
  <2> QED
    BY <1>1, <2>1, PositionSplits
<1> HIDE DEF at
<1>3. at \in Nat /\ 1 \in Nat /\ at >= 1 /\ at + 1 <= Len(descriptions) + 1
  <2>1. Len(descriptions) \in Nat
    BY DEF PublisherInv
  <2> QED
    BY <1>2, <2>1
<1>4. PartElements(descriptions, at, 1) = {descriptions[at]}
  <2>1. at..(at + 1 - 1) = {at}
    BY <1>3
  <2> QED
    BY <2>1 DEF PartElements
<1> QED
  BY <1>1, <1>3, <1>4, CutKeepsInv

\* The positions g_sequence_remove_range takes out, and the first of them.
PositionsOf(name) == {i \in DOMAIN descriptions : IdOf[descriptions[i]] \in RangeOf[name]}
FirstOf(name) == CHOOSE i \in PositionsOf(name) : \A j \in PositionsOf(name) : i <= j

\* They are one part of the sequence.
LEMMA RemovedIsPart ==
  ASSUME PublisherInv, NEW name \in Names, PositionsOf(name) # {}
  PROVE  /\ FirstOf(name) \in Nat /\ Cardinality(PositionsOf(name)) \in Nat
         /\ FirstOf(name) >= 1
         /\ FirstOf(name) + Cardinality(PositionsOf(name)) <= Len(descriptions) + 1
         /\ PositionsOf(name) = FirstOf(name)..(FirstOf(name) + Cardinality(PositionsOf(name)) - 1)
<1> DEFINE n == Len(descriptions)
           out == PositionsOf(name)
           start == FirstOf(name)
           c == Cardinality(out)
<1>1. /\ descriptions \in Seq(Descriptions) /\ n \in Nat /\ DOMAIN descriptions = 1..n
      /\ \A i \in 1..n : descriptions[i] \in Descriptions
  BY DEF PublisherInv
<1>2. \A i, j \in 1..n : i < j => RankOf(descriptions[i]) < RankOf(descriptions[j])
  BY <1>1 DEF PublisherInv, ChangedDescriptionsAreFound, RankOf
<1>4. out \in SUBSET (1..n)
  BY <1>1 DEF PositionsOf
<1>5. ASSUME NEW i \in out, NEW j \in out, NEW k \in 1..n, i <= k, k <= j
      PROVE  k \in out
  <2>1. /\ i \in 1..n /\ j \in 1..n
        /\ IdOf[descriptions[i]] \in RangeOf[name] /\ IdOf[descriptions[j]] \in RangeOf[name]
    BY <1>1, <1>5 DEF PositionsOf
  <2>2. /\ descriptions[i] \in Descriptions /\ descriptions[j] \in Descriptions
        /\ descriptions[k] \in Descriptions
    BY <1>1, <2>1
  <2>3. /\ RankOf(descriptions[i]) <= RankOf(descriptions[k])
        /\ RankOf(descriptions[k]) <= RankOf(descriptions[j])
    <3>1. /\ RankOf(descriptions[i]) \in Nat /\ RankOf(descriptions[k]) \in Nat
          /\ RankOf(descriptions[j]) \in Nat
      BY <2>2, RankType
    <3>2. (i < k \/ i = k) /\ (k < j \/ k = j)
      BY <1>5, <2>1
    <3> QED
      BY <1>2, <2>1, <3>1, <3>2
  <2>4. IdOf[descriptions[k]] \in RangeOf[name]
    <3>1. IdOf[descriptions[k]] \in Ids
      BY <2>2
    <3> QED
      BY <2>1, <2>3, <3>1 DEF RankOf
  <2> QED
    BY <1>1, <2>4 DEF PositionsOf
<1>6. start \in out /\ \A j \in out : start <= j
  <2>1. \E i \in out : \A j \in out : i <= j
    <3> HIDE DEF n
    <3> QED
      BY <1>1, <1>4, SomePositionIsFirst
  <2> QED
    BY <2>1 DEF FirstOf
<1> HIDE DEF n, out, start
<1>7. /\ c \in Nat /\ start + c <= n + 1
      /\ out = start..(start + c - 1)
  BY <1>1, <1>4, <1>5, <1>6, NoGapIsInterval
<1> HIDE DEF c
<1>8. start \in Nat /\ c \in Nat /\ start >= 1 /\ start + c <= n + 1
  BY <1>4, <1>6, <1>7
<1> QED
  BY <1>7, <1>8 DEF n, c, out, start

LEMMA RemoveAllKeepsInv ==
  ASSUME PublisherInv, NEW name \in Names, RemoveDescriptions(name)
  PROVE  PublisherInv'
<1> DEFINE out == PositionsOf(name)
           start == FirstOf(name)
           c == Cardinality(out)
<1>1. /\ descriptions' = Splice(descriptions, start, c, <<>>)
      /\ connected' = connected \ {descriptions[i] : i \in out}
      /\ out # {}
  BY DEF RemoveDescriptions, PositionsOf, FirstOf
<1>2. /\ start \in Nat /\ c \in Nat /\ start >= 1 /\ start + c <= Len(descriptions) + 1
      /\ out = start..(start + c - 1)
  BY <1>1, RemovedIsPart
<1> HIDE DEF out, start, c
<1>3. connected' = connected \ PartElements(descriptions, start, c)
  BY <1>1, <1>2 DEF PartElements
<1> QED
  BY <1>1, <1>2, <1>3, CutKeepsInv

-----------------------------------------------------------------------------
LEMMA InitInv == ImportInit => PublisherInv
<1> SUFFICES ASSUME ImportInit PROVE PublisherInv
  OBVIOUS
<1>1. descriptions = <<>> /\ connected = {}
  BY DEF ImportInit, Init
<1>2. DOMAIN descriptions = {} /\ descriptions \in Seq(Descriptions)
  BY <1>1
<1> QED
  BY <1>1, <1>2 DEF PublisherInv, ChangedDescriptionsAreFound

LEMMA NextInv == PublisherInv /\ [ImportNext]_allVars => PublisherInv'
<1> SUFFICES ASSUME PublisherInv, [ImportNext]_allVars PROVE PublisherInv'
  OBVIOUS
<1>1. ASSUME UNCHANGED <<descriptions, connected>> PROVE PublisherInv'
  BY <1>1 DEF PublisherInv, ChangedDescriptionsAreFound
<1>2. CASE Publish
  <2>1. ASSUME NEW d \in Descriptions, AddDescription(d) PROVE PublisherInv'
    BY <2>1, AddKeepsInv
  <2>2. ASSUME NEW d \in Descriptions, ChangeDescription(d, linked) PROVE PublisherInv'
    BY <1>1, <2>2 DEF ChangeDescription
  <2>3. ASSUME NEW d \in Parametric, SetParameterized(d) PROVE PublisherInv'
    BY <1>1, <2>3 DEF SetParameterized, ChangeDescription
  <2>4. ASSUME NEW id \in Ids, RemoveDescription(id) PROVE PublisherInv'
    BY <2>4, RemoveKeepsInv
  <2>5. ASSUME NEW n \in Names, RemoveDescriptions(n) PROVE PublisherInv'
    BY <2>5, RemoveAllKeepsInv
  <2> QED
    BY <1>2, <2>1, <2>2, <2>3, <2>4, <2>5 DEF Publish
<1>3. CASE Subscribe
  BY <1>1, <1>3 DEF Subscribe, publisherVars
<1>4. CASE Import
  BY <1>1, <1>4 DEF Import, vars, publisherVars
<1>5. CASE HandleItemsChanged \/ HandleIllegalChange \/ HandleNothing
  BY <1>1, <1>5 DEF HandleItemsChanged, HandleIllegalChange, HandleNothing, publisherVars
<1>6. CASE ServiceUnregistered
  BY <1>1, <1>6 DEF ServiceUnregistered, vars, publisherVars
<1>7. CASE ActionGroup
  BY <1>1, <1>7 DEF ActionGroup, ActionAdded, ActionRemoved, ActionEnabled, vars, publisherVars
<1>8. CASE UNCHANGED allVars
  BY <1>1, <1>8 DEF allVars, vars, publisherVars
<1> QED
  BY <1>2, <1>3, <1>4, <1>5, <1>6, <1>7, <1>8 DEF ImportNext, Application

\* Whatever descriptions are added, replaced, removed and changed, in any order and
\* whoever listens, description_changed finds what changed at its place: its assertion
\* (action-publisher.c:377) never fails.
THEOREM DescriptionsAreFound == ImportSpec => []ChangedDescriptionsAreFound
<1>1. PublisherInv => ChangedDescriptionsAreFound
  BY DEF PublisherInv
<1> QED
  BY <1>1, InitInv, NextInv, PTL DEF ImportSpec

-----------------------------------------------------------------------------
(* The changes on their way lead from the items of the proxy to those of   *)
(* the publisher.                                                          *)

ItemsOf(s, links) == [i \in DOMAIN s |-> Item(s[i], links)]

LEMMA ItemsAre == Items = ItemsOf(descriptions, linked) /\ Items' = ItemsOf(descriptions', linked')
BY DEF Items, ItemsOf

LEMMA ItemType ==
  ASSUME NEW d \in Descriptions, NEW links
  PROVE  Item(d, links) \in Item_
BY DEF Item, Item_

LEMMA ItemsOfType ==
  ASSUME NEW s \in Seq(Descriptions), NEW links
  PROVE  /\ ItemsOf(s, links) \in Seq(Item_) /\ Len(ItemsOf(s, links)) = Len(s)
         /\ \A i \in 1..Len(s) : ItemsOf(s, links)[i] = Item(s[i], links)
<1>1. DOMAIN s = 1..Len(s) /\ Len(s) \in Nat /\ \A i \in 1..Len(s) : s[i] \in Descriptions
  OBVIOUS
<1>2. \A i \in 1..Len(s) : Item(s[i], links) \in Item_
  BY <1>1, ItemType
<1>3. ItemsOf(s, links) = [i \in 1..Len(s) |-> Item(s[i], links)]
  BY <1>1 DEF ItemsOf
<1>4. [i \in 1..Len(s) |-> Item(s[i], links)] \in Seq(Item_)
  BY <1>1, <1>2
<1> QED
  BY <1>1, <1>3, <1>4

\* The items of a sequence in which a part is replaced.
LEMMA SpliceItems ==
  ASSUME NEW s, NEW at, NEW r, NEW a, PartOf(Descriptions, s, at, r, a), NEW links
  PROVE  /\ PartOf(Item_, ItemsOf(s, links), at, r, ItemsOf(a, links))
         /\ ItemsOf(Splice(s, at, r, a), links)
              = Splice(ItemsOf(s, links), at, r, ItemsOf(a, links))
         /\ [i \in 1..Len(a) |-> ItemsOf(Splice(s, at, r, a), links)[at + i - 1]]
              = ItemsOf(a, links)
<1> DEFINE f == [d \in Descriptions |-> Item(d, links)]
           S == ItemsOf(s, links)
           A == ItemsOf(a, links)
           U == ItemsOf(Splice(s, at, r, a), links)
<1>1. f \in [Descriptions -> Item_]
  BY ItemType
<1>2. ASSUME NEW t \in Seq(Descriptions) PROVE Mapped(f, t) = ItemsOf(t, links)
  <2>1. \A i \in DOMAIN t : f[t[i]] = Item(t[i], links)
    OBVIOUS
  <2> QED
    BY <2>1 DEF Mapped, ItemsOf
<1>3. s \in Seq(Descriptions) /\ a \in Seq(Descriptions) /\ Splice(s, at, r, a) \in Seq(Descriptions)
  BY SpliceElements DEF PartOf, Replaced
<1>4. PartOf(Item_, S, at, r, A) /\ U = Splice(S, at, r, A) /\ Len(A) = Len(a)
  <2>1. /\ PartOf(Item_, Mapped(f, s), at, r, Mapped(f, a))
        /\ Mapped(f, Splice(s, at, r, a)) = Splice(Mapped(f, s), at, r, Mapped(f, a))
    BY <1>1, MapSplice
  <2>2. Len(A) = Len(a)
    BY <1>3, ItemsOfType
  <2> HIDE DEF f
  <2> QED
    BY <1>2, <1>3, <2>1, <2>2
<1> HIDE DEF S, A, U
<1>5. Replaced(Item_, U, S, at, r, A)
  BY <1>4, SpliceElements
<1>6. [i \in 1..Len(a) |-> U[at + i - 1]] = A
  <2>1. ASSUME NEW i \in 1..Len(a) PROVE U[at + i - 1] = A[i]
    <3>1. at + i - 1 = at - 1 + i
      BY DEF PartOf
    <3> QED
      BY <1>4, <1>5, <3>1 DEF Replaced
  <2>2. A = [i \in 1..Len(a) |-> A[i]]
    BY <1>4 DEF PartOf
  <2> QED
    BY <2>1, <2>2
<1> QED
  BY <1>4, <1>6 DEF U, S, A

\* A change of s, and s after it.
IsChangeOf(s, x) == x \in Signals_ /\ PartOf(Item_, s, x.at, x.removed, x.added)
After(s, x) == Splice(s, x.at, x.removed, x.added)

\* What a step of the publisher does to its items, and announces.
Announces ==
  /\ subscribed' = subscribed
  /\ \/ Items' = Items /\ signals' = signals
     \/ \E x \in Signals_ :
          /\ IsChangeOf(Items, x) /\ Items' = After(Items, x)
          /\ signals' = IF subscribed THEN Append(signals, x) ELSE signals

LEMMA SpliceAnnounces ==
  ASSUME NEW at, NEW r, NEW a, PartOf(Descriptions, descriptions, at, r, a),
         descriptions' = Splice(descriptions, at, r, a),
         linked' = linked, subscribed' = subscribed, ItemsChanged(at, r, Len(a))
  PROVE  Announces
<1> DEFINE A == ItemsOf(a, linked)
           x == [at |-> at, removed |-> r, added |-> A]
<1>1. /\ PartOf(Item_, Items, at, r, A)
      /\ Items' = Splice(Items, at, r, A)
      /\ [i \in 1..Len(a) |-> Items'[at + i - 1]] = A
  BY ItemsAre, SpliceItems
<1>2. x \in Signals_
  BY <1>1 DEF PartOf, Signals_
<1>3. signals' = IF subscribed THEN Append(signals, x) ELSE signals
  BY <1>1 DEF ItemsChanged
<1> HIDE DEF A
<1>4. x.at = at /\ x.removed = r /\ x.added = A
  OBVIOUS
<1> HIDE DEF x
<1>5. IsChangeOf(Items, x) /\ Items' = After(Items, x)
  BY <1>1, <1>2, <1>4 DEF IsChangeOf, After
<1> QED
  BY <1>2, <1>3, <1>5 DEF Announces

\* Where the description with an identifier is, or would be.
LEMMA PlaceOf ==
  ASSUME PublisherInv, NEW id \in Ids
  PROVE  /\ Position(id) \in 1..(Len(descriptions) + 1)
         /\ Has(id) => Position(id) \in 1..Len(descriptions)
<1>1. DOMAIN descriptions = 1..Len(descriptions)
  BY DEF PublisherInv
<1> QED
  BY <1>1, PositionSplits

LEMMA AddAnnounces ==
  ASSUME PublisherInv, NEW d \in Descriptions, AddDescription(d)
  PROVE  Announces
<1> DEFINE at == Position(IdOf[d])
           old == IF Has(IdOf[d]) THEN 1 ELSE 0
<1>1. /\ descriptions' = Splice(descriptions, at, old, <<d>>)
      /\ linked' = linked /\ subscribed' = subscribed
      /\ ItemsChanged(at, old, 1)
  BY DEF AddDescription
<1>2. /\ descriptions \in Seq(Descriptions) /\ Len(descriptions) \in Nat
      /\ IdOf[d] \in Ids
  BY DEF PublisherInv
<1>3. at \in 1..(Len(descriptions) + 1) /\ (Has(IdOf[d]) => at \in 1..Len(descriptions))
  BY <1>2, PlaceOf
<1> HIDE DEF at
<1>4. PartOf(Descriptions, descriptions, at, old, <<d>>)
  BY <1>2, <1>3 DEF PartOf
<1>5. Len(<<d>>) = 1
  OBVIOUS
<1> HIDE DEF old
<1> QED
  BY <1>1, <1>4, <1>5, SpliceAnnounces

\* Nothing in the place of a part.
LEMMA CutAnnounces ==
  ASSUME PublisherInv, NEW at, NEW r,
         at \in Nat /\ r \in Nat /\ at >= 1 /\ at + r <= Len(descriptions) + 1,
         descriptions' = Splice(descriptions, at, r, <<>>),
         linked' = linked, subscribed' = subscribed, ItemsChanged(at, r, 0)
  PROVE  Announces
<1>1. Len(<<>>) = 0 /\ <<>> \in Seq(Descriptions)
  OBVIOUS
<1>2. PartOf(Descriptions, descriptions, at, r, <<>>)
  BY <1>1 DEF PartOf, PublisherInv
<1> QED
  BY <1>1, <1>2, SpliceAnnounces

LEMMA RemoveAnnounces ==
  ASSUME PublisherInv, NEW id \in Ids, RemoveDescription(id)
  PROVE  Announces
<1> DEFINE at == Position(id)
<1>1. /\ descriptions' = Splice(descriptions, at, 1, <<>>)
      /\ linked' = linked /\ subscribed' = subscribed
      /\ ItemsChanged(at, 1, 0) /\ Has(id)
  BY DEF RemoveDescription
<1>2. Len(descriptions) \in Nat
  BY DEF PublisherInv
<1>3. at \in 1..Len(descriptions)
  BY <1>1, PlaceOf
<1> HIDE DEF at
<1>4. at \in Nat /\ 1 \in Nat /\ at >= 1 /\ at + 1 <= Len(descriptions) + 1
  BY <1>2, <1>3
<1> QED
  BY <1>1, <1>4, CutAnnounces

LEMMA RemoveAllAnnounces ==
  ASSUME PublisherInv, NEW name \in Names, RemoveDescriptions(name)
  PROVE  Announces
<1> DEFINE out == PositionsOf(name)
           start == FirstOf(name)
           c == Cardinality(out)
<1>1. /\ descriptions' = Splice(descriptions, start, c, <<>>)
      /\ linked' = linked /\ subscribed' = subscribed
      /\ ItemsChanged(start, c, 0)
      /\ out # {}
  BY DEF RemoveDescriptions, PositionsOf, FirstOf
<1>2. start \in Nat /\ c \in Nat /\ start >= 1 /\ start + c <= Len(descriptions) + 1
  BY <1>1, RemovedIsPart
<1> HIDE DEF out, start, c
<1> QED
  BY <1>1, <1>2, CutAnnounces

\* A description that is not published has no item, and another item does not change.
LEMMA ChangeAnnounces ==
  ASSUME PublisherInv, NEW d \in Descriptions, NEW links,
         \A e \in Descriptions : e # d => (e \in links <=> e \in linked),
         ChangeDescription(d, links)
  PROVE  Announces
<1> DEFINE at == Position(IdOf[d])
           n == Len(descriptions)
<1>1. /\ descriptions' = descriptions /\ linked' = links /\ subscribed' = subscribed
      /\ IF d \in connected THEN ItemsChanged(at, 1, 1) ELSE signals' = signals
  BY DEF ChangeDescription, DescriptionChanged
<1>2. /\ descriptions \in Seq(Descriptions) /\ n \in Nat /\ DOMAIN descriptions = 1..n
      /\ \A i \in 1..n : descriptions[i] \in Descriptions
      /\ IdOf[d] \in Ids
  BY DEF PublisherInv
<1>3. /\ Items = ItemsOf(descriptions, linked) /\ Items' = ItemsOf(descriptions, links)
  BY <1>1, ItemsAre
<1>4. /\ Items \in Seq(Item_) /\ Items' \in Seq(Item_) /\ Len(Items) = n /\ Len(Items') = n
      /\ \A i \in 1..n : /\ Items[i] = Item(descriptions[i], linked)
                         /\ Items'[i] = Item(descriptions[i], links)
  BY <1>2, <1>3, ItemsOfType
<1>5. ASSUME NEW i \in 1..n, descriptions[i] # d PROVE Items'[i] = Items[i]
  <2>1. (descriptions[i] \in links) = (descriptions[i] \in linked)
    BY <1>2, <1>5
  <2>2. Item(descriptions[i], links) = Item(descriptions[i], linked)
    BY <2>1 DEF Item
  <2> QED
    BY <1>4, <2>2
<1>6. CASE d \notin connected
  <2>1. \A i \in 1..n : descriptions[i] # d
    BY <1>2, <1>6 DEF PublisherInv, ChangedDescriptionsAreFound
  <2>2. Items' = Items
    BY <1>4, <1>5, <2>1
  <2> QED
    BY <1>1, <1>6, <2>2 DEF Announces
<1>7. CASE d \in connected
  <2>1. PICK k \in 1..n : descriptions[k] = d
    BY <1>2, <1>7 DEF PublisherInv, ChangedDescriptionsAreFound
  <2>2. Has(IdOf[d])
    BY <1>2, <2>1 DEF Has
  <2>3. at \in 1..n /\ IdOf[descriptions[at]] = IdOf[d]
    BY <1>2, <2>2, PositionSplits
  <2>4. ASSUME NEW i \in 1..n, i # at PROVE descriptions[i] # d
    <3>1. RankOf(descriptions[i]) # RankOf(descriptions[at])
      <4>1. /\ descriptions[i] \in Descriptions /\ descriptions[at] \in Descriptions
            /\ (i < at \/ at < i)
        BY <1>2, <2>3, <2>4
      <4>2. \A j, l \in 1..n : j < l => RankOf(descriptions[j]) < RankOf(descriptions[l])
        BY <1>2 DEF PublisherInv, ChangedDescriptionsAreFound, RankOf
      <4>3. RankOf(descriptions[i]) \in Nat /\ RankOf(descriptions[at]) \in Nat
        BY <4>1, RankType
      <4> HIDE DEF at
      <4> QED
        BY <2>3, <4>1, <4>2, <4>3
    <3> QED
      BY <2>3, <3>1 DEF RankOf
  <2> HIDE DEF at, n
  <2> DEFINE x == [at |-> at, removed |-> 1, added |-> [i \in 1..1 |-> Items'[at + i - 1]]]
             a == [i \in 1..1 |-> Items'[at + i - 1]]
  <2>5. /\ at \in Nat /\ at >= 1 /\ at + 1 <= Len(Items) + 1
        /\ \A i \in 1..1 : Items'[at + i - 1] \in Item_
    BY <1>2, <1>4, <2>3
  <2>6. a \in Seq(Item_) /\ Len(a) = 1 /\ a[1] = Items'[at]
    <3>1. at + 1 - 1 = at
      BY <2>5
    <3> QED
      BY <2>5, <3>1
  <2> HIDE DEF a
  <2>7. x \in Signals_ /\ x.at = at /\ x.removed = 1 /\ x.added = a
    BY <2>5, <2>6 DEF Signals_, a
  <2>8. signals' = IF subscribed THEN Append(signals, x) ELSE signals
    BY <1>1, <1>7 DEF ItemsChanged
  <2> HIDE DEF x
  <2>9. PartOf(Item_, Items, at, 1, a)
    BY <1>4, <2>5, <2>6 DEF PartOf
  <2>10. Replaced(Item_, Items', Items, at, 1, a)
    <3>1. ASSUME NEW i \in 1..(at - 1) PROVE Items'[i] = Items[i]
      <4>1. i \in 1..n /\ i # at
        BY <1>2, <2>3
      <4> QED
        BY <1>5, <2>4, <4>1
    <3>2. ASSUME NEW i \in 1..Len(a) PROVE Items'[at - 1 + i] = a[i]
      <4>1. i = 1 /\ at - 1 + i = at
        BY <2>5, <2>6
      <4> QED
        BY <2>6, <4>1
    <3>3. ASSUME NEW i \in (at + 1)..Len(Items) PROVE Items'[i - 1 + Len(a)] = Items[i]
      <4>1. i \in 1..n /\ i # at /\ i - 1 + Len(a) = i
        BY <1>2, <1>4, <2>3, <2>6
      <4> QED
        BY <1>5, <2>4, <4>1
    <3>4. Items' \in Seq(Item_) /\ Len(Items') = Len(Items) - 1 + Len(a)
      BY <1>2, <1>4, <2>6
    <3> QED
      BY <3>1, <3>2, <3>3, <3>4 DEF Replaced
  <2>11. IsChangeOf(Items, x) /\ Items' = After(Items, x)
    BY <2>7, <2>9, <2>10, ReplacedIsSplice DEF IsChangeOf, After
  <2> QED
    BY <1>1, <2>7, <2>8, <2>11 DEF Announces
<1> QED
  BY <1>6, <1>7

\* Every change of the publisher's items is announced, as what it is, to who listens.
LEMMA PublishAnnounces ==
  ASSUME PublisherInv, Publish
  PROVE  Announces
<1>1. ASSUME NEW d \in Descriptions, AddDescription(d) PROVE Announces
  BY <1>1, AddAnnounces
<1>2. ASSUME NEW d \in Descriptions, ChangeDescription(d, linked) PROVE Announces
  BY <1>2, ChangeAnnounces
<1>3. ASSUME NEW d \in Parametric, SetParameterized(d) PROVE Announces
  <2>1. d \in Descriptions
    OBVIOUS
  <2>2. CASE ChangeDescription(d, linked \cup {d})
    BY <2>1, <2>2, ChangeAnnounces
  <2>3. CASE ChangeDescription(d, linked \ {d})
    BY <2>1, <2>3, ChangeAnnounces
  <2> QED
    BY <1>3, <2>2, <2>3 DEF SetParameterized
<1>4. ASSUME NEW id \in Ids, RemoveDescription(id) PROVE Announces
  BY <1>4, RemoveAnnounces
<1>5. ASSUME NEW n \in Names, RemoveDescriptions(n) PROVE Announces
  BY <1>5, RemoveAllAnnounces
<1> QED
  BY <1>1, <1>2, <1>3, <1>4, <1>5 DEF Publish

\* The sequences of items on the way from the first to the last, by these changes.
Chain(c, first, changes, last) ==
  /\ c \in Seq(Seq(Item_)) /\ Len(c) = Len(changes) + 1
  /\ c[1] = first /\ c[Len(changes) + 1] = last
  /\ \A i \in 1..Len(changes) :
       IsChangeOf(c[i], changes[i]) /\ c[i + 1] = After(c[i], changes[i])

LEMMA AfterType ==
  ASSUME NEW s, NEW x, IsChangeOf(s, x)
  PROVE  s \in Seq(Item_) /\ Replaced(Item_, After(s, x), s, x.at, x.removed, x.added)
BY SpliceElements DEF IsChangeOf, After, PartOf

\* One more change at the end.
LEMMA ChainAppend ==
  ASSUME NEW c, NEW first, NEW changes \in Seq(Signals_), NEW last,
         Chain(c, first, changes, last), NEW x, IsChangeOf(last, x)
  PROVE  Chain(Append(c, After(last, x)), first, Append(changes, x), After(last, x))
<1> DEFINE n == Len(changes)
           z == After(last, x)
           C == Append(c, z)
           Q == Append(changes, x)
<1>1. n \in Nat /\ x \in Signals_ /\ z \in Seq(Item_)
  BY AfterType DEF IsChangeOf, Replaced
<1>2. /\ c \in Seq(Seq(Item_)) /\ Len(c) = n + 1 /\ c[1] = first /\ c[n + 1] = last
      /\ \A i \in 1..n : IsChangeOf(c[i], changes[i]) /\ c[i + 1] = After(c[i], changes[i])
  BY DEF Chain
<1> HIDE DEF z, n
<1>3. /\ C \in Seq(Seq(Item_)) /\ Len(C) = n + 2 /\ C[n + 2] = z
      /\ \A i \in 1..(n + 1) : C[i] = c[i]
  <2>1. /\ C \in Seq(Seq(Item_)) /\ Len(C) = Len(c) + 1 /\ C[Len(c) + 1] = z
        /\ \A i \in 1..Len(c) : C[i] = c[i]
    BY <1>1, <1>2, AppendProperties
  <2> HIDE DEF C
  <2> QED
    BY <1>1, <1>2, <2>1
<1>4. /\ Q \in Seq(Signals_) /\ Len(Q) = n + 1 /\ Q[n + 1] = x
      /\ \A i \in 1..n : Q[i] = changes[i]
  BY <1>1, AppendProperties DEF n
<1> HIDE DEF C, Q
<1>5. ASSUME NEW i \in 1..(n + 1)
      PROVE  IsChangeOf(C[i], Q[i]) /\ C[i + 1] = After(C[i], Q[i])
  <2>1. CASE i \in 1..n
    <3>1. i \in 1..(n + 1) /\ i + 1 \in 1..(n + 1)
      BY <1>1, <2>1
    <3>2. C[i] = c[i] /\ C[i + 1] = c[i + 1] /\ Q[i] = changes[i]
      BY <1>3, <1>4, <2>1, <3>1
    <3> QED
      BY <1>2, <2>1, <3>2
  <2>2. CASE i = n + 1
    <3>1. C[i] = last /\ C[i + 1] = z /\ Q[i] = x
      <4>1. i \in 1..(n + 1) /\ i + 1 = n + 2
        BY <1>1, <2>2
      <4> QED
        BY <1>2, <1>3, <1>4, <2>2, <4>1
    <3> QED
      BY <3>1 DEF z
  <2> QED
    BY <1>1, <2>1, <2>2
<1>6. C[1] = first
  <2>1. 1 \in 1..(n + 1)
    BY <1>1
  <2> QED
    BY <1>2, <1>3, <2>1
<1>7. Chain(C, first, Q, z)
  <2>1. Len(C) = Len(Q) + 1 /\ C[Len(Q) + 1] = z
    <3>1. (n + 1) + 1 = n + 2
      BY <1>1
    <3> QED
      BY <1>3, <1>4, <3>1
  <2> QED
    BY <1>3, <1>4, <1>5, <1>6, <2>1 DEF Chain
<1> QED
  BY <1>7 DEF C, Q, z

\* The first change is one of the first items, and the others lead on from there.
LEMMA ChainTail ==
  ASSUME NEW c, NEW first, NEW changes \in Seq(Signals_), NEW last,
         Chain(c, first, changes, last), changes # <<>>
  PROVE  /\ IsChangeOf(first, Head(changes))
         /\ Chain(Tail(c), After(first, Head(changes)), Tail(changes), last)
<1> DEFINE n == Len(changes)
           C == Tail(c)
           Q == Tail(changes)
<1>1. n \in Nat /\ n >= 1 /\ Head(changes) = changes[1]
  OBVIOUS
<1>2. /\ c \in Seq(Seq(Item_)) /\ Len(c) = n + 1 /\ c[1] = first /\ c[n + 1] = last
      /\ \A i \in 1..n : IsChangeOf(c[i], changes[i]) /\ c[i + 1] = After(c[i], changes[i])
  BY DEF Chain
<1>3. /\ Q \in Seq(Signals_) /\ Len(Q) = n - 1 /\ \A i \in 1..(n - 1) : Q[i] = changes[i + 1]
  BY HeadTailProperties
<1> HIDE DEF n
<1>4. /\ C \in Seq(Seq(Item_)) /\ Len(C) = n /\ \A i \in 1..n : C[i] = c[i + 1]
  <2>1. c # <<>>
    BY <1>1, <1>2
  <2>2. /\ C \in Seq(Seq(Item_)) /\ Len(C) = Len(c) - 1
        /\ \A i \in 1..Len(C) : C[i] = c[i + 1]
    BY <1>2, <2>1, HeadTailProperties
  <2> HIDE DEF C
  <2> QED
    BY <1>1, <1>2, <2>2
<1> HIDE DEF C, Q
<1>5. IsChangeOf(first, Head(changes)) /\ C[1] = After(first, Head(changes))
  <2>1. 1 \in 1..n
    BY <1>1
  <2>2. C[1] = c[1 + 1]
    BY <1>4, <2>1
  <2> QED
    BY <1>1, <1>2, <2>1, <2>2
<1>6. C[Len(Q) + 1] = last /\ Len(C) = Len(Q) + 1
  <2>1. n \in 1..n /\ (n - 1) + 1 = n
    BY <1>1
  <2>2. C[n] = c[n + 1]
    BY <1>4, <2>1
  <2> QED
    BY <1>2, <1>3, <1>4, <2>1, <2>2
<1>7. ASSUME NEW i \in 1..Len(Q)
      PROVE  IsChangeOf(C[i], Q[i]) /\ C[i + 1] = After(C[i], Q[i])
  <2>1. i \in 1..(n - 1) /\ i \in 1..n /\ i + 1 \in 1..n
    BY <1>1, <1>3
  <2>2. C[i] = c[i + 1] /\ C[i + 1] = c[(i + 1) + 1] /\ Q[i] = changes[i + 1]
    BY <1>3, <1>4, <2>1
  <2> QED
    BY <1>2, <2>1, <2>2
<1>8. Chain(C, After(first, Head(changes)), Q, last)
  BY <1>4, <1>5, <1>6, <1>7 DEF Chain
<1> QED
  BY <1>5, <1>8 DEF C, Q

\* Nothing on the way.
LEMMA EmptyChain ==
  ASSUME NEW c, NEW first, NEW last, Chain(c, first, <<>>, last)
  PROVE  first = last
BY DEF Chain

\* One change on the way.
LEMMA OneChange ==
  ASSUME NEW s, NEW x, IsChangeOf(s, x)
  PROVE  Chain(<<s, After(s, x)>>, s, <<x>>, After(s, x))
<1>1. s \in Seq(Item_) /\ After(s, x) \in Seq(Item_)
  BY AfterType DEF Replaced
<1> DEFINE z == After(s, x)
<1> HIDE DEF z
<1>2. /\ <<s, z>> \in Seq(Seq(Item_)) /\ Len(<<s, z>>) = 2 /\ Len(<<x>>) = 1
      /\ <<s, z>>[1] = s /\ <<s, z>>[2] = z /\ <<x>>[1] = x
  BY <1>1 DEF z
<1>3. ASSUME NEW i \in 1..1
      PROVE  IsChangeOf(<<s, z>>[i], <<x>>[i]) /\ <<s, z>>[i + 1] = After(<<s, z>>[i], <<x>>[i])
  <2>1. i = 1 /\ i + 1 = 2
    OBVIOUS
  <2> QED
    BY <1>2, <2>1 DEF z
<1>4. Chain(<<s, z>>, s, <<x>>, z)
  BY <1>2, <1>3 DEF Chain
<1> QED
  BY <1>4 DEF z

\* A change of nothing.
LEMMA NoChange ==
  ASSUME NEW s, NEW x, IsChangeOf(s, x), x.removed + Len(x.added) = 0
  PROVE  After(s, x) = s
<1> DEFINE u == After(s, x)
<1>1. Replaced(Item_, u, s, x.at, x.removed, x.added) /\ s \in Seq(Item_)
  BY AfterType
<1>2. /\ x.at \in Nat /\ x.at >= 1 /\ x.removed = 0 /\ Len(x.added) = 0
      /\ x.at <= Len(s) + 1 /\ Len(s) \in Nat
  BY DEF IsChangeOf, PartOf, Signals_
<1> HIDE DEF u
<1>3. /\ u \in Seq(Item_) /\ Len(u) = Len(s) - 0 + 0
      /\ \A i \in 1..(x.at - 1) : u[i] = s[i]
      /\ \A i \in (x.at + 0)..Len(s) : u[i - 0 + 0] = s[i]
  BY <1>1, <1>2 DEF Replaced
<1>4. \A i \in 1..Len(s) : u[i] = s[i]
  <2> TAKE i \in 1..Len(s)
  <2>1. i \in 1..(x.at - 1) \/ i \in (x.at + 0)..Len(s)
    BY <1>2
  <2>2. i - 0 + 0 = i
    OBVIOUS
  <2> QED
    BY <1>3, <2>1, <2>2
<1>5. Len(u) = Len(s)
  BY <1>2, <1>3
<1>6. u = s
  BY <1>1, <1>3, <1>4, <1>5, SeqEqual
<1> QED
  BY <1>6 DEF u

-----------------------------------------------------------------------------
(* The model of the menu.                                                  *)

USE MaxAssumption

Entry_ == [item : Item_, enabled : BOOLEAN]

ItemsIn(m) == [i \in DOMAIN m |-> m[i].item]

LEMMA ItemsInType ==
  ASSUME NEW m \in Seq(Entry_)
  PROVE  /\ ItemsIn(m) \in Seq(Item_) /\ Len(ItemsIn(m)) = Len(m)
         /\ \A i \in 1..Len(m) : ItemsIn(m)[i] = m[i].item
<1>1. /\ DOMAIN m = 1..Len(m) /\ Len(m) \in Nat
      /\ \A i \in 1..Len(m) : m[i] \in Entry_
  OBVIOUS
<1>2. \A i \in 1..Len(m) : m[i].item \in Item_
  BY <1>1 DEF Entry_
<1>3. ItemsIn(m) = [i \in 1..Len(m) |-> m[i].item]
  BY <1>1 DEF ItemsIn
<1>4. [i \in 1..Len(m) |-> m[i].item] \in Seq(Item_)
  BY <1>1, <1>2
<1> QED
  BY <1>1, <1>3, <1>4

LEMMA SpliceItemsIn ==
  ASSUME NEW m, NEW at, NEW r, NEW new, PartOf(Entry_, m, at, r, new)
  PROVE  ItemsIn(Splice(m, at, r, new)) = Splice(ItemsIn(m), at, r, ItemsIn(new))
<1> DEFINE f == [e \in Entry_ |-> e.item]
<1>1. f \in [Entry_ -> Item_]
  BY DEF Entry_
<1>2. ASSUME NEW t \in Seq(Entry_) PROVE Mapped(f, t) = ItemsIn(t)
  <2>1. \A i \in DOMAIN t : f[t[i]] = t[i].item
    OBVIOUS
  <2> QED
    BY <2>1 DEF Mapped, ItemsIn
<1>3. m \in Seq(Entry_) /\ new \in Seq(Entry_) /\ Splice(m, at, r, new) \in Seq(Entry_)
  BY SpliceElements DEF PartOf, Replaced
<1> HIDE DEF f
<1>4. /\ PartOf(Item_, Mapped(f, m), at, r, Mapped(f, new))
      /\ Mapped(f, Splice(m, at, r, new)) = Splice(Mapped(f, m), at, r, Mapped(f, new))
  BY <1>1, MapSplice
<1> QED
  BY <1>2, <1>3, <1>4

LEMMA EntriesType ==
  ASSUME NEW items \in Seq(Item_)
  PROVE  /\ Entries(items) \in Seq(Entry_) /\ Len(Entries(items)) = Len(items)
         /\ ItemsIn(Entries(items)) = items
<1> DEFINE e == Entries(items)
<1>1. /\ DOMAIN items = 1..Len(items) /\ Len(items) \in Nat
      /\ \A i \in 1..Len(items) : items[i] \in Item_
  OBVIOUS
<1>2. e = [i \in 1..Len(items) |-> [item |-> items[i], enabled |-> TRUE]]
  BY <1>1 DEF Entries
<1>3. \A i \in 1..Len(items) : [item |-> items[i], enabled |-> TRUE] \in Entry_
  BY <1>1 DEF Entry_
<1>4. e \in Seq(Entry_) /\ Len(e) = Len(items) /\ \A i \in 1..Len(items) : e[i].item = items[i]
  BY <1>1, <1>2, <1>3
<1> HIDE DEF e
<1>5. /\ ItemsIn(e) \in Seq(Item_) /\ Len(ItemsIn(e)) = Len(items)
      /\ \A i \in 1..Len(items) : ItemsIn(e)[i] = items[i]
  BY <1>4, ItemsInType
<1>6. ItemsIn(e) = items
  BY <1>5, SeqEqual
<1> QED
  BY <1>4, <1>6 DEF e

\* The first items, some or all.
LEMMA FirstItems ==
  ASSUME NEW items \in Seq(Item_), NEW k \in 0..Len(items)
  PROVE  /\ Part(items, 1, k) \in Seq(Item_) /\ Len(Part(items, 1, k)) = k
         /\ k = Len(items) => Part(items, 1, k) = items
<1>1. Len(items) \in Nat /\ \A i \in 1..Len(items) : items[i] \in Item_
  OBVIOUS
<1>2. k \in Nat /\ k <= Len(items) /\ \A i \in 1..k : items[i] \in Item_
  BY <1>1
<1>3. SubSeq(items, 1, k) \in Seq(Item_) /\ Len(SubSeq(items, 1, k)) = k
  <2>1. /\ SubSeq(items, 1, k) \in Seq(Item_)
        /\ Len(SubSeq(items, 1, k)) = IF 1 <= k THEN k - 1 + 1 ELSE 0
    BY <1>2, SubSeqProperties
  <2> QED
    BY <1>2, <2>1
<1>4. SubSeq(items, 1, Len(items)) = items
  BY SubSeqFull
<1> QED
  BY <1>3, <1>4 DEF Part

\* An entry is enabled as its action is, if there is the action.
Agrees(e, states) ==
  states[NameOfItem(e.item)] # "missing" =>
    e.enabled = (states[NameOfItem(e.item)] = "enabled")

LEMMA NameType ==
  ASSUME NEW e \in Entry_
  PROVE  NameOfItem(e.item) \in Names
BY DEF Entry_, Item_, NameOfItem

LEMMA WithStatesAgrees ==
  ASSUME NEW m \in Seq(Entry_), group \in [Names -> States]
  PROVE  /\ WithStates(m) \in Seq(Entry_) /\ Len(WithStates(m)) = Len(m)
         /\ ItemsIn(WithStates(m)) = ItemsIn(m)
         /\ \A i \in 1..Len(m) : Agrees(WithStates(m)[i], group)
<1> DEFINE w == WithStates(m)
           Told(e) == LET state == group[NameOfItem(e.item)] IN
                      IF state = "missing" THEN e ELSE [e EXCEPT !.enabled = (state = "enabled")]
<1>1. /\ DOMAIN m = 1..Len(m) /\ Len(m) \in Nat
      /\ \A i \in 1..Len(m) : m[i] \in Entry_
  OBVIOUS
<1>2. ASSUME NEW e \in Entry_
      PROVE  Told(e) \in Entry_ /\ Told(e).item = e.item /\ Agrees(Told(e), group)
  BY <1>2 DEF Entry_, Agrees
<1>3. w = [i \in 1..Len(m) |-> Told(m[i])]
  BY <1>1 DEF WithStates
<1> HIDE DEF Told
<1>4. /\ w \in Seq(Entry_) /\ Len(w) = Len(m)
      /\ \A i \in 1..Len(m) : w[i].item = m[i].item /\ Agrees(w[i], group)
  BY <1>1, <1>2, <1>3
<1> HIDE DEF w
<1>5. ItemsIn(w) = ItemsIn(m)
  <2>1. /\ ItemsIn(m) \in Seq(Item_) /\ Len(ItemsIn(m)) = Len(m)
        /\ \A i \in 1..Len(m) : ItemsIn(m)[i] = m[i].item
    BY ItemsInType
  <2>2. /\ ItemsIn(w) \in Seq(Item_) /\ Len(ItemsIn(w)) = Len(m)
        /\ \A i \in 1..Len(m) : ItemsIn(w)[i] = w[i].item
    BY <1>4, ItemsInType
  <2> QED
    BY <1>4, <2>1, <2>2, SeqEqual
<1> QED
  BY <1>4, <1>5 DEF w

\* What the limit admits.
LEMMA AdmittedBounds ==
  ASSUME NEW n \in Nat, n <= Max, NEW k \in Nat
  PROVE  /\ Admitted(n, k) \in 0..k /\ n + Admitted(n, k) <= Max
BY DEF Admitted

\* The state of the model, whatever it is made from.
ModelType ==
  /\ size \in Nat /\ size <= Max /\ menu \in Seq(Entry_)
  /\ children \subseteq Nat \ {0} /\ cut \in BOOLEAN

\* The entries are those of the menu, as far as it goes, and know their states.
LEMMA MenuChanges ==
  ASSUME ModelType, group \in [Names -> States],
         NEW at \in Nat \ {0}, NEW r \in Nat, NEW items \in Seq(Item_),
         at - 1 + r <= size, ChangeMenuItems(at - 1, r, items)
  PROVE  /\ menu' \in Seq(Entry_)
         /\ \A i \in 1..Len(menu') : Agrees(menu'[i], group)
         /\ ~cut' /\ at + r <= Len(menu) + 1 =>
              ItemsIn(menu') = Splice(ItemsIn(menu), at, r, items)
<1> DEFINE k == Admitted(size - r, Len(items))
           at1 == Lower(at - 1, Len(menu)) + 1
           r1 == Lower(r, Len(menu) + 1 - at1)
           some == Part(items, 1, k)
           new == Entries(some)
           rest == Splice(menu, at1, r1, <<>>)
           u == Splice(rest, at1, 0, new)
<1>1. menu' = WithStates(u) /\ cut' = (cut \/ k < Len(items))
  BY DEF ChangeMenuItems
<1>2. /\ at \in Nat /\ at >= 1 /\ Len(menu) \in Nat /\ Len(items) \in Nat
      /\ size \in Nat /\ size <= Max /\ r <= size /\ size - r \in Nat /\ size - r <= Max
  BY DEF ModelType
<1>3. k \in 0..Len(items)
  BY <1>2, AdmittedBounds
<1>4. /\ at1 \in Nat /\ at1 >= 1 /\ r1 \in Nat /\ at1 + r1 <= Len(menu) + 1
      /\ at + r <= Len(menu) + 1 => at1 = at /\ r1 = r
  <2>1. /\ at1 \in Nat /\ at1 >= 1 /\ at1 <= Len(menu) + 1
        /\ at <= Len(menu) + 1 => at1 = at
    BY <1>2 DEF Lower
  <2> HIDE DEF at1
  <2>2. /\ r1 \in Nat /\ at1 + r1 <= Len(menu) + 1
        /\ at1 + r <= Len(menu) + 1 => r1 = r
    BY <1>2, <2>1 DEF Lower
  <2> HIDE DEF r1
  <2>3. at + r <= Len(menu) + 1 => at <= Len(menu) + 1
    BY <1>2
  <2> QED
    BY <2>1, <2>2, <2>3
<1> HIDE DEF k, at1, r1
<1>5. some \in Seq(Item_) /\ Len(some) = k /\ (k = Len(items) => some = items)
  BY <1>3, FirstItems
<1> HIDE DEF some
<1>6. new \in Seq(Entry_) /\ ItemsIn(new) = some
  BY <1>5, EntriesType
<1> HIDE DEF new
<1>7. PartOf(Entry_, menu, at1, r1, new)
  BY <1>4, <1>6 DEF PartOf, ModelType
<1>8. u = Splice(menu, at1, r1, new)
  BY <1>7, TwoSplices
<1> HIDE DEF u
<1>9. u \in Seq(Entry_) /\ ItemsIn(u) = Splice(ItemsIn(menu), at1, r1, some)
  <2>1. u \in Seq(Entry_)
    BY <1>7, <1>8, SpliceElements DEF Replaced
  <2> QED
    BY <1>6, <1>7, <1>8, <2>1, SpliceItemsIn
<1>10. /\ menu' \in Seq(Entry_) /\ Len(menu') = Len(u) /\ ItemsIn(menu') = ItemsIn(u)
       /\ \A i \in 1..Len(u) : Agrees(menu'[i], group)
  BY <1>1, <1>9, WithStatesAgrees
<1>11. ASSUME ~cut', at + r <= Len(menu) + 1
       PROVE  ItemsIn(menu') = Splice(ItemsIn(menu), at, r, items)
  <2>1. ~(k < Len(items))
    BY <1>1, <1>11
  <2>2. k = Len(items)
    BY <1>2, <1>3, <2>1
  <2> QED
    BY <1>4, <1>5, <1>9, <1>10, <1>11, <2>2
<1> QED
  BY <1>10, <1>11

\* What the model counts, and where it has children.
LEMMA CountsChange ==
  ASSUME ModelType,
         NEW at \in Nat \ {0}, NEW r \in Nat, NEW items \in Seq(Item_),
         at - 1 + r <= size, ChangeMenuItems(at - 1, r, items)
  PROVE  /\ size' \in Nat /\ size' <= Max
         /\ children' \subseteq Nat \ {0} /\ cut' \in BOOLEAN
         /\ ~cut' => /\ ~cut /\ size' = size - r + Len(items)
                     /\ children' = Shift(at - 1, r, Len(items))
                          \cup {at - 1 + i : i \in {j \in 1..Len(items) : items[j].link}}
<1> DEFINE k == Admitted(size - r, Len(items))
           index == at - 1
<1>1. /\ size' = size - r + k
      /\ children' = Shift(index, r, k) \cup {index + i : i \in {j \in 1..k : items[j].link}}
      /\ cut' = (cut \/ k < Len(items))
  BY DEF ChangeMenuItems
<1>2. /\ index \in Nat /\ Len(items) \in Nat
      /\ size \in Nat /\ size <= Max /\ r <= size /\ size - r \in Nat /\ size - r <= Max
      /\ children \subseteq Nat \ {0} /\ cut \in BOOLEAN
  BY DEF ModelType
<1>3. k \in 0..Len(items) /\ size - r + k <= Max
  BY <1>2, AdmittedBounds
<1> HIDE DEF k, index
<1>4. size' \in Nat /\ size' <= Max /\ cut' \in BOOLEAN
  BY <1>1, <1>2, <1>3
<1>5. Shift(index, r, k) \subseteq Nat \ {0}
  <2>1. ASSUME NEW j \in children, j > index + r PROVE j - r + k \in Nat \ {0}
    BY <1>2, <1>3, <2>1
  <2> QED
    BY <1>2, <2>1 DEF Shift
<1>6. {index + i : i \in {j \in 1..k : items[j].link}} \subseteq Nat \ {0}
  BY <1>2, <1>3
<1>7. ASSUME ~cut' PROVE ~cut /\ k = Len(items)
  <2>1. ~cut /\ ~(k < Len(items))
    BY <1>1, <1>7
  <2> QED
    BY <1>2, <1>3, <2>1
<1> QED
  BY <1>1, <1>4, <1>5, <1>6, <1>7 DEF index

\* The links of a menu, and those of the menu after a change.
LinksOf(s) == {i \in DOMAIN s : s[i].link}

LEMMA LinksShift ==
  ASSUME NEW s, NEW x, IsChangeOf(s, x), children = LinksOf(s)
  PROVE  LinksOf(After(s, x))
           = Shift(x.at - 1, x.removed, Len(x.added))
               \cup {x.at - 1 + i : i \in {j \in 1..Len(x.added) : x.added[j].link}}
<1> DEFINE u == After(s, x)
           at == x.at
           r == x.removed
           a == x.added
           n == Len(s)
           m == Len(a)
           L == LinksOf(u)
           R == Shift(at - 1, r, m) \cup {at - 1 + i : i \in {j \in 1..m : a[j].link}}
<1>1. /\ s \in Seq(Item_) /\ n \in Nat /\ m \in Nat /\ DOMAIN s = 1..n
      /\ at \in Nat /\ at >= 1 /\ r \in Nat /\ at + r <= n + 1
  BY DEF IsChangeOf, PartOf
<1>2. Replaced(Item_, u, s, at, r, a)
  BY AfterType
<1> HIDE DEF u, at, r, a
<1>3. /\ u \in Seq(Item_) /\ DOMAIN u = 1..(n - r + m)
      /\ \A i \in 1..(at - 1) : u[i] = s[i]
      /\ \A i \in 1..m : u[at - 1 + i] = a[i]
      /\ \A i \in (at + r)..n : u[i - r + m] = s[i]
  BY <1>2 DEF Replaced
<1>4. L = {i \in 1..(n - r + m) : u[i].link}
  BY <1>3 DEF LinksOf
<1>5. children = {i \in 1..n : s[i].link}
  BY <1>1 DEF LinksOf
<1> HIDE DEF n, m, L
<1>6. R = {i \in children : i <= at - 1}
            \cup {i - r + m : i \in {j \in children : j > at - 1 + r}}
            \cup {at - 1 + i : i \in {j \in 1..m : a[j].link}}
  BY DEF Shift
<1> HIDE DEF R
<1>7. ASSUME NEW i \in L PROVE i \in R
  <2>0. i \in Nat /\ 1 <= i /\ i <= n - r + m /\ u[i].link
    BY <1>1, <1>4
  <2>1. CASE i < at
    <3>1. i \in 1..(at - 1) /\ i \in 1..n /\ i <= at - 1
      BY <1>1, <2>0, <2>1
    <3>2. i \in children
      BY <1>3, <1>5, <2>0, <3>1
    <3> QED
      BY <1>6, <3>1, <3>2
  <2>2. CASE at <= i /\ i < at + m
    <3> DEFINE k == i - at + 1
    <3>1. k \in 1..m /\ at - 1 + k = i
      BY <1>1, <2>0, <2>2
    <3> HIDE DEF k
    <3>2. a[k].link
      BY <1>3, <2>0, <3>1
    <3> QED
      BY <1>6, <3>1, <3>2
  <2>3. CASE at + m <= i
    <3> DEFINE k == i + r - m
    <3>1. k \in (at + r)..n /\ k \in 1..n /\ k - r + m = i /\ k > at - 1 + r
      BY <1>1, <2>0, <2>3
    <3> HIDE DEF k
    <3>2. k \in children
      BY <1>3, <1>5, <2>0, <3>1
    <3> QED
      BY <1>6, <3>1, <3>2
  <2> QED
    BY <1>1, <2>0, <2>1, <2>2, <2>3
<1>8. ASSUME NEW i \in R PROVE i \in L
  <2>1. CASE i \in {j \in children : j <= at - 1}
    <3>1. i \in 1..n /\ i <= at - 1 /\ s[i].link
      BY <1>5, <2>1
    <3>2. i \in 1..(at - 1) /\ i \in 1..(n - r + m)
      BY <1>1, <3>1
    <3> QED
      BY <1>3, <1>4, <3>1, <3>2
  <2>2. ASSUME NEW k \in children, k > at - 1 + r, i = k - r + m PROVE i \in L
    <3>1. k \in 1..n /\ s[k].link
      BY <1>5
    <3>2. k \in (at + r)..n /\ k - r + m \in 1..(n - r + m)
      BY <1>1, <2>2, <3>1
    <3> QED
      BY <1>3, <1>4, <2>2, <3>1, <3>2
  <2>3. ASSUME NEW k \in 1..m, a[k].link, i = at - 1 + k PROVE i \in L
    <3>1. at - 1 + k \in 1..(n - r + m)
      BY <1>1
    <3> QED
      BY <1>3, <1>4, <2>3, <3>1
  <2> QED
    BY <1>6, <2>1, <2>2, <2>3
<1>9. L = R
  BY <1>7, <1>8
<1> QED
  BY <1>9 DEF L, R, u, at, r, a, m

-----------------------------------------------------------------------------
(* The invariant, in four parts.                                           *)

PublisherOK == PublisherInv /\ linked \subseteq Descriptions

\* The changes on their way make the proxy's items the publisher's.
ChannelOK ==
  /\ subscribed \in BOOLEAN /\ signals \in Seq(Signals_) /\ proxy \in Seq(Item_)
  /\ importer \in {"none", "made", "left", "invalid", "gone"}
  /\ ~subscribed => signals = <<>> /\ proxy = <<>>
  /\ importer = "none" => ~subscribed
  /\ Following /\ subscribed =>
       \E c \in Seq(Seq(Item_)) : Chain(c, proxy, signals, Items)

\* The menu has the proxy's items, and the model counts no fewer than there are.
ModelOK ==
  /\ ModelType
  /\ ~Following => menu = <<>>
  /\ Following /\ ~cut =>
       /\ Shown = proxy /\ children = LinksOf(proxy) /\ size >= Len(proxy)

StatesOK ==
  /\ group \in [Names -> States] /\ untold \subseteq Names
  /\ \A i \in 1..Len(menu) : NameOfItem(menu[i].item) \notin untold => Agrees(menu[i], group)

LEMMA PublisherStep == PublisherOK /\ [ImportNext]_allVars => PublisherOK'
<1> SUFFICES ASSUME PublisherOK, [ImportNext]_allVars PROVE PublisherOK'
  OBVIOUS
<1>1. PublisherInv'
  BY NextInv DEF PublisherOK
<1>2. ASSUME linked' = linked PROVE linked' \subseteq Descriptions
  BY <1>2 DEF PublisherOK
<1>3. ASSUME Publish PROVE linked' \subseteq Descriptions
  <2>1. ASSUME NEW d \in Descriptions, NEW links, links \subseteq Descriptions,
               ChangeDescription(d, links)
        PROVE  linked' \subseteq Descriptions
    BY <2>1 DEF ChangeDescription
  <2>2. ASSUME NEW d \in Parametric, SetParameterized(d) PROVE linked' \subseteq Descriptions
    <3>1. d \in Descriptions /\ linked \subseteq Descriptions
      BY DEF PublisherOK
    <3>2. linked \cup {d} \subseteq Descriptions /\ linked \ {d} \subseteq Descriptions
      BY <3>1
    <3> QED
      BY <2>1, <2>2, <3>1, <3>2 DEF SetParameterized
  <2> QED
    BY <1>2, <1>3, <2>1, <2>2
    DEF Publish, AddDescription, RemoveDescription, RemoveDescriptions, PublisherOK
<1>4. ASSUME ~Publish PROVE linked' \subseteq Descriptions
  <2>1. linked' = linked
    BY <1>4 DEF ImportNext, Application, Subscribe, Import, HandleItemsChanged,
      HandleIllegalChange, HandleNothing, ServiceUnregistered, ActionGroup, ActionAdded,
      ActionRemoved, ActionEnabled, allVars, vars, publisherVars
  <2> QED
    BY <1>2, <2>1
<1> QED
  BY <1>1, <1>3, <1>4 DEF PublisherOK

\* Without a step of the publisher its items stay.
LEMMA ItemsStay ==
  ASSUME UNCHANGED publisherVars
  PROVE  Items' = Items
BY DEF publisherVars, Items

LEMMA SubscribeStep ==
  ASSUME PublisherOK, ChannelOK, Application, Subscribe
  PROVE  ChannelOK'
<1> DEFINE x == [at |-> 1, removed |-> 0, added |-> Items]
<1>1. /\ subscribed' = TRUE /\ signals' = <<x>> /\ proxy' = proxy /\ importer' = importer
      /\ proxy = <<>> /\ importer = "made" /\ Items' = Items
  <2>1. importer = "made"
    BY DEF ChannelOK, Application, Subscribe, Publish, AddDescription, RemoveDescription,
      RemoveDescriptions, SetParameterized, ChangeDescription
  <2> QED
    BY <2>1, ItemsStay DEF Application, Subscribe, ChannelOK, importVars, publisherVars
<1>2. descriptions \in Seq(Descriptions)
  BY DEF PublisherOK, PublisherInv
<1>3. Items \in Seq(Item_)
  BY <1>2, ItemsAre, ItemsOfType
<1>4. x \in Signals_ /\ x.at = 1 /\ x.removed = 0 /\ x.added = Items
  BY <1>3 DEF Signals_
<1> HIDE DEF x
<1>5. <<>> \in Seq(Item_) /\ Len(<<>>) = 0
  OBVIOUS
<1>6. PartOf(Item_, <<>>, 1, 0, Items)
  BY <1>3, <1>5 DEF PartOf
<1>7. IsChangeOf(<<>>, x)
  BY <1>4, <1>6 DEF IsChangeOf
<1>8. After(<<>>, x) = Items
  <2>1. Replaced(Item_, Items, <<>>, 1, 0, Items)
    BY <1>3, <1>5 DEF Replaced
  <2> QED
    BY <1>4, <1>6, <2>1, ReplacedIsSplice DEF After
<1>9. Chain(<<<<>>, Items>>, <<>>, <<x>>, Items)
  BY <1>7, <1>8, OneChange
<1>10. (\E c \in Seq(Seq(Item_)) : Chain(c, proxy, signals, Items))'
  <2>1. <<<<>>, Items>> \in Seq(Seq(Item_))
    BY <1>9 DEF Chain
  <2> QED
    BY <1>1, <1>9, <2>1
<1>11. signals' \in Seq(Signals_)
  BY <1>1, <1>4
<1> QED
  BY <1>1, <1>5, <1>10, <1>11 DEF ChannelOK, Following

LEMMA PublishStep ==
  ASSUME PublisherOK, ChannelOK, Application, Publish
  PROVE  ChannelOK'
<1>1. Announces
  BY PublishAnnounces DEF PublisherOK
<1>2. proxy' = proxy /\ importer' = importer /\ subscribed' = subscribed
  BY <1>1 DEF Application, Announces, importVars
<1>3. signals' \in Seq(Signals_)
  <2>1. signals \in Seq(Signals_)
    BY DEF ChannelOK
  <2>2. \A x \in Signals_ : Append(signals, x) \in Seq(Signals_)
    BY <2>1
  <2> QED
    BY <1>1, <2>1, <2>2 DEF Announces
<1>4. ~subscribed' => signals' = <<>> /\ proxy' = <<>>
  BY <1>1, <1>2 DEF Announces, ChannelOK
<1>5. ASSUME Following, subscribed
      PROVE  (\E c \in Seq(Seq(Item_)) : Chain(c, proxy, signals, Items))'
  <2>1. PICK c \in Seq(Seq(Item_)) : Chain(c, proxy, signals, Items)
    BY <1>5 DEF ChannelOK
  <2>2. CASE Items' = Items /\ signals' = signals
    BY <1>2, <2>1, <2>2
  <2>3. ASSUME NEW x \in Signals_, IsChangeOf(Items, x), Items' = After(Items, x),
               signals' = Append(signals, x)
        PROVE  (\E z \in Seq(Seq(Item_)) : Chain(z, proxy, signals, Items))'
    <3>1. signals \in Seq(Signals_)
      BY DEF ChannelOK
    <3>2. Chain(Append(c, After(Items, x)), proxy, Append(signals, x), After(Items, x))
      BY <2>1, <2>3, <3>1, ChainAppend
    <3>3. Append(c, After(Items, x)) \in Seq(Seq(Item_))
      BY <3>2 DEF Chain
    <3> DEFINE z == Append(c, After(Items, x))
    <3> HIDE DEF z
    <3>4. Chain(z, proxy', signals', Items') /\ z \in Seq(Seq(Item_))
      BY <1>2, <2>3, <3>2, <3>3 DEF z
    <3> QED
      BY <3>4
  <2> QED
    BY <1>1, <1>5, <2>2, <2>3 DEF Announces
<1> QED
  BY <1>2, <1>3, <1>4, <1>5 DEF ChannelOK, Following

\* A change gets to the proxy.
LEMMA DeliverStep ==
  ASSUME ChannelOK, Following, signals # <<>>,
         signals' = Tail(signals), UNCHANGED <<publisherVars, subscribed>>,
         importer' \in {"made", "left", "invalid"}, proxy' = After(proxy, Changed)
  PROVE  ChannelOK' /\ IsChangeOf(proxy, Changed)
<1>1. /\ subscribed \in BOOLEAN /\ subscribed /\ signals \in Seq(Signals_)
  BY DEF ChannelOK
<1>2. PICK c \in Seq(Seq(Item_)) : Chain(c, proxy, signals, Items)
  BY <1>1 DEF ChannelOK
<1>3. /\ IsChangeOf(proxy, Changed)
      /\ Chain(Tail(c), After(proxy, Changed), Tail(signals), Items)
  BY <1>1, <1>2, ChainTail DEF Changed
<1>4. Items' = Items
  BY ItemsStay
<1>5. proxy' \in Seq(Item_)
  BY <1>3, AfterType DEF Replaced
<1>6. signals' \in Seq(Signals_)
  BY <1>1, HeadTailProperties
<1> DEFINE z == Tail(c)
<1>7. Chain(z, proxy', signals', Items') /\ z \in Seq(Seq(Item_))
  BY <1>3, <1>4 DEF Chain
<1> HIDE DEF z
<1>8. (\E w \in Seq(Seq(Item_)) : Chain(w, proxy, signals, Items))'
  BY <1>7
<1> QED
  BY <1>1, <1>3, <1>5, <1>6, <1>8 DEF ChannelOK, Following

\* Signals that change nothing, or that no one listens to.
LEMMA NothingStep ==
  ASSUME ChannelOK, HandleNothing
  PROVE  ChannelOK'
<1>1. /\ signals # <<>> /\ signals' = Tail(signals) /\ UNCHANGED <<publisherVars, subscribed>>
      /\ importer' = importer /\ proxy' = proxy
      /\ ~Following \/ Changed.removed + Len(Changed.added) = 0
  BY DEF HandleNothing, importVars
<1>2. /\ subscribed \in BOOLEAN /\ subscribed /\ signals \in Seq(Signals_)
      /\ proxy \in Seq(Item_) /\ importer \in {"none", "made", "left", "invalid", "gone"}
      /\ importer # "none"
  BY <1>1 DEF ChannelOK
<1>3. signals' \in Seq(Signals_)
  BY <1>1, <1>2, HeadTailProperties
<1>4. ASSUME Following
      PROVE  (\E c \in Seq(Seq(Item_)) : Chain(c, proxy, signals, Items))'
  <2>1. PICK c \in Seq(Seq(Item_)) : Chain(c, proxy, signals, Items)
    BY <1>2, <1>4 DEF ChannelOK
  <2>2. /\ IsChangeOf(proxy, Changed)
        /\ Chain(Tail(c), After(proxy, Changed), Tail(signals), Items)
    BY <1>1, <1>2, <2>1, ChainTail DEF Changed
  <2>3. After(proxy, Changed) = proxy
    BY <1>1, <1>4, <2>2, NoChange
  <2>4. Items' = Items
    BY <1>1, ItemsStay
  <2> DEFINE z == Tail(c)
  <2>5. Chain(z, proxy', signals', Items') /\ z \in Seq(Seq(Item_))
    BY <1>1, <2>2, <2>3, <2>4 DEF Chain
  <2> HIDE DEF z
  <2> QED
    BY <2>5
<1> QED
  BY <1>1, <1>2, <1>3, <1>4 DEF ChannelOK, Following

LEMMA ChannelStep ==
  PublisherOK /\ ChannelOK /\ [ImportNext]_allVars => ChannelOK'
<1> SUFFICES ASSUME PublisherOK, ChannelOK, [ImportNext]_allVars PROVE ChannelOK'
  OBVIOUS
<1>1. CASE Application
  BY <1>1, SubscribeStep, PublishStep DEF Application
<1>2. CASE Import
  <2>1. /\ importer \in {"none", "made"} /\ importer' = "made"
        /\ UNCHANGED <<publisherVars, subscribed, signals, proxy>>
    BY <1>2 DEF Import, vars
  <2>2. Items' = Items
    BY <2>1, ItemsStay
  <2> QED
    BY <2>1, <2>2 DEF ChannelOK, Following
<1>3. CASE HandleItemsChanged
  BY <1>3, DeliverStep DEF HandleItemsChanged, After, Following
<1>4. CASE HandleIllegalChange
  BY <1>4, DeliverStep DEF HandleIllegalChange, After
<1>5. CASE HandleNothing
  BY <1>5, NothingStep
<1>6. CASE ServiceUnregistered
  <2>1. Following /\ importer' = "gone" /\ UNCHANGED <<subscribed, signals, proxy>>
    BY <1>6 DEF ServiceUnregistered, vars
  <2> QED
    BY <2>1 DEF ChannelOK, Following
<1>7. CASE ActionGroup \/ UNCHANGED allVars
  <2>1. UNCHANGED <<publisherVars, subscribed, signals, proxy, importer>>
    BY <1>7
    DEF ActionGroup, ActionAdded, ActionRemoved, ActionEnabled, allVars, importVars, vars
  <2>2. Items' = Items
    BY <2>1, ItemsStay
  <2> QED
    BY <2>1, <2>2 DEF ChannelOK, Following
<1> QED
  BY <1>1, <1>2, <1>3, <1>4, <1>5, <1>6, <1>7 DEF ImportNext

\* A model is made of the items that are there.
LEMMA ConstructStep ==
  ASSUME ChannelOK, ModelOK, Import
  PROVE  ModelOK'
<1> DEFINE n == Lower(Max, Len(proxy))
           k == Admitted(n, n)
           some == Part(proxy, 1, k)
<1>1. /\ importer' = "made" /\ proxy' = proxy
      /\ size' = n + k /\ menu' = Entries(some)
      /\ children' = {i \in 1..k : proxy[i].link} /\ cut' = (k < Len(proxy))
  BY DEF Import, Construct
<1>2. proxy \in Seq(Item_) /\ Len(proxy) \in Nat /\ DOMAIN proxy = 1..Len(proxy)
  BY DEF ChannelOK
<1>3. n \in Nat /\ n <= Max /\ n <= Len(proxy)
  BY <1>2 DEF Lower
<1> HIDE DEF n
<1>4. k \in 0..n /\ n + k <= Max
  BY <1>3, AdmittedBounds
<1> HIDE DEF k
<1>5. some \in Seq(Item_) /\ (k = Len(proxy) => some = proxy)
  <2>1. k \in 0..Len(proxy)
    BY <1>2, <1>3, <1>4
  <2> QED
    BY <1>2, <2>1, FirstItems
<1> HIDE DEF some
<1>6. menu' \in Seq(Entry_) /\ ItemsIn(menu') = some
  BY <1>1, <1>5, EntriesType
<1>7. size' \in Nat /\ size' <= Max /\ children' \subseteq Nat \ {0} /\ cut' \in BOOLEAN
  BY <1>1, <1>3, <1>4
<1>8. ASSUME ~cut'
      PROVE  Shown' = proxy' /\ children' = LinksOf(proxy') /\ size' >= Len(proxy')
  <2>1. ~(k < Len(proxy))
    BY <1>1, <1>8
  <2>2. k = Len(proxy)
    <3>1. k \in Nat /\ k <= Len(proxy)
      BY <1>2, <1>3, <1>4
    <3>2. Len(proxy) \in Nat
      BY <1>2
    <3> QED
      BY <2>1, <3>1, <3>2
  <2>3. Shown' = ItemsIn(menu')
    BY DEF Shown, ItemsIn
  <2> QED
    BY <1>1, <1>2, <1>3, <1>5, <1>6, <2>2, <2>3 DEF LinksOf
<1> QED
  BY <1>1, <1>6, <1>7, <1>8 DEF ModelOK, ModelType, Following

\* What the menu has and the model counts after a change.
LEMMA ItemsChangedStep ==
  ASSUME ChannelOK, ModelOK, StatesOK, HandleItemsChanged
  PROVE  ModelOK' /\ \A i \in 1..Len(menu') : Agrees(menu'[i], group)
<1> DEFINE at == Changed.at
           r == Changed.removed
           a == Changed.added
<1>1. /\ Following /\ importer' = importer
      /\ at - 1 + r <= size
      /\ ChangeMenuItems(at - 1, r, a)
      /\ proxy' = After(proxy, Changed)
  BY DEF HandleItemsChanged, After
<1>2. IsChangeOf(proxy, Changed)
  BY DeliverStep DEF HandleItemsChanged, After, Following
<1>3. /\ at \in Nat \ {0} /\ r \in Nat /\ a \in Seq(Item_) /\ Len(a) \in Nat
      /\ at + r <= Len(proxy) + 1 /\ proxy \in Seq(Item_) /\ Len(proxy) \in Nat
  BY <1>2 DEF IsChangeOf, PartOf, Signals_
<1> HIDE DEF at, r, a
<1>4. ModelType /\ group \in [Names -> States] /\ menu \in Seq(Entry_) /\ size \in Nat
  BY DEF ModelOK, ModelType, StatesOK
<1>5. /\ menu' \in Seq(Entry_)
      /\ \A i \in 1..Len(menu') : Agrees(menu'[i], group)
      /\ ~cut' /\ at + r <= Len(menu) + 1 =>
           ItemsIn(menu') = Splice(ItemsIn(menu), at, r, a)
  BY <1>1, <1>3, <1>4, MenuChanges
<1>6. /\ size' \in Nat /\ size' <= Max
      /\ children' \subseteq Nat \ {0} /\ cut' \in BOOLEAN
      /\ ~cut' => /\ ~cut /\ size' = size - r + Len(a)
                  /\ children' = Shift(at - 1, r, Len(a))
                       \cup {at - 1 + i : i \in {j \in 1..Len(a) : a[j].link}}
  BY <1>1, <1>3, <1>4, CountsChange
<1>7. ASSUME ~cut'
      PROVE  Shown' = proxy' /\ children' = LinksOf(proxy') /\ size' >= Len(proxy')
  <2>1. Shown = proxy /\ children = LinksOf(proxy) /\ size >= Len(proxy)
    BY <1>1, <1>6, <1>7 DEF ModelOK
  <2>2. ItemsIn(menu) = proxy /\ Len(menu) = Len(proxy)
    <3>1. ItemsIn(menu) = proxy
      BY <2>1 DEF Shown, ItemsIn
    <3> QED
      BY <1>4, <3>1, ItemsInType
  <2>3. ItemsIn(menu') = Splice(proxy, at, r, a)
    BY <1>3, <1>5, <1>7, <2>2
  <2>4. Shown' = proxy'
    BY <1>1, <2>3 DEF Shown, ItemsIn, After, at, r, a
  <2>5. children' = LinksOf(proxy')
    BY <1>1, <1>2, <1>6, <1>7, <2>1, LinksShift DEF at, r, a
  <2>6. Len(proxy') = Len(proxy) - r + Len(a)
    BY <1>1, <1>2, AfterType DEF Replaced, r, a
  <2>7. size' = size - r + Len(a)
    BY <1>6, <1>7
  <2>8. size' >= Len(proxy')
    BY <1>3, <1>4, <2>1, <2>6, <2>7
  <2> QED
    BY <2>4, <2>5, <2>8
<1>8. ModelOK'
  BY <1>1, <1>5, <1>6, <1>7 DEF ModelOK, ModelType, Following
<1> QED
  BY <1>5, <1>8

\* The states of actions reach the menu, and not its items.
LEMMA TellStep ==
  ASSUME ModelOK, NEW name \in Names, NEW on \in BOOLEAN, ToldOf(name, on)
  PROVE  /\ menu' \in Seq(Entry_) /\ Len(menu') = Len(menu)
         /\ \A i \in 1..Len(menu) :
              /\ menu'[i].item = menu[i].item
              /\ IF NameOfItem(menu[i].item) = name
                 THEN menu'[i].enabled = on ELSE menu'[i] = menu[i]
<1>1. /\ menu \in Seq(Entry_) /\ DOMAIN menu = 1..Len(menu) /\ Len(menu) \in Nat
      /\ \A i \in 1..Len(menu) : menu[i] \in Entry_
  BY DEF ModelOK, ModelType
<1>2. CASE Following
  <2> DEFINE Told(e) == IF NameOfItem(e.item) = name THEN [e EXCEPT !.enabled = on] ELSE e
  <2>1. ASSUME NEW e \in Entry_
        PROVE  /\ Told(e) \in Entry_ /\ Told(e).item = e.item
               /\ IF NameOfItem(e.item) = name THEN Told(e).enabled = on ELSE Told(e) = e
    BY DEF Entry_
  <2>2. menu' = [i \in 1..Len(menu) |-> Told(menu[i])]
    BY <1>1, <1>2 DEF ToldOf, WithState
  <2> HIDE DEF Told
  <2> QED
    BY <1>1, <2>1, <2>2
<1>3. CASE ~Following
  <2>1. menu' = menu /\ menu = <<>> /\ Len(menu) = 0
    BY <1>3 DEF ToldOf, ModelOK
  <2> QED
    BY <1>1, <2>1
<1> QED
  BY <1>2, <1>3

LEMMA GroupStep ==
  ASSUME ModelOK, StatesOK, NEW name \in Names, NEW state \in States \ {"missing"},
         ActionAdded(name, state) \/ ActionRemoved(name) \/ ActionEnabled(name, state)
  PROVE  ModelOK' /\ StatesOK'
<1>1. /\ UNCHANGED <<importer, size, children, cut, proxy>>
      /\ group \in [Names -> States] /\ untold \subseteq Names
      /\ menu \in Seq(Entry_) /\ Len(menu) \in Nat /\ DOMAIN menu = 1..Len(menu)
      /\ \A i \in 1..Len(menu) : NameOfItem(menu[i].item) \in Names
  <2>1. menu \in Seq(Entry_) /\ \A i \in 1..Len(menu) : menu[i] \in Entry_
    BY DEF ModelOK, ModelType
  <2>2. \A i \in 1..Len(menu) : NameOfItem(menu[i].item) \in Names
    BY <2>1, NameType
  <2>3. UNCHANGED <<importer, size, children, cut, proxy>>
    BY DEF ActionAdded, ActionRemoved, ActionEnabled, importVars
  <2> QED
    BY <2>1, <2>2, <2>3 DEF StatesOK
<1>2. PICK s \in States : group' = [group EXCEPT ![name] = s]
  BY DEF ActionAdded, ActionRemoved, ActionEnabled, States
<1>3. /\ group' \in [Names -> States]
      /\ \A n \in Names : n # name => group'[n] = group[n]
      /\ group'[name] = s
  BY <1>1, <1>2
<1>4. ASSUME NEW m \in Seq(Entry_), menu' = m, Len(m) = Len(menu),
             \A i \in 1..Len(menu) : m[i].item = menu[i].item
      PROVE  ModelOK'
  <2>1. Shown' = Shown
    <3>1. DOMAIN menu' = DOMAIN menu
      BY <1>1, <1>4
    <3> QED
      BY <1>1, <1>4, <3>1 DEF Shown
  <2>2. ASSUME ~Following PROVE menu' = <<>>
    <3>1. Len(m) = 0
      BY <1>4, <2>2 DEF ModelOK
    <3> QED
      BY <1>4, <3>1
  <2>3. ModelType'
    BY <1>1, <1>4 DEF ModelOK, ModelType
  <2> QED
    BY <1>1, <2>1, <2>2, <2>3 DEF ModelOK, Following
<1>5. ASSUME menu' = menu, name \in untold' \/ s = "missing",
             untold \subseteq untold' \cup {name}, untold' \subseteq Names
      PROVE  ModelOK' /\ StatesOK'
  <2>1. ModelOK'
    BY <1>1, <1>4, <1>5
  <2>2. ASSUME NEW i \in 1..Len(menu), NameOfItem(menu[i].item) \notin untold'
        PROVE  Agrees(menu[i], group')
    <3>1. CASE NameOfItem(menu[i].item) = name
      BY <1>3, <1>5, <2>2, <3>1 DEF Agrees
    <3>2. CASE NameOfItem(menu[i].item) # name
      <4>1. /\ NameOfItem(menu[i].item) \notin untold
            /\ group'[NameOfItem(menu[i].item)] = group[NameOfItem(menu[i].item)]
        BY <1>1, <1>3, <1>5, <2>2, <3>2
      <4>2. Agrees(menu[i], group)
        BY <4>1 DEF StatesOK
      <4> QED
        BY <4>1, <4>2 DEF Agrees
    <3> QED
      BY <3>1, <3>2
  <2> QED
    BY <1>3, <1>5, <2>1, <2>2 DEF StatesOK
<1>6. ASSUME NEW on \in BOOLEAN, ToldOf(name, on), s # "missing" /\ on = (s = "enabled")
      PROVE  ModelOK' /\ StatesOK'
  <2>1. /\ menu' \in Seq(Entry_) /\ Len(menu') = Len(menu)
        /\ \A i \in 1..Len(menu) :
             /\ menu'[i].item = menu[i].item
             /\ IF NameOfItem(menu[i].item) = name
                THEN menu'[i].enabled = on ELSE menu'[i] = menu[i]
    BY <1>6, TellStep
  <2>2. ModelOK'
    BY <1>4, <2>1
  <2>3. untold' = untold \ {name}
    BY <1>6 DEF ToldOf
  <2>4. ASSUME NEW i \in 1..Len(menu), NameOfItem(menu[i].item) \notin untold'
        PROVE  Agrees(menu'[i], group')
    <3>1. CASE NameOfItem(menu[i].item) = name
      BY <1>3, <1>6, <2>1, <3>1 DEF Agrees
    <3>2. CASE NameOfItem(menu[i].item) # name
      <4>1. /\ NameOfItem(menu[i].item) \notin untold /\ menu'[i] = menu[i]
            /\ group'[NameOfItem(menu[i].item)] = group[NameOfItem(menu[i].item)]
        BY <1>1, <1>3, <2>1, <2>3, <2>4, <3>2
      <4>2. Agrees(menu[i], group)
        BY <4>1 DEF StatesOK
      <4> QED
        BY <4>1, <4>2 DEF Agrees
    <3> QED
      BY <3>1, <3>2
  <2> QED
    BY <1>1, <1>3, <2>1, <2>2, <2>3, <2>4 DEF StatesOK
<1>7. CASE ActionAdded(name, state)
  <2>1. s = state
    BY <1>1, <1>2, <1>3, <1>7 DEF ActionAdded
  <2>2. CASE state = "disabled"
    BY <1>6, <1>7, <2>1, <2>2 DEF ActionAdded
  <2>3. CASE state # "disabled"
    <3>1. menu' = menu /\ untold' = untold \cup {name}
      BY <1>7, <2>3 DEF ActionAdded
    <3> QED
      BY <1>1, <1>5, <3>1
  <2> QED
    BY <2>2, <2>3
<1>8. CASE ActionRemoved(name)
  <2>1. s = "missing" /\ menu' = menu /\ untold' = untold
    BY <1>1, <1>2, <1>3, <1>8 DEF ActionRemoved, importVars
  <2> QED
    BY <1>1, <1>5, <2>1
<1>9. CASE ActionEnabled(name, state)
  <2>1. s = state /\ ToldOf(name, state = "enabled")
    BY <1>1, <1>2, <1>3, <1>9 DEF ActionEnabled
  <2> QED
    BY <1>6, <2>1
<1> QED
  BY <1>7, <1>8, <1>9

\* An importer that drops its menu.
LEMMA ClearStep ==
  ASSUME ModelOK, StatesOK, Clear, importer' \in {"invalid", "gone"},
         UNCHANGED <<group, untold>>
  PROVE  ModelOK' /\ StatesOK'
<1>1. /\ size' = 0 /\ menu' = <<>> /\ children' = {} /\ cut' = cut
      /\ <<>> \in Seq(Entry_) /\ Len(<<>>) = 0
  BY DEF Clear
<1>2. ModelType'
  BY <1>1 DEF ModelOK, ModelType
<1>3. 1..Len(menu') = {}
  BY <1>1
<1> QED
  BY <1>1, <1>2, <1>3 DEF ModelOK, StatesOK, Following

\* A change that is lost on the menu: the limit has kept something out before, or the
\* model would count the items it removes.
LEMMA IllegalChangeStep ==
  ASSUME ChannelOK, ModelOK, StatesOK, HandleIllegalChange
  PROVE  ModelOK' /\ StatesOK'
<1>1. CASE importer' = "invalid" /\ Clear
  BY <1>1, ClearStep DEF HandleIllegalChange
<1>2. CASE importer' = "left" /\ UNCHANGED <<size, menu, children, cut>>
  <2>1. /\ Following /\ Changed.at - 1 + Changed.removed > size
        /\ group' = group /\ untold' = untold
    BY DEF HandleIllegalChange
  <2>2. IsChangeOf(proxy, Changed)
    BY <1>2, DeliverStep DEF HandleIllegalChange, After
  <2>3. /\ Changed.at \in Nat \ {0} /\ Changed.removed \in Nat /\ Len(proxy) \in Nat
        /\ Changed.at + Changed.removed <= Len(proxy) + 1
    BY <2>2 DEF IsChangeOf, PartOf, Signals_
  <2>4. size \in Nat
    BY DEF ModelOK, ModelType
  <2>5. ~(size >= Len(proxy))
    BY <2>1, <2>3, <2>4
  <2>6. cut
    BY <2>1, <2>5 DEF ModelOK
  <2>7. ModelOK'
    BY <1>2, <2>1, <2>6 DEF ModelOK, ModelType, Following
  <2> QED
    BY <1>2, <2>1, <2>7 DEF StatesOK
<1> QED
  BY <1>1, <1>2 DEF HandleIllegalChange

LEMMA ModelStep ==
  ChannelOK /\ ModelOK /\ StatesOK /\ [ImportNext]_allVars => ModelOK' /\ StatesOK'
<1> SUFFICES ASSUME ChannelOK, ModelOK, StatesOK, [ImportNext]_allVars
             PROVE  ModelOK' /\ StatesOK'
  OBVIOUS
<1>1. ASSUME UNCHANGED <<importVars, proxy, group, untold>> PROVE ModelOK' /\ StatesOK'
  BY <1>1 DEF importVars, ModelOK, ModelType, StatesOK, Shown, Following
<1>2. CASE Application \/ HandleNothing \/ UNCHANGED allVars
  BY <1>1, <1>2 DEF Application, HandleNothing, allVars
<1>3. CASE Import
  <2>1. ModelOK'
    BY <1>3, ConstructStep
  <2>2. untold' = Names /\ group' = group /\ menu' \in Seq(Entry_)
    BY <1>3, <2>1 DEF Import, NewGroups, ModelOK, ModelType
  <2>3. ASSUME NEW i \in 1..Len(menu') PROVE NameOfItem(menu'[i].item) \in Names
    <3>1. menu'[i] \in Entry_
      BY <2>2
    <3> QED
      BY <3>1, NameType
  <2> QED
    BY <2>1, <2>2, <2>3 DEF StatesOK
<1>4. CASE HandleItemsChanged
  <2>1. ModelOK' /\ \A i \in 1..Len(menu') : Agrees(menu'[i], group)
    BY <1>4, ItemsChangedStep
  <2>2. untold' = {} /\ group' = group
    BY <1>4 DEF HandleItemsChanged
  <2> QED
    BY <2>1, <2>2 DEF StatesOK
<1>5. CASE HandleIllegalChange \/ ServiceUnregistered
  BY <1>5, IllegalChangeStep, ClearStep DEF ServiceUnregistered
<1>6. CASE ActionGroup
  BY <1>6, GroupStep DEF ActionGroup
<1> QED
  BY <1>2, <1>3, <1>4, <1>5, <1>6 DEF ImportNext

ImportInv == PublisherOK /\ ChannelOK /\ ModelOK /\ StatesOK

LEMMA InitImportInv == ImportInit => ImportInv
<1> SUFFICES ASSUME ImportInit PROVE ImportInv
  OBVIOUS
<1>1. <<>> \in Seq(Signals_) /\ <<>> \in Seq(Item_) /\ <<>> \in Seq(Entry_) /\ 1..Len(<<>>) = {}
  OBVIOUS
<1>2. PublisherOK
  BY InitInv DEF PublisherOK, ImportInit, Init
<1>3. ChannelOK
  BY <1>1 DEF ChannelOK, ImportInit, Init, Following
<1>4. ModelOK
  <2>1. /\ importer = "none" /\ size = 0 /\ menu = <<>> /\ children = {} /\ cut = FALSE
    BY DEF ImportInit
  <2>2. ModelType
    <3>1. size \in Nat /\ size <= Max
      BY <2>1
    <3>2. menu \in Seq(Entry_) /\ children \subseteq Nat \ {0} /\ cut \in BOOLEAN
      BY <1>1, <2>1
    <3> QED
      BY <3>1, <3>2 DEF ModelType
  <2> QED
    BY <2>1, <2>2 DEF ModelOK, Following
<1>5. StatesOK
  BY <1>1 DEF StatesOK, ImportInit, States
<1> QED
  BY <1>2, <1>3, <1>4, <1>5 DEF ImportInv

LEMMA ImportInvariant == ImportSpec => []ImportInv
<1>1. ImportInv /\ [ImportNext]_allVars => ImportInv'
  BY PublisherStep, ChannelStep, ModelStep DEF ImportInv
<1> QED
  BY <1>1, InitImportInv, PTL DEF ImportSpec

\* Whatever the publisher does and whenever its changes get to the importer, m_size
\* stays between 0 and MAX_NUM_CHILDREN, and everything is of its type: size - removed
\* never gets below 0, and nothing is added beyond the limit.
THEOREM TypeCorrect == ImportSpec => []TypeOK
<1>1. ImportInv => TypeOK
  <2> SUFFICES ASSUME ImportInv PROVE TypeOK
    OBVIOUS
  <2>1. descriptions \in Seq(Descriptions) /\ connected \subseteq Descriptions
    BY DEF ImportInv, PublisherOK, PublisherInv, ChangedDescriptionsAreFound
  <2>2. size \in 0..Max
    BY MaxAssumption DEF ImportInv, ModelOK, ModelType
  <2> QED
    BY <2>1, <2>2
    DEF TypeOK, ImportInv, PublisherOK, ChannelOK, ModelOK, ModelType, StatesOK, Entry_
<1> QED
  BY <1>1, ImportInvariant, PTL

\* However many changes are on their way, as long as the limit has kept nothing out
\* the menu has the items and children of the proxy, and with no change on its way
\* those the application publishes: the changes QtGMenuModel makes one by one, each
\* at a position in a menu that has gone on changing, add up to the published menu.
THEOREM MenuMirrors == ImportSpec => []MirrorsThePublishedMenu
<1>1. ImportInv => MirrorsThePublishedMenu
  <2> SUFFICES ASSUME ImportInv, Following, ~cut
               PROVE  /\ Shown = proxy
                      /\ children = {i \in DOMAIN proxy : proxy[i].link}
                      /\ subscribed /\ signals = <<>> => proxy = Items
    BY DEF MirrorsThePublishedMenu
  <2>1. Shown = proxy /\ children = LinksOf(proxy)
    BY DEF ImportInv, ModelOK
  <2>2. ASSUME subscribed, signals = <<>> PROVE proxy = Items
    <3>1. PICK c \in Seq(Seq(Item_)) : Chain(c, proxy, <<>>, Items)
      BY <2>2 DEF ImportInv, ChannelOK
    <3> QED
      BY <3>1, EmptyChain
  <2> QED
    BY <2>1, <2>2 DEF LinksOf
<1> QED
  BY <1>1, ImportInvariant, PTL

\* In whichever order items and actions come and go, an action of the menu that was
\* told of its state is enabled as the action of the group is.
THEOREM StatesAreTold == ImportSpec => []ActionsHaveTheirStates
<1>1. ImportInv => ActionsHaveTheirStates
  <2> SUFFICES ASSUME ImportInv, NEW i \in DOMAIN menu,
                      group[NameOfItem(menu[i].item)] # "missing",
                      NameOfItem(menu[i].item) \notin untold
               PROVE  menu[i].enabled = (group[NameOfItem(menu[i].item)] = "enabled")
    BY DEF ActionsHaveTheirStates
  <2>1. i \in 1..Len(menu)
    BY DEF ImportInv, ModelOK, ModelType
  <2>2. Agrees(menu[i], group)
    BY <2>1 DEF ImportInv, StatesOK
  <2> QED
    BY <2>2 DEF Agrees
<1> QED
  BY <1>1, ImportInvariant, PTL

-----------------------------------------------------------------------------
(* The importer follows the publisher: MirroredMenu is implemented.        *)

LEMMA LeastNumber ==
  ASSUME NEW S \in SUBSET Nat, S # {}
  PROVE  \E k \in S : \A i \in S : k <= i
<1>1. PICK k \in S : \A i \in S : <<i, k>> \notin OpToRel(<, Nat)
  BY NatLessThanWellFounded, WFMin
<1>2. \A i \in S : ~(i < k)
  BY <1>1 DEF OpToRel
<1> QED
  BY <1>2

\* One step from a menu to the next by the changes on their way.
MenuStep(first, changes, f, i) ==
  IF i = 0 THEN first
  ELSE Splice(f[i - 1], changes[i].at, changes[i].removed, changes[i].added)

\* The menus of a chain of n changes, but for the first.
Later(c, n) == [i \in 1..n |-> c[i + 1]]

\* The menus that MenuImport computes are those of the chain.
LEMMA MenusAreTheChain ==
  ASSUME NEW c, NEW first, NEW changes \in Seq(Signals_), NEW last,
         Chain(c, first, changes, last)
  PROVE  MenusAfter(first, changes) = Later(c, Len(changes))
<1> DEFINE n == Len(changes)
           Made(f) == f = [i \in 0..n |-> MenuStep(first, changes, f, i)]
           w == [i \in 0..n |-> c[i + 1]]
           v == CHOOSE f : Made(f)
<1>1. /\ n \in Nat /\ c[1] = first
      /\ \A i \in 1..n : c[i + 1] = After(c[i], changes[i])
  BY DEF Chain
<1>2. MenusAfter(first, changes) = [i \in 1..n |-> v[i]]
  BY DEF MenusAfter, MenuStep
<1> HIDE DEF n
<1>3. Made(w)
  <2>1. ASSUME NEW i \in 0..n PROVE w[i] = MenuStep(first, changes, w, i)
    <3>1. CASE i = 0
      BY <1>1, <3>1 DEF MenuStep
    <3>2. CASE i # 0
      <4>1. i \in 1..n /\ i - 1 \in 0..n /\ (i - 1) + 1 = i
        BY <1>1, <3>2
      <4>2. w[i - 1] = c[i] /\ w[i] = c[i + 1]
        BY <4>1
      <4> QED
        BY <1>1, <3>2, <4>1, <4>2 DEF MenuStep, After
    <3> QED
      BY <3>1, <3>2
  <2>2. w = [i \in 0..n |-> w[i]]
    OBVIOUS
  <2> HIDE DEF w
  <2>3. w = [i \in 0..n |-> MenuStep(first, changes, w, i)]
    BY <2>1, <2>2
  <2> QED
    BY <2>3
<1>4. Made(v)
  BY <1>3
<1> HIDE DEF v
<1>5. \A i \in 0..n : v[i] = w[i]
  <2> DEFINE T == {i \in 0..n : v[i] # w[i]}
  <2> SUFFICES ASSUME T # {} PROVE FALSE
    OBVIOUS
  <2>1. PICK k \in T : \A i \in T : k <= i
    <3>1. T \in SUBSET Nat
      BY <1>1
    <3> HIDE DEF T
    <3> QED
      BY <3>1, LeastNumber
  <2>2. k \in 0..n /\ v[k] # w[k]
    BY <2>1
  <2>3. v[k] = MenuStep(first, changes, v, k) /\ w[k] = MenuStep(first, changes, w, k)
    BY <1>3, <1>4, <2>2
  <2>4. k # 0
    BY <2>2, <2>3 DEF MenuStep
  <2>5. k - 1 \in 0..n /\ k - 1 \notin T
    <3>1. k \in Nat /\ k - 1 \in 0..n /\ ~(k <= k - 1)
      BY <1>1, <2>2, <2>4
    <3> HIDE DEF T
    <3> QED
      BY <2>1, <3>1
  <2>6. v[k - 1] = w[k - 1]
    BY <2>5
  <2> QED
    BY <2>2, <2>3, <2>4, <2>6 DEF MenuStep
<1> QED
  <2>1. \A i \in 1..n : v[i] = c[i + 1]
    BY <1>1, <1>5
  <2> QED
    BY <1>2, <2>1 DEF n, Later

IsOneMore(longer, menus, last) == longer = Append(menus, last)

\* A change more on its way is a menu more to come, the publisher's.
LEMMA OneMenuMoreToCome ==
  ASSUME NEW c, NEW first, NEW changes \in Seq(Signals_), NEW last,
         Chain(c, first, changes, last), NEW x, IsChangeOf(last, x)
  PROVE  IsOneMore(MenusAfter(first, Append(changes, x)), MenusAfter(first, changes), After(last, x))
<1> DEFINE n == Len(changes)
           z == After(last, x)
           C == Append(c, z)
           Q == Append(changes, x)
<1>1. x \in Signals_ /\ Chain(C, first, Q, z)
  BY ChainAppend DEF IsChangeOf
<1>2. n \in Nat /\ Q \in Seq(Signals_) /\ Len(Q) = n + 1
  BY <1>1
<1>3. MenusAfter(first, Q) = [i \in 1..(n + 1) |-> C[i + 1]]
  <2> HIDE DEF z, C, Q, n
  <2> QED
    BY <1>1, <1>2, MenusAreTheChain DEF Later
<1>4. MenusAfter(first, changes) = [i \in 1..n |-> c[i + 1]]
  BY MenusAreTheChain DEF Later
<1>5. c \in Seq(Seq(Item_)) /\ Len(c) = n + 1 /\ z \in Seq(Item_)
  <2>1. z \in Seq(Item_)
    BY AfterType DEF Replaced
  <2> QED
    BY <2>1 DEF Chain
<1> DEFINE M == [i \in 1..n |-> c[i + 1]]
<1> HIDE DEF z, n
<1>6. C[n + 2] = z /\ \A i \in 1..(n + 1) : C[i] = c[i]
  BY <1>2, <1>5, AppendProperties
<1>7. M \in Seq(Seq(Item_)) /\ Len(M) = n
  BY <1>2, <1>5
<1>8. Append(M, z) = [i \in 1..(n + 1) |-> C[i + 1]]
  <2>1. /\ Append(M, z) \in Seq(Seq(Item_)) /\ Len(Append(M, z)) = n + 1
        /\ Append(M, z)[n + 1] = z /\ \A i \in 1..n : Append(M, z)[i] = M[i]
    <3> HIDE DEF M
    <3> QED
      BY <1>5, <1>7, AppendProperties
  <2>2. ASSUME NEW i \in 1..n PROVE M[i] = C[i + 1]
    <3>1. i + 1 \in 1..(n + 1)
      BY <1>2
    <3>2. C[i + 1] = c[i + 1]
      BY <1>6, <3>1
    <3> QED
      BY <3>2
  <2> HIDE DEF M, C
  <2>3. \A i \in 1..(n + 1) : Append(M, z)[i] = C[i + 1]
    <3> SUFFICES ASSUME NEW i \in 1..(n + 1) PROVE Append(M, z)[i] = C[i + 1]
      OBVIOUS
    <3>1. CASE i = n + 1
      <4>1. i + 1 = n + 2
        BY <1>2, <3>1
      <4> QED
        BY <1>6, <2>1, <3>1, <4>1
    <3>2. CASE i # n + 1
      <4>1. i \in 1..n
        BY <1>2, <3>2
      <4> QED
        BY <2>1, <2>2, <4>1
    <3> QED
      BY <3>1, <3>2
  <2>4. Append(M, z) = [i \in 1..(n + 1) |-> Append(M, z)[i]]
    <3> DEFINE A == Append(M, z)
    <3> HIDE DEF A
    <3>1. A \in Seq(Seq(Item_)) /\ Len(A) = n + 1
      BY <2>1 DEF A
    <3>2. A = [i \in 1..(n + 1) |-> A[i]]
      BY <3>1
    <3> QED
      BY <3>2 DEF A
  <2> QED
    BY <2>3, <2>4
<1> QED
  BY <1>3, <1>4, <1>8 DEF z, IsOneMore

\* The first change makes the first menu to come, and the others the rest.
LEMMA OneMenuHasCome ==
  ASSUME NEW c, NEW first, NEW changes \in Seq(Signals_), NEW last,
         Chain(c, first, changes, last), changes # <<>>
  PROVE  /\ MenusAfter(first, changes) # <<>>
         /\ Head(MenusAfter(first, changes)) = After(first, Head(changes))
         /\ MenusAfter(After(first, Head(changes)), Tail(changes)) = Tail(MenusAfter(first, changes))
<1> DEFINE n == Len(changes)
           z == After(first, Head(changes))
           C == Tail(c)
           Q == Tail(changes)
           M == [i \in 1..n |-> c[i + 1]]
<1>1. IsChangeOf(first, Head(changes)) /\ Chain(C, z, Q, last)
  BY ChainTail
<1>2. n \in Nat /\ n >= 1 /\ Head(changes) = changes[1] /\ Q \in Seq(Signals_) /\ Len(Q) = n - 1
  BY HeadTailProperties
<1>3. MenusAfter(z, Q) = [i \in 1..(n - 1) |-> C[i + 1]]
  <2> HIDE DEF z, C, Q, n
  <2>1. MenusAfter(z, Q) = Later(C, Len(Q))
    BY <1>1, <1>2, MenusAreTheChain
  <2> QED
    BY <1>2, <2>1 DEF Later
<1>4. MenusAfter(first, changes) = M
  BY MenusAreTheChain DEF Later
<1>5. c \in Seq(Seq(Item_)) /\ Len(c) = n + 1 /\ c[2] = z
  <2>1. c[1] = first /\ \A i \in 1..n : c[i + 1] = After(c[i], changes[i])
    BY DEF Chain
  <2>2. c[2] = After(c[1], changes[1])
    <3>1. 1 \in 1..n /\ 1 + 1 = 2
      BY <1>2
    <3> QED
      BY <2>1, <3>1
  <2> QED
    BY <1>2, <2>1, <2>2 DEF Chain
<1> HIDE DEF z, n
<1>6. \A i \in 1..n : C[i] = c[i + 1]
  <2>1. c # <<>>
    BY <1>2, <1>5
  <2>2. Len(C) = n /\ \A i \in 1..Len(C) : C[i] = c[i + 1]
    BY <1>2, <1>5, <2>1, HeadTailProperties
  <2> QED
    BY <2>2
<1>7. M \in Seq(Seq(Item_)) /\ Len(M) = n /\ M # <<>>
  <2>1. M \in Seq(Seq(Item_)) /\ Len(M) = n
    BY <1>2, <1>5
  <2> HIDE DEF M
  <2>2. Len(M) # 0
    BY <1>2, <2>1
  <2> QED
    BY <2>1, <2>2
<1>8. /\ Tail(M) \in Seq(Seq(Item_)) /\ Len(Tail(M)) = n - 1 /\ Head(M) = M[1]
      /\ \A i \in 1..(n - 1) : Tail(M)[i] = M[i + 1]
  <2> HIDE DEF M
  <2>1. /\ Head(M) = M[1] /\ Tail(M) \in Seq(Seq(Item_)) /\ Len(Tail(M)) = Len(M) - 1
        /\ \A i \in 1..Len(Tail(M)) : Tail(M)[i] = M[i + 1]
    BY <1>7, HeadTailProperties
  <2> QED
    BY <1>7, <2>1
<1>9. M[1] = z
  BY <1>2, <1>5
<1>10. ASSUME NEW i \in 1..(n - 1) PROVE M[i + 1] = C[i + 1]
  <2>1. i + 1 \in 1..n
    BY <1>2
  <2>2. C[i + 1] = c[(i + 1) + 1]
    BY <1>6, <2>1
  <2> QED
    BY <2>1, <2>2
<1> HIDE DEF M, C
<1>11. Tail(M) = [i \in 1..(n - 1) |-> C[i + 1]]
  <2> DEFINE A == Tail(M)
  <2> HIDE DEF A
  <2>1. A \in Seq(Seq(Item_)) /\ Len(A) = n - 1 /\ \A i \in 1..(n - 1) : A[i] = C[i + 1]
    BY <1>8, <1>10 DEF A
  <2>2. A = [i \in 1..(n - 1) |-> C[i + 1]]
    BY <1>2, <2>1
  <2> QED
    BY <2>2 DEF A
<1> QED
  BY <1>3, <1>4, <1>7, <1>8, <1>9, <1>11 DEF z

\* What Mirror has for stage and coming.
Stage ==
  IF importer \in {"invalid", "gone"} THEN "dropped"
  ELSE IF subscribed THEN "followed" ELSE "unheard"

Coming == IF Following THEN MenusAfter(proxy, signals) ELSE <<>>

LEMMA NoMenuToCome == ASSUME NEW first PROVE MenusAfter(first, <<>>) = <<>>
BY DEF MenusAfter

\* The four steps of the mirror, as the importer's.
LEMMA MirrorPublishes ==
  ASSUME Items' \in Seq(Item_), Stage' = Stage, proxy' = proxy,
         Coming' = IF Stage = "followed" THEN Append(Coming, Items') ELSE Coming
  PROVE  Mirror!MirrorNext
BY DEF Mirror!MirrorNext, Mirror!Publish, Stage, Coming

LEMMA MirrorListens ==
  ASSUME Stage = "unheard", Stage' = "followed", Coming' = <<Items>>,
         Items' = Items, proxy' = proxy
  PROVE  Mirror!MirrorNext
BY DEF Mirror!MirrorNext, Mirror!Listen, Stage, Coming

LEMMA MirrorFollows ==
  ASSUME Coming # <<>>, proxy' = Head(Coming), Coming' = Tail(Coming),
         Items' = Items, Stage' = Stage
  PROVE  Mirror!MirrorNext
BY DEF Mirror!MirrorNext, Mirror!Follow, Stage, Coming

LEMMA MirrorDrops ==
  ASSUME Stage # "dropped", Stage' = "dropped", Coming' = <<>>, Items' = Items,
         proxy' = proxy \/ (Coming # <<>> /\ proxy' = Head(Coming))
  PROVE  Mirror!MirrorNext
BY DEF Mirror!MirrorNext, Mirror!Drop, Stage, Coming

LEMMA MirrorStutters ==
  ASSUME Items' = Items, Stage' = Stage, Coming' = Coming, proxy' = proxy
  PROVE  UNCHANGED Mirror!mirrorVars
BY DEF Mirror!mirrorVars, Stage, Coming

\* A change that gets to the proxy is the next menu.
LEMMA NextMenuComes ==
  ASSUME ChannelOK, Following, signals # <<>>, signals' = Tail(signals),
         proxy' = After(proxy, Changed)
  PROVE  /\ Coming # <<>> /\ proxy' = Head(Coming)
         /\ MenusAfter(proxy', signals') = Tail(Coming)
<1>1. subscribed /\ signals \in Seq(Signals_) /\ Coming = MenusAfter(proxy, signals)
  BY DEF ChannelOK, Coming, Following
<1>2. PICK c \in Seq(Seq(Item_)) : Chain(c, proxy, signals, Items)
  BY <1>1 DEF ChannelOK
<1> QED
  BY <1>1, <1>2, OneMenuHasCome DEF Changed

\* The publisher's step is one of the mirror, or none.
LEMMA PublishMapsToPublish ==
  ASSUME PublisherOK, PublisherOK', ChannelOK, Application, Publish
  PROVE  [Mirror!MirrorNext]_Mirror!mirrorVars
<1>1. Announces
  BY PublishAnnounces DEF PublisherOK
<1>2. proxy' = proxy /\ importer' = importer /\ subscribed' = subscribed /\ Stage' = Stage
  BY <1>1 DEF Application, Announces, importVars, Stage
<1>3. CASE Items' = Items /\ signals' = signals
  <2>1. Coming' = Coming
    BY <1>2, <1>3 DEF Coming, Following
  <2> QED
    BY <1>2, <1>3, <2>1, MirrorStutters
<1>4. ASSUME NEW x \in Signals_, IsChangeOf(Items, x), Items' = After(Items, x),
             signals' = IF subscribed THEN Append(signals, x) ELSE signals
      PROVE  Mirror!MirrorNext
  <2>1. Items' \in Seq(Item_)
    BY <1>4, AfterType DEF Replaced
  <2>2. CASE Following /\ subscribed
    <3>1. PICK c \in Seq(Seq(Item_)) : Chain(c, proxy, signals, Items)
      BY <2>2 DEF ChannelOK
    <3>2. signals \in Seq(Signals_)
      BY DEF ChannelOK
    <3>3. MenusAfter(proxy, Append(signals, x))
            = Append(MenusAfter(proxy, signals), After(Items, x))
      <4>1. IsOneMore(MenusAfter(proxy, Append(signals, x)), MenusAfter(proxy, signals),
                      After(Items, x))
        BY <1>4, <3>1, <3>2, OneMenuMoreToCome
      <4> QED
        BY <4>1 DEF IsOneMore
    <3>4. Coming' = Append(Coming, Items')
      BY <1>2, <1>4, <2>2, <3>3 DEF Coming, Following
    <3> QED
      BY <1>2, <2>1, <2>2, <3>4, MirrorPublishes DEF Stage, Following
  <2>3. CASE ~(Following /\ subscribed)
    <3>1. Stage # "followed"
      BY <2>3 DEF Stage, ChannelOK, Following
    <3>2. Coming' = Coming
      BY <1>2, <1>4, <2>3 DEF Coming, Following
    <3> QED
      BY <1>2, <2>1, <3>1, <3>2, MirrorPublishes
  <2> QED
    BY <2>2, <2>3
<1> QED
  BY <1>1, <1>3, <1>4 DEF Announces

\* The answer to the subscription is the first menu to come.
LEMMA SubscribeMapsToListen ==
  ASSUME PublisherOK, ChannelOK, importer = "made", Application, Subscribe
  PROVE  Mirror!MirrorNext
<1> DEFINE x == [at |-> 1, removed |-> 0, added |-> Items]
<1>1. /\ ~subscribed /\ subscribed' = TRUE /\ signals' = <<x>>
      /\ proxy' = proxy /\ importer' = importer
      /\ proxy = <<>> /\ signals = <<>> /\ Items' = Items
  BY ItemsStay DEF Application, Subscribe, ChannelOK, importVars, publisherVars
<1>2. Items \in Seq(Item_)
  BY ItemsAre, ItemsOfType DEF PublisherOK, PublisherInv
<1>3. x \in Signals_ /\ x.at = 1 /\ x.removed = 0 /\ x.added = Items
  BY <1>2 DEF Signals_
<1> HIDE DEF x
<1>4. <<>> \in Seq(Item_) /\ Len(<<>>) = 0
  OBVIOUS
<1>5. PartOf(Item_, <<>>, 1, 0, Items)
  BY <1>2, <1>4 DEF PartOf
<1>6. IsChangeOf(<<>>, x)
  BY <1>3, <1>5 DEF IsChangeOf
<1>7. After(<<>>, x) = Items
  <2>1. Replaced(Item_, Items, <<>>, 1, 0, Items)
    BY <1>2, <1>4 DEF Replaced
  <2> QED
    BY <1>3, <1>5, <2>1, ReplacedIsSplice DEF After
<1>8. Chain(<<<<>>, Items>>, <<>>, <<x>>, Items)
  BY <1>6, <1>7, OneChange
<1>9. MenusAfter(<<>>, <<x>>) = <<Items>>
  <2> DEFINE c == <<<<>>, Items>>
             Q == <<x>>
  <2>1. c[2] = Items /\ Q \in Seq(Signals_) /\ Len(Q) = 1
    BY <1>3
  <2>2. Chain(c, <<>>, Q, Items)
    BY <1>8
  <2> HIDE DEF c, Q
  <2>3. MenusAfter(<<>>, Q) = Later(c, Len(Q))
    BY <2>1, <2>2, MenusAreTheChain
  <2>4. Later(c, 1) = <<Items>>
    BY <2>1 DEF Later
  <2> QED
    BY <2>1, <2>3, <2>4 DEF Q
<1>10. Stage = "unheard" /\ Stage' = "followed" /\ Coming' = <<Items>>
  BY <1>1, <1>9 DEF Stage, Coming, Following
<1> QED
  BY <1>1, <1>10, MirrorListens

LEMMA ChangeMapsToFollow ==
  ASSUME ChannelOK, HandleItemsChanged
  PROVE  Mirror!MirrorNext
<1>1. /\ Following /\ importer' = importer /\ subscribed' = subscribed
      /\ signals # <<>> /\ signals' = Tail(signals) /\ proxy' = After(proxy, Changed)
      /\ Items' = Items
  BY ItemsStay DEF HandleItemsChanged, After
<1>2. Stage' = Stage /\ Coming' = MenusAfter(proxy', signals')
  BY <1>1 DEF Stage, Coming, Following
<1> QED
  BY <1>1, <1>2, NextMenuComes, MirrorFollows

\* An illegal change gets to the proxy, whether or not the menu is dropped.
LEMMA IllegalChangeMaps ==
  ASSUME ChannelOK, HandleIllegalChange
  PROVE  Mirror!MirrorNext
<1>1. /\ Following /\ importer' \in {"invalid", "left"} /\ subscribed' = subscribed
      /\ signals # <<>> /\ signals' = Tail(signals) /\ proxy' = After(proxy, Changed)
      /\ Items' = Items
  BY ItemsStay DEF HandleIllegalChange, After
<1>2. CASE importer' = "invalid"
  <2>1. Stage # "dropped" /\ Stage' = "dropped" /\ Coming' = <<>>
    BY <1>1, <1>2 DEF Stage, Coming, Following
  <2> QED
    BY <1>1, <2>1, NextMenuComes, MirrorDrops
<1>3. CASE importer' = "left"
  <2>1. Stage' = Stage /\ Coming' = MenusAfter(proxy', signals')
    BY <1>1, <1>3 DEF Stage, Coming, Following
  <2> QED
    BY <1>1, <2>1, NextMenuComes, MirrorFollows
<1> QED
  BY <1>1, <1>2, <1>3

\* A change of nothing is a menu like the one before.
LEMMA NothingMapsToFollow ==
  ASSUME ChannelOK, HandleNothing
  PROVE  [Mirror!MirrorNext]_Mirror!mirrorVars
<1>1. /\ signals # <<>> /\ signals' = Tail(signals) /\ importer' = importer
      /\ proxy' = proxy /\ subscribed' = subscribed /\ Items' = Items
      /\ ~Following \/ Changed.removed + Len(Changed.added) = 0
  BY ItemsStay DEF HandleNothing, importVars
<1>2. Stage' = Stage
  BY <1>1 DEF Stage
<1>3. CASE Following
  <2>1. subscribed /\ signals \in Seq(Signals_)
    BY <1>1 DEF ChannelOK
  <2>2. PICK c \in Seq(Seq(Item_)) : Chain(c, proxy, signals, Items)
    BY <1>3, <2>1 DEF ChannelOK
  <2>3. IsChangeOf(proxy, Changed)
    BY <1>1, <2>1, <2>2, ChainTail DEF Changed
  <2>4. proxy' = After(proxy, Changed)
    BY <1>1, <1>3, <2>3, NoChange
  <2>5. Coming' = MenusAfter(proxy', signals')
    BY <1>1, <1>3 DEF Coming, Following
  <2> QED
    BY <1>1, <1>2, <1>3, <2>4, <2>5, NextMenuComes, MirrorFollows
<1>4. CASE ~Following
  <2>1. Coming' = Coming
    BY <1>1, <1>4 DEF Coming, Following
  <2> QED
    BY <1>1, <1>2, <2>1, MirrorStutters
<1> QED
  BY <1>3, <1>4

LEMMA StepsMapToMirror ==
  PublisherOK /\ PublisherOK' /\ ChannelOK /\ [ImportNext]_allVars
    => [Mirror!MirrorNext]_Mirror!mirrorVars
<1> SUFFICES ASSUME PublisherOK, PublisherOK', ChannelOK, [ImportNext]_allVars
             PROVE  [Mirror!MirrorNext]_Mirror!mirrorVars
  OBVIOUS
<1>1. CASE Application
  BY <1>1, PublishMapsToPublish, SubscribeMapsToListen DEF Application
<1>2. CASE Import
  <2>1. /\ importer \in {"none", "made"} /\ importer' = "made" /\ subscribed' = subscribed
        /\ signals' = signals /\ proxy' = proxy /\ Items' = Items
    BY <1>2, ItemsStay DEF Import, vars
  <2>2. Stage' = Stage
    BY <2>1 DEF Stage
  <2>3. Coming' = Coming
    <3>1. CASE importer = "none"
      <4>1. signals = <<>>
        BY <3>1 DEF ChannelOK
      <4> QED
        BY <2>1, <3>1, <4>1, NoMenuToCome DEF Coming, Following
    <3>2. CASE importer = "made"
      BY <2>1, <3>2 DEF Coming, Following
    <3> QED
      BY <2>1, <3>1, <3>2
  <2> QED
    BY <2>1, <2>2, <2>3, MirrorStutters
<1>3. CASE HandleItemsChanged
  BY <1>3, ChangeMapsToFollow
<1>4. CASE HandleIllegalChange
  BY <1>4, IllegalChangeMaps
<1>5. CASE HandleNothing
  BY <1>5, NothingMapsToFollow
<1>6. CASE ServiceUnregistered
  <2>1. Following /\ importer' = "gone" /\ proxy' = proxy /\ Items' = Items
    BY <1>6, ItemsStay DEF ServiceUnregistered, vars
  <2>2. Stage # "dropped" /\ Stage' = "dropped" /\ Coming' = <<>>
    BY <2>1 DEF Stage, Coming, Following
  <2> QED
    BY <2>1, <2>2, MirrorDrops
<1>7. CASE ActionGroup \/ UNCHANGED allVars
  <2>1. UNCHANGED <<publisherVars, subscribed, signals, proxy, importer>>
    BY <1>7
    DEF ActionGroup, ActionAdded, ActionRemoved, ActionEnabled, allVars, importVars, vars
  <2>2. Items' = Items /\ Stage' = Stage /\ Coming' = Coming
    BY <2>1, ItemsStay DEF Stage, Coming, Following
  <2> QED
    BY <2>1, <2>2, MirrorStutters
<1> QED
  BY <1>1, <1>2, <1>3, <1>4, <1>5, <1>6, <1>7 DEF ImportNext

\* However the application changes its menu and however late its changes arrive, the
\* proxy that hud-service has of it goes through the very menus the application
\* published since it was subscribed to, in their order, and through no other: every
\* position that libhud announces is one in the menu the changes before it have made.
THEOREM ImportImplementsMirror == ImportSpec => FollowsThePublisher
<1>1. ImportInit => Mirror!MirrorInit
  <2> SUFFICES ASSUME ImportInit PROVE Mirror!MirrorInit
    OBVIOUS
  <2>1. /\ descriptions = <<>> /\ subscribed = FALSE /\ importer = "none" /\ proxy = <<>>
    BY DEF ImportInit, Init
  <2>2. Items = <<>>
    BY <2>1 DEF Items
  <2> QED
    BY <2>1, <2>2 DEF Mirror!MirrorInit, Following
<1>2. ImportInv /\ ImportInv' /\ [ImportNext]_allVars => [Mirror!MirrorNext]_Mirror!mirrorVars
  BY StepsMapToMirror DEF ImportInv
<1> QED
  BY <1>1, <1>2, ImportInvariant, PTL DEF ImportSpec, FollowsThePublisher, Mirror!MirrorSpec
=============================================================================
