------------------------- MODULE ClientQueryProofs -------------------------
(***************************************************************************)
(* Theorems about ClientQuery for any number of processes, texts, lives of *)
(* the service and requests: the types, that an object has one query, that *)
(* a stray proxy is about to go, and that a quiet service searches for the *)
(* text the object has.                                                    *)
(***************************************************************************)
EXTENDS ClientQuery, FunctionTheorems, FiniteSetTheorems, SequenceTheorems, TLAPS

-----------------------------------------------------------------------------
(* Counting the elements of a sequence.                                    *)

\* The positions of s that hold an element of K.
At(s, K) == {i \in 1..Len(s) : s[i] \in K}

Count(s, K) == Cardinality(At(s, K))

\* Positions are finitely many, and no position is counted as 0.
LEMMA CountIsNat ==
  ASSUME NEW T, NEW s \in Seq(T), NEW K
  PROVE  /\ IsFiniteSet(At(s, K)) /\ Count(s, K) \in Nat
         /\ Count(s, K) = 0 <=> At(s, K) = {}
<1>1. IsFiniteSet(1..Len(s))
  BY FS_Interval
<1>2. At(s, K) \in SUBSET (1..Len(s))
  BY DEF At
<1>3. IsFiniteSet(At(s, K))
  BY <1>1, <1>2, FS_Subset
<1> QED
  BY <1>3, FS_CardinalityType, FS_EmptySet DEF Count

\* One more element.
LEMMA CountAppend ==
  ASSUME NEW T, NEW s \in Seq(T), NEW m \in T, NEW K
  PROVE  Count(Append(s, m), K) = Count(s, K) + (IF m \in K THEN 1 ELSE 0)
<1> DEFINE n == Len(s) + 1
<1>1. /\ Len(Append(s, m)) = n /\ Len(s) \in Nat
      /\ \A i \in 1..n : Append(s, m)[i] = IF i = n THEN m ELSE s[i]
  OBVIOUS
<1>2. IsFiniteSet(At(s, K)) /\ Count(s, K) \in Nat
  BY CountIsNat
<1>3. CASE m \in K
  <2>1. At(Append(s, m), K) = At(s, K) \cup {n} /\ n \notin At(s, K)
    BY <1>1, <1>3 DEF At
  <2>2. Cardinality(At(s, K) \cup {n}) = Cardinality(At(s, K)) + 1
    BY <1>2, <2>1, FS_AddElement
  <2> QED
    BY <1>3, <2>1, <2>2 DEF Count
<1>4. CASE m \notin K
  <2>1. At(Append(s, m), K) = At(s, K)
    BY <1>1, <1>4 DEF At
  <2> QED
    BY <1>2, <1>4, <2>1 DEF Count
<1> QED
  BY <1>3, <1>4

Shifted(A, d) == {i + d : i \in A}

\* Moving finitely many numbers by the same distance keeps how many they are.
LEMMA ShiftedSet ==
  ASSUME NEW A \in SUBSET Int, IsFiniteSet(A), NEW d \in Int
  PROVE  IsFiniteSet(Shifted(A, d)) /\ Cardinality(Shifted(A, d)) = Cardinality(A)
<1> DEFINE B == {i + d : i \in A}
           f == [i \in A |-> i + d]
<1>1. f \in Bijection(A, B)
  <2>1. f \in [A -> B]
    OBVIOUS
  <2>2. \A i, j \in A : f[i] = f[j] => i = j
    OBVIOUS
  <2>3. \A b \in B : \E i \in A : f[i] = b
    OBVIOUS
  <2> HIDE DEF f, B
  <2>4. f \in Injection(A, B)
    BY <2>1, <2>2 DEF Injection, IsInjective
  <2>5. f \in Surjection(A, B)
    BY <2>1, <2>3 DEF Surjection
  <2> QED
    BY <2>4, <2>5 DEF Bijection
<1> HIDE DEF f
<1>2. ExistsBijection(A, B)
  BY <1>1 DEF ExistsBijection
<1> HIDE DEF B
<1>3. IsFiniteSet(B) /\ Cardinality(B) = Cardinality(A)
  BY <1>2, FS_Bijection
<1> QED
  BY <1>3 DEF B, Shifted

\* The first element gone.
LEMMA CountTail ==
  ASSUME NEW T, NEW s \in Seq(T), s # <<>>, NEW K
  PROVE  Count(s, K) = Count(Tail(s), K) + (IF Head(s) \in K THEN 1 ELSE 0)
<1> DEFINE A == At(Tail(s), K)
           B == Shifted(A, 1)
<1>1. /\ Tail(s) \in Seq(T) /\ Len(s) \in Nat \ {0} /\ Len(Tail(s)) = Len(s) - 1
      /\ Head(s) = s[1] /\ \A i \in 1..(Len(s) - 1) : Tail(s)[i] = s[i + 1]
  OBVIOUS
<1>2. IsFiniteSet(A) /\ Cardinality(A) \in Nat
  BY <1>1, CountIsNat DEF Count
<1>3. IsFiniteSet(B) /\ Cardinality(B) = Cardinality(A)
  <2>1. A \in SUBSET Int
    BY DEF At
  <2> HIDE DEF A
  <2> QED
    BY <1>2, <2>1, ShiftedSet DEF B
<1>4. /\ \A i : i \in B <=> i \in 2..Len(s) /\ s[i] \in K
      /\ 1 \notin B
  <2>0. \A i : i \in B <=> \E j \in A : i = j + 1
    BY DEF Shifted
  <2>1. \A i \in A : i \in 1..(Len(s) - 1) /\ s[i + 1] \in K
    BY <1>1 DEF At
  <2>2. ASSUME NEW i \in 2..Len(s), s[i] \in K PROVE i \in B
    <3>1. i - 1 \in 1..(Len(s) - 1) /\ s[(i - 1) + 1] \in K /\ i = (i - 1) + 1
      BY <1>1, <2>2
    <3>2. i - 1 \in A
      BY <1>1, <3>1 DEF At
    <3> QED
      BY <2>0, <3>1, <3>2
  <2>3. \A i \in B : i \in 2..Len(s) /\ s[i] \in K
    BY <1>1, <2>0, <2>1
  <2> HIDE DEF B
  <2> QED
    BY <2>2, <2>3
<1> HIDE DEF A, B
<1>5. CASE Head(s) \in K
  <2>1. At(s, K) = B \cup {1}
    BY <1>1, <1>4, <1>5 DEF At
  <2>2. Cardinality(B \cup {1}) = Cardinality(B) + 1
    BY <1>3, <1>4, FS_AddElement
  <2> QED
    BY <1>3, <1>5, <2>1, <2>2 DEF Count, A
<1>6. CASE Head(s) \notin K
  <2>1. At(s, K) = B
    BY <1>1, <1>4, <1>6 DEF At
  <2> QED
    BY <1>2, <1>3, <1>6, <2>1 DEF Count, A
<1> QED
  BY <1>5, <1>6

\* One sequence after another.
LEMMA CountConcat ==
  ASSUME NEW T, NEW s \in Seq(T), NEW e \in Seq(T), NEW K
  PROVE  Count(s \o e, K) = Count(s, K) + Count(e, K)
<1> DEFINE A == At(e, K)
           n == Len(s)
           B == Shifted(A, n)
<1>1. /\ n \in Nat /\ Len(e) \in Nat /\ Len(s \o e) = n + Len(e)
      /\ \A i \in 1..n : (s \o e)[i] = s[i]
      /\ \A i \in 1..Len(e) : (s \o e)[i + n] = e[i]
  OBVIOUS
<1>2. /\ IsFiniteSet(A) /\ Cardinality(A) \in Nat
      /\ IsFiniteSet(At(s, K)) /\ Count(s, K) \in Nat
  BY CountIsNat DEF Count
<1>3. IsFiniteSet(B) /\ Cardinality(B) = Cardinality(A)
  <2>1. A \in SUBSET Int
    BY DEF At
  <2> HIDE DEF A
  <2> QED
    BY <1>1, <1>2, <2>1, ShiftedSet
<1>4. At(s \o e, K) = At(s, K) \cup B /\ At(s, K) \cap B = {}
  <2>0. \A i : i \in B <=> \E j \in A : i = j + n
    BY DEF Shifted
  <2>1. \A i \in A : i \in 1..Len(e) /\ (s \o e)[i + n] \in K
    BY <1>1 DEF At
  <2>2. ASSUME NEW i \in At(s \o e, K), i > n PROVE i \in B
    <3>1. i \in 1..(n + Len(e)) /\ (s \o e)[i] \in K
      BY <1>1 DEF At
    <3>2. i - n \in 1..Len(e) /\ (i - n) + n = i
      BY <1>1, <2>2, <3>1
    <3>3. i - n \in A
      BY <1>1, <3>1, <3>2 DEF At
    <3> QED
      BY <2>0, <3>2, <3>3
  <2>3. ASSUME NEW i \in At(s \o e, K), ~(i > n) PROVE i \in At(s, K)
    BY <1>1, <2>3 DEF At
  <2>4. \A i \in B : i \in 1..(n + Len(e)) /\ i > n /\ (s \o e)[i] \in K
    BY <1>1, <2>0, <2>1
  <2>5. \A i \in At(s, K) : i \in 1..n /\ i \in 1..(n + Len(e)) /\ (s \o e)[i] \in K
    BY <1>1 DEF At
  <2> HIDE DEF B
  <2>6. At(s \o e, K) = {i \in 1..(n + Len(e)) : (s \o e)[i] \in K}
    BY <1>1 DEF At
  <2> HIDE DEF n
  <2>7. At(s, K) \cap B = {}
    BY <1>1, <2>4, <2>5
  <2> QED
    BY <2>2, <2>3, <2>4, <2>5, <2>6, <2>7
<1> HIDE DEF A, B, n
<1>5. Cardinality(At(s, K) \cup B) = Cardinality(At(s, K)) + Cardinality(B)
  <2>1. Cardinality(At(s, K) \cup B)
          = Cardinality(At(s, K)) + Cardinality(B) - Cardinality(At(s, K) \cap B)
    BY <1>2, <1>3, FS_Union
  <2>2. Cardinality(At(s, K) \cap B) = 0
    BY <1>4, FS_EmptySet
  <2>3. Cardinality(At(s, K)) \in Nat /\ Cardinality(B) \in Nat
    BY <1>2, <1>3 DEF Count
  <2> QED
    BY <2>1, <2>2, <2>3
<1> QED
  BY <1>3, <1>4, <1>5 DEF Count, A
-----------------------------------------------------------------------------
(* The elements at some of the positions of a sequence.                    *)

\* i's place among the positions of S, from 1.
PlaceIn(S, i) == Cardinality({j \in S : j <= i})

\* The position whose place is k.
NthIn(S, k) == CHOOSE i \in S : PlaceIn(S, i) = k

\* Each place up to the number of positions is that of one position.
LEMMA PlacesArePositions ==
  ASSUME NEW n \in Nat, NEW S \in SUBSET (1..n)
  PROVE  /\ Cardinality(S) \in Nat
         /\ \A k \in 1..Cardinality(S) : NthIn(S, k) \in S /\ PlaceIn(S, NthIn(S, k)) = k
         /\ \A i \in S : PlaceIn(S, i) \in 1..Cardinality(S) /\ NthIn(S, PlaceIn(S, i)) = i
         /\ \A i, j \in S : i < j => PlaceIn(S, i) < PlaceIn(S, j)
<1> DEFINE upto(i) == {j \in S : j <= i}
           place == [i \in S |-> PlaceIn(S, i)]
           R == {place[i] : i \in S}
           c == Cardinality(S)
<1>1. IsFiniteSet(S) /\ c \in Nat
  <2>1. IsFiniteSet(1..n)
    BY FS_Interval
  <2> QED
    BY <2>1, FS_Subset, FS_CardinalityType
<1>2. \A i \in S : i \in Nat
  OBVIOUS
<1>3. ASSUME NEW i \in S
      PROVE  /\ IsFiniteSet(upto(i)) /\ place[i] = Cardinality(upto(i))
             /\ place[i] \in 1..c
  <2>1. IsFiniteSet(upto(i)) /\ Cardinality(upto(i)) <= c
    BY <1>1, FS_Subset
  <2>2. i \in upto(i)
    BY <1>2
  <2>3. Cardinality(upto(i)) \in Nat /\ Cardinality(upto(i)) # 0
    BY <2>1, <2>2, FS_CardinalityType, FS_EmptySet
  <2>4. place[i] = Cardinality(upto(i))
    BY DEF PlaceIn
  <2> HIDE DEF upto, place, c
  <2> QED
    BY <1>1, <2>1, <2>3, <2>4
<1>4. ASSUME NEW i \in S, NEW j \in S, i < j PROVE place[i] < place[j]
  <2>1. upto(i) \cup {j} \in SUBSET upto(j) /\ j \notin upto(i)
    <3>1. \A x \in S : x <= i => x <= j
      BY ONLY <1>2, <1>4
    <3>2. j <= j /\ ~(j <= i)
      BY ONLY <1>2, <1>4
    <3> QED
      BY <3>1, <3>2
  <2>2. IsFiniteSet(upto(i)) /\ IsFiniteSet(upto(j))
    BY <1>3
  <2>3. Cardinality(upto(i) \cup {j}) = Cardinality(upto(i)) + 1
    BY <2>1, <2>2, FS_AddElement
  <2>4. Cardinality(upto(i) \cup {j}) <= Cardinality(upto(j))
    BY <2>1, <2>2, FS_Subset
  <2>5. /\ place[i] = Cardinality(upto(i)) /\ place[j] = Cardinality(upto(j))
        /\ place[i] \in 1..c /\ place[j] \in 1..c
    BY <1>3
  <2> HIDE DEF upto, place, c
  <2> QED
    BY <1>1, <2>3, <2>4, <2>5
<1>5. \A i, j \in S : place[i] = place[j] => i = j
  <2> SUFFICES ASSUME NEW i \in S, NEW j \in S, i # j PROVE place[i] # place[j]
    OBVIOUS
  <2>1. i < j \/ j < i
    BY <1>2
  <2>2. place[i] \in 1..c /\ place[j] \in 1..c
    BY <1>3
  <2>3. place[i] < place[j] \/ place[j] < place[i]
    BY <1>4, <2>1
  <2> HIDE DEF place, c
  <2> QED
    BY <1>1, <2>2, <2>3
<1>6. Cardinality(R) = c
  <2>1. place \in [S -> R]
    OBVIOUS
  <2>2. \A r \in R : \E i \in S : place[i] = r
    OBVIOUS
  <2> HIDE DEF place, R
  <2>3. place \in Injection(S, R)
    BY <1>5, <2>1 DEF Injection, IsInjective
  <2>4. place \in Surjection(S, R)
    BY <2>1, <2>2 DEF Surjection
  <2>5. ExistsBijection(S, R)
    BY <2>3, <2>4 DEF Bijection, ExistsBijection
  <2> QED
    BY <1>1, <2>5, FS_Bijection
<1>7. R = 1..c
  <2>1. R \in SUBSET (1..c)
    BY <1>3
  <2>2. IsFiniteSet(1..c) /\ Cardinality(1..c) = IF 1 > c THEN 0 ELSE c - 1 + 1
    BY <1>1, FS_Interval
  <2>3. Cardinality(1..c) = c
    <3> HIDE DEF c
    <3> QED
      BY <1>1, <2>2
  <2> HIDE DEF R, c
  <2> QED
    BY <1>6, <2>1, <2>2, <2>3, FS_Subset
<1>8. \A k \in 1..c : \E i \in S : PlaceIn(S, i) = k
  <2>1. \A r \in R : \E i \in S : PlaceIn(S, i) = r
    OBVIOUS
  <2> HIDE DEF R, c
  <2> QED
    BY <1>7, <2>1
<1>9. \A k \in 1..c : NthIn(S, k) \in S /\ PlaceIn(S, NthIn(S, k)) = k
  BY <1>8 DEF NthIn
<1>10. \A i \in S : place[i] = PlaceIn(S, i)
  OBVIOUS
<1>11. \A i \in S : PlaceIn(S, i) \in 1..c
  BY <1>3, <1>10
<1>12. \A i, j \in S : PlaceIn(S, i) = PlaceIn(S, j) => i = j
  BY <1>5, <1>10
<1>13. \A i \in S : NthIn(S, PlaceIn(S, i)) = i
  <2> HIDE DEF c
  <2> QED
    BY <1>9, <1>11, <1>12
<1>14. \A i, j \in S : i < j => PlaceIn(S, i) < PlaceIn(S, j)
  BY <1>4, <1>10
<1> QED
  BY <1>1, <1>9, <1>11, <1>13, <1>14

\* Among some positions of a sequence, one is the last.
LEMMA LastPosition ==
  ASSUME NEW n \in Nat, NEW S \in SUBSET (1..n), S # {}
  PROVE  \E i \in S : \A j \in S : j <= i
<1> DEFINE c == Cardinality(S)
           l == NthIn(S, c)
<1>1. /\ c \in Nat
      /\ \A k \in 1..c : NthIn(S, k) \in S /\ PlaceIn(S, NthIn(S, k)) = k
      /\ \A i \in S : PlaceIn(S, i) \in 1..c /\ NthIn(S, PlaceIn(S, i)) = i
      /\ \A i, j \in S : i < j => PlaceIn(S, i) < PlaceIn(S, j)
  BY PlacesArePositions
<1> HIDE DEF c
<1>2. c \in 1..c
  <2>1. PICK i \in S : PlaceIn(S, i) \in 1..c
    BY <1>1
  <2> QED
    BY <1>1, <2>1
<1>3. l \in S /\ PlaceIn(S, l) = c
  BY <1>1, <1>2
<1> HIDE DEF l
<1>4. \A j \in S : ~(l < j)
  BY <1>1, <1>3
<1>5. \A j \in S : j \in Nat
  OBVIOUS
<1> QED
  BY <1>3, <1>4, <1>5

\* What is where in ElementsAt(s, S).
LEMMA ElementsAtPlaces ==
  ASSUME NEW T, NEW s \in Seq(T), NEW S \in SUBSET (1..Len(s))
  PROVE  /\ ElementsAt(s, S) \in Seq(T) /\ Len(ElementsAt(s, S)) = Cardinality(S)
         /\ Cardinality(S) \in Nat
         /\ \A k \in 1..Cardinality(S) : NthIn(S, k) \in S /\ ElementsAt(s, S)[k] = s[NthIn(S, k)]
<1>1. Len(s) \in Nat /\ \A i \in 1..Len(s) : s[i] \in T
  OBVIOUS
<1>2. /\ Cardinality(S) \in Nat
      /\ \A k \in 1..Cardinality(S) : NthIn(S, k) \in S
  BY <1>1, PlacesArePositions
<1>3. ElementsAt(s, S) = [k \in 1..Cardinality(S) |-> s[NthIn(S, k)]]
  BY DEF ElementsAt, NthIn, PlaceIn
<1>4. [k \in 1..Cardinality(S) |-> s[NthIn(S, k)]] \in [1..Cardinality(S) -> T]
  BY <1>1, <1>2
<1>5. ElementsAt(s, S) \in Seq(T)
  BY <1>2, <1>3, <1>4
<1>6. Len(ElementsAt(s, S)) = Cardinality(S)
  BY <1>2, <1>3, <1>4, <1>5
<1> QED
  BY <1>2, <1>3, <1>5, <1>6

\* Counting among them is counting among the positions.
LEMMA CountElementsAt ==
  ASSUME NEW T, NEW s \in Seq(T), NEW S \in SUBSET (1..Len(s)), NEW K
  PROVE  Count(ElementsAt(s, S), K) = Cardinality(At(s, K) \cap S)
<1> DEFINE A == At(ElementsAt(s, S), K)
           B == At(s, K) \cap S
           nth == [k \in A |-> NthIn(S, k)]
<1>1. Len(s) \in Nat
  OBVIOUS
<1>2. /\ ElementsAt(s, S) \in Seq(T) /\ Len(ElementsAt(s, S)) = Cardinality(S)
      /\ Cardinality(S) \in Nat
      /\ \A k \in 1..Cardinality(S) : NthIn(S, k) \in S /\ ElementsAt(s, S)[k] = s[NthIn(S, k)]
  BY ElementsAtPlaces
<1>3. /\ \A k \in 1..Cardinality(S) : PlaceIn(S, NthIn(S, k)) = k
      /\ \A i \in S : PlaceIn(S, i) \in 1..Cardinality(S) /\ NthIn(S, PlaceIn(S, i)) = i
  BY <1>1, PlacesArePositions
<1>4. \A k : k \in A <=> k \in 1..Cardinality(S) /\ s[NthIn(S, k)] \in K
  BY <1>2 DEF At
<1>5. \A i : i \in B <=> i \in S /\ s[i] \in K
  BY DEF At
<1> HIDE DEF A, B
<1>6. nth \in Bijection(A, B)
  <2>1. nth \in [A -> B]
    BY <1>2, <1>4, <1>5
  <2>2. \A k, l \in A : nth[k] = nth[l] => k = l
    BY <1>3, <1>4
  <2>3. \A i \in B : \E k \in A : nth[k] = i
    <3> SUFFICES ASSUME NEW i \in B PROVE PlaceIn(S, i) \in A /\ nth[PlaceIn(S, i)] = i
      OBVIOUS
    <3>1. i \in S /\ PlaceIn(S, i) \in 1..Cardinality(S) /\ NthIn(S, PlaceIn(S, i)) = i
      BY <1>3, <1>5
    <3>2. s[NthIn(S, PlaceIn(S, i))] \in K
      BY <1>5, <3>1
    <3>3. PlaceIn(S, i) \in A
      BY <1>4, <3>1, <3>2
    <3> QED
      BY <3>1, <3>3
  <2> HIDE DEF nth
  <2>4. nth \in Injection(A, B)
    BY <2>1, <2>2 DEF Injection, IsInjective
  <2>5. nth \in Surjection(A, B)
    BY <2>1, <2>3 DEF Surjection
  <2> QED
    BY <2>4, <2>5 DEF Bijection
<1>7. IsFiniteSet(A)
  BY <1>2, CountIsNat DEF A
<1> HIDE DEF nth
<1>8. Cardinality(B) = Cardinality(A)
  BY <1>6, <1>7, FS_Bijection DEF ExistsBijection
<1> QED
  BY <1>8 DEF Count, A, B
-----------------------------------------------------------------------------
(* Messages and calls.                                                     *)

Answers == {m \in Messages : m.kind \in {"Created", "NotCreated"}}

CreateCalls(c) == {m \in Calls : m.client = c /\ m.method = "CreateQuery"}

\* What is a message.
LEMMA MessageTypes ==
  /\ \A n \in 0..MaxLives : Owner(n) \in Messages
  /\ \A q \in Nat \ {0} : Created(q) \in Messages
  /\ NotCreated \in Messages
  /\ \A p \in Proxies, t \in Texts : Heard(p, t) \in Messages
  /\ \A p \in Proxies : NotHeard(p) \in Messages
BY DEF Messages, Owner, Created, NotCreated, Heard, NotHeard

\* What a message holds.
LEMMA MessageParts ==
  ASSUME NEW m \in Messages
  PROVE  /\ m.kind \in {"Owner", "Created", "NotCreated", "Heard", "NotHeard"}
         /\ m.kind = "Owner" => m.life \in 0..MaxLives
         /\ m.kind = "Created" => m.query \in Nat \ {0}
         /\ m.kind = "Heard" => m.text \in Texts
         /\ m.kind \in {"Heard", "NotHeard"} => m.by \in Proxies
BY DEF Messages

\* The fields of the messages.
LEMMA MessageFields ==
  /\ \A n : Owner(n).kind = "Owner" /\ Owner(n).life = n
  /\ \A q : Created(q).kind = "Created" /\ Created(q).query = q
  /\ NotCreated.kind = "NotCreated"
  /\ \A p, t : Heard(p, t).kind = "Heard" /\ Heard(p, t).text = t
  /\ \A p : NotHeard(p).kind = "NotHeard"
BY DEF Owner, Created, NotCreated, Heard, NotHeard

\* What a call holds.
LEMMA CallParts ==
  ASSUME NEW m \in Calls
  PROVE  /\ m.client \in Clients /\ m.method \in {"CreateQuery", "VoiceQuery"}
         /\ m.method = "CreateQuery" => m.text \in Texts
         /\ m.method = "VoiceQuery" => m.by \in Proxies
BY DEF Calls

\* The calls that a process makes.
LEMMA CallTypes ==
  ASSUME TypeOK, NEW c \in Clients
  PROVE  /\ CreateCall(c) \in Calls /\ CreateCall(c).client = c
         /\ CreateCall(c).method = "CreateQuery" /\ CreateCall(c).text = text[c]
         /\ VoiceCall(c) \in Calls /\ VoiceCall(c).client = c
         /\ VoiceCall(c).method = "VoiceQuery" /\ VoiceCall(c).by = proxy[c]
<1>1. text[c] \in Texts /\ proxy[c] \in Proxies
  BY DEF TypeOK
<1> QED
  BY <1>1 DEF CreateCall, VoiceCall, Calls

\* An owner and a path make a proxy.
LEMMA ProxyTypes ==
  /\ NoProxy \in Proxies
  /\ \A n \in 1..MaxLives, q \in Nat \ {0} : [life |-> n, query |-> q] \in Proxies
BY DEF Proxies

\* Queries have the parts they were made with.
LEMMA QueryParts ==
  ASSUME NEW qs \in Seq(Queries)
  PROVE  /\ Len(qs) \in Nat /\ DOMAIN qs = 1..Len(qs)
         /\ \A q \in DOMAIN qs : /\ qs[q] \in Queries
                                 /\ qs[q].client \in Clients /\ qs[q].text \in Texts
                                 /\ qs[q].open \in BOOLEAN
<1>1. Len(qs) \in Nat /\ DOMAIN qs = 1..Len(qs)
  OBVIOUS
<1>2. \A q \in DOMAIN qs : qs[q] \in Queries
  OBVIOUS
<1> QED
  BY <1>1, <1>2 DEF Queries

\* The queries with one text replaced, and with one query closed.
WithText(qs, x, t) == [qs EXCEPT ![x].text = t]
WithClosed(qs, x) == [qs EXCEPT ![x].open = FALSE]

\* UpdateQuery replaces one text.
LEMMA TextReplaced ==
  ASSUME NEW qs \in Seq(Queries), NEW x, NEW t \in Texts
  PROVE  /\ WithText(qs, x, t) \in Seq(Queries)
         /\ DOMAIN WithText(qs, x, t) = DOMAIN qs
         /\ \A q \in DOMAIN qs : /\ WithText(qs, x, t)[q].client = qs[q].client /\ WithText(qs, x, t)[q].open = qs[q].open
                                 /\ WithText(qs, x, t)[q].text = IF q = x THEN t ELSE qs[q].text
<1> DEFINE rs == WithText(qs, x, t)
<1>1. /\ Len(qs) \in Nat /\ DOMAIN qs = 1..Len(qs)
      /\ \A q \in DOMAIN qs : qs[q] \in Queries
  BY QueryParts
<1>2. /\ DOMAIN rs = DOMAIN qs /\ rs = [q \in DOMAIN qs |-> rs[q]]
      /\ \A q \in DOMAIN qs : rs[q] = IF q = x THEN [qs[q] EXCEPT !.text = t] ELSE qs[q]
  BY DEF WithText, WithClosed
<1>3. \A r \in Queries : /\ [r EXCEPT !.text = t] \in Queries
                   /\ [r EXCEPT !.text = t].client = r.client
                   /\ [r EXCEPT !.text = t].open = r.open
                   /\ [r EXCEPT !.text = t].text = t
  BY DEF Queries
<1> HIDE DEF rs
<1>4. \A q \in DOMAIN qs : rs[q] \in Queries
  BY <1>1, <1>2, <1>3
<1>5. rs \in [1..Len(qs) -> Queries]
  BY <1>1, <1>2, <1>4
<1>6. rs \in Seq(Queries)
  BY <1>1, <1>5
<1> QED
  BY <1>1, <1>2, <1>3, <1>6 DEF rs

\* CloseQuery closes one.
LEMMA QueryClosed ==
  ASSUME NEW qs \in Seq(Queries), NEW x
  PROVE  /\ WithClosed(qs, x) \in Seq(Queries)
         /\ DOMAIN WithClosed(qs, x) = DOMAIN qs
         /\ \A q \in DOMAIN qs : /\ WithClosed(qs, x)[q].client = qs[q].client /\ WithClosed(qs, x)[q].text = qs[q].text
                                 /\ WithClosed(qs, x)[q].open => qs[q].open
<1> DEFINE rs == WithClosed(qs, x)
<1>1. /\ Len(qs) \in Nat /\ DOMAIN qs = 1..Len(qs)
      /\ \A q \in DOMAIN qs : qs[q] \in Queries
  BY QueryParts
<1>2. /\ DOMAIN rs = DOMAIN qs /\ rs = [q \in DOMAIN qs |-> rs[q]]
      /\ \A q \in DOMAIN qs : rs[q] = IF q = x THEN [qs[q] EXCEPT !.open = FALSE] ELSE qs[q]
  BY DEF WithText, WithClosed
<1>3. \A r \in Queries : /\ [r EXCEPT !.open = FALSE] \in Queries
                   /\ [r EXCEPT !.open = FALSE].client = r.client
                   /\ [r EXCEPT !.open = FALSE].text = r.text
                   /\ [r EXCEPT !.open = FALSE].open = FALSE
  BY DEF Queries
<1> HIDE DEF rs
<1>4. \A q \in DOMAIN qs : rs[q] \in Queries
  BY <1>1, <1>2, <1>3
<1>5. rs \in [1..Len(qs) -> Queries]
  BY <1>1, <1>2, <1>4
<1>6. rs \in Seq(Queries)
  BY <1>1, <1>5
<1> QED
  BY <1>1, <1>2, <1>3, <1>6 DEF rs

\* What a proxy reaches, and whose it is.
LEMMA ReachedParts ==
  ASSUME TypeOK, NEW c, NEW p
  PROVE  /\ Reached(p) # 0 => /\ p # NoProxy /\ p.life = NameOwner /\ Reached(p) = p.query
                              /\ p.query \in DOMAIN queries /\ queries[p.query].open
         /\ Victim(c, p) \subseteq Clients
         /\ \A d \in Clients : Reached(p) # 0 /\ queries[p.query].client = d /\ d # c => d \in Victim(c, p)
<1>1. queries \in Seq(Queries)
  BY DEF TypeOK
<1>2. \A q \in DOMAIN queries : queries[q].client \in Clients
  BY <1>1, QueryParts
<1>3. Reached(p) # 0 => /\ p # NoProxy /\ p.life = NameOwner /\ Reached(p) = p.query
                        /\ p.query \in DOMAIN queries /\ queries[p.query].open
  BY DEF Reached
<1> QED
  BY <1>2, <1>3 DEF Victim

-----------------------------------------------------------------------------
(* Who can expect an answer.                                               *)

\* Each reference that a call holds is for a call on its way or its answer.
References ==
  \A c \in Clients : creating[c] = Count(calls, CreateCalls(c)) + Count(inbox[c], Answers)

Mine(c) == {q \in DOMAIN queries : queries[q].client = c}

\* A process that has made no object, or has ended, has sent and gets nothing; only
\* the second can have had a query.
Absent ==
  \A c \in Clients \ made :
    inbox[c] = <<>> /\ CallsOf(c) = {} /\ (c \notin failed => Mine(c) = {})

\* A service on the bus has started, and one that is not keeps nothing.
ServiceOK ==
  /\ up => life > 0
  /\ ~up => queries = <<>> /\ calls = <<>>

BusOK == TypeOK /\ ServiceOK /\ References /\ Absent

\* A call or an answer on its way keeps the object.
LEMMA ReferencesKeep ==
  ASSUME BusOK, NEW c \in Clients
  PROVE  /\ creating[c] \in Nat /\ leaked[c] \in Nat
         /\ Asked(c) = At(calls, CreateCalls(c))
         /\ Asked(c) # {} \/ At(inbox[c], Answers) # {} => creating[c] > 0 /\ Alive(c)
         /\ creating[c] = 0 => Asked(c) = {} /\ At(inbox[c], Answers) = {}
<1>1. /\ calls \in Seq(Calls) /\ inbox[c] \in Seq(Messages)
      /\ creating[c] \in Nat /\ leaked[c] \in Nat
      /\ creating[c] = Count(calls, CreateCalls(c)) + Count(inbox[c], Answers)
  BY DEF BusOK, TypeOK, References
<1>2. /\ Count(calls, CreateCalls(c)) \in Nat /\ Count(inbox[c], Answers) \in Nat
      /\ Count(calls, CreateCalls(c)) = 0 <=> At(calls, CreateCalls(c)) = {}
      /\ Count(inbox[c], Answers) = 0 <=> At(inbox[c], Answers) = {}
  BY <1>1, CountIsNat
<1>3. Asked(c) = At(calls, CreateCalls(c))
  <2>1. Len(calls) \in Nat /\ DOMAIN calls = 1..Len(calls)
        /\ \A i \in 1..Len(calls) : calls[i] \in Calls
    BY <1>1
  <2> QED
    BY <2>1 DEF Asked, At, CreateCalls
<1>4. creating[c] > 0 => c \in made
  <2> SUFFICES ASSUME c \notin made, creating[c] > 0 PROVE FALSE
    OBVIOUS
  <2>1. inbox[c] = <<>> /\ CallsOf(c) = {}
    BY DEF BusOK, Absent
  <2>2. At(inbox[c], Answers) = {}
    BY <2>1 DEF At
  <2>3. Asked(c) = {}
    BY <2>1 DEF Asked, CallsOf
  <2> QED
    BY <1>1, <1>2, <1>3, <2>2, <2>3
<1>5. creating[c] > 0 => Alive(c)
  BY <1>1, <1>4 DEF Alive
<1> QED
  BY <1>1, <1>2, <1>3, <1>5

\* An answer at the head of an inbox is counted there.
LEMMA HeadIsAnswer ==
  ASSUME BusOK, NEW c \in Clients, Receives(c, {"Created", "NotCreated"})
  PROVE  creating[c] > 0 /\ Alive(c)
<1>1. inbox[c] \in Seq(Messages) /\ inbox[c] # <<>> /\ Head(inbox[c]).kind \in {"Created", "NotCreated"}
  BY DEF BusOK, TypeOK, Receives
<1>2. 1 \in 1..Len(inbox[c]) /\ inbox[c][1] \in Messages /\ Head(inbox[c]) = inbox[c][1]
  BY <1>1
<1>3. 1 \in At(inbox[c], Answers)
  BY <1>1, <1>2 DEF At, Answers
<1> QED
  BY <1>3, ReferencesKeep

\* Initially.
LEMMA InitBusOK == Init => BusOK
<1> SUFFICES ASSUME Init PROVE BusOK
  OBVIOUS
<1> USE BoundsAreNat, EmptyIsText DEF Init
<1>1. TypeOK
  <2>1. <<>> \in Seq(Calls) /\ <<>> \in Seq(Messages)
        /\ <<>> \in Seq(Queries)
    OBVIOUS
  <2>2. 0 \in 0..MaxLives /\ 0 \in 0..MaxAsks /\ 0 \in Nat
    OBVIOUS
  <2>3. NoProxy \in Proxies
    BY ProxyTypes
  <2> QED
    BY <2>1, <2>2, <2>3 DEF TypeOK
<1>2. ServiceOK
  BY DEF ServiceOK
<1>3. References
  <2> SUFFICES ASSUME NEW c \in Clients
               PROVE  creating[c] = Count(calls, CreateCalls(c)) + Count(inbox[c], Answers)
    BY DEF References
  <2>1. Count(calls, CreateCalls(c)) = 0 /\ Count(inbox[c], Answers) = 0
    <3>1. At(calls, CreateCalls(c)) = {} /\ At(inbox[c], Answers) = {}
      BY DEF At
    <3> QED
      BY <3>1, FS_EmptySet DEF Count
  <2> QED
    BY <2>1
<1>4. Absent
  BY DEF Absent, CallsOf, Mine
<1> QED
  BY <1>1, <1>2, <1>3, <1>4 DEF BusOK

\* Asking an owner for a query: the reference is for the call, or for the error.
LEMMA ConnectionStatusCounts ==
  ASSUME TypeOK, NEW c \in Clients, NEW n \in 0..MaxLives,
         NEW box, box \in [Clients -> Seq(Messages)], ConnectionStatus(c, n, box)
  PROVE  /\ calls' \in Seq(Calls) /\ inbox' \in [Clients -> Seq(Messages)]
         /\ known' \in [Clients -> 0..MaxLives] /\ proxy' \in [Clients -> Proxies]
         /\ creating' \in [Clients -> Nat]
         /\ unsent' \subseteq unsent /\ strayed' \subseteq strayed
         /\ \A d \in Clients \ {c} : inbox'[d] = box[d] /\ creating'[d] = creating[d]
         /\ calls' = calls \/ calls' = Append(calls, CreateCall(c))
         /\ \A d \in Clients :
              creating'[d] + Count(calls, CreateCalls(d)) + Count(box[d], Answers)
                = creating[d] + Count(calls', CreateCalls(d)) + Count(inbox'[d], Answers)
<1>1. /\ calls \in Seq(Calls) /\ known \in [Clients -> 0..MaxLives]
      /\ proxy \in [Clients -> Proxies] /\ creating \in [Clients -> Nat]
  BY DEF TypeOK
<1>2. known' \in [Clients -> 0..MaxLives] /\ proxy' \in [Clients -> Proxies]
  <2>1. known' = [known EXCEPT ![c] = n] /\ proxy' = [proxy EXCEPT ![c] = NoProxy]
    BY DEF ConnectionStatus
  <2> QED
    BY <1>1, <2>1, ProxyTypes
<1>3. ASSUME NEW d \in Clients
      PROVE  /\ creating[d] \in Nat /\ Count(calls, CreateCalls(d)) \in Nat
             /\ box[d] \in Seq(Messages) /\ Count(box[d], Answers) \in Nat
  <2>1. creating[d] \in Nat /\ box[d] \in Seq(Messages)
    BY <1>1
  <2> QED
    BY <1>1, <2>1, CountIsNat
<1>4. CASE n = 0
  <2>1. inbox' = box /\ calls' = calls /\ creating' = creating
        /\ unsent' = unsent /\ strayed' = strayed
    BY <1>4 DEF ConnectionStatus, histories
  <2> QED
    BY <1>1, <1>2, <2>1
<1>5. CASE n # 0
  <2>1. NewQuery(c, n, box)
    BY <1>5 DEF ConnectionStatus
  <2>2. /\ creating' = [creating EXCEPT ![c] = @ + 1]
        /\ unsent' \subseteq unsent /\ strayed' \subseteq strayed
    BY <2>1 DEF NewQuery
  <2>3. /\ creating' \in [Clients -> Nat] /\ creating'[c] = creating[c] + 1
        /\ \A d \in Clients \ {c} : creating'[d] = creating[d]
    BY <1>1, <2>2
  <2>4. CASE n = NameOwner'
    <3>1. calls' = Append(calls, CreateCall(c)) /\ inbox' = box
      BY <2>1, <2>4 DEF NewQuery
    <3>2. CreateCall(c) \in Calls
      BY CallTypes
    <3>3. ASSUME NEW d \in Clients
          PROVE  Count(calls', CreateCalls(d))
                   = Count(calls, CreateCalls(d)) + (IF d = c THEN 1 ELSE 0)
      <4>1. CreateCall(c) \in CreateCalls(d) <=> d = c
        BY CallTypes DEF CreateCalls
      <4>2. Count(Append(calls, CreateCall(c)), CreateCalls(d))
              = Count(calls, CreateCalls(d)) + (IF CreateCall(c) \in CreateCalls(d) THEN 1 ELSE 0)
        BY <1>1, <3>2, CountAppend
      <4> QED
        BY <3>1, <4>1, <4>2
    <3>4. ASSUME NEW d \in Clients
          PROVE  creating'[d] + Count(calls, CreateCalls(d)) + Count(box[d], Answers)
                   = creating[d] + Count(calls', CreateCalls(d)) + Count(inbox'[d], Answers)
      <4>0. /\ creating[d] \in Nat /\ Count(calls, CreateCalls(d)) \in Nat
            /\ Count(box[d], Answers) \in Nat
        BY <1>3
      <4>1. creating'[d] = creating[d] + (IF d = c THEN 1 ELSE 0)
        BY <2>3, <4>0
      <4>2. Count(inbox'[d], Answers) = Count(box[d], Answers)
        BY <3>1
      <4>3. Count(calls', CreateCalls(d)) = Count(calls, CreateCalls(d)) + (IF d = c THEN 1 ELSE 0)
        BY <3>3
      <4> QED
        BY ONLY <4>0, <4>1, <4>2, <4>3
    <3>5. calls' \in Seq(Calls)
      BY <1>1, <3>1, <3>2
    <3> QED
      BY <1>2, <2>2, <2>3, <3>1, <3>4, <3>5
  <2>5. CASE n # NameOwner'
    <3>1. inbox' = [box EXCEPT ![c] = Append(@, NotCreated)] /\ calls' = calls
      BY <2>1, <2>5 DEF NewQuery
    <3>2. NotCreated \in Messages /\ NotCreated \in Answers
      BY MessageTypes, MessageFields DEF Answers
    <3>3. /\ inbox'[c] = Append(box[c], NotCreated)
          /\ \A d \in Clients \ {c} : inbox'[d] = box[d]
          /\ inbox' \in [Clients -> Seq(Messages)]
      BY <3>1, <3>2
    <3>4. Count(inbox'[c], Answers) = Count(box[c], Answers) + 1
      <4>1. Count(Append(box[c], NotCreated), Answers)
              = Count(box[c], Answers) + (IF NotCreated \in Answers THEN 1 ELSE 0)
        BY <1>3, <3>2, CountAppend
      <4> QED
        BY <3>2, <3>3, <4>1
    <3>5. ASSUME NEW d \in Clients
          PROVE  creating'[d] + Count(calls, CreateCalls(d)) + Count(box[d], Answers)
                   = creating[d] + Count(calls', CreateCalls(d)) + Count(inbox'[d], Answers)
      <4>0. /\ creating[d] \in Nat /\ Count(calls, CreateCalls(d)) \in Nat
            /\ Count(box[d], Answers) \in Nat
        BY <1>3
      <4>1. creating'[d] = creating[d] + (IF d = c THEN 1 ELSE 0)
        BY <2>3, <4>0
      <4>2. Count(inbox'[d], Answers) = Count(box[d], Answers) + (IF d = c THEN 1 ELSE 0)
        <5>1. CASE d = c
          BY ONLY <3>4, <5>1
        <5>2. CASE d # c
          <6>1. Count(inbox'[d], Answers) = Count(box[d], Answers)
            BY <3>3, <5>2
          <6> QED
            BY ONLY <4>0, <5>2, <6>1
        <5> QED
          BY <5>1, <5>2
      <4>3. Count(calls', CreateCalls(d)) = Count(calls, CreateCalls(d))
        BY <3>1
      <4> QED
        BY ONLY <4>0, <4>1, <4>2, <4>3
    <3> QED
      BY <1>1, <1>2, <2>2, <2>3, <3>1, <3>3, <3>5
  <2> QED
    BY <2>4, <2>5
<1> QED
  BY <1>4, <1>5

\* A message that is no answer counts for nothing.
LEMMA NoAnswerAdded ==
  ASSUME NEW s \in Seq(Messages), NEW m \in Messages, m.kind \notin {"Created", "NotCreated"}
  PROVE  Append(s, m) \in Seq(Messages) /\ Count(Append(s, m), Answers) = Count(s, Answers)
<1>1. m \notin Answers
  BY DEF Answers
<1>2. Count(Append(s, m), Answers) = Count(s, Answers) + (IF m \in Answers THEN 1 ELSE 0)
  BY CountAppend
<1>3. Count(s, Answers) \in Nat
  BY CountIsNat
<1> QED
  BY <1>1, <1>2, <1>3

LEMMA AnswerAdded ==
  ASSUME NEW s \in Seq(Messages), NEW m \in Messages, m.kind \in {"Created", "NotCreated"}
  PROVE  Append(s, m) \in Seq(Messages) /\ Count(Append(s, m), Answers) = Count(s, Answers) + 1
<1>1. m \in Answers
  BY DEF Answers
<1>2. Count(Append(s, m), Answers) = Count(s, Answers) + (IF m \in Answers THEN 1 ELSE 0)
  BY CountAppend
<1> QED
  BY <1>1, <1>2

\* The first message of an inbox taken.
LEMMA MessageTaken ==
  ASSUME NEW s \in Seq(Messages), s # <<>>
  PROVE  /\ Head(s) \in Messages /\ Tail(s) \in Seq(Messages)
         /\ Count(s, Answers) \in Nat /\ Count(Tail(s), Answers) \in Nat
         /\ Head(s).kind \in {"Created", "NotCreated"} => Count(s, Answers) = Count(Tail(s), Answers) + 1
         /\ Head(s).kind \notin {"Created", "NotCreated"} => Count(s, Answers) = Count(Tail(s), Answers)
<1>1. Head(s) \in Messages /\ Tail(s) \in Seq(Messages)
  OBVIOUS
<1>2. Count(s, Answers) = Count(Tail(s), Answers) + (IF Head(s) \in Answers THEN 1 ELSE 0)
  BY CountTail
<1>3. Count(s, Answers) \in Nat /\ Count(Tail(s), Answers) \in Nat
  BY <1>1, CountIsNat
<1>4. Head(s) \in Answers <=> Head(s).kind \in {"Created", "NotCreated"}
  BY <1>1 DEF Answers
<1> QED
  BY <1>1, <1>2, <1>3, <1>4

\* News of an owner is no answer.
LEMMA AnnounceCounts ==
  ASSUME NEW box, box \in [Clients -> Seq(Messages)], NEW n \in 0..MaxLives
  PROVE  /\ Announce(box, n) \in [Clients -> Seq(Messages)]
         /\ \A d \in Clients : /\ ~Alive(d) => Announce(box, n)[d] = box[d]
                               /\ Alive(d) => Announce(box, n)[d] = Append(box[d], Owner(n))
                               /\ Count(Announce(box, n)[d], Answers) = Count(box[d], Answers)
<1>1. Owner(n) \in Messages /\ Owner(n).kind = "Owner"
  BY MessageTypes, MessageFields
<1>2. ASSUME NEW d \in Clients
      PROVE  /\ box[d] \in Seq(Messages) /\ Append(box[d], Owner(n)) \in Seq(Messages)
             /\ Count(Append(box[d], Owner(n)), Answers) = Count(box[d], Answers)
  <2>1. box[d] \in Seq(Messages)
    OBVIOUS
  <2> QED
    BY <1>1, <2>1, NoAnswerAdded
<1>3. Announce(box, n) \in [Clients -> Seq(Messages)]
  BY <1>2 DEF Announce
<1>4. ASSUME NEW d \in Clients
      PROVE  /\ ~Alive(d) => Announce(box, n)[d] = box[d]
             /\ Alive(d) => Announce(box, n)[d] = Append(box[d], Owner(n))
  BY DEF Announce
<1> QED
  BY <1>2, <1>3, <1>4

-----------------------------------------------------------------------------
(* Every step keeps the types, the references and what absence means.      *)

LEMMA StartsTypes ==
  ASSUME TypeOK, Starts
  PROVE  /\ life + 1 \in 1..MaxLives /\ life + 1 \in 0..MaxLives /\ life' = life + 1
         /\ ~up /\ up' = TRUE /\ queries' = <<>> /\ DOMAIN queries' = {}
         /\ queries' \in Seq(Queries)
  BY BoundsAreNat DEF TypeOK, Starts

LEMMA StartBusOK == BusOK /\ Start => BusOK'
<1> SUFFICES ASSUME BusOK, Start PROVE BusOK'
  OBVIOUS
<1>1. TypeOK /\ ServiceOK /\ References /\ Absent
  BY DEF BusOK
<1>2. /\ Starts /\ inbox' = Announce(inbox, life + 1)
      /\ UNCHANGED <<calls, known, objectVars, asks, failed, histories>>
  BY DEF Start
<1>3. /\ life + 1 \in 1..MaxLives /\ life + 1 \in 0..MaxLives /\ life' = life + 1
      /\ ~up /\ up' = TRUE /\ queries' = <<>> /\ DOMAIN queries' = {}
      /\ queries' \in Seq(Queries)
  BY <1>1, <1>2, StartsTypes
<1>4. inbox \in [Clients -> Seq(Messages)]
  BY <1>1 DEF TypeOK
<1>5. /\ inbox' \in [Clients -> Seq(Messages)]
      /\ \A d \in Clients : /\ ~Alive(d) => inbox'[d] = inbox[d]
                            /\ Count(inbox'[d], Answers) = Count(inbox[d], Answers)
  BY <1>2, <1>3, <1>4, AnnounceCounts
<1>6. TypeOK'
  BY <1>1, <1>2, <1>3, <1>5 DEF TypeOK, objectVars, histories
<1>7. ServiceOK'
  BY <1>3 DEF ServiceOK
<1>8. References'
  BY <1>1, <1>2, <1>5 DEF References, objectVars
<1>9. Absent'
  <2> SUFFICES ASSUME NEW d \in Clients, d \notin made'
               PROVE  inbox'[d] = <<>> /\ CallsOf(d)' = {} /\ (d \notin failed' => Mine(d)' = {})
    BY DEF Absent
  <2>1. d \notin made /\ ~Alive(d)
    BY <1>2 DEF objectVars, Alive
  <2>2. inbox[d] = <<>> /\ CallsOf(d) = {}
    BY <1>1, <2>1 DEF Absent
  <2>3. CallsOf(d)' = {}
    BY <1>2, <2>2 DEF CallsOf
  <2>4. Mine(d)' = {}
    BY <1>3 DEF Mine
  <2> QED
    BY <1>5, <2>1, <2>2, <2>3, <2>4
<1> QED
  BY <1>6, <1>7, <1>8, <1>9 DEF BusOK

\* The calls of d that ask for a query are among d's.
LEMMA CreateCallsOf ==
  ASSUME TypeOK, NEW d \in Clients
  PROVE  /\ calls \in Seq(Calls) /\ CallsOf(d) \in SUBSET (1..Len(calls))
         /\ At(calls, CreateCalls(d)) = {i \in CallsOf(d) : calls[i].method = "CreateQuery"}
<1>1. calls \in Seq(Calls)
  BY DEF TypeOK
<1>2. /\ Len(calls) \in Nat /\ DOMAIN calls = 1..Len(calls)
      /\ \A i \in 1..Len(calls) : calls[i] \in Calls
  BY <1>1
<1> QED
  BY <1>1, <1>2 DEF CallsOf, At, CreateCalls

\* The errors that answer the calls of d when the service leaves the bus.
Lost(d) == ElementsAt(calls, CallsOf(d))
Errors(d) == [i \in DOMAIN Lost(d) |-> NoAnswer(Lost(d)[i])]

\* Each call of CreateQuery is answered by one error.
LEMMA ErrorsCount ==
  ASSUME TypeOK, NEW d \in Clients
  PROVE  /\ Errors(d) \in Seq(Messages)
         /\ \A i \in 1..Len(Errors(d)) : Errors(d)[i].kind \in {"NotCreated", "NotHeard"}
         /\ Count(Errors(d), Answers) = Count(calls, CreateCalls(d))
         /\ CallsOf(d) = {} => Errors(d) = <<>>
<1> DEFINE S == CallsOf(d)
           n == Cardinality(S)
<1>1. /\ calls \in Seq(Calls) /\ S \in SUBSET (1..Len(calls))
      /\ At(calls, CreateCalls(d)) = {i \in S : calls[i].method = "CreateQuery"}
  BY CreateCallsOf
<1>2. /\ Lost(d) \in Seq(Calls) /\ Len(Lost(d)) = n /\ n \in Nat
      /\ \A k \in 1..n : NthIn(S, k) \in S /\ Lost(d)[k] = calls[NthIn(S, k)]
  BY <1>1, ElementsAtPlaces DEF Lost
<1>3. \A k \in 1..n : Lost(d)[k] \in Calls /\ Lost(d)[k].client = d
  <2>1. \A i \in S : calls[i].client = d
    BY DEF CallsOf
  <2> HIDE DEF S, n
  <2> QED
    BY <1>2, <2>1
<1>4. DOMAIN Lost(d) = 1..n
  BY <1>2
<1>5. \A k \in 1..n : /\ NoAnswer(Lost(d)[k]) \in Messages
                      /\ NoAnswer(Lost(d)[k]).kind \in {"NotCreated", "NotHeard"}
                      /\ NoAnswer(Lost(d)[k]) \in Answers <=> Lost(d)[k] \in CreateCalls(d)
  <2> SUFFICES ASSUME NEW m \in Calls, m.client = d
               PROVE  /\ NoAnswer(m) \in Messages /\ NoAnswer(m).kind \in {"NotCreated", "NotHeard"}
                      /\ NoAnswer(m) \in Answers <=> m \in CreateCalls(d)
    BY <1>3
  <2>1. m.method \in {"CreateQuery", "VoiceQuery"} /\ (m.method = "VoiceQuery" => m.by \in Proxies)
    BY CallParts
  <2>2. CASE m.method = "CreateQuery"
    BY <2>2, MessageTypes, MessageFields DEF NoAnswer, Answers, CreateCalls
  <2>3. CASE m.method = "VoiceQuery"
    BY <2>1, <2>3, MessageTypes, MessageFields DEF NoAnswer, Answers, CreateCalls
  <2> QED
    BY <2>1, <2>2, <2>3
<1>6. /\ Errors(d) = [i \in 1..n |-> NoAnswer(Lost(d)[i])]
      /\ Errors(d) \in [1..n -> Messages]
  BY <1>4, <1>5 DEF Errors
<1>7. Errors(d) \in Seq(Messages) /\ Len(Errors(d)) = n
  <2> HIDE DEF n
  <2> QED
    BY <1>2, <1>6
<1>8. \A i \in 1..n : Errors(d)[i].kind \in {"NotCreated", "NotHeard"}
  BY <1>5, <1>6
<1>9. At(Errors(d), Answers) = At(Lost(d), CreateCalls(d))
  BY <1>2, <1>5, <1>6, <1>7 DEF At
<1>10. Count(Lost(d), CreateCalls(d)) = Cardinality(At(calls, CreateCalls(d)) \cap S)
  BY <1>1, CountElementsAt DEF Lost
<1>11. At(calls, CreateCalls(d)) \cap S = At(calls, CreateCalls(d))
  BY <1>1
<1>12. S = {} => Errors(d) = <<>>
  BY <1>6, <1>7, FS_EmptySet
<1> QED
  BY <1>7, <1>8, <1>9, <1>10, <1>11, <1>12 DEF Count

LEMMA StopBusOK == BusOK /\ Stop => BusOK'
<1> SUFFICES ASSUME BusOK, Stop PROVE BusOK'
  OBVIOUS
<1>1. TypeOK /\ ServiceOK /\ References /\ Absent
  BY DEF BusOK
<1>2. /\ up' = FALSE /\ queries' = <<>> /\ calls' = <<>>
      /\ inbox' = [d \in Clients |-> Announce(inbox, 0)[d] \o Errors(d)]
      /\ UNCHANGED <<life, known, objectVars, asks, failed, histories>>
  BY DEF Stop, Lost, Errors
<1>3. inbox \in [Clients -> Seq(Messages)] /\ 0 \in 0..MaxLives
  BY <1>1, BoundsAreNat DEF TypeOK
<1>4. /\ Announce(inbox, 0) \in [Clients -> Seq(Messages)]
      /\ \A d \in Clients : /\ ~Alive(d) => Announce(inbox, 0)[d] = inbox[d]
                            /\ Count(Announce(inbox, 0)[d], Answers) = Count(inbox[d], Answers)
  BY <1>3, AnnounceCounts
<1>5. ASSUME NEW d \in Clients
      PROVE  /\ inbox'[d] \in Seq(Messages)
             /\ Count(inbox'[d], Answers) = Count(calls, CreateCalls(d)) + Count(inbox[d], Answers)
  <2>1. Announce(inbox, 0)[d] \in Seq(Messages) /\ inbox[d] \in Seq(Messages)
    BY <1>3, <1>4
  <2>2. Errors(d) \in Seq(Messages) /\ Count(Errors(d), Answers) = Count(calls, CreateCalls(d))
    BY <1>1, ErrorsCount
  <2>3. inbox'[d] = Announce(inbox, 0)[d] \o Errors(d)
    BY <1>2
  <2>4. Count(Announce(inbox, 0)[d] \o Errors(d), Answers)
          = Count(Announce(inbox, 0)[d], Answers) + Count(Errors(d), Answers)
    BY <2>1, <2>2, CountConcat
  <2>5. Announce(inbox, 0)[d] \o Errors(d) \in Seq(Messages)
    BY <2>1, <2>2
  <2>6. calls \in Seq(Calls)
    BY <1>1 DEF TypeOK
  <2>7. Count(inbox[d], Answers) \in Nat /\ Count(calls, CreateCalls(d)) \in Nat
    BY <2>1, <2>6, CountIsNat
  <2> QED
    BY <1>4, <2>2, <2>3, <2>4, <2>5, <2>7
<1>6. inbox' \in [Clients -> Seq(Messages)]
  BY <1>2, <1>5
<1>7. TypeOK'
  <2>1. /\ queries' \in Seq(Queries)
        /\ calls' \in Seq(Calls)
    BY <1>2
  <2> QED
    BY <1>1, <1>2, <1>6, <2>1 DEF TypeOK, objectVars, histories
<1>8. ServiceOK'
  BY <1>2 DEF ServiceOK
<1>9. References'
  <2> SUFFICES ASSUME NEW d \in Clients
               PROVE  creating'[d] = Count(calls', CreateCalls(d)) + Count(inbox'[d], Answers)
    BY DEF References
  <2>1. creating'[d] = Count(calls, CreateCalls(d)) + Count(inbox[d], Answers)
    BY <1>1, <1>2 DEF References, objectVars
  <2>2. Count(calls', CreateCalls(d)) = 0
    BY <1>2, FS_EmptySet DEF Count, At
  <2>3. creating'[d] \in Nat
    BY <1>7 DEF TypeOK
  <2> QED
    BY <1>5, <2>1, <2>2, <2>3
<1>10. Absent'
  <2> SUFFICES ASSUME NEW d \in Clients, d \notin made'
               PROVE  inbox'[d] = <<>> /\ CallsOf(d)' = {} /\ (d \notin failed' => Mine(d)' = {})
    BY DEF Absent
  <2>1. d \notin made /\ ~Alive(d)
    BY <1>2 DEF objectVars, Alive
  <2>2. inbox[d] = <<>> /\ CallsOf(d) = {}
    BY <1>1, <2>1 DEF Absent
  <2>3. Errors(d) = <<>>
    BY <1>1, <2>2, ErrorsCount
  <2>4. CallsOf(d)' = {}
    BY <1>2 DEF CallsOf
  <2>5. Mine(d)' = {}
    BY <1>2 DEF Mine
  <2>6. inbox'[d] = inbox[d] \o Errors(d)
    BY <1>2, <1>4, <2>1
  <2> QED
    BY <2>2, <2>3, <2>4, <2>5, <2>6
<1> QED
  BY <1>7, <1>8, <1>9, <1>10 DEF BusOK

\* What the service does with the first call: it answers who made the call.
LEMMA ServeShape ==
  ASSUME BusOK, Serve
  PROVE  \E c \in Clients, m \in Messages :
           /\ c = Head(calls).client /\ c \in made
           /\ inbox' = [inbox EXCEPT ![c] = Append(@, m)]
           /\ Head(calls).method = "CreateQuery" =>
                /\ m = Created(Len(queries) + 1)
                /\ queries' = Append(queries, [client |-> c, text |-> Head(calls).text, open |-> TRUE])
           /\ Head(calls).method # "CreateQuery" =>
                /\ m.kind \in {"Heard", "NotHeard"}
                /\ DOMAIN queries' = DOMAIN queries
                /\ \A q \in DOMAIN queries : queries'[q].client = queries[q].client
           /\ queries' \in Seq(Queries)
           /\ unsent' \subseteq Clients /\ strayed' \subseteq Clients
<1> DEFINE m == Head(calls)
           c == Head(calls).client
<1>1. TypeOK /\ Absent
  BY DEF BusOK
<1>2. calls \in Seq(Calls) /\ calls # <<>> /\ m \in Calls /\ calls[1] = m /\ 1 \in DOMAIN calls
  BY <1>1 DEF TypeOK, Serve
<1>3. /\ c \in Clients /\ m.method \in {"CreateQuery", "VoiceQuery"}
      /\ m.method = "CreateQuery" => m.text \in Texts
      /\ m.method = "VoiceQuery" => m.by \in Proxies
  BY <1>2, CallParts
<1>4. c \in made
  <2>1. 1 \in CallsOf(c)
    BY <1>2 DEF CallsOf
  <2> QED
    BY <1>1, <1>3, <2>1 DEF Absent
<1>5. /\ queries \in Seq(Queries)
      /\ unsent \subseteq Clients /\ strayed \subseteq Clients
  BY <1>1 DEF TypeOK
<1>6. CASE m.method = "CreateQuery"
  <2>1. HandleCreateQuery(c, m.text)
    BY <1>6 DEF Serve
  <2>2. /\ queries' = Append(queries, [client |-> c, text |-> m.text, open |-> TRUE])
        /\ inbox' = [inbox EXCEPT ![c] = Append(@, Created(Len(queries')))]
        /\ unsent' = unsent /\ strayed' = strayed
    BY <2>1 DEF HandleCreateQuery, Answer, histories
  <2>3. /\ [client |-> c, text |-> m.text, open |-> TRUE]
             \in Queries
    BY <1>3, <1>6 DEF Queries
  <2>4. /\ Len(queries') = Len(queries) + 1 /\ Len(queries) \in Nat
        /\ queries' \in Seq(Queries)
    BY <1>5, <2>2, <2>3
  <2>5. Created(Len(queries) + 1) \in Messages
    BY <2>4, MessageTypes
  <2>6. inbox' = [inbox EXCEPT ![c] = Append(@, Created(Len(queries) + 1))]
    BY <2>2, <2>4
  <2> HIDE DEF m, c
  <2> QED
    BY <1>3, <1>4, <1>5, <1>6, <2>2, <2>4, <2>5, <2>6 DEF m, c
<1>7. CASE m.method = "VoiceQuery"
  <2>1. HandleVoiceQuery(c, m.by)
    BY <1>7 DEF Serve
  <2>2. m.by \in Proxies
    BY <1>3, <1>7
  <2>3. Victim(c, m.by) \subseteq Clients
    BY <1>1, ReachedParts
  <2>4. \E a \in Messages :
          /\ inbox' = [inbox EXCEPT ![c] = Append(@, a)]
          /\ a.kind \in {"Heard", "NotHeard"}
          /\ DOMAIN queries' = DOMAIN queries
          /\ \A q \in DOMAIN queries : queries'[q].client = queries[q].client
          /\ queries' \in Seq(Queries)
          /\ unsent' \subseteq Clients /\ strayed' \subseteq Clients
    <3>1. CASE /\ Reached(m.by) # 0
               /\ \E t \in Texts : /\ queries' = [queries EXCEPT ![m.by.query].text = t]
                                   /\ Answer(c, Heard(m.by, t))
               /\ strayed' = strayed \cup Victim(c, m.by)
               /\ UNCHANGED unsent
      <4>1. PICK t \in Texts : /\ queries' = [queries EXCEPT ![m.by.query].text = t]
                               /\ Answer(c, Heard(m.by, t))
        BY <3>1
      <4>2. Heard(m.by, t) \in Messages /\ Heard(m.by, t).kind = "Heard"
        BY <2>2, MessageTypes, MessageFields
      <4>3. /\ DOMAIN queries' = DOMAIN queries
            /\ \A q \in DOMAIN queries : queries'[q].client = queries[q].client
            /\ queries' \in Seq(Queries)
        <5>1. queries' = WithText(queries, m.by.query, t)
          BY <4>1 DEF WithText
        <5> HIDE DEF m
        <5> QED
          BY <1>5, <5>1, TextReplaced
      <4>4. inbox' = [inbox EXCEPT ![c] = Append(@, Heard(m.by, t))]
        BY <4>1 DEF Answer
      <4> QED
        BY <1>5, <2>3, <3>1, <4>2, <4>3, <4>4
    <3>2. CASE /\ Reached(m.by) # 0
               /\ Answer(c, Heard(m.by, Empty))
               /\ unsent' = unsent \cup {c}
               /\ UNCHANGED <<queries, strayed>>
      <4>1. Heard(m.by, Empty) \in Messages /\ Heard(m.by, Empty).kind = "Heard"
        BY <2>2, MessageTypes, MessageFields, EmptyIsText
      <4>2. inbox' = [inbox EXCEPT ![c] = Append(@, Heard(m.by, Empty))]
        BY <3>2 DEF Answer
      <4> QED
        BY <1>3, <1>5, <3>2, <4>1, <4>2
    <3>3. CASE /\ Reached(m.by) = 0
               /\ Answer(c, NotHeard(m.by))
               /\ UNCHANGED <<queries, histories>>
      <4>1. NotHeard(m.by) \in Messages /\ NotHeard(m.by).kind = "NotHeard"
        BY <2>2, MessageTypes, MessageFields
      <4>2. inbox' = [inbox EXCEPT ![c] = Append(@, NotHeard(m.by))]
        BY <3>3 DEF Answer
      <4> QED
        BY <1>3, <1>5, <3>3, <4>1, <4>2 DEF histories
    <3> QED
      BY <2>1, <3>1, <3>2, <3>3 DEF HandleVoiceQuery
  <2> HIDE DEF m, c
  <2> QED
    BY <1>3, <1>4, <1>7, <2>4 DEF m, c
<1> QED
  BY <1>3, <1>6, <1>7

LEMMA ServeBusOK == BusOK /\ Serve => BusOK'
<1> SUFFICES ASSUME BusOK, Serve PROVE BusOK'
  OBVIOUS
<1>1. TypeOK /\ ServiceOK /\ References /\ Absent
  BY DEF BusOK
<1>2. PICK c \in Clients, m \in Messages :
        /\ c = Head(calls).client /\ c \in made
        /\ inbox' = [inbox EXCEPT ![c] = Append(@, m)]
        /\ Head(calls).method = "CreateQuery" =>
             /\ m = Created(Len(queries) + 1)
             /\ queries' = Append(queries, [client |-> c, text |-> Head(calls).text, open |-> TRUE])
        /\ Head(calls).method # "CreateQuery" =>
             /\ m.kind \in {"Heard", "NotHeard"}
             /\ DOMAIN queries' = DOMAIN queries
             /\ \A q \in DOMAIN queries : queries'[q].client = queries[q].client
        /\ queries' \in Seq(Queries)
        /\ unsent' \subseteq Clients /\ strayed' \subseteq Clients
  BY ServeShape
<1>3. /\ up /\ calls # <<>> /\ calls' = Tail(calls)
      /\ UNCHANGED <<life, up, known, objectVars, asks, failed>>
  BY DEF Serve
<1>4. /\ calls \in Seq(Calls) /\ inbox \in [Clients -> Seq(Messages)]
      /\ queries \in Seq(Queries)
  BY <1>1 DEF TypeOK
<1>5. /\ calls' \in Seq(Calls) /\ Head(calls) \in Calls
      /\ \A i \in DOMAIN calls' : i + 1 \in DOMAIN calls /\ calls'[i] = calls[i + 1]
  BY <1>3, <1>4
<1>6. /\ inbox' \in [Clients -> Seq(Messages)] /\ inbox'[c] = Append(inbox[c], m)
      /\ \A d \in Clients \ {c} : inbox'[d] = inbox[d]
  BY <1>2, <1>4
<1>7. TypeOK'
  BY <1>1, <1>2, <1>3, <1>5, <1>6 DEF TypeOK, objectVars
<1>8. ServiceOK'
  BY <1>1, <1>3 DEF ServiceOK
<1>9. References'
  <2> SUFFICES ASSUME NEW d \in Clients
               PROVE  creating'[d] = Count(calls', CreateCalls(d)) + Count(inbox'[d], Answers)
    BY DEF References
  <2>1. creating'[d] = Count(calls, CreateCalls(d)) + Count(inbox[d], Answers)
    BY <1>1, <1>3 DEF References, objectVars
  <2>2. Count(calls, CreateCalls(d))
          = Count(calls', CreateCalls(d)) + (IF Head(calls) \in CreateCalls(d) THEN 1 ELSE 0)
    BY <1>3, <1>4, CountTail
  <2>3. inbox[d] \in Seq(Messages)
    BY <1>4
  <2>4. Count(calls', CreateCalls(d)) \in Nat /\ Count(inbox[d], Answers) \in Nat
    BY <1>5, <2>3, CountIsNat
  <2>5. CASE d = c /\ Head(calls).method = "CreateQuery"
    <3>1. Head(calls) \in CreateCalls(d)
      BY <1>2, <1>5, <2>5 DEF CreateCalls
    <3>2. m.kind = "Created"
      BY <1>2, <2>5, MessageFields
    <3>3. Count(Append(inbox[d], m), Answers) = Count(inbox[d], Answers) + 1
      BY <2>3, <3>2, AnswerAdded
    <3>4. Count(inbox'[d], Answers) = Count(inbox[d], Answers) + 1
      BY <1>6, <2>5, <3>3
    <3>5. Count(calls, CreateCalls(d)) = Count(calls', CreateCalls(d)) + 1
      BY <2>2, <3>1
    <3> QED
      BY ONLY <2>1, <2>4, <3>4, <3>5
  <2>6. CASE ~(d = c /\ Head(calls).method = "CreateQuery")
    <3>1. Head(calls) \notin CreateCalls(d)
      BY <1>2, <2>6 DEF CreateCalls
    <3>2. Count(inbox'[d], Answers) = Count(inbox[d], Answers)
      <4>1. CASE d = c
        <5>1. m.kind \notin {"Created", "NotCreated"}
          BY <1>2, <2>6, <4>1
        <5>2. Count(Append(inbox[d], m), Answers) = Count(inbox[d], Answers)
          BY <2>3, <5>1, NoAnswerAdded
        <5> QED
          BY <1>6, <4>1, <5>2
      <4>2. CASE d # c
        BY <1>6, <4>2
      <4> QED
        BY <4>1, <4>2
    <3>3. Count(calls, CreateCalls(d)) = Count(calls', CreateCalls(d))
      BY <2>2, <2>4, <3>1
    <3> QED
      BY ONLY <2>1, <3>2, <3>3
  <2> QED
    BY <2>5, <2>6
<1>10. Absent'
  <2> SUFFICES ASSUME NEW d \in Clients, d \notin made'
               PROVE  inbox'[d] = <<>> /\ CallsOf(d)' = {} /\ (d \notin failed' => Mine(d)' = {})
    BY DEF Absent
  <2>1. d \notin made /\ d # c
    BY <1>2, <1>3 DEF objectVars
  <2>2. inbox[d] = <<>> /\ CallsOf(d) = {} /\ (d \notin failed => Mine(d) = {})
    BY <1>1, <2>1 DEF Absent
  <2>3. CallsOf(d)' = {}
    BY <1>5, <2>2 DEF CallsOf
  <2>4. Mine(d)' = Mine(d)
    <3>1. CASE Head(calls).method = "CreateQuery"
      <4>1. queries' = Append(queries, [client |-> c, text |-> Head(calls).text, open |-> TRUE])
        BY <1>2, <3>1
      <4>2. /\ DOMAIN queries' = 1..(Len(queries) + 1) /\ Len(queries) \in Nat
            /\ DOMAIN queries = 1..Len(queries)
            /\ \A q \in DOMAIN queries : queries'[q] = queries[q]
            /\ queries'[Len(queries) + 1].client = c
        BY <1>4, <4>1
      <4> QED
        BY <2>1, <4>2 DEF Mine
    <3>2. CASE Head(calls).method # "CreateQuery"
      BY <1>2, <3>2 DEF Mine
    <3> QED
      BY <3>1, <3>2
  <2> QED
    BY <1>3, <1>6, <2>1, <2>2, <2>3, <2>4
<1> QED
  BY <1>7, <1>8, <1>9, <1>10 DEF BusOK

\* One process's call is none of another's.
LEMMA OthersCalls ==
  ASSUME TypeOK, NEW c, NEW d, c # d, NEW m \in Calls, m.client = c,
         calls' = calls \/ calls' = Append(calls, m)
  PROVE  CallsOf(d)' = CallsOf(d)
<1>1. calls \in Seq(Calls)
  BY DEF TypeOK
<1>2. CASE calls' = calls
  BY <1>2 DEF CallsOf
<1>3. CASE calls' = Append(calls, m)
  <2>1. /\ Len(calls) \in Nat /\ DOMAIN calls = 1..Len(calls)
        /\ DOMAIN calls' = 1..(Len(calls) + 1)
        /\ \A i \in 1..Len(calls) : calls'[i] = calls[i]
        /\ calls'[Len(calls) + 1] = m
    BY <1>1, <1>3
  <2> QED
    BY <2>1 DEF CallsOf
<1> QED
  BY <1>2, <1>3

\* References are counted as before when the calls that hold them and the counted
\* answers change together.
LEMMA ReferencesFollow ==
  ASSUME BusOK, TypeOK', NEW d \in Clients, NEW k \in Nat,
         k = Count(inbox[d], Answers),
         creating'[d] + Count(calls, CreateCalls(d)) + k
           = creating[d] + Count(calls', CreateCalls(d)) + Count(inbox'[d], Answers)
  PROVE  creating'[d] = Count(calls', CreateCalls(d)) + Count(inbox'[d], Answers)
<1>1. creating[d] = Count(calls, CreateCalls(d)) + k
  BY DEF BusOK, References
<1>2. /\ calls \in Seq(Calls) /\ calls' \in Seq(Calls) /\ inbox'[d] \in Seq(Messages)
      /\ creating'[d] \in Nat
  BY DEF BusOK, TypeOK
<1>3. /\ Count(calls, CreateCalls(d)) \in Nat /\ Count(calls', CreateCalls(d)) \in Nat
      /\ Count(inbox'[d], Answers) \in Nat
  BY <1>2, CountIsNat
<1>4. creating'[d] \in Nat
  BY <1>2
<1> QED
  BY ONLY <1>1, <1>3, <1>4, k \in Nat,
     creating'[d] + Count(calls, CreateCalls(d)) + k
       = creating[d] + Count(calls', CreateCalls(d)) + Count(inbox'[d], Answers)

LEMMA NewBusOK == ASSUME BusOK, NEW c \in Clients, New(c) PROVE BusOK'
<1>1. TypeOK /\ ServiceOK /\ References /\ Absent
  BY DEF BusOK
<1>2. /\ c \notin made \cup failed /\ made' = made \cup {c} /\ held' = held \cup {c}
      /\ UNCHANGED <<text, leaked, asks, failed>>
  BY DEF New
<1>3. inbox \in [Clients -> Seq(Messages)] /\ life \in 0..MaxLives /\ 0 \in 0..MaxLives
  BY <1>1, BoundsAreNat DEF TypeOK
<1>4. PICK n \in 0..MaxLives, box \in [Clients -> Seq(Messages)] :
        /\ ConnectionStatus(c, n, box)
        /\ \A d \in Clients : ~Alive(d) => box[d] = inbox[d]
        /\ \A d \in Clients : Count(box[d], Answers) = Count(inbox[d], Answers)
        /\ \/ UNCHANGED serviceVars
           \/ Starts
  <2>1. CASE UNCHANGED serviceVars /\ ConnectionStatus(c, NameOwner, inbox)
    <3>1. NameOwner \in 0..MaxLives
      BY <1>3 DEF NameOwner
    <3> QED
      BY <1>3, <2>1, <3>1
  <2>2. CASE Starts /\ ConnectionStatus(c, life + 1, Announce(inbox, life + 1))
    <3>1. life + 1 \in 0..MaxLives
      BY <1>1, <2>2, StartsTypes
    <3>2. /\ Announce(inbox, life + 1) \in [Clients -> Seq(Messages)]
          /\ \A d \in Clients : /\ ~Alive(d) => Announce(inbox, life + 1)[d] = inbox[d]
                                /\ Alive(d) => Announce(inbox, life + 1)[d] = Append(inbox[d], Owner(life + 1))
                                /\ Count(Announce(inbox, life + 1)[d], Answers) = Count(inbox[d], Answers)
      BY <1>3, <3>1, AnnounceCounts
    <3> QED
      BY <2>2, <3>1, <3>2
  <2> QED
    BY <2>1, <2>2 DEF New
<1>5. /\ calls' \in Seq(Calls) /\ inbox' \in [Clients -> Seq(Messages)]
      /\ known' \in [Clients -> 0..MaxLives] /\ proxy' \in [Clients -> Proxies]
      /\ creating' \in [Clients -> Nat]
      /\ unsent' \subseteq unsent /\ strayed' \subseteq strayed
      /\ \A d \in Clients \ {c} : inbox'[d] = box[d] /\ creating'[d] = creating[d]
      /\ calls' = calls \/ calls' = Append(calls, CreateCall(c))
      /\ \A d \in Clients :
           creating'[d] + Count(calls, CreateCalls(d)) + Count(box[d], Answers)
             = creating[d] + Count(calls', CreateCalls(d)) + Count(inbox'[d], Answers)
  BY <1>1, <1>4, ConnectionStatusCounts
<1>6. /\ life' \in 0..MaxLives /\ up' \in BOOLEAN /\ queries' \in Seq(Queries)
      /\ up' => life' > 0
  <2>1. CASE UNCHANGED serviceVars
    BY <1>1, <2>1 DEF serviceVars, TypeOK, ServiceOK
  <2>2. CASE Starts
    BY <1>1, <2>2, StartsTypes
  <2> QED
    BY <1>4, <2>1, <2>2
<1>7. TypeOK'
  BY <1>1, <1>2, <1>5, <1>6 DEF TypeOK
<1>8. ServiceOK'
  <2>1. CASE up'
    BY <1>6, <2>1 DEF ServiceOK
  <2>2. CASE ~up'
    <3>1. UNCHANGED serviceVars
      BY <1>1, <1>4, <2>2, StartsTypes
    <3>2. ~up /\ queries = <<>> /\ calls = <<>> /\ queries' = <<>>
      BY <1>1, <2>2, <3>1 DEF serviceVars, ServiceOK
    <3>3. n = 0 \/ n # NameOwner'
      BY <2>2 DEF NameOwner
    <3>4. calls' = calls
      BY <1>4, <3>3 DEF ConnectionStatus, NewQuery
    <3> QED
      BY <2>2, <3>2, <3>4 DEF ServiceOK
  <2> QED
    BY <2>1, <2>2
<1>9. References'
  <2> SUFFICES ASSUME NEW d \in Clients
               PROVE  creating'[d] = Count(calls', CreateCalls(d)) + Count(inbox'[d], Answers)
    BY DEF References
  <2>1. Count(inbox[d], Answers) \in Nat /\ Count(box[d], Answers) = Count(inbox[d], Answers)
    BY <1>3, <1>4, CountIsNat
  <2>2. creating'[d] + Count(calls, CreateCalls(d)) + Count(inbox[d], Answers)
          = creating[d] + Count(calls', CreateCalls(d)) + Count(inbox'[d], Answers)
    BY <1>5, <2>1
  <2> QED
    BY <1>7, <2>1, <2>2, ReferencesFollow
<1>10. Absent'
  <2> SUFFICES ASSUME NEW d \in Clients, d \notin made'
               PROVE  inbox'[d] = <<>> /\ CallsOf(d)' = {} /\ (d \notin failed' => Mine(d)' = {})
    BY DEF Absent
  <2>1. d \notin made /\ d # c /\ ~Alive(d)
    BY <1>2 DEF Alive
  <2>2. inbox[d] = <<>> /\ CallsOf(d) = {} /\ (d \notin failed => Mine(d) = {})
    BY <1>1, <2>1 DEF Absent
  <2>3. CallsOf(d)' = {}
    <3>1. CreateCall(c) \in Calls /\ CreateCall(c).client = c
      BY <1>1, CallTypes
    <3> QED
      BY <1>1, <1>5, <2>1, <2>2, <3>1, OthersCalls
  <2>4. d \notin failed' => Mine(d)' = {}
    <3>1. CASE UNCHANGED serviceVars
      BY <1>2, <2>2, <3>1 DEF serviceVars, Mine
    <3>2. CASE Starts
      BY <1>1, <3>2, StartsTypes DEF Mine
    <3> QED
      BY <1>4, <3>1, <3>2
  <2> QED
    BY <1>4, <1>5, <2>1, <2>2, <2>3, <2>4
<1> QED
  BY <1>7, <1>8, <1>9, <1>10 DEF BusOK

\* A process that gets a message has made an object, and the rest of its inbox waits.
LEMMA Popping ==
  ASSUME BusOK, NEW c \in Clients, NEW kinds, Receives(c, kinds)
  PROVE  /\ c \in made /\ inbox[c] \in Seq(Messages) /\ inbox[c] # <<>>
         /\ Head(inbox[c]) \in Messages /\ Head(inbox[c]).kind \in kinds
         /\ Head(inbox[c]) = inbox[c][1] /\ 1 \in DOMAIN inbox[c]
         /\ Popped(c) \in [Clients -> Seq(Messages)] /\ Popped(c)[c] = Tail(inbox[c])
         /\ \A d \in Clients \ {c} : Popped(c)[d] = inbox[d]
<1>1. inbox \in [Clients -> Seq(Messages)] /\ Absent
  BY DEF BusOK, TypeOK
<1>2. inbox[c] \in Seq(Messages) /\ inbox[c] # <<>> /\ Head(inbox[c]).kind \in kinds
  BY <1>1 DEF Receives
<1>3. c \in made
  BY <1>1, <1>2 DEF Absent
<1>4. /\ Head(inbox[c]) \in Messages /\ Tail(inbox[c]) \in Seq(Messages)
      /\ Head(inbox[c]) = inbox[c][1] /\ 1 \in DOMAIN inbox[c]
  BY <1>2
<1>5. /\ Popped(c) \in [Clients -> Seq(Messages)] /\ Popped(c)[c] = Tail(inbox[c])
      /\ \A d \in Clients \ {c} : Popped(c)[d] = inbox[d]
  BY <1>1, <1>4 DEF Popped
<1> QED
  BY <1>2, <1>3, <1>4, <1>5

\* Absence where the calls of others and the queries' processes stay as they are.
LEMMA AbsentFollows ==
  ASSUME BusOK, NEW c \in Clients, c \in made, made' = made, failed' = failed,
         NEW m \in Calls, m.client = c, calls' = calls \/ calls' = Append(calls, m),
         \A d \in Clients \ {c} : inbox'[d] = inbox[d] \/ (Alive(d) /\ d \in made),
         queries' = <<>> \/ (/\ DOMAIN queries' = DOMAIN queries
                             /\ \A q \in DOMAIN queries : queries'[q].client = queries[q].client)
  PROVE  Absent'
<1> SUFFICES ASSUME NEW d \in Clients, d \notin made'
             PROVE  inbox'[d] = <<>> /\ CallsOf(d)' = {} /\ (d \notin failed' => Mine(d)' = {})
  BY DEF Absent
<1>1. d \notin made /\ d # c
  OBVIOUS
<1>2. inbox[d] = <<>> /\ CallsOf(d) = {} /\ (d \notin failed => Mine(d) = {})
  BY <1>1 DEF BusOK, Absent
<1>3. CallsOf(d)' = {}
  BY <1>1, <1>2, OthersCalls DEF BusOK
<1>4. d \notin failed' => Mine(d)' = {}
  BY <1>2 DEF Mine
<1> QED
  BY <1>1, <1>2, <1>3, <1>4

LEMMA HandleOwnerBusOK == ASSUME BusOK, NEW c \in Clients, HandleOwner(c) PROVE BusOK'
<1> DEFINE n == Head(inbox[c]).life
<1>1. TypeOK /\ ServiceOK /\ References /\ Absent
  BY DEF BusOK
<1>2. /\ Receives(c, {"Owner"})
      /\ UNCHANGED <<serviceVars, made, held, text, leaked, asks, failed>>
  BY DEF HandleOwner
<1>3. /\ c \in made /\ inbox[c] \in Seq(Messages) /\ inbox[c] # <<>>
      /\ Head(inbox[c]) \in Messages /\ Head(inbox[c]).kind \in {"Owner"}
      /\ Head(inbox[c]) = inbox[c][1] /\ 1 \in DOMAIN inbox[c]
      /\ Popped(c) \in [Clients -> Seq(Messages)] /\ Popped(c)[c] = Tail(inbox[c])
      /\ \A d \in Clients \ {c} : Popped(c)[d] = inbox[d]
  BY <1>2, Popping
<1>4. n \in 0..MaxLives /\ 0 \in 0..MaxLives
  BY <1>3, MessageParts, BoundsAreNat
<1>5. ASSUME NEW d \in Clients PROVE Count(Popped(c)[d], Answers) = Count(inbox[d], Answers)
  <2>1. Count(Tail(inbox[c]), Answers) = Count(inbox[c], Answers)
    BY <1>3, MessageTaken
  <2> QED
    BY <1>3, <2>1
<1>6. /\ inbox \in [Clients -> Seq(Messages)] /\ calls \in Seq(Calls)
      /\ known \in [Clients -> 0..MaxLives]
  BY <1>1 DEF TypeOK
<1>7. /\ calls' \in Seq(Calls) /\ inbox' \in [Clients -> Seq(Messages)]
      /\ known' \in [Clients -> 0..MaxLives] /\ proxy' \in [Clients -> Proxies]
      /\ creating' \in [Clients -> Nat]
      /\ unsent' \subseteq unsent /\ strayed' \subseteq strayed
      /\ \A d \in Clients \ {c} : inbox'[d] = inbox[d]
      /\ calls' = calls \/ calls' = Append(calls, CreateCall(c))
      /\ \A d \in Clients :
           creating'[d] + Count(calls, CreateCalls(d)) + Count(Popped(c)[d], Answers)
             = creating[d] + Count(calls', CreateCalls(d)) + Count(inbox'[d], Answers)
  <2>1. CASE ConnectionStatus(c, n, Popped(c))
    <3>1. /\ calls' \in Seq(Calls) /\ inbox' \in [Clients -> Seq(Messages)]
          /\ known' \in [Clients -> 0..MaxLives] /\ proxy' \in [Clients -> Proxies]
          /\ creating' \in [Clients -> Nat]
          /\ unsent' \subseteq unsent /\ strayed' \subseteq strayed
          /\ \A d \in Clients \ {c} : inbox'[d] = Popped(c)[d] /\ creating'[d] = creating[d]
          /\ calls' = calls \/ calls' = Append(calls, CreateCall(c))
          /\ \A d \in Clients :
               creating'[d] + Count(calls, CreateCalls(d)) + Count(Popped(c)[d], Answers)
                 = creating[d] + Count(calls', CreateCalls(d)) + Count(inbox'[d], Answers)
      <4> HIDE DEF n
      <4> QED
        BY <1>1, <1>3, <1>4, <2>1, ConnectionStatusCounts
    <3> QED
      BY <1>3, <3>1
  <2>2. CASE /\ inbox' = Popped(c)
             /\ known' = [known EXCEPT ![c] = IF Alive(c) THEN n ELSE 0]
             /\ UNCHANGED <<calls, proxy, creating, histories>>
    <3>1. known' \in [Clients -> 0..MaxLives]
      <4> HIDE DEF n
      <4> QED
        BY <1>4, <1>6, <2>2
    <3> QED
      BY <1>1, <1>3, <2>2, <3>1 DEF TypeOK, histories
  <2> QED
    BY <2>1, <2>2 DEF HandleOwner
<1>8. TypeOK'
  BY <1>1, <1>2, <1>7 DEF TypeOK, serviceVars
<1>9. ServiceOK'
  <2>1. CASE up
    BY <1>1, <1>2, <2>1 DEF ServiceOK, serviceVars
  <2>2. CASE ~up
    <3>1. n = 0 \/ n # NameOwner'
      BY <1>2, <2>2 DEF NameOwner, serviceVars
    <3>2. calls' = calls
      BY <3>1 DEF HandleOwner, ConnectionStatus, NewQuery
    <3> QED
      BY <1>1, <1>2, <2>2, <3>2 DEF ServiceOK, serviceVars
  <2> QED
    BY <2>1, <2>2
<1>10. References'
  <2> SUFFICES ASSUME NEW d \in Clients
               PROVE  creating'[d] = Count(calls', CreateCalls(d)) + Count(inbox'[d], Answers)
    BY DEF References
  <2>1. inbox[d] \in Seq(Messages)
    BY <1>6
  <2>2. Count(inbox[d], Answers) \in Nat
    BY <2>1, CountIsNat
  <2>3. creating'[d] + Count(calls, CreateCalls(d)) + Count(inbox[d], Answers)
          = creating[d] + Count(calls', CreateCalls(d)) + Count(inbox'[d], Answers)
    BY <1>5, <1>7
  <2> QED
    BY <1>8, <2>2, <2>3, ReferencesFollow
<1>11. Absent'
  <2>1. CreateCall(c) \in Calls /\ CreateCall(c).client = c
    BY <1>1, CallTypes
  <2> QED
    BY <1>2, <1>3, <1>7, <2>1, AbsentFollows DEF serviceVars
<1> QED
  BY <1>8, <1>9, <1>10, <1>11 DEF BusOK

\* What the end of an object does.
LEMMA DisposeTypes ==
  ASSUME TypeOK, NEW c \in Clients, NEW p, Dispose(c, p)
  PROVE  /\ queries' \in Seq(Queries) /\ DOMAIN queries' = DOMAIN queries
         /\ \A q \in DOMAIN queries : /\ queries'[q].client = queries[q].client
                                      /\ queries'[q].text = queries[q].text
                                      /\ queries'[q].open => queries[q].open
         /\ strayed' \subseteq Clients /\ strayed \subseteq strayed'
         /\ proxy' \in [Clients -> Proxies] /\ proxy'[c] = NoProxy
         /\ known' \in [Clients -> 0..MaxLives]
         /\ \A d \in Clients \ {c} : proxy'[d] = proxy[d] /\ known'[d] = known[d]
<1>1. /\ queries \in Seq(Queries) /\ strayed \subseteq Clients /\ proxy \in [Clients -> Proxies]
      /\ known \in [Clients -> 0..MaxLives] /\ 0 \in 0..MaxLives
  BY BoundsAreNat DEF TypeOK
<1>2. queries' = queries \/ queries' = WithClosed(queries, p.query)
  BY DEF Dispose, Without, WithClosed
<1>3. /\ queries' \in Seq(Queries) /\ DOMAIN queries' = DOMAIN queries
      /\ \A q \in DOMAIN queries : /\ queries'[q].client = queries[q].client
                                   /\ queries'[q].text = queries[q].text
                                   /\ queries'[q].open => queries[q].open
  BY <1>1, <1>2, QueryClosed
<1>4. strayed' = strayed \cup Victim(c, p) /\ Victim(c, p) \subseteq Clients
  BY ReachedParts DEF Dispose
<1>5. proxy' = [proxy EXCEPT ![c] = NoProxy] /\ known' = [known EXCEPT ![c] = 0]
  BY DEF Dispose, Disconnect
<1>6. /\ proxy' \in [Clients -> Proxies] /\ proxy'[c] = NoProxy
      /\ known' \in [Clients -> 0..MaxLives]
      /\ \A d \in Clients \ {c} : proxy'[d] = proxy[d] /\ known'[d] = known[d]
  BY <1>1, <1>5, ProxyTypes
<1> QED
  BY <1>1, <1>3, <1>4, <1>6

\* What the answer to CreateQuery does, in the process and beyond it.
LEMMA HandleCreatedShape ==
  ASSUME BusOK, NEW c \in Clients, HandleCreated(c)
  PROVE  /\ Receives(c, {"Created"}) /\ creating[c] > 0 /\ Alive(c)
         /\ creating' = [creating EXCEPT ![c] = @ - 1]
         /\ creating' \in [Clients -> Nat]
         /\ UNCHANGED <<calls, made, held, text, leaked, asks, failed, unsent>>
         /\ proxy' \in [Clients -> Proxies] /\ known' \in [Clients -> 0..MaxLives]
         /\ strayed' \subseteq Clients
         /\ \/ /\ up /\ up' /\ life' = life /\ inbox' = Popped(c)
               /\ queries' \in Seq(Queries) /\ DOMAIN queries' = DOMAIN queries
               /\ \A q \in DOMAIN queries : queries'[q].client = queries[q].client
            \/ /\ Starts /\ inbox' = Announce(Popped(c), life + 1)
            \/ /\ ~up /\ UNCHANGED serviceVars /\ inbox' = Popped(c)
<1> DEFINE q == Head(inbox[c]).query
           last == c \notin held /\ creating[c] + leaked[c] = 1
           To(n) == [life |-> n, query |-> q]
<1>1. TypeOK /\ ServiceOK
  BY DEF BusOK
<1>2. /\ Receives(c, {"Created"}) /\ creating' = [creating EXCEPT ![c] = @ - 1]
      /\ UNCHANGED <<calls, made, held, text, leaked, asks, failed, unsent>>
  BY DEF HandleCreated
<1>3. creating[c] > 0 /\ Alive(c)
  <2>1. Receives(c, {"Created", "NotCreated"})
    BY <1>2 DEF Receives
  <2> QED
    BY <2>1, HeadIsAnswer
<1>4. /\ creating \in [Clients -> Nat] /\ life \in 0..MaxLives
      /\ proxy \in [Clients -> Proxies] /\ known \in [Clients -> 0..MaxLives]
      /\ queries \in Seq(Queries) /\ strayed \subseteq Clients
  BY <1>1 DEF TypeOK
<1>5. creating' \in [Clients -> Nat]
  BY <1>2, <1>3, <1>4
<1>6. q \in Nat \ {0}
  <2>1. Head(inbox[c]) \in Messages /\ Head(inbox[c]).kind = "Created"
    BY <1>2, Popping
  <2> QED
    BY <2>1, MessageParts
<1>7. \A n \in 1..MaxLives : To(n) \in Proxies
  BY <1>6, ProxyTypes
<1>8. ASSUME NEW p \in Proxies, proxy' = [proxy EXCEPT ![c] = p], known' = known
      PROVE  proxy' \in [Clients -> Proxies] /\ known' \in [Clients -> 0..MaxLives]
  BY <1>4, <1>8
<1> HIDE DEF q, last, To
<1>9. CASE /\ up /\ inbox' = Popped(c)
           /\ IF last THEN Dispose(c, To(life))
              ELSE proxy' = [proxy EXCEPT ![c] = To(life)] /\ UNCHANGED known
                     /\ UNCHANGED <<queries, strayed>>
           /\ UNCHANGED <<life, up>>
  <2>1. CASE last
    <3>1. Dispose(c, To(life))
      BY <1>9, <2>1
    <3>2. /\ queries' \in Seq(Queries) /\ DOMAIN queries' = DOMAIN queries
          /\ \A x \in DOMAIN queries : /\ queries'[x].client = queries[x].client
                                       /\ queries'[x].text = queries[x].text
                                       /\ queries'[x].open => queries[x].open
          /\ strayed' \subseteq Clients /\ strayed \subseteq strayed'
          /\ proxy' \in [Clients -> Proxies] /\ proxy'[c] = NoProxy
          /\ known' \in [Clients -> 0..MaxLives]
          /\ \A d \in Clients \ {c} : proxy'[d] = proxy[d] /\ known'[d] = known[d]
      BY <1>1, <3>1, DisposeTypes
    <3> QED
      BY <1>2, <1>3, <1>5, <1>9, <3>2
  <2>2. CASE ~last
    <3>1. life \in 1..MaxLives
      BY <1>1, <1>4, <1>9 DEF ServiceOK
    <3>2. proxy' \in [Clients -> Proxies] /\ known' \in [Clients -> 0..MaxLives]
      BY <1>7, <1>8, <1>9, <2>2, <3>1
    <3> QED
      BY <1>2, <1>3, <1>4, <1>5, <1>9, <2>2, <3>2
  <2> QED
    BY <2>1, <2>2
<1>10. CASE /\ Starts /\ inbox' = Announce(Popped(c), life + 1)
            /\ proxy' = [proxy EXCEPT ![c] = IF last THEN NoProxy ELSE To(life + 1)]
            /\ UNCHANGED known
            /\ UNCHANGED strayed
  <2>1. life + 1 \in 1..MaxLives
    BY <1>1, <1>10, StartsTypes
  <2>2. (IF last THEN NoProxy ELSE To(life + 1)) \in Proxies
    BY <1>7, <2>1, ProxyTypes
  <2>3. proxy' \in [Clients -> Proxies] /\ known' \in [Clients -> 0..MaxLives]
    BY <1>8, <1>10, <2>2
  <2> QED
    BY <1>2, <1>3, <1>4, <1>5, <1>10, <2>3
<1>11. CASE /\ ~up /\ inbox' = Popped(c)
            /\ proxy' = [proxy EXCEPT ![c] = NoProxy]
            /\ UNCHANGED known
            /\ UNCHANGED <<serviceVars, strayed>>
  <2>1. proxy' \in [Clients -> Proxies] /\ known' \in [Clients -> 0..MaxLives]
    BY <1>8, <1>11, ProxyTypes
  <2> QED
    BY <1>2, <1>3, <1>4, <1>5, <1>11, <2>1
<1> QED
  BY <1>9, <1>10, <1>11 DEF HandleCreated, q, last, To

LEMMA HandleCreatedBusOK == ASSUME BusOK, NEW c \in Clients, HandleCreated(c) PROVE BusOK'
<1>1. TypeOK /\ ServiceOK /\ References /\ Absent
  BY DEF BusOK
<1>2. /\ Receives(c, {"Created"}) /\ creating[c] > 0 /\ Alive(c)
      /\ creating' = [creating EXCEPT ![c] = @ - 1]
      /\ creating' \in [Clients -> Nat]
      /\ UNCHANGED <<calls, made, held, text, leaked, asks, failed, unsent>>
      /\ proxy' \in [Clients -> Proxies] /\ known' \in [Clients -> 0..MaxLives]
      /\ strayed' \subseteq Clients
      /\ \/ /\ up /\ up' /\ life' = life /\ inbox' = Popped(c)
            /\ queries' \in Seq(Queries) /\ DOMAIN queries' = DOMAIN queries
            /\ \A q \in DOMAIN queries : queries'[q].client = queries[q].client
         \/ /\ Starts /\ inbox' = Announce(Popped(c), life + 1)
         \/ /\ ~up /\ UNCHANGED serviceVars /\ inbox' = Popped(c)
  BY HandleCreatedShape
<1>3. /\ c \in made /\ inbox[c] \in Seq(Messages) /\ inbox[c] # <<>>
      /\ Head(inbox[c]) \in Messages /\ Head(inbox[c]).kind \in {"Created"}
      /\ Head(inbox[c]) = inbox[c][1] /\ 1 \in DOMAIN inbox[c]
      /\ Popped(c) \in [Clients -> Seq(Messages)] /\ Popped(c)[c] = Tail(inbox[c])
      /\ \A d \in Clients \ {c} : Popped(c)[d] = inbox[d]
  BY <1>2, Popping
<1>4. Starts => /\ life + 1 \in 1..MaxLives /\ life + 1 \in 0..MaxLives /\ life' = life + 1
                /\ ~up /\ up' = TRUE /\ queries' = <<>> /\ queries' \in Seq(Queries)
  BY <1>1, StartsTypes
<1>5. /\ inbox' \in [Clients -> Seq(Messages)]
      /\ \A d \in Clients : ~Alive(d) => inbox'[d] = Popped(c)[d]
      /\ \A d \in Clients : Count(inbox'[d], Answers) = Count(Popped(c)[d], Answers)
  <2>1. CASE inbox' = Popped(c)
    BY <1>3, <2>1
  <2>2. CASE Starts /\ inbox' = Announce(Popped(c), life + 1)
    <3>1. /\ Announce(Popped(c), life + 1) \in [Clients -> Seq(Messages)]
          /\ \A d \in Clients :
               /\ ~Alive(d) => Announce(Popped(c), life + 1)[d] = Popped(c)[d]
               /\ Alive(d) => Announce(Popped(c), life + 1)[d] = Append(Popped(c)[d], Owner(life + 1))
               /\ Count(Announce(Popped(c), life + 1)[d], Answers) = Count(Popped(c)[d], Answers)
      BY <1>3, <1>4, <2>2, AnnounceCounts
    <3> QED
      BY <2>2, <3>1
  <2> QED
    BY <1>2, <2>1, <2>2
<1>6. /\ life' \in 0..MaxLives /\ up' \in BOOLEAN /\ queries' \in Seq(Queries)
  <2>1. life \in 0..MaxLives /\ up \in BOOLEAN /\ queries \in Seq(Queries)
    BY <1>1 DEF TypeOK
  <2> QED
    BY <1>2, <1>4, <2>1 DEF serviceVars
<1>7. TypeOK'
  BY <1>1, <1>2, <1>5, <1>6 DEF TypeOK
<1>8. ServiceOK'
  BY <1>1, <1>2, <1>4 DEF ServiceOK, serviceVars
<1>9. References'
  <2> SUFFICES ASSUME NEW d \in Clients
               PROVE  creating'[d] = Count(calls', CreateCalls(d)) + Count(inbox'[d], Answers)
    BY DEF References
  <2>1. /\ inbox[d] \in Seq(Messages) /\ creating[d] \in Nat /\ creating \in [Clients -> Nat]
        /\ calls \in Seq(Calls)
    BY <1>1 DEF TypeOK
  <2>2. Count(inbox[d], Answers) \in Nat /\ Count(calls, CreateCalls(d)) \in Nat
    BY <2>1, CountIsNat
  <2>3. creating[d] = Count(calls, CreateCalls(d)) + Count(inbox[d], Answers) /\ calls' = calls
    BY <1>1, <1>2 DEF References
  <2>4. CASE d = c
    <3>1. /\ Count(inbox[c], Answers) = Count(Tail(inbox[c]), Answers) + 1
          /\ Count(Tail(inbox[c]), Answers) \in Nat
      BY <1>3, MessageTaken
    <3>2. Count(inbox'[d], Answers) = Count(Tail(inbox[c]), Answers)
      BY <1>3, <1>5, <2>4
    <3>3. creating'[d] = creating[d] - 1
      BY <1>2, <2>1, <2>4
    <3> QED
      BY <2>2, <2>3, <2>4, <3>1, <3>2, <3>3
  <2>5. CASE d # c
    BY <1>2, <1>3, <1>5, <2>1, <2>3, <2>5
  <2> QED
    BY <2>4, <2>5
<1>10. Absent'
  <2>1. \A d \in Clients \ {c} : inbox'[d] = inbox[d] \/ (Alive(d) /\ d \in made)
    BY <1>3, <1>5 DEF Alive
  <2>2. queries' = <<>> \/ (/\ DOMAIN queries' = DOMAIN queries
                            /\ \A q \in DOMAIN queries : queries'[q].client = queries[q].client)
    BY <1>2, <1>4 DEF serviceVars
  <2>3. CreateCall(c) \in Calls /\ CreateCall(c).client = c
    BY <1>1, CallTypes
  <2> QED
    BY <1>2, <1>3, <2>1, <2>2, <2>3, AbsentFollows
<1> QED
  BY <1>7, <1>8, <1>9, <1>10 DEF BusOK

LEMMA HandleNotCreatedBusOK == ASSUME BusOK, NEW c \in Clients, HandleNotCreated(c) PROVE BusOK'
<1>1. TypeOK /\ ServiceOK /\ References /\ Absent
  BY DEF BusOK
<1>2. /\ Receives(c, {"NotCreated"}) /\ inbox' = Popped(c)
      /\ creating' = [creating EXCEPT ![c] = @ - 1] /\ leaked' = [leaked EXCEPT ![c] = @ + 1]
      /\ UNCHANGED <<serviceVars, calls, known, made, held, text, proxy, asks, failed, histories>>
  BY DEF HandleNotCreated
<1>3. /\ c \in made /\ inbox[c] \in Seq(Messages) /\ inbox[c] # <<>>
      /\ Head(inbox[c]) \in Messages /\ Head(inbox[c]).kind \in {"NotCreated"}
      /\ Head(inbox[c]) = inbox[c][1] /\ 1 \in DOMAIN inbox[c]
      /\ Popped(c) \in [Clients -> Seq(Messages)] /\ Popped(c)[c] = Tail(inbox[c])
      /\ \A d \in Clients \ {c} : Popped(c)[d] = inbox[d]
  BY <1>2, Popping
<1>4. creating[c] > 0
  <2>1. Receives(c, {"Created", "NotCreated"})
    BY <1>2 DEF Receives
  <2> QED
    BY <2>1, HeadIsAnswer
<1>5. /\ creating \in [Clients -> Nat] /\ leaked \in [Clients -> Nat]
      /\ calls \in Seq(Calls) /\ inbox \in [Clients -> Seq(Messages)]
  BY <1>1 DEF TypeOK
<1>6. creating' \in [Clients -> Nat] /\ leaked' \in [Clients -> Nat]
  BY <1>2, <1>4, <1>5
<1>7. TypeOK'
  BY <1>1, <1>2, <1>3, <1>6 DEF TypeOK, serviceVars, histories
<1>8. ServiceOK'
  BY <1>1, <1>2 DEF ServiceOK, serviceVars
<1>9. References'
  <2> SUFFICES ASSUME NEW d \in Clients
               PROVE  creating'[d] = Count(calls', CreateCalls(d)) + Count(inbox'[d], Answers)
    BY DEF References
  <2>1. creating[d] \in Nat /\ inbox[d] \in Seq(Messages)
    BY <1>5
  <2>2. Count(inbox[d], Answers) \in Nat /\ Count(calls, CreateCalls(d)) \in Nat
    BY <1>5, <2>1, CountIsNat
  <2>3. creating[d] = Count(calls, CreateCalls(d)) + Count(inbox[d], Answers) /\ calls' = calls
    BY <1>1, <1>2 DEF References
  <2>4. CASE d = c
    <3>1. /\ Count(inbox[c], Answers) = Count(Tail(inbox[c]), Answers) + 1
          /\ Count(Tail(inbox[c]), Answers) \in Nat
      BY <1>3, MessageTaken
    <3>2. Count(inbox'[d], Answers) = Count(Tail(inbox[c]), Answers)
      BY <1>2, <1>3, <2>4
    <3>3. creating'[d] = creating[d] - 1
      BY <1>2, <1>5, <2>4
    <3> QED
      BY <2>2, <2>3, <2>4, <3>1, <3>2, <3>3
  <2>5. CASE d # c
    BY <1>2, <1>3, <1>5, <2>3, <2>5
  <2> QED
    BY <2>4, <2>5
<1>10. Absent'
  <2>1. CreateCall(c) \in Calls /\ CreateCall(c).client = c
    BY <1>1, CallTypes
  <2> QED
    BY <1>2, <1>3, <2>1, AbsentFollows DEF serviceVars
<1> QED
  BY <1>7, <1>8, <1>9, <1>10 DEF BusOK

\* The calls of the other processes go on, in their order.
LEMMA FailCalls ==
  ASSUME TypeOK, NEW c \in Clients, Fail(c)
  PROVE  /\ calls' \in Seq(Calls) /\ CallsOf(c)' = {}
         /\ \A d \in Clients \ {c} : Count(calls', CreateCalls(d)) = Count(calls, CreateCalls(d))
         /\ \E old : /\ \A i \in DOMAIN calls' : old[i] \in DOMAIN calls /\ calls'[i] = calls[old[i]]
                     /\ \A i, j \in DOMAIN calls' : i < j => old[i] < old[j]
                     /\ \A i \in DOMAIN calls' : calls'[i].client # c
                     /\ \A j \in DOMAIN calls : calls[j].client # c => \E i \in DOMAIN calls' : old[i] = j
<1> DEFINE S == DOMAIN calls \ CallsOf(c)
           n == Cardinality(S)
<1>1. calls \in Seq(Calls) /\ calls' = ElementsAt(calls, S)
  BY DEF TypeOK, Fail
<1>2. Len(calls) \in Nat /\ DOMAIN calls = 1..Len(calls) /\ S \in SUBSET (1..Len(calls))
  BY <1>1
<1>3. /\ calls' \in Seq(Calls) /\ Len(calls') = n /\ n \in Nat
      /\ \A k \in 1..n : NthIn(S, k) \in S /\ calls'[k] = calls[NthIn(S, k)]
  BY <1>1, <1>2, ElementsAtPlaces
<1>4. DOMAIN calls' = 1..n
  BY <1>3
<1>5. \A j : j \in S <=> j \in DOMAIN calls /\ calls[j].client # c
  BY DEF CallsOf
<1>6. /\ \A k \in 1..n : PlaceIn(S, NthIn(S, k)) = k
      /\ \A i \in S : PlaceIn(S, i) \in 1..n /\ NthIn(S, PlaceIn(S, i)) = i
      /\ \A i, j \in S : i < j => PlaceIn(S, i) < PlaceIn(S, j)
  BY <1>2, PlacesArePositions
<1>7. \A j \in S : j \in Nat
  BY <1>2
<1>8. ASSUME NEW d \in Clients \ {c}
      PROVE  Count(calls', CreateCalls(d)) = Count(calls, CreateCalls(d))
  <2>1. Count(calls', CreateCalls(d)) = Cardinality(At(calls, CreateCalls(d)) \cap S)
    BY <1>1, <1>2, CountElementsAt
  <2>2. At(calls, CreateCalls(d)) \cap S = At(calls, CreateCalls(d))
    BY <1>2, <1>5 DEF At, CreateCalls
  <2> QED
    BY <2>1, <2>2 DEF Count
<1> HIDE DEF S, n
<1>9. CallsOf(c)' = {}
  BY <1>3, <1>4, <1>5 DEF CallsOf
<1> DEFINE old == [i \in 1..n |-> NthIn(S, i)]
<1>10. \A i \in 1..n : old[i] = NthIn(S, i)
  OBVIOUS
<1> HIDE DEF old
<1>11. ASSUME NEW i \in 1..n, NEW j \in 1..n, i < j PROVE old[i] < old[j]
  <2>1. old[i] \in S /\ old[j] \in S /\ PlaceIn(S, old[i]) = i /\ PlaceIn(S, old[j]) = j
    BY <1>3, <1>6, <1>10
  <2>2. ~(old[j] < old[i])
    <3> SUFFICES ASSUME old[j] < old[i] PROVE FALSE
      OBVIOUS
    <3>1. PlaceIn(S, old[j]) < PlaceIn(S, old[i])
      BY <1>6, <2>1
    <3>2. j < i
      BY <2>1, <3>1
    <3>3. i \in Int /\ j \in Int
      BY <1>3
    <3> QED
      BY ONLY <1>11, <3>2, <3>3
  <2>3. old[i] # old[j]
    <3>1. i # j
      BY <1>3, <1>11
    <3> QED
      BY <2>1, <3>1
  <2>4. old[i] \in Nat /\ old[j] \in Nat
    BY <1>7, <2>1
  <2> QED
    BY ONLY <2>2, <2>3, <2>4
<1>12. \A i \in 1..n : old[i] \in DOMAIN calls /\ calls'[i] = calls[old[i]] /\ calls'[i].client # c
  BY <1>3, <1>5, <1>10
<1>13. \A j \in S : \E i \in 1..n : old[i] = j
  BY <1>6, <1>10
<1>14. /\ \A i \in DOMAIN calls' : old[i] \in DOMAIN calls /\ calls'[i] = calls[old[i]]
       /\ \A i, j \in DOMAIN calls' : i < j => old[i] < old[j]
       /\ \A i \in DOMAIN calls' : calls'[i].client # c
       /\ \A j \in DOMAIN calls : calls[j].client # c => \E i \in DOMAIN calls' : old[i] = j
  BY <1>4, <1>5, <1>11, <1>12, <1>13
<1> QED
  BY <1>3, <1>8, <1>9, <1>14

\* The end of a process: it has sent and gets nothing, and its queries are closed.
LEMMA FailBusOK ==
  ASSUME BusOK, NEW c \in Clients, Fail(c),
         UNCHANGED <<life, up, text, histories>>, asks' \in 0..MaxAsks
  PROVE  BusOK'
<1>1. TypeOK /\ ServiceOK /\ References /\ Absent
  BY DEF BusOK
<1>2. /\ failed' = failed \cup {c} /\ made' = made \ {c} /\ held' = held \ {c}
      /\ proxy' = [proxy EXCEPT ![c] = NoProxy]
      /\ creating' = [creating EXCEPT ![c] = 0] /\ leaked' = [leaked EXCEPT ![c] = 0]
      /\ known' = [known EXCEPT ![c] = 0] /\ inbox' = [inbox EXCEPT ![c] = <<>>]
      /\ queries' = [q \in DOMAIN queries |-> [queries[q] EXCEPT !.open = @ /\ queries[q].client # c]]
  BY DEF Fail
<1>3. /\ calls' \in Seq(Calls) /\ CallsOf(c)' = {}
      /\ \A d \in Clients \ {c} : Count(calls', CreateCalls(d)) = Count(calls, CreateCalls(d))
  BY <1>1, FailCalls
<1>4. PICK old : /\ \A i \in DOMAIN calls' : old[i] \in DOMAIN calls /\ calls'[i] = calls[old[i]]
                 /\ \A i, j \in DOMAIN calls' : i < j => old[i] < old[j]
                 /\ \A i \in DOMAIN calls' : calls'[i].client # c
                 /\ \A j \in DOMAIN calls : calls[j].client # c => \E i \in DOMAIN calls' : old[i] = j
  BY <1>1, FailCalls
<1>5. /\ creating \in [Clients -> Nat] /\ leaked \in [Clients -> Nat]
      /\ calls \in Seq(Calls) /\ inbox \in [Clients -> Seq(Messages)]
      /\ proxy \in [Clients -> Proxies] /\ known \in [Clients -> 0..MaxLives]
      /\ queries \in Seq(Queries) /\ 0 \in 0..MaxLives
  BY <1>1, BoundsAreNat DEF TypeOK
<1>6. /\ creating' \in [Clients -> Nat] /\ creating'[c] = 0
      /\ leaked' \in [Clients -> Nat] /\ known' \in [Clients -> 0..MaxLives]
      /\ proxy' \in [Clients -> Proxies]
      /\ inbox' \in [Clients -> Seq(Messages)] /\ inbox'[c] = <<>>
      /\ \A d \in Clients \ {c} : inbox'[d] = inbox[d] /\ creating'[d] = creating[d]
  BY <1>2, <1>5, ProxyTypes
<1>7. /\ queries' \in Seq(Queries) /\ DOMAIN queries' = DOMAIN queries
      /\ \A q \in DOMAIN queries : queries'[q].client = queries[q].client
  <2>1. /\ Len(queries) \in Nat /\ DOMAIN queries = 1..Len(queries)
        /\ \A q \in DOMAIN queries : queries[q] \in Queries
    BY <1>5, QueryParts
  <2>2. \A r \in Queries : /\ [r EXCEPT !.open = @ /\ r.client # c] \in Queries
                           /\ [r EXCEPT !.open = @ /\ r.client # c].client = r.client
    <3> SUFFICES ASSUME NEW r \in Queries, NEW b \in BOOLEAN
                 PROVE  [r EXCEPT !.open = b] \in Queries /\ [r EXCEPT !.open = b].client = r.client
      <4>1. \A r \in Queries : (r.open /\ r.client # c) \in BOOLEAN
        OBVIOUS
      <4> QED
        BY <4>1
    <3> QED
      BY DEF Queries
  <2>3. \A q \in DOMAIN queries : queries'[q] \in Queries /\ queries'[q].client = queries[q].client
    BY <1>2, <2>1, <2>2
  <2>4. queries' \in [1..Len(queries) -> Queries]
    BY <1>2, <2>1, <2>3
  <2> QED
    BY <2>1, <2>3, <2>4
<1>8. TypeOK'
  BY <1>1, <1>2, <1>3, <1>6, <1>7 DEF TypeOK, histories
<1>9. ServiceOK'
  <2>1. CASE up
    BY <1>1, <2>1 DEF ServiceOK
  <2>2. CASE ~up
    <3>1. queries = <<>> /\ calls = <<>>
      BY <1>1, <2>2 DEF ServiceOK
    <3>2. DOMAIN calls' = {} /\ DOMAIN queries' = {}
      BY <1>4, <1>7, <3>1
    <3>3. calls' = <<>> /\ queries' = <<>>
      BY <1>3, <1>7, <3>2
    <3> QED
      BY <2>2, <3>3 DEF ServiceOK
  <2> QED
    BY <2>1, <2>2
<1>10. References'
  <2> SUFFICES ASSUME NEW d \in Clients
               PROVE  creating'[d] = Count(calls', CreateCalls(d)) + Count(inbox'[d], Answers)
    BY DEF References
  <2>1. CASE d = c
    <3>1. At(calls', CreateCalls(c)) = {}
      <4>1. Len(calls') \in Nat /\ DOMAIN calls' = 1..Len(calls')
        BY <1>3
      <4> QED
        BY <1>4, <4>1 DEF At, CreateCalls
    <3>2. At(inbox'[c], Answers) = {}
      BY <1>6 DEF At
    <3>3. Count(calls', CreateCalls(c)) = 0 /\ Count(inbox'[c], Answers) = 0
      BY <3>1, <3>2, FS_EmptySet DEF Count
    <3> QED
      BY <1>6, <2>1, <3>3
  <2>2. CASE d # c
    BY <1>1, <1>3, <1>6, <2>2 DEF References
  <2> QED
    BY <2>1, <2>2
<1>11. Absent'
  <2> SUFFICES ASSUME NEW d \in Clients, d \notin made'
               PROVE  inbox'[d] = <<>> /\ CallsOf(d)' = {} /\ (d \notin failed' => Mine(d)' = {})
    BY DEF Absent
  <2>1. CASE d = c
    BY <1>2, <1>3, <1>6, <2>1
  <2>2. CASE d # c
    <3>1. inbox[d] = <<>> /\ CallsOf(d) = {} /\ (d \notin failed => Mine(d) = {})
      BY <1>1, <1>2, <2>2 DEF Absent
    <3>2. CallsOf(d)' = {}
      BY <1>4, <3>1 DEF CallsOf
    <3>3. Mine(d)' = Mine(d)
      BY <1>7 DEF Mine
    <3> QED
      BY <1>2, <1>6, <2>2, <3>1, <3>2, <3>3
  <2> QED
    BY <2>1, <2>2
<1> QED
  BY <1>8, <1>9, <1>10, <1>11 DEF BusOK

LEMMA HandleHeardBusOK == ASSUME BusOK, NEW c \in Clients, HandleHeard(c) PROVE BusOK'
<1> DEFINE m == Head(inbox[c])
<1>1. TypeOK /\ ServiceOK /\ References /\ Absent
  BY DEF BusOK
<1>2. /\ Receives(c, {"Heard", "NotHeard"})
      /\ UNCHANGED <<life, up, asks, histories>>
  BY DEF HandleHeard
<1>3. CASE ~Alive(c) \/ proxy[c] = NoProxy
  <2>1. Fail(c) /\ UNCHANGED text
    BY <1>3 DEF HandleHeard
  <2>2. asks' \in 0..MaxAsks
    BY <1>1, <1>2 DEF TypeOK
  <2> QED
    BY <1>2, <2>1, <2>2, FailBusOK
<1>4. CASE ~(~Alive(c) \/ proxy[c] = NoProxy)
  <2>1. /\ inbox' = Popped(c)
        /\ text' = IF m.kind = "Heard" THEN [text EXCEPT ![c] = m.text] ELSE text
        /\ UNCHANGED <<queries, calls, known, made, held, proxy, creating, leaked, failed>>
    BY <1>4 DEF HandleHeard
  <2>2. /\ c \in made /\ inbox[c] \in Seq(Messages) /\ inbox[c] # <<>>
        /\ m \in Messages /\ m.kind \in {"Heard", "NotHeard"}
        /\ Head(inbox[c]) = inbox[c][1] /\ 1 \in DOMAIN inbox[c]
        /\ Popped(c) \in [Clients -> Seq(Messages)] /\ Popped(c)[c] = Tail(inbox[c])
        /\ \A d \in Clients \ {c} : Popped(c)[d] = inbox[d]
    BY <1>2, Popping
  <2>3. m.kind = "Heard" => m.text \in Texts
    BY <2>2, MessageParts
  <2> HIDE DEF m
  <2>4. text' \in [Clients -> Texts]
    BY <1>1, <2>1, <2>3 DEF TypeOK
  <2>5. TypeOK'
    BY <1>1, <1>2, <2>1, <2>2, <2>4 DEF TypeOK, histories
  <2>6. ServiceOK'
    BY <1>1, <1>2, <2>1 DEF ServiceOK
  <2>7. References'
    <3>1. Count(Tail(inbox[c]), Answers) = Count(inbox[c], Answers)
      BY <2>2, MessageTaken DEF m
    <3>2. \A d \in Clients : Count(inbox'[d], Answers) = Count(inbox[d], Answers)
      BY <2>1, <2>2, <3>1
    <3> QED
      BY <1>1, <2>1, <3>2 DEF References
  <2>8. Absent'
    <3>1. CreateCall(c) \in Calls /\ CreateCall(c).client = c
      BY <1>1, CallTypes
    <3> QED
      BY <2>1, <2>2, <3>1, AbsentFollows
  <2> QED
    BY <2>5, <2>6, <2>7, <2>8 DEF BusOK
<1> QED
  BY <1>3, <1>4

\* An application holds an object that was made, and asks it one thing more.
LEMMA AskTypes ==
  ASSUME TypeOK, NEW c \in Clients, Ask(c)
  PROVE  c \in made /\ c \in held /\ asks' \in 0..MaxAsks
BY BoundsAreNat DEF TypeOK, Ask

LEMMA SetQueryBusOK ==
  ASSUME BusOK, NEW c \in Clients, NEW t \in Texts, SetQuery(c, t)
  PROVE  BusOK'
<1>1. TypeOK /\ ServiceOK /\ References /\ Absent
  BY DEF BusOK
<1>2. /\ Ask(c) /\ text' = [text EXCEPT ![c] = t]
      /\ UNCHANGED <<life, up, calls, inbox, known, made, held, proxy, creating, leaked, failed>>
  BY DEF SetQuery
<1>3. c \in made /\ c \in held /\ asks' \in 0..MaxAsks
  BY <1>1, <1>2, AskTypes
<1>4. queries \in Seq(Queries) /\ text' \in [Clients -> Texts]
  BY <1>1, <1>2 DEF TypeOK
<1>5. queries' = queries \/ queries' = WithText(queries, proxy[c].query, t)
  BY DEF SetQuery, WithText
<1>6. /\ queries' \in Seq(Queries) /\ DOMAIN queries' = DOMAIN queries
      /\ \A q \in DOMAIN queries : queries'[q].client = queries[q].client
  BY <1>4, <1>5, TextReplaced
<1>7. unsent' \subseteq Clients /\ strayed' \subseteq Clients
  <2>1. unsent \subseteq Clients /\ strayed \subseteq Clients /\ Victim(c, proxy[c]) \subseteq Clients
    BY <1>1, ReachedParts DEF TypeOK
  <2> QED
    BY <2>1 DEF SetQuery
<1>8. TypeOK'
  BY <1>1, <1>2, <1>3, <1>4, <1>6, <1>7 DEF TypeOK
<1>9. ServiceOK'
  <2>1. ~up => queries' = <<>>
    <3> SUFFICES ASSUME ~up PROVE queries' = <<>>
      OBVIOUS
    <3>1. queries = <<>> /\ DOMAIN queries = {}
      BY <1>1 DEF ServiceOK
    <3> QED
      BY <1>6, <3>1
  <2> QED
    BY <1>1, <1>2, <2>1 DEF ServiceOK
<1>10. References'
  BY <1>1, <1>2 DEF References
<1>11. Absent'
  <2>1. CreateCall(c) \in Calls /\ CreateCall(c).client = c
    BY <1>1, CallTypes
  <2> QED
    BY <1>2, <1>3, <1>6, <2>1, AbsentFollows
<1> QED
  BY <1>8, <1>9, <1>10, <1>11 DEF BusOK

LEMMA VoiceQueryBusOK == ASSUME BusOK, NEW c \in Clients, VoiceQuery(c) PROVE BusOK'
<1>1. TypeOK /\ ServiceOK /\ References /\ Absent
  BY DEF BusOK
<1>2. /\ Ask(c) /\ proxy[c] # NoProxy
      /\ UNCHANGED <<serviceVars, known, objectVars, failed, histories>>
  BY DEF VoiceQuery
<1>3. c \in made /\ c \in held /\ asks' \in 0..MaxAsks
  BY <1>1, <1>2, AskTypes
<1>4. /\ VoiceCall(c) \in Calls /\ VoiceCall(c).client = c
      /\ VoiceCall(c).method = "VoiceQuery"
  BY <1>1, CallTypes
<1>5. /\ calls \in Seq(Calls) /\ inbox \in [Clients -> Seq(Messages)] /\ proxy[c] \in Proxies
  BY <1>1 DEF TypeOK
<1>6. CASE proxy[c].life = NameOwner
  <2>1. calls' = Append(calls, VoiceCall(c)) /\ inbox' = inbox
    BY <1>6 DEF VoiceQuery
  <2>2. calls' \in Seq(Calls)
    BY <1>4, <1>5, <2>1
  <2>3. TypeOK'
    BY <1>1, <1>2, <1>3, <2>1, <2>2 DEF TypeOK, serviceVars, objectVars, histories
  <2>4. up
    <3>1. proxy[c].life \in 1..MaxLives
      BY <1>2, <1>5 DEF Proxies
    <3>2. 0 \notin 1..MaxLives
      BY BoundsAreNat
    <3> QED
      BY <1>6, <3>1, <3>2 DEF NameOwner
  <2>5. ServiceOK'
    BY <1>1, <1>2, <2>4 DEF ServiceOK, serviceVars
  <2>6. References'
    <3> SUFFICES ASSUME NEW d \in Clients
                 PROVE  creating'[d] = Count(calls', CreateCalls(d)) + Count(inbox'[d], Answers)
      BY DEF References
    <3>1. VoiceCall(c) \notin CreateCalls(d)
      BY <1>4 DEF CreateCalls
    <3>2. Count(Append(calls, VoiceCall(c)), CreateCalls(d))
            = Count(calls, CreateCalls(d)) + (IF VoiceCall(c) \in CreateCalls(d) THEN 1 ELSE 0)
      BY <1>4, <1>5, CountAppend
    <3>3. Count(calls, CreateCalls(d)) \in Nat
      BY <1>5, CountIsNat
    <3>4. Count(calls', CreateCalls(d)) = Count(calls, CreateCalls(d))
      BY <2>1, <3>1, <3>2, <3>3
    <3> QED
      BY <1>1, <1>2, <2>1, <3>4 DEF References, objectVars
  <2>7. Absent'
    BY <1>2, <1>3, <1>4, <2>1, AbsentFollows DEF serviceVars, objectVars
  <2> QED
    BY <2>3, <2>5, <2>6, <2>7 DEF BusOK
<1>7. CASE proxy[c].life # NameOwner
  <2>1. inbox' = [inbox EXCEPT ![c] = Append(@, NotHeard(proxy[c]))] /\ calls' = calls
    BY <1>7 DEF VoiceQuery, Answer
  <2>2. NotHeard(proxy[c]) \in Messages /\ NotHeard(proxy[c]).kind = "NotHeard"
    BY <1>5, MessageTypes, MessageFields
  <2>3. /\ inbox' \in [Clients -> Seq(Messages)]
        /\ inbox'[c] = Append(inbox[c], NotHeard(proxy[c]))
        /\ \A d \in Clients \ {c} : inbox'[d] = inbox[d]
    BY <1>5, <2>1, <2>2
  <2>4. TypeOK'
    BY <1>1, <1>2, <1>3, <2>1, <2>3 DEF TypeOK, serviceVars, objectVars, histories
  <2>5. ServiceOK'
    BY <1>1, <1>2, <2>1 DEF ServiceOK, serviceVars
  <2>6. References'
    <3>1. inbox[c] \in Seq(Messages)
      BY <1>5
    <3>2. Count(Append(inbox[c], NotHeard(proxy[c])), Answers) = Count(inbox[c], Answers)
      BY <2>2, <3>1, NoAnswerAdded
    <3>3. \A d \in Clients : Count(inbox'[d], Answers) = Count(inbox[d], Answers)
      BY <2>3, <3>2
    <3> QED
      BY <1>1, <1>2, <2>1, <3>3 DEF References, objectVars
  <2>7. Absent'
    BY <1>2, <1>3, <1>4, <2>1, <2>3, AbsentFollows DEF serviceVars, objectVars
  <2> QED
    BY <2>4, <2>5, <2>6, <2>7 DEF BusOK
<1> QED
  BY <1>6, <1>7

LEMMA ExecuteCommandBusOK == ASSUME BusOK, NEW c \in Clients, ExecuteCommand(c) PROVE BusOK'
<1>1. TypeOK /\ ServiceOK /\ References /\ Absent
  BY DEF BusOK
<1>2. Ask(c) /\ UNCHANGED <<life, up, text, histories>>
  BY DEF ExecuteCommand
<1>3. c \in made /\ c \in held /\ asks' \in 0..MaxAsks
  BY <1>1, <1>2, AskTypes
<1>4. CASE proxy[c] = NoProxy
  <2>1. Fail(c)
    BY <1>4 DEF ExecuteCommand
  <2> QED
    BY <1>2, <1>3, <2>1, FailBusOK
<1>5. CASE proxy[c] # NoProxy
  <2>1. UNCHANGED <<queries, calls, inbox, known, made, held, proxy, creating, leaked, failed>>
    BY <1>5 DEF ExecuteCommand
  <2>2. TypeOK'
    BY <1>1, <1>2, <1>3, <2>1 DEF TypeOK, histories
  <2>3. ServiceOK' /\ References'
    BY <1>1, <1>2, <2>1 DEF ServiceOK, References
  <2>4. Absent'
    BY <1>1, <2>1 DEF Absent, CallsOf, Mine
  <2> QED
    BY <2>2, <2>3, <2>4 DEF BusOK
<1> QED
  BY <1>4, <1>5

LEMMA DropBusOK == ASSUME BusOK, NEW c \in Clients, Drop(c) PROVE BusOK'
<1>1. TypeOK /\ ServiceOK /\ References /\ Absent
  BY DEF BusOK
<1>2. /\ c \in held /\ held' = held \ {c}
      /\ UNCHANGED <<life, up, calls, inbox, made, text, creating, leaked, asks, failed, unsent>>
  BY DEF Drop
<1>3. c \in made
  BY <1>1, <1>2 DEF TypeOK
<1>4. /\ queries' \in Seq(Queries) /\ DOMAIN queries' = DOMAIN queries
      /\ \A q \in DOMAIN queries : queries'[q].client = queries[q].client
      /\ strayed' \subseteq Clients
      /\ proxy' \in [Clients -> Proxies] /\ known' \in [Clients -> 0..MaxLives]
  <2>1. CASE Dispose(c, proxy[c])
    <3>1. /\ queries' \in Seq(Queries) /\ DOMAIN queries' = DOMAIN queries
          /\ \A q \in DOMAIN queries : /\ queries'[q].client = queries[q].client
                                       /\ queries'[q].text = queries[q].text
                                       /\ queries'[q].open => queries[q].open
          /\ strayed' \subseteq Clients /\ strayed \subseteq strayed'
          /\ proxy' \in [Clients -> Proxies] /\ proxy'[c] = NoProxy
          /\ known' \in [Clients -> 0..MaxLives]
          /\ \A d \in Clients \ {c} : proxy'[d] = proxy[d] /\ known'[d] = known[d]
      BY <1>1, <2>1, DisposeTypes
    <3> QED
      BY <3>1
  <2>2. CASE UNCHANGED <<queries, proxy, known, strayed>>
    BY <1>1, <2>2 DEF TypeOK
  <2> QED
    BY <2>1, <2>2 DEF Drop
<1>5. TypeOK'
  BY <1>1, <1>2, <1>4 DEF TypeOK
<1>6. ServiceOK'
  <2>1. ~up => queries' = <<>>
    <3> SUFFICES ASSUME ~up PROVE queries' = <<>>
      OBVIOUS
    <3>1. queries = <<>> /\ DOMAIN queries = {}
      BY <1>1 DEF ServiceOK
    <3> QED
      BY <1>4, <3>1
  <2> QED
    BY <1>1, <1>2, <2>1 DEF ServiceOK
<1>7. References'
  BY <1>1, <1>2 DEF References
<1>8. Absent'
  <2>1. CreateCall(c) \in Calls /\ CreateCall(c).client = c
    BY <1>1, CallTypes
  <2> QED
    BY <1>2, <1>3, <1>4, <2>1, AbsentFollows
<1> QED
  BY <1>5, <1>6, <1>7, <1>8 DEF BusOK

LEMMA NextBusOK == BusOK /\ [Next]_vars => BusOK'
<1> SUFFICES ASSUME BusOK, [Next]_vars PROVE BusOK'
  OBVIOUS
<1>1. CASE UNCHANGED vars
  BY <1>1 DEF vars, serviceVars, objectVars, histories, BusOK, TypeOK, ServiceOK, References,
     Absent, CallsOf, Mine
<1>2. CASE Start \/ Stop \/ Serve
  BY <1>2, StartBusOK, StopBusOK, ServeBusOK
<1>3. ASSUME NEW c \in Clients, Handle(c) PROVE BusOK'
  BY <1>3, HandleOwnerBusOK, HandleCreatedBusOK, HandleNotCreatedBusOK, HandleHeardBusOK DEF Handle
<1>4. ASSUME NEW c \in Clients, Application(c) PROVE BusOK'
  BY <1>4, NewBusOK, SetQueryBusOK, VoiceQueryBusOK, ExecuteCommandBusOK, DropBusOK DEF Application
<1> QED
  BY <1>1, <1>2, <1>3, <1>4 DEF Next

\* What the objects, the inboxes and the service hold has its type: in particular no
\* answer to CreateQuery gives back a reference that no call holds.
THEOREM TypeCorrect == Spec => []TypeOK
<1>1. BusOK => TypeOK
  BY DEF BusOK
<1> QED
  BY <1>1, InitBusOK, NextBusOK, PTL DEF Spec

-----------------------------------------------------------------------------
(* What an inbox still has to tell its process.                            *)

\* The changes of owner in s, and the answers of the owner after the last of them.
OwnersIn(s) == {i \in DOMAIN s : s[i].kind = "Owner"}
FreshIn(s) == {i \in DOMAIN s : s[i].kind = "Created" /\ \A j \in OwnersIn(s) : j < i}

\* From what the process knows, first, to what is so, last, owners and none take turns.
Alternates(s, first, last) ==
  /\ \A i \in OwnersIn(s) :
       (\A j \in OwnersIn(s) : i <= j) => ((s[i].life = 0) # (first = 0))
  /\ \A i, j \in OwnersIn(s) :
       i < j /\ (\A k \in OwnersIn(s) : k <= i \/ j <= k) => ((s[i].life = 0) # (s[j].life = 0))
  /\ \A i \in OwnersIn(s) : (\A j \in OwnersIn(s) : j <= i) => s[i].life = last
  /\ OwnersIn(s) = {} => first = last

\* No owner is news twice, and none is from a life still to come.
NewsOK(s, first, last, now) ==
  /\ Alternates(s, first, last)
  /\ \A i \in OwnersIn(s) : s[i].life <= now
  /\ \A i, j \in OwnersIn(s) : s[i].life = now /\ s[j].life = now /\ now > 0 => i = j

\* The object of c and its query: at most one, made or asked for, and none while a
\* change of owner is on its way that the service of now has outlived; a path from the
\* owner there is, and a proxy without news of another owner, are those of c's query.
ObjectOK(c) ==
  /\ \A p, q \in Mine(c) : p = q
  /\ \A i, j \in Asked(c) : i = j
  /\ Mine(c) = {} \/ Asked(c) = {}
  /\ ~Alive(c) => proxy[c] = NoProxy
  /\ Alive(c) =>
       /\ NewsOK(inbox[c], known[c], NameOwner, life)
       /\ up /\ OwnersIn(inbox[c]) # {} => Mine(c) = {} /\ Asked(c) = {}
       /\ \A i \in FreshIn(inbox[c]) : up /\ inbox[c][i].query \in Mine(c)
       /\ proxy[c] # NoProxy =>
            OwnersIn(inbox[c]) # {} \/ (up /\ proxy[c].life = life /\ proxy[c].query \in Mine(c))

ObjectsOK == \A c \in Clients : ObjectOK(c)

\* Where the elements of s are, as numbers.
LEMMA InboxPositions ==
  ASSUME NEW s \in Seq(Messages)
  PROVE  /\ Len(s) \in Nat /\ DOMAIN s = 1..Len(s)
         /\ OwnersIn(s) \subseteq 1..Len(s) /\ FreshIn(s) \subseteq 1..Len(s)
         /\ \A i \in OwnersIn(s) : s[i] \in Messages /\ s[i].life \in 0..MaxLives
<1>1. Len(s) \in Nat /\ DOMAIN s = 1..Len(s) /\ \A i \in 1..Len(s) : s[i] \in Messages
  OBVIOUS
<1> QED
  BY <1>1, MessageParts DEF OwnersIn, FreshIn

\* A message behind the others that is no change of owner.
LEMMA OtherAppended ==
  ASSUME NEW s \in Seq(Messages), NEW m \in Messages, m.kind # "Owner"
  PROVE  /\ OwnersIn(Append(s, m)) = OwnersIn(s)
         /\ FreshIn(Append(s, m))
              = IF m.kind = "Created" THEN FreshIn(s) \cup {Len(s) + 1} ELSE FreshIn(s)
         /\ \A i \in DOMAIN s : Append(s, m)[i] = s[i]
         /\ Append(s, m)[Len(s) + 1] = m
         /\ \A first, last, now :
              NewsOK(s, first, last, now) => NewsOK(Append(s, m), first, last, now)
<1> DEFINE a == Append(s, m)
<1>1. /\ Len(s) \in Nat /\ DOMAIN s = 1..Len(s) /\ DOMAIN a = 1..(Len(s) + 1)
      /\ \A i \in 1..Len(s) : a[i] = s[i]
      /\ a[Len(s) + 1] = m
  OBVIOUS
<1> HIDE DEF a
<1>2. OwnersIn(a) = OwnersIn(s)
  BY <1>1 DEF OwnersIn
<1>3. \A i \in OwnersIn(s) : i \in 1..Len(s) /\ a[i] = s[i]
  BY <1>1 DEF OwnersIn
<1>4. \A j \in OwnersIn(s) : j < Len(s) + 1
  BY <1>1, <1>3
<1>5. FreshIn(a) = IF m.kind = "Created" THEN FreshIn(s) \cup {Len(s) + 1} ELSE FreshIn(s)
  BY <1>1, <1>2, <1>4 DEF FreshIn
<1>6. ASSUME NEW first, NEW last, NEW now, NewsOK(s, first, last, now)
      PROVE  NewsOK(a, first, last, now)
  BY <1>2, <1>3, <1>6 DEF NewsOK, Alternates
<1> QED
  BY <1>1, <1>2, <1>5, <1>6 DEF a

\* Errors behind the other messages.
LEMMA ErrorsAppended ==
  ASSUME NEW s \in Seq(Messages), NEW e \in Seq(Messages),
         \A i \in 1..Len(e) : e[i].kind \in {"NotCreated", "NotHeard"}
  PROVE  /\ OwnersIn(s \o e) = OwnersIn(s) /\ FreshIn(s \o e) = FreshIn(s)
         /\ \A first, last, now :
              NewsOK(s, first, last, now) => NewsOK(s \o e, first, last, now)
<1> DEFINE a == s \o e
<1>1. /\ Len(s) \in Nat /\ Len(e) \in Nat /\ DOMAIN s = 1..Len(s)
      /\ DOMAIN a = 1..(Len(s) + Len(e))
      /\ \A i \in 1..Len(s) : a[i] = s[i]
      /\ \A i \in 1..(Len(s) + Len(e)) : i > Len(s) => a[i] = e[i - Len(s)]
  OBVIOUS
<1> HIDE DEF a
<1>2. \A i \in DOMAIN a : i > Len(s) => a[i].kind \in {"NotCreated", "NotHeard"}
  <2> SUFFICES ASSUME NEW i \in 1..(Len(s) + Len(e)), i > Len(s)
               PROVE  a[i].kind \in {"NotCreated", "NotHeard"}
    BY <1>1
  <2>1. i - Len(s) \in 1..Len(e)
    BY <1>1
  <2> QED
    BY <1>1, <2>1
<1>3. \A i \in DOMAIN a : i \in 1..Len(s) \/ i > Len(s)
  BY <1>1
<1>4. OwnersIn(a) = OwnersIn(s)
  BY <1>1, <1>2, <1>3 DEF OwnersIn
<1>5. FreshIn(a) = FreshIn(s)
  BY <1>1, <1>2, <1>3, <1>4 DEF FreshIn
<1>6. \A i \in OwnersIn(s) : a[i] = s[i]
  BY <1>1 DEF OwnersIn
<1>7. ASSUME NEW first, NEW last, NEW now, NewsOK(s, first, last, now)
      PROVE  NewsOK(a, first, last, now)
  BY <1>4, <1>6, <1>7 DEF NewsOK, Alternates
<1> QED
  BY <1>4, <1>5, <1>7 DEF a

\* A change of owner behind the other messages, from last to n.
LEMMA OwnerAppended ==
  ASSUME NEW s \in Seq(Messages), NEW n \in 0..MaxLives, NEW last \in 0..MaxLives,
         (n = 0) # (last = 0)
  PROVE  /\ OwnersIn(Append(s, Owner(n))) # {} /\ FreshIn(Append(s, Owner(n))) = {}
         /\ \A first, now \in 0..MaxLives, then \in 0..MaxLives :
              /\ NewsOK(s, first, last, now) /\ now <= then /\ n <= then
              /\ n # 0 => now < then
              /\ n = 0 => now = then
              => NewsOK(Append(s, Owner(n)), first, n, then)
<1> DEFINE a == Append(s, Owner(n))
           l == Len(s) + 1
<1>1. /\ Len(s) \in Nat /\ DOMAIN s = 1..Len(s) /\ DOMAIN a = 1..l
      /\ \A i \in 1..Len(s) : a[i] = s[i]
      /\ a[l] = Owner(n)
  OBVIOUS
<1>2. Owner(n).kind = "Owner" /\ Owner(n).life = n
  BY MessageFields
<1> HIDE DEF a
<1>3. OwnersIn(a) = OwnersIn(s) \cup {l} /\ l \notin OwnersIn(s)
  BY <1>1, <1>2 DEF OwnersIn
<1>4. \A i \in OwnersIn(s) : i \in Nat /\ i < l /\ a[i] = s[i] /\ s[i].life \in 0..MaxLives
  BY <1>1, InboxPositions
<1>5. FreshIn(a) = {}
  <2>1. \A i \in DOMAIN a : ~(l < i)
    BY <1>1
  <2> QED
    BY <1>3, <2>1 DEF FreshIn
<1>6. l \in Nat /\ a[l].life = n
  BY <1>1, <1>2
<1> HIDE DEF l
<1>7. ASSUME NEW first, NEW now \in 0..MaxLives, NEW then \in 0..MaxLives,
             NewsOK(s, first, last, now), now <= then, n <= then,
             n # 0 => now < then, n = 0 => now = then
      PROVE  NewsOK(a, first, n, then)
  <2>1. /\ Alternates(s, first, last)
        /\ \A i \in OwnersIn(s) : s[i].life <= now
        /\ \A i, j \in OwnersIn(s) : s[i].life = now /\ s[j].life = now /\ now > 0 => i = j
    BY <1>7 DEF NewsOK
  <2>2. \A i \in OwnersIn(a) : a[i].life <= then
    <3>1. \A i \in OwnersIn(s) : s[i].life <= then
      BY <1>4, <2>1, <1>7
    <3> QED
      BY <1>3, <1>4, <1>6, <1>7, <3>1
  <2>3. ASSUME NEW i \in OwnersIn(a), NEW j \in OwnersIn(a), a[i].life = then, a[j].life = then, then > 0
        PROVE  i = j
    <3>1. CASE n = 0
      <4>1. a[l].life # then
        BY <1>6, <2>3, <3>1
      <4>2. i \in OwnersIn(s) /\ j \in OwnersIn(s)
        BY <1>3, <2>3, <4>1
      <4> QED
        BY <1>4, <1>7, <2>1, <2>3, <3>1, <4>2
    <3>2. CASE n # 0
      <4>1. \A k \in OwnersIn(s) : a[k].life # then
        BY <1>4, <1>7, <2>1, <3>2
      <4> QED
        BY <1>3, <2>3, <4>1
    <3> QED
      BY <3>1, <3>2
  <2>4. ASSUME NEW i \in OwnersIn(a), \A j \in OwnersIn(a) : i <= j
        PROVE  (a[i].life = 0) # (first = 0)
    <3>1. CASE i = l
      <4>1. OwnersIn(s) = {}
        <5> SUFFICES ASSUME NEW j \in OwnersIn(s) PROVE FALSE
          OBVIOUS
        <5>1. j \in Nat /\ j < l
          BY <1>4
        <5>2. l <= j
          BY <1>3, <2>4, <3>1
        <5> QED
          BY ONLY <1>6, <5>1, <5>2
      <4>2. first = last
        BY <2>1, <4>1 DEF Alternates
      <4> QED
        BY <1>6, <3>1, <4>2
    <3>2. CASE i # l
      <4>1. i \in OwnersIn(s) /\ a[i] = s[i] /\ \A j \in OwnersIn(s) : i <= j
        BY <1>3, <1>4, <2>4, <3>2
      <4> QED
        BY <2>1, <4>1 DEF Alternates
    <3> QED
      BY <3>1, <3>2
  <2>5. ASSUME NEW i \in OwnersIn(a), NEW j \in OwnersIn(a), i < j,
               \A k \in OwnersIn(a) : k <= i \/ j <= k
        PROVE  (a[i].life = 0) # (a[j].life = 0)
    <3>1. i # l
      <4>1. ~(l < j)
        BY <1>3, <1>4, <1>6
      <4> QED
        BY <2>5, <4>1
    <3>2. i \in OwnersIn(s) /\ a[i] = s[i]
      BY <1>3, <1>4, <3>1
    <3>3. CASE j = l
      <4>1. \A k \in OwnersIn(s) : k <= i
        BY <1>3, <1>4, <1>6, <2>5, <3>3
      <4>2. s[i].life = last
        BY <2>1, <3>2, <4>1 DEF Alternates
      <4> QED
        BY <1>6, <3>2, <3>3, <4>2
    <3>4. CASE j # l
      <4>1. j \in OwnersIn(s) /\ a[j] = s[j] /\ \A k \in OwnersIn(s) : k <= i \/ j <= k
        BY <1>3, <1>4, <2>5, <3>4
      <4> QED
        BY <2>1, <2>5, <3>2, <4>1 DEF Alternates
    <3> QED
      BY <3>3, <3>4
  <2>6. ASSUME NEW i \in OwnersIn(a), \A j \in OwnersIn(a) : j <= i PROVE a[i].life = n
    <3>1. i = l
      BY <1>3, <1>4, <1>6, <2>6
    <3> QED
      BY <1>6, <3>1
  <2>7. Alternates(a, first, n)
    BY <1>3, <2>4, <2>5, <2>6 DEF Alternates
  <2> QED
    BY <2>2, <2>3, <2>7 DEF NewsOK
<1> QED
  BY <1>3, <1>5, <1>7 DEF a

\* Positions in what waits behind the first message.
LEMMA TailPositions ==
  ASSUME NEW s \in Seq(Messages), s # <<>>
  PROVE  /\ Tail(s) \in Seq(Messages) /\ Head(s) = s[1] /\ Len(s) \in Nat \ {0}
         /\ DOMAIN s = 1..Len(s) /\ DOMAIN Tail(s) = 1..(Len(s) - 1)
         /\ \A i \in DOMAIN Tail(s) : i + 1 \in DOMAIN s /\ Tail(s)[i] = s[i + 1]
         /\ \A i \in DOMAIN s : i # 1 => i - 1 \in DOMAIN Tail(s) /\ Tail(s)[i - 1] = s[i]
<1>1. /\ Tail(s) \in Seq(Messages) /\ Head(s) = s[1] /\ Len(s) \in Nat \ {0}
      /\ DOMAIN s = 1..Len(s) /\ DOMAIN Tail(s) = 1..(Len(s) - 1)
      /\ \A i \in 1..(Len(s) - 1) : Tail(s)[i] = s[i + 1]
  OBVIOUS
<1>2. \A i \in 1..(Len(s) - 1) : i + 1 \in 1..Len(s)
  BY <1>1
<1>3. ASSUME NEW i \in 1..Len(s), i # 1
      PROVE  i - 1 \in 1..(Len(s) - 1) /\ Tail(s)[i - 1] = s[i]
  <2>1. i - 1 \in 1..(Len(s) - 1) /\ (i - 1) + 1 = i
    BY <1>1, <1>3
  <2> QED
    BY <1>1, <2>1
<1> QED
  BY <1>1, <1>2, <1>3

\* What waits has lost the first message, and it only.
LEMMA TailNews ==
  ASSUME NEW s \in Seq(Messages), s # <<>>
  PROVE  /\ \A i \in DOMAIN Tail(s) : i \in OwnersIn(Tail(s)) <=> i + 1 \in OwnersIn(s)
         /\ \A i \in DOMAIN Tail(s) : i \in FreshIn(Tail(s)) <=> i + 1 \in FreshIn(s)
         /\ Head(s).kind = "Owner" <=> 1 \in OwnersIn(s)
         /\ Head(s).kind # "Owner" => (OwnersIn(Tail(s)) = {} <=> OwnersIn(s) = {})
         /\ OwnersIn(s) = {} => OwnersIn(Tail(s)) = {}
         /\ OwnersIn(s) = {} /\ Head(s).kind = "Created" => 1 \in FreshIn(s)
         /\ FreshIn(s) = {} => FreshIn(Tail(s)) = {}
<1> DEFINE t == Tail(s)
<1>1. /\ Tail(s) \in Seq(Messages) /\ Head(s) = s[1] /\ Len(s) \in Nat \ {0}
      /\ DOMAIN s = 1..Len(s) /\ DOMAIN Tail(s) = 1..(Len(s) - 1)
      /\ \A i \in DOMAIN Tail(s) : i + 1 \in DOMAIN s /\ Tail(s)[i] = s[i + 1]
      /\ \A i \in DOMAIN s : i # 1 => i - 1 \in DOMAIN Tail(s) /\ Tail(s)[i - 1] = s[i]
  BY TailPositions
<1> HIDE DEF t
<1>2. \A i \in DOMAIN t : i \in OwnersIn(t) <=> i + 1 \in OwnersIn(s)
  BY <1>1 DEF OwnersIn, t
<1>3. \A j \in OwnersIn(s) : j \in 1..Len(s) /\ (j # 1 => j - 1 \in OwnersIn(t))
  BY <1>1 DEF OwnersIn, t
<1>4. ASSUME NEW i \in DOMAIN t PROVE i \in FreshIn(t) <=> i + 1 \in FreshIn(s)
  <2>1. t[i] = s[i + 1] /\ i + 1 \in DOMAIN s /\ i \in 1..(Len(s) - 1)
    BY <1>1 DEF t
  <2>2. (\A j \in OwnersIn(t) : j < i) <=> (\A j \in OwnersIn(s) : j < i + 1)
    <3>1. ASSUME \A j \in OwnersIn(t) : j < i, NEW j \in OwnersIn(s) PROVE j < i + 1
      <4>1. j \in 1..Len(s) /\ (j # 1 => j - 1 < i)
        BY <1>3, <3>1
      <4> QED
        BY ONLY <1>1, <2>1, <4>1
    <3>2. ASSUME \A j \in OwnersIn(s) : j < i + 1, NEW j \in OwnersIn(t) PROVE j < i
      <4>1. j \in DOMAIN t /\ j \in 1..(Len(s) - 1)
        BY <1>1 DEF OwnersIn, t
      <4>2. j + 1 < i + 1
        BY <1>2, <3>2, <4>1
      <4> QED
        BY ONLY <1>1, <2>1, <4>1, <4>2
    <3> QED
      BY <3>1, <3>2
  <2> QED
    BY <2>1, <2>2 DEF FreshIn
<1>5. Head(s).kind = "Owner" <=> 1 \in OwnersIn(s)
  BY <1>1 DEF OwnersIn
<1>6. \A i \in OwnersIn(t) : i \in DOMAIN t
  BY DEF OwnersIn
<1>7. OwnersIn(s) = {} => OwnersIn(t) = {}
  BY <1>2, <1>6
<1>8. Head(s).kind # "Owner" => (OwnersIn(t) = {} <=> OwnersIn(s) = {})
  BY <1>3, <1>5, <1>7
<1>9. OwnersIn(s) = {} /\ Head(s).kind = "Created" => 1 \in FreshIn(s)
  BY <1>1 DEF FreshIn
<1>10. FreshIn(s) = {} => FreshIn(t) = {}
  BY <1>4 DEF FreshIn
<1> QED
  BY <1>2, <1>4, <1>5, <1>7, <1>8, <1>9, <1>10 DEF t

\* A message taken that is no change of owner leaves the news as it was.
LEMMA OtherTaken ==
  ASSUME NEW s \in Seq(Messages), s # <<>>, Head(s).kind # "Owner",
         NEW first, NEW last, NEW now, NewsOK(s, first, last, now)
  PROVE  NewsOK(Tail(s), first, last, now)
<1> DEFINE t == Tail(s)
<1>1. /\ Tail(s) \in Seq(Messages) /\ Head(s) = s[1] /\ Len(s) \in Nat \ {0}
      /\ DOMAIN s = 1..Len(s) /\ DOMAIN Tail(s) = 1..(Len(s) - 1)
      /\ \A i \in DOMAIN Tail(s) : i + 1 \in DOMAIN s /\ Tail(s)[i] = s[i + 1]
      /\ \A i \in DOMAIN s : i # 1 => i - 1 \in DOMAIN Tail(s) /\ Tail(s)[i - 1] = s[i]
  BY TailPositions
<1>2. /\ \A i \in DOMAIN t : i \in OwnersIn(t) <=> i + 1 \in OwnersIn(s)
      /\ OwnersIn(t) = {} <=> OwnersIn(s) = {}
      /\ 1 \notin OwnersIn(s)
  BY TailNews
<1> HIDE DEF t
<1>3. \A i \in OwnersIn(t) : i \in Nat /\ i + 1 \in OwnersIn(s) /\ t[i] = s[i + 1]
  BY <1>1, <1>2 DEF OwnersIn, t
<1>4. \A j \in OwnersIn(s) : j \in Nat /\ j - 1 \in OwnersIn(t) /\ t[j - 1] = s[j]
  <2> SUFFICES ASSUME NEW j \in OwnersIn(s)
               PROVE  j \in Nat /\ j - 1 \in OwnersIn(t) /\ t[j - 1] = s[j]
    OBVIOUS
  <2>1. j \in DOMAIN s /\ j # 1 /\ s[j].kind = "Owner"
    BY <1>2 DEF OwnersIn
  <2>2. j - 1 \in DOMAIN t /\ t[j - 1] = s[j]
    BY <1>1, <2>1 DEF t
  <2> QED
    BY <1>1, <2>1, <2>2 DEF OwnersIn
<1>5. Alternates(s, first, last)
  BY DEF NewsOK
<1>6. ASSUME NEW i \in OwnersIn(t), \A j \in OwnersIn(t) : i <= j
      PROVE  (t[i].life = 0) # (first = 0)
  <2>1. \A j \in OwnersIn(s) : i + 1 <= j
    BY <1>3, <1>4, <1>6
  <2> QED
    BY <1>3, <1>5, <2>1 DEF Alternates
<1>7. ASSUME NEW i \in OwnersIn(t), NEW j \in OwnersIn(t), i < j,
             \A k \in OwnersIn(t) : k <= i \/ j <= k
      PROVE  (t[i].life = 0) # (t[j].life = 0)
  <2>1. \A k \in OwnersIn(s) : k <= i + 1 \/ j + 1 <= k
    <3> SUFFICES ASSUME NEW k \in OwnersIn(s) PROVE k <= i + 1 \/ j + 1 <= k
      OBVIOUS
    <3>1. i \in Nat /\ j \in Nat /\ k \in Nat
      BY <1>3, <1>4
    <3>2. k - 1 <= i \/ j <= k - 1
      BY <1>4, <1>7
    <3> QED
      BY ONLY <3>1, <3>2
  <2>2. i + 1 < j + 1
    BY <1>3, <1>7
  <2> QED
    BY <1>3, <1>5, <2>1, <2>2 DEF Alternates
<1>8. ASSUME NEW i \in OwnersIn(t), \A j \in OwnersIn(t) : j <= i PROVE t[i].life = last
  <2>1. \A j \in OwnersIn(s) : j <= i + 1
    BY <1>3, <1>4, <1>8
  <2> QED
    BY <1>3, <1>5, <2>1 DEF Alternates
<1>9. Alternates(t, first, last)
  BY <1>2, <1>5, <1>6, <1>7, <1>8 DEF Alternates
<1>10. \A i \in OwnersIn(t) : t[i].life <= now
  BY <1>3 DEF NewsOK
<1>11. ASSUME NEW i \in OwnersIn(t), NEW j \in OwnersIn(t), t[i].life = now, t[j].life = now, now > 0
       PROVE  i = j
  <2>1. i + 1 = j + 1
    BY <1>3, <1>11 DEF NewsOK
  <2> QED
    BY <1>3, <2>1
<1> QED
  BY <1>9, <1>10, <1>11 DEF NewsOK, t

\* A change of owner taken is one from what was known, and what waits goes on from it.
LEMMA OwnerTaken ==
  ASSUME NEW s \in Seq(Messages), s # <<>>, Head(s).kind = "Owner",
         NEW first, NEW last, NEW now, NewsOK(s, first, last, now)
  PROVE  /\ (Head(s).life = 0) # (first = 0)
         /\ NewsOK(Tail(s), Head(s).life, last, now)
         /\ Head(s).life = now /\ last = now /\ now > 0 => OwnersIn(Tail(s)) = {}
<1> DEFINE t == Tail(s)
<1>1. /\ Tail(s) \in Seq(Messages) /\ Head(s) = s[1] /\ Len(s) \in Nat \ {0}
      /\ DOMAIN s = 1..Len(s) /\ DOMAIN Tail(s) = 1..(Len(s) - 1)
      /\ \A i \in DOMAIN Tail(s) : i + 1 \in DOMAIN s /\ Tail(s)[i] = s[i + 1]
      /\ \A i \in DOMAIN s : i # 1 => i - 1 \in DOMAIN Tail(s) /\ Tail(s)[i - 1] = s[i]
  BY TailPositions
<1>2. /\ \A i \in DOMAIN t : i \in OwnersIn(t) <=> i + 1 \in OwnersIn(s)
      /\ 1 \in OwnersIn(s)
  BY TailNews
<1> HIDE DEF t
<1>3. \A i \in OwnersIn(t) : i \in Nat \ {0} /\ i + 1 \in OwnersIn(s) /\ t[i] = s[i + 1]
  BY <1>1, <1>2 DEF OwnersIn, t
<1>4. \A j \in OwnersIn(s) : j \in Nat \ {0} /\ (j # 1 => j - 1 \in OwnersIn(t) /\ t[j - 1] = s[j])
  <2> SUFFICES ASSUME NEW j \in OwnersIn(s)
               PROVE  j \in Nat \ {0} /\ (j # 1 => j - 1 \in OwnersIn(t) /\ t[j - 1] = s[j])
    OBVIOUS
  <2>1. j \in DOMAIN s /\ s[j].kind = "Owner"
    BY <1>2 DEF OwnersIn
  <2>2. j # 1 => j - 1 \in DOMAIN t /\ t[j - 1] = s[j]
    BY <1>1, <2>1 DEF t
  <2> QED
    BY <1>1, <2>1, <2>2 DEF OwnersIn
<1>5. /\ Alternates(s, first, last)
      /\ \A i \in OwnersIn(s) : s[i].life <= now
      /\ \A i, j \in OwnersIn(s) : s[i].life = now /\ s[j].life = now /\ now > 0 => i = j
  BY DEF NewsOK
<1>6. (s[1].life = 0) # (first = 0)
  <2>1. \A j \in OwnersIn(s) : 1 <= j
    BY <1>4
  <2> QED
    BY <1>2, <1>5, <2>1 DEF Alternates
<1>7. ASSUME NEW i \in OwnersIn(t), \A j \in OwnersIn(t) : i <= j
      PROVE  (t[i].life = 0) # (s[1].life = 0)
  <2>1. \A k \in OwnersIn(s) : k <= 1 \/ i + 1 <= k
    <3> SUFFICES ASSUME NEW k \in OwnersIn(s), k # 1 PROVE i + 1 <= k
      BY <1>4
    <3>1. i <= k - 1 /\ i \in Nat /\ k \in Nat
      BY <1>3, <1>4, <1>7
    <3> QED
      BY ONLY <3>1
  <2>2. 1 < i + 1
    BY <1>3
  <2>3. (s[1].life = 0) # (s[i + 1].life = 0)
    BY <1>2, <1>3, <1>5, <2>1, <2>2 DEF Alternates
  <2> QED
    BY <1>3, <2>3
<1>8. ASSUME NEW i \in OwnersIn(t), NEW j \in OwnersIn(t), i < j,
             \A k \in OwnersIn(t) : k <= i \/ j <= k
      PROVE  (t[i].life = 0) # (t[j].life = 0)
  <2>1. \A k \in OwnersIn(s) : k <= i + 1 \/ j + 1 <= k
    <3> SUFFICES ASSUME NEW k \in OwnersIn(s) PROVE k <= i + 1 \/ j + 1 <= k
      OBVIOUS
    <3>1. i \in Nat \ {0} /\ j \in Nat \ {0} /\ k \in Nat \ {0}
      BY <1>3, <1>4
    <3>2. k # 1 => k - 1 <= i \/ j <= k - 1
      BY <1>4, <1>8
    <3> QED
      BY ONLY <3>1, <3>2
  <2>2. i + 1 < j + 1
    BY <1>3, <1>8
  <2> QED
    BY <1>3, <1>5, <2>1, <2>2 DEF Alternates
<1>9. ASSUME NEW i \in OwnersIn(t), \A j \in OwnersIn(t) : j <= i PROVE t[i].life = last
  <2>1. \A k \in OwnersIn(s) : k <= i + 1
    <3> SUFFICES ASSUME NEW k \in OwnersIn(s) PROVE k <= i + 1
      OBVIOUS
    <3>1. i \in Nat \ {0} /\ k \in Nat \ {0}
      BY <1>3, <1>4
    <3>2. k # 1 => k - 1 <= i
      BY <1>4, <1>9
    <3> QED
      BY ONLY <3>1, <3>2
  <2> QED
    BY <1>3, <1>5, <2>1 DEF Alternates
<1>10. ASSUME OwnersIn(t) = {} PROVE s[1].life = last
  <2>1. \A j \in OwnersIn(s) : j <= 1
    BY <1>4, <1>10
  <2> QED
    BY <1>2, <1>5, <2>1 DEF Alternates
<1>11. Alternates(t, s[1].life, last)
  BY <1>7, <1>8, <1>9, <1>10 DEF Alternates
<1>12. \A i \in OwnersIn(t) : t[i].life <= now
  BY <1>3, <1>5
<1>13. ASSUME NEW i \in OwnersIn(t), NEW j \in OwnersIn(t), t[i].life = now, t[j].life = now, now > 0
       PROVE  i = j
  <2>1. i + 1 = j + 1
    BY <1>3, <1>5, <1>13
  <2> QED
    BY <1>3, <2>1
<1>14. NewsOK(t, s[1].life, last, now)
  BY <1>11, <1>12, <1>13 DEF NewsOK
<1>15. ASSUME s[1].life = now, last = now, now > 0 PROVE OwnersIn(t) = {}
  <2>1. OwnersIn(s) \in SUBSET (1..Len(s)) /\ OwnersIn(s) # {} /\ Len(s) \in Nat
    BY <1>1, <1>2, InboxPositions
  <2>2. PICK k \in OwnersIn(s) : \A j \in OwnersIn(s) : j <= k
    BY <2>1, LastPosition
  <2>3. s[k].life = now
    BY <1>5, <1>15, <2>2 DEF Alternates
  <2>4. k = 1
    BY <1>2, <1>5, <1>15, <2>3
  <2> SUFFICES ASSUME NEW i \in OwnersIn(t) PROVE FALSE
    OBVIOUS
  <2>5. i + 1 <= 1 /\ i \in Nat \ {0}
    BY <1>3, <2>2, <2>4
  <2> QED
    BY ONLY <2>5
<1> QED
  BY <1>1, <1>6, <1>14, <1>15 DEF t

-----------------------------------------------------------------------------
(* What the steps of one process leave to the others.                      *)

\* The calls of d that are left are calls it had, in their order.
CallsKept(d) ==
  \E old : /\ \A i \in CallsOf(d)' : old[i] \in CallsOf(d) /\ calls'[i] = calls[old[i]]
           /\ \A i, j \in CallsOf(d)' : i < j => old[i] < old[j]

\* The queries are those there were, others' new ones apart, and none opens again.
QueriesKept(d) ==
  /\ DOMAIN queries \subseteq DOMAIN queries'
  /\ \A q \in DOMAIN queries : /\ queries'[q].client = queries[q].client
                               /\ queries'[q].open => queries[q].open
  /\ \A q \in DOMAIN queries' : queries'[q].client = d => q \in DOMAIN queries

\* d's queries keep their text unless they are written through a stray proxy.
TextsKept(d) ==
  /\ d \in unsent => d \in unsent'
  /\ d \in strayed => d \in strayed'
  /\ d \notin strayed' => \A q \in Mine(d) : queries'[q].text = queries[q].text

\* All that concerns d stays.
Kept(d) ==
  /\ up' = up /\ life' = life
  /\ inbox'[d] = inbox[d] /\ known'[d] = known[d] /\ proxy'[d] = proxy[d] /\ text'[d] = text[d]
  /\ d \in made' <=> d \in made
  /\ d \in held' <=> d \in held
  /\ creating'[d] = creating[d] /\ leaked'[d] = leaked[d]
  /\ CallsKept(d) /\ QueriesKept(d) /\ TextsKept(d)

\* Calls that do not change, that lose the first, or that get one of another process.
LEMMA CallsAreKept ==
  ASSUME TypeOK, NEW d,
         \/ calls' = calls
         \/ calls # <<>> /\ calls' = Tail(calls)
         \/ \E m \in Calls : m.client # d /\ calls' = Append(calls, m)
  PROVE  CallsKept(d)
<1>1. calls \in Seq(Calls)
  BY DEF TypeOK
<1>2. Len(calls) \in Nat /\ DOMAIN calls = 1..Len(calls)
  BY <1>1
<1>3. CASE calls' = calls
  <2> DEFINE old == [i \in 1..Len(calls) |-> i]
  <2>1. \A i \in CallsOf(d) : i \in 1..Len(calls)
    BY <1>2 DEF CallsOf
  <2>2. CallsOf(d)' = CallsOf(d)
    BY <1>3 DEF CallsOf
  <2>3. \A i \in 1..Len(calls) : old[i] = i
    OBVIOUS
  <2> HIDE DEF old
  <2>4. \A i \in CallsOf(d)' : old[i] \in CallsOf(d) /\ calls'[i] = calls[old[i]]
    BY <1>3, <2>1, <2>2, <2>3
  <2>5. \A i, j \in CallsOf(d)' : i < j => old[i] < old[j]
    BY <2>1, <2>2, <2>3
  <2> QED
    BY <2>4, <2>5 DEF CallsKept
<1>4. CASE calls # <<>> /\ calls' = Tail(calls)
  <2> DEFINE old == [i \in 1..Len(calls) |-> i + 1]
  <2>1. /\ DOMAIN calls' = 1..(Len(calls) - 1)
        /\ \A i \in 1..(Len(calls) - 1) : calls'[i] = calls[i + 1]
    BY <1>1, <1>4
  <2>2. \A i \in CallsOf(d)' : i \in 1..(Len(calls) - 1) /\ calls'[i].client = d
    BY <2>1 DEF CallsOf
  <2>3. \A i \in 1..(Len(calls) - 1) : old[i] = i + 1 /\ old[i] \in DOMAIN calls
    BY <1>2
  <2> HIDE DEF old
  <2>4. \A i \in CallsOf(d)' : old[i] \in CallsOf(d) /\ calls'[i] = calls[old[i]]
    BY <2>1, <2>2, <2>3 DEF CallsOf
  <2>5. \A i, j \in CallsOf(d)' : i < j => old[i] < old[j]
    BY <1>2, <2>2, <2>3
  <2> QED
    BY <2>4, <2>5 DEF CallsKept
<1>5. CASE \E m \in Calls : m.client # d /\ calls' = Append(calls, m)
  <2> DEFINE old == [i \in 1..Len(calls) |-> i]
  <2>1. PICK m \in Calls : m.client # d /\ calls' = Append(calls, m)
    BY <1>5
  <2>2. /\ DOMAIN calls' = 1..(Len(calls) + 1) /\ calls'[Len(calls) + 1] = m
        /\ \A i \in 1..Len(calls) : calls'[i] = calls[i]
    BY <1>1, <2>1
  <2>3. \A i \in CallsOf(d)' : i \in 1..Len(calls) /\ calls'[i].client = d
    <3> SUFFICES ASSUME NEW i \in CallsOf(d)' PROVE i \in 1..Len(calls) /\ calls'[i].client = d
      OBVIOUS
    <3>1. i \in 1..(Len(calls) + 1) /\ calls'[i].client = d
      BY <2>2 DEF CallsOf
    <3>2. i # Len(calls) + 1
      BY <2>1, <2>2, <3>1
    <3> QED
      BY ONLY <1>2, <3>1, <3>2
  <2>4. \A i \in 1..Len(calls) : old[i] = i
    OBVIOUS
  <2> HIDE DEF old
  <2>5. \A i \in CallsOf(d)' : old[i] \in CallsOf(d) /\ calls'[i] = calls[old[i]]
    BY <1>2, <2>2, <2>3, <2>4 DEF CallsOf
  <2>6. \A i, j \in CallsOf(d)' : i < j => old[i] < old[j]
    BY <2>3, <2>4
  <2> QED
    BY <2>5, <2>6 DEF CallsKept
<1> QED
  BY <1>3, <1>4, <1>5

\* Calls of d that are kept: what was not among them is not.
LEMMA KeptCalls ==
  ASSUME TypeOK, TypeOK', NEW d \in Clients, CallsKept(d)
  PROVE  /\ CallsOf(d) = {} => CallsOf(d)' = {}
         /\ Asked(d) = {} => Asked(d)' = {}
         /\ (\A i, j \in Asked(d) : i = j) => (\A i, j \in Asked(d)' : i = j)
         /\ (\A i \in Asked(d) : \A j \in CallsOf(d) : j <= i)
              => (\A i \in Asked(d)' : \A j \in CallsOf(d)' : j <= i)
         /\ (\A i \in Asked(d) : calls[i].text = text[d]) /\ text'[d] = text[d]
              => (\A i \in Asked(d)' : calls'[i].text = text'[d])
         /\ \A p : (\A i \in CallsOf(d) : calls[i].by = p) => (\A i \in CallsOf(d)' : calls'[i].by = p)
<1>1. PICK old : /\ \A i \in CallsOf(d)' : old[i] \in CallsOf(d) /\ calls'[i] = calls[old[i]]
                 /\ \A i, j \in CallsOf(d)' : i < j => old[i] < old[j]
  BY DEF CallsKept
<1>2. /\ \A i \in Asked(d)' : i \in CallsOf(d)' /\ calls'[i].method = "CreateQuery"
      /\ \A i : i \in Asked(d) <=> i \in CallsOf(d) /\ calls[i].method = "CreateQuery"
  BY DEF Asked, CallsOf
<1>3. \A i \in Asked(d)' : old[i] \in Asked(d)
  BY <1>1, <1>2
<1>4. \A i \in CallsOf(d) : i \in Nat
  BY DEF TypeOK, CallsOf
<1>5. \A i \in CallsOf(d)' : i \in Nat
  <2>1. calls' \in Seq(Calls)
    BY DEF TypeOK
  <2> QED
    BY <2>1 DEF CallsOf
<1>6. ASSUME \A i, j \in Asked(d) : i = j, NEW i \in Asked(d)', NEW j \in Asked(d)' PROVE i = j
  <2>1. old[i] = old[j] /\ old[i] \in Nat
    BY <1>3, <1>2, <1>4, <1>6
  <2>2. i \in Nat /\ j \in Nat /\ ~(i < j) /\ ~(j < i)
    BY <1>1, <1>2, <1>5, <2>1
  <2> QED
    BY ONLY <2>2
<1>7. ASSUME \A i \in Asked(d) : \A j \in CallsOf(d) : j <= i,
             NEW i \in Asked(d)', NEW j \in CallsOf(d)'
      PROVE  j <= i
  <2>1. old[j] <= old[i] /\ old[i] \in Nat /\ old[j] \in Nat
    BY <1>1, <1>3, <1>2, <1>4, <1>7
  <2>2. i < j => old[i] < old[j]
    BY <1>1, <1>2
  <2>3. i \in Nat /\ j \in Nat
    BY <1>2, <1>5
  <2> QED
    BY ONLY <2>1, <2>2, <2>3
<1>8. /\ CallsOf(d) = {} => CallsOf(d)' = {}
      /\ Asked(d) = {} => Asked(d)' = {}
  BY <1>1, <1>3
<1>9. (\A i \in Asked(d) : calls[i].text = text[d]) /\ text'[d] = text[d]
        => (\A i \in Asked(d)' : calls'[i].text = text'[d])
  BY <1>1, <1>2, <1>3
<1>10. \A p : (\A i \in CallsOf(d) : calls[i].by = p) => (\A i \in CallsOf(d)' : calls'[i].by = p)
  BY <1>1
<1> QED
  BY <1>6, <1>7, <1>8, <1>9, <1>10

\* The steps of c that concern its object and its messages leave d alone.
LEMMA HandleOwnerKeeps ==
  ASSUME BusOK, NEW c \in Clients, HandleOwner(c), NEW d \in Clients, c # d
  PROVE  Kept(d)
<1> DEFINE n == Head(inbox[c]).life
<1>1. TypeOK
  BY DEF BusOK
<1>2. /\ Receives(c, {"Owner"})
      /\ UNCHANGED <<serviceVars, made, held, text, leaked, asks, failed>>
  BY DEF HandleOwner
<1>3. /\ Head(inbox[c]) \in Messages /\ Head(inbox[c]).kind \in {"Owner"}
      /\ Popped(c) \in [Clients -> Seq(Messages)]
      /\ \A x \in Clients \ {c} : Popped(c)[x] = inbox[x]
  BY <1>2, Popping
<1>4. n \in 0..MaxLives
  BY <1>3, MessageParts
<1>5. CreateCall(c) \in Calls /\ CreateCall(c).client = c
  BY <1>1, CallTypes
<1>6. known \in [Clients -> 0..MaxLives] /\ proxy \in [Clients -> Proxies]
  BY <1>1 DEF TypeOK
<1>7. /\ inbox'[d] = inbox[d] /\ creating'[d] = creating[d]
      /\ calls' = calls \/ calls' = Append(calls, CreateCall(c))
      /\ known'[d] = known[d] /\ proxy'[d] = proxy[d]
      /\ d \in unsent => d \in unsent'
      /\ d \in strayed => d \in strayed'
  <2>1. CASE ConnectionStatus(c, n, Popped(c))
    <3>1. /\ \A x \in Clients \ {c} : inbox'[x] = Popped(c)[x] /\ creating'[x] = creating[x]
          /\ calls' = calls \/ calls' = Append(calls, CreateCall(c))
      <4> HIDE DEF n
      <4> QED
        BY <1>1, <1>3, <1>4, <2>1, ConnectionStatusCounts
    <3>2. known' = [known EXCEPT ![c] = n] /\ proxy' = [proxy EXCEPT ![c] = NoProxy]
      BY <2>1 DEF ConnectionStatus
    <3>3. /\ d \in unsent => d \in unsent'
          /\ d \in strayed => d \in strayed'
      BY <2>1 DEF ConnectionStatus, NewQuery, histories
    <3> HIDE DEF n
    <3> QED
      BY <1>3, <1>6, <3>1, <3>2, <3>3
  <2>2. CASE /\ inbox' = Popped(c)
             /\ known' = [known EXCEPT ![c] = IF Alive(c) THEN n ELSE 0]
             /\ UNCHANGED <<calls, proxy, creating, histories>>
    <3> HIDE DEF n
    <3> QED
      BY <1>3, <1>6, <2>2 DEF histories
  <2> QED
    BY <2>1, <2>2 DEF HandleOwner
<1>8. CallsKept(d)
  BY <1>1, <1>5, <1>7, CallsAreKept
<1>9. QueriesKept(d) /\ TextsKept(d)
  BY <1>2, <1>7 DEF serviceVars, QueriesKept, TextsKept, Mine
<1> QED
  BY <1>2, <1>7, <1>8, <1>9 DEF Kept, serviceVars

LEMMA HandleNotCreatedKeeps ==
  ASSUME BusOK, NEW c \in Clients, HandleNotCreated(c), NEW d \in Clients, c # d
  PROVE  Kept(d)
<1>1. TypeOK
  BY DEF BusOK
<1>2. /\ Receives(c, {"NotCreated"}) /\ inbox' = Popped(c)
      /\ creating' = [creating EXCEPT ![c] = @ - 1] /\ leaked' = [leaked EXCEPT ![c] = @ + 1]
      /\ UNCHANGED <<serviceVars, calls, known, made, held, text, proxy, asks, failed, histories>>
  BY DEF HandleNotCreated
<1>3. \A x \in Clients \ {c} : Popped(c)[x] = inbox[x]
  BY <1>2, Popping
<1>4. CallsKept(d)
  BY <1>1, <1>2, CallsAreKept
<1>5. QueriesKept(d) /\ TextsKept(d)
  BY <1>2 DEF serviceVars, QueriesKept, TextsKept, Mine, histories
<1>6. creating'[d] = creating[d] /\ leaked'[d] = leaked[d]
  BY <1>1, <1>2 DEF TypeOK
<1> QED
  BY <1>2, <1>3, <1>4, <1>5, <1>6 DEF Kept, serviceVars

LEMMA FailKeeps ==
  ASSUME BusOK, NEW c \in Clients, Fail(c), UNCHANGED <<life, up, text, histories>>,
         NEW d \in Clients, c # d
  PROVE  Kept(d)
<1>1. TypeOK
  BY DEF BusOK
<1>2. /\ failed' = failed \cup {c} /\ made' = made \ {c} /\ held' = held \ {c}
      /\ proxy' = [proxy EXCEPT ![c] = NoProxy]
      /\ creating' = [creating EXCEPT ![c] = 0] /\ leaked' = [leaked EXCEPT ![c] = 0]
      /\ known' = [known EXCEPT ![c] = 0] /\ inbox' = [inbox EXCEPT ![c] = <<>>]
      /\ queries' = [q \in DOMAIN queries |-> [queries[q] EXCEPT !.open = @ /\ queries[q].client # c]]
  BY DEF Fail
<1>3. /\ proxy'[d] = proxy[d] /\ creating'[d] = creating[d] /\ leaked'[d] = leaked[d]
      /\ known'[d] = known[d] /\ inbox'[d] = inbox[d]
  BY <1>1, <1>2 DEF TypeOK
<1>4. CallsKept(d)
  <2>1. PICK old : /\ \A i \in DOMAIN calls' : old[i] \in DOMAIN calls /\ calls'[i] = calls[old[i]]
                   /\ \A i, j \in DOMAIN calls' : i < j => old[i] < old[j]
                   /\ \A i \in DOMAIN calls' : calls'[i].client # c
                   /\ \A j \in DOMAIN calls : calls[j].client # c => \E i \in DOMAIN calls' : old[i] = j
    BY <1>1, FailCalls
  <2>2. \A i \in CallsOf(d)' : i \in DOMAIN calls' /\ calls'[i].client = d
    BY DEF CallsOf
  <2>3. /\ \A i \in CallsOf(d)' : old[i] \in CallsOf(d) /\ calls'[i] = calls[old[i]]
        /\ \A i, j \in CallsOf(d)' : i < j => old[i] < old[j]
    BY <2>1, <2>2 DEF CallsOf
  <2> QED
    BY <2>3 DEF CallsKept
<1>5. /\ DOMAIN queries' = DOMAIN queries
      /\ \A q \in DOMAIN queries : /\ queries'[q].client = queries[q].client
                                   /\ queries'[q].text = queries[q].text
                                   /\ queries'[q].open => queries[q].open
  <2>1. \A q \in DOMAIN queries : queries[q] \in Queries
    BY <1>1, QueryParts DEF TypeOK
  <2>2. \A r \in Queries : /\ [r EXCEPT !.open = @ /\ r.client # c].client = r.client
                           /\ [r EXCEPT !.open = @ /\ r.client # c].text = r.text
                           /\ [r EXCEPT !.open = @ /\ r.client # c].open => r.open
    BY DEF Queries
  <2> QED
    BY <1>2, <2>1, <2>2
<1>6. QueriesKept(d) /\ TextsKept(d)
  BY <1>5 DEF QueriesKept, TextsKept, Mine, histories
<1> QED
  BY <1>2, <1>3, <1>4, <1>6 DEF Kept

LEMMA HandleHeardKeeps ==
  ASSUME BusOK, NEW c \in Clients, HandleHeard(c), NEW d \in Clients, c # d
  PROVE  Kept(d)
<1>1. TypeOK
  BY DEF BusOK
<1>2. Receives(c, {"Heard", "NotHeard"}) /\ UNCHANGED <<life, up, asks, histories>>
  BY DEF HandleHeard
<1>3. CASE ~Alive(c) \/ proxy[c] = NoProxy
  BY <1>2, <1>3, FailKeeps DEF HandleHeard
<1>4. CASE ~(~Alive(c) \/ proxy[c] = NoProxy)
  <2>1. /\ inbox' = Popped(c)
        /\ text' = IF Head(inbox[c]).kind = "Heard"
                   THEN [text EXCEPT ![c] = Head(inbox[c]).text] ELSE text
        /\ UNCHANGED <<queries, calls, known, made, held, proxy, creating, leaked, failed>>
    BY <1>4 DEF HandleHeard
  <2>2. \A x \in Clients \ {c} : Popped(c)[x] = inbox[x]
    BY <1>2, Popping
  <2>3. text'[d] = text[d]
    BY <1>1, <2>1 DEF TypeOK
  <2>4. CallsKept(d)
    BY <1>1, <2>1, CallsAreKept
  <2>5. QueriesKept(d) /\ TextsKept(d)
    BY <1>2, <2>1 DEF QueriesKept, TextsKept, Mine, histories
  <2> QED
    BY <1>2, <2>1, <2>2, <2>3, <2>4, <2>5 DEF Kept
<1> QED
  BY <1>3, <1>4

\* A query written or closed through p is c's, or its process is a victim.
LEMMA VictimsKept ==
  ASSUME TypeOK, NEW c \in Clients, NEW d \in Clients, c # d, NEW p, NEW t \in Texts,
         UNCHANGED unsent \/ unsent' = unsent \cup {c} \/ unsent' = unsent \ {c},
         \/ queries' = queries /\ strayed' = strayed
         \/ /\ Reached(p) # 0 => \/ queries' = WithText(queries, p.query, t)
                                 \/ queries' = WithClosed(queries, p.query)
            /\ Reached(p) = 0 => queries' = queries
            /\ strayed' = strayed \cup Victim(c, p)
  PROVE  QueriesKept(d) /\ TextsKept(d)
<1>1. queries \in Seq(Queries)
  BY DEF TypeOK
<1>2. CASE queries' = queries
  BY <1>2 DEF QueriesKept, TextsKept, Mine
<1>3. CASE Reached(p) # 0 /\ queries' = WithText(queries, p.query, t)
           /\ strayed' = strayed \cup Victim(c, p)
  <2>1. /\ DOMAIN queries' = DOMAIN queries
        /\ \A q \in DOMAIN queries : /\ queries'[q].client = queries[q].client
                                     /\ queries'[q].open = queries[q].open
                                     /\ queries'[q].text = IF q = p.query THEN t ELSE queries[q].text
    BY <1>1, <1>3, TextReplaced
  <2>2. queries[p.query].client = d => d \in strayed'
    BY <1>3, ReachedParts
  <2>3. QueriesKept(d)
    BY <2>1 DEF QueriesKept
  <2>4. TextsKept(d)
    BY <1>3, <2>1, <2>2 DEF TextsKept, Mine
  <2> QED
    BY <2>3, <2>4
<1>4. CASE Reached(p) # 0 /\ queries' = WithClosed(queries, p.query)
           /\ strayed' = strayed \cup Victim(c, p)
  <2>1. /\ DOMAIN queries' = DOMAIN queries
        /\ \A q \in DOMAIN queries : /\ queries'[q].client = queries[q].client
                                     /\ queries'[q].text = queries[q].text
                                     /\ queries'[q].open => queries[q].open
    BY <1>1, <1>4, QueryClosed
  <2>2. QueriesKept(d)
    BY <2>1 DEF QueriesKept
  <2>3. TextsKept(d)
    BY <1>4, <2>1 DEF TextsKept, Mine
  <2> QED
    BY <2>2, <2>3
<1> QED
  BY <1>2, <1>3, <1>4

LEMMA DisposeKeeps ==
  ASSUME TypeOK, NEW c \in Clients, NEW p, Dispose(c, p), UNCHANGED unsent,
         NEW d \in Clients, c # d
  PROVE  QueriesKept(d) /\ TextsKept(d) /\ proxy'[d] = proxy[d] /\ known'[d] = known[d]
<1>1. \A x \in Clients \ {c} : proxy'[x] = proxy[x] /\ known'[x] = known[x]
  BY DisposeTypes
<1>2. /\ Reached(p) # 0 => queries' = WithClosed(queries, p.query)
      /\ Reached(p) = 0 => queries' = queries
      /\ strayed' = strayed \cup Victim(c, p)
  BY DEF Dispose, Without, WithClosed
<1>3. Empty \in Texts
  BY EmptyIsText
<1>4. QueriesKept(d) /\ TextsKept(d)
  BY <1>2, <1>3, VictimsKept
<1> QED
  BY <1>1, <1>4

LEMMA SetQueryKeeps ==
  ASSUME BusOK, NEW c \in Clients, NEW t \in Texts, SetQuery(c, t), NEW d \in Clients, c # d
  PROVE  Kept(d)
<1>1. TypeOK
  BY DEF BusOK
<1>2. /\ text' = [text EXCEPT ![c] = t]
      /\ UNCHANGED <<life, up, calls, inbox, known, made, held, proxy, creating, leaked, failed>>
  BY DEF SetQuery
<1>3. text'[d] = text[d]
  BY <1>1, <1>2 DEF TypeOK
<1>4. CallsKept(d)
  BY <1>1, <1>2, CallsAreKept
<1>5. UNCHANGED unsent \/ unsent' = unsent \cup {c} \/ unsent' = unsent \ {c}
  BY DEF SetQuery
<1>6. \/ queries' = queries /\ strayed' = strayed
      \/ /\ Reached(proxy[c]) # 0 => queries' = WithText(queries, proxy[c].query, t)
         /\ Reached(proxy[c]) = 0 => queries' = queries
         /\ strayed' = strayed \cup Victim(c, proxy[c])
  BY DEF SetQuery, WithText
<1>7. QueriesKept(d) /\ TextsKept(d)
  BY <1>1, <1>5, <1>6, VictimsKept
<1> QED
  BY <1>2, <1>3, <1>4, <1>7 DEF Kept

LEMMA VoiceQueryKeeps ==
  ASSUME BusOK, NEW c \in Clients, VoiceQuery(c), NEW d \in Clients, c # d
  PROVE  Kept(d)
<1>1. TypeOK
  BY DEF BusOK
<1>2. UNCHANGED <<serviceVars, known, objectVars, failed, histories>>
  BY DEF VoiceQuery
<1>3. VoiceCall(c) \in Calls /\ VoiceCall(c).client = c
  BY <1>1, CallTypes
<1>4. calls' = calls \/ calls' = Append(calls, VoiceCall(c))
  BY DEF VoiceQuery
<1>5. inbox'[d] = inbox[d]
  BY <1>1 DEF VoiceQuery, Answer, TypeOK
<1>6. CallsKept(d)
  BY <1>1, <1>3, <1>4, CallsAreKept
<1>7. QueriesKept(d) /\ TextsKept(d)
  BY <1>2 DEF serviceVars, QueriesKept, TextsKept, Mine, histories
<1> QED
  BY <1>2, <1>5, <1>6, <1>7 DEF Kept, serviceVars, objectVars

LEMMA ExecuteCommandKeeps ==
  ASSUME BusOK, NEW c \in Clients, ExecuteCommand(c), NEW d \in Clients, c # d \/ proxy[c] # NoProxy
  PROVE  Kept(d)
<1>1. TypeOK
  BY DEF BusOK
<1>2. UNCHANGED <<life, up, text, histories>>
  BY DEF ExecuteCommand
<1>3. CASE proxy[c] = NoProxy
  BY <1>2, <1>3, FailKeeps DEF ExecuteCommand
<1>4. CASE proxy[c] # NoProxy
  <2>1. UNCHANGED <<queries, calls, inbox, known, made, held, proxy, creating, leaked, failed>>
    BY <1>4 DEF ExecuteCommand
  <2>2. CallsKept(d)
    BY <1>1, <2>1, CallsAreKept
  <2>3. QueriesKept(d) /\ TextsKept(d)
    BY <1>2, <2>1 DEF QueriesKept, TextsKept, Mine, histories
  <2> QED
    BY <1>2, <2>1, <2>2, <2>3 DEF Kept
<1> QED
  BY <1>3, <1>4

LEMMA DropKeeps ==
  ASSUME BusOK, NEW c \in Clients, Drop(c), NEW d \in Clients, c # d
  PROVE  Kept(d)
<1>1. TypeOK
  BY DEF BusOK
<1>2. /\ held' = held \ {c}
      /\ UNCHANGED <<life, up, calls, inbox, made, text, creating, leaked, asks, failed, unsent>>
  BY DEF Drop
<1>3. CallsKept(d)
  BY <1>1, <1>2, CallsAreKept
<1>4. QueriesKept(d) /\ TextsKept(d) /\ proxy'[d] = proxy[d] /\ known'[d] = known[d]
  <2>1. CASE Dispose(c, proxy[c])
    BY <1>1, <1>2, <2>1, DisposeKeeps
  <2>2. CASE UNCHANGED <<queries, proxy, known, strayed>>
    BY <1>2, <2>2 DEF QueriesKept, TextsKept, Mine
  <2> QED
    BY <2>1, <2>2 DEF Drop
<1> QED
  BY <1>2, <1>3, <1>4 DEF Kept

LEMMA HandleCreatedKeeps ==
  ASSUME BusOK, NEW c \in Clients, HandleCreated(c), ~Starts, NEW d \in Clients, c # d
  PROVE  Kept(d)
<1> DEFINE q == Head(inbox[c]).query
           last == c \notin held /\ creating[c] + leaked[c] = 1
           To(n) == [life |-> n, query |-> q]
<1>1. TypeOK
  BY DEF BusOK
<1>2. /\ Receives(c, {"Created"}) /\ creating' = [creating EXCEPT ![c] = @ - 1]
      /\ UNCHANGED <<calls, made, held, text, leaked, asks, failed, unsent>>
  BY DEF HandleCreated
<1>3. \A x \in Clients \ {c} : Popped(c)[x] = inbox[x]
  BY <1>2, Popping
<1>4. creating'[d] = creating[d]
  BY <1>1, <1>2 DEF TypeOK
<1>5. CallsKept(d)
  BY <1>1, <1>2, CallsAreKept
<1>6. proxy \in [Clients -> Proxies]
  BY <1>1 DEF TypeOK
<1> HIDE DEF q, last, To
<1>7. CASE /\ up /\ inbox' = Popped(c)
           /\ IF last THEN Dispose(c, To(life))
              ELSE proxy' = [proxy EXCEPT ![c] = To(life)] /\ UNCHANGED known
                     /\ UNCHANGED <<queries, strayed>>
           /\ UNCHANGED <<life, up>>
  <2>1. QueriesKept(d) /\ TextsKept(d) /\ proxy'[d] = proxy[d] /\ known'[d] = known[d]
    <3>1. CASE last
      BY <1>1, <1>2, <1>7, <3>1, DisposeKeeps
    <3>2. CASE ~last
      BY <1>2, <1>6, <1>7, <3>2 DEF QueriesKept, TextsKept, Mine
    <3> QED
      BY <3>1, <3>2
  <2> QED
    BY <1>2, <1>3, <1>4, <1>5, <1>7, <2>1 DEF Kept
<1>8. CASE /\ ~up /\ inbox' = Popped(c)
           /\ proxy' = [proxy EXCEPT ![c] = NoProxy]
           /\ UNCHANGED known
           /\ UNCHANGED <<serviceVars, strayed>>
  <2>1. QueriesKept(d) /\ TextsKept(d)
    BY <1>2, <1>8 DEF serviceVars, QueriesKept, TextsKept, Mine
  <2>2. proxy'[d] = proxy[d]
    BY <1>6, <1>8
  <2> QED
    BY <1>2, <1>3, <1>4, <1>5, <1>8, <2>1, <2>2 DEF Kept, serviceVars
<1> QED
  BY <1>7, <1>8 DEF HandleCreated, q, last, To

LEMMA NewKeeps ==
  ASSUME BusOK, NEW c \in Clients, New(c), ~Starts, NEW d \in Clients, c # d
  PROVE  Kept(d)
<1>1. TypeOK
  BY DEF BusOK
<1>2. /\ made' = made \cup {c} /\ held' = held \cup {c}
      /\ UNCHANGED <<text, leaked, asks, failed>>
      /\ UNCHANGED serviceVars /\ ConnectionStatus(c, NameOwner, inbox)
  BY DEF New
<1>3. inbox \in [Clients -> Seq(Messages)] /\ NameOwner \in 0..MaxLives
      /\ known \in [Clients -> 0..MaxLives] /\ proxy \in [Clients -> Proxies]
  BY <1>1, BoundsAreNat DEF TypeOK, NameOwner
<1>4. /\ \A x \in Clients \ {c} : inbox'[x] = inbox[x] /\ creating'[x] = creating[x]
      /\ calls' = calls \/ calls' = Append(calls, CreateCall(c))
  BY <1>1, <1>2, <1>3, ConnectionStatusCounts
<1>5. known'[d] = known[d] /\ proxy'[d] = proxy[d]
  BY <1>2, <1>3 DEF ConnectionStatus
<1>6. /\ d \in unsent => d \in unsent'
      /\ d \in strayed => d \in strayed'
  BY <1>2 DEF ConnectionStatus, NewQuery, histories
<1>7. CreateCall(c) \in Calls /\ CreateCall(c).client = c
  BY <1>1, CallTypes
<1>8. CallsKept(d)
  BY <1>1, <1>4, <1>7, CallsAreKept
<1>9. QueriesKept(d) /\ TextsKept(d)
  BY <1>2, <1>6 DEF serviceVars, QueriesKept, TextsKept, Mine
<1> QED
  BY <1>2, <1>4, <1>5, <1>8, <1>9 DEF Kept, serviceVars

\* The service answers one process; what it writes for it is its query or a victim's.
LEMMA ServeKeeps ==
  ASSUME BusOK, Serve, NEW d \in Clients, Head(calls).client # d
  PROVE  Kept(d)
<1> DEFINE m == Head(calls)
           c == Head(calls).client
<1>1. TypeOK
  BY DEF BusOK
<1>2. /\ calls # <<>> /\ calls' = Tail(calls)
      /\ UNCHANGED <<life, up, known, objectVars, asks, failed>>
  BY DEF Serve
<1>3. calls \in Seq(Calls) /\ m \in Calls /\ queries \in Seq(Queries)
  BY <1>1, <1>2 DEF TypeOK
<1>4. c \in Clients
  BY <1>3, CallParts
<1>5. inbox'[d] = inbox[d]
  <2>1. inbox \in [Clients -> Seq(Messages)]
    BY <1>1 DEF TypeOK
  <2>2. \E x : inbox' = [inbox EXCEPT ![c] = Append(@, x)]
    BY DEF Serve, HandleCreateQuery, HandleVoiceQuery, Answer
  <2> QED
    BY <2>1, <2>2
<1>6. CallsKept(d)
  BY <1>1, <1>2, CallsAreKept
<1>7. QueriesKept(d) /\ TextsKept(d)
  <2>1. CASE HandleCreateQuery(c, m.text)
    <3>1. /\ queries' = Append(queries, [client |-> c, text |-> m.text, open |-> TRUE])
          /\ unsent' = unsent /\ strayed' = strayed
      BY <2>1 DEF HandleCreateQuery, histories
    <3>2. /\ Len(queries) \in Nat /\ DOMAIN queries = 1..Len(queries)
          /\ DOMAIN queries' = 1..(Len(queries) + 1)
          /\ \A q \in DOMAIN queries : queries'[q] = queries[q]
          /\ queries'[Len(queries) + 1].client = c
      BY <1>3, <3>1
    <3>3. \A q \in DOMAIN queries' : queries'[q].client = d => q \in DOMAIN queries
      <4> SUFFICES ASSUME NEW q \in 1..(Len(queries) + 1), q # Len(queries) + 1
                   PROVE  q \in 1..Len(queries)
        BY <3>2
      <4> QED
        BY <3>2
    <3>4. DOMAIN queries \subseteq DOMAIN queries'
      BY <3>2
    <3> QED
      BY <3>1, <3>2, <3>3, <3>4 DEF QueriesKept, TextsKept, Mine
  <2>2. CASE HandleVoiceQuery(c, m.by)
    <3>1. CASE /\ Reached(m.by) # 0
               /\ \E t \in Texts : queries' = [queries EXCEPT ![m.by.query].text = t]
               /\ strayed' = strayed \cup Victim(c, m.by)
               /\ UNCHANGED unsent
      <4>1. PICK t \in Texts : queries' = WithText(queries, m.by.query, t)
        BY <3>1 DEF WithText
      <4> HIDE DEF m, c
      <4>2. c # d
        BY DEF c
      <4> QED
        BY <1>1, <1>4, <3>1, <4>1, <4>2, VictimsKept
    <3>2. CASE UNCHANGED <<queries, strayed>> /\ unsent' = unsent \cup {c}
      BY <3>2 DEF QueriesKept, TextsKept, Mine
    <3>3. CASE UNCHANGED <<queries, histories>>
      BY <3>3 DEF QueriesKept, TextsKept, Mine, histories
    <3> QED
      BY <2>2, <3>1, <3>2, <3>3 DEF HandleVoiceQuery
  <2> QED
    BY <2>1, <2>2 DEF Serve
<1> QED
  BY <1>2, <1>5, <1>6, <1>7 DEF Kept, objectVars

\* The service starts, and the news goes to d's object if there is one.
StartedFor(d) ==
  /\ Starts /\ CallsOf(d)' = {}
  /\ inbox'[d] = IF Alive(d) THEN Append(inbox[d], Owner(life + 1)) ELSE inbox[d]
  /\ known'[d] = known[d] /\ proxy'[d] = proxy[d] /\ text'[d] = text[d]
  /\ d \in made' <=> d \in made
  /\ d \in held' <=> d \in held
  /\ creating'[d] = creating[d] /\ leaked'[d] = leaked[d]

\* A service that is not on the bus has no calls.
LEMMA NoCalls ==
  ASSUME BusOK, ~up, NEW d \in Clients
  PROVE  /\ CallsOf(d) = {} /\ Asked(d) = {} /\ Mine(d) = {}
         /\ calls' = calls \/ (\E m \in Calls : m.client # d /\ calls' = Append(calls, m))
              => CallsOf(d)' = {}
<1>1. calls = <<>> /\ queries = <<>> /\ calls \in Seq(Calls) /\ TypeOK
  BY DEF BusOK, ServiceOK, TypeOK
<1>2. CallsOf(d) = {} /\ Asked(d) = {} /\ Mine(d) = {}
  BY <1>1 DEF CallsOf, Asked, Mine
<1>3. ASSUME calls' = calls \/ (\E m \in Calls : m.client # d /\ calls' = Append(calls, m))
      PROVE  CallsOf(d)' = {}
  <2>1. CallsKept(d)
    BY <1>1, <1>3, CallsAreKept
  <2> QED
    BY <1>2, <2>1 DEF CallsKept
<1> QED
  BY <1>2, <1>3

\* Every start of the service is one for each other process.
LEMMA StartsForAll ==
  ASSUME BusOK, Starts, NEW c \in Clients, NEW d \in Clients,
         Start \/ ((New(c) \/ HandleCreated(c)) /\ c # d)
  PROVE  StartedFor(d)
<1>1. TypeOK
  BY DEF BusOK
<1>2. ~up /\ life + 1 \in 0..MaxLives
  BY <1>1, StartsTypes
<1>3. /\ creating \in [Clients -> Nat] /\ inbox \in [Clients -> Seq(Messages)]
      /\ known \in [Clients -> 0..MaxLives] /\ proxy \in [Clients -> Proxies]
  BY <1>1 DEF TypeOK
<1>4. CASE Start
  <2>1. CallsOf(d)' = {}
    BY <1>2, <1>4, NoCalls DEF Start
  <2>2. inbox'[d] = IF Alive(d) THEN Append(inbox[d], Owner(life + 1)) ELSE inbox[d]
    BY <1>4 DEF Start, Announce
  <2> QED
    BY <1>4, <2>1, <2>2 DEF StartedFor, Start, objectVars
<1>5. CASE New(c) /\ c # d
  <2>1. /\ made' = made \cup {c} /\ held' = held \cup {c}
        /\ UNCHANGED <<text, leaked, asks, failed>>
        /\ ConnectionStatus(c, life + 1, Announce(inbox, life + 1))
    <3>1. up' # up
      BY <1>2 DEF Starts
    <3> QED
      BY <1>5, <3>1 DEF New, serviceVars
  <2>2. Announce(inbox, life + 1) \in [Clients -> Seq(Messages)]
    BY <1>2, <1>3, AnnounceCounts
  <2>3. /\ inbox'[d] = Announce(inbox, life + 1)[d] /\ creating'[d] = creating[d]
        /\ calls' = calls \/ calls' = Append(calls, CreateCall(c))
    BY <1>1, <1>2, <1>5, <2>1, <2>2, ConnectionStatusCounts
  <2>4. inbox'[d] = IF Alive(d) THEN Append(inbox[d], Owner(life + 1)) ELSE inbox[d]
    BY <2>3 DEF Announce
  <2>5. CreateCall(c) \in Calls /\ CreateCall(c).client = c
    BY <1>1, CallTypes
  <2>6. CallsOf(d)' = {}
    BY <1>2, <1>5, <2>3, <2>5, NoCalls
  <2>7. known'[d] = known[d] /\ proxy'[d] = proxy[d]
    BY <1>3, <1>5, <2>1 DEF ConnectionStatus
  <2> QED
    BY <1>5, <2>1, <2>3, <2>4, <2>6, <2>7 DEF StartedFor
<1>6. CASE HandleCreated(c) /\ c # d
  <2>1. /\ Receives(c, {"Created"}) /\ creating' = [creating EXCEPT ![c] = @ - 1]
        /\ UNCHANGED <<calls, made, held, text, leaked, asks, failed, unsent>>
        /\ inbox' = Announce(Popped(c), life + 1)
        /\ \E p : proxy' = [proxy EXCEPT ![c] = p]
        /\ UNCHANGED known
    <3>1. ~up /\ up'
      BY <1>2 DEF Starts
    <3> QED
      BY <1>6, <3>1 DEF HandleCreated, serviceVars
  <2>2. Popped(c)[d] = inbox[d]
    BY <1>6, <2>1, Popping
  <2>3. inbox'[d] = IF Alive(d) THEN Append(inbox[d], Owner(life + 1)) ELSE inbox[d]
    BY <2>1, <2>2 DEF Announce
  <2>4. CallsOf(d)' = {}
    BY <1>2, <2>1, NoCalls
  <2>5. creating'[d] = creating[d] /\ proxy'[d] = proxy[d]
    BY <1>3, <1>6, <2>1
  <2> QED
    BY <2>1, <2>3, <2>4, <2>5 DEF StartedFor
<1> QED
  BY <1>4, <1>5, <1>6

\* Where all that concerns d stays, so do its object and its query.
LEMMA KeptObject ==
  ASSUME TypeOK, TypeOK', NEW d \in Clients, ObjectOK(d), Kept(d)
  PROVE  ObjectOK(d)' /\ Mine(d)' = Mine(d) /\ (Alive(d)' <=> Alive(d))
<1>1. Mine(d)' = Mine(d)
  BY DEF Kept, QueriesKept, Mine
<1>2. Alive(d)' <=> Alive(d)
  BY DEF Kept, Alive
<1>3. /\ Asked(d) = {} => Asked(d)' = {}
      /\ (\A i, j \in Asked(d) : i = j) => (\A i, j \in Asked(d)' : i = j)
  BY KeptCalls DEF Kept
<1>4. /\ up' = up /\ life' = life /\ NameOwner' = NameOwner
      /\ inbox'[d] = inbox[d] /\ known'[d] = known[d] /\ proxy'[d] = proxy[d]
  BY DEF Kept, NameOwner
<1>5. /\ \A p, q \in Mine(d)' : p = q
      /\ \A i, j \in Asked(d)' : i = j
      /\ Mine(d)' = {} \/ Asked(d)' = {}
      /\ ~Alive(d)' => proxy'[d] = NoProxy
  BY <1>1, <1>2, <1>3, <1>4 DEF ObjectOK
<1>6. ASSUME Alive(d)'
      PROVE  /\ NewsOK(inbox'[d], known'[d], NameOwner', life')
             /\ up' /\ OwnersIn(inbox'[d]) # {} => Mine(d)' = {} /\ Asked(d)' = {}
             /\ \A i \in FreshIn(inbox'[d]) : up' /\ inbox'[d][i].query \in Mine(d)'
             /\ proxy'[d] # NoProxy =>
                  OwnersIn(inbox'[d]) # {}
                    \/ (up' /\ proxy'[d].life = life' /\ proxy'[d].query \in Mine(d)')
  BY <1>1, <1>2, <1>3, <1>4, <1>6 DEF ObjectOK
<1> QED
  BY <1>1, <1>2, <1>5, <1>6 DEF ObjectOK

LEMMA StartedObject ==
  ASSUME BusOK, NEW d \in Clients, ObjectOK(d), StartedFor(d)
  PROVE  /\ ObjectOK(d)' /\ (Alive(d)' <=> Alive(d))
         /\ Alive(d) => OwnersIn(inbox'[d]) # {} /\ FreshIn(inbox'[d]) = {}
<1>1. TypeOK
  BY DEF BusOK
<1>2. /\ life + 1 \in 1..MaxLives /\ life + 1 \in 0..MaxLives /\ life' = life + 1
      /\ ~up /\ up' = TRUE /\ queries' = <<>> /\ DOMAIN queries' = {}
  BY <1>1, StartsTypes DEF StartedFor
<1>3. Alive(d)' <=> Alive(d)
  BY DEF StartedFor, Alive
<1>4. Mine(d)' = {} /\ Asked(d)' = {}
  BY <1>2 DEF Mine, Asked, CallsOf, StartedFor
<1>5. /\ known'[d] = known[d] /\ proxy'[d] = proxy[d]
      /\ NameOwner = 0 /\ NameOwner' = life + 1
  BY <1>2 DEF StartedFor, NameOwner
<1>6. ASSUME Alive(d)
      PROVE  /\ OwnersIn(inbox'[d]) # {} /\ FreshIn(inbox'[d]) = {}
             /\ NewsOK(inbox'[d], known'[d], NameOwner', life')
  <2>1. inbox'[d] = Append(inbox[d], Owner(life + 1))
    BY <1>6 DEF StartedFor
  <2>2. NewsOK(inbox[d], known[d], 0, life)
    BY <1>5, <1>6 DEF ObjectOK
  <2>3. /\ inbox[d] \in Seq(Messages) /\ life \in 0..MaxLives /\ 0 \in 0..MaxLives
        /\ (life + 1 = 0) # (0 = 0) /\ life < life + 1 /\ life <= life + 1 /\ life + 1 <= life + 1
        /\ life + 1 # 0
    BY <1>1, <1>2, BoundsAreNat DEF TypeOK
  <2>4. /\ OwnersIn(Append(inbox[d], Owner(life + 1))) # {}
        /\ FreshIn(Append(inbox[d], Owner(life + 1))) = {}
        /\ \A first, now \in 0..MaxLives, then \in 0..MaxLives :
             /\ NewsOK(inbox[d], first, 0, now) /\ now <= then /\ life + 1 <= then
             /\ life + 1 # 0 => now < then
             /\ life + 1 = 0 => now = then
             => NewsOK(Append(inbox[d], Owner(life + 1)), first, life + 1, then)
    BY <1>2, <2>3, OwnerAppended
  <2>5. known[d] \in 0..MaxLives
    BY <1>1 DEF TypeOK
  <2>6. NewsOK(Append(inbox[d], Owner(life + 1)), known[d], life + 1, life + 1)
    BY <1>2, <2>2, <2>3, <2>4, <2>5
  <2> QED
    BY <1>2, <1>5, <2>1, <2>4, <2>6
<1>7. ~Alive(d) => proxy[d] = NoProxy
  BY DEF ObjectOK
<1> QED
  BY <1>2, <1>3, <1>4, <1>5, <1>6, <1>7 DEF ObjectOK

\* What d is told when the service stops.
LEMMA StoppedInbox ==
  ASSUME BusOK, Stop, NEW d \in Clients, ObjectOK(d), Alive(d)
  PROVE  /\ OwnersIn(inbox'[d]) # {} /\ FreshIn(inbox'[d]) = {}
         /\ NewsOK(inbox'[d], known[d], 0, life)
<1>1. TypeOK /\ ServiceOK
  BY DEF BusOK
<1>2. inbox'[d] = Append(inbox[d], Owner(0)) \o Errors(d)
  BY DEF Stop, Announce, Lost, Errors
<1>3. up /\ life > 0 /\ NameOwner = life
  BY <1>1 DEF Stop, ServiceOK, NameOwner
<1>4. /\ inbox[d] \in Seq(Messages) /\ life \in 0..MaxLives /\ 0 \in 0..MaxLives
      /\ known[d] \in 0..MaxLives
  BY <1>1, BoundsAreNat DEF TypeOK
<1>5. /\ (0 = 0) # (life = 0) /\ life <= life /\ 0 <= life
  BY <1>3, <1>4
<1>6. NewsOK(inbox[d], known[d], life, life)
  BY <1>3 DEF ObjectOK
<1>7. /\ OwnersIn(Append(inbox[d], Owner(0))) # {}
      /\ FreshIn(Append(inbox[d], Owner(0))) = {}
      /\ \A first, now \in 0..MaxLives, then \in 0..MaxLives :
           /\ NewsOK(inbox[d], first, life, now) /\ now <= then /\ 0 <= then
           /\ 0 # 0 => now < then
           /\ 0 = 0 => now = then
           => NewsOK(Append(inbox[d], Owner(0)), first, 0, then)
  BY <1>4, <1>5, OwnerAppended
<1>8. NewsOK(Append(inbox[d], Owner(0)), known[d], 0, life)
  BY <1>4, <1>5, <1>6, <1>7
<1>9. /\ Errors(d) \in Seq(Messages)
      /\ \A i \in 1..Len(Errors(d)) : Errors(d)[i].kind \in {"NotCreated", "NotHeard"}
  BY <1>1, ErrorsCount
<1>10. Append(inbox[d], Owner(0)) \in Seq(Messages)
  BY <1>4, MessageTypes
<1>11. /\ OwnersIn(Append(inbox[d], Owner(0)) \o Errors(d)) = OwnersIn(Append(inbox[d], Owner(0)))
       /\ FreshIn(Append(inbox[d], Owner(0)) \o Errors(d)) = FreshIn(Append(inbox[d], Owner(0)))
       /\ \A first, last, now :
            NewsOK(Append(inbox[d], Owner(0)), first, last, now)
              => NewsOK(Append(inbox[d], Owner(0)) \o Errors(d), first, last, now)
  BY <1>9, <1>10, ErrorsAppended
<1> QED
  BY <1>2, <1>7, <1>8, <1>11

LEMMA StoppedObject ==
  ASSUME BusOK, Stop, NEW d \in Clients, ObjectOK(d)
  PROVE  ObjectOK(d)' /\ (Alive(d)' <=> Alive(d))
<1>1. /\ up' = FALSE /\ queries' = <<>> /\ calls' = <<>>
      /\ UNCHANGED <<life, known, objectVars, asks, failed, histories>>
  BY DEF Stop
<1>2. Alive(d)' <=> Alive(d)
  BY <1>1 DEF objectVars, Alive
<1>3. Mine(d)' = {} /\ Asked(d)' = {}
  BY <1>1 DEF Mine, Asked
<1>4. known' = known /\ proxy' = proxy /\ life' = life /\ NameOwner' = 0
  BY <1>1 DEF objectVars, NameOwner
<1>5. Alive(d) => /\ OwnersIn(inbox'[d]) # {} /\ FreshIn(inbox'[d]) = {}
                  /\ NewsOK(inbox'[d], known[d], 0, life)
  BY StoppedInbox
<1>6. ~Alive(d) => proxy[d] = NoProxy
  BY DEF ObjectOK
<1> QED
  BY <1>1, <1>2, <1>3, <1>4, <1>5, <1>6 DEF ObjectOK

-----------------------------------------------------------------------------
(* What a process does to its own object.                                  *)

\* The calls of CreateQuery of one process are among its calls.
LEMMA AskedAreCalls ==
  ASSUME NEW c
  PROVE  /\ CallsOf(c) = {} => Asked(c) = {}
         /\ calls' = calls => CallsOf(c)' = CallsOf(c) /\ Asked(c)' = Asked(c)
BY DEF CallsOf, Asked

\* The processes of the queries stay.
LEMMA MineStays ==
  ASSUME NEW c, DOMAIN queries' = DOMAIN queries,
         \A q \in DOMAIN queries : queries'[q].client = queries[q].client
  PROVE  Mine(c)' = Mine(c)
BY DEF Mine

\* An object gone, with its proxy.
LEMMA GoneObject ==
  ASSUME NEW c \in Clients, ObjectOK(c), Mine(c)' = Mine(c), Asked(c)' = Asked(c) \/ Asked(c)' = {},
         ~Alive(c)', proxy'[c] = NoProxy
  PROVE  ObjectOK(c)'
BY DEF ObjectOK

\* A message that is no change of owner has been added at most, and a query at most
\* that its process had asked for.
LEMMA AnsweredObject ==
  ASSUME BusOK, NEW c \in Clients, ObjectOK(c),
         NEW m \in Messages, m.kind # "Owner",
         inbox'[c] = inbox[c] \/ inbox'[c] = Append(inbox[c], m),
         Alive(c)' <=> Alive(c), proxy'[c] = proxy[c], known'[c] = known[c],
         up' = up, life' = life,
         m.kind = "Created" => up /\ m.query \in Mine(c)',
         Mine(c) \subseteq Mine(c)',
         \A p, q \in Mine(c)' : p = q, \A i, j \in Asked(c)' : i = j,
         Mine(c)' = {} \/ Asked(c)' = {},
         Mine(c) = {} /\ Asked(c) = {} => Mine(c)' = {} /\ Asked(c)' = {}
  PROVE  ObjectOK(c)'
<1>1. inbox[c] \in Seq(Messages)
  BY DEF BusOK, TypeOK
<1>2. /\ OwnersIn(inbox'[c]) = OwnersIn(inbox[c])
      /\ \A i \in FreshIn(inbox'[c]) : \/ i \in FreshIn(inbox[c]) /\ inbox'[c][i] = inbox[c][i]
                                       \/ m.kind = "Created" /\ inbox'[c][i] = m
      /\ \A first, last, now :
           NewsOK(inbox[c], first, last, now) => NewsOK(inbox'[c], first, last, now)
  <2>1. CASE inbox'[c] = inbox[c]
    BY <2>1
  <2>2. CASE inbox'[c] = Append(inbox[c], m)
    <3>1. /\ OwnersIn(Append(inbox[c], m)) = OwnersIn(inbox[c])
          /\ FreshIn(Append(inbox[c], m))
               = IF m.kind = "Created" THEN FreshIn(inbox[c]) \cup {Len(inbox[c]) + 1} ELSE FreshIn(inbox[c])
          /\ \A i \in DOMAIN inbox[c] : Append(inbox[c], m)[i] = inbox[c][i]
          /\ Append(inbox[c], m)[Len(inbox[c]) + 1] = m
          /\ \A first, last, now :
               NewsOK(inbox[c], first, last, now) => NewsOK(Append(inbox[c], m), first, last, now)
      BY <1>1, OtherAppended
    <3>2. \A i \in FreshIn(inbox[c]) : i \in DOMAIN inbox[c]
      BY DEF FreshIn
    <3> QED
      BY <2>2, <3>1, <3>2
  <2> QED
    BY <2>1, <2>2
<1>3. NameOwner' = NameOwner
  BY DEF NameOwner
<1>4. ~Alive(c)' => proxy'[c] = NoProxy
  BY DEF ObjectOK
<1>5. ASSUME Alive(c)'
      PROVE  /\ NewsOK(inbox'[c], known'[c], NameOwner', life')
             /\ up' /\ OwnersIn(inbox'[c]) # {} => Mine(c)' = {} /\ Asked(c)' = {}
             /\ \A i \in FreshIn(inbox'[c]) : up' /\ inbox'[c][i].query \in Mine(c)'
             /\ proxy'[c] # NoProxy =>
                  OwnersIn(inbox'[c]) # {} \/ (up' /\ proxy'[c].life = life' /\ proxy'[c].query \in Mine(c)')
  <2>1. /\ NewsOK(inbox[c], known[c], NameOwner, life)
        /\ up /\ OwnersIn(inbox[c]) # {} => Mine(c) = {} /\ Asked(c) = {}
        /\ \A i \in FreshIn(inbox[c]) : up /\ inbox[c][i].query \in Mine(c)
        /\ proxy[c] # NoProxy =>
             OwnersIn(inbox[c]) # {} \/ (up /\ proxy[c].life = life /\ proxy[c].query \in Mine(c))
    BY <1>5 DEF ObjectOK
  <2>2. \A i \in FreshIn(inbox'[c]) : up' /\ inbox'[c][i].query \in Mine(c)'
    BY <1>2, <2>1
  <2> QED
    BY <1>2, <1>3, <2>1, <2>2
<1> QED
  BY <1>4, <1>5 DEF ObjectOK

\* A message has been taken that is no change of owner, and the proxy is as it was, or
\* none, or one to the object's query.
LEMMA TakenObject ==
  ASSUME BusOK, NEW c \in Clients, ObjectOK(c), NEW kinds, Receives(c, kinds), "Owner" \notin kinds,
         inbox'[c] = Tail(inbox[c]), known'[c] = known[c], up' = up, life' = life,
         Alive(c)' => Alive(c), ~Alive(c)' => proxy'[c] = NoProxy,
         \/ proxy'[c] = proxy[c] \/ proxy'[c] = NoProxy
         \/ OwnersIn(inbox[c]) = {} => up /\ proxy'[c].life = life /\ proxy'[c].query \in Mine(c),
         Mine(c)' = Mine(c), Asked(c)' = Asked(c)
  PROVE  ObjectOK(c)'
<1>1. inbox[c] \in Seq(Messages) /\ inbox[c] # <<>> /\ Head(inbox[c]).kind # "Owner"
  <2>1. inbox[c] \in Seq(Messages) /\ inbox[c] # <<>> /\ Head(inbox[c]).kind \in kinds
    BY Popping
  <2> QED
    BY <2>1
<1>2. /\ OwnersIn(Tail(inbox[c])) = {} <=> OwnersIn(inbox[c]) = {}
      /\ \A i \in DOMAIN Tail(inbox[c]) : i \in FreshIn(Tail(inbox[c])) <=> i + 1 \in FreshIn(inbox[c])
      /\ \A i \in DOMAIN Tail(inbox[c]) : Tail(inbox[c])[i] = inbox[c][i + 1]
  BY <1>1, TailNews, TailPositions
<1>3. NameOwner' = NameOwner
  BY DEF NameOwner
<1>4. ASSUME Alive(c)'
      PROVE  /\ NewsOK(inbox'[c], known'[c], NameOwner', life')
             /\ up' /\ OwnersIn(inbox'[c]) # {} => Mine(c)' = {} /\ Asked(c)' = {}
             /\ \A i \in FreshIn(inbox'[c]) : up' /\ inbox'[c][i].query \in Mine(c)'
             /\ proxy'[c] # NoProxy =>
                  OwnersIn(inbox'[c]) # {} \/ (up' /\ proxy'[c].life = life' /\ proxy'[c].query \in Mine(c)')
  <2>1. /\ NewsOK(inbox[c], known[c], NameOwner, life)
        /\ up /\ OwnersIn(inbox[c]) # {} => Mine(c) = {} /\ Asked(c) = {}
        /\ \A i \in FreshIn(inbox[c]) : up /\ inbox[c][i].query \in Mine(c)
        /\ proxy[c] # NoProxy =>
             OwnersIn(inbox[c]) # {} \/ (up /\ proxy[c].life = life /\ proxy[c].query \in Mine(c))
    BY <1>4 DEF ObjectOK
  <2>2. NewsOK(Tail(inbox[c]), known[c], NameOwner, life)
    BY <1>1, <2>1, OtherTaken
  <2>3. \A i \in FreshIn(inbox'[c]) : up' /\ inbox'[c][i].query \in Mine(c)'
    <3>1. \A i \in FreshIn(Tail(inbox[c])) : i \in DOMAIN Tail(inbox[c])
      BY DEF FreshIn
    <3> QED
      BY <1>2, <2>1, <3>1
  <2> QED
    BY <1>2, <1>3, <2>1, <2>2, <2>3
<1> QED
  BY <1>4 DEF ObjectOK

\* CreateQuery called: what is asked for is what was, or the call behind the others.
LEMMA CreateCalled ==
  ASSUME TypeOK, NEW c \in Clients, calls' = Append(calls, CreateCall(c))
  PROVE  /\ Asked(c)' = Asked(c) \cup {Len(calls) + 1}
         /\ CallsOf(c)' = CallsOf(c) \cup {Len(calls) + 1}
         /\ calls'[Len(calls) + 1] = CreateCall(c)
<1>1. calls \in Seq(Calls)
  BY DEF TypeOK
<1>2. CreateCall(c).client = c /\ CreateCall(c).method = "CreateQuery"
  BY CallTypes
<1>3. /\ Len(calls) \in Nat /\ DOMAIN calls = 1..Len(calls)
      /\ DOMAIN calls' = 1..(Len(calls) + 1)
      /\ \A i \in 1..Len(calls) : calls'[i] = calls[i]
      /\ calls'[Len(calls) + 1] = CreateCall(c)
  BY <1>1
<1>4. DOMAIN calls' = DOMAIN calls \cup {Len(calls) + 1}
  BY <1>3
<1>5. \A i \in DOMAIN calls : calls'[i] = calls[i]
  BY <1>3
<1>6. calls'[Len(calls) + 1] = CreateCall(c)
  BY <1>3
<1> QED
  BY <1>2, <1>4, <1>5, <1>6 DEF Asked, CallsOf

\* An object without queries, in the service or asked for, is told of an owner.
LEMMA StatusObject ==
  ASSUME BusOK, NEW c \in Clients, NEW n \in 0..MaxLives,
         NEW box, box \in [Clients -> Seq(Messages)], ConnectionStatus(c, n, box),
         Mine(c)' = {}, Asked(c) = {}, FreshIn(box[c]) = {},
         NewsOK(box[c], n, NameOwner', life'),
         n # 0 /\ n = NameOwner' => OwnersIn(box[c]) = {}
  PROVE  ObjectOK(c)'
<1>1. TypeOK /\ box[c] \in Seq(Messages)
  BY DEF BusOK
<1>2. known'[c] = n /\ proxy'[c] = NoProxy
  BY <1>1 DEF ConnectionStatus, TypeOK
<1>3. NotCreated \in Messages /\ NotCreated.kind = "NotCreated"
  BY MessageTypes, MessageFields
<1>4. /\ OwnersIn(Append(box[c], NotCreated)) = OwnersIn(box[c])
      /\ FreshIn(Append(box[c], NotCreated))
           = IF NotCreated.kind = "Created" THEN FreshIn(box[c]) \cup {Len(box[c]) + 1} ELSE FreshIn(box[c])
      /\ \A first, last, now :
           NewsOK(box[c], first, last, now) => NewsOK(Append(box[c], NotCreated), first, last, now)
  <2>1. NotCreated.kind # "Owner"
    BY <1>3
  <2> QED
    BY <1>1, <1>3, <2>1, OtherAppended
<1>5. /\ FreshIn(inbox'[c]) = {} /\ NewsOK(inbox'[c], n, NameOwner', life')
      /\ OwnersIn(inbox'[c]) = OwnersIn(box[c])
      /\ Asked(c)' = {} \/ (n # 0 /\ n = NameOwner' /\ Asked(c)' = {Len(calls) + 1})
  <2>1. CASE inbox' = box /\ calls' = calls
    BY <2>1, AskedAreCalls
  <2>2. CASE inbox' = [box EXCEPT ![c] = Append(@, NotCreated)] /\ calls' = calls
    <3>1. inbox'[c] = Append(box[c], NotCreated)
      BY <2>2
    <3>2. Asked(c)' = Asked(c)
      BY <2>2, AskedAreCalls
    <3> QED
      BY <1>3, <1>4, <3>1, <3>2
  <2>3. CASE /\ inbox' = box /\ calls' = Append(calls, CreateCall(c))
             /\ n # 0 /\ n = NameOwner'
    <3>1. Asked(c)' = {Len(calls) + 1}
      BY <1>1, <2>3, CreateCalled
    <3> QED
      BY <2>3, <3>1
  <2> QED
    BY <2>1, <2>2, <2>3 DEF ConnectionStatus, NewQuery
<1>6. \A i, j \in Asked(c)' : i = j
  BY <1>5
<1>7. up' /\ OwnersIn(inbox'[c]) # {} => Mine(c)' = {} /\ Asked(c)' = {}
  BY <1>5
<1> QED
  BY <1>2, <1>5, <1>6, <1>7 DEF ObjectOK

\* The process takes the news of an owner: whatever it had with the service is gone.
LEMMA HandleOwnerNews ==
  ASSUME BusOK, NEW c \in Clients, ObjectOK(c), HandleOwner(c), Alive(c)
  PROVE  /\ ConnectionStatus(c, Head(inbox[c]).life, Popped(c))
         /\ Head(inbox[c]).life \in 0..MaxLives /\ Popped(c) \in [Clients -> Seq(Messages)]
         /\ Popped(c)[c] = Tail(inbox[c])
         /\ Mine(c) = {} /\ Mine(c)' = {} /\ Asked(c) = {} /\ FreshIn(Popped(c)[c]) = {}
         /\ NewsOK(Popped(c)[c], Head(inbox[c]).life, NameOwner', life')
         /\ Head(inbox[c]).life # 0 /\ Head(inbox[c]).life = NameOwner' => OwnersIn(Popped(c)[c]) = {}
         /\ up' = up /\ life' = life /\ OwnersIn(inbox[c]) # {}
<1>1. /\ Receives(c, {"Owner"}) /\ UNCHANGED serviceVars
  BY DEF HandleOwner
<1>2. /\ inbox[c] \in Seq(Messages) /\ inbox[c] # <<>>
      /\ Head(inbox[c]) \in Messages /\ Head(inbox[c]).kind \in {"Owner"}
      /\ Popped(c) \in [Clients -> Seq(Messages)] /\ Popped(c)[c] = Tail(inbox[c])
  BY <1>1, Popping
<1>3. Head(inbox[c]).life \in 0..MaxLives
  BY <1>2, MessageParts
<1>4. /\ NewsOK(inbox[c], known[c], NameOwner, life)
      /\ up /\ OwnersIn(inbox[c]) # {} => Mine(c) = {} /\ Asked(c) = {}
      /\ \A i \in FreshIn(inbox[c]) : up /\ inbox[c][i].query \in Mine(c)
  BY DEF ObjectOK
<1>5. /\ (Head(inbox[c]).life = 0) # (known[c] = 0)
      /\ NewsOK(Tail(inbox[c]), Head(inbox[c]).life, NameOwner, life)
      /\ Head(inbox[c]).life = life /\ NameOwner = life /\ life > 0 => OwnersIn(Tail(inbox[c])) = {}
  <2>1. Head(inbox[c]).kind = "Owner"
    BY <1>2
  <2> QED
    BY <1>2, <1>4, <2>1, OwnerTaken
<1>6. ConnectionStatus(c, Head(inbox[c]).life, Popped(c))
  BY <1>5 DEF HandleOwner
<1>7. OwnersIn(inbox[c]) # {}
  BY <1>2, TailNews
<1>8. Mine(c) = {} /\ Asked(c) = {}
  <2>1. CASE up
    BY <1>4, <1>7, <2>1
  <2>2. CASE ~up
    BY <2>2, NoCalls
  <2> QED
    BY <2>1, <2>2
<1>9. FreshIn(Tail(inbox[c])) = {}
  <2>1. FreshIn(inbox[c]) = {}
    BY <1>4, <1>8
  <2> QED
    BY <1>2, <2>1, TailNews
<1>10. up' = up /\ life' = life /\ NameOwner' = NameOwner /\ Mine(c)' = Mine(c)
  BY <1>1 DEF serviceVars, NameOwner, Mine
<1>11. ASSUME Head(inbox[c]).life # 0, Head(inbox[c]).life = NameOwner' PROVE OwnersIn(Tail(inbox[c])) = {}
  <2>1. NameOwner = life /\ life > 0
    <3>1. life \in 0..MaxLives
      BY DEF BusOK, TypeOK
    <3>2. NameOwner # 0
      BY <1>10, <1>11
    <3>3. NameOwner = life
      BY <3>2 DEF NameOwner
    <3> QED
      BY <3>1, <3>2, <3>3, BoundsAreNat
  <2> QED
    BY <1>5, <1>10, <1>11, <2>1
<1> QED
  BY <1>2, <1>3, <1>5, <1>6, <1>7, <1>8, <1>9, <1>10, <1>11

LEMMA HandleOwnerObject ==
  ASSUME BusOK, NEW c \in Clients, ObjectOK(c), HandleOwner(c)
  PROVE  ObjectOK(c)'
<1>1. CASE Alive(c)
  <2>1. /\ ConnectionStatus(c, Head(inbox[c]).life, Popped(c))
        /\ Head(inbox[c]).life \in 0..MaxLives /\ Popped(c) \in [Clients -> Seq(Messages)]
        /\ Mine(c)' = {} /\ Asked(c) = {} /\ FreshIn(Popped(c)[c]) = {}
        /\ NewsOK(Popped(c)[c], Head(inbox[c]).life, NameOwner', life')
        /\ Head(inbox[c]).life # 0 /\ Head(inbox[c]).life = NameOwner' => OwnersIn(Popped(c)[c]) = {}
    BY <1>1, HandleOwnerNews
  <2> QED
    BY <2>1, StatusObject
<1>2. CASE ~Alive(c)
  <2>1. /\ UNCHANGED <<serviceVars, made, held, text, leaked, asks, failed>>
        /\ UNCHANGED <<calls, proxy, creating, histories>>
    BY <1>2 DEF HandleOwner
  <2>2. Mine(c)' = Mine(c) /\ Asked(c)' = Asked(c)
    BY <2>1, AskedAreCalls DEF serviceVars, Mine
  <2>3. ~Alive(c)' /\ proxy'[c] = NoProxy
    BY <1>2, <2>1 DEF Alive, ObjectOK
  <2> QED
    BY <2>2, <2>3, GoneObject
<1> QED
  BY <1>1, <1>2

\* A new object knows the owner there is, and has been told nothing.
LEMMA NewNews ==
  ASSUME BusOK, NEW c \in Clients, New(c)
  PROVE  \E n \in 0..MaxLives, box \in [Clients -> Seq(Messages)] :
           /\ ConnectionStatus(c, n, box) /\ n = NameOwner'
           /\ box[c] = <<>> /\ OwnersIn(box[c]) = {} /\ FreshIn(box[c]) = {}
           /\ Mine(c)' = {} /\ CallsOf(c) = {} /\ Asked(c) = {}
           /\ NewsOK(box[c], n, NameOwner', life')
<1>1. TypeOK /\ Absent
  BY DEF BusOK
<1>2. c \notin made /\ c \notin failed /\ ~Alive(c)
  BY DEF New, Alive
<1>3. inbox[c] = <<>> /\ CallsOf(c) = {} /\ Mine(c) = {}
  BY <1>1, <1>2 DEF Absent
<1>4. inbox \in [Clients -> Seq(Messages)] /\ life \in 0..MaxLives /\ 0 \in 0..MaxLives
  BY <1>1, BoundsAreNat DEF TypeOK
<1>5. PICK n \in 0..MaxLives, box \in [Clients -> Seq(Messages)] :
        /\ ConnectionStatus(c, n, box) /\ n = NameOwner' /\ box[c] = <<>> /\ Mine(c)' = {}
  <2>1. CASE UNCHANGED serviceVars /\ ConnectionStatus(c, NameOwner, inbox)
    <3>1. NameOwner \in 0..MaxLives
      BY <1>4 DEF NameOwner
    <3>2. NameOwner' = NameOwner /\ Mine(c)' = Mine(c)
      BY <2>1 DEF serviceVars, NameOwner, Mine
    <3> QED
      BY <1>3, <1>4, <2>1, <3>1, <3>2
  <2>2. CASE Starts /\ ConnectionStatus(c, life + 1, Announce(inbox, life + 1))
    <3>1. /\ life + 1 \in 0..MaxLives /\ life' = life + 1 /\ up' = TRUE /\ DOMAIN queries' = {}
      BY <1>1, <2>2, StartsTypes
    <3>2. /\ Announce(inbox, life + 1) \in [Clients -> Seq(Messages)]
          /\ Announce(inbox, life + 1)[c] = inbox[c]
      BY <1>2, <1>4, <3>1, AnnounceCounts
    <3>3. life + 1 = NameOwner' /\ Mine(c)' = {}
      BY <3>1 DEF NameOwner, Mine
    <3> QED
      BY <1>3, <2>2, <3>1, <3>2, <3>3
  <2> QED
    BY <2>1, <2>2 DEF New
<1>6. OwnersIn(box[c]) = {} /\ FreshIn(box[c]) = {}
  BY <1>5 DEF OwnersIn, FreshIn
<1>7. NewsOK(box[c], n, NameOwner', life')
  BY <1>5, <1>6 DEF NewsOK, Alternates
<1> QED
  BY <1>3, <1>5, <1>6, <1>7, AskedAreCalls

LEMMA NewObject ==
  ASSUME BusOK, NEW c \in Clients, ObjectOK(c), New(c)
  PROVE  ObjectOK(c)'
<1>1. PICK n \in 0..MaxLives, box \in [Clients -> Seq(Messages)] :
           /\ ConnectionStatus(c, n, box) /\ n = NameOwner'
           /\ box[c] = <<>> /\ OwnersIn(box[c]) = {} /\ FreshIn(box[c]) = {}
           /\ Mine(c)' = {} /\ CallsOf(c) = {} /\ Asked(c) = {}
           /\ NewsOK(box[c], n, NameOwner', life')
  BY NewNews
<1> QED
  BY <1>1, StatusObject

LEMMA HandleNotCreatedObject ==
  ASSUME BusOK, NEW c \in Clients, ObjectOK(c), HandleNotCreated(c)
  PROVE  ObjectOK(c)' /\ (Alive(c)' <=> Alive(c)) /\ Mine(c)' = Mine(c)
<1>1. /\ Receives(c, {"NotCreated"}) /\ inbox' = Popped(c)
      /\ creating' = [creating EXCEPT ![c] = @ - 1] /\ leaked' = [leaked EXCEPT ![c] = @ + 1]
      /\ UNCHANGED <<serviceVars, calls, known, made, held, text, proxy, asks, failed, histories>>
  BY DEF HandleNotCreated
<1>2. Popped(c)[c] = Tail(inbox[c])
  BY <1>1, Popping
<1>3. creating[c] \in Nat /\ leaked[c] \in Nat /\ creating[c] > 0
  <2>1. Receives(c, {"Created", "NotCreated"})
    BY <1>1 DEF Receives
  <2>2. creating[c] > 0
    BY <2>1, HeadIsAnswer
  <2> QED
    BY <2>2 DEF BusOK, TypeOK
<1>4. Alive(c)' <=> Alive(c)
  <2>1. creating'[c] = creating[c] - 1 /\ leaked'[c] = leaked[c] + 1
    BY <1>1 DEF BusOK, TypeOK
  <2>2. (creating'[c] + leaked'[c] > 0) <=> (creating[c] + leaked[c] > 0)
    BY ONLY <1>3, <2>1
  <2> QED
    BY <1>1, <2>2 DEF Alive
<1>5. Mine(c)' = Mine(c) /\ Asked(c)' = Asked(c)
  BY <1>1, AskedAreCalls DEF serviceVars, Mine
<1>6. ~Alive(c)' => proxy'[c] = NoProxy
  BY <1>1, <1>4 DEF ObjectOK
<1>7. "Owner" \notin {"NotCreated"}
  OBVIOUS
<1>8. inbox'[c] = Tail(inbox[c]) /\ known'[c] = known[c] /\ up' = up /\ life' = life /\ proxy'[c] = proxy[c]
  BY <1>1, <1>2 DEF serviceVars
<1>9. ObjectOK(c)'
  BY <1>1, <1>4, <1>5, <1>6, <1>7, <1>8, TakenObject
<1> QED
  BY <1>4, <1>5, <1>9

LEMMA FailObject ==
  ASSUME BusOK, NEW c \in Clients, ObjectOK(c), Fail(c)
  PROVE  ObjectOK(c)' /\ ~Alive(c)'
<1>1. TypeOK
  BY DEF BusOK
<1>2. /\ made' = made \ {c} /\ proxy' = [proxy EXCEPT ![c] = NoProxy]
      /\ queries' = [q \in DOMAIN queries |-> [queries[q] EXCEPT !.open = @ /\ queries[q].client # c]]
  BY DEF Fail
<1>3. ~Alive(c)'
  BY <1>2 DEF Alive
<1>4. proxy'[c] = NoProxy
  BY <1>1, <1>2 DEF TypeOK
<1>5. CallsOf(c)' = {}
  BY <1>1, FailCalls
<1>6. Asked(c)' = {}
  BY <1>5 DEF CallsOf, Asked
<1>7. Mine(c)' = Mine(c)
  <2>1. \A q \in DOMAIN queries : queries[q] \in Queries
    BY <1>1, QueryParts DEF TypeOK
  <2>2. \A r \in Queries : [r EXCEPT !.open = @ /\ r.client # c].client = r.client
    BY DEF Queries
  <2>3. DOMAIN queries' = DOMAIN queries /\ \A q \in DOMAIN queries : queries'[q].client = queries[q].client
    BY <1>2, <2>1, <2>2
  <2> QED
    BY <2>3, MineStays
<1> QED
  BY <1>3, <1>4, <1>6, <1>7, GoneObject

LEMMA HandleHeardObject ==
  ASSUME BusOK, NEW c \in Clients, ObjectOK(c), HandleHeard(c)
  PROVE  ObjectOK(c)'
<1>1. CASE ~Alive(c) \/ proxy[c] = NoProxy
  BY <1>1, FailObject DEF HandleHeard
<1>2. CASE ~(~Alive(c) \/ proxy[c] = NoProxy)
  <2>1. /\ Receives(c, {"Heard", "NotHeard"}) /\ inbox' = Popped(c)
        /\ UNCHANGED <<queries, calls, known, made, held, proxy, creating, leaked, failed>>
        /\ UNCHANGED <<life, up, asks, histories>>
    BY <1>2 DEF HandleHeard
  <2>2. Popped(c)[c] = Tail(inbox[c])
    BY <2>1, Popping
  <2>3. Alive(c)' /\ Alive(c)
    BY <1>2, <2>1 DEF Alive
  <2>4. Mine(c)' = Mine(c) /\ Asked(c)' = Asked(c)
    BY <2>1, AskedAreCalls DEF Mine
  <2>5. "Owner" \notin {"Heard", "NotHeard"}
    OBVIOUS
  <2>6. inbox'[c] = Tail(inbox[c]) /\ known'[c] = known[c] /\ up' = up /\ life' = life /\ proxy'[c] = proxy[c]
    BY <2>1, <2>2
  <2> QED
    BY <2>1, <2>3, <2>4, <2>5, <2>6, TakenObject
<1> QED
  BY <1>1, <1>2

\* The answer to CreateQuery ends an object that no one else keeps, and gives others
\* their proxy when there is an owner.
LEMMA HandleCreatedCases ==
  ASSUME BusOK, NEW c \in Clients, HandleCreated(c)
  PROVE  /\ Receives(c, {"Created"}) /\ Alive(c)
         /\ UNCHANGED <<calls, made, held, text, leaked, asks, failed, unsent>>
         /\ ~Alive(c)' => proxy'[c] = NoProxy
         /\ \/ /\ up /\ up' /\ life' = life /\ inbox' = Popped(c) /\ Alive(c)'
               /\ proxy'[c] = [life |-> life, query |-> Head(inbox[c]).query]
               /\ UNCHANGED <<known, queries, strayed>>
            \/ /\ up /\ up' /\ life' = life /\ inbox' = Popped(c) /\ ~Alive(c)'
               /\ DOMAIN queries' = DOMAIN queries
               /\ \A q \in DOMAIN queries : queries'[q].client = queries[q].client
            \/ /\ Starts /\ inbox' = Announce(Popped(c), life + 1)
               /\ UNCHANGED <<known, strayed>>
            \/ /\ ~up /\ inbox' = Popped(c) /\ proxy'[c] = NoProxy
               /\ UNCHANGED <<known, serviceVars, strayed>>
<1> DEFINE q == Head(inbox[c]).query
           last == c \notin held /\ creating[c] + leaked[c] = 1
           To(n) == [life |-> n, query |-> q]
<1>1. TypeOK
  BY DEF BusOK
<1>2. /\ Receives(c, {"Created"}) /\ creating[c] > 0 /\ Alive(c)
      /\ creating' = [creating EXCEPT ![c] = @ - 1]
      /\ UNCHANGED <<calls, made, held, text, leaked, asks, failed, unsent>>
  BY HandleCreatedShape
<1>3. proxy \in [Clients -> Proxies] /\ creating[c] \in Nat /\ leaked[c] \in Nat
  BY <1>1 DEF TypeOK
<1>4. Alive(c)' <=> ~last
  <2>1. creating'[c] = creating[c] - 1 /\ leaked'[c] = leaked[c]
    BY <1>1, <1>2 DEF TypeOK
  <2>2. (creating'[c] + leaked'[c] > 0) <=> ~(creating[c] + leaked[c] = 1)
    BY ONLY <1>2, <1>3, <2>1
  <2>3. c \in made /\ made' = made /\ held' = held
    BY <1>2 DEF Alive
  <2> QED
    BY <2>2, <2>3 DEF Alive
<1> HIDE DEF q, last, To
<1>5. CASE /\ up /\ inbox' = Popped(c)
           /\ IF last THEN Dispose(c, To(life))
              ELSE proxy' = [proxy EXCEPT ![c] = To(life)] /\ UNCHANGED known
                     /\ UNCHANGED <<queries, strayed>>
           /\ UNCHANGED <<life, up>>
  <2>1. CASE last
    <3>1. /\ DOMAIN queries' = DOMAIN queries
          /\ \A x \in DOMAIN queries : /\ queries'[x].client = queries[x].client
                                       /\ queries'[x].text = queries[x].text
                                       /\ queries'[x].open => queries[x].open
          /\ proxy'[c] = NoProxy
      BY <1>1, <1>5, <2>1, DisposeTypes
    <3> QED
      BY <1>2, <1>4, <1>5, <2>1, <3>1
  <2>2. CASE ~last
    <3>1. proxy'[c] = To(life)
      BY <1>3, <1>5, <2>2
    <3> QED
      BY <1>2, <1>4, <1>5, <2>2, <3>1 DEF To, q
  <2> QED
    BY <2>1, <2>2
<1>6. CASE /\ Starts /\ inbox' = Announce(Popped(c), life + 1)
           /\ proxy' = [proxy EXCEPT ![c] = IF last THEN NoProxy ELSE To(life + 1)]
           /\ UNCHANGED known
           /\ UNCHANGED strayed
  <2>1. last => proxy'[c] = NoProxy
    BY <1>3, <1>6
  <2> QED
    BY <1>2, <1>4, <1>6, <2>1
<1>7. CASE /\ ~up /\ inbox' = Popped(c)
           /\ proxy' = [proxy EXCEPT ![c] = NoProxy]
           /\ UNCHANGED known
           /\ UNCHANGED <<serviceVars, strayed>>
  <2>1. proxy'[c] = NoProxy
    BY <1>3, <1>7
  <2> QED
    BY <1>2, <1>4, <1>7, <2>1
<1> QED
  BY <1>5, <1>6, <1>7 DEF HandleCreated, q, last, To

\* The service has been started for the path that came too late: news of it waits.
LEMMA HandleCreatedStarts ==
  ASSUME BusOK, NEW c \in Clients, ObjectOK(c), HandleCreated(c), Starts
  PROVE  /\ ObjectOK(c)'
         /\ OwnersIn(inbox'[c]) # {} /\ FreshIn(inbox'[c]) = {} /\ CallsOf(c)' = {}
<1>1. /\ Receives(c, {"Created"}) /\ Alive(c)
      /\ UNCHANGED <<calls, made, held, text, leaked, asks, failed, unsent>>
      /\ ~Alive(c)' => proxy'[c] = NoProxy
  BY HandleCreatedCases
<1>2. TypeOK
  BY DEF BusOK
<1>3. /\ life + 1 \in 0..MaxLives /\ life' = life + 1
      /\ ~up /\ up' = TRUE /\ DOMAIN queries' = {}
  BY <1>2, StartsTypes
<1>4. inbox' = Announce(Popped(c), life + 1) /\ known' = known
  BY <1>3, HandleCreatedCases DEF serviceVars
<1>5. /\ inbox[c] \in Seq(Messages) /\ inbox[c] # <<>> /\ Head(inbox[c]).kind \in {"Created"}
      /\ Popped(c)[c] = Tail(inbox[c])
  BY <1>1, Popping
<1>6. inbox'[c] = Append(Tail(inbox[c]), Owner(life + 1))
  BY <1>1, <1>4, <1>5 DEF Announce
<1>7. NewsOK(Tail(inbox[c]), known[c], 0, life)
  <2>1. NewsOK(inbox[c], known[c], 0, life)
    BY <1>1, <1>3 DEF ObjectOK, NameOwner
  <2>2. Head(inbox[c]).kind # "Owner"
    BY <1>5
  <2> QED
    BY <1>5, <2>1, <2>2, OtherTaken
<1>8. /\ Tail(inbox[c]) \in Seq(Messages) /\ life \in 0..MaxLives /\ 0 \in 0..MaxLives
      /\ known[c] \in 0..MaxLives
      /\ (life + 1 = 0) # (0 = 0) /\ life < life + 1 /\ life <= life + 1 /\ life + 1 <= life + 1
      /\ life + 1 # 0
  BY <1>2, <1>3, <1>5, BoundsAreNat DEF TypeOK
<1>9. /\ OwnersIn(Append(Tail(inbox[c]), Owner(life + 1))) # {}
      /\ FreshIn(Append(Tail(inbox[c]), Owner(life + 1))) = {}
      /\ \A first, now \in 0..MaxLives, then \in 0..MaxLives :
           /\ NewsOK(Tail(inbox[c]), first, 0, now) /\ now <= then /\ life + 1 <= then
           /\ life + 1 # 0 => now < then
           /\ life + 1 = 0 => now = then
           => NewsOK(Append(Tail(inbox[c]), Owner(life + 1)), first, life + 1, then)
  BY <1>3, <1>8, OwnerAppended
<1>10. NewsOK(Append(Tail(inbox[c]), Owner(life + 1)), known[c], life + 1, life + 1)
  BY <1>3, <1>7, <1>8, <1>9
<1>11. NameOwner' = life + 1 /\ Mine(c)' = {}
  BY <1>3 DEF NameOwner, Mine
<1>12. CallsOf(c)' = {} /\ Asked(c)' = {}
  <2>1. CallsOf(c) = {}
    BY <1>3, NoCalls
  <2>2. calls' = calls
    BY <1>1
  <2> QED
    BY <2>1, <2>2, AskedAreCalls
<1> QED
  BY <1>1, <1>3, <1>4, <1>6, <1>9, <1>10, <1>11, <1>12 DEF ObjectOK

LEMMA HandleCreatedObject ==
  ASSUME BusOK, NEW c \in Clients, ObjectOK(c), HandleCreated(c)
  PROVE  ObjectOK(c)'
<1>1. /\ Receives(c, {"Created"}) /\ Alive(c)
      /\ UNCHANGED <<calls, made, held, text, leaked, asks, failed, unsent>>
      /\ ~Alive(c)' => proxy'[c] = NoProxy
      /\ \/ /\ up /\ up' /\ life' = life /\ inbox' = Popped(c) /\ Alive(c)'
            /\ proxy'[c] = [life |-> life, query |-> Head(inbox[c]).query]
            /\ UNCHANGED <<known, queries, strayed>>
         \/ /\ up /\ up' /\ life' = life /\ inbox' = Popped(c) /\ ~Alive(c)'
            /\ DOMAIN queries' = DOMAIN queries
            /\ \A q \in DOMAIN queries : queries'[q].client = queries[q].client
         \/ /\ Starts /\ inbox' = Announce(Popped(c), life + 1)
            /\ UNCHANGED <<known, strayed>>
         \/ /\ ~up /\ inbox' = Popped(c) /\ proxy'[c] = NoProxy
            /\ UNCHANGED <<known, serviceVars, strayed>>
  BY HandleCreatedCases
<1>2. /\ inbox[c] \in Seq(Messages) /\ inbox[c] # <<>> /\ Head(inbox[c]).kind \in {"Created"}
      /\ Head(inbox[c]) = inbox[c][1]
      /\ Popped(c)[c] = Tail(inbox[c])
  BY <1>1, Popping
<1>3. Asked(c)' = Asked(c)
  BY <1>1, AskedAreCalls
<1>4. "Owner" \notin {"Created"}
  OBVIOUS
<1>5. up \in BOOLEAN /\ up' \in BOOLEAN
  BY HandleCreatedBusOK DEF BusOK, TypeOK
<1>6. CASE /\ up /\ up' /\ life' = life /\ inbox' = Popped(c) /\ Alive(c)'
           /\ proxy'[c] = [life |-> life, query |-> Head(inbox[c]).query]
           /\ UNCHANGED <<known, queries, strayed>>
  <2>1. Mine(c)' = Mine(c)
    BY <1>6 DEF Mine
  <2>2. OwnersIn(inbox[c]) = {} => Head(inbox[c]).query \in Mine(c)
    <3>1. OwnersIn(inbox[c]) = {} => 1 \in FreshIn(inbox[c])
      BY <1>2, TailNews
    <3> QED
      BY <1>1, <1>2, <3>1 DEF ObjectOK
  <2>3. OwnersIn(inbox[c]) = {} => up /\ proxy'[c].life = life /\ proxy'[c].query \in Mine(c)
    BY <1>6, <2>2
  <2>4. inbox'[c] = Tail(inbox[c]) /\ known'[c] = known[c] /\ up' = up
    BY <1>2, <1>5, <1>6
  <2> QED
    BY <1>1, <1>3, <1>4, <1>6, <2>1, <2>3, <2>4, TakenObject
<1>7. CASE /\ up /\ up' /\ life' = life /\ inbox' = Popped(c) /\ ~Alive(c)'
           /\ DOMAIN queries' = DOMAIN queries
           /\ \A q \in DOMAIN queries : queries'[q].client = queries[q].client
  <2>1. Mine(c)' = Mine(c)
    BY <1>7, MineStays
  <2> QED
    BY <1>1, <1>3, <1>7, <2>1, GoneObject
<1>8. CASE Starts
  BY <1>8, HandleCreatedStarts
<1>9. CASE /\ ~up /\ inbox' = Popped(c) /\ proxy'[c] = NoProxy
           /\ UNCHANGED <<known, serviceVars, strayed>>
  <2>1. Mine(c)' = Mine(c) /\ up' = up /\ life' = life
    BY <1>9 DEF serviceVars, Mine
  <2>2. inbox'[c] = Tail(inbox[c]) /\ known'[c] = known[c]
    BY <1>2, <1>9
  <2>3. proxy'[c] = NoProxy
    BY <1>9
  <2> QED
    BY <1>1, <1>3, <1>4, <2>1, <2>2, <2>3, TakenObject
<1> QED
  BY <1>1, <1>6, <1>7, <1>8, <1>9

LEMMA AskedObject ==
  ASSUME BusOK, NEW c \in Clients, ObjectOK(c),
         (\E t \in Texts : SetQuery(c, t)) \/ VoiceQuery(c) \/ ExecuteCommand(c)
  PROVE  ObjectOK(c)'
<1>1. TypeOK
  BY DEF BusOK
<1>2. NotHeard(proxy[c]) \in Messages /\ NotHeard(proxy[c]).kind = "NotHeard"
  BY <1>1, MessageTypes, MessageFields DEF TypeOK
<1>3. CASE ExecuteCommand(c) /\ proxy[c] = NoProxy
  BY <1>3, FailObject DEF ExecuteCommand
<1>4. CASE ~(ExecuteCommand(c) /\ proxy[c] = NoProxy)
  <2>1. /\ UNCHANGED <<life, up, known, made, held, proxy, creating, leaked>>
        /\ inbox'[c] = inbox[c] \/ inbox'[c] = Append(inbox[c], NotHeard(proxy[c]))
    <3>1. ASSUME NEW t \in Texts, SetQuery(c, t)
          PROVE  UNCHANGED <<life, up, known, made, held, proxy, creating, leaked>> /\ inbox' = inbox
      BY <3>1 DEF SetQuery
    <3>2. CASE VoiceQuery(c)
      BY <1>1, <3>2 DEF VoiceQuery, serviceVars, objectVars, Answer, TypeOK
    <3>3. CASE ExecuteCommand(c)
      BY <1>4, <3>3 DEF ExecuteCommand
    <3> QED
      BY <3>1, <3>2, <3>3
  <2>2. Mine(c)' = Mine(c)
    <3>1. ASSUME NEW t \in Texts, SetQuery(c, t) PROVE Mine(c)' = Mine(c)
      <4>1. queries' = queries \/ queries' = WithText(queries, proxy[c].query, t)
        BY <3>1 DEF SetQuery, WithText
      <4>2. queries \in Seq(Queries)
        BY <1>1 DEF TypeOK
      <4>3. DOMAIN queries' = DOMAIN queries /\ \A q \in DOMAIN queries : queries'[q].client = queries[q].client
        BY <4>1, <4>2, TextReplaced
      <4> QED
        BY <4>3, MineStays
    <3>2. CASE queries' = queries
      BY <3>2 DEF Mine
    <3>3. VoiceQuery(c) \/ ExecuteCommand(c) => queries' = queries
      BY <1>4 DEF VoiceQuery, ExecuteCommand, serviceVars
    <3> QED
      BY <3>1, <3>2, <3>3
  <2>3. Asked(c)' = Asked(c)
    <3>1. CASE calls' = calls
      BY <3>1, AskedAreCalls
    <3>2. CASE calls' = Append(calls, VoiceCall(c))
      <4>1. VoiceCall(c).method # "CreateQuery"
        BY <1>1, CallTypes
      <4>2. calls \in Seq(Calls)
        BY <1>1 DEF TypeOK
      <4>3. /\ Len(calls) \in Nat /\ DOMAIN calls = 1..Len(calls)
            /\ DOMAIN calls' = 1..(Len(calls) + 1)
            /\ \A i \in 1..Len(calls) : calls'[i] = calls[i]
            /\ calls'[Len(calls) + 1] = VoiceCall(c)
        BY <3>2, <4>2
      <4>4. DOMAIN calls' = DOMAIN calls \cup {Len(calls) + 1}
        BY <4>3
      <4> HIDE DEF VoiceCall
      <4> QED
        BY <4>1, <4>3, <4>4 DEF Asked
    <3>3. calls' = calls \/ calls' = Append(calls, VoiceCall(c))
      BY <1>4 DEF SetQuery, VoiceQuery, ExecuteCommand
    <3> QED
      BY <3>1, <3>2, <3>3
  <2>4. Alive(c)' <=> Alive(c)
    BY <2>1 DEF Alive
  <2>5. /\ NotHeard(proxy[c]).kind # "Owner" /\ NotHeard(proxy[c]).kind # "Created"
        /\ proxy'[c] = proxy[c] /\ known'[c] = known[c] /\ up' = up /\ life' = life
    BY <1>2, <2>1
  <2>6. /\ Mine(c) \subseteq Mine(c)'
        /\ \A p, q \in Mine(c)' : p = q
        /\ \A i, j \in Asked(c)' : i = j
        /\ Mine(c)' = {} \/ Asked(c)' = {}
        /\ Mine(c) = {} /\ Asked(c) = {} => Mine(c)' = {} /\ Asked(c)' = {}
    BY <2>2, <2>3 DEF ObjectOK
  <2> QED
    BY <1>2, <2>1, <2>4, <2>5, <2>6, AnsweredObject
<1> QED
  BY <1>3, <1>4

LEMMA DropObject ==
  ASSUME BusOK, NEW c \in Clients, ObjectOK(c), Drop(c)
  PROVE  ObjectOK(c)'
<1>1. TypeOK
  BY DEF BusOK
<1>2. /\ held' = held \ {c}
      /\ UNCHANGED <<life, up, calls, inbox, made, text, creating, leaked, asks, failed, unsent>>
  BY DEF Drop
<1>3. Asked(c)' = Asked(c)
  BY <1>2, AskedAreCalls
<1>4. creating[c] \in Nat /\ leaked[c] \in Nat
  BY <1>1 DEF TypeOK
<1>5. CASE creating[c] + leaked[c] = 0
  <2>1. Dispose(c, proxy[c])
    BY <1>5 DEF Drop
  <2>2. /\ DOMAIN queries' = DOMAIN queries
        /\ \A x \in DOMAIN queries : /\ queries'[x].client = queries[x].client
                                     /\ queries'[x].text = queries[x].text
                                     /\ queries'[x].open => queries[x].open
        /\ proxy'[c] = NoProxy
    BY <1>1, <2>1, DisposeTypes
  <2>3. Mine(c)' = Mine(c)
    BY <2>2, MineStays
  <2>4. ~Alive(c)'
    BY <1>2, <1>5 DEF Alive
  <2> QED
    BY <1>3, <2>2, <2>3, <2>4, GoneObject
<1>6. CASE creating[c] + leaked[c] # 0
  <2>1. UNCHANGED <<queries, proxy, known, strayed>>
    BY <1>6 DEF Drop
  <2>2. creating[c] + leaked[c] > 0
    BY <1>4, <1>6
  <2>3. c \in made
    BY <1>1 DEF Drop, TypeOK
  <2>4. Alive(c) /\ Alive(c)'
    BY <1>2, <2>2, <2>3 DEF Alive
  <2>5. Mine(c)' = Mine(c)
    BY <2>1 DEF Mine
  <2>6. NotCreated \in Messages /\ NotCreated.kind # "Owner" /\ NotCreated.kind # "Created"
    BY MessageTypes, MessageFields
  <2>7. /\ Mine(c) \subseteq Mine(c)'
        /\ \A p, q \in Mine(c)' : p = q
        /\ \A i, j \in Asked(c)' : i = j
        /\ Mine(c)' = {} \/ Asked(c)' = {}
        /\ Mine(c) = {} /\ Asked(c) = {} => Mine(c)' = {} /\ Asked(c)' = {}
    BY <1>3, <2>5 DEF ObjectOK
  <2>8. /\ inbox'[c] = inbox[c] /\ proxy'[c] = proxy[c] /\ known'[c] = known[c]
        /\ up' = up /\ life' = life
    BY <1>2, <2>1
  <2> QED
    BY <2>4, <2>6, <2>7, <2>8, AnsweredObject
<1> QED
  BY <1>5, <1>6

\* The first call taken.
LEMMA CallTaken ==
  ASSUME TypeOK, calls # <<>>, calls' = Tail(calls), NEW c
  PROVE  /\ Head(calls) = calls[1] /\ 1 \in DOMAIN calls /\ Head(calls) \in Calls
         /\ \A i \in CallsOf(c)' : i \in Nat \ {0} /\ i + 1 \in CallsOf(c) /\ calls'[i] = calls[i + 1]
         /\ \A i \in Asked(c)' : i \in Nat \ {0} /\ i + 1 \in Asked(c)
<1>1. calls \in Seq(Calls)
  BY DEF TypeOK
<1>2. /\ Head(calls) = calls[1] /\ 1 \in DOMAIN calls /\ Head(calls) \in Calls
      /\ \A i \in DOMAIN calls' : i \in Nat \ {0} /\ i + 1 \in DOMAIN calls /\ calls'[i] = calls[i + 1]
  BY <1>1
<1> QED
  BY <1>2 DEF CallsOf, Asked

LEMMA ServeObject ==
  ASSUME BusOK, Serve, NEW c \in Clients, c = Head(calls).client, ObjectOK(c)
  PROVE  ObjectOK(c)'
<1>1. TypeOK
  BY DEF BusOK
<1>2. /\ calls # <<>> /\ calls' = Tail(calls)
      /\ UNCHANGED <<life, up, known, objectVars, asks, failed>> /\ up
  BY DEF Serve
<1>3. PICK b \in Clients, m \in Messages :
           /\ b = Head(calls).client /\ b \in made
           /\ inbox' = [inbox EXCEPT ![b] = Append(@, m)]
           /\ Head(calls).method = "CreateQuery" =>
                /\ m = Created(Len(queries) + 1)
                /\ queries' = Append(queries, [client |-> b, text |-> Head(calls).text, open |-> TRUE])
           /\ Head(calls).method # "CreateQuery" =>
                /\ m.kind \in {"Heard", "NotHeard"}
                /\ DOMAIN queries' = DOMAIN queries
                /\ \A q \in DOMAIN queries : queries'[q].client = queries[q].client
           /\ queries' \in Seq(Queries)
           /\ unsent' \subseteq Clients /\ strayed' \subseteq Clients
  BY ServeShape
<1>4. /\ Head(calls) = calls[1] /\ 1 \in DOMAIN calls /\ Head(calls) \in Calls
      /\ \A i \in Asked(c)' : i \in Nat \ {0} /\ i + 1 \in Asked(c)
  BY <1>1, <1>2, CallTaken
<1>5. inbox'[c] = Append(inbox[c], m)
  BY <1>1, <1>3 DEF TypeOK
<1>6. Alive(c)' <=> Alive(c)
  BY <1>2 DEF objectVars, Alive
<1>7. proxy'[c] = proxy[c] /\ known'[c] = known[c] /\ up' = up /\ life' = life
  BY <1>2 DEF objectVars
<1>8. /\ \A p, q \in Mine(c) : p = q
      /\ \A i, j \in Asked(c) : i = j
      /\ Mine(c) = {} \/ Asked(c) = {}
  BY DEF ObjectOK
<1>9. CASE Head(calls).method = "CreateQuery"
  <2>1. 1 \in Asked(c)
    BY <1>4, <1>9 DEF Asked
  <2>2. Asked(c)' = {}
    <3> SUFFICES ASSUME NEW i \in Asked(c)' PROVE FALSE
      OBVIOUS
    <3>1. i \in Nat \ {0} /\ i + 1 = 1
      BY <1>4, <1>8, <2>1
    <3> QED
      BY ONLY <3>1
  <2>3. Mine(c) = {}
    BY <1>8, <2>1
  <2>4. Mine(c)' = {Len(queries) + 1}
    <3>1. queries \in Seq(Queries)
      BY <1>1 DEF TypeOK
    <3>2. [client |-> c, text |-> Head(calls).text, open |-> TRUE].client = c
      OBVIOUS
    <3>3. /\ DOMAIN queries' = DOMAIN queries \cup {Len(queries) + 1}
          /\ \A q \in DOMAIN queries : queries'[q] = queries[q]
          /\ queries'[Len(queries) + 1].client = c
      <4>1. queries' = Append(queries, [client |-> c, text |-> Head(calls).text, open |-> TRUE])
        BY <1>3, <1>9
      <4> DEFINE r == [client |-> c, text |-> Head(calls).text, open |-> TRUE]
      <4>2. r.client = c /\ queries' = Append(queries, r)
        BY <4>1
      <4> HIDE DEF r
      <4>3. /\ Len(queries) \in Nat /\ DOMAIN queries = 1..Len(queries)
            /\ DOMAIN queries' = 1..(Len(queries) + 1)
            /\ \A q \in 1..Len(queries) : queries'[q] = queries[q]
            /\ queries'[Len(queries) + 1] = r
        BY <3>1, <4>2
      <4>4. DOMAIN queries' = DOMAIN queries \cup {Len(queries) + 1}
        BY <4>3
      <4> QED
        BY <4>2, <4>3, <4>4
    <3>4. \A q \in DOMAIN queries : queries[q].client # c
      BY <2>3 DEF Mine
    <3> QED
      BY <3>3, <3>4 DEF Mine
  <2>5. m = Created(Len(queries) + 1) /\ m.kind = "Created" /\ m.query = Len(queries) + 1
    BY <1>3, <1>9, MessageFields
  <2>6. /\ m.kind # "Owner"
        /\ m.kind = "Created" => up /\ m.query \in Mine(c)'
        /\ Mine(c) \subseteq Mine(c)'
        /\ \A p, q \in Mine(c)' : p = q
        /\ \A i, j \in Asked(c)' : i = j
        /\ Mine(c)' = {} \/ Asked(c)' = {}
        /\ Mine(c) = {} /\ Asked(c) = {} => Mine(c)' = {} /\ Asked(c)' = {}
    BY <1>2, <2>1, <2>2, <2>3, <2>4, <2>5
  <2> QED
    BY <1>5, <1>6, <1>7, <2>6, AnsweredObject
<1>10. CASE Head(calls).method # "CreateQuery"
  <2>1. Mine(c)' = Mine(c)
    BY <1>3, <1>10, MineStays
  <2>2. /\ \A i, j \in Asked(c)' : i = j
        /\ Asked(c) = {} => Asked(c)' = {}
    <3>1. ASSUME NEW i \in Asked(c)', NEW j \in Asked(c)' PROVE i = j
      <4>1. i + 1 = j + 1 /\ i \in Nat \ {0} /\ j \in Nat \ {0}
        BY <1>4, <1>8, <3>1
      <4> QED
        BY ONLY <4>1
    <3> QED
      BY <1>4, <3>1
  <2>3. m.kind # "Owner" /\ m.kind # "Created"
    BY <1>3, <1>10
  <2>4. /\ Mine(c) \subseteq Mine(c)'
        /\ \A p, q \in Mine(c)' : p = q
        /\ Mine(c)' = {} \/ Asked(c)' = {}
        /\ Mine(c) = {} /\ Asked(c) = {} => Mine(c)' = {} /\ Asked(c)' = {}
    BY <1>8, <2>1, <2>2
  <2> QED
    BY <1>5, <1>6, <1>7, <2>2, <2>3, <2>4, AnsweredObject
<1> QED
  BY <1>9, <1>10

\* Every step of a process is one that it takes, or a start of the service, for itself,
\* and leaves the others alone but for the start.
LEMMA OthersKept ==
  ASSUME BusOK, NEW c \in Clients, Handle(c) \/ Application(c), NEW d \in Clients, c # d
  PROVE  Kept(d) \/ StartedFor(d)
<1>1. CASE New(c)
  BY <1>1, NewKeeps, StartsForAll
<1>2. CASE HandleCreated(c)
  BY <1>2, HandleCreatedKeeps, StartsForAll
<1>3. CASE HandleOwner(c) \/ HandleNotCreated(c) \/ HandleHeard(c) \/ VoiceQuery(c) \/ Drop(c)
  BY <1>3, HandleOwnerKeeps, HandleNotCreatedKeeps, HandleHeardKeeps, VoiceQueryKeeps, DropKeeps
<1>4. CASE ExecuteCommand(c)
  BY <1>4, ExecuteCommandKeeps
<1>5. ASSUME NEW t \in Texts, SetQuery(c, t) PROVE Kept(d)
  BY <1>5, SetQueryKeeps
<1> QED
  BY <1>1, <1>2, <1>3, <1>4, <1>5 DEF Handle, Application

LEMMA OwnObject ==
  ASSUME BusOK, NEW c \in Clients, ObjectOK(c), Handle(c) \/ Application(c)
  PROVE  ObjectOK(c)'
BY HandleOwnerObject, HandleCreatedObject, HandleNotCreatedObject, HandleHeardObject, NewObject,
   AskedObject, DropObject DEF Handle, Application

LEMMA InitObjectsOK == Init => ObjectsOK
<1> SUFFICES ASSUME Init, NEW c \in Clients PROVE ObjectOK(c)
  BY DEF ObjectsOK
<1>1. Mine(c) = {} /\ Asked(c) = {} /\ ~Alive(c) /\ proxy[c] = NoProxy
  BY DEF Init, Mine, Asked, Alive
<1> QED
  BY <1>1 DEF ObjectOK

LEMMA NextObjectsOK == ASSUME BusOK, BusOK', ObjectsOK, [Next]_vars PROVE ObjectsOK'
<1> SUFFICES ASSUME NEW d \in Clients PROVE ObjectOK(d)'
  BY DEF ObjectsOK
<1>1. ObjectOK(d) /\ TypeOK /\ TypeOK'
  BY DEF ObjectsOK, BusOK
<1>2. CASE UNCHANGED vars
  BY <1>1, <1>2 DEF vars, serviceVars, objectVars, ObjectOK, Mine, Asked, Alive, NameOwner
<1>3. CASE Start
  <2>1. Starts
    BY <1>3 DEF Start
  <2>2. StartedFor(d)
    BY <1>3, <2>1, StartsForAll
  <2> QED
    BY <1>1, <2>2, StartedObject
<1>4. CASE Stop
  BY <1>1, <1>4, StoppedObject
<1>5. CASE Serve
  <2>1. CASE Head(calls).client = d
    BY <1>1, <1>5, <2>1, ServeObject
  <2>2. CASE Head(calls).client # d
    <3>1. Kept(d)
      BY <1>5, <2>2, ServeKeeps
    <3> QED
      BY <1>1, <3>1, KeptObject
  <2> QED
    BY <2>1, <2>2
<1>6. ASSUME NEW c \in Clients, Handle(c) \/ Application(c) PROVE ObjectOK(d)'
  <2>1. CASE c = d
    BY <1>1, <1>6, <2>1, OwnObject
  <2>2. CASE c # d
    <3>1. Kept(d) \/ StartedFor(d)
      BY <1>6, <2>2, OthersKept
    <3> QED
      BY <1>1, <3>1, KeptObject, StartedObject
  <2> QED
    BY <2>1, <2>2
<1> QED
  BY <1>2, <1>3, <1>4, <1>5, <1>6 DEF Next

\* What an object has in the service, and what it has asked for, is one at most.
LEMMA OneAtMost ==
  ASSUME NEW S, \A x, y \in S : x = y
  PROVE  Cardinality(S) \in {0, 1} /\ (S = {} => Cardinality(S) = 0)
<1>1. CASE S = {}
  BY <1>1, FS_EmptySet
<1>2. CASE S # {}
  <2>1. PICK x \in S : TRUE
    BY <1>2
  <2>2. S = {x}
    BY <2>1
  <2> QED
    BY <1>2, <2>2, FS_Singleton
<1> QED
  BY <1>1, <1>2

LEMMA ObjectsHaveOneQuery == ASSUME ObjectsOK PROVE OneQueryPerObject
<1> SUFFICES ASSUME NEW c \in Clients PROVE Cardinality(Open(c)) + Cardinality(Asked(c)) <= 1
  BY DEF OneQueryPerObject
<1>1. /\ \A p, q \in Mine(c) : p = q
      /\ \A i, j \in Asked(c) : i = j
      /\ Mine(c) = {} \/ Asked(c) = {}
  BY DEF ObjectsOK, ObjectOK
<1>2. \A q \in Open(c) : q \in Mine(c)
  BY DEF Open, Mine
<1>3. (\A p, q \in Open(c) : p = q) /\ (Open(c) = {} \/ Asked(c) = {})
  BY <1>1, <1>2
<1>4. /\ Cardinality(Open(c)) \in {0, 1} /\ Cardinality(Asked(c)) \in {0, 1}
      /\ Cardinality(Open(c)) = 0 \/ Cardinality(Asked(c)) = 0
  BY <1>1, <1>3, OneAtMost
<1> QED
  BY <1>4

LEMMA StrayProxiesHaveNews == ASSUME BusOK, ObjectsOK PROVE StrayProxiesAreShortLived
<1> SUFFICES ASSUME NEW c \in Clients, Reached(proxy[c]) # 0, queries[proxy[c].query].client # c
             PROVE  \E i \in DOMAIN inbox[c] : inbox[c][i].kind = "Owner"
  BY DEF StrayProxiesAreShortLived
<1>1. proxy[c] # NoProxy
  BY DEF Reached
<1>2. proxy[c].query \notin Mine(c)
  BY DEF Mine
<1>3. ObjectOK(c)
  BY DEF ObjectsOK
<1>4. OwnersIn(inbox[c]) # {}
  BY <1>1, <1>2, <1>3 DEF ObjectOK
<1> QED
  BY <1>4 DEF OwnersIn

\* In every behaviour of the service and the clients.
LEMMA ObjectsCorrect == Spec => [](BusOK /\ ObjectsOK)
<1>1. Init => BusOK /\ ObjectsOK
  BY InitBusOK, InitObjectsOK
<1>2. (BusOK /\ ObjectsOK) /\ [Next]_vars => (BusOK /\ ObjectsOK)'
  BY NextBusOK, NextObjectsOK
<1> QED
  BY <1>1, <1>2, PTL DEF Spec

\* However the service comes and goes, and whatever the applications do, the service
\* never has two open queries of one object, or one and a call that will make another:
\* connection_status asks for a query only when it takes the news of an owner, and no
\* owner is news twice.
THEOREM OneQueryEach == Spec => []OneQueryPerObject
<1>1. BusOK /\ ObjectsOK => OneQueryPerObject
  BY ObjectsHaveOneQuery
<1> QED
  BY <1>1, ObjectsCorrect, PTL

\* A proxy by which an object would write or close the query of another process, as it
\* can when paths count from the start again, waits for the news that takes it.
THEOREM StrayProxiesEnd == Spec => []StrayProxiesAreShortLived
<1>1. BusOK /\ ObjectsOK => StrayProxiesAreShortLived
  BY StrayProxiesHaveNews
<1> QED
  BY <1>1, ObjectsCorrect, PTL

-----------------------------------------------------------------------------
(* The text of the object and that of its query.                           *)

HeardIn(s) == {i \in DOMAIN s : s[i].kind = "Heard"}

\* The text of c is in its call of CreateQuery, then in the query, but for what the
\* service has heard since and c is still to be told.
Current(c) ==
  /\ \A i \in Asked(c) : calls[i].text = text[c]
  /\ \A i \in FreshIn(inbox[c]) : queries[inbox[c][i].query].text = text[c]
  /\ (proxy[c] # NoProxy /\ OwnersIn(inbox[c]) = {} /\ queries[proxy[c].query].open) =>
       /\ HeardIn(inbox[c]) = {} => queries[proxy[c].query].text = text[c]
       /\ \A i \in HeardIn(inbox[c]) :
            (\A j \in HeardIn(inbox[c]) : j <= i) =>
              queries[proxy[c].query].text = inbox[c][i].text

\* One thing at a time: a query asked for, its path on its way, or a proxy to it, by
\* which all calls of VoiceQuery on their way were made.
OneAtATime(c) ==
  /\ \A i, j \in FreshIn(inbox[c]) : i = j
  /\ Asked(c) # {} => FreshIn(inbox[c]) = {} /\ proxy[c] = NoProxy /\ OwnersIn(inbox[c]) = {}
  /\ FreshIn(inbox[c]) # {} => CallsOf(c) = {} /\ proxy[c] = NoProxy /\ OwnersIn(inbox[c]) = {}
  /\ \A i \in Asked(c) : \A j \in CallsOf(c) : j <= i
  /\ \A i \in FreshIn(inbox[c]) : \A j \in HeardIn(inbox[c]) : j <= i
  /\ (up /\ proxy[c] # NoProxy /\ OwnersIn(inbox[c]) = {}) =>
       \A i \in CallsOf(c) : calls[i].by = proxy[c]

TextOK(c) ==
  Alive(c) =>
    /\ OneAtATime(c)
    /\ (up /\ c \in held \ (unsent \cup strayed)) => Current(c)

TextsOK == \A c \in Clients : TextOK(c)

\* Nothing asked for, no path on its way and no proxy to a query: no text to be kept.
LEMMA QuietText ==
  ASSUME NEW c, Asked(c)' = {}, FreshIn(inbox'[c]) = {},
         OwnersIn(inbox'[c]) # {} \/ proxy'[c] = NoProxy
  PROVE  TextOK(c)'
<1>1. OneAtATime(c)'
  BY DEF OneAtATime
<1>2. Current(c)'
  BY DEF Current
<1> QED
  BY <1>1, <1>2 DEF TextOK

\* Where all that concerns d stays, so does the text.
LEMMA KeptText ==
  ASSUME TypeOK, TypeOK', NEW d \in Clients, ObjectOK(d), TextOK(d), Kept(d)
  PROVE  TextOK(d)'
<1>1. /\ up' = up /\ life' = life
      /\ inbox'[d] = inbox[d] /\ known'[d] = known[d] /\ proxy'[d] = proxy[d] /\ text'[d] = text[d]
      /\ d \in made' <=> d \in made
      /\ d \in held' <=> d \in held
      /\ creating'[d] = creating[d] /\ leaked'[d] = leaked[d]
      /\ CallsKept(d) /\ QueriesKept(d) /\ TextsKept(d)
  BY DEF Kept
<1>2. /\ CallsOf(d) = {} => CallsOf(d)' = {}
      /\ Asked(d) = {} => Asked(d)' = {}
      /\ (\A i \in Asked(d) : \A j \in CallsOf(d) : j <= i)
           => (\A i \in Asked(d)' : \A j \in CallsOf(d)' : j <= i)
      /\ (\A i \in Asked(d) : calls[i].text = text[d]) /\ text'[d] = text[d]
           => (\A i \in Asked(d)' : calls'[i].text = text'[d])
      /\ \A p : (\A i \in CallsOf(d) : calls[i].by = p) => (\A i \in CallsOf(d)' : calls'[i].by = p)
  BY <1>1, KeptCalls
<1>3. Alive(d)' <=> Alive(d)
  BY <1>1 DEF Alive
<1> SUFFICES ASSUME Alive(d)'
             PROVE  OneAtATime(d)' /\ (up' /\ d \in held' \ (unsent' \cup strayed') => Current(d)')
  BY DEF TextOK
<1>4. OneAtATime(d)
  BY <1>3 DEF TextOK
<1>5. OneAtATime(d)'
  <2>1. /\ Asked(d)' # {} => FreshIn(inbox'[d]) = {} /\ proxy'[d] = NoProxy /\ OwnersIn(inbox'[d]) = {}
        /\ FreshIn(inbox'[d]) # {} => CallsOf(d)' = {} /\ proxy'[d] = NoProxy /\ OwnersIn(inbox'[d]) = {}
    BY <1>1, <1>2, <1>4 DEF OneAtATime
  <2>2. \A i \in Asked(d)' : \A j \in CallsOf(d)' : j <= i
    BY <1>2, <1>4 DEF OneAtATime
  <2>3. (up' /\ proxy'[d] # NoProxy /\ OwnersIn(inbox'[d]) = {}) =>
           \A i \in CallsOf(d)' : calls'[i].by = proxy'[d]
    BY <1>1, <1>2, <1>4 DEF OneAtATime
  <2>4. \A i, j \in FreshIn(inbox'[d]) : i = j
    BY <1>1, <1>4 DEF OneAtATime
  <2>5. \A i \in FreshIn(inbox'[d]) : \A j \in HeardIn(inbox'[d]) : j <= i
    BY <1>1, <1>4 DEF OneAtATime
  <2> QED
    BY <2>1, <2>2, <2>3, <2>4, <2>5 DEF OneAtATime
<1>6. ASSUME up', d \in held' \ (unsent' \cup strayed') PROVE Current(d)'
  <2>1. d \in held \ (unsent \cup strayed) /\ d \notin strayed' /\ up
    BY <1>1, <1>6 DEF TextsKept
  <2>2. Current(d)
    BY <1>3, <2>1 DEF TextOK
  <2>3. \A q \in Mine(d) : /\ queries'[q].text = queries[q].text
                           /\ queries'[q].open => queries[q].open
    BY <1>1, <2>1 DEF TextsKept, QueriesKept, Mine
  <2>4. /\ \A i \in FreshIn(inbox[d]) : inbox[d][i].query \in Mine(d)
        /\ proxy[d] # NoProxy => OwnersIn(inbox[d]) # {} \/ proxy[d].query \in Mine(d)
    BY <1>3 DEF ObjectOK
  <2>5. \A i \in Asked(d)' : calls'[i].text = text'[d]
    BY <1>1, <1>2, <2>2 DEF Current
  <2>6. \A i \in FreshIn(inbox'[d]) : queries'[inbox'[d][i].query].text = text'[d]
    BY <1>1, <2>2, <2>3, <2>4 DEF Current
  <2>7. ASSUME proxy'[d] # NoProxy, OwnersIn(inbox'[d]) = {}, queries'[proxy'[d].query].open
        PROVE  /\ HeardIn(inbox'[d]) = {} => queries'[proxy'[d].query].text = text'[d]
               /\ \A i \in HeardIn(inbox'[d]) :
                    (\A j \in HeardIn(inbox'[d]) : j <= i) =>
                      queries'[proxy'[d].query].text = inbox'[d][i].text
    <3>1. /\ proxy[d] # NoProxy /\ OwnersIn(inbox[d]) = {} /\ proxy[d].query \in Mine(d)
          /\ proxy'[d].query = proxy[d].query
      BY <1>1, <2>4, <2>7
    <3>2. /\ queries[proxy[d].query].open
          /\ queries'[proxy[d].query].text = queries[proxy[d].query].text
      BY <2>3, <2>7, <3>1
    <3> QED
      BY <1>1, <2>2, <3>1, <3>2 DEF Current
  <2> QED
    BY <2>5, <2>6, <2>7 DEF Current
<1> QED
  BY <1>5, <1>6

LEMMA StartedText ==
  ASSUME BusOK, NEW d \in Clients, ObjectOK(d), StartedFor(d)
  PROVE  TextOK(d)'
<1>1. /\ Alive(d)' <=> Alive(d)
      /\ Alive(d) => OwnersIn(inbox'[d]) # {} /\ FreshIn(inbox'[d]) = {}
  BY StartedObject
<1>2. Asked(d)' = {}
  BY DEF StartedFor, CallsOf, Asked
<1> QED
  BY <1>1, <1>2, QuietText DEF TextOK

LEMMA StoppedText ==
  ASSUME BusOK, Stop, NEW d \in Clients, ObjectOK(d)
  PROVE  TextOK(d)'
<1>1. Alive(d)' <=> Alive(d)
  BY StoppedObject
<1>2. Alive(d) => OwnersIn(inbox'[d]) # {} /\ FreshIn(inbox'[d]) = {}
  BY StoppedInbox
<1>3. Asked(d)' = {}
  BY DEF Stop, Asked
<1> QED
  BY <1>1, <1>2, <1>3, QuietText DEF TextOK

\* What has been heard, with a message more and a message less.
LEMMA HeardAppended ==
  ASSUME NEW s \in Seq(Messages), NEW m \in Messages
  PROVE  /\ HeardIn(Append(s, m)) = IF m.kind = "Heard" THEN HeardIn(s) \cup {Len(s) + 1} ELSE HeardIn(s)
         /\ \A i \in HeardIn(s) : i \in 1..Len(s) /\ Append(s, m)[i] = s[i] /\ ~(Len(s) + 1 <= i)
         /\ Append(s, m)[Len(s) + 1] = m /\ Len(s) + 1 <= Len(s) + 1
<1> DEFINE a == Append(s, m)
<1>1. /\ Len(s) \in Nat /\ DOMAIN s = 1..Len(s) /\ DOMAIN a = 1..(Len(s) + 1)
      /\ \A i \in 1..Len(s) : a[i] = s[i]
      /\ a[Len(s) + 1] = m
  OBVIOUS
<1>2. DOMAIN a = DOMAIN s \cup {Len(s) + 1}
  BY <1>1
<1>3. \A i \in DOMAIN s : i \in 1..Len(s) /\ a[i] = s[i] /\ ~(Len(s) + 1 <= i)
  BY <1>1
<1>4. Len(s) + 1 <= Len(s) + 1
  BY <1>1
<1> HIDE DEF a
<1>5. HeardIn(a) = IF m.kind = "Heard" THEN HeardIn(s) \cup {Len(s) + 1} ELSE HeardIn(s)
  BY <1>1, <1>2, <1>3 DEF HeardIn
<1>6. \A i \in HeardIn(s) : i \in DOMAIN s
  BY DEF HeardIn
<1> QED
  BY <1>1, <1>3, <1>4, <1>5, <1>6 DEF a

LEMMA HeardTaken ==
  ASSUME NEW s \in Seq(Messages), s # <<>>
  PROVE  /\ \A i \in HeardIn(Tail(s)) : i \in Nat /\ i + 1 \in HeardIn(s) /\ Tail(s)[i] = s[i + 1]
         /\ \A j \in HeardIn(s) : j \in Nat \ {0} /\ (j # 1 => j - 1 \in HeardIn(Tail(s)))
         /\ Head(s).kind = "Heard" <=> 1 \in HeardIn(s)
<1> DEFINE t == Tail(s)
<1>1. /\ Tail(s) \in Seq(Messages) /\ Head(s) = s[1] /\ Len(s) \in Nat \ {0}
      /\ DOMAIN s = 1..Len(s) /\ DOMAIN Tail(s) = 1..(Len(s) - 1)
      /\ \A i \in DOMAIN Tail(s) : i + 1 \in DOMAIN s /\ Tail(s)[i] = s[i + 1]
      /\ \A i \in DOMAIN s : i # 1 => i - 1 \in DOMAIN Tail(s) /\ Tail(s)[i - 1] = s[i]
  BY TailPositions
<1> HIDE DEF t
<1>2. \A i \in HeardIn(t) : i \in Nat /\ i + 1 \in HeardIn(s) /\ t[i] = s[i + 1]
  BY <1>1 DEF HeardIn, t
<1>3. ASSUME NEW j \in HeardIn(s) PROVE j \in Nat \ {0} /\ (j # 1 => j - 1 \in HeardIn(t))
  <2>1. j \in DOMAIN s /\ s[j].kind = "Heard"
    BY DEF HeardIn
  <2>2. j # 1 => j - 1 \in DOMAIN t /\ t[j - 1] = s[j]
    BY <1>1, <2>1 DEF t
  <2> QED
    BY <1>1, <2>1, <2>2 DEF HeardIn
<1>4. Head(s).kind = "Heard" <=> 1 \in HeardIn(s)
  BY <1>1 DEF HeardIn
<1> QED
  BY <1>2, <1>3, <1>4 DEF t

\* An object told of an owner has its text in the call, if it calls.
LEMMA StatusText ==
  ASSUME BusOK, NEW c \in Clients, NEW n \in 0..MaxLives,
         NEW box, box \in [Clients -> Seq(Messages)], ConnectionStatus(c, n, box), text' = text,
         Asked(c) = {}, FreshIn(box[c]) = {},
         n # 0 /\ n = NameOwner' => OwnersIn(box[c]) = {}
  PROVE  TextOK(c)'
<1>1. TypeOK /\ box[c] \in Seq(Messages)
  BY DEF BusOK
<1>2. proxy'[c] = NoProxy
  BY <1>1 DEF ConnectionStatus, TypeOK
<1>3. CASE inbox' = box /\ calls' = calls
  BY <1>2, <1>3, AskedAreCalls, QuietText
<1>4. CASE inbox' = [box EXCEPT ![c] = Append(@, NotCreated)] /\ calls' = calls
  <2>1. NotCreated \in Messages /\ NotCreated.kind # "Owner" /\ NotCreated.kind # "Created"
    BY MessageTypes, MessageFields
  <2>2. FreshIn(Append(box[c], NotCreated))
          = IF NotCreated.kind = "Created" THEN FreshIn(box[c]) \cup {Len(box[c]) + 1} ELSE FreshIn(box[c])
    BY <1>1, <2>1, OtherAppended
  <2>3. FreshIn(inbox'[c]) = {}
    BY <1>4, <2>1, <2>2
  <2> QED
    BY <1>2, <1>4, <2>3, AskedAreCalls, QuietText
<1>5. CASE /\ inbox' = box /\ calls' = Append(calls, CreateCall(c))
           /\ n # 0 /\ n = NameOwner'
  <2>1. /\ Asked(c)' = Asked(c) \cup {Len(calls) + 1}
        /\ CallsOf(c)' = CallsOf(c) \cup {Len(calls) + 1}
        /\ calls'[Len(calls) + 1] = CreateCall(c)
    BY <1>1, <1>5, CreateCalled
  <2>2. CreateCall(c).text = text[c]
    BY <1>1, CallTypes
  <2>3. \A j \in CallsOf(c)' : j <= Len(calls) + 1
    <3>1. Len(calls) \in Nat /\ \A j \in CallsOf(c) : j \in 1..Len(calls)
      BY <1>1 DEF TypeOK, CallsOf
    <3> QED
      BY <2>1, <3>1
  <2>4. FreshIn(inbox'[c]) = {} /\ OwnersIn(inbox'[c]) = {}
    BY <1>5
  <2>5. OneAtATime(c)'
    BY <1>2, <2>1, <2>3, <2>4 DEF OneAtATime
  <2>6. Current(c)'
    BY <1>2, <2>1, <2>2, <2>4 DEF Current
  <2> QED
    BY <2>5, <2>6 DEF TextOK
<1> QED
  BY <1>3, <1>4, <1>5 DEF ConnectionStatus, NewQuery

LEMMA HandleOwnerText ==
  ASSUME BusOK, NEW c \in Clients, ObjectOK(c), HandleOwner(c)
  PROVE  TextOK(c)'
<1>1. CASE Alive(c)
  <2>1. /\ ConnectionStatus(c, Head(inbox[c]).life, Popped(c))
        /\ Head(inbox[c]).life \in 0..MaxLives /\ Popped(c) \in [Clients -> Seq(Messages)]
        /\ Asked(c) = {} /\ FreshIn(Popped(c)[c]) = {}
        /\ Head(inbox[c]).life # 0 /\ Head(inbox[c]).life = NameOwner' => OwnersIn(Popped(c)[c]) = {}
    BY <1>1, HandleOwnerNews
  <2>2. text' = text
    BY DEF HandleOwner
  <2> QED
    BY <2>1, <2>2, StatusText
<1>2. CASE ~Alive(c)
  <2>1. UNCHANGED <<made, held, leaked, creating>>
    BY <1>2 DEF HandleOwner
  <2>2. ~Alive(c)'
    BY <1>2, <2>1 DEF Alive
  <2> QED
    BY <2>2 DEF TextOK
<1> QED
  BY <1>1, <1>2

LEMMA NewText ==
  ASSUME BusOK, NEW c \in Clients, New(c)
  PROVE  TextOK(c)'
<1>1. PICK n \in 0..MaxLives, box \in [Clients -> Seq(Messages)] :
           /\ ConnectionStatus(c, n, box) /\ n = NameOwner'
           /\ box[c] = <<>> /\ OwnersIn(box[c]) = {} /\ FreshIn(box[c]) = {}
           /\ Mine(c)' = {} /\ CallsOf(c) = {} /\ Asked(c) = {}
           /\ NewsOK(box[c], n, NameOwner', life')
  BY NewNews
<1>2. text' = text
  BY DEF New
<1> QED
  BY <1>1, <1>2, StatusText

\* A message taken that is neither news of an owner nor a path: what was heard last
\* becomes the object's text, as it is the query's.
LEMMA TakenText ==
  ASSUME BusOK, NEW c \in Clients, ObjectOK(c), TextOK(c),
         NEW kinds, Receives(c, kinds), kinds \subseteq {"NotCreated", "Heard", "NotHeard"},
         inbox'[c] = Tail(inbox[c]), proxy'[c] = proxy[c],
         UNCHANGED <<up, calls, queries, held, histories>>, Alive(c)' <=> Alive(c),
         text'[c] = IF Head(inbox[c]).kind = "Heard" THEN Head(inbox[c]).text ELSE text[c],
         Head(inbox[c]).kind = "Heard" => proxy[c] # NoProxy
  PROVE  TextOK(c)'
<1> DEFINE s == inbox[c]
<1>1. /\ s \in Seq(Messages) /\ s # <<>> /\ Head(s) = s[1]
      /\ Head(s).kind # "Owner" /\ Head(s).kind # "Created"
  <2>1. s \in Seq(Messages) /\ s # <<>> /\ Head(s).kind \in kinds /\ Head(s) = s[1]
    BY Popping
  <2> QED
    BY <2>1
<1>2. inbox'[c] = Tail(s)
  OBVIOUS
<1> HIDE DEF s
<1>3. /\ OwnersIn(Tail(s)) = {} <=> OwnersIn(s) = {}
      /\ \A i \in DOMAIN Tail(s) : i \in FreshIn(Tail(s)) <=> i + 1 \in FreshIn(s)
      /\ \A i \in DOMAIN Tail(s) : i + 1 \in DOMAIN s /\ Tail(s)[i] = s[i + 1]
      /\ DOMAIN Tail(s) = 1..(Len(s) - 1) /\ Len(s) \in Nat \ {0}
  BY <1>1, TailNews, TailPositions
<1>4. \A i \in FreshIn(Tail(s)) : i \in Nat /\ i + 1 \in FreshIn(s) /\ Tail(s)[i] = s[i + 1]
  <2>1. \A i \in FreshIn(Tail(s)) : i \in DOMAIN Tail(s)
    BY DEF FreshIn
  <2>2. \A i \in DOMAIN Tail(s) : i \in Nat
    BY <1>3
  <2> QED
    BY <1>3, <2>1, <2>2
<1>5. /\ \A i \in HeardIn(Tail(s)) : i \in Nat /\ i + 1 \in HeardIn(s) /\ Tail(s)[i] = s[i + 1]
      /\ \A j \in HeardIn(s) : j \in Nat \ {0} /\ (j # 1 => j - 1 \in HeardIn(Tail(s)))
      /\ Head(s).kind = "Heard" <=> 1 \in HeardIn(s)
  BY <1>1, HeardTaken
<1>6. CallsOf(c)' = CallsOf(c) /\ Asked(c)' = Asked(c)
  BY AskedAreCalls
<1> SUFFICES ASSUME Alive(c)'
             PROVE  OneAtATime(c)' /\ (up' /\ c \in held' \ (unsent' \cup strayed') => Current(c)')
  BY DEF TextOK
<1>7. OneAtATime(c)
  BY DEF TextOK
<1>8. OneAtATime(c)'
  <2>1. ASSUME NEW i \in FreshIn(Tail(s)), NEW j \in FreshIn(Tail(s)) PROVE i = j
    <3>1. i + 1 = j + 1 /\ i \in Nat /\ j \in Nat
      BY <1>4, <1>7, <2>1 DEF OneAtATime, s
    <3> QED
      BY ONLY <3>1
  <2>2. ASSUME NEW i \in FreshIn(Tail(s)), NEW j \in HeardIn(Tail(s)) PROVE j <= i
    <3>1. j + 1 <= i + 1 /\ i \in Nat /\ j \in Nat
      BY <1>4, <1>5, <1>7, <2>2 DEF OneAtATime, s
    <3> QED
      BY ONLY <3>1
  <2>3. FreshIn(s) = {} => FreshIn(Tail(s)) = {}
    BY <1>4
  <2> QED
    BY <1>2, <1>3, <1>6, <1>7, <2>1, <2>2, <2>3 DEF OneAtATime, s
<1>9. ASSUME up', c \in held' \ (unsent' \cup strayed') PROVE Current(c)'
  <2>1. Current(c)
    BY <1>9 DEF TextOK, histories
  <2>2. Head(s).kind = "Heard" => Asked(c) = {} /\ FreshIn(s) = {}
    BY <1>7 DEF OneAtATime, s
  <2>3. \A i \in Asked(c)' : calls'[i].text = text'[c]
    BY <1>6, <2>1, <2>2 DEF Current, s
  <2>4. ASSUME NEW i \in FreshIn(Tail(s)) PROVE queries'[Tail(s)[i].query].text = text'[c]
    <3>1. i + 1 \in FreshIn(s) /\ Tail(s)[i] = s[i + 1]
      BY <1>4
    <3>2. queries[s[i + 1].query].text = text[c]
      BY <2>1, <3>1 DEF Current, s
    <3>3. text'[c] = text[c]
      BY <2>2, <3>1 DEF s
    <3> QED
      BY <3>1, <3>2, <3>3
  <2>5. ASSUME proxy'[c] # NoProxy, OwnersIn(inbox'[c]) = {}, queries'[proxy'[c].query].open
        PROVE  /\ HeardIn(inbox'[c]) = {} => queries'[proxy'[c].query].text = text'[c]
               /\ \A i \in HeardIn(inbox'[c]) :
                    (\A j \in HeardIn(inbox'[c]) : j <= i) =>
                      queries'[proxy'[c].query].text = inbox'[c][i].text
    <3>1. /\ HeardIn(s) = {} => queries[proxy[c].query].text = text[c]
          /\ \A i \in HeardIn(s) :
               (\A j \in HeardIn(s) : j <= i) => queries[proxy[c].query].text = s[i].text
      BY <1>2, <1>3, <2>1, <2>5 DEF Current, s
    <3>2. ASSUME HeardIn(Tail(s)) = {} PROVE queries[proxy[c].query].text = text'[c]
      <4>1. \A j \in HeardIn(s) : j = 1
        BY <1>5, <3>2
      <4>2. CASE Head(s).kind = "Heard"
        <5>1. queries[proxy[c].query].text = s[1].text
          BY <1>5, <3>1, <4>1, <4>2
        <5> QED
          BY <1>1, <4>2, <5>1 DEF s
      <4>3. CASE Head(s).kind # "Heard"
        <5>1. HeardIn(s) = {}
          BY <1>5, <4>1, <4>3
        <5> QED
          BY <3>1, <4>3, <5>1 DEF s
      <4> QED
        BY <4>2, <4>3
    <3>3. ASSUME NEW i \in HeardIn(Tail(s)), \A j \in HeardIn(Tail(s)) : j <= i
          PROVE  queries[proxy[c].query].text = Tail(s)[i].text
      <4>1. ASSUME NEW j \in HeardIn(s) PROVE j <= i + 1
        <5>1. j \in Nat \ {0} /\ (j # 1 => j - 1 <= i) /\ i \in Nat
          BY <1>5, <3>3
        <5> QED
          BY ONLY <5>1
      <4> QED
        BY <1>5, <3>1, <4>1
    <3> QED
      BY <1>2, <3>2, <3>3
  <2> QED
    BY <1>2, <2>3, <2>4, <2>5 DEF Current
<1> QED
  BY <1>8, <1>9

LEMMA HandleNotCreatedText ==
  ASSUME BusOK, NEW c \in Clients, ObjectOK(c), TextOK(c), HandleNotCreated(c)
  PROVE  TextOK(c)'
<1>1. /\ Receives(c, {"NotCreated"}) /\ inbox' = Popped(c)
      /\ UNCHANGED <<serviceVars, calls, known, made, held, text, proxy, asks, failed, histories>>
  BY DEF HandleNotCreated
<1>2. Popped(c)[c] = Tail(inbox[c]) /\ Head(inbox[c]).kind # "Heard"
  <2>1. Popped(c)[c] = Tail(inbox[c]) /\ Head(inbox[c]).kind \in {"NotCreated"}
    BY <1>1, Popping
  <2> QED
    BY <2>1
<1>3. Alive(c)' <=> Alive(c)
  BY HandleNotCreatedObject
<1>4. {"NotCreated"} \subseteq {"NotCreated", "Heard", "NotHeard"}
  OBVIOUS
<1>5. /\ inbox'[c] = Tail(inbox[c]) /\ proxy'[c] = proxy[c]
      /\ UNCHANGED <<up, calls, queries, held, histories>>
      /\ text'[c] = IF Head(inbox[c]).kind = "Heard" THEN Head(inbox[c]).text ELSE text[c]
      /\ Head(inbox[c]).kind = "Heard" => proxy[c] # NoProxy
  BY <1>1, <1>2 DEF serviceVars
<1> QED
  BY <1>1, <1>3, <1>4, <1>5, TakenText

LEMMA HandleHeardText ==
  ASSUME BusOK, NEW c \in Clients, ObjectOK(c), TextOK(c), HandleHeard(c)
  PROVE  TextOK(c)'
<1>1. CASE ~Alive(c) \/ proxy[c] = NoProxy
  <2>1. ~Alive(c)'
    BY <1>1, FailObject DEF HandleHeard
  <2> QED
    BY <2>1 DEF TextOK
<1>2. CASE ~(~Alive(c) \/ proxy[c] = NoProxy)
  <2>1. /\ Receives(c, {"Heard", "NotHeard"}) /\ inbox' = Popped(c)
        /\ text' = IF Head(inbox[c]).kind = "Heard" THEN [text EXCEPT ![c] = Head(inbox[c]).text] ELSE text
        /\ UNCHANGED <<queries, calls, known, made, held, proxy, creating, leaked, failed>>
        /\ UNCHANGED <<life, up, asks, histories>>
    BY <1>2 DEF HandleHeard
  <2>2. Popped(c)[c] = Tail(inbox[c])
    BY <2>1, Popping
  <2>3. Alive(c)' <=> Alive(c)
    BY <2>1 DEF Alive
  <2>4. {"Heard", "NotHeard"} \subseteq {"NotCreated", "Heard", "NotHeard"}
    OBVIOUS
  <2>5. text'[c] = IF Head(inbox[c]).kind = "Heard" THEN Head(inbox[c]).text ELSE text[c]
    BY <2>1 DEF BusOK, TypeOK
  <2>6. /\ inbox'[c] = Tail(inbox[c]) /\ proxy'[c] = proxy[c]
        /\ UNCHANGED <<up, calls, queries, held, histories>>
        /\ Head(inbox[c]).kind = "Heard" => proxy[c] # NoProxy
    BY <1>2, <2>1, <2>2
  <2> QED
    BY <2>1, <2>3, <2>4, <2>5, <2>6, TakenText
<1> QED
  BY <1>1, <1>2

LEMMA HandleCreatedText ==
  ASSUME BusOK, NEW c \in Clients, ObjectOK(c), TextOK(c), HandleCreated(c)
  PROVE  TextOK(c)'
<1> DEFINE s == inbox[c]
<1>1. /\ Receives(c, {"Created"}) /\ Alive(c)
      /\ UNCHANGED <<calls, made, held, text, leaked, asks, failed, unsent>>
      /\ ~Alive(c)' => proxy'[c] = NoProxy
      /\ \/ /\ up /\ up' /\ life' = life /\ inbox' = Popped(c) /\ Alive(c)'
            /\ proxy'[c] = [life |-> life, query |-> Head(inbox[c]).query]
            /\ UNCHANGED <<known, queries, strayed>>
         \/ /\ up /\ up' /\ life' = life /\ inbox' = Popped(c) /\ ~Alive(c)'
            /\ DOMAIN queries' = DOMAIN queries
            /\ \A q \in DOMAIN queries : queries'[q].client = queries[q].client
         \/ /\ Starts /\ inbox' = Announce(Popped(c), life + 1)
            /\ UNCHANGED <<known, strayed>>
         \/ /\ ~up /\ inbox' = Popped(c) /\ proxy'[c] = NoProxy
            /\ UNCHANGED <<known, serviceVars, strayed>>
  BY HandleCreatedCases
<1>2. /\ inbox[c] \in Seq(Messages) /\ inbox[c] # <<>> /\ Head(inbox[c]).kind \in {"Created"}
      /\ Head(inbox[c]) = inbox[c][1]
      /\ Popped(c)[c] = Tail(inbox[c])
  BY <1>1, Popping
<1>3. CallsOf(c)' = CallsOf(c) /\ Asked(c)' = Asked(c)
  BY <1>1, AskedAreCalls
<1>4. /\ s \in Seq(Messages) /\ s # <<>> /\ Head(s).kind = "Created" /\ Head(s) = s[1]
      /\ Popped(c)[c] = Tail(s)
  BY <1>2
<1>5. OneAtATime(c) /\ ObjectOK(c)
  BY <1>1 DEF TextOK
<1>6. CASE ~Alive(c)'
  BY <1>6 DEF TextOK
<1>7. CASE Starts
  <2>1. OwnersIn(inbox'[c]) # {} /\ FreshIn(inbox'[c]) = {} /\ CallsOf(c)' = {}
    BY <1>7, HandleCreatedStarts
  <2>2. Asked(c)' = {}
    BY <1>3, <2>1, AskedAreCalls
  <2> QED
    BY <2>1, <2>2, QuietText
<1>8. CASE /\ ~up /\ inbox' = Popped(c) /\ proxy'[c] = NoProxy
           /\ UNCHANGED <<known, serviceVars, strayed>>
  <2>1. FreshIn(s) = {}
    BY <1>1, <1>8 DEF ObjectOK
  <2>2. FreshIn(Tail(s)) = {}
    BY <1>4, <2>1, TailNews
  <2>3. Asked(c)' = {}
    BY <1>3, <1>8, NoCalls
  <2> QED
    BY <1>4, <1>8, <2>2, <2>3, QuietText
<1>9. CASE /\ up /\ up' /\ life' = life /\ inbox' = Popped(c) /\ Alive(c)'
           /\ proxy'[c] = [life |-> life, query |-> Head(inbox[c]).query]
           /\ UNCHANGED <<known, queries, strayed>>
  <2>1. inbox'[c] = Tail(s) /\ proxy'[c].query = s[1].query
    BY <1>4, <1>9
  <2> HIDE DEF s
  <2>2. /\ \A i \in DOMAIN Tail(s) : i \in FreshIn(Tail(s)) <=> i + 1 \in FreshIn(s)
        /\ OwnersIn(Tail(s)) = {} <=> OwnersIn(s) = {}
        /\ OwnersIn(s) = {} => 1 \in FreshIn(s)
        /\ FreshIn(s) = {} => FreshIn(Tail(s)) = {}
    BY <1>4, TailNews
  <2>3. CASE OwnersIn(s) # {}
    <3>1. Mine(c) = {} /\ Asked(c) = {} /\ FreshIn(s) = {}
      BY <1>1, <1>5, <1>9, <2>3 DEF ObjectOK, s
    <3> QED
      BY <1>3, <2>1, <2>2, <2>3, <3>1, QuietText
  <2>4. CASE OwnersIn(s) = {}
    <3>1. 1 \in FreshIn(s)
      BY <2>2, <2>4
    <3>2. /\ \A i \in FreshIn(s) : i = 1
          /\ CallsOf(c) = {} /\ \A j \in HeardIn(s) : j <= 1
      BY <1>5, <3>1 DEF OneAtATime, s
    <3>3. FreshIn(Tail(s)) = {}
      <4> SUFFICES ASSUME NEW i \in FreshIn(Tail(s)) PROVE FALSE
        OBVIOUS
      <4>1. i \in DOMAIN Tail(s) /\ i \in Nat \ {0}
        BY <1>4, TailPositions DEF FreshIn
      <4>2. i + 1 = 1
        BY <2>2, <3>2, <4>1
      <4> QED
        BY ONLY <4>1, <4>2
    <3>4. HeardIn(Tail(s)) = {}
      <4> SUFFICES ASSUME NEW i \in HeardIn(Tail(s)) PROVE FALSE
        OBVIOUS
      <4>1. i \in Nat /\ i + 1 \in HeardIn(s)
        BY <1>4, HeardTaken
      <4>2. i + 1 <= 1 /\ i + 1 # 1
        <5>1. ~(Head(s).kind = "Heard")
          BY <1>4
        <5> QED
          BY <1>4, <3>2, <4>1, <5>1, HeardTaken
      <4> QED
        BY ONLY <4>1, <4>2
    <3>5. Asked(c)' = {} /\ CallsOf(c)' = {}
      BY <1>3, <3>2, AskedAreCalls
    <3>6. OneAtATime(c)'
      BY <2>1, <3>3, <3>4, <3>5 DEF OneAtATime
    <3>7. ASSUME c \in held' \ (unsent' \cup strayed') PROVE Current(c)'
      <4>1. Current(c)
        BY <1>1, <1>9, <3>7 DEF TextOK
      <4>2. queries[s[1].query].text = text[c]
        BY <3>1, <4>1 DEF Current, s
      <4>3. queries'[proxy'[c].query].text = text'[c]
        BY <1>1, <1>9, <2>1, <4>2
      <4> QED
        BY <2>1, <3>3, <3>4, <3>5, <4>3 DEF Current
    <3> QED
      BY <3>6, <3>7 DEF TextOK
  <2> QED
    BY <2>3, <2>4
<1> QED
  BY <1>1, <1>6, <1>7, <1>8, <1>9

LEMMA SetQueryText ==
  ASSUME BusOK, NEW c \in Clients, ObjectOK(c), TextOK(c), NEW t \in Texts, SetQuery(c, t)
  PROVE  TextOK(c)'
<1>1. TypeOK
  BY DEF BusOK
<1>2. /\ Ask(c) /\ text' = [text EXCEPT ![c] = t]
      /\ UNCHANGED <<life, up, calls, inbox, known, made, held, proxy, creating, leaked, failed>>
  BY DEF SetQuery
<1>3. c \in held /\ c \in made /\ Alive(c) /\ text'[c] = t /\ proxy[c] \in Proxies
  BY <1>1, <1>2, AskTypes DEF TypeOK, Alive
<1>4. CallsOf(c)' = CallsOf(c) /\ Asked(c)' = Asked(c)
  BY <1>2, AskedAreCalls
<1>5. OneAtATime(c)' /\ OneAtATime(c)
  BY <1>2, <1>3, <1>4 DEF TextOK, OneAtATime
<1>6. CASE proxy[c] # NoProxy
  <2>1. /\ queries' = IF Reached(proxy[c]) = 0 THEN queries ELSE [queries EXCEPT ![proxy[c].query].text = t]
        /\ unsent' = IF Listening(c) THEN unsent \cup {c} ELSE unsent \ {c}
    BY <1>6 DEF SetQuery
  <2>2. Asked(c)' = {} /\ FreshIn(inbox'[c]) = {}
    BY <1>2, <1>4, <1>5, <1>6 DEF OneAtATime
  <2>3. ASSUME up', c \notin unsent', OwnersIn(inbox'[c]) = {}, queries'[proxy'[c].query].open
        PROVE  HeardIn(inbox'[c]) = {} /\ queries'[proxy'[c].query].text = text'[c]
    <3>1. HeardIn(inbox[c]) = {}
      BY <2>1, <2>3 DEF Listening, HeardIn
    <3>2. up /\ proxy[c].life = life /\ proxy[c].query \in Mine(c)
      BY <1>2, <1>3, <1>6, <2>3 DEF ObjectOK
    <3>3. proxy[c].query \in DOMAIN queries /\ NameOwner = life
      BY <3>2 DEF Mine, NameOwner
    <3>4. proxy[c].query # 0
      BY <1>3, <1>6 DEF Proxies
    <3>5. CASE Reached(proxy[c]) = 0
      <4>1. queries' = queries
        BY <2>1, <3>5
      <4>2. ~queries[proxy[c].query].open
        BY <1>6, <3>2, <3>3, <3>4, <3>5 DEF Reached
      <4> QED
        BY <1>2, <2>3, <4>1, <4>2
    <3>6. CASE Reached(proxy[c]) # 0
      <4>1. queries' = WithText(queries, proxy[c].query, t)
        BY <2>1, <3>6 DEF WithText
      <4>2. queries \in Seq(Queries)
        BY <1>1 DEF TypeOK
      <4>3. queries'[proxy[c].query].text = t
        BY <3>3, <4>1, <4>2, TextReplaced
      <4> QED
        BY <1>2, <1>3, <3>1, <4>3
    <3> QED
      BY <3>5, <3>6
  <2>4. up' /\ c \notin unsent' => Current(c)'
    BY <2>2, <2>3 DEF Current
  <2> QED
    BY <1>5, <2>4 DEF TextOK
<1>7. CASE proxy[c] = NoProxy
  <2>1. unsent' = IF creating[c] > 0 THEN unsent \cup {c} ELSE unsent
    BY <1>7 DEF SetQuery
  <2>2. ASSUME c \notin unsent' PROVE Current(c)'
    <3>1. creating[c] \in Nat /\ ~(creating[c] > 0)
      BY <1>1, <2>1, <2>2 DEF TypeOK
    <3>2. creating[c] = 0
      BY <3>1
    <3>3. Asked(c) = {} /\ At(inbox[c], Answers) = {}
      BY <3>2, ReferencesKeep
    <3>4. FreshIn(inbox[c]) = {}
      <4>1. inbox[c] \in Seq(Messages)
        BY <1>1 DEF TypeOK
      <4>2. \A i \in DOMAIN inbox[c] : i \in 1..Len(inbox[c]) /\ inbox[c][i] \in Messages
        BY <4>1
      <4>3. \A i \in FreshIn(inbox[c]) : i \in At(inbox[c], Answers)
        BY <4>2 DEF FreshIn, At, Answers
      <4> QED
        BY <3>3, <4>3
    <3> QED
      BY <1>2, <1>4, <1>7, <3>3, <3>4 DEF Current
  <2> QED
    BY <1>5, <2>2 DEF TextOK
<1> QED
  BY <1>6, <1>7

LEMMA VoiceQueryText ==
  ASSUME BusOK, NEW c \in Clients, ObjectOK(c), TextOK(c), VoiceQuery(c)
  PROVE  TextOK(c)'
<1>1. TypeOK
  BY DEF BusOK
<1>2. /\ Ask(c) /\ proxy[c] # NoProxy
      /\ UNCHANGED <<serviceVars, known, objectVars, failed, histories>>
  BY DEF VoiceQuery
<1>3. Alive(c) /\ c \in made
  BY <1>1, <1>2, AskTypes DEF Alive
<1>4. OneAtATime(c) /\ (up /\ c \in held \ (unsent \cup strayed) => Current(c))
  BY <1>3 DEF TextOK
<1>5. Asked(c) = {} /\ FreshIn(inbox[c]) = {}
  BY <1>2, <1>4 DEF OneAtATime
<1>6. CASE proxy[c].life = NameOwner
  <2>1. calls' = Append(calls, VoiceCall(c)) /\ inbox' = inbox
    BY <1>6 DEF VoiceQuery
  <2>2. calls \in Seq(Calls)
    BY <1>1 DEF TypeOK
  <2>3. VoiceCall(c).method # "CreateQuery" /\ VoiceCall(c).by = proxy[c]
    BY <1>1, CallTypes
  <2>4. /\ Len(calls) \in Nat /\ DOMAIN calls = 1..Len(calls)
        /\ DOMAIN calls' = 1..(Len(calls) + 1)
        /\ \A i \in 1..Len(calls) : calls'[i] = calls[i]
        /\ calls'[Len(calls) + 1] = VoiceCall(c)
    BY <2>1, <2>2
  <2>5. DOMAIN calls' = DOMAIN calls \cup {Len(calls) + 1}
    BY <2>4
  <2> HIDE DEF VoiceCall
  <2>6. Asked(c)' = {}
    BY <1>5, <2>3, <2>4, <2>5 DEF Asked
  <2>7. \A i \in CallsOf(c)' : (i \in CallsOf(c) /\ calls'[i] = calls[i]) \/ calls'[i] = VoiceCall(c)
    BY <2>4, <2>5 DEF CallsOf
  <2>8. OneAtATime(c)'
    BY <1>2, <1>4, <1>5, <2>1, <2>3, <2>6, <2>7 DEF OneAtATime, objectVars, serviceVars
  <2>9. up' /\ c \in held' \ (unsent' \cup strayed') => Current(c)'
    BY <1>2, <1>4, <1>5, <2>1, <2>6 DEF Current, objectVars, serviceVars, histories
  <2> QED
    BY <2>8, <2>9 DEF TextOK
<1>7. CASE proxy[c].life # NameOwner
  <2>1. inbox'[c] = Append(inbox[c], NotHeard(proxy[c])) /\ calls' = calls
    BY <1>1, <1>7 DEF VoiceQuery, Answer, TypeOK
  <2>2. /\ NotHeard(proxy[c]) \in Messages /\ NotHeard(proxy[c]).kind # "Owner"
        /\ NotHeard(proxy[c]).kind # "Created" /\ inbox[c] \in Seq(Messages)
    BY <1>1, MessageTypes, MessageFields DEF TypeOK
  <2>3. /\ OwnersIn(Append(inbox[c], NotHeard(proxy[c]))) = OwnersIn(inbox[c])
        /\ FreshIn(Append(inbox[c], NotHeard(proxy[c])))
             = IF NotHeard(proxy[c]).kind = "Created" THEN FreshIn(inbox[c]) \cup {Len(inbox[c]) + 1}
                                                      ELSE FreshIn(inbox[c])
    BY <2>2, OtherAppended
  <2>4. Asked(c)' = {} /\ FreshIn(inbox'[c]) = {} /\ OwnersIn(inbox'[c]) = OwnersIn(inbox[c])
    BY <1>5, <2>1, <2>2, <2>3, AskedAreCalls
  <2>5. OwnersIn(inbox[c]) = {} => up /\ proxy[c].life = life
    BY <1>2, <1>3 DEF ObjectOK
  <2>6. OwnersIn(inbox'[c]) # {}
    BY <1>7, <2>4, <2>5 DEF NameOwner
  <2> QED
    BY <2>4, <2>6, QuietText
<1> QED
  BY <1>6, <1>7

LEMMA ExecuteCommandText ==
  ASSUME BusOK, NEW c \in Clients, ObjectOK(c), TextOK(c), ExecuteCommand(c)
  PROVE  TextOK(c)'
<1>1. CASE proxy[c] = NoProxy
  <2>1. ~Alive(c)'
    BY <1>1, FailObject DEF ExecuteCommand
  <2> QED
    BY <2>1 DEF TextOK
<1>2. CASE proxy[c] # NoProxy
  <2>1. /\ UNCHANGED <<queries, calls, inbox, known, made, held, proxy, creating, leaked, failed>>
        /\ UNCHANGED <<life, up, text, histories>>
    BY <1>2 DEF ExecuteCommand
  <2> QED
    BY <2>1 DEF histories, TextOK, OneAtATime, Current, Alive, Asked, CallsOf
<1> QED
  BY <1>1, <1>2

LEMMA DropText ==
  ASSUME BusOK, NEW c \in Clients, ObjectOK(c), TextOK(c), Drop(c)
  PROVE  TextOK(c)'
<1>1. /\ held' = held \ {c}
      /\ UNCHANGED <<life, up, calls, inbox, made, text, creating, leaked, asks, failed, unsent>>
  BY DEF Drop
<1>2. CASE creating[c] + leaked[c] = 0
  <2>1. ~Alive(c)'
    BY <1>1, <1>2 DEF Alive
  <2> QED
    BY <2>1 DEF TextOK
<1>3. CASE creating[c] + leaked[c] # 0
  <2>1. UNCHANGED <<queries, proxy, known, strayed>>
    BY <1>3 DEF Drop
  <2>2. c \in held
    BY DEF Drop
  <2>3. Alive(c)' => Alive(c)
    BY <1>1, <2>2 DEF Alive
  <2>4. CallsOf(c)' = CallsOf(c) /\ Asked(c)' = Asked(c)
    BY <1>1, AskedAreCalls
  <2>5. OneAtATime(c) => OneAtATime(c)'
    BY <1>1, <2>1, <2>4 DEF OneAtATime
  <2> QED
    BY <1>1, <2>3, <2>5 DEF TextOK
<1> QED
  BY <1>2, <1>3

LEMMA ServeCreateText ==
  ASSUME BusOK, Serve, NEW c \in Clients, c = Head(calls).client, ObjectOK(c), TextOK(c),
         Head(calls).method = "CreateQuery"
  PROVE  TextOK(c)'
<1>1. TypeOK
  BY DEF BusOK
<1>2. /\ calls # <<>> /\ calls' = Tail(calls) /\ up
      /\ UNCHANGED <<life, up, known, objectVars, asks, failed>>
  BY DEF Serve
<1>3. /\ queries' = Append(queries, [client |-> c, text |-> Head(calls).text, open |-> TRUE])
      /\ inbox' = [inbox EXCEPT ![c] = Append(@, Created(Len(queries')))]
      /\ UNCHANGED histories
  <2>1. HandleCreateQuery(c, Head(calls).text)
    BY DEF Serve
  <2> QED
    BY <2>1 DEF HandleCreateQuery, Answer
<1>4. /\ Head(calls) = calls[1] /\ 1 \in DOMAIN calls /\ Head(calls) \in Calls
      /\ \A i \in CallsOf(c)' : i \in Nat \ {0} /\ i + 1 \in CallsOf(c) /\ calls'[i] = calls[i + 1]
      /\ \A i \in Asked(c)' : i \in Nat \ {0} /\ i + 1 \in Asked(c)
  BY <1>1, <1>2, CallTaken
<1>5. 1 \in Asked(c)
  BY <1>4 DEF Asked
<1>6. Alive(c)' <=> Alive(c)
  BY <1>2 DEF objectVars, Alive
<1> SUFFICES ASSUME Alive(c)'
             PROVE  OneAtATime(c)' /\ (up' /\ c \in held' \ (unsent' \cup strayed') => Current(c)')
  BY DEF TextOK
<1>7. /\ FreshIn(inbox[c]) = {} /\ proxy[c] = NoProxy /\ OwnersIn(inbox[c]) = {}
      /\ \A j \in CallsOf(c) : j <= 1
  BY <1>5, <1>6 DEF TextOK, OneAtATime
<1>8. CallsOf(c)' = {}
  <2> SUFFICES ASSUME NEW i \in CallsOf(c)' PROVE FALSE
    OBVIOUS
  <2>1. i \in Nat \ {0} /\ i + 1 <= 1
    BY <1>4, <1>7
  <2> QED
    BY ONLY <2>1
<1>9. Asked(c)' = {}
  BY <1>8 DEF CallsOf, Asked
<1>10. queries'[Len(queries')].text = Head(calls).text /\ Len(queries') \in Nat \ {0}
  <2> DEFINE r == [client |-> c, text |-> Head(calls).text, open |-> TRUE]
  <2>1. queries' = Append(queries, r) /\ r.text = Head(calls).text /\ r \in Queries
    BY <1>3, <1>4, CallParts DEF Queries
  <2> HIDE DEF r
  <2>2. queries \in Seq(Queries)
    BY <1>1 DEF TypeOK
  <2>3. Len(queries') = Len(queries) + 1 /\ Len(queries) \in Nat /\ queries'[Len(queries) + 1] = r
    BY <2>1, <2>2
  <2> QED
    BY <2>1, <2>3
<1> DEFINE m == Created(Len(queries'))
<1>11. m \in Messages /\ m.kind = "Created" /\ m.query = Len(queries') /\ inbox[c] \in Seq(Messages)
  BY <1>1, <1>10, MessageTypes, MessageFields DEF TypeOK
<1>12. inbox'[c] = Append(inbox[c], m)
  BY <1>1, <1>3 DEF TypeOK
<1> HIDE DEF m
<1>13. /\ OwnersIn(Append(inbox[c], m)) = OwnersIn(inbox[c])
       /\ FreshIn(Append(inbox[c], m))
            = IF m.kind = "Created" THEN FreshIn(inbox[c]) \cup {Len(inbox[c]) + 1} ELSE FreshIn(inbox[c])
       /\ Append(inbox[c], m)[Len(inbox[c]) + 1] = m
  <2>1. m.kind # "Owner"
    BY <1>11
  <2> QED
    BY <1>11, <2>1, OtherAppended
<1>14. HeardIn(inbox'[c]) = HeardIn(inbox[c]) /\ \A j \in HeardIn(inbox[c]) : j <= Len(inbox[c]) + 1
  <2>1. /\ HeardIn(Append(inbox[c], m))
             = IF m.kind = "Heard" THEN HeardIn(inbox[c]) \cup {Len(inbox[c]) + 1} ELSE HeardIn(inbox[c])
        /\ \A i \in HeardIn(inbox[c]) : i \in 1..Len(inbox[c])
    BY <1>11, HeardAppended
  <2>2. Len(inbox[c]) \in Nat
    BY <1>11
  <2> QED
    BY <1>11, <1>12, <2>1, <2>2
<1>15. /\ FreshIn(inbox'[c]) = {Len(inbox[c]) + 1} /\ OwnersIn(inbox'[c]) = {}
       /\ inbox'[c][Len(inbox[c]) + 1] = m /\ proxy'[c] = NoProxy
  BY <1>2, <1>7, <1>11, <1>12, <1>13 DEF objectVars
<1>16. OneAtATime(c)'
  BY <1>8, <1>9, <1>14, <1>15 DEF OneAtATime
<1>17. ASSUME c \in held' \ (unsent' \cup strayed') PROVE Current(c)'
  <2>1. Current(c)
    BY <1>2, <1>3, <1>6, <1>17 DEF TextOK, objectVars, histories
  <2>2. Head(calls).text = text[c] /\ text' = text
    BY <1>2, <1>4, <1>5, <2>1 DEF Current, objectVars
  <2>3. \A i \in FreshIn(inbox'[c]) : queries'[inbox'[c][i].query].text = text'[c]
    BY <1>10, <1>11, <1>15, <2>2
  <2> QED
    BY <1>9, <1>15, <2>3 DEF Current
<1> QED
  BY <1>16, <1>17

LEMMA ServeVoiceText ==
  ASSUME BusOK, Serve, NEW c \in Clients, c = Head(calls).client, ObjectOK(c), TextOK(c),
         Head(calls).method # "CreateQuery"
  PROVE  TextOK(c)'
<1> DEFINE p == Head(calls).by
<1>1. TypeOK
  BY DEF BusOK
<1>2. /\ calls # <<>> /\ calls' = Tail(calls) /\ up
      /\ UNCHANGED <<life, up, known, objectVars, asks, failed>>
      /\ HandleVoiceQuery(c, p)
  BY DEF Serve
<1>3. /\ Head(calls) = calls[1] /\ 1 \in DOMAIN calls /\ Head(calls) \in Calls
      /\ \A i \in CallsOf(c)' : i \in Nat \ {0} /\ i + 1 \in CallsOf(c) /\ calls'[i] = calls[i + 1]
      /\ \A i \in Asked(c)' : i \in Nat \ {0} /\ i + 1 \in Asked(c)
  BY <1>1, <1>2, CallTaken
<1>4. 1 \in CallsOf(c) /\ p \in Proxies
  BY <1>3, CallParts DEF CallsOf
<1>5. Alive(c)' <=> Alive(c)
  BY <1>2 DEF objectVars, Alive
<1> SUFFICES ASSUME Alive(c)'
             PROVE  OneAtATime(c)' /\ (up' /\ c \in held' \ (unsent' \cup strayed') => Current(c)')
  BY DEF TextOK
<1>6. OneAtATime(c)
  BY <1>5 DEF TextOK
<1>7. FreshIn(inbox[c]) = {}
  BY <1>4, <1>6 DEF OneAtATime
<1>8. inbox[c] \in Seq(Messages) /\ queries \in Seq(Queries) /\ proxy' = proxy /\ text' = text /\ held' = held
  BY <1>1, <1>2 DEF TypeOK, objectVars
<1>9. PICK m \in Messages :
        /\ inbox'[c] = Append(inbox[c], m) /\ m.kind # "Owner" /\ m.kind # "Created"
        /\ \/ /\ Reached(p) # 0 /\ m.kind = "Heard"
              /\ queries' = WithText(queries, p.query, m.text) /\ m.text \in Texts
              /\ unsent' = unsent /\ strayed \subseteq strayed'
           \/ Reached(p) # 0 /\ c \in unsent'
           \/ Reached(p) = 0 /\ queries' = queries /\ unsent' = unsent /\ strayed' = strayed
  <2>1. CASE /\ Reached(p) # 0
             /\ \E t \in Texts : /\ queries' = [queries EXCEPT ![p.query].text = t]
                                 /\ Answer(c, Heard(p, t))
             /\ strayed' = strayed \cup Victim(c, p)
             /\ UNCHANGED unsent
    <3>1. PICK t \in Texts : /\ queries' = [queries EXCEPT ![p.query].text = t]
                             /\ Answer(c, Heard(p, t))
      BY <2>1
    <3>2. Heard(p, t) \in Messages /\ Heard(p, t).kind = "Heard" /\ Heard(p, t).text = t
      BY <1>4, MessageTypes, MessageFields
    <3>3. inbox'[c] = Append(inbox[c], Heard(p, t))
      BY <1>1, <3>1 DEF Answer, TypeOK
    <3>4. queries' = WithText(queries, p.query, t)
      BY <3>1 DEF WithText
    <3> HIDE DEF p
    <3> QED
      BY <2>1, <3>2, <3>3, <3>4
  <2>2. CASE /\ Reached(p) # 0
             /\ Answer(c, Heard(p, Empty))
             /\ unsent' = unsent \cup {c}
             /\ UNCHANGED <<queries, strayed>>
    <3>1. Heard(p, Empty) \in Messages /\ Heard(p, Empty).kind = "Heard"
      BY <1>4, MessageTypes, MessageFields, EmptyIsText
    <3>2. inbox'[c] = Append(inbox[c], Heard(p, Empty))
      BY <1>1, <2>2 DEF Answer, TypeOK
    <3> HIDE DEF p
    <3> QED
      BY <2>2, <3>1, <3>2
  <2>3. CASE /\ Reached(p) = 0
             /\ Answer(c, NotHeard(p))
             /\ UNCHANGED <<queries, histories>>
    <3>1. NotHeard(p) \in Messages /\ NotHeard(p).kind = "NotHeard"
      BY <1>4, MessageTypes, MessageFields
    <3>2. inbox'[c] = Append(inbox[c], NotHeard(p))
      BY <1>1, <2>3 DEF Answer, TypeOK
    <3> HIDE DEF p
    <3> QED
      BY <2>3, <3>1, <3>2 DEF histories
  <2> QED
    BY <1>2, <2>1, <2>2, <2>3 DEF HandleVoiceQuery
<1>10. OwnersIn(inbox'[c]) = OwnersIn(inbox[c]) /\ FreshIn(inbox'[c]) = {}
  <2>1. /\ OwnersIn(Append(inbox[c], m)) = OwnersIn(inbox[c])
        /\ FreshIn(Append(inbox[c], m))
             = IF m.kind = "Created" THEN FreshIn(inbox[c]) \cup {Len(inbox[c]) + 1} ELSE FreshIn(inbox[c])
    BY <1>8, <1>9, OtherAppended
  <2> QED
    BY <1>7, <1>9, <2>1
<1>11. OneAtATime(c)'
  <2>1. ASSUME NEW i \in Asked(c)', NEW j \in CallsOf(c)' PROVE j <= i
    <3>1. j + 1 <= i + 1 /\ i \in Nat \ {0} /\ j \in Nat \ {0}
      BY <1>3, <1>6, <2>1 DEF OneAtATime
    <3> QED
      BY ONLY <3>1
  <2>2. Asked(c)' # {} => proxy'[c] = NoProxy /\ OwnersIn(inbox'[c]) = {}
    BY <1>3, <1>6, <1>8, <1>10 DEF OneAtATime
  <2>3. (up' /\ proxy'[c] # NoProxy /\ OwnersIn(inbox'[c]) = {}) =>
           \A i \in CallsOf(c)' : calls'[i].by = proxy'[c]
    BY <1>2, <1>3, <1>6, <1>8, <1>10 DEF OneAtATime
  <2> QED
    BY <1>10, <2>1, <2>2, <2>3 DEF OneAtATime
<1>12. ASSUME c \in held' \ (unsent' \cup strayed') PROVE Current(c)'
  <2>1. c \in held \ (unsent \cup strayed)
    BY <1>8, <1>9, <1>12
  <2>2. Current(c)
    BY <1>2, <1>5, <2>1 DEF TextOK
  <2>3. \A i \in Asked(c)' : calls'[i].text = text'[c]
    <3>1. \A i \in Asked(c)' : i \in CallsOf(c)'
      BY DEF Asked, CallsOf
    <3> QED
      BY <1>3, <1>8, <2>2, <3>1 DEF Current
  <2>4. ASSUME proxy'[c] # NoProxy, OwnersIn(inbox'[c]) = {}, queries'[proxy'[c].query].open
        PROVE  /\ HeardIn(inbox'[c]) = {} => queries'[proxy'[c].query].text = text'[c]
               /\ \A i \in HeardIn(inbox'[c]) :
                    (\A j \in HeardIn(inbox'[c]) : j <= i) =>
                      queries'[proxy'[c].query].text = inbox'[c][i].text
    <3>1. p = proxy[c]
      BY <1>2, <1>3, <1>4, <1>6, <1>8, <1>10, <2>4 DEF OneAtATime
    <3>2. /\ proxy[c] # NoProxy /\ proxy[c].life = life /\ proxy[c].query \in Mine(c)
          /\ proxy[c] \in Proxies
      BY <1>4, <1>5, <1>8, <1>10, <2>4, <3>1 DEF ObjectOK
    <3>3. proxy[c].query \in DOMAIN queries /\ NameOwner = life /\ proxy[c].query # 0
      BY <1>2, <3>2 DEF Mine, NameOwner, Proxies
    <3>4. Reached(p) # 0
      <4>1. queries[proxy[c].query].open
        <5>1. Reached(p) = 0 => queries' = queries
          BY <1>9
        <5>2. CASE Reached(p) # 0
          BY <3>1, <5>2 DEF Reached
        <5>3. CASE Reached(p) = 0
          BY <1>8, <2>4, <5>1, <5>3
        <5> QED
          BY <5>2, <5>3
      <4> QED
        BY <3>1, <3>2, <3>3, <4>1 DEF Reached
    <3>5. /\ m.kind = "Heard" /\ m.text \in Texts
          /\ queries' = WithText(queries, proxy[c].query, m.text)
      BY <1>9, <1>12, <3>1, <3>4
    <3>6. queries'[proxy[c].query].text = m.text
      BY <1>8, <3>3, <3>5, TextReplaced
    <3>7. /\ HeardIn(inbox'[c]) = HeardIn(inbox[c]) \cup {Len(inbox[c]) + 1}
          /\ \A i \in HeardIn(inbox[c]) : ~(Len(inbox[c]) + 1 <= i)
          /\ inbox'[c][Len(inbox[c]) + 1] = m
      BY <1>8, <1>9, <3>5, HeardAppended
    <3> QED
      BY <1>8, <3>6, <3>7
  <2> QED
    BY <1>10, <2>3, <2>4 DEF Current
<1> QED
  BY <1>11, <1>12

LEMMA OwnText ==
  ASSUME BusOK, NEW c \in Clients, ObjectOK(c), TextOK(c), Handle(c) \/ Application(c)
  PROVE  TextOK(c)'
BY HandleOwnerText, HandleCreatedText, HandleNotCreatedText, HandleHeardText, NewText,
   SetQueryText, VoiceQueryText, ExecuteCommandText, DropText DEF Handle, Application

LEMMA InitTextsOK == Init => TextsOK
BY DEF Init, TextsOK, TextOK, Alive

LEMMA NextTextsOK == ASSUME BusOK, BusOK', ObjectsOK, TextsOK, [Next]_vars PROVE TextsOK'
<1> SUFFICES ASSUME NEW d \in Clients PROVE TextOK(d)'
  BY DEF TextsOK
<1>1. ObjectOK(d) /\ TextOK(d) /\ TypeOK /\ TypeOK'
  BY DEF ObjectsOK, TextsOK, BusOK
<1>2. CASE UNCHANGED vars
  BY <1>1, <1>2 DEF vars, serviceVars, objectVars, histories, TextOK, OneAtATime, Current, Asked,
     CallsOf, Alive
<1>3. CASE Start
  <2>1. Starts
    BY <1>3 DEF Start
  <2>2. StartedFor(d)
    BY <1>3, <2>1, StartsForAll
  <2> QED
    BY <1>1, <2>2, StartedText
<1>4. CASE Stop
  BY <1>1, <1>4, StoppedText
<1>5. CASE Serve
  <2>1. CASE Head(calls).client = d
    BY <1>1, <1>5, <2>1, ServeCreateText, ServeVoiceText
  <2>2. CASE Head(calls).client # d
    <3>1. Kept(d)
      BY <1>5, <2>2, ServeKeeps
    <3> QED
      BY <1>1, <3>1, KeptText
  <2> QED
    BY <2>1, <2>2
<1>6. ASSUME NEW c \in Clients, Handle(c) \/ Application(c) PROVE TextOK(d)'
  <2>1. CASE c = d
    BY <1>1, <1>6, <2>1, OwnText
  <2>2. CASE c # d
    <3>1. Kept(d) \/ StartedFor(d)
      BY <1>6, <2>2, OthersKept
    <3> QED
      BY <1>1, <3>1, KeptText, StartedText
  <2> QED
    BY <2>1, <2>2
<1> QED
  BY <1>2, <1>3, <1>4, <1>5, <1>6 DEF Next

LEMMA TextsAreServed == ASSUME BusOK, TextsOK PROVE QuietServiceHasTheText
<1> SUFFICES ASSUME up, NEW c \in held \ (unsent \cup strayed), inbox[c] = <<>>, Reached(proxy[c]) # 0
             PROVE  queries[proxy[c].query].text = text[c]
  BY DEF QuietServiceHasTheText
<1>1. c \in Clients /\ Alive(c)
  BY DEF BusOK, TypeOK, Alive
<1>2. Current(c)
  BY <1>1 DEF TextsOK, TextOK
<1>3. OwnersIn(inbox[c]) = {} /\ HeardIn(inbox[c]) = {}
  BY DEF OwnersIn, HeardIn
<1>4. proxy[c] # NoProxy /\ queries[proxy[c].query].open
  BY DEF Reached
<1> QED
  BY <1>2, <1>3, <1>4 DEF Current

\* When nothing is on its way, the service searches for the text the object has, but for
\* the texts that set_query replaced when there was no proxy and a query already asked
\* for, or that the service heard in between: the text travels in CreateQuery and
\* UpdateQuery, and comes back in the answers to VoiceQuery, in the order of the bus.
THEOREM TextsAgree == Spec => []QuietServiceHasTheText
<1>1. Init => BusOK /\ ObjectsOK /\ TextsOK
  BY InitBusOK, InitObjectsOK, InitTextsOK
<1>2. (BusOK /\ ObjectsOK /\ TextsOK) /\ [Next]_vars => (BusOK /\ ObjectsOK /\ TextsOK)'
  BY NextBusOK, NextObjectsOK, NextTextsOK
<1>3. BusOK /\ ObjectsOK /\ TextsOK => QuietServiceHasTheText
  BY TextsAreServed
<1> QED
  BY <1>1, <1>2, <1>3, PTL DEF Spec
=============================================================================
