--------------------------- MODULE OrderingProofs ---------------------------
(***************************************************************************)
(* What the operators of Ordering.tla return for any finite set and key.   *)
(***************************************************************************)
EXTENDS Ordering, FiniteSetTheorems, WellFoundedInduction, TLAPS

\* A set of natural numbers has a least one.
LEMMA LeastNat ==
    ASSUME NEW S \in SUBSET Nat, S # {}
    PROVE  \E m \in S : \A n \in S : m <= n
  <1> DEFINE R == {ss \in Nat \X Nat : ss[1] < ss[2]}
  <1>1. OpToRel(<, Nat) = R
    BY Zenon DEF OpToRel
  <1>2. IsWellFoundedOn(R, Nat)
    BY <1>1, NatLessThanWellFounded, Zenon
  <1>3. PICK m \in S : \A n \in S : <<n, m>> \notin R
    <2> HIDE DEF R
    <2>1. QED
      BY <1>2, WFMin
  <1>4. \A n \in S : ~(n < m)
    <2> SUFFICES ASSUME NEW n \in S, n < m
                 PROVE  FALSE
      OBVIOUS
    <2>1. <<n, m>> \in Nat \X Nat /\ <<n, m>>[1] = n /\ <<n, m>>[2] = m
      OBVIOUS
    <2>2. <<n, m>> \in R
      BY <2>1
    <2>3. QED
      BY <2>2, <1>3
  <1>5. QED
    BY <1>4

\* Induction over the natural numbers, the property given as a set.
LEMMA NatSetInduction ==
    ASSUME NEW P \in SUBSET Nat, 0 \in P, \A n \in Nat : n \in P => n + 1 \in P
    PROVE  P = Nat
  <1>1. SUFFICES ASSUME Nat \ P # {} PROVE FALSE
    OBVIOUS
  <1>2. PICK m \in Nat \ P : \A n \in Nat \ P : m <= n
    BY <1>1, LeastNat
  <1>3. m # 0 /\ m - 1 \in Nat /\ m - 1 \in P
    BY <1>2
  <1>4. QED
    BY <1>2, <1>3

\* The rows of a finite set can be listed by a key that tells them apart.
LEMMA OrderedSorts ==
    ASSUME NEW S, IsFiniteSet(S), NEW key, \A i \in S : key[i] \in Nat,
           \A i, j \in S : key[i] = key[j] => i = j
    PROVE  /\ Ordered(S, key) \in [1..Cardinality(S) -> S]
           /\ Sorts(Ordered(S, key), S, key)
  <1> DEFINE Sortable(T) == \E s \in [1..Cardinality(T) -> T] : Sorts(s, T, key)
             P == {n \in Nat : \A T \in SUBSET S : Cardinality(T) = n => Sortable(T)}
  <1>1. 0 \in P
    <2> SUFFICES ASSUME NEW T \in SUBSET S, Cardinality(T) = 0
                 PROVE  Sortable(T)
      OBVIOUS
    <2>1. T = {}
      BY FS_Subset, FS_EmptySet
    <2>2. <<>> \in [1..0 -> T] /\ Sorts(<<>>, T, key)
      BY <2>1 DEF Sorts, Range
    <2>3. QED
      BY <2>2
  <1>2. ASSUME NEW n \in Nat, n \in P
        PROVE  n + 1 \in P
    <2> SUFFICES ASSUME NEW T \in SUBSET S, Cardinality(T) = n + 1
                 PROVE  Sortable(T)
      OBVIOUS
    <2>1. IsFiniteSet(T) /\ T # {}
      BY FS_Subset, FS_EmptySet
    <2> DEFINE K == {key[i] : i \in T}
    <2>2. PICK k \in K : \A l \in K : k <= l
      <3>1. K \in SUBSET Nat /\ K # {}
        BY <2>1
      <3> HIDE DEF K
      <3>2. QED
        BY <3>1, LeastNat
    <2>3. PICK m \in T : key[m] = k
      BY <2>2
    <2>4. \A i \in T \ {m} : key[m] < key[i]
      BY <2>2, <2>3
    <2>5. Cardinality(T \ {m}) = n
      <3>1. Cardinality(T \ {m}) = Cardinality(T) - 1
        BY <2>1, <2>3, FS_RemoveElement
      <3>2. QED
        BY <3>1
    <2>6. PICK s \in [1..n -> T \ {m}] : Sorts(s, T \ {m}, key)
      BY <2>5, <1>2
    <2> DEFINE u == [i \in 1..n + 1 |-> IF i = 1 THEN m ELSE s[i - 1]]
    <2>7. u \in [1..n + 1 -> T]
      BY <2>6
    <2>8. Range(u) = T
      <3>1. Range(u) \subseteq T
        BY <2>7 DEF Range
      <3>2. ASSUME NEW x \in T
            PROVE  x \in Range(u)
        <4>1. CASE x = m
          BY <4>1, u[1] = m, 1 \in 1..n + 1 DEF Range
        <4>2. CASE x # m
          <5>1. PICK j \in 1..n : s[j] = x
            BY <4>2, <2>6 DEF Sorts, Range
          <5>2. j + 1 \in 1..n + 1 /\ u[j + 1] = x
            BY <5>1
          <5>3. QED
            BY <5>2 DEF Range
        <4>3. QED
          BY <4>1, <4>2
      <3>3. QED
        BY <3>1, <3>2
    <2>9. ASSUME NEW i \in 1..n + 1, NEW j \in 1..n + 1, i < j
          PROVE  key[u[i]] < key[u[j]]
      <3>1. j - 1 \in 1..n /\ u[j] = s[j - 1] /\ s[j - 1] \in T \ {m}
        BY <2>9, <2>6
      <3>2. CASE i = 1
        BY <3>1, <3>2, <2>4
      <3>3. CASE i # 1
        <4>1. i - 1 \in 1..n /\ u[i] = s[i - 1] /\ i - 1 < j - 1
          BY <3>3, <2>9
        <4>2. DOMAIN s = 1..n
          BY <2>6
        <4> HIDE DEF u
        <4>3. QED
          BY <4>1, <4>2, <3>1, <2>6 DEF Sorts
      <3>4. QED
        BY <3>2, <3>3
    <2>10. Sorts(u, T, key)
      BY <2>7, <2>8, <2>9 DEF Sorts
    <2> HIDE DEF u
    <2>11. QED
      BY <2>7, <2>10
  <1>3. P = Nat
    <2> HIDE DEF P
    <2>1. P \in SUBSET Nat
      BY DEF P
    <2>2. QED
      BY <1>1, <1>2, <2>1, NatSetInduction
  <1>4. Sortable(S)
    BY <1>3, FS_CardinalityType
  <1>5. QED
    BY <1>4 DEF Ordered
=============================================================================
