----------------------------- MODULE DataLemmas ------------------------------
(***************************************************************************)
(* Facts about sequences and about the selections of Selection, on which   *)
(* the proofs about the components rest.                                   *)
(***************************************************************************)
EXTENDS Integers, FiniteSets, SequencesExt, Selection, FiniteSetTheorems, SequenceTheorems,
        WellFoundedInduction, TLAPS

\* Length and elements of a concatenation.
LEMMA ConcatElements ==
  ASSUME NEW S, NEW s \in Seq(S), NEW t \in Seq(S)
  PROVE  /\ s \o t \in Seq(S)
         /\ Len(s \o t) = Len(s) + Len(t)
         /\ \A i \in 1 .. Len(s) : (s \o t)[i] = s[i]
         /\ \A k \in 1 .. Len(t) : (s \o t)[Len(s) + k] = t[k]
  <1>1. /\ s \o t \in Seq(S)
        /\ Len(s \o t) = Len(s) + Len(t)
        /\ \A i \in 1 .. Len(s) + Len(t) :
             (s \o t)[i] = IF i <= Len(s) THEN s[i] ELSE t[i - Len(s)]
    BY ConcatProperties
  <1> DEFINE u == s \o t
  <1> HIDE DEF u
  <1>2. ASSUME NEW k \in 1 .. Len(t)
        PROVE  u[Len(s) + k] = t[k]
    <2>1. Len(s) + k \in 1 .. Len(s) + Len(t) /\ ~(Len(s) + k <= Len(s)) /\ Len(s) + k - Len(s) = k
      OBVIOUS
    <2> QED
      BY <1>1, <2>1 DEF u
  <1>3. \A i \in 1 .. Len(s) : u[i] = s[i]
    BY <1>1 DEF u
  <1> QED
    BY <1>1, <1>2, <1>3 DEF u

\* Length and elements of a suffix.
LEMMA SuffixElements ==
  ASSUME NEW S, NEW s \in Seq(S), NEW i \in 1 .. Len(s) + 1
  PROVE  /\ SubSeq(s, i, Len(s)) \in Seq(S)
         /\ Len(SubSeq(s, i, Len(s))) = Len(s) - i + 1
         /\ \A j \in 1 .. Len(s) - i + 1 : SubSeq(s, i, Len(s))[j] = s[j + i - 1]
  OBVIOUS

\* A sequence over S is one over every superset of S.
LEMMA SeqOfMore ==
  ASSUME NEW S, NEW T, S \subseteq T, NEW s \in Seq(S)
  PROVE  s \in Seq(T)
  OBVIOUS

\* Removing position i keeps the other elements in their order.
LEMMA RemoveAtElements ==
  ASSUME NEW S, NEW s \in Seq(S), NEW i \in 1..Len(s)
  PROVE  /\ RemoveAt(s, i) \in Seq(S)
         /\ Len(RemoveAt(s, i)) = Len(s) - 1
         /\ \A j \in 1..Len(s) - 1 :
              RemoveAt(s, i)[j] = IF j < i THEN s[j] ELSE s[j + 1]
  <1>1. /\ SubSeq(s, 1, i - 1) \in Seq(S)
        /\ Len(SubSeq(s, 1, i - 1)) = i - 1
        /\ \A j \in 1..i - 1 : SubSeq(s, 1, i - 1)[j] = s[j]
    OBVIOUS
  <1>2. /\ SubSeq(s, i + 1, Len(s)) \in Seq(S)
        /\ Len(SubSeq(s, i + 1, Len(s))) = Len(s) - i
        /\ \A j \in 1..Len(s) - i : SubSeq(s, i + 1, Len(s))[j] = s[i + j]
    OBVIOUS
  <1>3. \A p, q \in Seq(S) :
          /\ p \o q \in Seq(S)
          /\ Len(p \o q) = Len(p) + Len(q)
          /\ \A j \in 1..Len(p) + Len(q) :
               (p \o q)[j] = IF j <= Len(p) THEN p[j] ELSE q[j - Len(p)]
    BY ConcatProperties
  <1> DEFINE p == SubSeq(s, 1, i - 1)
             q == SubSeq(s, i + 1, Len(s))
  <1>4. /\ p \in Seq(S) /\ Len(p) = i - 1 /\ \A j \in 1..i - 1 : p[j] = s[j]
        /\ q \in Seq(S) /\ Len(q) = Len(s) - i /\ \A j \in 1..Len(s) - i : q[j] = s[i + j]
    BY <1>1, <1>2
  <1>5. RemoveAt(s, i) = p \o q
    BY DEF RemoveAt
  <1> HIDE DEF p, q
  <1>6. /\ p \o q \in Seq(S)
        /\ Len(p \o q) = Len(p) + Len(q)
        /\ \A j \in 1..Len(p) + Len(q) :
               (p \o q)[j] = IF j <= Len(p) THEN p[j] ELSE q[j - Len(p)]
    BY <1>3, <1>4
  <1>7. ASSUME NEW j \in 1..Len(s) - 1
        PROVE  (p \o q)[j] = IF j < i THEN s[j] ELSE s[j + 1]
    <2>1. CASE j < i
      BY <1>4, <1>6, <2>1
    <2>2. CASE ~(j < i)
      <3>1. j - Len(p) \in 1..Len(s) - i
        BY <1>4, <2>2
      <3>2. q[j - Len(p)] = s[j + 1]
        BY <1>4, <3>1
      <3> QED BY <1>4, <1>6, <2>2, <3>2
    <2> QED BY <2>1, <2>2
  <1> QED
    BY <1>4, <1>5, <1>6, <1>7

\* Every nonempty set of numbers has a least one.  The induction over data that the proofs need
\* goes through this fact.
LEMMA LeastNumber ==
  ASSUME NEW T \in SUBSET Nat, T # {}
  PROVE  \E m \in T : \A k \in T : m <= k
  <1> DEFINE Below == {ss \in Nat \X Nat : ss[1] < ss[2]}
  <1>1. IsWellFoundedOn(Below, Nat)
    BY NatLessThanWellFounded DEF OpToRel
  <1>2. PICK x \in T : \A y \in T : <<y, x>> \notin Below
    BY <1>1, WFMin
  <1>3. \A y \in T : ~(y < x)
    BY <1>2
  <1> QED
    BY <1>3


\* The numbers of a finite set can be listed, the least first.
LEMMA Increasing ==
  ASSUME NEW n \in Nat, NEW T \in SUBSET Nat, IsFiniteSet(T), Cardinality(T) = n
  PROVE  \E s \in [1 .. n -> T] :
           /\ \A i, j \in 1 .. n : i < j => s[i] < s[j]
           /\ \A k \in T : \E i \in 1 .. n : s[i] = k
  <1> DEFINE Lists(s, m, U) ==
               /\ s \in [1 .. m -> U]
               /\ \A i, j \in 1 .. m : i < j => s[i] < s[j]
               /\ \A k \in U : \E i \in 1 .. m : s[i] = k
             Fails(m) == \E U \in SUBSET Nat :
                           IsFiniteSet(U) /\ Cardinality(U) = m /\ \A s : ~Lists(s, m, U)
             Bad == {m \in Nat : Fails(m)}
  <1>1. Bad = {}
    <2> SUFFICES ASSUME Bad # {} PROVE FALSE
      OBVIOUS
    <2>1. PICK m \in Bad : \A k \in Bad : m <= k
      <3>1. Bad \in SUBSET Nat
        OBVIOUS
      <3> HIDE DEF Bad
      <3> QED
        BY <3>1, LeastNumber
    <2>2. m \in Nat
      BY <2>1
    <2> HIDE DEF Lists
    <2>3. PICK U \in SUBSET Nat : IsFiniteSet(U) /\ Cardinality(U) = m /\ \A s : ~Lists(s, m, U)
      BY <2>1
    <2>4. U # {}
      <3> SUFFICES ASSUME U = {} PROVE FALSE
        OBVIOUS
      <3>1. m = 0
        BY <2>3, FS_EmptySet
      <3>2. Lists([i \in 1 .. 0 |-> 0], 0, {})
        BY DEF Lists
      <3> QED
        BY <2>3, <3>1, <3>2
    <2>5. PICK a \in U : \A k \in U : a <= k
      BY <2>4, LeastNumber
    <2> DEFINE V == U \ {a}
    <2>6. IsFiniteSet(V) /\ Cardinality(V) = m - 1 /\ m - 1 \in Nat /\ V \in SUBSET Nat
      <3>1. IsFiniteSet(V) /\ Cardinality(V) = Cardinality(U) - 1
        BY <2>3, <2>5, FS_RemoveElement
      <3>2. Cardinality(V) \in Nat
        BY <3>1, FS_CardinalityType
      <3> QED
        BY <2>3, <3>1, <3>2
    <2>7. m - 1 \notin Bad
      <3> HIDE DEF Bad
      <3> QED
        BY <2>1, <2>2, <2>6
    <2>8. PICK s : Lists(s, m - 1, V)
      BY <2>6, <2>7
    <2>9. /\ s \in [1 .. m - 1 -> V]
          /\ \A i, j \in 1 .. m - 1 : i < j => s[i] < s[j]
          /\ \A k \in V : \E i \in 1 .. m - 1 : s[i] = k
      BY <2>8 DEF Lists
    <2> DEFINE t == [i \in 1 .. m |-> IF i = 1 THEN a ELSE s[i - 1]]
    <2>10. \A i \in 1 .. m : i # 1 => i - 1 \in 1 .. m - 1 /\ s[i - 1] \in V
      BY <2>2, <2>9
    <2>11. t \in [1 .. m -> U]
      BY <2>5, <2>10
    <2>12. ASSUME NEW i \in 1 .. m, NEW j \in 1 .. m, i < j
           PROVE  t[i] < t[j]
      <3>1. j # 1 /\ t[j] = s[j - 1]
        BY <2>12
      <3>2. CASE i = 1
        <4>1. t[i] = a /\ t[j] \in U /\ t[j] # a
          BY <2>10, <3>1, <3>2
        <4> HIDE DEF t
        <4>2. a <= t[j] /\ a \in Nat /\ t[j] \in Nat
          BY <2>5, <4>1
        <4> QED
          BY <4>1, <4>2
      <3>3. CASE i # 1
        <4>1. i - 1 \in 1 .. m - 1 /\ j - 1 \in 1 .. m - 1 /\ i - 1 < j - 1
          BY <2>2, <2>12, <3>3
        <4>2. t[i] = s[i - 1]
          BY <3>3
        <4> QED
          BY <2>9, <3>1, <4>1, <4>2
      <3> QED
        BY <3>2, <3>3
    <2>13. ASSUME NEW k \in U
           PROVE  \E i \in 1 .. m : t[i] = k
      <3>1. CASE k = a
        <4>1. 1 \in 1 .. m /\ t[1] = a
          BY <2>2, <2>6
        <4> QED
          BY <3>1, <4>1
      <3>2. CASE k # a
        <4>1. PICK i \in 1 .. m - 1 : s[i] = k
          BY <2>9, <3>2
        <4>2. i + 1 \in 1 .. m /\ i + 1 # 1 /\ i + 1 - 1 = i
          BY <2>2, <4>1
        <4>3. t[i + 1] = k
          BY <4>1, <4>2
        <4> QED
          BY <4>2, <4>3
      <3> QED
        BY <3>1, <3>2
    <2>14. Lists(t, m, U)
      BY <2>11, <2>12, <2>13 DEF Lists
    <2> QED
      BY <2>3, <2>14
  <1>2. ~Fails(n)
    BY <1>1
  <1>3. PICK s : Lists(s, n, T)
    <2> HIDE DEF Lists
    <2> QED
      BY <1>2
  <1> QED
    BY <1>3

\* InOrder lists every number of the set once, the least first.
LEMMA SelectedInOrder ==
  ASSUME NEW n \in Nat, NEW ids \in SUBSET (1 .. n)
  PROVE  /\ IsFiniteSet(ids) /\ Cardinality(ids) \in Nat /\ Cardinality(ids) <= n
         /\ InOrder(ids) \in [1 .. Cardinality(ids) -> ids]
         /\ InOrder(ids) \in Seq(ids)
         /\ \A i, j \in 1 .. Cardinality(ids) : i < j => InOrder(ids)[i] < InOrder(ids)[j]
         /\ \A k \in ids : \E i \in 1 .. Cardinality(ids) : InOrder(ids)[i] = k
  <1> DEFINE c == Cardinality(ids)
  <1>0. IsFiniteSet(1 .. n) /\ Cardinality(1 .. n) = n
    BY FS_Interval
  <1>1. IsFiniteSet(ids) /\ c <= n
    BY <1>0, FS_Subset
  <1>2. c \in Nat
    BY <1>1, FS_CardinalityType
  <1>3. ids \in SUBSET Nat
    OBVIOUS
  <1>4. PICK s \in [1 .. c -> ids] :
          /\ \A i, j \in 1 .. c : i < j => s[i] < s[j]
          /\ \A k \in ids : \E i \in 1 .. c : s[i] = k
    BY <1>1, <1>2, <1>3, Increasing
  <1>5. /\ InOrder(ids) \in [1 .. c -> ids]
        /\ \A i, j \in 1 .. c : i < j => InOrder(ids)[i] < InOrder(ids)[j]
    BY <1>4 DEF InOrder
  <1> DEFINE o == InOrder(ids)
  <1>8. o \in [1 .. c -> ids] /\ \A i, j \in 1 .. c : i < j => o[i] < o[j]
    BY <1>5
  <1> HIDE DEF o
  <1>6. ASSUME NEW k \in ids
        PROVE  \E i \in 1 .. c : o[i] = k
    <2>1. ASSUME NEW i \in 1 .. c, NEW j \in 1 .. c, o[i] = o[j]
          PROVE  i = j
      <3>1. o[i] \in ids /\ o[j] \in ids
        BY <1>8
      <3>3. (i < j => o[i] < o[j]) /\ (j < i => o[j] < o[i])
        BY <1>8
      <3>4. o[i] \in Nat /\ o[j] \in Nat
        BY <1>3, <3>1
      <3>5. \A a, b \in Nat : a = b => ~(a < b) /\ ~(b < a)
        OBVIOUS
      <3>6. ~(o[i] < o[j]) /\ ~(o[j] < o[i])
        BY <2>1, <3>4, <3>5
      <3>2. ~(i < j) /\ ~(j < i)
        BY <3>3, <3>6
      <3> QED
        BY <1>2, <3>2
    <2>2. o \in Injection(1 .. c, ids)
      BY <1>8, <2>1 DEF Injection, IsInjective
    <2>3. IsFiniteSet(1 .. c) /\ Cardinality(1 .. c) = c
      BY <1>2, FS_Interval
    <2>4. o \in Surjection(1 .. c, ids)
      BY <1>1, <2>2, <2>3, FS_Injection
    <2> QED
      BY <2>4 DEF Surjection
  <1>7. o \in Seq(ids)
    BY <1>2, <1>5 DEF o
  <1> QED
    BY <1>1, <1>2, <1>5, <1>6, <1>7 DEF o

\* Select keeps the chosen elements, in their order.
LEMMA SelectElements ==
  ASSUME NEW T, NEW s \in Seq(T), NEW ids \in SUBSET (DOMAIN s)
  PROVE  /\ IsFiniteSet(ids) /\ Cardinality(ids) \in Nat /\ Cardinality(ids) <= Len(s)
         /\ Select(s, ids) \in Seq(T) /\ Len(Select(s, ids)) = Cardinality(ids)
         /\ InOrder(ids) \in [1 .. Cardinality(ids) -> ids]
         /\ \A k \in 1 .. Cardinality(ids) : Select(s, ids)[k] = s[InOrder(ids)[k]]
         /\ \A i, j \in 1 .. Cardinality(ids) : i < j => InOrder(ids)[i] < InOrder(ids)[j]
         /\ \A k \in ids : \E i \in 1 .. Cardinality(ids) : InOrder(ids)[i] = k
  <1>1. Len(s) \in Nat /\ ids \in SUBSET (1 .. Len(s))
    OBVIOUS
  <1>2. /\ IsFiniteSet(ids) /\ Cardinality(ids) \in Nat /\ Cardinality(ids) <= Len(s)
        /\ InOrder(ids) \in [1 .. Cardinality(ids) -> ids]
        /\ \A i, j \in 1 .. Cardinality(ids) : i < j => InOrder(ids)[i] < InOrder(ids)[j]
        /\ \A k \in ids : \E i \in 1 .. Cardinality(ids) : InOrder(ids)[i] = k
    BY <1>1, SelectedInOrder
  <1>3. \A k \in 1 .. Cardinality(ids) : s[InOrder(ids)[k]] \in T
    <2>1. \A k \in 1 .. Cardinality(ids) : InOrder(ids)[k] \in ids
      BY <1>2
    <2>2. \A i \in ids : s[i] \in T
      BY <1>1
    <2> QED
      BY <2>1, <2>2
  <1>4. Select(s, ids) \in Seq(T) /\ Len(Select(s, ids)) = Cardinality(ids)
    BY <1>2, <1>3 DEF Select
  <1>5. \A k \in 1 .. Cardinality(ids) : Select(s, ids)[k] = s[InOrder(ids)[k]]
    BY DEF Select
  <1> QED
    BY <1>2, <1>4, <1>5
==============================================================================
