----------------------------- MODULE StreamLemmas -----------------------------
(***************************************************************************)
(* Facts about the elements that a sequence has of some kind, and about    *)
(* the concatenation of a sequence of sequences.  The proofs about the     *)
(* sessions rest on them.                                                  *)
(***************************************************************************)
EXTENDS DataLemmas

\* No element of s is in P.
None(s, P) == \A i \in DOMAIN s : s[i] \notin P

\* At most one element of s is in P.
Once(s, P) == \A i, j \in DOMAIN s : s[i] \in P /\ s[j] \in P => i = j

\* No element of Q stands behind one of P.
Behind(s, P, Q) == \A i, j \in DOMAIN s : i < j /\ s[i] \in P => s[j] \notin Q

\* What the tail of a sequence keeps, and what it has lost with the head.
LEMMA TailKeeps ==
  ASSUME NEW S, NEW s \in Seq(S), s # <<>>
  PROVE  /\ \A P : None(s, P) => None(Tail(s), P)
         /\ \A P : Once(s, P) => Once(Tail(s), P)
         /\ \A P : Once(s, P) /\ Head(s) \in P => None(Tail(s), P)
         /\ \A P, Q : Behind(s, P, Q) => Behind(Tail(s), P, Q)
         /\ \A P, Q : Behind(s, P, Q) /\ Head(s) \in P => None(Tail(s), Q)
         /\ \A P : Head(s) \notin P => (None(Tail(s), P) <=> None(s, P))
  <1> DEFINE u == Tail(s)
  <1>1. /\ u \in Seq(S) /\ Len(u) = Len(s) - 1 /\ Len(s) \in Nat /\ Len(s) > 0
        /\ \A i \in 1 .. Len(u) : u[i] = s[i + 1]
        /\ Head(s) = s[1]
    OBVIOUS
  <1>2. DOMAIN u = 1 .. Len(u) /\ DOMAIN s = 1 .. Len(s)
    OBVIOUS
  <1> HIDE DEF u
  <1>3. \A i \in DOMAIN u : i + 1 \in DOMAIN s /\ u[i] = s[i + 1] /\ 1 \in DOMAIN s /\ 1 < i + 1
    BY <1>1, <1>2
  <1>4. ASSUME NEW P, Once(s, P) PROVE Once(u, P)
    <2>1. ASSUME NEW i \in DOMAIN u, NEW j \in DOMAIN u, u[i] \in P, u[j] \in P PROVE i = j
      <3>1. i + 1 = j + 1
        BY <1>3, <1>4, <2>1 DEF Once
      <3> QED
        BY <1>1, <1>2, <3>1
    <2> QED
      BY <2>1 DEF Once
  <1>5. ASSUME NEW P, Once(s, P), Head(s) \in P PROVE None(u, P)
    <2>1. ASSUME NEW i \in DOMAIN u, u[i] \in P PROVE FALSE
      <3>1. i + 1 = 1
        BY <1>1, <1>3, <1>5, <2>1 DEF Once
      <3> QED
        BY <1>1, <1>2, <3>1
    <2> QED
      BY <2>1 DEF None
  <1>6. ASSUME NEW P, NEW Q, Behind(s, P, Q) PROVE Behind(u, P, Q)
    <2>1. ASSUME NEW i \in DOMAIN u, NEW j \in DOMAIN u, i < j, u[i] \in P PROVE u[j] \notin Q
      <3>1. i + 1 < j + 1
        BY <1>1, <1>2, <2>1
      <3> QED
        BY <1>3, <1>6, <2>1, <3>1 DEF Behind
    <2> QED
      BY <2>1 DEF Behind
  <1>7. ASSUME NEW P, NEW Q, Behind(s, P, Q), Head(s) \in P PROVE None(u, Q)
    <2>1. ASSUME NEW i \in DOMAIN u PROVE u[i] \notin Q
      BY <1>1, <1>3, <1>7, <2>1 DEF Behind
    <2> QED
      BY <2>1 DEF None
  <1>8. ASSUME NEW P PROVE None(s, P) => None(u, P)
    BY <1>3 DEF None
  <1>9. ASSUME NEW P, Head(s) \notin P, None(u, P) PROVE None(s, P)
    <2>1. ASSUME NEW i \in DOMAIN s, s[i] \in P PROVE FALSE
      <3>1. i # 1
        BY <1>1, <1>9, <2>1
      <3>2. i - 1 \in DOMAIN u /\ u[i - 1] = s[i]
        BY <1>1, <1>2, <3>1
      <3> QED
        BY <1>9, <2>1, <3>2 DEF None
    <2> QED
      BY <2>1 DEF None
  <1> QED
    BY <1>4, <1>5, <1>6, <1>7, <1>8, <1>9 DEF u

\* What an element at the end changes.
LEMMA AppendKeeps ==
  ASSUME NEW S, NEW s \in Seq(S), NEW x \in S
  PROVE  /\ \A P : None(Append(s, x), P) <=> None(s, P) /\ x \notin P
         /\ \A P : Once(s, P) /\ (x \notin P \/ None(s, P)) => Once(Append(s, x), P)
         /\ \A P, Q : Behind(s, P, Q) /\ (x \notin Q \/ None(s, P)) => Behind(Append(s, x), P, Q)
  <1> DEFINE u == Append(s, x)
  <1>1. /\ u \in Seq(S) /\ Len(u) = Len(s) + 1 /\ Len(s) \in Nat
        /\ \A i \in 1 .. Len(s) : u[i] = s[i]
        /\ u[Len(s) + 1] = x
    OBVIOUS
  <1>2. DOMAIN u = 1 .. Len(u) /\ DOMAIN s = 1 .. Len(s)
    OBVIOUS
  <1> HIDE DEF u
  <1>3. \A i \in DOMAIN u : \/ i \in DOMAIN s /\ u[i] = s[i]
                            \/ i = Len(s) + 1 /\ u[i] = x
    BY <1>1, <1>2
  <1>4. \A i \in DOMAIN s : i \in DOMAIN u /\ u[i] = s[i] /\ i < Len(s) + 1
    BY <1>1, <1>2
  <1>5. Len(s) + 1 \in DOMAIN u
    BY <1>1, <1>2
  <1>6. ASSUME NEW P PROVE None(u, P) <=> None(s, P) /\ x \notin P
    BY <1>1, <1>3, <1>4, <1>5 DEF None
  <1>7. ASSUME NEW P, Once(s, P), x \notin P \/ None(s, P) PROVE Once(u, P)
    BY <1>3, <1>7 DEF Once, None
  <1>8. ASSUME NEW P, NEW Q, Behind(s, P, Q), x \notin Q \/ None(s, P) PROVE Behind(u, P, Q)
    <2>1. ASSUME NEW i \in DOMAIN u, NEW j \in DOMAIN u, i < j, u[i] \in P PROVE u[j] \notin Q
      <3>1. i \in DOMAIN s /\ u[i] = s[i]
        BY <1>1, <1>2, <1>3, <2>1
      <3> QED
        BY <1>3, <1>8, <2>1, <3>1 DEF Behind, None
    <2> QED
      BY <2>1 DEF Behind
  <1> QED
    BY <1>6, <1>7, <1>8 DEF u

\* What a concatenation changes.
LEMMA ConcatKeeps ==
  ASSUME NEW S, NEW s \in Seq(S), NEW t \in Seq(S)
  PROVE  /\ \A P : None(s \o t, P) <=> None(s, P) /\ None(t, P)
         /\ \A P : Once(s, P) /\ Once(t, P) /\ (None(s, P) \/ None(t, P)) => Once(s \o t, P)
         /\ \A P, Q : Behind(s, P, Q) /\ None(t, Q) => Behind(s \o t, P, Q)
         /\ \A P, Q : Behind(s, P, Q) /\ Behind(t, P, Q) /\ None(s, P) => Behind(s \o t, P, Q)
  <1> DEFINE u == s \o t
  <1>1. /\ u \in Seq(S) /\ Len(u) = Len(s) + Len(t)
        /\ \A i \in 1 .. Len(s) : u[i] = s[i]
        /\ \A k \in 1 .. Len(t) : u[Len(s) + k] = t[k]
    BY ConcatElements
  <1>2. DOMAIN u = 1 .. Len(u) /\ DOMAIN s = 1 .. Len(s) /\ DOMAIN t = 1 .. Len(t)
        /\ Len(s) \in Nat /\ Len(t) \in Nat
    BY <1>1
  <1> HIDE DEF u
  <1>3. ASSUME NEW i \in DOMAIN u
        PROVE  \/ i \in DOMAIN s /\ u[i] = s[i]
               \/ i - Len(s) \in DOMAIN t /\ u[i] = t[i - Len(s)] /\ i > Len(s)
    <2>1. CASE i <= Len(s)
      BY <1>1, <1>2, <2>1
    <2>2. CASE ~(i <= Len(s))
      <3>1. i - Len(s) \in 1 .. Len(t) /\ Len(s) + (i - Len(s)) = i
        BY <1>1, <1>2, <2>2
      <3> QED
        BY <1>1, <1>2, <2>2, <3>1
    <2> QED
      BY <2>1, <2>2
  <1>4. \A i \in DOMAIN s : i \in DOMAIN u /\ u[i] = s[i]
    BY <1>1, <1>2
  <1>5. \A k \in DOMAIN t : Len(s) + k \in DOMAIN u /\ u[Len(s) + k] = t[k]
    BY <1>1, <1>2
  <1>6. ASSUME NEW P PROVE None(u, P) <=> None(s, P) /\ None(t, P)
    BY <1>3, <1>4, <1>5 DEF None
  <1>7. ASSUME NEW P, Once(s, P), Once(t, P), None(s, P) \/ None(t, P) PROVE Once(u, P)
    <2>1. ASSUME NEW i \in DOMAIN u, NEW j \in DOMAIN u, u[i] \in P, u[j] \in P PROVE i = j
      <3>1. CASE None(s, P)
        <4>1. /\ i - Len(s) \in DOMAIN t /\ t[i - Len(s)] \in P
              /\ j - Len(s) \in DOMAIN t /\ t[j - Len(s)] \in P
          BY <1>3, <2>1, <3>1 DEF None
        <4>2. i - Len(s) = j - Len(s)
          BY <1>7, <4>1 DEF Once
        <4> QED
          BY <1>1, <1>2, <4>2
      <3>2. CASE None(t, P)
        <4>1. i \in DOMAIN s /\ s[i] \in P /\ j \in DOMAIN s /\ s[j] \in P
          BY <1>3, <2>1, <3>2 DEF None
        <4> QED
          BY <1>7, <4>1 DEF Once
      <3> QED
        BY <1>7, <3>1, <3>2
    <2> QED
      BY <2>1 DEF Once
  <1>8. ASSUME NEW P, NEW Q, Behind(s, P, Q), None(t, Q) PROVE Behind(u, P, Q)
    <2>1. ASSUME NEW i \in DOMAIN u, NEW j \in DOMAIN u, i < j, u[i] \in P PROVE u[j] \notin Q
      <3>1. CASE j \in DOMAIN s /\ u[j] = s[j]
        <4>1. i \in DOMAIN s /\ u[i] = s[i]
          BY <1>1, <1>2, <2>1, <3>1
        <4> QED
          BY <1>8, <2>1, <3>1, <4>1 DEF Behind
      <3>2. CASE j - Len(s) \in DOMAIN t /\ u[j] = t[j - Len(s)]
        BY <1>8, <3>2 DEF None
      <3> QED
        BY <1>3, <3>1, <3>2
    <2> QED
      BY <2>1 DEF Behind
  <1>9. ASSUME NEW P, NEW Q, Behind(t, P, Q), None(s, P) PROVE Behind(u, P, Q)
    <2>1. ASSUME NEW i \in DOMAIN u, NEW j \in DOMAIN u, i < j, u[i] \in P PROVE u[j] \notin Q
      <3>1. i - Len(s) \in DOMAIN t /\ u[i] = t[i - Len(s)] /\ i > Len(s)
        BY <1>3, <1>9, <2>1 DEF None
      <3>2. j - Len(s) \in DOMAIN t /\ u[j] = t[j - Len(s)]
        BY <1>1, <1>2, <1>3, <2>1, <3>1
      <3>3. i - Len(s) < j - Len(s)
        BY <1>1, <1>2, <2>1
      <3> QED
        BY <1>9, <2>1, <3>1, <3>2, <3>3 DEF Behind
    <2> QED
      BY <2>1 DEF Behind
  <1> QED
    BY <1>6, <1>7, <1>8, <1>9 DEF u

\* What a removal changes.
LEMMA RemoveAtKeeps ==
  ASSUME NEW S, NEW s \in Seq(S), NEW k \in DOMAIN s
  PROVE  /\ RemoveAt(s, k) \in Seq(S)
         /\ \A P : None(s, P) => None(RemoveAt(s, k), P)
         /\ \A P : Once(s, P) => Once(RemoveAt(s, k), P)
         /\ \A P : Once(s, P) /\ s[k] \in P => None(RemoveAt(s, k), P)
         /\ \A P : s[k] \notin P => (None(RemoveAt(s, k), P) <=> None(s, P))
  <1> DEFINE u == RemoveAt(s, k)
  <1>0. k \in 1 .. Len(s) /\ DOMAIN s = 1 .. Len(s) /\ Len(s) \in Nat
    OBVIOUS
  <1>1. /\ u \in Seq(S) /\ Len(u) = Len(s) - 1
        /\ \A j \in 1 .. Len(s) - 1 : u[j] = IF j < k THEN s[j] ELSE s[j + 1]
    BY <1>0, RemoveAtElements
  <1>2. DOMAIN u = 1 .. Len(s) - 1
    BY <1>0, <1>1
  <1> HIDE DEF u
  <1> DEFINE at(j) == IF j < k THEN j ELSE j + 1
  <1>3. ASSUME NEW j \in DOMAIN u PROVE at(j) \in DOMAIN s /\ at(j) # k /\ u[j] = s[at(j)]
    BY <1>0, <1>1, <1>2
  <1>4. ASSUME NEW i \in DOMAIN u, NEW j \in DOMAIN u, at(i) = at(j) PROVE i = j
    BY <1>0, <1>2, <1>4
  <1>5. ASSUME NEW i \in DOMAIN s, i # k PROVE \E j \in DOMAIN u : at(j) = i
    <2>1. CASE i < k
      BY <1>0, <1>2, <1>5, <2>1
    <2>2. CASE ~(i < k)
      <3>1. i - 1 \in DOMAIN u /\ at(i - 1) = i
        BY <1>0, <1>2, <1>5, <2>2
      <3> QED
        BY <3>1
    <2> QED
      BY <2>1, <2>2
  <1> HIDE DEF at
  <1>6. ASSUME NEW P, None(s, P) PROVE None(u, P)
    BY <1>3, <1>6 DEF None
  <1>7. ASSUME NEW P, Once(s, P) PROVE Once(u, P)
    BY <1>3, <1>4, <1>7 DEF Once
  <1>8. ASSUME NEW P, Once(s, P), s[k] \in P PROVE None(u, P)
    BY <1>0, <1>3, <1>8 DEF Once, None
  <1>9. ASSUME NEW P, s[k] \notin P, None(u, P) PROVE None(s, P)
    BY <1>3, <1>5, <1>9 DEF None
  <1> QED
    BY <1>1, <1>6, <1>7, <1>8, <1>9 DEF u

\* What a selection of the elements in K, or of the elements that are not in K, has of P.
LEMMA SelectKeeps ==
  ASSUME NEW S, NEW s \in Seq(S), NEW ids \in SUBSET (DOMAIN s)
  PROVE  /\ \A P : None(s, P) => None(Select(s, ids), P)
         /\ \A P : Once(s, P) => Once(Select(s, ids), P)
         /\ \A P : (\A i \in ids : s[i] \notin P) => None(Select(s, ids), P)
         /\ \A P, i : Once(s, P) /\ i \in DOMAIN s /\ s[i] \in P /\ i \notin ids
                        => None(Select(s, ids), P)
         /\ \A P, i : i \in ids /\ s[i] \in P => ~None(Select(s, ids), P)
  <1> DEFINE u == Select(s, ids)
             o == InOrder(ids)
             c == Cardinality(ids)
  <1>1. /\ c \in Nat /\ u \in Seq(S) /\ Len(u) = c /\ o \in [1 .. c -> ids]
        /\ \A k \in 1 .. c : u[k] = s[o[k]]
        /\ \A i, j \in 1 .. c : i < j => o[i] < o[j]
        /\ \A k \in ids : \E i \in 1 .. c : o[i] = k
    BY SelectElements
  <1>2. DOMAIN u = 1 .. c
    BY <1>1
  <1>0. \A i \in ids : i \in DOMAIN s /\ i \in Nat
    OBVIOUS
  <1> HIDE DEF u, o, c
  <1>3. \A k \in DOMAIN u : o[k] \in ids /\ o[k] \in DOMAIN s /\ o[k] \in Nat /\ u[k] = s[o[k]]
    BY <1>0, <1>1, <1>2
  <1>4. ASSUME NEW i \in DOMAIN u, NEW j \in DOMAIN u, o[i] = o[j] PROVE i = j
    <2>1. ~(o[i] < o[j]) /\ ~(o[j] < o[i])
      BY <1>3, <1>4
    <2>2. ~(i < j) /\ ~(j < i)
      BY <1>1, <1>2, <2>1
    <2> QED
      BY <1>1, <1>2, <2>2
  <1>5. ASSUME NEW P, None(s, P) PROVE None(u, P)
    BY <1>3, <1>5 DEF None
  <1>6. ASSUME NEW P, Once(s, P) PROVE Once(u, P)
    BY <1>3, <1>4, <1>6 DEF Once
  <1>7. ASSUME NEW P, \A i \in ids : s[i] \notin P PROVE None(u, P)
    BY <1>3, <1>7 DEF None
  <1>8. ASSUME NEW P, NEW i, Once(s, P), i \in DOMAIN s, s[i] \in P, i \notin ids PROVE None(u, P)
    BY <1>3, <1>8 DEF Once, None
  <1>9. ASSUME NEW P, NEW i, i \in ids, s[i] \in P PROVE ~None(u, P)
    <2>1. PICK j \in 1 .. c : o[j] = i
      BY <1>1, <1>9
    <2>2. j \in DOMAIN u /\ u[j] = s[i]
      BY <1>1, <1>2, <2>1
    <2> QED
      BY <1>9, <2>2 DEF None
  <1> QED
    BY <1>5, <1>6, <1>7, <1>8, <1>9 DEF u

\* The k-th element of g is the concatenation of the first k sequences of b, for k up to m.
Joins(b, g, m) == \A k \in 1 .. m : g[k] = IF k = 1 THEN b[1] ELSE g[k - 1] \o b[k]

\* What has been joined is a sequence of the same elements.
LEMMA JoinsAreSequences ==
  ASSUME NEW T, NEW b \in Seq(Seq(T)), NEW g, NEW m \in 0 .. Len(b), Joins(b, g, m)
  PROVE  \A k \in 1 .. m : g[k] \in Seq(T)
  <1> DEFINE Bad == {k \in 1 .. m : g[k] \notin Seq(T)}
  <1>0. m \in Nat /\ Len(b) \in Nat /\ m <= Len(b)
    OBVIOUS
  <1> SUFFICES ASSUME Bad # {} PROVE FALSE
    OBVIOUS
  <1>1. PICK k \in Bad : \A j \in Bad : k <= j
    <2>1. Bad \in SUBSET Nat
      BY <1>0
    <2> HIDE DEF Bad
    <2> QED
      BY <2>1, LeastNumber
  <1>2. k \in 1 .. m /\ g[k] \notin Seq(T)
    BY <1>1
  <1>3. b[k] \in Seq(T) /\ b[1] \in Seq(T)
    BY <1>0, <1>2
  <1>4. k # 1 /\ g[k] = g[k - 1] \o b[k]
    BY <1>2, <1>3 DEF Joins
  <1>5. k - 1 \in 1 .. m /\ ~(k <= k - 1)
    BY <1>0, <1>2, <1>4
  <1>6. k - 1 \notin Bad
    <2> HIDE DEF Bad
    <2> QED
      BY <1>1, <1>5
  <1>7. g[k - 1] \in Seq(T)
    BY <1>5, <1>6
  <1>8. g[k - 1] \o b[k] \in Seq(T)
    BY <1>3, <1>7, ConcatElements
  <1> QED
    BY <1>2, <1>4, <1>8

\* The function by which FlattenSeq is defined exists.
LEMMA JoinsExist ==
  ASSUME NEW T, NEW b \in Seq(Seq(T))
  PROVE  \E g : g = [k \in 1 .. Len(b) |-> IF k = 1 THEN b[1] ELSE g[k - 1] \o b[k]]
  <1> DEFINE Upto(g, m) == g = [k \in 1 .. m |-> IF k = 1 THEN b[1] ELSE g[k - 1] \o b[k]]
             Bad == {m \in Nat : m <= Len(b) /\ ~ \E g : Upto(g, m)}
  <1>0. Len(b) \in Nat
    OBVIOUS
  <1>1. Bad = {}
    <2> SUFFICES ASSUME Bad # {} PROVE FALSE
      OBVIOUS
    <2>1. PICK m \in Bad : \A k \in Bad : m <= k
      <3>1. Bad \in SUBSET Nat
        OBVIOUS
      <3> HIDE DEF Bad
      <3> QED
        BY <3>1, LeastNumber
    <2>2. m \in Nat /\ m <= Len(b) /\ ~ \E g : Upto(g, m)
      BY <2>1
    <2>3. m # 0
      <3>1. Upto([k \in 1 .. 0 |-> <<>>], 0)
        OBVIOUS
      <3> QED
        BY <2>2, <3>1
    <2>4. m - 1 \in Nat /\ m - 1 <= Len(b) /\ ~(m <= m - 1)
      BY <1>0, <2>2, <2>3
    <2>5. m - 1 \notin Bad
      <3> HIDE DEF Bad
      <3> QED
        BY <2>1, <2>4
    <2>6. PICK g : Upto(g, m - 1)
      BY <2>4, <2>5
    <2> DEFINE h == [k \in 1 .. m |-> IF k = 1 THEN b[1] ELSE g[k - 1] \o b[k]]
    <2>7. \A k \in 1 .. m - 1 : g[k] = IF k = 1 THEN b[1] ELSE g[k - 1] \o b[k]
      BY <2>6
    <2>8. \A k \in 1 .. m : k # 1 => k - 1 \in 1 .. m - 1
      BY <2>2, <2>3
    <2>9. \A k \in 1 .. m : k # 1 => h[k - 1] = g[k - 1]
      <3>1. \A k \in 1 .. m - 1 : h[k] = g[k]
        BY <2>2, <2>7
      <3> HIDE DEF h
      <3> QED
        BY <2>8, <3>1
    <2>10. \A k \in 1 .. m : h[k] = IF k = 1 THEN b[1] ELSE h[k - 1] \o b[k]
      <3>1. \A k \in 1 .. m : h[k] = IF k = 1 THEN b[1] ELSE g[k - 1] \o b[k]
        OBVIOUS
      <3> HIDE DEF h
      <3> QED
        BY <2>9, <3>1
    <2>11. Upto(h, m)
      <3> DEFINE e(k) == IF k = 1 THEN b[1] ELSE g[k - 1] \o b[k]
                 d(k) == IF k = 1 THEN b[1] ELSE h[k - 1] \o b[k]
      <3>1. \A k \in 1 .. m : e(k) = d(k)
        BY <2>9
      <3>2. [k \in 1 .. m |-> e(k)] = [k \in 1 .. m |-> d(k)]
        <4> HIDE DEF e, d
        <4> QED
          BY <3>1
      <3> QED
        BY <3>2
    <2> QED
      BY <2>2, <2>11
  <1>2. Len(b) \notin Bad
    <2> HIDE DEF Bad
    <2> QED
      BY <1>1
  <1>3. \E g : Upto(g, Len(b))
    <2> HIDE DEF Upto
    <2> QED
      BY <1>0, <1>2
  <1> QED
    BY <1>3

\* FlattenSeq is the last of the joins.
LEMMA FlattenIsLast ==
  ASSUME NEW T, NEW b \in Seq(Seq(T)), b # <<>>
  PROVE  \E g : Joins(b, g, Len(b)) /\ FlattenSeq(b) = g[Len(b)]
  <1> DEFINE n == Len(b)
             flatten == CHOOSE f : f = [i \in 1 .. n |-> IF i = 1 THEN b[i] ELSE f[i - 1] \o b[i]]
  <1>0. n \in Nat /\ n # 0
    OBVIOUS
  <1>1. \E g : g = [i \in 1 .. n |-> IF i = 1 THEN b[i] ELSE g[i - 1] \o b[i]]
    <2>1. PICK g : g = [k \in 1 .. n |-> IF k = 1 THEN b[1] ELSE g[k - 1] \o b[k]]
      BY JoinsExist
    <2>2. [k \in 1 .. n |-> IF k = 1 THEN b[1] ELSE g[k - 1] \o b[k]]
            = [i \in 1 .. n |-> IF i = 1 THEN b[i] ELSE g[i - 1] \o b[i]]
      OBVIOUS
    <2> QED
      BY <2>1, <2>2
  <1>2. flatten = [i \in 1 .. n |-> IF i = 1 THEN b[i] ELSE flatten[i - 1] \o b[i]]
    BY <1>1
  <1>3. FlattenSeq(b) = flatten[n]
    BY <1>0 DEF FlattenSeq
  <1> HIDE DEF flatten
  <1>4. Joins(b, flatten, n)
    BY <1>2 DEF Joins
  <1> QED
    BY <1>3, <1>4

\* There is one such sequence.
LEMMA JoinsAgree ==
  ASSUME NEW T, NEW b \in Seq(Seq(T)), NEW g, NEW h, NEW m \in 0 .. Len(b),
         Joins(b, g, m), Joins(b, h, m)
  PROVE  \A k \in 1 .. m : g[k] = h[k]
  <1> DEFINE Bad == {k \in 1 .. m : g[k] # h[k]}
  <1>0. m \in Nat
    OBVIOUS
  <1> SUFFICES ASSUME Bad # {} PROVE FALSE
    OBVIOUS
  <1>1. PICK k \in Bad : \A j \in Bad : k <= j
    <2>1. Bad \in SUBSET Nat
      BY <1>0
    <2> HIDE DEF Bad
    <2> QED
      BY <2>1, LeastNumber
  <1>2. k \in 1 .. m /\ g[k] # h[k]
    BY <1>1
  <1>3. k # 1
    BY <1>2 DEF Joins
  <1>4. k - 1 \in 1 .. m /\ ~(k <= k - 1)
    BY <1>0, <1>2, <1>3
  <1>5. k - 1 \notin Bad
    <2> HIDE DEF Bad
    <2> QED
      BY <1>1, <1>4
  <1>6. g[k - 1] = h[k - 1]
    BY <1>4, <1>5
  <1> QED
    BY <1>2, <1>3, <1>6 DEF Joins

\* The concatenation of no sequence, and of one.
LEMMA FlattenShort ==
  /\ FlattenSeq(<<>>) = <<>>
  /\ \A T : \A x \in Seq(T) : FlattenSeq(<<x>>) = x
  <1>1. FlattenSeq(<<>>) = <<>>
    BY DEF FlattenSeq
  <1>2. ASSUME NEW T, NEW x \in Seq(T) PROVE FlattenSeq(<<x>>) = x
    <2> DEFINE b == <<x>>
    <2>1. b \in Seq(Seq(T)) /\ b # <<>> /\ Len(b) = 1 /\ b[1] = x
      OBVIOUS
    <2> HIDE DEF b
    <2>2. PICK g : Joins(b, g, Len(b)) /\ FlattenSeq(b) = g[Len(b)]
      BY <2>1, FlattenIsLast
    <2>3. FlattenSeq(b) = x
      BY <2>1, <2>2 DEF Joins
    <2> QED
      BY <2>3 DEF b
  <1> QED
    BY <1>1, <1>2

\* A concatenation is a sequence of the same elements.
LEMMA FlattenType ==
  ASSUME NEW T, NEW b \in Seq(Seq(T))
  PROVE  FlattenSeq(b) \in Seq(T)
  <1>1. CASE b = <<>>
    BY <1>1, FlattenShort, EmptySeq
  <1>2. CASE b # <<>>
    <2>1. PICK g : Joins(b, g, Len(b)) /\ FlattenSeq(b) = g[Len(b)]
      BY <1>2, FlattenIsLast
    <2>2. Len(b) \in 0 .. Len(b) /\ Len(b) \in 1 .. Len(b)
      BY <1>2
    <2>3. \A k \in 1 .. Len(b) : g[k] \in Seq(T)
      BY <2>1, <2>2, JoinsAreSequences
    <2> QED
      BY <2>1, <2>2, <2>3
  <1> QED
    BY <1>1, <1>2

\* One more sequence.
LEMMA FlattenAppend ==
  ASSUME NEW T, NEW b \in Seq(Seq(T)), NEW x \in Seq(T)
  PROVE  FlattenSeq(Append(b, x)) = FlattenSeq(b) \o x
  <1>1. CASE b = <<>>
    <2>1. Append(b, x) = <<x>> /\ <<>> \o x = x
      BY <1>1
    <2> QED
      BY <1>1, <2>1, FlattenShort
  <1>2. CASE b # <<>>
    <2> DEFINE c == Append(b, x)
               n == Len(b)
    <2>1. /\ n \in Nat /\ n # 0 /\ Len(c) = n + 1 /\ c[n + 1] = x
          /\ \A k \in 1 .. n : c[k] = b[k]
          /\ c \in Seq(Seq(T)) /\ c # <<>>
      BY <1>2
    <2> HIDE DEF c
    <2>2. PICK g : Joins(b, g, n) /\ FlattenSeq(b) = g[n]
      BY <1>2, FlattenIsLast
    <2>3. PICK h : Joins(c, h, n + 1) /\ FlattenSeq(c) = h[n + 1]
      BY <2>1, FlattenIsLast
    <2>4. Joins(b, h, n)
      BY <2>1, <2>3 DEF Joins
    <2>5. n \in 0 .. Len(b) /\ n \in 1 .. n
      BY <2>1
    <2> HIDE DEF n
    <2>6. g[n] = h[n]
      BY <2>2, <2>4, <2>5, JoinsAgree
    <2>7. h[n + 1] = h[n] \o c[n + 1]
      <3> DEFINE m == n + 1
      <3>1. m \in 1 .. m /\ m # 1 /\ m - 1 = n
        BY <2>1
      <3>2. Joins(c, h, m)
        BY <2>3
      <3> HIDE DEF m
      <3>3. h[m] = h[m - 1] \o c[m]
        BY <3>1, <3>2 DEF Joins
      <3> QED
        BY <3>1, <3>3 DEF m
    <2> QED
      BY <2>1, <2>2, <2>3, <2>6, <2>7 DEF c
  <1> QED
    BY <1>1, <1>2

\* Concatenation is associative.
LEMMA Regrouped ==
  ASSUME NEW T, NEW x \in Seq(T), NEW y \in Seq(T), NEW z \in Seq(T)
  PROVE  (x \o y) \o z = x \o (y \o z)
  BY ConcatAssociative

\* The first sequence and the rest.
LEMMA FlattenHead ==
  ASSUME NEW T, NEW b \in Seq(Seq(T)), b # <<>>
  PROVE  FlattenSeq(b) = Head(b) \o FlattenSeq(Tail(b))
  <1> DEFINE n == Len(b)
             c == Tail(b)
             x == Head(b)
  <1>1. /\ n \in Nat /\ n # 0 /\ c \in Seq(Seq(T)) /\ Len(c) = n - 1 /\ x = b[1] /\ x \in Seq(T)
        /\ \A k \in 1 .. n - 1 : c[k] = b[k + 1]
    OBVIOUS
  <1> HIDE DEF c, x, n
  <1>2. PICK g : Joins(b, g, n) /\ FlattenSeq(b) = g[n]
    BY FlattenIsLast DEF n
  <1>3. g[1] = x
    BY <1>1, <1>2 DEF Joins
  <1>6. ASSUME NEW y \in Seq(T), NEW z \in Seq(T) PROVE (x \o y) \o z = x \o (y \o z)
    <2>1. x \in Seq(T)
      BY <1>1
    <2> QED
      BY ONLY <2>1, Regrouped, y \in Seq(T), z \in Seq(T)
  <1>4. CASE n = 1
    <2>1. c = <<>>
      BY <1>1, <1>4
    <2>2. x \o <<>> = x
      BY <1>1
    <2> QED
      BY <1>1, <1>2, <1>3, <1>4, <2>1, <2>2, FlattenShort DEF c, x
  <1>5. CASE n # 1
    <2>1. c # <<>>
      BY <1>1, <1>5
    <2>2. PICK h : Joins(c, h, n - 1) /\ FlattenSeq(c) = h[n - 1]
      BY <1>1, <2>1, FlattenIsLast
    <2>3. n - 1 \in 0 .. Len(c)
      BY <1>1
    <2>4. \A k \in 1 .. n - 1 : h[k] \in Seq(T)
      BY <1>1, <2>2, <2>3, JoinsAreSequences
    <2> DEFINE Bad == {k \in 1 .. n - 1 : g[k + 1] # x \o h[k]}
    <2>5. Bad = {}
      <3> SUFFICES ASSUME Bad # {} PROVE FALSE
        OBVIOUS
      <3>1. PICK k \in Bad : \A j \in Bad : k <= j
        <4>1. 1 .. n - 1 \in SUBSET Nat
          BY <1>1
        <4>2. Bad \in SUBSET Nat
          BY <4>1
        <4> HIDE DEF Bad
        <4> QED
          BY <4>2, LeastNumber
      <3>2. k \in 1 .. n - 1 /\ g[k + 1] # x \o h[k]
        BY <3>1
      <3>3. g[k + 1] = g[k] \o b[k + 1] /\ c[k] = b[k + 1]
        <4> DEFINE m == k + 1
        <4>1. m \in 1 .. n /\ m # 1 /\ m - 1 = k
          BY <1>1, <3>2
        <4> HIDE DEF m
        <4>2. g[m] = g[m - 1] \o b[m]
          BY <1>2, <4>1 DEF Joins
        <4>3. g[m] = g[k] \o b[m]
          BY <4>1, <4>2
        <4> QED
          BY <1>1, <3>2, <4>3 DEF m
      <3>4. CASE k = 1
        BY <1>3, <2>2, <3>2, <3>3, <3>4 DEF Joins
      <3>5. CASE k # 1
        <4>1. k - 1 \in 1 .. n - 1 /\ ~(k <= k - 1) /\ k - 1 + 1 = k
          BY <1>1, <3>2, <3>5
        <4>2. k - 1 \notin Bad
          <5> HIDE DEF Bad
          <5> QED
            BY <3>1, <4>1
        <4>3. g[k] = x \o h[k - 1]
          BY <4>1, <4>2
        <4>4. h[k] = h[k - 1] \o c[k]
          BY <2>2, <3>2, <3>5 DEF Joins
        <4>5. c[k] \in Seq(T) /\ h[k - 1] \in Seq(T)
          BY <1>1, <2>4, <3>2, <4>1
        <4>6. (x \o h[k - 1]) \o c[k] = x \o (h[k - 1] \o c[k])
          BY <1>6, <4>5
        <4> QED
          BY <3>2, <3>3, <4>3, <4>4, <4>6
      <3> QED
        BY <3>4, <3>5
    <2>6. n - 1 \in 1 .. n - 1 /\ n - 1 + 1 = n
      BY <1>1, <1>5
    <2>7. g[n] = x \o h[n - 1]
      <3>1. n - 1 \notin Bad
        <4> HIDE DEF Bad
        <4> QED
          BY <2>5
      <3> QED
        BY <2>6, <3>1
    <2> QED
      BY <1>2, <2>2, <2>7 DEF c, x
  <1> QED
    BY <1>4, <1>5

\* An element added to the last sequence.
LEMMA FlattenExtend ==
  ASSUME NEW T, NEW b \in Seq(Seq(T)), b # <<>>, NEW e \in T
  PROVE  FlattenSeq([b EXCEPT ![Len(b)] = Append(@, e)]) = Append(FlattenSeq(b), e)
  <1> DEFINE n == Len(b)
             c == [b EXCEPT ![n] = Append(@, e)]
  <1>1. /\ n \in Nat /\ n # 0 /\ n \in 1 .. n /\ n \in 0 .. n /\ n - 1 \in 0 .. n /\ b[n] \in Seq(T)
    OBVIOUS
  <1>2. /\ c \in Seq(Seq(T)) /\ Len(c) = n /\ c[n] = Append(b[n], e) /\ c # <<>>
        /\ \A k \in 1 .. n - 1 : c[k] = b[k]
    BY <1>1
  <1> HIDE DEF c
  <1>3. PICK g : Joins(b, g, n) /\ FlattenSeq(b) = g[n]
    BY FlattenIsLast
  <1>4. PICK h : Joins(c, h, n) /\ FlattenSeq(c) = h[n]
    BY <1>2, FlattenIsLast
  <1> HIDE DEF n
  <1>5. CASE n = 1
    <2>1. g[1] = b[1] /\ h[1] = c[1]
      BY <1>1, <1>3, <1>4 DEF Joins
    <2> QED
      BY <1>2, <1>3, <1>4, <1>5, <2>1 DEF c, n
  <1>6. CASE n # 1
    <2>1. Joins(b, g, n - 1) /\ Joins(b, h, n - 1)
      <3>1. \A k \in 1 .. n - 1 : k \in 1 .. n /\ c[1] = b[1] /\ c[k] = b[k]
        BY <1>1, <1>2, <1>6
      <3> QED
        BY <1>3, <1>4, <3>1 DEF Joins
    <2>2. n - 1 \in 1 .. n - 1
      BY <1>1, <1>6
    <2>3. g[n - 1] = h[n - 1]
      <3> DEFINE m == n - 1
      <3>1. Joins(b, g, m) /\ Joins(b, h, m) /\ m \in 1 .. m /\ m \in 0 .. Len(b)
        BY <1>1, <2>1, <2>2 DEF n
      <3> HIDE DEF m
      <3>2. g[m] = h[m]
        BY ONLY <3>1, b \in Seq(Seq(T)), JoinsAgree
      <3> QED
        BY <3>2 DEF m
    <2>4. g[n - 1] \in Seq(T)
      BY <1>1, <2>1, <2>2, JoinsAreSequences DEF n
    <2>5. g[n] = g[n - 1] \o b[n] /\ h[n] = h[n - 1] \o c[n]
      BY <1>1, <1>3, <1>4, <1>6 DEF Joins
    <2>6. g[n - 1] \o Append(b[n], e) = Append(g[n - 1] \o b[n], e)
      <3> DEFINE u == g[n - 1]
                 v == b[n]
      <3>1. u \in Seq(T) /\ v \in Seq(T) /\ <<e>> \in Seq(T) /\ u \o v \in Seq(T)
        BY <1>1, <2>4
      <3> HIDE DEF u, v
      <3>2. \A w \in Seq(T) : Append(w, e) = w \o <<e>>
        BY AppendIsConcat
      <3>3. (u \o v) \o <<e>> = u \o (v \o <<e>>)
        BY <3>1, ConcatAssociative
      <3> QED
        BY <3>1, <3>2, <3>3 DEF u, v
    <2> QED
      BY <1>2, <1>3, <1>4, <2>3, <2>5, <2>6 DEF c, n
  <1> QED
    BY <1>5, <1>6

\* As many elements as sequences, when each of them has one.
LEMMA FlattenSingles ==
  ASSUME NEW T, NEW b \in Seq(Seq(T)), \A i \in 1 .. Len(b) : Len(b[i]) = 1
  PROVE  Len(FlattenSeq(b)) = Len(b)
  <1> DEFINE n == Len(b)
  <1>1. CASE b = <<>>
    BY <1>1, FlattenShort
  <1>2. CASE b # <<>>
    <2>1. PICK g : Joins(b, g, n) /\ FlattenSeq(b) = g[n]
      BY <1>2, FlattenIsLast
    <2>2. n \in Nat /\ n # 0 /\ n \in 0 .. Len(b) /\ n \in 1 .. n
      BY <1>2
    <2>3. \A k \in 1 .. n : b[k] \in Seq(T)
      OBVIOUS
    <2> HIDE DEF n
    <2>4. \A k \in 1 .. n : g[k] \in Seq(T)
      BY <2>1, <2>2, JoinsAreSequences
    <2> DEFINE Bad == {k \in 1 .. n : Len(g[k]) # k}
    <2>5. Bad = {}
      <3> SUFFICES ASSUME Bad # {} PROVE FALSE
        OBVIOUS
      <3>1. PICK k \in Bad : \A j \in Bad : k <= j
        <4>1. Bad \in SUBSET Nat
          BY <2>2
        <4> HIDE DEF Bad
        <4> QED
          BY <4>1, LeastNumber
      <3>2. k \in 1 .. n /\ Len(g[k]) # k
        BY <3>1
      <3>3. k # 1
        BY <2>1, <2>2, <3>2 DEF Joins, n
      <3>4. k - 1 \in 1 .. n /\ ~(k <= k - 1)
        BY <2>2, <3>2, <3>3
      <3>5. k - 1 \notin Bad
        <4> HIDE DEF Bad
        <4> QED
          BY <3>1, <3>4
      <3>6. Len(g[k - 1]) = k - 1
        BY <3>4, <3>5
      <3>7. g[k] = g[k - 1] \o b[k]
        BY <2>1, <3>2, <3>3 DEF Joins
      <3>8. Len(g[k - 1] \o b[k]) = Len(g[k - 1]) + Len(b[k])
        BY <2>3, <2>4, <3>2, <3>4, ConcatElements
      <3>9. Len(b[k]) = 1
        BY <3>2 DEF n
      <3>10. k - 1 + 1 = k
        BY <2>2, <3>2
      <3> QED
        BY <3>2, <3>6, <3>7, <3>8, <3>9, <3>10
    <2>6. Len(g[n]) = n
      <3>1. n \notin Bad
        <4> HIDE DEF Bad
        <4> QED
          BY <2>5
      <3> QED
        BY <2>2, <3>1
    <2> QED
      BY <2>1, <2>6 DEF n
  <1> QED
    BY <1>1, <1>2

------------------------------------------------------------------------------
(* Two sequences, of what has begun and of what waits to be handled.  P is *)
(* a set of elements of the first, Q of the second.                        *)

Neither(p, r, P, Q) == None(p, P) /\ None(r, Q)

\* One element at most, in one of them.
OneOf(p, r, P, Q) ==
  Once(p, P) /\ Once(r, Q) /\ (None(p, P) \/ None(r, Q))

\* The first element of r has been taken.
LEMMA Popped ==
  ASSUME NEW p, NEW S, NEW r \in Seq(S), r # <<>>
  PROVE  /\ \A P, Q : Neither(p, r, P, Q) => Neither(p, Tail(r), P, Q)
         /\ \A P, Q : OneOf(p, r, P, Q) => OneOf(p, Tail(r), P, Q)
         /\ \A P, Q : OneOf(p, r, P, Q) /\ Head(r) \in Q => Neither(p, Tail(r), P, Q)
  <1>1. Head(r) = r[1] /\ 1 \in DOMAIN r
    OBVIOUS
  <1>2. \A Q : Head(r) \in Q => ~None(r, Q)
    BY <1>1 DEF None
  <1> QED
    BY <1>2, TailKeeps DEF Neither, OneOf

\* Something has been added to p.
LEMMA Begun ==
  ASSUME NEW S, NEW p \in Seq(S), NEW x \in S, NEW r
  PROVE  /\ \A P, Q : Neither(p, r, P, Q) => OneOf(Append(p, x), r, P, Q)
         /\ \A P, Q : Neither(p, r, P, Q) /\ x \notin P => Neither(Append(p, x), r, P, Q)
         /\ \A P, Q : OneOf(p, r, P, Q) /\ x \notin P => OneOf(Append(p, x), r, P, Q)
  <1>1. \A P : None(p, P) => Once(p, P)
    BY DEF None, Once
  <1>2. \A Q : None(r, Q) => Once(r, Q)
    BY DEF None, Once
  <1> QED
    BY <1>1, <1>2, AppendKeeps DEF Neither, OneOf

\* Something has been added to r.
LEMMA Added ==
  ASSUME NEW S, NEW r \in Seq(S), NEW x \in S, NEW p
  PROVE  /\ \A P, Q : Neither(p, r, P, Q) => OneOf(p, Append(r, x), P, Q)
         /\ \A P, Q : Neither(p, r, P, Q) /\ x \notin Q => Neither(p, Append(r, x), P, Q)
         /\ \A P, Q : OneOf(p, r, P, Q) /\ x \notin Q => OneOf(p, Append(r, x), P, Q)
  <1>1. \A P : None(p, P) => Once(p, P)
    BY DEF None, Once
  <1>2. \A Q : None(r, Q) => Once(r, Q)
    BY DEF None, Once
  <1> QED
    BY <1>1, <1>2, AppendKeeps DEF Neither, OneOf

\* An element of p has become one of r, of Q only if it was of P.
LEMMA Moved ==
  ASSUME NEW S, NEW p \in Seq(S), NEW i \in DOMAIN p, NEW T, NEW r \in Seq(T), NEW x \in T
  PROVE  /\ \A P, Q : Neither(p, r, P, Q) /\ (x \in Q => p[i] \in P)
                        => Neither(RemoveAt(p, i), Append(r, x), P, Q)
         /\ \A P, Q : OneOf(p, r, P, Q) /\ (x \in Q => p[i] \in P)
                        => OneOf(RemoveAt(p, i), Append(r, x), P, Q)
  <1>1. \A P : p[i] \in P => ~None(p, P)
    BY DEF None
  <1>2. ASSUME NEW P, NEW Q, Neither(p, r, P, Q), x \in Q => p[i] \in P
        PROVE  Neither(RemoveAt(p, i), Append(r, x), P, Q)
    <2>1. None(p, P) /\ None(r, Q) /\ x \notin Q
      BY <1>1, <1>2 DEF Neither
    <2> QED
      BY <2>1, RemoveAtKeeps, AppendKeeps DEF Neither
  <1>3. ASSUME NEW P, NEW Q, OneOf(p, r, P, Q), x \in Q => p[i] \in P
        PROVE  OneOf(RemoveAt(p, i), Append(r, x), P, Q)
    <2>1. Once(p, P) /\ Once(r, Q) /\ (None(p, P) \/ None(r, Q))
      BY <1>3 DEF OneOf
    <2>2. CASE p[i] \in P
      <3>1. None(r, Q)
        BY <1>1, <2>1, <2>2
      <3>2. None(RemoveAt(p, i), P) /\ Once(Append(r, x), Q)
        BY <2>1, <2>2, <3>1, RemoveAtKeeps, AppendKeeps
      <3>3. Once(RemoveAt(p, i), P)
        BY <2>1, RemoveAtKeeps
      <3> QED
        BY <3>2, <3>3 DEF OneOf
    <2>3. CASE p[i] \notin P
      <3>1. x \notin Q
        BY <1>3, <2>3
      <3>2. Once(RemoveAt(p, i), P) /\ Once(Append(r, x), Q)
        BY <2>1, <3>1, RemoveAtKeeps, AppendKeeps
      <3>3. None(p, P) => None(RemoveAt(p, i), P)
        BY RemoveAtKeeps
      <3>4. None(r, Q) => None(Append(r, x), Q)
        BY <3>1, AppendKeeps
      <3> QED
        BY <2>1, <3>2, <3>3, <3>4 DEF OneOf
    <2> QED
      BY <2>2, <2>3
  <1> QED
    BY <1>2, <1>3
==============================================================================
