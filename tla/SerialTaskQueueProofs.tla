------------------------ MODULE SerialTaskQueueProofs ------------------------
(***************************************************************************)
(* What SerialTaskQueue guarantees for any number of threads, properties   *)
(* and tasks and any max_task_count, when clear, remove_prop and start are *)
(* called only while no task they concern runs (CallersWait).              *)
(***************************************************************************)
EXTENDS SerialTaskQueue, DataLemmas

------------------------------------------------------------------------------
(* The inductive invariant.                                                *)

\* Where each thread is, and for which property.
PlacesInv ==
  /\ pc \in [Threads -> AddPC \cup PopPC \cup CtlPC]
  /\ \A a \in Adders : pc[a] \in AddPC
  /\ \A w \in Workers : pc[w] \in PopPC
  /\ \A c \in Controllers : pc[c] \in CtlPC
  /\ prop \in [Adders \cup Workers -> Props \cup {NoProp}]
  /\ \A t \in Adders \cup Workers : prop[t] \in Props <=> pc[t] \in HoldsProp

\* What stop(false) leaves behind while tasks still run: an empty queue, which start()
\* alone opens again.
Emptied ==
  m_bstop /\ m_wait_props = <<>> /\ DOMAIN m_wait_tasks = {} /\ m_cur_props = {}

\* m_cur_props are the properties that are run, each by one thread.
RunInv ==
  /\ m_bstop \in BOOLEAN /\ m_cur_props \in SUBSET Props
  /\ OneThreadPerProp
  /\ \A p \in m_cur_props : \E w \in Workers : pc[w] = "running" /\ prop[w] = p
  /\ \A w \in Workers : pc[w] = "running" => prop[w] \in m_cur_props \/ Emptied

Waits(p) == (accepted[p] - next[p]) + 1
PairsPending == UNION {{p} \X Pending(p) : p \in Props}

\* m_approx_size never falls below the number of tasks that wait.
CountsInv ==
  /\ accepted \in [Props -> Nat] /\ next \in [Props -> Nat \ {0}]
  /\ \A p \in Props : Waits(p) \in Nat
  /\ m_approx_size \in Nat
  /\ IsFiniteSet(PairsPending) /\ Cardinality(PairsPending) <= m_approx_size

\* The deque of p: the task that is run, moved out, before the n ones that wait.
DequeHolds(deque, taken, first, n) ==
  /\ deque \in Seq(Nat) /\ Len(deque) = taken + n /\ taken + n > 0
  /\ taken = 1 => deque[1] = 0
  /\ \A k \in 1 .. n : deque[taken + k] = first + k - 1

Taken(p) == IF p \in m_cur_props THEN 1 ELSE 0

DequesInv ==
  /\ DOMAIN m_wait_tasks \in SUBSET Props /\ IsFiniteSet(DOMAIN m_wait_tasks)
  /\ \A p \in Props :
       /\ p \in DOMAIN m_wait_tasks =>
            DequeHolds(m_wait_tasks[p], Taken(p), next[p], Waits(p))
       /\ p \notin DOMAIN m_wait_tasks => p \notin m_cur_props /\ Waits(p) = 0

Counts(s, p, n) == IsFiniteSet(Counted(s, p)) /\ Cardinality(Counted(s, p)) = n

\* The first node of each property that is not run may be taken, and no other.
Heads(s, cur) ==
  \A i \in 1 .. Len(s) :
    s[i].can_pop <=> s[i].prop \notin cur /\ \A j \in 1 .. i - 1 : s[j].prop # s[i].prop

ListInv ==
  /\ m_wait_props \in Seq(Nodes)
  /\ \A p \in Props : Counts(m_wait_props, p, Waits(p))
  /\ Heads(m_wait_props, m_cur_props)

SerialInv == PlacesInv /\ RunInv /\ CountsInv /\ DequesInv /\ ListInv

------------------------------------------------------------------------------
(* The list of nodes.                                                      *)

\* Two sets with a bijection between them have the same cardinality.
LEMMA SameCount ==
  ASSUME NEW S, NEW T, IsFiniteSet(T), NEW f \in [S -> T],
         \A x, y \in S : f[x] = f[y] => x = y,
         \A y \in T : \E x \in S : f[x] = y
  PROVE  IsFiniteSet(S) /\ Cardinality(S) = Cardinality(T)
  <1>1. f \in Injection(S, T) /\ f \in Surjection(S, T)
    BY DEF Injection, IsInjective, Surjection
  <1> QED
    BY <1>1, FS_Injection

\* The fields of the nodes of a list.
LEMMA NodesAre ==
  ASSUME NEW s \in Seq(Nodes)
  PROVE  /\ Len(s) \in Nat /\ DOMAIN s = 1 .. Len(s)
         /\ \A i \in 1 .. Len(s) : /\ s[i] \in Nodes /\ s[i].prop \in Props
                                   /\ s[i].count \in Nat \ {0} /\ s[i].can_pop \in BOOLEAN
  <1>1. \A i \in 1 .. Len(s) : s[i] \in Nodes
    OBVIOUS
  <1> QED
    BY <1>1 DEF Nodes

\* Membership in Counted.
LEMMA CountedIs ==
  ASSUME NEW s \in Seq(Nodes), NEW p
  PROVE  /\ Counted(s, p) \in SUBSET ((1 .. Len(s)) \X (Nat \ {0}))
         /\ \A i \in 1 .. Len(s), k \in Nat \ {0} :
              <<i, k>> \in Counted(s, p) <=> s[i].prop = p /\ k <= s[i].count
  <1>1. Len(s) \in Nat /\ DOMAIN s = 1 .. Len(s) /\ \A i \in 1 .. Len(s) : s[i].count \in Nat
    BY NodesAre
  <1>2. \A e : e \in Counted(s, p) <=>
                 \E i \in 1 .. Len(s) : s[i].prop = p /\ e \in {i} \X (1 .. s[i].count)
    BY <1>1 DEF Counted, NodeOf
  <1>3. Counted(s, p) \in SUBSET ((1 .. Len(s)) \X (Nat \ {0}))
    BY <1>1, <1>2
  <1>4. ASSUME NEW i \in 1 .. Len(s), NEW k \in Nat \ {0}
        PROVE  <<i, k>> \in Counted(s, p) <=> s[i].prop = p /\ k <= s[i].count
    BY <1>1, <1>2
  <1> QED
    BY <1>3, <1>4

\* Two lists with the same properties and counts.
LEMMA SameCounted ==
  ASSUME NEW s \in Seq(Nodes), NEW t \in Seq(Nodes), Len(t) = Len(s), NEW p,
         \A i \in 1 .. Len(s) : t[i].prop = s[i].prop,
         \A i \in 1 .. Len(s) : s[i].prop = p => t[i].count = s[i].count
  PROVE  Counted(t, p) = Counted(s, p)
  <1>1. NodeOf(t, p) = NodeOf(s, p)
    BY DEF NodeOf
  <1>2. \A i \in NodeOf(s, p) : t[i].count = s[i].count
    BY DEF NodeOf
  <1> QED
    BY <1>1, <1>2 DEF Counted

\* A property that waits has a node, and only such a property has.
LEMMA NodesWait ==
  ASSUME NEW s \in Seq(Nodes), NEW p, NEW n \in Nat, Counts(s, p, n)
  PROVE  n = 0 <=> \A i \in 1 .. Len(s) : s[i].prop # p
  <1>1. n = 0 <=> Counted(s, p) = {}
    BY FS_EmptySet DEF Counts
  <1>2. ASSUME NEW i \in 1 .. Len(s), s[i].prop = p
        PROVE  Counted(s, p) # {}
    <2>1. s[i].count \in Nat \ {0}
      BY NodesAre
    <2>2. 1 \in Nat \ {0} /\ 1 <= s[i].count
      BY <2>1
    <2>3. <<i, 1>> \in Counted(s, p)
      BY <1>2, <2>2, CountedIs
    <2> QED
      BY <2>3
  <1>3. ASSUME Counted(s, p) # {}
        PROVE  \E i \in 1 .. Len(s) : s[i].prop = p
    <2>1. PICK e \in Counted(s, p) : TRUE
      BY <1>3
    <2>2. \E i \in NodeOf(s, p) : e \in {i} \X (1 .. s[i].count)
      BY <2>1 DEF Counted
    <2> QED
      BY <2>2 DEF NodeOf
  <1> QED
    BY <1>1, <1>2, <1>3

\* The nodes of t are those of s at the places h, in the same order; none of q is missing.
Reindexes(s, t, h) ==
  /\ h \in [1 .. Len(t) -> 1 .. Len(s)]
  /\ \A i, j \in 1 .. Len(t) : i < j => h[i] < h[j]
  /\ \A i \in 1 .. Len(t) : t[i] = s[h[i]]

HasAll(s, t, h, q) == \A i \in 1 .. Len(s) : s[i].prop = q => \E k \in 1 .. Len(t) : h[k] = i

\* The places are different, and in order.
LEMMA ReindexedIsInjective ==
  ASSUME NEW s \in Seq(Nodes), NEW t \in Seq(Nodes), NEW h, Reindexes(s, t, h)
  PROVE  \A i, j \in 1 .. Len(t) : (h[i] = h[j] => i = j) /\ (h[i] < h[j] => i < j)
  <1> SUFFICES ASSUME NEW i \in 1 .. Len(t), NEW j \in 1 .. Len(t)
               PROVE  (h[i] = h[j] => i = j) /\ (h[i] < h[j] => i < j)
    OBVIOUS
  <1>1. h[i] \in Int /\ h[j] \in Int /\ i \in Int /\ j \in Int
    BY DEF Reindexes
  <1>2. (i < j => h[i] < h[j]) /\ (j < i => h[j] < h[i]) /\ (i = j => h[i] = h[j])
    BY DEF Reindexes
  <1> HIDE DEF Reindexes
  <1> QED
    BY <1>1, <1>2

\* The nodes that are left count the tasks of the places that are left.
LEMMA ReindexedCard ==
  ASSUME NEW s \in Seq(Nodes), NEW t \in Seq(Nodes), NEW h, Reindexes(s, t, h),
         NEW q, IsFiniteSet(Counted(s, q)),
         NEW Kept,
         \A e : e \in Kept <=> e \in Counted(s, q) /\ \E k \in 1 .. Len(t) : h[k] = e[1]
  PROVE  Counts(t, q, Cardinality(Kept))
  <1> DEFINE f == [e \in Counted(t, q) |-> <<h[e[1]], e[2]>>]
  <1>1. ASSUME NEW e \in Counted(t, q)
        PROVE  e[1] \in 1 .. Len(t) /\ e[2] \in Nat \ {0} /\ e = <<e[1], e[2]>>
               /\ t[e[1]].prop = q /\ e[2] <= t[e[1]].count
    <2>1. e[1] \in 1 .. Len(t) /\ e[2] \in Nat \ {0} /\ e = <<e[1], e[2]>>
      BY CountedIs
    <2> QED
      BY <2>1, CountedIs
  <1>2. ASSUME NEW e \in Counted(t, q)
        PROVE  f[e] \in Kept
    <2>1. h[e[1]] \in 1 .. Len(s) /\ t[e[1]] = s[h[e[1]]]
      BY <1>1 DEF Reindexes
    <2>2. <<h[e[1]], e[2]>> \in Counted(s, q)
      BY <1>1, <2>1, CountedIs
    <2> QED
      BY <1>1, <2>2
  <1>3. ASSUME NEW x \in Counted(t, q), NEW y \in Counted(t, q), f[x] = f[y]
        PROVE  x = y
    <2>1. h[x[1]] = h[y[1]] /\ x[2] = y[2]
      BY <1>3
    <2>2. x[1] = y[1]
      BY <1>1, <2>1, ReindexedIsInjective
    <2>3. x = <<x[1], x[2]>> /\ y = <<y[1], y[2]>>
      BY <1>1
    <2> QED
      BY <2>1, <2>2, <2>3
  <1>4. ASSUME NEW y \in Kept
        PROVE  \E x \in Counted(t, q) : f[x] = y
    <2>1. y[1] \in 1 .. Len(s) /\ y[2] \in Nat \ {0} /\ y = <<y[1], y[2]>>
      BY CountedIs
    <2>2. s[y[1]].prop = q /\ y[2] <= s[y[1]].count
      BY <2>1, CountedIs
    <2>3. PICK k \in 1 .. Len(t) : h[k] = y[1]
      OBVIOUS
    <2>4. t[k] = s[y[1]]
      BY <2>3 DEF Reindexes
    <2>5. <<k, y[2]>> \in Counted(t, q)
      BY <2>1, <2>2, <2>4, CountedIs
    <2>6. f[<<k, y[2]>>] = y
      BY <2>1, <2>3, <2>5
    <2> QED
      BY <2>5, <2>6
  <1> HIDE DEF f
  <1>5. f \in [Counted(t, q) -> Kept]
    <2>1. f = [e \in Counted(t, q) |-> f[e]]
      BY DEF f
    <2> QED
      BY <1>2, <2>1
  <1>6. IsFiniteSet(Kept)
    BY FS_Subset
  <1>7. /\ \A x, y \in Counted(t, q) : f[x] = f[y] => x = y
        /\ \A y \in Kept : \E x \in Counted(t, q) : f[x] = y
    BY <1>3, <1>4
  <1> DEFINE C == Counted(t, q)
  <1>9. /\ f \in [C -> Kept] /\ IsFiniteSet(Kept)
        /\ \A x, y \in C : f[x] = f[y] => x = y
        /\ \A y \in Kept : \E x \in C : f[x] = y
    BY <1>5, <1>6, <1>7
  <1> HIDE DEF C
  <1>8. IsFiniteSet(C) /\ Cardinality(C) = Cardinality(Kept)
    BY <1>9, SameCount
  <1> QED
    BY <1>8 DEF Counts, C

\* A property all of whose nodes are left keeps its count.
LEMMA ReindexedCounts ==
  ASSUME NEW s \in Seq(Nodes), NEW t \in Seq(Nodes), NEW h, Reindexes(s, t, h),
         NEW q, HasAll(s, t, h, q), NEW n, Counts(s, q, n)
  PROVE  Counts(t, q, n)
  <1> DEFINE Kept == {e \in Counted(s, q) : \E k \in 1 .. Len(t) : h[k] = e[1]}
  <1>1. ASSUME NEW e \in Counted(s, q)
        PROVE  e \in Kept
    <2>1. e[1] \in 1 .. Len(s) /\ e[2] \in Nat \ {0} /\ e = <<e[1], e[2]>>
      BY CountedIs
    <2>2. s[e[1]].prop = q
      BY <2>1, CountedIs
    <2> QED
      BY <2>1, <2>2 DEF HasAll
  <1>2. Kept = Counted(s, q)
    BY <1>1
  <1> HIDE DEF Kept
  <1>3. Counts(t, q, Cardinality(Kept))
    BY ReindexedCard DEF Counts, Kept
  <1> QED
    BY <1>2, <1>3 DEF Counts

\* Its first node stays the first.
LEMMA ReindexedFirst ==
  ASSUME NEW s \in Seq(Nodes), NEW t \in Seq(Nodes), NEW h, Reindexes(s, t, h),
         NEW k \in 1 .. Len(t), HasAll(s, t, h, t[k].prop)
  PROVE  (\A j \in 1 .. k - 1 : t[j].prop # t[k].prop) <=>
           \A j \in 1 .. h[k] - 1 : s[j].prop # t[k].prop
  <1>1. h[k] \in 1 .. Len(s) /\ Len(s) \in Nat /\ Len(t) \in Nat
    BY DEF Reindexes
  <1>2. ASSUME NEW j \in 1 .. k - 1, t[j].prop = t[k].prop
        PROVE  h[j] \in 1 .. h[k] - 1 /\ s[h[j]].prop = t[k].prop
    <2>1. j \in 1 .. Len(t) /\ j < k
      BY <1>1
    <2>2. h[j] < h[k] /\ h[j] \in 1 .. Len(s) /\ t[j] = s[h[j]]
      BY <2>1 DEF Reindexes
    <2> QED
      BY <1>1, <1>2, <2>2
  <1>3. ASSUME NEW j \in 1 .. h[k] - 1, s[j].prop = t[k].prop
        PROVE  \E i \in 1 .. k - 1 : t[i].prop = t[k].prop
    <2>1. j \in 1 .. Len(s)
      BY <1>1
    <2>2. PICK i \in 1 .. Len(t) : h[i] = j
      BY <1>3, <2>1 DEF HasAll
    <2>3. i < k
      BY <1>1, <2>2, ReindexedIsInjective
    <2>4. t[i] = s[j]
      BY <2>2 DEF Reindexes
    <2> QED
      BY <1>1, <1>3, <2>3, <2>4
  <1> QED
    BY <1>2, <1>3

\* NodeOf, element by element.
LEMMA NoNodes ==
  ASSUME NEW s \in Seq(Nodes), NEW p
  PROVE  NodeOf(s, p) = {} <=> \A i \in 1 .. Len(s) : s[i].prop # p
  BY DEF NodeOf

\* push_back counts one more task of p, in p's last place, and keeps the nodes of the others; a new
\* node may be taken at once only if p has no other and is not run.
LEMMA PushBackEffect ==
  ASSUME NEW s \in Seq(Nodes), NEW p \in Props, NEW can \in BOOLEAN
  PROVE  /\ push_back(s, p, can) \in Seq(Nodes)
         /\ \A q : q # p => Counted(push_back(s, p, can), q) = Counted(s, q)
         /\ \E e : e \notin Counted(s, p) /\ Counted(push_back(s, p, can), p) = Counted(s, p) \cup {e}
         /\ \A cur : Heads(s, cur) /\ (NodeOf(s, p) = {} => (can <=> p \notin cur))
                       => Heads(push_back(s, p, can), cur)
  <1> DEFINE t == push_back(s, p, can)
  <1>0. Len(s) \in Nat
    OBVIOUS
  <1>1. CASE s # <<>> /\ Last(s).prop = p
    <2> DEFINE l == Len(s)
    <2>1. l \in 1 .. Len(s) /\ s[l].prop = p /\ s[l] \in Nodes /\ s[l].count \in Nat \ {0}
      BY <1>1, NodesAre DEF Last
    <2>2. t = [s EXCEPT ![l].count = @ + 1]
      BY <1>1 DEF push_back
    <2> HIDE DEF l, t
    <2>3. [s[l] EXCEPT !.count = @ + 1] \in Nodes
      BY <2>1 DEF Nodes
    <2>4. /\ t \in Seq(Nodes) /\ Len(t) = Len(s)
          /\ \A i \in 1 .. Len(s) : i # l => t[i] = s[i]
          /\ t[l] = [s[l] EXCEPT !.count = @ + 1]
      BY <2>1, <2>2, <2>3
    <2>5. /\ t[l].prop = s[l].prop /\ t[l].can_pop = s[l].can_pop
          /\ t[l].count = s[l].count + 1
      BY <2>1, <2>4 DEF Nodes
    <2>6. \A i \in 1 .. Len(s) : t[i].prop = s[i].prop /\ t[i].can_pop = s[i].can_pop
      BY <2>4, <2>5
    <2>7. ASSUME NEW q, q # p
          PROVE  Counted(t, q) = Counted(s, q)
      <3>1. \A i \in 1 .. Len(s) : s[i].prop = q => t[i].count = s[i].count
        BY <2>1, <2>4, <2>7
      <3> QED
        BY <2>4, <2>6, <3>1, SameCounted
    <2> DEFINE e == <<l, s[l].count + 1>>
    <2>8. s[l].count + 1 \in Nat \ {0} /\ l \in 1 .. Len(s) /\ l \in 1 .. Len(t)
      BY <2>1, <2>4
    <2>9. e \notin Counted(s, p)
      <3>1. ~(s[l].count + 1 <= s[l].count)
        BY <2>1
      <3> QED
        BY <2>8, <3>1, CountedIs
    <2>10. Counted(t, p) = Counted(s, p) \cup {e}
      <3>1. e \in Counted(t, p)
        <4>1. s[l].count + 1 <= t[l].count /\ t[l].prop = p
          BY <2>1, <2>5
        <4> QED
          BY <2>4, <2>8, <4>1, CountedIs
      <3>2. ASSUME NEW i \in 1 .. Len(s), NEW k \in Nat \ {0}, <<i, k>> # e
            PROVE  <<i, k>> \in Counted(t, p) <=> <<i, k>> \in Counted(s, p)
        <4>1. <<i, k>> \in Counted(t, p) <=> t[i].prop = p /\ k <= t[i].count
          BY <2>4, CountedIs
        <4>2. <<i, k>> \in Counted(s, p) <=> s[i].prop = p /\ k <= s[i].count
          BY CountedIs
        <4>3. k <= t[i].count <=> k <= s[i].count
          <5>1. CASE i = l
            <6>1. k # s[l].count + 1
              BY <3>2, <5>1
            <6> QED
              BY <2>1, <2>5, <5>1, <6>1
          <5>2. CASE i # l
            BY <2>4, <5>2
          <5> QED
            BY <5>1, <5>2
        <4> QED
          BY <2>6, <4>1, <4>2, <4>3
      <3>3. Counted(s, p) \in SUBSET ((1 .. Len(s)) \X (Nat \ {0}))
            /\ Counted(t, p) \in SUBSET ((1 .. Len(s)) \X (Nat \ {0}))
        BY <2>4, CountedIs
      <3> HIDE DEF e
      <3>4. \A x \in (1 .. Len(s)) \X (Nat \ {0}) :
              x # e => (x \in Counted(t, p) <=> x \in Counted(s, p))
        BY <3>2
      <3> QED
        BY <3>1, <3>3, <3>4
    <2>11. ASSUME NEW cur, Heads(s, cur)
           PROVE  Heads(t, cur)
      BY <2>4, <2>6, <2>11 DEF Heads
    <2> QED
      BY <2>4, <2>7, <2>9, <2>10, <2>11 DEF t
  <1>2. CASE ~(s # <<>> /\ Last(s).prop = p)
    <2> DEFINE new == [prop |-> p, count |-> 1, can_pop |-> can /\ NodeOf(s, p) = {}]
               l == Len(s) + 1
    <2>1. new \in Nodes
      BY DEF Nodes
    <2>2. t = Append(s, new)
      BY <1>2 DEF push_back
    <2>3. new.prop = p /\ new.count = 1 /\ (new.can_pop <=> can /\ NodeOf(s, p) = {})
      OBVIOUS
    <2> HIDE DEF t, new
    <2>4. /\ t \in Seq(Nodes) /\ Len(t) = l
          /\ \A i \in 1 .. Len(s) : t[i] = s[i]
          /\ t[l] = new
      BY <2>1, <2>2
    <2>5. l \in 1 .. l /\ \A i \in 1 .. l : i \in 1 .. Len(s) \/ i = l
      BY <1>0
    <2> HIDE DEF l
    <2>6. ASSUME NEW q
          PROVE  Counted(t, q) = IF q = p THEN Counted(s, q) \cup {<<l, 1>>} ELSE Counted(s, q)
      <3>1. Counted(s, q) \in SUBSET ((1 .. Len(s)) \X (Nat \ {0}))
            /\ Counted(t, q) \in SUBSET ((1 .. l) \X (Nat \ {0}))
        BY <2>4, CountedIs
      <3>2. ASSUME NEW i \in 1 .. Len(s), NEW k \in Nat \ {0}
            PROVE  <<i, k>> \in Counted(t, q) <=> <<i, k>> \in Counted(s, q)
        <4>1. i \in 1 .. Len(t) /\ t[i] = s[i]
          BY <1>0, <2>4 DEF l
        <4> QED
          BY <2>4, <4>1, CountedIs
      <3>3. \A k \in Nat \ {0} : <<l, k>> \in Counted(t, q) <=> q = p /\ k = 1
        <4>1. ASSUME NEW k \in Nat \ {0}
              PROVE  <<l, k>> \in Counted(t, q) <=> p = q /\ k <= 1
          BY <2>3, <2>4, <2>5, CountedIs
        <4>2. \A k \in Nat \ {0} : k <= 1 <=> k = 1
          OBVIOUS
        <4> QED
          BY <4>1, <4>2
      <3>4. \A x \in (1 .. Len(s)) \X (Nat \ {0}) : x \in Counted(t, q) <=> x \in Counted(s, q)
        BY <3>2
      <3>5. \A x \in Counted(t, q) : x \in (1 .. Len(s)) \X (Nat \ {0}) \/ (q = p /\ x = <<l, 1>>)
        BY <2>5, <3>1, <3>3
      <3>6. q = p => <<l, 1>> \in Counted(t, q)
        BY <3>3
      <3> QED
        BY <3>1, <3>4, <3>5, <3>6
    <2>7. <<l, 1>> \notin Counted(s, p)
      <3>1. l \notin 1 .. Len(s)
        BY <1>0 DEF l
      <3> QED
        BY <3>1, CountedIs
    <2>8. ASSUME NEW cur, Heads(s, cur), NodeOf(s, p) = {} => (can <=> p \notin cur)
          PROVE  Heads(t, cur)
      <3> SUFFICES ASSUME NEW i \in 1 .. l
                   PROVE  t[i].can_pop <=> t[i].prop \notin cur /\ \A j \in 1 .. i - 1 : t[j].prop # t[i].prop
        BY <2>4 DEF Heads
      <3>1. CASE i \in 1 .. Len(s)
        <4>1. \A j \in 1 .. i - 1 : t[j] = s[j]
          BY <1>0, <2>4, <3>1
        <4> QED
          BY <2>4, <2>8, <3>1, <4>1 DEF Heads
      <3>2. CASE i = l
        <4>1. 1 .. i - 1 = 1 .. Len(s)
          BY <1>0, <3>2 DEF l
        <4>2. NodeOf(s, p) = {} <=> \A j \in 1 .. Len(s) : s[j].prop # p
          BY NoNodes
        <4>3. NodeOf(s, p) = {} <=> \A j \in 1 .. i - 1 : t[j].prop # t[i].prop
          BY <2>3, <2>4, <3>2, <4>1, <4>2
        <4> QED
          BY <2>3, <2>4, <2>8, <3>2, <4>3
      <3> QED
        BY <2>5, <3>1, <3>2
    <2>9. \A q : q # p => Counted(t, q) = Counted(s, q)
      BY <2>6
    <2>10. Counted(t, p) = Counted(s, p) \cup {<<l, 1>>}
      BY <2>6
    <2> QED
      BY <2>4, <2>7, <2>8, <2>9, <2>10 DEF t
  <1> QED
    BY <1>1, <1>2

\* pop_front counts one task of its property less, and none of that property's nodes may be taken
\* afterwards.
LEMMA PopFrontEffect ==
  ASSUME NEW s \in Seq(Nodes), NEW cur, Heads(s, cur), NEW i \in 1 .. Len(s), s[i].can_pop
  PROVE  /\ pop_front(s, i) \in Seq(Nodes)
         /\ Heads(pop_front(s, i), cur \cup {s[i].prop})
         /\ \A q, n : q # s[i].prop /\ Counts(s, q, n) => Counts(pop_front(s, i), q, n)
         /\ \A n : Counts(s, s[i].prop, n) => Counts(pop_front(s, i), s[i].prop, n - 1)
  <1> DEFINE t == pop_front(s, i)
             p == s[i].prop
  <1>1. /\ Len(s) \in Nat /\ s[i] \in Nodes /\ p \in Props /\ s[i].count \in Nat \ {0}
        /\ \A j \in 1 .. Len(s) : s[j].prop \in Props /\ s[j].count \in Nat \ {0}
    BY NodesAre
  <1>2. p \notin cur /\ \A j \in 1 .. i - 1 : s[j].prop # p
    BY DEF Heads
  \* The other nodes of p come later, and cannot be taken.
  <1>3. ASSUME NEW j \in 1 .. Len(s), s[j].prop = p, j # i
        PROVE  ~s[j].can_pop /\ i \in 1 .. j - 1
    <2>1. i < j
      BY <1>1, <1>2, <1>3
    <2>2. i \in 1 .. j - 1
      BY <1>1, <2>1
    <2> QED
      BY <1>3, <2>2 DEF Heads
  <1>4. CASE s[i].count > 1
    <2>1. t = [s EXCEPT ![i].count = @ - 1, ![i].can_pop = FALSE]
      BY <1>4 DEF pop_front
    <2> DEFINE node == [s[i] EXCEPT !.count = @ - 1, !.can_pop = FALSE]
    <2>9. s[i].count - 1 \in Nat \ {0}
      BY <1>1, <1>4
    <2>2. node \in Nodes /\ node.prop = p /\ node.count = s[i].count - 1 /\ node.can_pop = FALSE
      BY <1>1, <2>9 DEF Nodes
    <2>3. t = [s EXCEPT ![i] = node]
      BY <2>1
    <2> HIDE DEF t, node
    <2>4. t \in Seq(Nodes) /\ Len(t) = Len(s) /\ t[i] = node /\ \A j \in 1 .. Len(s) : j # i => t[j] = s[j]
      BY <2>2, <2>3
    <2>5. \A j \in 1 .. Len(s) : t[j].prop = s[j].prop
      BY <2>2, <2>4
    <2>6. Heads(t, cur \cup {p})
      <3> SUFFICES ASSUME NEW j \in 1 .. Len(s)
                   PROVE  t[j].can_pop <=> t[j].prop \notin cur \cup {p}
                                           /\ \A k \in 1 .. j - 1 : t[k].prop # t[j].prop
        BY <2>4 DEF Heads
      <3>1. \A k \in 1 .. j - 1 : t[k].prop = s[k].prop
        BY <1>1, <2>5
      <3>2. CASE j = i
        BY <2>2, <2>4, <3>2
      <3>3. CASE j # i /\ s[j].prop = p
        BY <1>3, <2>4, <3>3
      <3>4. CASE s[j].prop # p
        BY <2>4, <3>1, <3>4 DEF Heads
      <3> QED
        BY <3>2, <3>3, <3>4
    <2>7. ASSUME NEW q, NEW n, q # p, Counts(s, q, n)
          PROVE  Counts(t, q, n)
      <3>1. \A j \in 1 .. Len(s) : s[j].prop = q => t[j].count = s[j].count
        BY <2>4, <2>7
      <3>2. Counted(t, q) = Counted(s, q)
        BY <2>4, <2>5, <3>1, SameCounted
      <3> QED
        BY <2>7, <3>2 DEF Counts
    <2>8. ASSUME NEW n, Counts(s, p, n)
          PROVE  Counts(t, p, n - 1)
      <3> DEFINE e == <<i, s[i].count>>
      <3>1. e \in Counted(s, p) /\ e \notin Counted(t, p)
        <4>1. s[i].count <= s[i].count /\ ~(s[i].count <= t[i].count)
          BY <1>1, <2>2, <2>4
        <4> QED
          BY <1>1, <2>4, <4>1, CountedIs
      <3>2. ASSUME NEW j \in 1 .. Len(s), NEW k \in Nat \ {0}, <<j, k>> # e
            PROVE  <<j, k>> \in Counted(t, p) <=> <<j, k>> \in Counted(s, p)
        <4>1. /\ <<j, k>> \in Counted(t, p) <=> s[j].prop = p /\ k <= t[j].count
              /\ <<j, k>> \in Counted(s, p) <=> s[j].prop = p /\ k <= s[j].count
          BY <2>4, <2>5, CountedIs
        <4>2. k <= t[j].count <=> k <= s[j].count
          <5>1. CASE j = i
            <6>1. k # s[i].count
              BY <3>2, <5>1
            <6> QED
              BY <1>1, <2>2, <2>4, <5>1, <6>1
          <5>2. CASE j # i
            BY <2>4, <5>2
          <5> QED
            BY <5>1, <5>2
        <4> QED
          BY <4>1, <4>2
      <3>3. Counted(s, p) \in SUBSET ((1 .. Len(s)) \X (Nat \ {0}))
            /\ Counted(t, p) \in SUBSET ((1 .. Len(s)) \X (Nat \ {0}))
        BY <2>4, CountedIs
      <3> HIDE DEF e
      <3>4. \A x \in (1 .. Len(s)) \X (Nat \ {0}) :
              x # e => (x \in Counted(t, p) <=> x \in Counted(s, p))
        BY <3>2
      <3>5. Counted(t, p) = Counted(s, p) \ {e}
        BY <3>1, <3>3, <3>4
      <3>6. IsFiniteSet(Counted(s, p)) /\ Cardinality(Counted(s, p)) = n
        BY <2>8 DEF Counts
      <3>7. IsFiniteSet(Counted(t, p)) /\ Cardinality(Counted(t, p)) = n - 1
        BY <3>1, <3>5, <3>6, FS_RemoveElement
      <3> QED
        BY <3>7 DEF Counts
    <2> QED
      BY <2>4, <2>6, <2>7, <2>8 DEF t
  <1>5. CASE ~(s[i].count > 1)
    <2>1. s[i].count = 1 /\ t = RemoveAt(s, i)
      BY <1>1, <1>5 DEF pop_front
    <2> HIDE DEF t
    <2>2. /\ t \in Seq(Nodes) /\ Len(t) = Len(s) - 1
          /\ \A j \in 1 .. Len(s) - 1 : t[j] = IF j < i THEN s[j] ELSE s[j + 1]
      BY <2>1, RemoveAtElements
    <2> DEFINE h == [k \in 1 .. Len(t) |-> IF k < i THEN k ELSE k + 1]
    <2>3. Reindexes(s, t, h)
      BY <1>1, <2>2 DEF Reindexes
    <2>4. ASSUME NEW j \in 1 .. Len(s), j # i
          PROVE  \E k \in 1 .. Len(t) : h[k] = j
      <3>1. CASE j < i
        BY <1>1, <2>2, <3>1
      <3>2. CASE j > i
        <4>1. j - 1 \in 1 .. Len(t) /\ h[j - 1] = j
          BY <1>1, <2>2, <3>2
        <4> QED
          BY <4>1
      <3> QED
        BY <1>1, <2>4, <3>1, <3>2
    <2>5. \A k \in 1 .. Len(t) : h[k] # i
      BY <1>1, <2>2
    <2> HIDE DEF h
    <2>6. \A q : q # p => HasAll(s, t, h, q)
      BY <2>4 DEF HasAll
    <2>7. \A q, n : q # p /\ Counts(s, q, n) => Counts(t, q, n)
      BY <2>2, <2>3, <2>6, ReindexedCounts
    <2>8. ASSUME NEW n, Counts(s, p, n)
          PROVE  Counts(t, p, n - 1)
      <3> DEFINE Kept == {e \in Counted(s, p) : \E k \in 1 .. Len(t) : h[k] = e[1]}
      <3>1. IsFiniteSet(Counted(s, p)) /\ Cardinality(Counted(s, p)) = n
        BY <2>8 DEF Counts
      <3>2. Counts(t, p, Cardinality(Kept))
        BY <2>2, <2>3, <3>1, ReindexedCard
      <3>3. <<i, 1>> \in Counted(s, p) /\ <<i, 1>> \notin Kept
        BY <1>1, <2>1, <2>5, CountedIs
      <3>4. ASSUME NEW e \in Counted(s, p), e # <<i, 1>>
            PROVE  e \in Kept
        <4>1. e[1] \in 1 .. Len(s) /\ e[2] \in Nat \ {0} /\ e = <<e[1], e[2]>>
          BY CountedIs
        <4>2. s[e[1]].prop = p /\ e[2] <= s[e[1]].count
          BY <4>1, CountedIs
        <4>3. e[1] # i
          <5>1. e[1] = i => e[2] = 1
            BY <2>1, <4>1, <4>2
          <5> QED
            BY <3>4, <4>1, <5>1
        <4> QED
          BY <2>4, <4>1, <4>3
      <3>5. Kept = Counted(s, p) \ {<<i, 1>>}
        BY <3>3, <3>4
      <3> HIDE DEF Kept
      <3>6. Cardinality(Kept) = n - 1
        BY <3>1, <3>3, <3>5, FS_RemoveElement
      <3> QED
        BY <3>2, <3>6
    <2>9. Heads(t, cur \cup {p})
      <3> SUFFICES ASSUME NEW k \in 1 .. Len(t)
                   PROVE  t[k].can_pop <=> t[k].prop \notin cur \cup {p}
                                           /\ \A j \in 1 .. k - 1 : t[j].prop # t[k].prop
        BY DEF Heads
      <3>1. h[k] \in 1 .. Len(s) /\ h[k] # i /\ t[k] = s[h[k]]
        BY <2>3, <2>5 DEF Reindexes
      <3>2. CASE t[k].prop = p
        <4>1. ~s[h[k]].can_pop
          BY <1>3, <3>1, <3>2
        <4> QED
          BY <3>1, <3>2, <4>1
      <3>3. CASE t[k].prop # p
        <4>1. (\A j \in 1 .. k - 1 : t[j].prop # t[k].prop) <=>
                \A j \in 1 .. h[k] - 1 : s[j].prop # t[k].prop
          <5>1. /\ s \in Seq(Nodes) /\ t \in Seq(Nodes) /\ Reindexes(s, t, h)
                /\ k \in 1 .. Len(t) /\ HasAll(s, t, h, t[k].prop)
            BY <2>2, <2>3, <2>6, <3>3
          <5> QED
            BY ONLY <5>1, ReindexedFirst
        <4>2. t[k].can_pop <=> t[k].prop \notin cur /\ \A j \in 1 .. h[k] - 1 : s[j].prop # t[k].prop
          BY <3>1 DEF Heads
        <4> QED
          BY <3>3, <4>1, <4>2
      <3> QED
        BY <3>2, <3>3
    <2> QED
      BY <2>2, <2>7, <2>8, <2>9 DEF t
  <1> QED
    BY <1>4, <1>5

\* FirstOf is the least number of a set.
LEMMA FirstOfIs ==
  ASSUME NEW S \in SUBSET Nat, S # {}
  PROVE  FirstOf(S) \in S /\ \A j \in S : FirstOf(S) <= j
  <1>1. \E i \in S : \A j \in S : i <= j
    BY LeastNumber
  <1> QED
    BY <1>1 DEF FirstOf

\* reset_prop lets the first node of a property that is not run any more be taken, and counts
\* nothing else.
LEMMA ResetPropEffect ==
  ASSUME NEW s \in Seq(Nodes), NEW cur, Heads(s, cur), NEW p,
         p \in cur \/ NodeOf(s, p) = {}
  PROVE  /\ reset_prop(s, p) \in Seq(Nodes)
         /\ Heads(reset_prop(s, p), cur \ {p})
         /\ \A q, n : Counts(s, q, n) => Counts(reset_prop(s, p), q, n)
  <1> DEFINE t == reset_prop(s, p)
  <1>0. Len(s) \in Nat /\ \A i \in 1 .. Len(s) : s[i] \in Nodes
    BY NodesAre
  <1>1. CASE NodeOf(s, p) = {}
    <2>1. t = s
      BY <1>1 DEF reset_prop
    <2>2. \A i \in 1 .. Len(s) : s[i].prop # p
      BY <1>1, NoNodes
    <2> QED
      BY <2>1, <2>2 DEF Heads
  <1>2. CASE NodeOf(s, p) # {}
    <2> DEFINE f == FirstOf(NodeOf(s, p))
    <2>1. NodeOf(s, p) \in SUBSET Nat /\ NodeOf(s, p) = {i \in 1 .. Len(s) : s[i].prop = p}
      BY DEF NodeOf
    <2>2. f \in NodeOf(s, p) /\ \A j \in NodeOf(s, p) : f <= j
      BY <1>2, <2>1, FirstOfIs
    <2>3. t = [s EXCEPT ![f].can_pop = TRUE]
      BY <1>2 DEF reset_prop
    <2> HIDE DEF f, t
    <2>4. f \in 1 .. Len(s) /\ s[f].prop = p /\ s[f] \in Nodes
          /\ \A j \in 1 .. Len(s) : s[j].prop = p => f <= j
      BY <1>0, <2>1, <2>2
    <2> DEFINE node == [s[f] EXCEPT !.can_pop = TRUE]
    <2>5. node \in Nodes /\ node.prop = p /\ node.count = s[f].count /\ node.can_pop
      BY <2>4 DEF Nodes
    <2>6. t = [s EXCEPT ![f] = node]
      BY <2>3
    <2> HIDE DEF node
    <2>7. t \in Seq(Nodes) /\ Len(t) = Len(s) /\ t[f] = node /\ \A j \in 1 .. Len(s) : j # f => t[j] = s[j]
      BY <2>4, <2>5, <2>6
    <2>8. \A j \in 1 .. Len(s) : t[j].prop = s[j].prop /\ t[j].count = s[j].count
      BY <2>4, <2>5, <2>7
    <2>9. \A q : Counted(t, q) = Counted(s, q)
      BY <2>7, <2>8, SameCounted
    <2>10. Heads(t, cur \ {p})
      <3> SUFFICES ASSUME NEW j \in 1 .. Len(s)
                   PROVE  t[j].can_pop <=> t[j].prop \notin cur \ {p}
                                           /\ \A k \in 1 .. j - 1 : t[k].prop # t[j].prop
        BY <2>7 DEF Heads
      <3>1. \A k \in 1 .. j - 1 : k \in 1 .. Len(s) /\ t[k].prop = s[k].prop
        BY <1>0, <2>8
      <3>2. CASE j = f
        <4>1. \A k \in 1 .. j - 1 : s[k].prop # p
          BY <1>0, <2>4, <3>1, <3>2
        <4> QED
          BY <2>4, <2>5, <2>7, <2>8, <3>1, <3>2, <4>1
      <3>3. CASE j # f /\ s[j].prop = p
        <4>1. f \in 1 .. j - 1
          BY <1>0, <2>4, <3>3
        <4>2. ~s[j].can_pop
          BY <2>4, <3>3, <4>1 DEF Heads
        <4> QED
          BY <2>4, <2>7, <2>8, <3>1, <3>3, <4>1, <4>2
      <3>4. CASE s[j].prop # p
        <4>1. t[j] = s[j]
          BY <2>4, <2>7, <3>4
        <4> QED
          BY <3>1, <3>4, <4>1 DEF Heads
      <3> QED
        BY <3>2, <3>3, <3>4
    <2> QED
      BY <2>7, <2>9, <2>10 DEF Counts, t
  <1> QED
    BY <1>1, <1>2

\* remove_nodes takes the nodes of one property out and leaves the others in order.
LEMMA RemoveNodesEffect ==
  ASSUME NEW s \in Seq(Nodes), NEW cur, Heads(s, cur), NEW p
  PROVE  /\ remove_nodes(s, p) \in Seq(Nodes)
         /\ Heads(remove_nodes(s, p), cur)
         /\ Counts(remove_nodes(s, p), p, 0)
         /\ \A q, n : q # p /\ Counts(s, q, n) => Counts(remove_nodes(s, p), q, n)
  <1> DEFINE kept == DOMAIN s \ NodeOf(s, p)
             t == Select(s, kept)
             h == InOrder(kept)
  <1>1. remove_nodes(s, p) = t
    BY DEF remove_nodes
  <1>2. /\ \A i : i \in kept <=> i \in 1 .. Len(s) /\ s[i].prop # p
        /\ kept \in SUBSET (DOMAIN s)
    BY DEF NodeOf
  <1> HIDE DEF kept
  <1>10. kept \in SUBSET (DOMAIN s)
    BY <1>2
  <1>3. /\ t \in Seq(Nodes) /\ Len(t) = Cardinality(kept)
        /\ h \in [1 .. Cardinality(kept) -> kept]
        /\ \A k \in 1 .. Cardinality(kept) : t[k] = s[h[k]]
        /\ \A i, j \in 1 .. Cardinality(kept) : i < j => h[i] < h[j]
        /\ \A k \in kept : \E i \in 1 .. Cardinality(kept) : h[i] = k
    <2>1. /\ Select(s, kept) \in Seq(Nodes) /\ Len(Select(s, kept)) = Cardinality(kept)
          /\ InOrder(kept) \in [1 .. Cardinality(kept) -> kept]
          /\ \A k \in 1 .. Cardinality(kept) : Select(s, kept)[k] = s[InOrder(kept)[k]]
          /\ \A i, j \in 1 .. Cardinality(kept) : i < j => InOrder(kept)[i] < InOrder(kept)[j]
          /\ \A k \in kept : \E i \in 1 .. Cardinality(kept) : InOrder(kept)[i] = k
      <3> HIDE DEF t, h
      <3> QED
        BY <1>10, SelectElements
    <2> QED
      BY <2>1
  <1> HIDE DEF t, h
  <1>4. Reindexes(s, t, h)
    <2>1. h \in [1 .. Len(t) -> 1 .. Len(s)]
      BY <1>2, <1>3
    <2> QED
      BY <1>3, <2>1 DEF Reindexes
  <1>5. ASSUME NEW q, q # p
        PROVE  HasAll(s, t, h, q)
    BY <1>2, <1>3, <1>5 DEF HasAll
  <1>6. \A k \in 1 .. Len(t) : h[k] \in 1 .. Len(s) /\ t[k] = s[h[k]] /\ t[k].prop # p
    BY <1>2, <1>3
  <1>7. \A q, n : q # p /\ Counts(s, q, n) => Counts(t, q, n)
    BY <1>3, <1>4, <1>5, ReindexedCounts
  <1>8. Counts(t, p, 0)
    <2>1. NodeOf(t, p) = {}
      BY <1>3, <1>6, NoNodes
    <2>2. Counted(t, p) = {}
      BY <2>1 DEF Counted
    <2> QED
      BY <2>2, FS_EmptySet DEF Counts
  <1>9. Heads(t, cur)
    <2> SUFFICES ASSUME NEW k \in 1 .. Len(t)
                 PROVE  t[k].can_pop <=> t[k].prop \notin cur
                                         /\ \A j \in 1 .. k - 1 : t[j].prop # t[k].prop
      BY DEF Heads
    <2>1. (\A j \in 1 .. k - 1 : t[j].prop # t[k].prop) <=>
            \A j \in 1 .. h[k] - 1 : s[j].prop # t[k].prop
      <3>1. HasAll(s, t, h, t[k].prop)
        BY <1>5, <1>6
      <3> QED
        BY <1>3, <1>4, <3>1, ReindexedFirst
    <2>2. t[k].can_pop <=> t[k].prop \notin cur /\ \A j \in 1 .. h[k] - 1 : s[j].prop # t[k].prop
      <3>1. h[k] \in 1 .. Len(s) /\ t[k] = s[h[k]]
        BY <1>6
      <3>2. s[h[k]].can_pop <=> s[h[k]].prop \notin cur
                                /\ \A j \in 1 .. h[k] - 1 : s[j].prop # s[h[k]].prop
        BY <3>1 DEF Heads
      <3> QED
        BY <3>1, <3>2, Zenon
    <2> QED
      BY <2>1, <2>2
  <1> QED
    BY <1>1, <1>3, <1>7, <1>8, <1>9

\* The empty list counts nothing.
LEMMA EmptyListEffect ==
  /\ <<>> \in Seq(Nodes)
  /\ \A cur : Heads(<<>>, cur)
  /\ \A p : Counts(<<>>, p, 0)
  <1>1. \A p : Counted(<<>>, p) = {}
    BY DEF Counted, NodeOf
  <1> QED
    BY <1>1, FS_EmptySet DEF Counts, Heads

------------------------------------------------------------------------------
(* The invariant is inductive.                                             *)

\* A step that starts no task and ends none.
SameRunners ==
  \A w \in Workers : /\ pc'[w] = "running" <=> pc[w] = "running"
                     /\ pc[w] = "running" => prop'[w] = prop[w]

\* notify_one moves only a thread that waits, and the caller.
LEMMA NotifyOnePlaces ==
  ASSUME PlacesInv, NEW self \in Threads, NEW cv \in {"wait_not_full", "wait_not_empty"},
         pc[self] \notin HoldsProp, NotifyOne(self, cv), UNCHANGED prop
  PROVE  PlacesInv' /\ SameRunners
  <1>1. \A t \in Threads : pc[t] = "wait_not_full" => t \in Adders
    BY DEF PlacesInv, Threads, AddPC, PopPC, CtlPC
  <1>2. \A t \in Threads : pc[t] = "wait_not_empty" => t \in Workers
    BY DEF PlacesInv, Threads, AddPC, PopPC, CtlPC
  <1>3. CASE pc' = [pc EXCEPT ![self] = "out"]
    BY <1>3 DEF PlacesInv, Threads, AddPC, PopPC, CtlPC, HoldsProp, SameRunners
  <1>4. ASSUME NEW t \in Threads, pc[t] = cv,
               pc' = [pc EXCEPT ![self] = "out", ![t] = Reacquire(cv)]
        PROVE  PlacesInv' /\ SameRunners
    <2>1. CASE cv = "wait_not_full"
      BY <1>1, <1>4, <2>1, SerialAssumption
         DEF PlacesInv, Threads, AddPC, PopPC, CtlPC, HoldsProp, Reacquire, SameRunners
    <2>2. CASE cv = "wait_not_empty"
      BY <1>2, <1>4, <2>2, SerialAssumption
         DEF PlacesInv, Threads, AddPC, PopPC, CtlPC, HoldsProp, Reacquire, SameRunners
    <2> QED
      BY <2>1, <2>2
  <1> QED
    BY <1>3, <1>4 DEF NotifyOne

\* notify_all moves only threads that wait, and the caller.
LEMMA NotifyAllPlaces ==
  ASSUME PlacesInv, NEW self \in Threads, pc[self] \notin HoldsProp, NotifyAll(self),
         UNCHANGED prop
  PROVE  PlacesInv' /\ SameRunners
  BY DEF NotifyAll, PlacesInv, Threads, AddPC, PopPC, CtlPC, HoldsProp, Woken, Reacquire,
         SameRunners

\* A spurious wake moves only a thread that waits.
LEMMA WakesUpPlaces ==
  ASSUME PlacesInv, NEW t \in Adders \cup Workers, WakesUp(t), UNCHANGED prop
  PROVE  PlacesInv' /\ SameRunners
  BY SerialAssumption
     DEF WakesUp, PlacesInv, Threads, AddPC, PopPC, CtlPC, HoldsProp, Reacquire, SameRunners

\* A running thread holds its property.
LEMMA RunnersHold ==
  ASSUME PlacesInv, NEW w \in Workers, pc[w] = "running"
  PROVE  prop[w] \in Props
  BY DEF PlacesInv, HoldsProp

\* The steps that leave the queue alone.
LEMMA FrameKeeps ==
  ASSUME SerialInv, PlacesInv', SameRunners, m_bstop' \in BOOLEAN,
         UNCHANGED <<queue, accepted, next>>,
         m_bstop => m_bstop' \/ \A w \in Workers : pc[w] # "running"
  PROVE  SerialInv'
  <1>1. RunInv'
    BY DEF SerialInv, RunInv, SameRunners, OneThreadPerProp, Emptied, queue
  <1>2. CountsInv'
    BY DEF SerialInv, CountsInv, Waits, PairsPending, Pending, queue
  <1>3. DequesInv'
    BY DEF SerialInv, DequesInv, Waits, Taken, queue
  <1>4. ListInv'
    BY DEF SerialInv, ListInv, Waits, queue
  <1> QED
    BY <1>1, <1>2, <1>3, <1>4 DEF SerialInv

\* SerialInv holds initially.
LEMMA SerialInvInit == Init => SerialInv
  <1> SUFFICES ASSUME Init PROVE SerialInv
    OBVIOUS
  <1>1. PlacesInv
    BY SerialAssumption DEF Init, PlacesInv, Threads, AddPC, PopPC, CtlPC, HoldsProp
  <1>2. RunInv
    BY DEF Init, RunInv, OneThreadPerProp, Threads
  <1>3. \A p \in Props : Pending(p) = {} /\ Waits(p) = 0
    BY DEF Init, Pending, Waits
  <1>4. CountsInv
    <2>1. PairsPending = {}
      BY <1>3 DEF PairsPending
    <2>2. IsFiniteSet(PairsPending) /\ Cardinality(PairsPending) = 0
      BY <2>1, FS_EmptySet
    <2> QED
      BY <1>3, <2>2 DEF Init, CountsInv
  <1>5. DequesInv
    <2>1. DOMAIN m_wait_tasks = {}
      BY DEF Init
    <2> QED
      BY <1>3, <2>1, FS_EmptySet DEF Init, DequesInv
  <1>6. ListInv
    BY <1>3, EmptyListEffect DEF Init, ListInv
  <1> QED
    BY <1>1, <1>2, <1>4, <1>5, <1>6 DEF SerialInv

\* A task is accepted: one more is pending, at the back of its deque and of the list.
LEMMA InsertKeeps ==
  ASSUME SerialInv, NEW a \in Adders, pc[a] \in {"try_lock", "add_locked"}, ~m_bstop, Insert(a)
  PROVE  SerialInv'
  <1>0. prop[a] \in Props
    BY DEF SerialInv, PlacesInv, HoldsProp
  <1> PICK p \in Props : p = prop[a]
    BY <1>0
  <1> DEFINE old == IF p \in DOMAIN m_wait_tasks THEN m_wait_tasks[p] ELSE <<>>
             is_first == p \notin m_cur_props /\ old = <<>>
  <1>1. p \in Props /\ a \notin Workers /\ a \notin Controllers
    BY SerialAssumption DEF SerialInv, PlacesInv, HoldsProp
  <1>2. PlacesInv' /\ SameRunners
    BY <1>1, SerialAssumption
       DEF SerialInv, PlacesInv, Insert, Threads, AddPC, PopPC, CtlPC, HoldsProp, SameRunners
  <1>3. /\ accepted' = [accepted EXCEPT ![p] = @ + 1] /\ next' = next
        /\ m_cur_props' = m_cur_props /\ m_bstop' = m_bstop /\ m_approx_size' = m_approx_size + 1
        /\ m_wait_props' = push_back(m_wait_props, p, is_first)
        /\ m_wait_tasks' = [q \in DOMAIN m_wait_tasks \cup {p} |->
                              IF q = p THEN Append(old, accepted[p] + 1) ELSE m_wait_tasks[q]]
    BY DEF Insert
  <1>4. RunInv'
    BY <1>2, <1>3 DEF SerialInv, RunInv, SameRunners, OneThreadPerProp, Emptied
  <1>5. /\ accepted[p] \in Nat /\ next[p] \in Nat \ {0} /\ Waits(p) \in Nat
        /\ accepted'[p] = accepted[p] + 1
        /\ \A q \in Props : q # p => accepted'[q] = accepted[q]
    BY <1>1, <1>3 DEF SerialInv, CountsInv
  <1>6. Waits(p)' = Waits(p) + 1 /\ \A q \in Props : q # p => Waits(q)' = Waits(q)
    BY <1>3, <1>5 DEF Waits
  <1>7. CountsInv'
    <2> DEFINE e == <<p, accepted[p] + 1>>
    <2>1. Pending(p)' = Pending(p) \cup {accepted[p] + 1} /\ accepted[p] + 1 \notin Pending(p)
      BY <1>3, <1>5 DEF Pending, Waits
    <2>2. \A q \in Props : q # p => Pending(q)' = Pending(q)
      BY <1>3, <1>5 DEF Pending
    <2>3. PairsPending' = PairsPending \cup {e} /\ e \notin PairsPending
      BY <1>1, <2>1, <2>2 DEF PairsPending
    <2> HIDE DEF e
    <2>4. /\ IsFiniteSet(PairsPending') /\ Cardinality(PairsPending') = Cardinality(PairsPending) + 1
          /\ Cardinality(PairsPending) \in Nat
      BY <2>3, FS_AddElement, FS_CardinalityType DEF SerialInv, CountsInv
    <2>5. accepted' \in [Props -> Nat] /\ next' \in [Props -> Nat \ {0}]
      BY <1>3, <1>5 DEF SerialInv, CountsInv
    <2>6. \A q \in Props : Waits(q)' \in Nat
      BY <1>6 DEF SerialInv, CountsInv
    <2>7. m_approx_size' \in Nat /\ Cardinality(PairsPending') <= m_approx_size'
      BY <1>3, <2>4 DEF SerialInv, CountsInv
    <2> QED
      BY <2>4, <2>5, <2>6, <2>7 DEF CountsInv
  <1>8. /\ old \in Seq(Nat) /\ Len(old) = Taken(p) + Waits(p) /\ Taken(p) \in {0, 1}
        /\ Taken(p) = 1 => old[1] = 0
        /\ \A k \in 1 .. Waits(p) : old[Taken(p) + k] = next[p] + k - 1
        /\ old = <<>> <=> Len(old) = 0
    <2>1. CASE p \in DOMAIN m_wait_tasks
      <3>1. DequeHolds(m_wait_tasks[p], Taken(p), next[p], Waits(p))
        BY <1>1, <2>1 DEF SerialInv, DequesInv
      <3>2. old = m_wait_tasks[p] /\ Taken(p) \in {0, 1}
        BY <2>1 DEF Taken
      <3> HIDE DEF old, is_first
      <3> QED
        BY <1>5, <3>1, <3>2, EmptySeq DEF DequeHolds
    <2>2. CASE p \notin DOMAIN m_wait_tasks
      <3>1. p \notin m_cur_props /\ Waits(p) = 0
        BY <1>1, <2>2 DEF SerialInv, DequesInv
      <3> QED
        BY <2>2, <3>1 DEF Taken
    <2> QED
      BY <2>1, <2>2
  <1>9. DequesInv'
    <2>1. \A q \in Props : Taken(q)' = Taken(q)
      BY <1>3 DEF Taken
    <2>2. DOMAIN m_wait_tasks' = DOMAIN m_wait_tasks \cup {p}
      BY <1>3
    <2>3. IsFiniteSet(DOMAIN m_wait_tasks') /\ DOMAIN m_wait_tasks' \in SUBSET Props
      BY <1>1, <2>2, FS_AddElement DEF SerialInv, DequesInv
    <2>4. DequeHolds(m_wait_tasks'[p], Taken(p), next[p], Waits(p) + 1)
      <3>1. m_wait_tasks'[p] = Append(old, accepted[p] + 1)
        BY <1>3
      <3> HIDE DEF old
      <3>2. /\ Append(old, accepted[p] + 1) \in Seq(Nat)
            /\ Len(Append(old, accepted[p] + 1)) = Len(old) + 1
            /\ \A i \in 1 .. Len(old) : Append(old, accepted[p] + 1)[i] = old[i]
            /\ Append(old, accepted[p] + 1)[Len(old) + 1] = accepted[p] + 1
        BY <1>5, <1>8
      <3> DEFINE d == Append(old, accepted[p] + 1)
                 T == Taken(p)
                 W == Waits(p)
      <3>3. /\ d \in Seq(Nat) /\ Len(d) = T + W + 1 /\ (T = 0 \/ T = 1) /\ W \in Nat
            /\ \A i \in 1 .. T + W : d[i] = old[i]
            /\ d[T + W + 1] = next[p] + W
            /\ T = 1 => old[1] = 0
            /\ \A k \in 1 .. W : old[T + k] = next[p] + k - 1
        BY <1>5, <1>8, <3>2 DEF Waits
      <3> HIDE DEF d, T, W
      <3>4. DequeHolds(d, T, next[p], W + 1)
        <4>1. T = 1 => d[1] = 0
          BY <3>3
        <4>2. ASSUME NEW k \in 1 .. W + 1
              PROVE  d[T + k] = next[p] + k - 1
          <5>1. CASE k = W + 1
            <6>1. T + k = T + W + 1 /\ next[p] + k - 1 = next[p] + W
              BY <1>5, <3>3, <5>1
            <6> QED
              BY <3>3, <6>1
          <5>2. CASE k # W + 1
            <6>1. k \in 1 .. W /\ T + k \in 1 .. T + W
              BY <3>3, <5>2
            <6> QED
              BY <3>3, <6>1
          <5> QED
            BY <5>1, <5>2
        <4> QED
          BY <3>3, <4>1, <4>2 DEF DequeHolds
      <3> QED
        BY <3>1, <3>4 DEF d, T, W
    <2>5. ASSUME NEW q \in Props, q # p
          PROVE  /\ q \in DOMAIN m_wait_tasks' <=> q \in DOMAIN m_wait_tasks
                 /\ q \in DOMAIN m_wait_tasks => m_wait_tasks'[q] = m_wait_tasks[q]
      BY <1>3, <2>5
    <2>6. \A q \in Props :
            /\ q \in DOMAIN m_wait_tasks' =>
                 DequeHolds(m_wait_tasks'[q], Taken(q)', next'[q], Waits(q)')
            /\ q \notin DOMAIN m_wait_tasks' => q \notin m_cur_props' /\ Waits(q)' = 0
      BY <1>3, <1>6, <2>1, <2>2, <2>4, <2>5 DEF SerialInv, DequesInv
    <2> QED
      BY <2>3, <2>6 DEF DequesInv
  <1>10. ListInv'
    <2>1. m_wait_props \in Seq(Nodes) /\ Heads(m_wait_props, m_cur_props)
          /\ \A q \in Props : Counts(m_wait_props, q, Waits(q))
      BY DEF SerialInv, ListInv
    <2>2. NodeOf(m_wait_props, p) = {} => (is_first <=> p \notin m_cur_props)
      <3>1. NodeOf(m_wait_props, p) = {} => Waits(p) = 0
        <4>1. m_wait_props \in Seq(Nodes) /\ Waits(p) \in Nat /\ Counts(m_wait_props, p, Waits(p))
          BY <1>5, <2>1
        <4>2. Waits(p) = 0 <=> \A i \in 1 .. Len(m_wait_props) : m_wait_props[i].prop # p
          BY <4>1, NodesWait
        <4> QED
          BY <4>1, <4>2, NoNodes
      <3> QED
        BY <1>8, <3>1 DEF Taken
    <2>3. is_first \in BOOLEAN
      OBVIOUS
    <2> HIDE DEF is_first, old
    <2>4. /\ m_wait_props' \in Seq(Nodes)
          /\ \A q : q # p => Counted(m_wait_props', q) = Counted(m_wait_props, q)
          /\ \E e : e \notin Counted(m_wait_props, p)
                    /\ Counted(m_wait_props', p) = Counted(m_wait_props, p) \cup {e}
          /\ Heads(m_wait_props', m_cur_props)
      BY <1>1, <1>3, <2>1, <2>2, <2>3, PushBackEffect
    <2>5. Counts(m_wait_props', p, Waits(p) + 1)
      <3>1. PICK e : e \notin Counted(m_wait_props, p)
                     /\ Counted(m_wait_props', p) = Counted(m_wait_props, p) \cup {e}
        BY <2>4
      <3>2. Counts(m_wait_props, p, Waits(p))
        BY <1>1, <2>1
      <3> QED
        BY <3>1, <3>2, FS_AddElement DEF Counts
    <2>6. \A q \in Props : Counts(m_wait_props', q, Waits(q)')
      <3>1. \A q \in Props : q # p => Counts(m_wait_props', q, Waits(q))
        BY <2>1, <2>4 DEF Counts
      <3> QED
        BY <1>6, <2>5, <3>1
    <2> QED
      BY <1>3, <2>4, <2>6 DEF ListInv
  <1> QED
    BY <1>2, <1>4, <1>7, <1>9, <1>10 DEF SerialInv

\* What pop_task takes: the first task that waits, of a property that is not run.
LEMMA TakenIs ==
  ASSUME SerialInv, NEW w \in Workers, PopTake(w)
  PROVE  \E i \in 1 .. Len(m_wait_props), p \in Props :
           /\ m_wait_props[i].prop = p /\ m_wait_props[i].can_pop
           /\ p \notin m_cur_props /\ p \in DOMAIN m_wait_tasks /\ Waits(p) # 0
           /\ m_wait_props' = pop_front(m_wait_props, i)
           /\ m_cur_props' = m_cur_props \cup {p}
           /\ m_wait_tasks' = [q \in DOMAIN m_wait_tasks |->
                                 IF q = p THEN [m_wait_tasks[p] EXCEPT ![1] = 0]
                                          ELSE m_wait_tasks[q]]
           /\ next' = [next EXCEPT ![p] = next[p] + 1]
           /\ prop' = [prop EXCEPT ![w] = p]
           /\ pc' = [pc EXCEPT ![w] = "running"]
  <1> DEFINE i == FirstOf(Poppable(m_wait_props))
             p == m_wait_props[i].prop
             task == IF p \in DOMAIN m_wait_tasks THEN Head(m_wait_tasks[p]) ELSE 0
  <1>1. m_wait_props \in Seq(Nodes) /\ Heads(m_wait_props, m_cur_props)
        /\ \A q \in Props : Counts(m_wait_props, q, Waits(q)) /\ Waits(q) \in Nat
    BY DEF SerialInv, ListInv, CountsInv
  <1>2. i \in 1 .. Len(m_wait_props) /\ m_wait_props[i].can_pop
    <2>1. Poppable(m_wait_props) \in SUBSET Nat /\ Poppable(m_wait_props) # {}
      BY <1>1 DEF PopTake, Poppable
    <2>2. i \in Poppable(m_wait_props)
      BY <2>1, FirstOfIs
    <2> HIDE DEF i
    <2> QED
      BY <1>1, <2>2 DEF Poppable
  <1> HIDE DEF i
  <1>3. p \in Props /\ p \notin m_cur_props
    BY <1>1, <1>2, NodesAre DEF Heads
  <1>4. Waits(p) # 0
    <2>1. Counts(m_wait_props, p, Waits(p)) /\ Waits(p) \in Nat
      BY <1>1, <1>3
    <2>2. Waits(p) = 0 <=> \A j \in 1 .. Len(m_wait_props) : m_wait_props[j].prop # p
      BY <1>1, <2>1, NodesWait
    <2> QED
      BY <1>2, <2>2
  <1>5. p \in DOMAIN m_wait_tasks /\ task = next[p] /\ task # 0
    <2>1. p \in DOMAIN m_wait_tasks
      BY <1>3, <1>4 DEF SerialInv, DequesInv
    <2>2. /\ m_wait_tasks[p] \in Seq(Nat) /\ Len(m_wait_tasks[p]) = Waits(p)
          /\ \A k \in 1 .. Waits(p) : m_wait_tasks[p][k] = next[p] + k - 1
      <3> HIDE DEF p, task
      <3>1. DequeHolds(m_wait_tasks[p], Taken(p), next[p], Waits(p))
        BY <1>3, <2>1 DEF SerialInv, DequesInv
      <3>2. Taken(p) = 0
        BY <1>3 DEF Taken
      <3>3. Waits(p) \in Nat /\ next[p] \in Nat
        BY <1>1, <1>3 DEF SerialInv, CountsInv
      <3> QED
        BY <3>1, <3>2, <3>3 DEF DequeHolds
    <2>3. 1 \in 1 .. Waits(p) /\ next[p] \in Nat \ {0}
      BY <1>1, <1>3, <1>4 DEF SerialInv, CountsInv
    <2>4. m_wait_tasks[p][1] = next[p]
      BY <2>2, <2>3
    <2>5. Head(m_wait_tasks[p]) = m_wait_tasks[p][1]
      BY <2>2, <2>3
    <2> QED
      BY <2>1, <2>3, <2>4, <2>5
  <1>6. /\ m_wait_props' = pop_front(m_wait_props, i)
        /\ m_cur_props' = m_cur_props \cup {p}
        /\ m_wait_tasks' = [q \in DOMAIN m_wait_tasks |->
                              IF q = p THEN [m_wait_tasks[p] EXCEPT ![1] = 0]
                                       ELSE m_wait_tasks[q]]
        /\ task # 0 => /\ next' = [next EXCEPT ![p] = task + 1]
                       /\ prop' = [prop EXCEPT ![w] = p]
                       /\ pc' = [pc EXCEPT ![w] = "running"]
    BY DEF PopTake, i
  <1> HIDE DEF p, task
  <1>7. m_wait_props[i].prop = p
    BY DEF p
  <1> QED
    BY <1>2, <1>3, <1>4, <1>5, <1>6, <1>7

\* A task is taken: its property counts one less and may not be taken again.
LEMMA PopTakeKeeps ==
  ASSUME SerialInv, NEW w \in Workers, PopTake(w)
  PROVE  SerialInv'
  <1>1. PICK i \in 1 .. Len(m_wait_props), p \in Props :
           /\ m_wait_props[i].prop = p /\ m_wait_props[i].can_pop
           /\ p \notin m_cur_props /\ p \in DOMAIN m_wait_tasks /\ Waits(p) # 0
           /\ m_wait_props' = pop_front(m_wait_props, i)
           /\ m_cur_props' = m_cur_props \cup {p}
           /\ m_wait_tasks' = [q \in DOMAIN m_wait_tasks |->
                                 IF q = p THEN [m_wait_tasks[p] EXCEPT ![1] = 0]
                                          ELSE m_wait_tasks[q]]
           /\ next' = [next EXCEPT ![p] = next[p] + 1]
           /\ prop' = [prop EXCEPT ![w] = p]
           /\ pc' = [pc EXCEPT ![w] = "running"]
    BY TakenIs
  <1>2. /\ pc[w] = "pop_lock" /\ m_approx_size' = m_approx_size - 1
        /\ m_bstop' = m_bstop /\ accepted' = accepted
    BY DEF PopTake
  <1>3. w \notin Adders /\ w \notin Controllers /\ w \in Threads
    BY SerialAssumption DEF Threads
  <1>4. PlacesInv'
    BY <1>1, <1>2, <1>3, SerialAssumption
       DEF SerialInv, PlacesInv, Threads, AddPC, PopPC, CtlPC, HoldsProp
  <1>5. RunInv'
    <2>1. m_wait_props # <<>>
      BY <1>1
    <2>2. ~Emptied
      BY <2>1 DEF Emptied
    <2>3. /\ pc'[w] = "running" /\ prop'[w] = p
          /\ \A v \in Workers : v # w => pc'[v] = pc[v] /\ prop'[v] = prop[v]
      BY <1>1, <1>3 DEF SerialInv, PlacesInv
    <2>4. \A v \in Workers : pc[v] = "running" => prop[v] \in m_cur_props /\ prop[v] # p
      BY <1>1, <2>2 DEF SerialInv, RunInv
    <2>5. OneThreadPerProp'
      BY <2>3, <2>4 DEF SerialInv, RunInv, OneThreadPerProp
    <2>6. \A q \in m_cur_props' : \E v \in Workers : pc'[v] = "running" /\ prop'[v] = q
      BY <1>1, <1>2, <2>3 DEF SerialInv, RunInv
    <2> QED
      BY <1>1, <1>2, <2>3, <2>4, <2>5, <2>6 DEF SerialInv, RunInv
  <1>6. /\ accepted[p] \in Nat /\ next[p] \in Nat \ {0} /\ Waits(p) \in Nat \ {0}
        /\ next'[p] = next[p] + 1
        /\ \A q \in Props : q # p => next'[q] = next[q]
    BY <1>1 DEF SerialInv, CountsInv
  <1>7. Waits(p)' = Waits(p) - 1 /\ \A q \in Props : q # p => Waits(q)' = Waits(q)
    BY <1>2, <1>6 DEF Waits
  <1>8. CountsInv'
    <2> DEFINE e == <<p, next[p]>>
    <2>1. Pending(p)' = Pending(p) \ {next[p]} /\ next[p] \in Pending(p)
      BY <1>2, <1>6 DEF Pending, Waits
    <2>2. \A q \in Props : q # p => Pending(q)' = Pending(q)
      BY <1>2, <1>6 DEF Pending
    <2>3. PairsPending' = PairsPending \ {e} /\ e \in PairsPending
      BY <2>1, <2>2 DEF PairsPending
    <2> HIDE DEF e
    <2>4. /\ IsFiniteSet(PairsPending') /\ Cardinality(PairsPending') = Cardinality(PairsPending) - 1
          /\ Cardinality(PairsPending) \in Nat /\ Cardinality(PairsPending') \in Nat
      <3>1. IsFiniteSet(PairsPending)
        BY DEF SerialInv, CountsInv
      <3>2. IsFiniteSet(PairsPending') /\ Cardinality(PairsPending') = Cardinality(PairsPending) - 1
        BY <2>3, <3>1, FS_RemoveElement
      <3> QED
        BY <3>1, <3>2, FS_CardinalityType
    <2>5. next' \in [Props -> Nat \ {0}]
      BY <1>1, <1>6 DEF SerialInv, CountsInv
    <2>6. \A q \in Props : Waits(q)' \in Nat
      BY <1>6, <1>7 DEF SerialInv, CountsInv
    <2>7. m_approx_size' \in Nat /\ Cardinality(PairsPending') <= m_approx_size'
      BY <1>2, <2>4 DEF SerialInv, CountsInv
    <2>8. accepted' \in [Props -> Nat]
      BY <1>2 DEF SerialInv, CountsInv
    <2> QED
      BY <2>4, <2>5, <2>6, <2>7, <2>8 DEF CountsInv
  <1>9. DequesInv'
    <2>1. /\ Taken(p) = 0 /\ Taken(p)' = 1
          /\ \A q \in Props : q # p => Taken(q)' = Taken(q)
      BY <1>1 DEF Taken
    <2>2. DOMAIN m_wait_tasks' = DOMAIN m_wait_tasks
      BY <1>1
    <2>3. DequeHolds(m_wait_tasks'[p], 1, next[p] + 1, Waits(p) - 1)
      <3> DEFINE d == m_wait_tasks[p]
                 W == Waits(p)
                 e == [d EXCEPT ![1] = 0]
      <3>1. /\ d \in Seq(Nat) /\ Len(d) = W /\ W \in Nat \ {0}
            /\ \A k \in 1 .. W : d[k] = next[p] + k - 1
        BY <1>1, <1>6, <2>1 DEF SerialInv, DequesInv, DequeHolds
      <3>2. m_wait_tasks'[p] = e
        BY <1>1
      <3> HIDE DEF d, W
      <3>3. /\ e \in Seq(Nat) /\ Len(e) = W /\ e[1] = 0
            /\ \A k \in 1 .. W : k # 1 => e[k] = d[k]
        <4>1. 1 \in 1 .. Len(d) /\ 0 \in Nat /\ d \in Seq(Nat) /\ Len(d) = W
          BY <3>1
        <4>2. e \in Seq(Nat) /\ Len(e) = Len(d) /\ e[1] = 0
          BY <4>1
        <4>3. \A k \in 1 .. Len(d) : k # 1 => e[k] = d[k]
          BY <4>1
        <4> QED
          BY <4>1, <4>2, <4>3
      <3> HIDE DEF e
      <3>4. ASSUME NEW k \in 1 .. W - 1
            PROVE  e[1 + k] = (next[p] + 1) + k - 1
        <4>1. 1 + k \in 1 .. W /\ 1 + k # 1
          BY <3>1
        <4>2. e[1 + k] = next[p] + (1 + k) - 1
          BY <3>1, <3>3, <4>1
        <4>3. k \in Int /\ next[p] \in Int
          BY <1>6, <3>1
        <4> QED
          BY ONLY <4>2, <4>3
      <3>5. DequeHolds(e, 1, next[p] + 1, W - 1)
        BY <3>1, <3>3, <3>4 DEF DequeHolds
      <3> QED
        BY <3>2, <3>5 DEF W
    <2>4. \A q \in Props : q # p /\ q \in DOMAIN m_wait_tasks => m_wait_tasks'[q] = m_wait_tasks[q]
      BY <1>1
    <2>5. ASSUME NEW q \in Props
          PROVE  /\ q \in DOMAIN m_wait_tasks' =>
                      DequeHolds(m_wait_tasks'[q], Taken(q)', next'[q], Waits(q)')
                 /\ q \notin DOMAIN m_wait_tasks' => q \notin m_cur_props' /\ Waits(q)' = 0
      <3>1. CASE q = p
        BY <1>1, <1>6, <1>7, <2>1, <2>2, <2>3, <3>1
      <3>2. CASE q # p
        BY <1>1, <1>6, <1>7, <2>1, <2>2, <2>4, <3>2 DEF SerialInv, DequesInv
      <3> QED
        BY <3>1, <3>2
    <2> QED
      BY <2>2, <2>5 DEF SerialInv, DequesInv
  <1>10. ListInv'
    <2>1. m_wait_props \in Seq(Nodes) /\ Heads(m_wait_props, m_cur_props)
          /\ \A q \in Props : Counts(m_wait_props, q, Waits(q))
      BY DEF SerialInv, ListInv
    <2>2. /\ m_wait_props' \in Seq(Nodes) /\ Heads(m_wait_props', m_cur_props')
          /\ \A q, n : q # p /\ Counts(m_wait_props, q, n) => Counts(m_wait_props', q, n)
          /\ \A n : Counts(m_wait_props, p, n) => Counts(m_wait_props', p, n - 1)
      BY <1>1, <2>1, PopFrontEffect
    <2>3. \A q \in Props : Counts(m_wait_props', q, Waits(q)')
      BY <1>7, <2>1, <2>2
    <2> QED
      BY <2>2, <2>3 DEF ListInv
  <1> QED
    BY <1>4, <1>5, <1>8, <1>9, <1>10 DEF SerialInv

\* The end of a task whose queue stop(false) has emptied meanwhile changes nothing in it.
LEMMA PopFinishKeepsEmptied ==
  ASSUME SerialInv, NEW w \in Workers, PopFinish(w), Emptied
  PROVE  /\ m_wait_props' = m_wait_props /\ m_cur_props' = m_cur_props
         /\ DOMAIN m_wait_tasks' = DOMAIN m_wait_tasks
  <1>1. m_wait_props' = m_wait_props
    <2>1. NodeOf(m_wait_props, prop[w]) = {}
      BY DEF Emptied, NodeOf
    <2> QED
      BY <2>1 DEF PopFinish, reset_prop
  <1>2. m_cur_props' = m_cur_props
    BY DEF Emptied, PopFinish
  <1>3. DOMAIN m_wait_tasks' = {}
    BY DEF Emptied, PopFinish
  <1> QED
    BY <1>1, <1>2, <1>3 DEF Emptied

\* A task returns: it leaves its deque, and the next one of its property may be taken.
LEMMA PopFinishKeeps ==
  ASSUME SerialInv, NEW w \in Workers, PopFinish(w)
  PROVE  SerialInv'
  <1>0. pc[w] = "running" /\ prop[w] \in Props
    BY RunnersHold DEF SerialInv, PopFinish
  <1> PICK p \in Props : p = prop[w]
    BY <1>0
  <1> DEFINE rest == IF p \in DOMAIN m_wait_tasks THEN Tail(m_wait_tasks[p]) ELSE <<>>
             kept == IF rest = <<>> THEN DOMAIN m_wait_tasks \ {p} ELSE DOMAIN m_wait_tasks
  <1>1. /\ m_wait_tasks' = [q \in kept |-> IF q = p THEN rest ELSE m_wait_tasks[q]]
        /\ m_cur_props' = m_cur_props \ {p}
        /\ m_wait_props' = reset_prop(m_wait_props, p)
        /\ pc' = [pc EXCEPT ![w] = "finish_notify"]
        /\ prop' = [prop EXCEPT ![w] = NoProp]
        /\ m_bstop' = m_bstop /\ m_approx_size' = m_approx_size
        /\ accepted' = accepted /\ next' = next
    BY DEF PopFinish
  <1>2. w \notin Adders /\ w \notin Controllers /\ w \in Threads
    BY SerialAssumption DEF Threads
  <1>3. PlacesInv'
    BY <1>0, <1>1, <1>2, SerialAssumption
       DEF SerialInv, PlacesInv, Threads, AddPC, PopPC, CtlPC, HoldsProp
  <1>4. p \in m_cur_props \/ Emptied
    BY <1>0 DEF SerialInv, RunInv
  <1>5. RunInv'
    <2>1. /\ pc'[w] # "running"
          /\ \A v \in Workers : v # w => pc'[v] = pc[v] /\ prop'[v] = prop[v]
      BY <1>1, <1>2 DEF SerialInv, PlacesInv
    <2>2. \A v \in Workers : v # w /\ pc[v] = "running" => prop[v] # p
      BY <1>0 DEF SerialInv, RunInv, OneThreadPerProp
    <2>3. Emptied => Emptied'
      BY <1>1, PopFinishKeepsEmptied DEF Emptied
    <2>4. OneThreadPerProp'
      BY <2>1 DEF SerialInv, RunInv, OneThreadPerProp
    <2>5. \A q \in m_cur_props' : \E v \in Workers : pc'[v] = "running" /\ prop'[v] = q
      BY <1>1, <2>1 DEF SerialInv, RunInv
    <2>6. \A v \in Workers : pc'[v] = "running" => prop'[v] \in m_cur_props' \/ Emptied'
      BY <1>1, <2>1, <2>2, <2>3 DEF SerialInv, RunInv
    <2> QED
      BY <1>1, <2>4, <2>5, <2>6 DEF SerialInv, RunInv
  <1>6. \A q \in Props : Waits(q)' = Waits(q) /\ Pending(q)' = Pending(q)
    BY <1>1 DEF Waits, Pending
  <1>7. CountsInv'
    BY <1>1, <1>6 DEF SerialInv, CountsInv, PairsPending
  <1>8. DequesInv'
    <2>1. CASE p \in m_cur_props
      <3>1. /\ p \in DOMAIN m_wait_tasks /\ Taken(p) = 1 /\ Taken(p)' = 0
            /\ \A q \in Props : q # p => Taken(q)' = Taken(q)
            /\ Waits(p) \in Nat /\ next[p] \in Nat
        BY <1>1, <2>1 DEF SerialInv, DequesInv, Taken, CountsInv
      <3>2. /\ rest \in Seq(Nat) /\ Len(rest) = Waits(p)
            /\ \A k \in 1 .. Waits(p) : rest[k] = next[p] + k - 1
            /\ rest = <<>> <=> Waits(p) = 0
        <4> DEFINE d == m_wait_tasks[p]
                   W == Waits(p)
        <4>1. /\ d \in Seq(Nat) /\ Len(d) = 1 + W /\ W \in Nat
              /\ \A k \in 1 .. W : d[1 + k] = next[p] + k - 1
          <5> HIDE DEF rest
          <5>1. DequeHolds(d, Taken(p), next[p], W)
            BY <1>1, <3>1 DEF SerialInv, DequesInv
          <5> HIDE DEF d, W
          <5>2. Taken(p) = 1 /\ W \in Nat
            BY <3>1 DEF W
          <5> QED
            BY <5>1, <5>2 DEF DequeHolds
        <4>2. rest = Tail(d)
          BY <3>1
        <4> HIDE DEF d, W, rest
        <4>3. /\ Tail(d) \in Seq(Nat) /\ Len(Tail(d)) = W
              /\ \A k \in 1 .. W : Tail(d)[k] = d[k + 1]
          BY <4>1
        <4>4. Tail(d) = <<>> <=> W = 0
          <5>1. \A t \in Seq(Nat) : t = <<>> <=> Len(t) = 0
            OBVIOUS
          <5> QED
            BY <4>3, <5>1
        <4>5. \A k \in 1 .. W : Tail(d)[k] = next[p] + k - 1
          BY <4>1, <4>3
        <4> QED
          BY <4>2, <4>3, <4>4, <4>5 DEF W
      <3> HIDE DEF rest
      <3>3. Waits(p) # 0 => DequeHolds(rest, 0, next[p], Waits(p))
        BY <3>1, <3>2 DEF DequeHolds
      <3>4. DOMAIN m_wait_tasks' = kept
        BY <1>1
      <3>5. p \in DOMAIN m_wait_tasks' <=> Waits(p) # 0
        BY <3>1, <3>2, <3>4
      <3>6. \A q \in Props : q # p => (q \in DOMAIN m_wait_tasks' <=> q \in DOMAIN m_wait_tasks)
        BY <3>4
      <3>7. \A q \in DOMAIN m_wait_tasks' :
              m_wait_tasks'[q] = IF q = p THEN rest ELSE m_wait_tasks[q]
        BY <1>1, <3>4
      <3>8. IsFiniteSet(DOMAIN m_wait_tasks') /\ DOMAIN m_wait_tasks' \in SUBSET Props
        BY <3>4, FS_Subset DEF SerialInv, DequesInv
      <3>9. ASSUME NEW q \in Props
            PROVE  /\ q \in DOMAIN m_wait_tasks' =>
                        DequeHolds(m_wait_tasks'[q], Taken(q)', next'[q], Waits(q)')
                   /\ q \notin DOMAIN m_wait_tasks' => q \notin m_cur_props' /\ Waits(q)' = 0
        <4>1. CASE q = p
          BY <1>1, <1>6, <3>1, <3>3, <3>5, <3>7, <4>1
        <4>2. CASE q # p
          BY <1>1, <1>6, <3>1, <3>6, <3>7, <4>2 DEF SerialInv, DequesInv
        <4> QED
          BY <4>1, <4>2
      <3> QED
        BY <3>8, <3>9 DEF DequesInv
    <2>2. CASE Emptied
      <3>1. DOMAIN m_wait_tasks' = DOMAIN m_wait_tasks /\ m_cur_props' = m_cur_props
        BY <2>2, PopFinishKeepsEmptied
      <3>2. DOMAIN m_wait_tasks = {}
        BY <2>2 DEF Emptied
      <3> QED
        BY <1>6, <3>1, <3>2 DEF SerialInv, DequesInv
    <2> QED
      BY <1>4, <2>1, <2>2
  <1>9. ListInv'
    <2>1. m_wait_props \in Seq(Nodes) /\ Heads(m_wait_props, m_cur_props)
          /\ \A q \in Props : Counts(m_wait_props, q, Waits(q))
      BY DEF SerialInv, ListInv
    <2>2. p \in m_cur_props \/ NodeOf(m_wait_props, p) = {}
      BY <1>4 DEF Emptied, NodeOf
    <2>3. /\ m_wait_props' \in Seq(Nodes) /\ Heads(m_wait_props', m_cur_props')
          /\ \A q, n : Counts(m_wait_props, q, n) => Counts(m_wait_props', q, n)
      BY <1>1, <2>1, <2>2, ResetPropEffect
    <2> QED
      BY <1>6, <2>1, <2>3 DEF ListInv
  <1> QED
    BY <1>3, <1>5, <1>7, <1>8, <1>9 DEF SerialInv

\* Nothing waits afterwards; a task that still runs finds the queue stopped.
LEMMA ClearInnerKeeps ==
  ASSUME SerialInv, NEW c \in Controllers, pc[c] = "out", clear_inner(c),
         UNCHANGED <<prop, accepted>>, m_bstop' \in BOOLEAN,
         m_bstop' \/ \A w \in Workers : pc[w] # "running"
  PROVE  SerialInv'
  <1>1. PlacesInv' /\ SameRunners
    BY NotifyAllPlaces DEF SerialInv, clear_inner, Threads, HoldsProp
  <1>2. /\ m_wait_props' = <<>> /\ DOMAIN m_wait_tasks' = {} /\ m_cur_props' = {}
        /\ next' = [p \in Props |-> accepted[p] + 1] /\ m_approx_size' = m_approx_size
    BY DEF clear_inner
  <1>3. RunInv'
    <2>1. \A w \in Workers : pc'[w] = "running" => Emptied'
      BY <1>1, <1>2 DEF SameRunners, Emptied
    <2>2. OneThreadPerProp'
      BY <1>1 DEF SerialInv, RunInv, OneThreadPerProp, SameRunners
    <2> QED
      BY <1>2, <2>1, <2>2 DEF RunInv
  <1>4. \A p \in Props : Waits(p)' = 0 /\ Pending(p)' = {} /\ next'[p] \in Nat \ {0}
    BY <1>2 DEF SerialInv, CountsInv, Waits, Pending
  <1>5. CountsInv'
    <2>1. PairsPending' = {}
      BY <1>4 DEF PairsPending
    <2>2. IsFiniteSet(PairsPending') /\ Cardinality(PairsPending') = 0
      BY <2>1, FS_EmptySet
    <2>3. next' \in [Props -> Nat \ {0}]
      BY <1>2, <1>4
    <2> QED
      BY <1>2, <1>4, <2>2, <2>3 DEF SerialInv, CountsInv
  <1>6. DequesInv'
    BY <1>2, <1>4, FS_EmptySet DEF DequesInv
  <1>7. ListInv'
    BY <1>2, <1>4, EmptyListEffect DEF ListInv
  <1> QED
    BY <1>1, <1>3, <1>5, <1>6, <1>7 DEF SerialInv

\* remove_prop drops the tasks of a property that is not run.
LEMMA RemovePropKeeps ==
  ASSUME CallersWait, SerialInv, NEW c \in Controllers, NEW p \in Props, RemoveProp(c, p)
  PROVE  SerialInv'
  <1>1. /\ m_wait_tasks' = [q \in DOMAIN m_wait_tasks \ {p} |-> m_wait_tasks[q]]
        /\ m_wait_props' = remove_nodes(m_wait_props, p)
        /\ next' = [next EXCEPT ![p] = accepted[p] + 1]
        /\ pc[c] = "out" /\ pc' = [pc EXCEPT ![c] = "remove_notify"]
        /\ m_bstop' = m_bstop /\ m_approx_size' = m_approx_size /\ m_cur_props' = m_cur_props
        /\ prop' = prop /\ accepted' = accepted
    BY DEF RemoveProp
  <1>2. p \notin m_cur_props
    BY DEF RemoveProp, MayConcern, NoneRuns, SerialInv, RunInv
  <1>3. c \notin Adders /\ c \notin Workers /\ c \in Threads
    BY SerialAssumption DEF Threads
  <1>4. PlacesInv' /\ SameRunners
    BY <1>1, <1>3, SerialAssumption
       DEF SerialInv, PlacesInv, Threads, AddPC, PopPC, CtlPC, HoldsProp, SameRunners
  <1>5. /\ m_wait_props \in Seq(Nodes) /\ Heads(m_wait_props, m_cur_props)
        /\ \A q \in Props : Counts(m_wait_props, q, Waits(q))
    BY DEF SerialInv, ListInv
  <1>6. /\ m_wait_props' \in Seq(Nodes) /\ Heads(m_wait_props', m_cur_props')
        /\ Counts(m_wait_props', p, 0)
        /\ \A q, n : q # p /\ Counts(m_wait_props, q, n) => Counts(m_wait_props', q, n)
    BY <1>1, <1>5, RemoveNodesEffect
  <1>7. RunInv'
    <2>1. Emptied => Emptied'
      <3> SUFFICES ASSUME Emptied PROVE Emptied'
        OBVIOUS
      <3>1. DOMAIN m_wait_tasks' = {}
        BY <1>1 DEF Emptied
      <3>2. DOMAIN m_wait_props \ NodeOf(m_wait_props, p) = {}
        BY DEF Emptied
      <3>3. m_wait_props' = <<>>
        <4>1. {} \in SUBSET (DOMAIN m_wait_props) /\ Cardinality({}) = 0
          BY FS_EmptySet
        <4>2. Len(Select(m_wait_props, {})) = Cardinality({})
          BY <1>5, <4>1, SelectElements
        <4>3. m_wait_props' = Select(m_wait_props, {})
          BY <1>1, <3>2 DEF remove_nodes
        <4>4. \A s \in Seq(Nodes) : Len(s) = 0 => s = <<>>
          OBVIOUS
        <4> QED
          BY <1>6, <4>1, <4>2, <4>3, <4>4
      <3> QED
        BY <1>1, <3>1, <3>3 DEF Emptied
    <2> QED
      BY <1>1, <1>4, <2>1 DEF SerialInv, RunInv, OneThreadPerProp, SameRunners
  <1>8. /\ accepted[p] \in Nat /\ next[p] \in Nat \ {0}
        /\ next'[p] = accepted[p] + 1 /\ \A q \in Props : q # p => next'[q] = next[q]
        /\ next' \in [Props -> Nat \ {0}]
    BY <1>1 DEF SerialInv, CountsInv
  <1>9. Waits(p)' = 0 /\ \A q \in Props : q # p => Waits(q)' = Waits(q)
    BY <1>1, <1>8 DEF Waits
  <1>10. CountsInv'
    <2>1. Pending(p)' = {} /\ \A q \in Props : q # p => Pending(q)' = Pending(q)
      BY <1>1, <1>8 DEF Pending
    <2>2. PairsPending' \subseteq PairsPending
      BY <2>1 DEF PairsPending
    <2>3. /\ IsFiniteSet(PairsPending) /\ Cardinality(PairsPending) <= m_approx_size
          /\ m_approx_size \in Nat
      BY DEF SerialInv, CountsInv
    <2>4. /\ IsFiniteSet(PairsPending') /\ Cardinality(PairsPending') <= Cardinality(PairsPending)
          /\ Cardinality(PairsPending') \in Nat /\ Cardinality(PairsPending) \in Nat
      <3>1. /\ IsFiniteSet(PairsPending')
            /\ Cardinality(PairsPending') <= Cardinality(PairsPending)
        BY <2>2, <2>3, FS_Subset
      <3> QED
        BY <2>3, <3>1, FS_CardinalityType
    <2>5. Cardinality(PairsPending') <= m_approx_size'
      BY <1>1, <2>3, <2>4
    <2> QED
      BY <1>1, <1>8, <1>9, <2>3, <2>4, <2>5 DEF SerialInv, CountsInv
  <1>11. DequesInv'
    <2>1. DOMAIN m_wait_tasks' = DOMAIN m_wait_tasks \ {p}
          /\ \A q \in DOMAIN m_wait_tasks' : m_wait_tasks'[q] = m_wait_tasks[q]
      BY <1>1
    <2>2. \A q \in Props : Taken(q)' = Taken(q)
      BY <1>1 DEF Taken
    <2>3. IsFiniteSet(DOMAIN m_wait_tasks') /\ DOMAIN m_wait_tasks' \in SUBSET Props
      BY <2>1, FS_Subset DEF SerialInv, DequesInv
    <2> QED
      BY <1>1, <1>2, <1>8, <1>9, <2>1, <2>2, <2>3 DEF SerialInv, DequesInv
  <1>12. ListInv'
    BY <1>5, <1>6, <1>9 DEF ListInv
  <1> QED
    BY <1>4, <1>7, <1>10, <1>11, <1>12 DEF SerialInv

\* add_task keeps the invariant.
LEMMA AddKeeps ==
  ASSUME SerialInv, NEW a \in Adders, add_task(a)
  PROVE  SerialInv'
  <1>0. a \in Threads /\ a \notin Workers /\ a \notin Controllers
    BY SerialAssumption DEF Threads
  <1> USE DEF SerialInv
  <1>1. ASSUME NEW p \in Props, CallAdd(a, p)
        PROVE  SerialInv'
    <2>1. PlacesInv' /\ SameRunners
      BY <1>0, <1>1, SerialAssumption
         DEF CallAdd, PlacesInv, Threads, AddPC, PopPC, CtlPC, HoldsProp, SameRunners
    <2> QED
      BY <1>1, <2>1, FrameKeeps DEF CallAdd, RunInv
  <1>2. ASSUME Refuse(a), pc[a] \in {"try_lock", "add_locked"}
        PROVE  SerialInv'
    <2>1. PlacesInv' /\ SameRunners
      BY <1>0, <1>2, SerialAssumption
         DEF Refuse, PlacesInv, Threads, AddPC, PopPC, CtlPC, HoldsProp, SameRunners
    <2> QED
      BY <1>2, <2>1, FrameKeeps DEF Refuse, RunInv
  <1>3. CASE AddFast(a)
    BY <1>2, <1>3, InsertKeeps DEF AddFast
  <1>4. CASE TryLockFails(a)
    <2>1. PlacesInv' /\ SameRunners
      BY <1>0, <1>4, SerialAssumption
         DEF TryLockFails, PlacesInv, Threads, AddPC, PopPC, CtlPC, HoldsProp, SameRunners
    <2> QED
      BY <1>4, <2>1, FrameKeeps DEF TryLockFails, RunInv
  <1>5. CASE AddWait(a)
    <2>1. PlacesInv' /\ SameRunners
      BY <1>0, <1>5, SerialAssumption
         DEF AddWait, PlacesInv, Threads, AddPC, PopPC, CtlPC, HoldsProp, SameRunners
    <2> QED
      BY <1>5, <2>1, FrameKeeps DEF AddWait, RunInv
  <1>6. CASE AddSlow(a)
    BY <1>2, <1>6, InsertKeeps DEF AddSlow
  <1>7. CASE AddNotify(a)
    <2>1. PlacesInv' /\ SameRunners
      BY <1>0, <1>7, NotifyOnePlaces DEF AddNotify, HoldsProp
    <2> QED
      BY <1>7, <2>1, FrameKeeps DEF AddNotify, RunInv
  <1> QED
    BY <1>1, <1>3, <1>4, <1>5, <1>6, <1>7 DEF add_task

\* pop_task keeps the invariant.
LEMMA PopKeeps ==
  ASSUME SerialInv, NEW w \in Workers, pop_task(w)
  PROVE  SerialInv'
  <1>0. w \in Threads /\ w \notin Adders /\ w \notin Controllers
    BY SerialAssumption DEF Threads
  <1>1. CASE CallPop(w)
    <2>1. PlacesInv' /\ SameRunners
      BY <1>0, <1>1, SerialAssumption
         DEF SerialInv, CallPop, PlacesInv, Threads, AddPC, PopPC, CtlPC, HoldsProp, SameRunners
    <2> QED
      BY <1>1, <2>1, FrameKeeps DEF SerialInv, CallPop, RunInv
  <1>2. CASE PopNothing(w)
    <2>1. PlacesInv' /\ SameRunners
      BY <1>0, <1>2, SerialAssumption
         DEF SerialInv, PopNothing, PlacesInv, Threads, AddPC, PopPC, CtlPC, HoldsProp, SameRunners
    <2> QED
      BY <1>2, <2>1, FrameKeeps DEF SerialInv, PopNothing, RunInv
  <1>3. CASE PopNotify(w)
    <2>1. PlacesInv' /\ SameRunners
      BY <1>0, <1>3, NotifyOnePlaces DEF SerialInv, PopNotify, HoldsProp
    <2> QED
      BY <1>3, <2>1, FrameKeeps DEF SerialInv, PopNotify, RunInv
  <1> QED
    BY <1>1, <1>2, <1>3, PopTakeKeeps, PopFinishKeeps DEF pop_task

\* The control functions keep the invariant, when no task they concern runs.
LEMMA ControlKeeps ==
  ASSUME CallersWait, SerialInv, NEW c \in Controllers, control(c)
  PROVE  SerialInv'
  <1>0. c \in Threads /\ c \notin Adders /\ c \notin Workers
    BY SerialAssumption DEF Threads
  <1>1. MayConcern(Props) => \A w \in Workers : pc[w] # "running"
    BY RunnersHold DEF SerialInv, MayConcern, NoneRuns
  <1>2. CASE Clear(c)
    BY <1>1, <1>2, ClearInnerKeeps DEF Clear, SerialInv, RunInv
  <1>3. ASSUME NEW bwait \in BOOLEAN, Stop(c, bwait)
        PROVE  SerialInv'
    <2>1. CASE bwait
      <3>1. PlacesInv' /\ SameRunners
        BY <1>0, <1>3, <2>1, NotifyAllPlaces DEF SerialInv, Stop, HoldsProp
      <3> QED
        BY <1>3, <2>1, <3>1, FrameKeeps DEF SerialInv, Stop, RunInv
    <2>2. CASE ~bwait
      BY <1>3, <2>2, ClearInnerKeeps DEF Stop
    <2> QED
      BY <2>1, <2>2
  <1>4. CASE Start(c)
    <2>1. PlacesInv' /\ SameRunners
      BY <1>0, <1>4, SerialAssumption
         DEF SerialInv, Start, PlacesInv, Threads, AddPC, PopPC, CtlPC, HoldsProp, SameRunners
    <2> QED
      BY <1>1, <1>4, <2>1, FrameKeeps DEF Start
  <1>5. CASE StartNotify(c)
    <2>1. PlacesInv' /\ SameRunners
      BY <1>0, <1>5, NotifyAllPlaces DEF SerialInv, StartNotify, HoldsProp
    <2> QED
      BY <1>5, <2>1, FrameKeeps DEF SerialInv, StartNotify, RunInv
  <1>6. CASE RemoveNotify(c)
    <2>1. PlacesInv' /\ SameRunners
      BY <1>0, <1>6, NotifyOnePlaces DEF SerialInv, RemoveNotify, HoldsProp
    <2> QED
      BY <1>6, <2>1, FrameKeeps DEF SerialInv, RemoveNotify, RunInv
  <1> QED
    BY <1>2, <1>3, <1>4, <1>5, <1>6, RemovePropKeeps DEF control

\* SerialInv is inductive.
LEMMA SerialInvStep ==
  ASSUME CallersWait, SerialInv, [Next]_vars
  PROVE  SerialInv'
  <1>1. ASSUME NEW t \in Adders \cup Workers, SpuriousWake(t)
        PROVE  SerialInv'
    <2>1. PlacesInv' /\ SameRunners
      BY <1>1, WakesUpPlaces DEF SerialInv, SpuriousWake
    <2> QED
      BY <1>1, <2>1, FrameKeeps DEF SerialInv, SpuriousWake, RunInv
  <1>2. CASE UNCHANGED vars
    <2>1. PlacesInv' /\ SameRunners
      BY <1>2 DEF SerialInv, PlacesInv, SameRunners, vars
    <2> QED
      BY <1>2, <2>1, FrameKeeps DEF SerialInv, RunInv, vars
  <1> QED
    BY <1>1, <1>2, AddKeeps, PopKeeps, ControlKeeps DEF Next

\* SerialInv holds in every reachable state: the list, the deques, m_cur_props and
\* m_approx_size agree on which tasks wait and which run.
THEOREM SerialInvHolds ==
  ASSUME CallersWait
  PROVE  Spec => []SerialInv
  <1>1. Init => SerialInv
    BY SerialInvInit
  <1>2. SerialInv /\ [Next]_vars => SerialInv'
    BY SerialInvStep
  <1> QED
    BY <1>1, <1>2, PTL DEF Spec

------------------------------------------------------------------------------
(* The properties.                                                         *)

\* Every variable keeps to its type: no node of PropCountNodeList counts zero tasks, no
\* deque of m_wait_tasks is empty, and m_approx_size does not wrap below zero.
THEOREM SerialTypeCorrect ==
  ASSUME CallersWait
  PROVE  Spec => []TypeOK
  <1>1. ASSUME SerialInv PROVE TypeOK
    <2>1. ASSUME NEW p \in DOMAIN m_wait_tasks
          PROVE  m_wait_tasks[p] \in Seq(Nat) \ {<<>>}
      <3>1. DequeHolds(m_wait_tasks[p], Taken(p), next[p], Waits(p))
        BY <1>1 DEF SerialInv, DequesInv
      <3>2. m_wait_tasks[p] \in Seq(Nat) /\ Len(m_wait_tasks[p]) > 0
        BY <3>1 DEF DequeHolds
      <3> QED
        BY <3>2
    <2>2. accepted \in [Props -> Nat] /\ next \in [Props -> Nat]
      BY <1>1 DEF SerialInv, CountsInv
    <2> QED
      BY <1>1, <2>1, <2>2
         DEF SerialInv, PlacesInv, RunInv, CountsInv, DequesInv, ListInv, TypeOK
  <1> QED
    BY <1>1, SerialInvHolds, PTL

\* The tasks of one property run serially: no two threads are inside a task of it, because
\* m_cur_props keeps its nodes from pop_front until the task returns.
THEOREM TasksRunSerially ==
  ASSUME CallersWait
  PROVE  Spec => []OneThreadPerProp
  <1>1. SerialInv => OneThreadPerProp
    BY DEF SerialInv, RunInv
  <1> QED
    BY <1>1, SerialInvHolds, PTL

\* What waits can be taken: not_empty() counts the deques against m_cur_props.
LEMMA NotEmptyMeans ==
  ASSUME SerialInv
  PROVE  /\ not_empty <=> DOMAIN m_wait_tasks \ m_cur_props # {}
         /\ \A p \in Props : Pending(p) # {} /\ p \notin m_cur_props
                               <=> p \in DOMAIN m_wait_tasks \ m_cur_props
  <1> DEFINE D == DOMAIN m_wait_tasks
             C == m_cur_props
  <1>1. /\ IsFiniteSet(D) /\ D \in SUBSET Props /\ C \in SUBSET Props
        /\ \A p \in Props : p \notin D => p \notin C /\ Waits(p) = 0
        /\ \A p \in Props : accepted[p] \in Nat /\ next[p] \in Nat /\ Waits(p) \in Nat
    BY DEF SerialInv, DequesInv, RunInv, CountsInv
  <1>2. C \subseteq D
    BY <1>1
  <1>3. m_wait_tasks = <<>> => D = {}
    OBVIOUS
  <1>5. \A p \in Props : Pending(p) # {} <=> Waits(p) # 0
    BY <1>1 DEF Pending, Waits
  <1>6. ASSUME NEW p \in D, p \notin C
        PROVE  Waits(p) # 0
    <2>1. DequeHolds(m_wait_tasks[p], 0, next[p], Waits(p))
      BY <1>6 DEF SerialInv, DequesInv, Taken
    <2> QED
      BY <2>1 DEF DequeHolds
  <1>7. not_empty <=> m_wait_tasks # <<>> /\ Cardinality(C) < Cardinality(D)
    BY DEF not_empty
  <1> HIDE DEF C
  <1>8. /\ IsFiniteSet(C) /\ Cardinality(C) <= Cardinality(D)
        /\ Cardinality(C) = Cardinality(D) => C = D
        /\ Cardinality(C) \in Nat /\ Cardinality(D) \in Nat
    <2> HIDE DEF D
    <2>1. /\ IsFiniteSet(C) /\ Cardinality(C) <= Cardinality(D)
          /\ Cardinality(C) = Cardinality(D) => C = D
      BY <1>1, <1>2, FS_Subset
    <2> QED
      BY <1>1, <2>1, FS_CardinalityType
  <1>9. not_empty <=> D \ C # {}
    <2> DEFINE nc == Cardinality(C)
               nd == Cardinality(D)
    <2>1. /\ nc \in Nat /\ nd \in Nat /\ nc <= nd
          /\ nc = nd <=> C = D
      BY <1>8
    <2> HIDE DEF nc, nd
    <2>2. nc < nd <=> C # D
      BY <2>1
    <2>3. not_empty <=> m_wait_tasks # <<>> /\ nc < nd
      BY <1>7 DEF nc, nd
    <2> HIDE DEF D
    <2> QED
      BY <1>2, <1>3, <2>2, <2>3
  <1>10. \A p \in Props : Pending(p) # {} /\ p \notin C <=> p \in D \ C
    BY <1>1, <1>5, <1>6
  <1> QED
    BY <1>9, <1>10 DEF C

\* The two assertions of pop_task hold: when not_empty() lets a thread through,
\* pop_front finds a node, and its property is not in m_cur_props.
THEOREM PopAssertionsHold ==
  ASSUME CallersWait
  PROVE  Spec => []PopAssertions
  <1> DEFINE s == m_wait_props
  <1>1. ASSUME SerialInv PROVE PopAssertions
    <2>1. s \in Seq(Nodes) /\ Heads(s, m_cur_props) /\ Len(s) \in Nat /\ DOMAIN s = 1 .. Len(s)
          /\ \A q \in Props : Counts(s, q, Waits(q)) /\ Waits(q) \in Nat
      BY <1>1 DEF SerialInv, ListInv, CountsInv
    <2> HIDE DEF s
    <2>2. ASSUME NEW i \in 1 .. Len(s)
          PROVE  (\A j \in 1 .. i - 1 : s[j].prop # s[i].prop) <=> i = FirstOf(NodeOf(s, s[i].prop))
      <3> DEFINE N == NodeOf(s, s[i].prop)
                 f == FirstOf(N)
      <3>1. N \in SUBSET Nat /\ i \in N /\ \A j : j \in N <=> j \in 1 .. Len(s) /\ s[j].prop = s[i].prop
        BY <2>1 DEF NodeOf
      <3>2. f \in N /\ \A j \in N : f <= j
        BY <3>1, FirstOfIs
      <3> HIDE DEF f, N
      <3> QED
        BY <2>1, <3>1, <3>2 DEF f, N
    <2>3. \A i \in DOMAIN s : LET p == s[i].prop
                              IN  s[i].can_pop <=> p \notin m_cur_props /\ i = FirstOf(NodeOf(s, p))
      BY <2>1, <2>2 DEF Heads
    <2>4. ASSUME not_empty
          PROVE  Poppable(s) # {} /\ s[FirstOf(Poppable(s))].prop \notin m_cur_props
      <3>1. PICK p \in Props : p \in DOMAIN m_wait_tasks /\ p \notin m_cur_props /\ Pending(p) # {}
        BY <1>1, <2>4, NotEmptyMeans DEF SerialInv, DequesInv
      <3>2. Waits(p) # 0
        BY <1>1, <3>1 DEF Pending, Waits, SerialInv, CountsInv
      <3>3. NodeOf(s, p) # {} /\ NodeOf(s, p) \in SUBSET Nat
        <4>1. Counts(s, p, Waits(p)) /\ Waits(p) \in Nat
          BY <2>1
        <4>2. Waits(p) = 0 <=> \A i \in 1 .. Len(s) : s[i].prop # p
          BY <2>1, <4>1, NodesWait
        <4> QED
          BY <2>1, <3>2, <4>2, NoNodes DEF NodeOf
      <3>4. PICK i \in NodeOf(s, p) : \A j \in NodeOf(s, p) : i <= j
        BY <3>3, LeastNumber
      <3>5. i \in 1 .. Len(s) /\ s[i].prop = p /\ \A j \in 1 .. i - 1 : s[j].prop # p
        BY <2>1, <3>4 DEF NodeOf
      <3>6. i \in Poppable(s) /\ Poppable(s) \in SUBSET Nat
        BY <2>1, <3>1, <3>5 DEF Heads, Poppable
      <3> DEFINE f == FirstOf(Poppable(s))
      <3>7. f \in Poppable(s)
        BY <3>6, FirstOfIs
      <3> HIDE DEF f
      <3>8. f \in 1 .. Len(s) /\ s[f].can_pop
        BY <2>1, <3>7 DEF Poppable
      <3> QED
        BY <2>1, <3>6, <3>8 DEF Heads, f
    <2> QED
      BY <2>3, <2>4 DEF PopAssertions, s
  <1> QED
    BY <1>1, SerialInvHolds, PTL

\* Nothing is lost or doubled between m_wait_tasks and PropCountNodeList: the deque of a
\* property holds, behind the task that is run, every accepted task that has not started,
\* once and in order, and its nodes count exactly those.
THEOREM NothingIsLostOrDoubled ==
  ASSUME CallersWait
  PROVE  Spec => []NothingLostOrDoubled
  <1>1. ASSUME SerialInv, NEW p \in Props
        PROVE  LET taken == IF p \in m_cur_props THEN <<0>> ELSE <<>>
                   waits == [k \in 1..Cardinality(Pending(p)) |-> next[p] + k - 1]
               IN  /\ (IF p \in DOMAIN m_wait_tasks THEN m_wait_tasks[p] ELSE <<>>) = taken \o waits
                   /\ Cardinality(Counted(m_wait_props, p)) = Cardinality(Pending(p))
    <2> DEFINE taken == IF p \in m_cur_props THEN <<0>> ELSE <<>>
               W == Cardinality(Pending(p))
               waits == [k \in 1 .. W |-> next[p] + k - 1]
               deque == IF p \in DOMAIN m_wait_tasks THEN m_wait_tasks[p] ELSE <<>>
               t == Taken(p)
    <2>1. accepted[p] \in Nat /\ next[p] \in Nat \ {0} /\ Waits(p) \in Nat
      BY <1>1 DEF SerialInv, CountsInv
    <2>2. Cardinality(Pending(p)) = Waits(p)
      <3>1. Cardinality(next[p] .. accepted[p]) =
              IF next[p] > accepted[p] THEN 0 ELSE accepted[p] - next[p] + 1
        <4>1. next[p] \in Int /\ accepted[p] \in Int
          BY <2>1
        <4> QED
          BY <4>1, FS_Interval
      <3> QED
        BY <2>1, <3>1 DEF Pending, Waits
    <2>3. Cardinality(Counted(m_wait_props, p)) = W
      BY <1>1, <2>2 DEF SerialInv, ListInv, Counts
    <2>4. /\ deque \in Seq(Nat) /\ Len(deque) = t + W
          /\ t = 1 => deque[1] = 0
          /\ \A k \in 1 .. W : deque[t + k] = next[p] + k - 1
      <3>1. CASE p \in DOMAIN m_wait_tasks
        BY <1>1, <2>2, <3>1 DEF SerialInv, DequesInv, DequeHolds
      <3>2. CASE p \notin DOMAIN m_wait_tasks
        <4>1. t = 0 /\ W = 0
          BY <1>1, <2>2, <3>2 DEF SerialInv, DequesInv, Taken
        <4> HIDE DEF t, W
        <4> QED
          BY <3>2, <4>1
      <3> QED
        BY <3>1, <3>2
    <2>5. taken \in Seq(Nat) /\ Len(taken) = t /\ (t = 0 \/ t = 1)
          /\ \A i \in 1 .. t : taken[i] = 0
      BY DEF Taken
    <2>6. W \in Nat
      BY <2>1, <2>2
    <2> HIDE DEF taken, W, deque, t
    <2>7. waits \in Seq(Nat) /\ Len(waits) = W
          /\ \A k \in 1 .. W : waits[k] = next[p] + k - 1
      <3>1. \A k \in 1 .. W : next[p] + k - 1 \in Nat
        BY <2>1, <2>6
      <3> QED
        BY <2>6, <3>1
    <2> HIDE DEF waits
    <2>8. /\ taken \o waits \in Seq(Nat)
          /\ Len(taken \o waits) = Len(taken) + Len(waits)
          /\ \A i \in 1 .. Len(taken) : (taken \o waits)[i] = taken[i]
          /\ \A k \in 1 .. Len(waits) : (taken \o waits)[Len(taken) + k] = waits[k]
      <3>1. taken \in Seq(Nat) /\ waits \in Seq(Nat)
        BY <2>5, <2>7
      <3> QED
        BY ONLY <3>1, ConcatElements
    <2> DEFINE u == taken \o waits
    <2>9. /\ u \in Seq(Nat) /\ Len(u) = t + W
          /\ \A i \in 1 .. t : u[i] = 0
          /\ \A k \in 1 .. W : u[t + k] = next[p] + k - 1
      BY <2>5, <2>7, <2>8
    <2> HIDE DEF u
    <2>10. ASSUME NEW i \in 1 .. t + W
           PROVE  deque[i] = u[i]
      <3>1. CASE i \in 1 .. t
        BY <2>4, <2>5, <2>9, <3>1
      <3>2. CASE i \notin 1 .. t
        <4>1. i - t \in 1 .. W /\ t + (i - t) = i
          BY <2>5, <2>6, <3>2
        <4> QED
          BY <2>4, <2>9, <4>1
      <3> QED
        BY <3>1, <3>2
    <2>11. deque = u
      BY <2>4, <2>9, <2>10, SeqEqual
    <2> QED
      BY <2>3, <2>11 DEF u, deque, taken, waits, W
  <1>2. SerialInv => NothingLostOrDoubled
    BY <1>1 DEF NothingLostOrDoubled
  <1> QED
    BY <1>2, SerialInvHolds, PTL

\* Only taking a task and finishing one change who runs what.
LEMMA NextRunners ==
  ASSUME SerialInv, [Next]_vars
  PROVE  SameRunners \/ \E w \in Workers : PopTake(w) \/ PopFinish(w)
  <1> USE DEF SerialInv
  <1>0. /\ \A a \in Adders : a \in Threads /\ a \notin Workers
        /\ \A w \in Workers : w \in Threads /\ w \in Adders \cup Workers
        /\ \A c \in Controllers : c \in Threads /\ c \notin Workers
        /\ pc \in [Threads -> AddPC \cup PopPC \cup CtlPC]
        /\ prop \in [Adders \cup Workers -> Props \cup {NoProp}]
    BY SerialAssumption DEF Threads, PlacesInv
  <1>1. ASSUME NEW a \in Adders, add_task(a)
        PROVE  SameRunners
    <2>1. CASE AddNotify(a)
      BY <1>0, <2>1, NotifyOnePlaces DEF AddNotify, HoldsProp
    <2>2. CASE ~AddNotify(a)
      BY <1>0, <1>1, <2>2
         DEF add_task, CallAdd, AddFast, TryLockFails, AddWait, AddSlow, Refuse, Insert, SameRunners
    <2> QED
      BY <2>1, <2>2
  <1>2. ASSUME NEW w \in Workers, pop_task(w)
        PROVE  SameRunners \/ PopTake(w) \/ PopFinish(w)
    <2>1. w \in Threads
      BY DEF Threads
    <2>2. CASE PopNotify(w)
      BY <2>1, <2>2, NotifyOnePlaces DEF PopNotify, HoldsProp
    <2>3. CASE CallPop(w) \/ PopNothing(w)
      BY <1>0, <2>1, <2>3 DEF CallPop, PopNothing, SameRunners
    <2> QED
      BY <1>2, <2>2, <2>3 DEF pop_task
  <1>3. ASSUME NEW c \in Controllers, control(c)
        PROVE  SameRunners
    <2>1. CASE Clear(c) \/ StartNotify(c) \/ \E bwait \in BOOLEAN : Stop(c, bwait)
      <3>1. NotifyAll(c) /\ prop' = prop /\ pc[c] \notin HoldsProp
        BY <2>1 DEF Clear, StartNotify, Stop, clear_inner, HoldsProp
      <3> QED
        BY <1>0, <3>1, NotifyAllPlaces
    <2>2. CASE RemoveNotify(c)
      BY <1>0, <2>2, NotifyOnePlaces DEF RemoveNotify, HoldsProp
    <2>3. CASE Start(c) \/ \E p \in Props : RemoveProp(c, p)
      BY <1>0, <2>3 DEF Start, RemoveProp, SameRunners
    <2> QED
      BY <1>3, <2>1, <2>2, <2>3 DEF control
  <1>4. ASSUME NEW t \in Adders \cup Workers, SpuriousWake(t)
        PROVE  SameRunners
    BY <1>4, WakesUpPlaces DEF SpuriousWake
  <1>5. CASE UNCHANGED vars
    BY <1>5 DEF vars, SameRunners
  <1> QED
    BY <1>1, <1>2, <1>3, <1>4, <1>5 DEF Next

\* The tasks of a property run in the order add_task accepted them: the one a worker takes
\* is the one that comes next, so none is left out and none is run twice.
THEOREM TasksKeepTheirOrder ==
  ASSUME CallersWait
  PROVE  Spec => TasksRunInOrder
  <1>1. ASSUME SerialInv, [Next]_vars, NEW w \in Workers, pc[w] # "running", pc'[w] = "running"
        PROVE  next'[prop'[w]] = next[prop'[w]] + 1
    <2>1. pc \in [Threads -> AddPC \cup PopPC \cup CtlPC]
          /\ prop \in [Adders \cup Workers -> Props \cup {NoProp}]
          /\ \A a \in Adders : pc[a] \in AddPC
      BY <1>1 DEF SerialInv, PlacesInv
    <2>2. SameRunners \/ \E v \in Workers : PopTake(v) \/ PopFinish(v)
      BY <1>1, NextRunners
    <2>3. ~SameRunners
      BY <1>1 DEF SameRunners
    <2>4. PICK v \in Workers : PopTake(v) \/ PopFinish(v)
      BY <2>2, <2>3
    <2>5. w \in Threads /\ v \in Threads
      BY DEF Threads
    <2>6. ~PopFinish(v)
      BY <1>1, <2>1, <2>5 DEF PopFinish
    <2>7. PICK p \in Props : /\ next' = [next EXCEPT ![p] = next[p] + 1]
                             /\ prop' = [prop EXCEPT ![v] = p]
                             /\ pc' = [pc EXCEPT ![v] = "running"]
      BY <1>1, <2>4, <2>6, TakenIs
    <2>8. v = w
      BY <1>1, <2>1, <2>5, <2>7
    <2>9. prop'[w] = p
      BY <2>1, <2>7, <2>8
    <2> QED
      BY <1>1, <2>7, <2>9 DEF SerialInv, CountsInv
  <1>2. SerialInv /\ [Next]_vars =>
          [\A w \in Workers : pc[w] # "running" /\ pc'[w] = "running" =>
             next'[prop'[w]] = next[prop'[w]] + 1]_vars
    BY <1>1
  <1> QED
    BY <1>2, SerialInvHolds, PTL DEF Spec, TasksRunInOrder

------------------------------------------------------------------------------
(* No worker sleeps beside a task nobody is going to look at.              *)

Ready == {p \in Props : Pending(p) # {} /\ p \notin m_cur_props}
Awake == {w \in Workers : pc[w] \in {"out", "pop_lock", "finish_notify"}}
Notifying == {a \in Adders : pc[a] = "add_notify"}
Sleeps == \E w \in Workers : pc[w] = "wait_not_empty"

\* What two states may differ in: up to n properties become ready, and n more threads
\* are awake or about to notify.
Balanced(n) ==
  /\ Cardinality(Ready') <= Cardinality(Ready) + n
  /\ Cardinality(Awake') + Cardinality(Notifying')
       >= Cardinality(Awake) + Cardinality(Notifying) + n

\* The sets that are counted are finite, and a queue that is not not_empty() has nothing ready.
LEMMA TheyAreFinite ==
  ASSUME IsFiniteSet(Adders), IsFiniteSet(Workers), SerialInv
  PROVE  /\ IsFiniteSet(Ready) /\ Cardinality(Ready) \in Nat
         /\ IsFiniteSet(Awake) /\ Cardinality(Awake) \in Nat
         /\ IsFiniteSet(Notifying) /\ Cardinality(Notifying) \in Nat
         /\ ~not_empty => Ready = {}
  <1>1. Ready \subseteq DOMAIN m_wait_tasks /\ IsFiniteSet(DOMAIN m_wait_tasks)
        /\ (~not_empty => Ready = {})
    BY NotEmptyMeans DEF Ready, SerialInv, DequesInv
  <1>2. Awake \subseteq Workers /\ Notifying \subseteq Adders
    BY DEF Awake, Notifying
  <1>3. IsFiniteSet(Ready) /\ IsFiniteSet(Awake) /\ IsFiniteSet(Notifying)
    BY <1>1, <1>2, FS_Subset
  <1> QED
    BY <1>1, <1>3, FS_CardinalityType

\* The threads are counted after the step too.
LEMMA AwakeIsFinite ==
  ASSUME IsFiniteSet(Adders), IsFiniteSet(Workers)
  PROVE  /\ IsFiniteSet(Awake') /\ Cardinality(Awake') \in Nat
         /\ IsFiniteSet(Notifying') /\ Cardinality(Notifying') \in Nat
  <1>1. Awake' \subseteq Workers /\ Notifying' \subseteq Adders
    BY DEF Awake, Notifying
  <1>2. IsFiniteSet(Awake') /\ IsFiniteSet(Notifying')
    BY <1>1, FS_Subset
  <1> QED
    BY <1>2, FS_CardinalityType

\* A step that makes nothing ready and sends nobody to sleep.
LEMMA MoreAwakeOrLessReady ==
  ASSUME IsFiniteSet(Adders), IsFiniteSet(Workers), SerialInv,
         Ready' \subseteq Ready, Awake \subseteq Awake', Notifying \subseteq Notifying'
  PROVE  Balanced(0)
  <1>1. /\ IsFiniteSet(Ready') /\ Cardinality(Ready') <= Cardinality(Ready)
        /\ Cardinality(Awake) <= Cardinality(Awake')
        /\ Cardinality(Notifying) <= Cardinality(Notifying')
    BY TheyAreFinite, AwakeIsFinite, FS_Subset
  <1>2. Cardinality(Ready') \in Nat
    BY <1>1, FS_CardinalityType
  <1> QED
    BY <1>1, <1>2, TheyAreFinite, AwakeIsFinite DEF Balanced

\* One more property may be ready, and one more thread is there to take its task.
LEMMA OneMoreEach ==
  ASSUME IsFiniteSet(Adders), IsFiniteSet(Workers), SerialInv, NEW p, NEW t,
         Ready' \subseteq Ready \cup {p},
         \/ Awake' = Awake \cup {t} /\ t \notin Awake /\ Notifying' = Notifying
         \/ Awake' = Awake /\ Notifying' = Notifying \cup {t} /\ t \notin Notifying
  PROVE  Balanced(1)
  <1>1. /\ IsFiniteSet(Ready \cup {p}) /\ Cardinality(Ready \cup {p}) <= Cardinality(Ready) + 1
        /\ Cardinality(Ready) \in Nat
    <2>1. IsFiniteSet(Ready) /\ Cardinality(Ready) \in Nat
      BY TheyAreFinite
    <2>2. /\ IsFiniteSet(Ready \cup {p})
          /\ Cardinality(Ready \cup {p}) = Cardinality(Ready)
               \/ Cardinality(Ready \cup {p}) = Cardinality(Ready) + 1
      BY <2>1, FS_AddElement
    <2> QED
      BY <2>1, <2>2
  <1>2. /\ IsFiniteSet(Ready') /\ Cardinality(Ready') <= Cardinality(Ready \cup {p})
    BY <1>1, FS_Subset
  <1>3. Cardinality(Ready') \in Nat /\ Cardinality(Ready \cup {p}) \in Nat
    BY <1>1, <1>2, FS_CardinalityType
  <1>4. Cardinality(Awake') + Cardinality(Notifying')
          = Cardinality(Awake) + Cardinality(Notifying) + 1
    <2>1. CASE Awake' = Awake \cup {t} /\ t \notin Awake /\ Notifying' = Notifying
      <3>1. Cardinality(Awake') = Cardinality(Awake) + 1
        BY <2>1, TheyAreFinite, FS_AddElement
      <3> QED
        BY <2>1, <3>1, TheyAreFinite
    <2>2. CASE Awake' = Awake /\ Notifying' = Notifying \cup {t} /\ t \notin Notifying
      <3>1. Cardinality(Notifying') = Cardinality(Notifying) + 1
        BY <2>2, TheyAreFinite, FS_AddElement
      <3> QED
        BY <2>2, <3>1, TheyAreFinite
    <2> QED
      BY <2>1, <2>2
  <1> QED
    BY <1>1, <1>2, <1>3, <1>4, TheyAreFinite, AwakeIsFinite DEF Balanced

\* A thread takes the task of a ready property.
LEMMA OneLessEach ==
  ASSUME IsFiniteSet(Adders), IsFiniteSet(Workers), SerialInv, NEW p \in Ready, NEW t \in Awake,
         Ready' = Ready \ {p}, Awake' = Awake \ {t}, Notifying' = Notifying
  PROVE  Balanced(-1)
  <1>1. Cardinality(Ready') = Cardinality(Ready) - 1 /\ Cardinality(Awake') = Cardinality(Awake) - 1
    BY TheyAreFinite, FS_RemoveElement
  <1> QED
    BY <1>1, TheyAreFinite DEF Balanced

\* A notify_one that finds a sleeper makes it take the notifier's place.
LEMMA OneForAnother ==
  ASSUME IsFiniteSet(Adders), IsFiniteSet(Workers), SerialInv, NEW a \in Notifying, NEW t,
         t \notin Awake, Ready' = Ready, Awake' = Awake \cup {t}, Notifying' = Notifying \ {a}
  PROVE  Balanced(0)
  <1>1. /\ Cardinality(Awake') = Cardinality(Awake) + 1
        /\ Cardinality(Notifying') = Cardinality(Notifying) - 1
    BY TheyAreFinite, FS_AddElement, FS_RemoveElement
  <1> QED
    BY <1>1, TheyAreFinite DEF Balanced

\* A balanced step that makes no worker the first sleeper keeps the property.
LEMMA BalancedKeeps ==
  ASSUME IsFiniteSet(Adders), IsFiniteSet(Workers), SerialInv, IdleWorkerHasNothingToDo,
         Sleeps' => Sleeps, NEW n \in {-1, 0, 1}, Balanced(n), Cardinality(Ready') \in Nat
  PROVE  IdleWorkerHasNothingToDo'
  <1>1. Sleeps => Cardinality(Ready) <= Cardinality(Awake) + Cardinality(Notifying)
    BY DEF IdleWorkerHasNothingToDo, Sleeps, Ready, Awake, Notifying
  <1>2. Sleeps' => Cardinality(Ready') <= Cardinality(Awake') + Cardinality(Notifying')
    BY <1>1, TheyAreFinite, AwakeIsFinite DEF Balanced
  <1> QED
    BY <1>2 DEF IdleWorkerHasNothingToDo, Sleeps, Ready, Awake, Notifying

\* What is ready depends on m_cur_props and on the tasks that wait alone.
LEMMA ReadyFollowsQueue ==
  ASSUME UNCHANGED <<m_cur_props, accepted, next>>
  PROVE  Ready' = Ready
  BY DEF Ready, Pending

\* add_task: what it makes ready, it notifies about.
LEMMA AddKeepsIdle ==
  ASSUME IsFiniteSet(Adders), IsFiniteSet(Workers), SerialInv, IdleWorkerHasNothingToDo,
         NEW a \in Adders, add_task(a)
  PROVE  \/ (Sleeps' => Sleeps) /\ \E n \in {-1, 0, 1} : Balanced(n)
         \/ ~Sleeps'
  <1>0. /\ a \in Threads /\ a \notin Workers
        /\ \A w \in Workers : w \in Threads /\ w # a
        /\ \A b \in Adders : b \in Threads
        /\ pc \in [Threads -> AddPC \cup PopPC \cup CtlPC]
    BY SerialAssumption DEF SerialInv, PlacesInv, Threads
  <1>1. CASE Insert(a) /\ pc[a] # "add_notify"
    <2>1. pc' = [pc EXCEPT ![a] = "add_notify"]
      BY <1>1 DEF Insert
    <2>2. Awake' = Awake /\ (Sleeps' => Sleeps)
      BY <1>0, <2>1 DEF Awake, Sleeps
    <2>3. Notifying' = Notifying \cup {a} /\ a \notin Notifying
      BY <1>0, <1>1, <2>1 DEF Notifying
    <2>5. Ready' \subseteq Ready \cup {prop[a]}
      BY <1>1 DEF Insert, Ready, Pending, SerialInv, CountsInv
    <2>6. Balanced(1)
      BY <2>2, <2>3, <2>5, OneMoreEach
    <2> QED
      BY <2>2, <2>6
  <1>2. CASE /\ UNCHANGED <<m_cur_props, accepted, next>>
             /\ pc[a] # "add_notify"
             /\ \E x : pc' = [pc EXCEPT ![a] = x]
    <2>1. Awake' = Awake /\ (Sleeps' => Sleeps)
      BY <1>0, <1>2 DEF Awake, Sleeps
    <2>2. Notifying \subseteq Notifying'
      BY <1>0, <1>2 DEF Notifying
    <2>3. Ready' = Ready
      BY <1>2, ReadyFollowsQueue
    <2>4. Balanced(0)
      BY <2>1, <2>2, <2>3, MoreAwakeOrLessReady
    <2> QED
      BY <2>1, <2>4
  <1>3. CASE AddNotify(a)
    <2>1. Ready' = Ready
      BY <1>3, ReadyFollowsQueue DEF AddNotify, queue
    <2>2. CASE ~Sleeps
      <3>1. \A t \in Threads : pc[t] = "wait_not_empty" => t \in Workers
        BY DEF SerialInv, PlacesInv, Threads, AddPC, CtlPC
      <3>2. pc' = [pc EXCEPT ![a] = "out"]
        BY <1>3, <2>2, <3>1 DEF AddNotify, NotifyOne, Sleeps
      <3> QED
        BY <1>0, <2>2, <3>2 DEF Sleeps
    <2>3. CASE Sleeps
      <3>1. PICK t \in Threads : /\ pc[t] = "wait_not_empty"
                                 /\ pc' = [pc EXCEPT ![a] = "out", ![t] = "pop_lock"]
        BY <1>0, <1>3, <2>3 DEF AddNotify, NotifyOne, Sleeps, Reacquire
      <3>2. t \in Workers
        BY <3>1 DEF SerialInv, PlacesInv, Threads, AddPC, CtlPC
      <3>3. t \notin Awake /\ Awake' = Awake \cup {t} /\ (Sleeps' => Sleeps)
        BY <1>0, <2>3, <3>1, <3>2 DEF Awake
      <3>4. a \in Notifying /\ Notifying' = Notifying \ {a}
        BY <1>0, <1>3, <3>1, <3>2 DEF AddNotify, Notifying
      <3>5. Balanced(0)
        BY <2>1, <3>3, <3>4, OneForAnother
      <3> QED
        BY <3>3, <3>5
    <2> QED
      BY <2>2, <2>3
  <1> QED
    BY <1>1, <1>2, <1>3
       DEF add_task, CallAdd, AddFast, TryLockFails, AddWait, AddSlow, Refuse, queue

\* pop_task: a worker goes to sleep only when nothing is ready; one that ends a task is awake.
LEMMA PopKeepsIdle ==
  ASSUME IsFiniteSet(Adders), IsFiniteSet(Workers), SerialInv, IdleWorkerHasNothingToDo,
         NEW w \in Workers, pop_task(w)
  PROVE  \/ (Sleeps' => Sleeps) /\ \E n \in {-1, 0, 1} : Balanced(n)
         \/ Ready' = {}
  <1>0. /\ w \in Threads /\ w \notin Adders
        /\ \A v \in Workers : v \in Threads
        /\ \A b \in Adders : b \in Threads /\ b # w
        /\ pc \in [Threads -> AddPC \cup PopPC \cup CtlPC]
    BY SerialAssumption DEF SerialInv, PlacesInv, Threads
  <1>1. CASE CallPop(w) \/ (PopNothing(w) /\ m_bstop)
    <2>1. /\ UNCHANGED <<m_cur_props, accepted, next>>
          /\ \E x \in {"out", "pop_lock"} : pc' = [pc EXCEPT ![w] = x]
      BY <1>1 DEF CallPop, PopNothing, queue
    <2>2. Awake \subseteq Awake' /\ Notifying' = Notifying /\ (Sleeps' => Sleeps)
      BY <1>0, <2>1 DEF Awake, Notifying, Sleeps
    <2>3. Ready' = Ready
      BY <2>1, ReadyFollowsQueue
    <2> QED
      BY <2>2, <2>3, MoreAwakeOrLessReady
  <1>2. CASE PopNothing(w) /\ ~m_bstop
    <2>1. Ready = {}
      BY <1>2, TheyAreFinite DEF PopNothing
    <2>2. Ready' = Ready
      BY <1>2, ReadyFollowsQueue DEF PopNothing, queue
    <2> QED
      BY <2>1, <2>2
  <1>3. CASE PopTake(w)
    <2>1. PICK p \in Props : /\ p \notin m_cur_props /\ Waits(p) # 0
                             /\ m_cur_props' = m_cur_props \cup {p}
                             /\ next' = [next EXCEPT ![p] = next[p] + 1]
                             /\ pc' = [pc EXCEPT ![w] = "running"]
      BY <1>3, TakenIs
    <2>2. p \in Ready
      BY <2>1 DEF Ready, Pending, Waits, SerialInv, CountsInv
    <2>3. Ready' = Ready \ {p}
      BY <1>3, <2>1 DEF Ready, Pending, SerialInv, CountsInv, PopTake
    <2>4. w \in Awake /\ Awake' = Awake \ {w} /\ Notifying' = Notifying /\ (Sleeps' => Sleeps)
      BY <1>0, <1>3, <2>1 DEF Awake, Notifying, Sleeps, PopTake
    <2>5. Balanced(-1)
      BY <2>2, <2>3, <2>4, OneLessEach
    <2> QED
      BY <2>4, <2>5
  <1>4. CASE PopFinish(w)
    <2>1. Ready' \subseteq Ready \cup {prop[w]}
      BY <1>4 DEF PopFinish, Ready, Pending
    <2>2. pc[w] = "running" /\ pc' = [pc EXCEPT ![w] = "finish_notify"]
      BY <1>4 DEF PopFinish
    <2>3. /\ w \notin Awake /\ Awake' = Awake \cup {w} /\ Notifying' = Notifying
          /\ Sleeps' => Sleeps
      BY <1>0, <2>2 DEF Awake, Notifying, Sleeps
    <2>4. Balanced(1)
      BY <2>1, <2>3, OneMoreEach
    <2> QED
      BY <2>3, <2>4
  <1>5. CASE PopNotify(w)
    <2>1. Ready' = Ready
      BY <1>5, ReadyFollowsQueue DEF PopNotify, queue
    <2>2. \A t \in Threads : pc[t] = "wait_not_full" => t \in Adders
      BY DEF SerialInv, PlacesInv, Threads, PopPC, CtlPC
    <2>3. pc[w] = "finish_notify" /\ pc'[w] = "out"
          /\ \A t \in Threads : t # w => \/ pc'[t] = pc[t]
                                         \/ pc[t] = "wait_not_full" /\ pc'[t] = "add_lock"
      BY <1>0, <1>5 DEF PopNotify, NotifyOne, Reacquire
    <2>4. Awake \subseteq Awake' /\ Notifying \subseteq Notifying' /\ (Sleeps' => Sleeps)
      BY <1>0, <2>2, <2>3 DEF Awake, Notifying, Sleeps
    <2> QED
      BY <2>1, <2>4, MoreAwakeOrLessReady
  <1> QED
    BY <1>1, <1>2, <1>3, <1>4, <1>5 DEF pop_task

\* The control functions make nothing ready and put no worker to sleep.
LEMMA ControlKeepsIdle ==
  ASSUME IsFiniteSet(Adders), IsFiniteSet(Workers), SerialInv, NEW c \in Controllers, control(c)
  PROVE  (Sleeps' => Sleeps) /\ Balanced(0)
  <1>0. /\ c \in Threads /\ c \notin Adders /\ c \notin Workers
        /\ \A t \in Adders \cup Workers : t \in Threads /\ t # c
        /\ pc \in [Threads -> AddPC \cup PopPC \cup CtlPC]
        /\ pc[c] \notin {"wait_not_full", "wait_not_empty"}
    BY SerialAssumption DEF SerialInv, PlacesInv, Threads, CtlPC
  <1>1. Ready' \subseteq Ready
    <2>1. CASE \/ clear_inner(c) /\ accepted' = accepted
               \/ UNCHANGED <<m_cur_props, accepted, next>>
      BY <2>1 DEF clear_inner, Ready, Pending, SerialInv, CountsInv
    <2>2. ASSUME NEW p \in Props, RemoveProp(c, p)
          PROVE  Ready' \subseteq Ready
      BY <2>2 DEF RemoveProp, Ready, Pending, SerialInv, CountsInv
    <2> QED
      BY <2>1, <2>2 DEF control, Clear, Stop, Start, StartNotify, RemoveNotify, queue
  <1>2. /\ Awake \subseteq Awake' /\ Notifying \subseteq Notifying'
        /\ Sleeps' => Sleeps
    <2>1. CASE NotifyAll(c)
      BY <1>0, <2>1 DEF NotifyAll, Woken, Reacquire, Awake, Notifying, Sleeps
    <2>2. CASE RemoveNotify(c)
      <3>1. \A t \in Threads : t # c => \/ pc'[t] = pc[t]
                                        \/ pc[t] = "wait_not_full" /\ pc'[t] = "add_lock"
        BY <1>0, <2>2 DEF RemoveNotify, NotifyOne, Reacquire
      <3> QED
        BY <1>0, <3>1 DEF Awake, Notifying, Sleeps
    <2>3. CASE \E x : pc' = [pc EXCEPT ![c] = x]
      BY <1>0, <2>3 DEF Awake, Notifying, Sleeps
    <2> QED
      BY <2>1, <2>2, <2>3 DEF control, Clear, Stop, Start, StartNotify, RemoveProp, clear_inner
  <1> QED
    BY <1>1, <1>2, MoreAwakeOrLessReady

\* While a worker sleeps, every property that could be taken has an awake worker or a
\* notify_one on its way: add_task notifies after it inserts, and a worker sleeps only
\* when not_empty() is false.
THEOREM IdleWorkersMissNothing ==
  ASSUME CallersWait, IsFiniteSet(Adders), IsFiniteSet(Workers)
  PROVE  Spec => []IdleWorkerHasNothingToDo
  <1> DEFINE Inv == SerialInv /\ IdleWorkerHasNothingToDo
  <1>1. Init => Inv
    <2> SUFFICES ASSUME Init PROVE IdleWorkerHasNothingToDo
      BY SerialInvInit
    <2>1. \A w \in Workers : pc[w] # "wait_not_empty"
      BY DEF Init, Threads
    <2> QED
      BY <2>1 DEF IdleWorkerHasNothingToDo
  <1>2. Inv /\ [Next]_vars => Inv'
    <2> SUFFICES ASSUME SerialInv, IdleWorkerHasNothingToDo, [Next]_vars
                 PROVE  IdleWorkerHasNothingToDo'
      BY SerialInvStep
    <2>1. SerialInv'
      BY SerialInvStep
    <2>2. IsFiniteSet(Ready') /\ Cardinality(Ready') \in Nat
      <3>1. Ready' \subseteq DOMAIN m_wait_tasks' /\ IsFiniteSet(DOMAIN m_wait_tasks')
        BY <2>1 DEF Ready, Pending, SerialInv, DequesInv, CountsInv, Waits
      <3>2. IsFiniteSet(Ready')
        BY <3>1, FS_Subset
      <3> QED
        BY <3>2, FS_CardinalityType
    <2>3. ~Sleeps' => IdleWorkerHasNothingToDo'
      BY DEF Sleeps, IdleWorkerHasNothingToDo
    <2>4. Ready' = {} => IdleWorkerHasNothingToDo'
      <3> SUFFICES ASSUME Ready' = {} PROVE IdleWorkerHasNothingToDo'
        OBVIOUS
      <3>1. Cardinality(Ready') = 0
        BY FS_EmptySet
      <3>2. Cardinality(Ready') <= Cardinality(Awake') + Cardinality(Notifying')
        BY <3>1, AwakeIsFinite
      <3> QED
        BY <3>2 DEF IdleWorkerHasNothingToDo, Ready, Awake, Notifying
    <2>5. (Sleeps' => Sleeps) /\ (\E n \in {-1, 0, 1} : Balanced(n)) => IdleWorkerHasNothingToDo'
      BY <2>2, BalancedKeeps
    <2>6. ASSUME NEW t \in Adders \cup Workers, SpuriousWake(t)
          PROVE  (Sleeps' => Sleeps) /\ Balanced(0)
      <3>1. /\ Ready' = Ready
            /\ t \in Threads
            /\ \A v \in Adders \cup Workers : v \in Threads
            /\ pc \in [Threads -> AddPC \cup PopPC \cup CtlPC]
        BY <2>6, ReadyFollowsQueue DEF SpuriousWake, queue, SerialInv, PlacesInv, Threads
      <3>2. Awake \subseteq Awake' /\ Notifying \subseteq Notifying' /\ (Sleeps' => Sleeps)
        BY <2>6, <3>1 DEF SpuriousWake, WakesUp, Reacquire, Awake, Notifying, Sleeps
      <3> QED
        BY <3>1, <3>2, MoreAwakeOrLessReady
    <2>7. CASE UNCHANGED vars
      BY <2>7 DEF vars, queue, IdleWorkerHasNothingToDo, Pending
    <2>8. 0 \in {-1, 0, 1}
      OBVIOUS
    <2> QED
      BY <2>3, <2>4, <2>5, <2>6, <2>7, <2>8, AddKeepsIdle, PopKeepsIdle, ControlKeepsIdle DEF Next
  <1>3. Inv => IdleWorkerHasNothingToDo
    OBVIOUS
  <1> QED
    BY <1>1, <1>2, <1>3, PTL DEF Spec
==============================================================================
