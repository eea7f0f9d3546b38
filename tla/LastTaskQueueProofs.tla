------------------------- MODULE LastTaskQueueProofs -------------------------
(***************************************************************************)
(* What LastTaskQueue guarantees for any number of threads and properties, *)
(* any max_task_count and any number of tasks.                             *)
(***************************************************************************)
EXTENDS LastTaskQueue, DataLemmas

------------------------------------------------------------------------------
(* The list operations.                                                    *)

\* From a list without duplicates, removing position i takes out exactly s[i].
LEMMA RemoveAtRange ==
  ASSUME NEW S, NEW s \in Seq(S), NEW i \in 1..Len(s), IsInjective(s)
  PROVE  /\ IsInjective(RemoveAt(s, i))
         /\ Range(RemoveAt(s, i)) = Range(s) \ {s[i]}
  <1> DEFINE r == RemoveAt(s, i)
  <1>0. \A j, k \in 1..Len(s) : s[j] = s[k] => j = k
    BY DEF IsInjective
  <1>1. /\ r \in Seq(S)
        /\ Len(r) = Len(s) - 1
        /\ \A j \in 1..Len(s) - 1 : r[j] = IF j < i THEN s[j] ELSE s[j + 1]
    BY RemoveAtElements
  <1> HIDE DEF r
  <1>2. \A j, k \in 1..Len(r) : r[j] = r[k] => j = k
    <2> SUFFICES ASSUME NEW j \in 1..Len(r), NEW k \in 1..Len(r), r[j] = r[k]
                 PROVE  j = k
      OBVIOUS
    <2> DEFINE old(n) == IF n < i THEN n ELSE n + 1
    <2>1. old(j) \in 1..Len(s) /\ old(k) \in 1..Len(s)
      BY <1>1
    <2>2. r[j] = s[old(j)] /\ r[k] = s[old(k)]
      BY <1>1
    <2>3. old(j) = old(k)
      BY <1>0, <2>1, <2>2
    <2> QED BY <2>3
  <1>3. ASSUME NEW j \in 1..Len(r)
        PROVE  r[j] \in Range(s) \ {s[i]}
    <2> DEFINE old == IF j < i THEN j ELSE j + 1
    <2>1. old \in 1..Len(s) /\ old # i /\ r[j] = s[old]
      BY <1>1
    <2>2. DOMAIN s = 1..Len(s)
      OBVIOUS
    <2>3. s[old] # s[i]
      BY <1>0, <2>1
    <2> QED BY <2>1, <2>2, <2>3 DEF Range
  <1>4. ASSUME NEW k \in 1..Len(s), k # i
        PROVE  \E j \in 1..Len(r) : r[j] = s[k]
    <2>1. CASE k < i
      BY <1>1, <2>1
    <2>2. CASE k > i
      <3>1. k - 1 \in 1..Len(r) /\ r[k - 1] = s[k]
        BY <1>1, <2>2
      <3> QED BY <3>1
    <2> QED BY <1>4, <2>1, <2>2
  <1>5. DOMAIN s = 1..Len(s) /\ DOMAIN r = 1..Len(r)
    BY <1>1
  <1>6. Range(r) \subseteq Range(s) \ {s[i]}
    BY <1>3, <1>5 DEF Range
  <1>7. Range(s) \ {s[i]} \subseteq Range(r)
    BY <1>4, <1>5 DEF Range
  <1>8. IsInjective(r)
    BY <1>2, <1>5 DEF IsInjective
  <1> QED
    BY <1>6, <1>7, <1>8 DEF r

\* The same for Without, whether p is in the list or not.
LEMMA WithoutElements ==
  ASSUME NEW S, NEW s \in Seq(S), NEW p, IsInjective(s)
  PROVE  /\ Without(s, p) \in Seq(S)
         /\ IsInjective(Without(s, p))
         /\ Range(Without(s, p)) = Range(s) \ {p}
  <1>1. CASE \E i \in 1..Len(s) : s[i] = p
    <2> DEFINE i == CHOOSE i \in 1..Len(s) : s[i] = p
    <2>1. i \in 1..Len(s) /\ s[i] = p
      BY <1>1
    <2>2. Without(s, p) = RemoveAt(s, i)
      BY <1>1 DEF Without
    <2> HIDE DEF i
    <2>3. RemoveAt(s, i) \in Seq(S)
      BY <2>1, RemoveAtElements
    <2>4. IsInjective(RemoveAt(s, i)) /\ Range(RemoveAt(s, i)) = Range(s) \ {s[i]}
      BY <2>1, RemoveAtRange
    <2> QED
      BY <2>1, <2>2, <2>3, <2>4
  <1>2. CASE ~\E i \in 1..Len(s) : s[i] = p
    <2>1. Without(s, p) = s
      BY <1>2 DEF Without
    <2>2. p \notin Range(s)
      BY <1>2 DEF Range
    <2> QED
      BY <2>1, <2>2
  <1> QED
    BY <1>1, <1>2

\* Appending an element adds it to the range.
LEMMA AppendRange ==
  ASSUME NEW S, NEW s \in Seq(S), NEW p \in S
  PROVE  Range(Append(s, p)) = Range(s) \cup {p}
  <1>1. /\ DOMAIN s = 1..Len(s)
        /\ DOMAIN Append(s, p) = 1..Len(s) + 1
        /\ \A i \in 1..Len(s) : Append(s, p)[i] = s[i]
        /\ Append(s, p)[Len(s) + 1] = p
    OBVIOUS
  <1> QED
    BY <1>1 DEF Range

------------------------------------------------------------------------------
(* Type correctness.                                                       *)

\* A notify_one only moves a waiting thread to the place where it takes the
\* mutex again.
LEMMA NotifyOneType ==
  ASSUME ThreadsOK, NEW self \in Threads, NEW cv \in {"wait_not_full", "wait_not_empty"},
         pc[self] \notin HoldsProp, NotifyOne(self, cv), UNCHANGED prop
  PROVE  ThreadsOK'
  <1>1. \A t \in Threads : pc[t] = "wait_not_full" => t \in Adders
    BY DEF ThreadsOK, Threads, AddPC, PopPC, CtlPC
  <1>2. \A t \in Threads : pc[t] = "wait_not_empty" => t \in Workers
    BY DEF ThreadsOK, Threads, AddPC, PopPC, CtlPC
  <1>3. CASE pc' = [pc EXCEPT ![self] = "out"]
    BY <1>3 DEF ThreadsOK, Threads, AddPC, PopPC, CtlPC, HoldsProp
  <1>4. ASSUME NEW t \in Threads, pc[t] = cv,
               pc' = [pc EXCEPT ![self] = "out", ![t] = Reacquire(cv)]
        PROVE  ThreadsOK'
    <2>1. CASE cv = "wait_not_full"
      BY <1>1, <1>4, <2>1, QueueAssumption
         DEF ThreadsOK, Threads, AddPC, PopPC, CtlPC, HoldsProp, Reacquire
    <2>2. CASE cv = "wait_not_empty"
      BY <1>2, <1>4, <2>2, QueueAssumption
         DEF ThreadsOK, Threads, AddPC, PopPC, CtlPC, HoldsProp, Reacquire
    <2> QED BY <2>1, <2>2
  <1> QED
    BY <1>3, <1>4 DEF NotifyOne

\* The same for notify_all.
LEMMA NotifyAllType ==
  ASSUME ThreadsOK, NEW self \in Threads, pc[self] \notin HoldsProp, NotifyAll(self), UNCHANGED prop
  PROVE  ThreadsOK'
  BY DEF NotifyAll, ThreadsOK, Threads, AddPC, PopPC, CtlPC, HoldsProp, Woken, Reacquire

\* The inductive invariant behind the type invariant: pop_task reads the task of
\* a listed property, so the map must have one.
QueueInv == TypeOK /\ InSync

\* QueueInv holds initially, and each function of the queue keeps it: ...
LEMMA QueueInvInit == Init => QueueInv
  <1> SUFFICES ASSUME Init PROVE QueueInv
    OBVIOUS
  <1>1. DOMAIN m_wait_tasks = {} /\ Range(m_wait_props) = {} /\ Len(m_wait_props) = 0
    BY DEF Init, Range
  <1>2. m_wait_tasks \in [DOMAIN m_wait_tasks -> Nat] /\ m_wait_props \in Seq(Props)
    BY <1>1 DEF Init
  <1>3. ThreadsOK
    BY QueueAssumption DEF Init, ThreadsOK, Threads, AddPC, PopPC, CtlPC, HoldsProp
  <1>4. TypeOK
    BY <1>1, <1>2, <1>3 DEF Init, TypeOK
  <1>5. InSync
    BY <1>1 DEF Init, InSync, IsInjective
  <1> QED
    BY <1>4, <1>5 DEF QueueInv

\* Steps that change only pc, prop and m_bstop keep QueueInv.
LEMMA QueueInvFrame ==
  ASSUME QueueInv, m_bstop' \in BOOLEAN, ThreadsOK', UNCHANGED <<queue, accepted, started>>
  PROVE  QueueInv'
  BY DEF QueueInv, TypeOK, InSync, queue

\* ... add_task, ...
LEMMA AddKeepsQueueInv ==
  ASSUME QueueInv, NEW a \in Adders, add_task(a)
  PROVE  QueueInv'
  <1> USE DEF QueueInv, TypeOK
  <1>0. a \in Threads
    BY DEF Threads
  <1>1. ASSUME NEW p \in Props, CallAdd(a, p)
        PROVE  QueueInv'
    <2>1. ThreadsOK'
      BY <1>1, QueueAssumption
         DEF CallAdd, ThreadsOK, Threads, AddPC, PopPC, CtlPC, HoldsProp
    <2> QED
      BY <1>1, <2>1, QueueInvFrame DEF CallAdd
  <1>2. CASE AddWait(a)
    <2>1. ThreadsOK'
      BY <1>2, QueueAssumption DEF AddWait, ThreadsOK, Threads, AddPC, PopPC, CtlPC, HoldsProp
    <2> QED
      BY <1>2, <2>1, QueueInvFrame DEF AddWait
  <1>3. CASE AddRefuse(a)
    <2>1. ThreadsOK'
      BY <1>3, QueueAssumption DEF AddRefuse, ThreadsOK, Threads, AddPC, PopPC, CtlPC, HoldsProp
    <2> QED
      BY <1>3, <2>1, QueueInvFrame DEF AddRefuse
  <1>4. CASE AddInsert(a)
    <2> DEFINE p == prop[a]
    <2>1. p \in Props
      BY <1>4 DEF AddInsert, ThreadsOK, HoldsProp
    <2>2. ThreadsOK'
      BY <1>4, QueueAssumption DEF AddInsert, ThreadsOK, Threads, AddPC, PopPC, CtlPC, HoldsProp
    <2>3. /\ m_wait_props' = IF p \in DOMAIN m_wait_tasks THEN m_wait_props
                                                          ELSE Append(m_wait_props, p)
          /\ m_wait_tasks' = [q \in DOMAIN m_wait_tasks \cup {p} |->
                                IF q = p THEN accepted[p] + 1 ELSE m_wait_tasks[q]]
          /\ accepted' = [accepted EXCEPT ![p] = @ + 1]
          /\ UNCHANGED <<m_bstop, m_cur_pop_props, started>>
      BY <1>4 DEF AddInsert
    <2> HIDE DEF p
    <2>4. TypeOK'
      BY <2>1, <2>2, <2>3
    <2>5. DOMAIN m_wait_tasks' = DOMAIN m_wait_tasks \cup {p}
      BY <2>3
    <2>6. InSync'
      <3>1. CASE p \in DOMAIN m_wait_tasks
        BY <2>3, <2>5, <3>1 DEF InSync
      <3>2. CASE p \notin DOMAIN m_wait_tasks
        <4>1. m_wait_props' = Append(m_wait_props, p)
          BY <2>3, <3>2
        <4>2. Range(m_wait_props') = Range(m_wait_props) \cup {p}
          BY <2>1, <4>1, AppendRange
        <4>3. \A i \in 1..Len(m_wait_props) : m_wait_props[i] # p
          BY <3>2 DEF InSync, Range
        <4>4. IsInjective(m_wait_props')
          BY <2>1, <4>1, <4>3 DEF InSync, IsInjective
        <4> QED BY <2>5, <4>2, <4>4 DEF InSync
      <3> QED BY <3>1, <3>2
    <2> QED
      BY <2>4, <2>6
  <1>5. CASE AddNotify(a)
    <2>1. ThreadsOK'
      BY <1>0, <1>5, NotifyOneType DEF AddNotify, HoldsProp
    <2> QED
      BY <1>5, <2>1, QueueInvFrame DEF AddNotify
  <1> QED
    BY <1>1, <1>2, <1>3, <1>4, <1>5 DEF add_task

\* ... pop_task, which reads and erases the map entry of the property it takes, ...
LEMMA PopKeepsQueueInv ==
  ASSUME QueueInv, NEW w \in Workers, pop_task(w)
  PROVE  QueueInv'
  <1> USE DEF QueueInv, TypeOK
  <1>0. w \in Threads
    BY DEF Threads
  <1>1. CASE CallPop(w)
    <2>1. ThreadsOK'
      BY <1>1, QueueAssumption DEF CallPop, ThreadsOK, Threads, AddPC, PopPC, CtlPC, HoldsProp
    <2> QED
      BY <1>1, <2>1, QueueInvFrame DEF CallPop
  <1>2. CASE PopWait(w)
    <2>1. ThreadsOK'
      BY <1>2, QueueAssumption DEF PopWait, ThreadsOK, Threads, AddPC, PopPC, CtlPC, HoldsProp
    <2> QED
      BY <1>2, <2>1, QueueInvFrame DEF PopWait
  <1>3. CASE PopNothing(w)
    <2>1. ThreadsOK'
      BY <1>3, QueueAssumption DEF PopNothing, ThreadsOK, Threads, AddPC, PopPC, CtlPC, HoldsProp
    <2> QED
      BY <1>3, <2>1, QueueInvFrame DEF PopNothing
  <1>4. CASE PopTake(w)
    <2>1. PICK i \in Eligible :
            LET p == m_wait_props[i]
            IN  /\ started' = [started EXCEPT ![p] = m_wait_tasks[p]]
                /\ m_wait_tasks' = [q \in DOMAIN m_wait_tasks \ {p} |-> m_wait_tasks[q]]
                /\ m_wait_props' = RemoveAt(m_wait_props, i)
                /\ m_cur_pop_props' = m_cur_pop_props \cup {p}
                /\ prop' = [prop EXCEPT ![w] = p]
      BY <1>4 DEF PopTake
    <2> DEFINE p == m_wait_props[i]
    <2>2. i \in 1..Len(m_wait_props) /\ p \in Props /\ p \in Range(m_wait_props)
      BY DEF Eligible, Range
    <2>3. p \in DOMAIN m_wait_tasks
      BY <2>2 DEF InSync
    <2>4. /\ pc[w] = "pop_locked"
          /\ pc' = [pc EXCEPT ![w] = "running"]
          /\ UNCHANGED <<m_bstop, accepted>>
      BY <1>4 DEF PopTake
    <2>5. /\ started' = [started EXCEPT ![p] = m_wait_tasks[p]]
          /\ m_wait_tasks' = [q \in DOMAIN m_wait_tasks \ {p} |-> m_wait_tasks[q]]
          /\ m_wait_props' = RemoveAt(m_wait_props, i)
          /\ m_cur_pop_props' = m_cur_pop_props \cup {p}
          /\ prop' = [prop EXCEPT ![w] = p]
      BY <2>1
    <2> HIDE DEF p
    <2>6. ThreadsOK'
      BY <2>2, <2>4, <2>5, QueueAssumption
         DEF ThreadsOK, Threads, AddPC, PopPC, CtlPC, HoldsProp
    <2>7. m_wait_props' \in Seq(Props)
      BY <2>2, <2>5, RemoveAtElements
    <2>8. TypeOK'
      BY <2>2, <2>3, <2>4, <2>5, <2>6, <2>7
    <2>9. IsInjective(m_wait_props')
      BY <2>2, <2>5, RemoveAtRange DEF InSync
    <2>10. Range(m_wait_props') = Range(m_wait_props) \ {p}
      BY <2>2, <2>5, RemoveAtRange DEF InSync, p
    <2>11. InSync'
      BY <2>5, <2>9, <2>10 DEF InSync
    <2> QED
      BY <2>8, <2>11
  <1>5. CASE PopFinish(w)
    <2>1. ThreadsOK'
      BY <1>5, QueueAssumption DEF PopFinish, ThreadsOK, Threads, AddPC, PopPC, CtlPC, HoldsProp
    <2> QED
      BY <1>5, <2>1 DEF PopFinish, InSync
  <1>6. CASE PopNotify(w)
    <2>1. ThreadsOK'
      BY <1>0, <1>6, NotifyOneType DEF PopNotify, HoldsProp
    <2> QED
      BY <1>6, <2>1, QueueInvFrame DEF PopNotify
  <1> QED
    BY <1>1, <1>2, <1>3, <1>4, <1>5, <1>6 DEF pop_task

\* ... the part of clear and stop(false) that empties the list and the map together, ...
LEMMA ClearInnerKeepsQueueInv ==
  ASSUME QueueInv, NEW c \in Controllers, pc[c] = "out", clear_inner(c),
         m_bstop' \in BOOLEAN, UNCHANGED <<prop, accepted, started>>
  PROVE  QueueInv'
  <1>1. ThreadsOK'
    BY NotifyAllType DEF QueueInv, TypeOK, clear_inner, Threads, HoldsProp
  <1>2. DOMAIN m_wait_tasks' = {} /\ Range(m_wait_props') = {} /\ Len(m_wait_props') = 0
    BY DEF clear_inner, Range
  <1>3. m_wait_tasks' \in [DOMAIN m_wait_tasks' -> Nat] /\ m_wait_props' \in Seq(Props)
    BY <1>2 DEF clear_inner
  <1>4. TypeOK'
    BY <1>1, <1>2, <1>3 DEF QueueInv, TypeOK, clear_inner
  <1>5. InSync'
    BY <1>2 DEF clear_inner, InSync, IsInjective
  <1> QED
    BY <1>4, <1>5 DEF QueueInv

\* ... the control functions, ...
LEMMA ControlKeepsQueueInv ==
  ASSUME QueueInv, NEW c \in Controllers, control(c)
  PROVE  QueueInv'
  <1> USE DEF QueueInv, TypeOK
  <1>0. c \in Threads
    BY DEF Threads
  <1>1. CASE Clear(c)
    BY <1>1, ClearInnerKeepsQueueInv DEF Clear
  <1>2. ASSUME NEW bwait \in BOOLEAN, Stop(c, bwait)
        PROVE  QueueInv'
    <2>1. CASE bwait
      <3>1. ThreadsOK'
        BY <1>0, <1>2, <2>1, NotifyAllType DEF Stop, HoldsProp
      <3> QED
        BY <1>2, <2>1, <3>1, QueueInvFrame DEF Stop
    <2>2. CASE ~bwait
      BY <1>2, <2>2, ClearInnerKeepsQueueInv DEF Stop
    <2> QED BY <2>1, <2>2
  <1>3. CASE Start(c)
    <2>1. ThreadsOK'
      BY <1>3, QueueAssumption DEF Start, ThreadsOK, Threads, AddPC, PopPC, CtlPC, HoldsProp
    <2> QED
      BY <1>3, <2>1, QueueInvFrame DEF Start
  <1>4. CASE StartNotify(c)
    <2>1. ThreadsOK'
      BY <1>0, <1>4, NotifyAllType DEF StartNotify, HoldsProp
    <2> QED
      BY <1>4, <2>1, QueueInvFrame DEF StartNotify
  <1>5. ASSUME NEW p \in Props, RemoveProp(c, p)
        PROVE  QueueInv'
    <2>1. ThreadsOK'
      BY <1>5, QueueAssumption DEF RemoveProp, ThreadsOK, Threads, AddPC, PopPC, CtlPC, HoldsProp
    <2>2. /\ m_wait_props' = Without(m_wait_props, p)
          /\ m_wait_tasks' = [q \in DOMAIN m_wait_tasks \ {p} |-> m_wait_tasks[q]]
          /\ UNCHANGED <<m_bstop, m_cur_pop_props, accepted, started>>
      BY <1>5 DEF RemoveProp
    <2>3. /\ m_wait_props' \in Seq(Props)
          /\ IsInjective(m_wait_props')
          /\ Range(m_wait_props') = Range(m_wait_props) \ {p}
      BY <2>2, WithoutElements DEF InSync
    <2>4. TypeOK'
      BY <2>1, <2>2, <2>3
    <2>5. InSync'
      BY <2>2, <2>3 DEF InSync
    <2> QED
      BY <2>4, <2>5
  <1>6. CASE RemoveNotify(c)
    <2>1. ThreadsOK'
      BY <1>0, <1>6, NotifyOneType DEF RemoveNotify, HoldsProp
    <2> QED
      BY <1>6, <2>1, QueueInvFrame DEF RemoveNotify
  <1> QED
    BY <1>1, <1>2, <1>3, <1>4, <1>5, <1>6 DEF control

\* ... and a wait that wakes up by itself.
LEMMA SpuriousWakeKeepsQueueInv ==
  ASSUME QueueInv, NEW t \in Adders \cup Workers, SpuriousWake(t)
  PROVE  QueueInv'
  <1>1. ThreadsOK'
    BY QueueAssumption DEF QueueInv, TypeOK, SpuriousWake, WakesUp, Reacquire,
       ThreadsOK, Threads, AddPC, PopPC, CtlPC, HoldsProp
  <1> QED
    BY <1>1, QueueInvFrame DEF SpuriousWake, QueueInv, TypeOK

\* QueueInv is inductive.
LEMMA NextKeepsQueueInv == QueueInv /\ [Next]_vars => QueueInv'
  <1> SUFFICES ASSUME QueueInv, [Next]_vars PROVE QueueInv'
    OBVIOUS
  <1>1. CASE UNCHANGED vars
    BY <1>1, QueueInvFrame DEF vars, QueueInv, TypeOK, ThreadsOK
  <1>2. CASE Next
    BY <1>2, AddKeepsQueueInv, PopKeepsQueueInv, ControlKeepsQueueInv, SpuriousWakeKeepsQueueInv
       DEF Next
  <1> QED
    BY <1>1, <1>2

\* QueueInv holds in every reachable state.
LEMMA QueueInvHolds == Spec => []QueueInv
  BY QueueInvInit, NextKeepsQueueInv, PTL DEF Spec

\* Every variable keeps its type through every operation of the queue.
THEOREM TypeCorrect == Spec => []TypeOK
  BY QueueInvHolds, PTL DEF QueueInv

\* The list of waiting properties has no duplicates and names exactly the
\* properties of the task map, as the comment of m_wait_tasks demands.
THEOREM ListAndMapInSync == Spec => []InSync
  BY QueueInvHolds, PTL DEF QueueInv

------------------------------------------------------------------------------
(* One thread per property.                                                *)

\* Steps that start and end no task keep OneThreadPerProp.
LEMMA SameRunners ==
  ASSUME OneThreadPerProp, UNCHANGED m_cur_pop_props,
         \A w \in Workers : /\ pc'[w] = "running" <=> pc[w] = "running"
                            /\ pc[w] = "running" => prop'[w] = prop[w]
  PROVE  OneThreadPerProp'
  BY DEF OneThreadPerProp

\* A notification starts and ends no task.
LEMMA NotifyOneRunners ==
  ASSUME ThreadsOK, NEW self \in Threads, NEW cv \in {"wait_not_full", "wait_not_empty"},
         pc[self] # "running", NotifyOne(self, cv)
  PROVE  \A t \in Threads : pc'[t] = "running" <=> pc[t] = "running"
  <1>1. CASE pc' = [pc EXCEPT ![self] = "out"]
    BY <1>1 DEF ThreadsOK
  <1>2. ASSUME NEW u \in Threads, pc[u] = cv,
               pc' = [pc EXCEPT ![self] = "out", ![u] = Reacquire(cv)]
        PROVE  \A t \in Threads : pc'[t] = "running" <=> pc[t] = "running"
    BY <1>2 DEF ThreadsOK, Reacquire
  <1> QED
    BY <1>1, <1>2 DEF NotifyOne

\* notify_all starts no task and ends none.
LEMMA NotifyAllRunners ==
  ASSUME ThreadsOK, NEW self \in Threads, pc[self] # "running", NotifyAll(self)
  PROVE  \A t \in Threads : pc'[t] = "running" <=> pc[t] = "running"
  BY DEF NotifyAll, Woken, Reacquire, ThreadsOK

\* pop_task takes only a property that is not in m_cur_pop_props, so that a second thread never
\* runs it; the other functions do not change who runs what.
LEMMA PopKeepsRunners ==
  ASSUME QueueInv, OneThreadPerProp, NEW w \in Workers, pop_task(w)
  PROVE  OneThreadPerProp'
  <1> USE DEF QueueInv, TypeOK, ThreadsOK
  <1>0. w \in Threads /\ Workers \subseteq Threads
    BY DEF Threads
  <1>1. CASE CallPop(w)
    BY <1>0, <1>1, SameRunners DEF CallPop, queue
  <1>2. CASE PopWait(w)
    BY <1>0, <1>2, SameRunners DEF PopWait, queue
  <1>3. CASE PopNothing(w)
    BY <1>0, <1>3, SameRunners DEF PopNothing, queue
  <1>4. CASE PopTake(w)
    <2>1. PICK i \in Eligible : /\ m_cur_pop_props' = m_cur_pop_props \cup {m_wait_props[i]}
                                /\ prop' = [prop EXCEPT ![w] = m_wait_props[i]]
      BY <1>4 DEF PopTake
    <2> DEFINE p == m_wait_props[i]
    <2>2. p \notin m_cur_pop_props
      BY DEF Eligible
    <2>3. /\ pc' = [pc EXCEPT ![w] = "running"]
          /\ pc[w] = "pop_locked"
          /\ prop' = [prop EXCEPT ![w] = p]
          /\ m_cur_pop_props' = m_cur_pop_props \cup {p}
      BY <1>4, <2>1 DEF PopTake
    <2> HIDE DEF p
    <2>4. \A v \in Workers : pc[v] = "running" => prop[v] # p
      BY <2>2 DEF OneThreadPerProp
    <2>5. \A v \in Workers \ {w} : pc'[v] = pc[v] /\ prop'[v] = prop[v]
      BY <1>0, <2>3
    <2>6. pc'[w] = "running" /\ prop'[w] = p
      BY <1>0, <2>3
    <2>7. {v \in Workers : pc'[v] = "running"} = {v \in Workers : pc[v] = "running"} \cup {w}
      BY <2>3, <2>5, <2>6
    <2>8. m_cur_pop_props' = {prop'[v] : v \in {u \in Workers : pc'[u] = "running"}}
      BY <2>3, <2>5, <2>6, <2>7 DEF OneThreadPerProp
    <2> QED
      BY <2>4, <2>5, <2>6, <2>8 DEF OneThreadPerProp
  <1>5. CASE PopFinish(w)
    <2>1. /\ pc[w] = "running"
          /\ pc' = [pc EXCEPT ![w] = "finish_notify"]
          /\ prop' = [prop EXCEPT ![w] = NoProp]
          /\ m_cur_pop_props' = m_cur_pop_props \ {prop[w]}
      BY <1>5 DEF PopFinish
    <2>2. \A v \in Workers \ {w} : /\ pc'[v] = pc[v] /\ prop'[v] = prop[v]
                                   /\ pc[v] = "running" => prop[v] # prop[w]
      BY <1>0, <2>1 DEF OneThreadPerProp
    <2>3. {v \in Workers : pc'[v] = "running"} = {v \in Workers : pc[v] = "running"} \ {w}
      BY <1>0, <2>1, <2>2
    <2>4. m_cur_pop_props' = {prop'[v] : v \in {u \in Workers : pc'[u] = "running"}}
      <3>1. ASSUME NEW q \in m_cur_pop_props'
            PROVE  \E v \in Workers : pc'[v] = "running" /\ prop'[v] = q
        <4>1. PICK v \in Workers : v # w /\ pc[v] = "running" /\ prop[v] = q
          BY <2>1 DEF OneThreadPerProp
        <4> QED BY <2>2, <4>1
      <3>2. ASSUME NEW v \in Workers, pc'[v] = "running"
            PROVE  prop'[v] \in m_cur_pop_props'
        <4>1. v # w /\ pc[v] = "running"
          BY <2>3, <3>2
        <4> QED BY <2>1, <2>2, <4>1 DEF OneThreadPerProp
      <3> QED
        BY <3>1, <3>2
    <2>5. pc'[w] # "running"
      BY <1>0, <2>1
    <2> QED
      BY <2>2, <2>4, <2>5 DEF OneThreadPerProp
  <1>6. CASE PopNotify(w)
    <2>1. \A t \in Threads : pc'[t] = "running" <=> pc[t] = "running"
      BY <1>0, <1>6, NotifyOneRunners DEF PopNotify
    <2> QED
      BY <1>0, <1>6, <2>1, SameRunners DEF PopNotify, queue
  <1> QED
    BY <1>1, <1>2, <1>3, <1>4, <1>5, <1>6 DEF pop_task

\* add_task does not change who runs what.
LEMMA AddKeepsRunners ==
  ASSUME QueueInv, OneThreadPerProp, NEW a \in Adders, add_task(a)
  PROVE  OneThreadPerProp'
  <1> USE DEF QueueInv, TypeOK, ThreadsOK
  <1>0. a \in Threads /\ Workers \subseteq Threads /\ a \notin Workers
    BY QueueAssumption DEF Threads
  <1>1. ASSUME NEW p \in Props, CallAdd(a, p) PROVE OneThreadPerProp'
    BY <1>0, <1>1, SameRunners DEF CallAdd, queue
  <1>2. CASE AddWait(a)
    BY <1>0, <1>2, SameRunners DEF AddWait, queue
  <1>3. CASE AddRefuse(a)
    BY <1>0, <1>3, SameRunners DEF AddRefuse, queue
  <1>4. CASE AddInsert(a)
    BY <1>0, <1>4, SameRunners DEF AddInsert
  <1>5. CASE AddNotify(a)
    <2>1. \A t \in Threads : pc'[t] = "running" <=> pc[t] = "running"
      BY <1>0, <1>5, NotifyOneRunners DEF AddNotify
    <2> QED
      BY <1>0, <1>5, <2>1, SameRunners DEF AddNotify, queue
  <1> QED
    BY <1>1, <1>2, <1>3, <1>4, <1>5 DEF add_task

\* The control functions do not change who runs what: clear leaves m_cur_pop_props alone.
LEMMA ControlKeepsRunners ==
  ASSUME QueueInv, OneThreadPerProp, NEW c \in Controllers, control(c)
  PROVE  OneThreadPerProp'
  <1> USE DEF QueueInv, TypeOK, ThreadsOK
  <1>0. c \in Threads /\ Workers \subseteq Threads /\ c \notin Workers /\ pc[c] # "running"
    BY QueueAssumption DEF Threads, CtlPC
  <1>1. ASSUME NotifyAll(c), UNCHANGED <<m_cur_pop_props, prop>>
        PROVE  OneThreadPerProp'
    BY <1>0, <1>1, NotifyAllRunners, SameRunners
  <1>2. CASE Clear(c)
    BY <1>1, <1>2 DEF Clear, clear_inner
  <1>3. ASSUME NEW bwait \in BOOLEAN, Stop(c, bwait) PROVE OneThreadPerProp'
    BY <1>1, <1>3 DEF Stop, clear_inner, queue
  <1>4. CASE Start(c)
    BY <1>0, <1>4, SameRunners DEF Start, queue
  <1>5. CASE StartNotify(c)
    BY <1>1, <1>5 DEF StartNotify, queue
  <1>6. ASSUME NEW p \in Props, RemoveProp(c, p) PROVE OneThreadPerProp'
    BY <1>0, <1>6, SameRunners DEF RemoveProp
  <1>7. CASE RemoveNotify(c)
    <2>1. \A t \in Threads : pc'[t] = "running" <=> pc[t] = "running"
      BY <1>0, <1>7, NotifyOneRunners DEF RemoveNotify
    <2> QED
      BY <1>0, <1>7, <2>1, SameRunners DEF RemoveNotify, queue
  <1> QED
    BY <1>2, <1>3, <1>4, <1>5, <1>6, <1>7 DEF control

\* No two threads ever run tasks of one property at the same time, whatever the
\* interleaving of add_task, pop_task, clear, stop, start and remove_prop.
THEOREM PropsRunSerially == Spec => []OneThreadPerProp
  <1>1. Init => OneThreadPerProp
    BY DEF Init, OneThreadPerProp, Threads
  <1>2. QueueInv /\ OneThreadPerProp /\ [Next]_vars => OneThreadPerProp'
    <2> SUFFICES ASSUME QueueInv, OneThreadPerProp, [Next]_vars PROVE OneThreadPerProp'
      OBVIOUS
    <2>1. ASSUME NEW t \in Adders \cup Workers, SpuriousWake(t) PROVE OneThreadPerProp'
      BY <2>1, SameRunners DEF SpuriousWake, WakesUp, Reacquire, QueueInv, TypeOK, ThreadsOK, Threads, queue
    <2>2. CASE UNCHANGED vars
      BY <2>2, SameRunners DEF vars, queue
    <2> QED
      BY <2>1, <2>2, AddKeepsRunners, PopKeepsRunners, ControlKeepsRunners DEF Next
  <1> QED
    BY <1>1, <1>2, QueueInvHolds, PTL DEF Spec

------------------------------------------------------------------------------
(* Which tasks run, and what a stopped queue accepts.                      *)

\* A step that neither queues nor takes a task: tasks may only be dropped.
OnlyDrops ==
  /\ UNCHANGED <<accepted, started>>
  /\ DOMAIN m_wait_tasks' \subseteq DOMAIN m_wait_tasks
  /\ \A p \in DOMAIN m_wait_tasks' : m_wait_tasks'[p] = m_wait_tasks[p]

\* Every step accepts a task, takes one, or only drops tasks.
LEMMA StepKinds ==
  ASSUME QueueInv, [Next]_vars
  PROVE  \/ \E a \in Adders : AddInsert(a)
         \/ \E w \in Workers : PopTake(w)
         \/ OnlyDrops
  <1>1. ASSUME NEW a \in Adders, add_task(a), ~AddInsert(a) PROVE OnlyDrops
    BY <1>1 DEF add_task, CallAdd, AddWait, AddRefuse, AddNotify, queue, OnlyDrops
  <1>2. ASSUME NEW w \in Workers, pop_task(w), ~PopTake(w) PROVE OnlyDrops
    BY <1>2 DEF pop_task, CallPop, PopWait, PopNothing, PopFinish, PopNotify, queue, OnlyDrops
  <1>3. ASSUME NEW c \in Controllers, control(c) PROVE OnlyDrops
    <2>1. ASSUME clear_inner(c), UNCHANGED <<accepted, started>> PROVE OnlyDrops
      BY <2>1 DEF clear_inner, OnlyDrops
    <2>2. CASE Clear(c)
      BY <2>1, <2>2 DEF Clear
    <2>3. ASSUME NEW bwait \in BOOLEAN, Stop(c, bwait) PROVE OnlyDrops
      <3>1. CASE bwait
        BY <2>3, <3>1 DEF Stop, queue, OnlyDrops
      <3>2. CASE ~bwait
        BY <2>1, <2>3, <3>2 DEF Stop
      <3> QED BY <3>1, <3>2
    <2>4. CASE Start(c) \/ StartNotify(c) \/ RemoveNotify(c)
      BY <2>4 DEF Start, StartNotify, RemoveNotify, queue, OnlyDrops
    <2>5. ASSUME NEW p \in Props, RemoveProp(c, p) PROVE OnlyDrops
      BY <2>5 DEF RemoveProp, OnlyDrops
    <2> QED
      BY <1>3, <2>2, <2>3, <2>4, <2>5 DEF control
  <1>4. ASSUME NEW t \in Adders \cup Workers, SpuriousWake(t) PROVE OnlyDrops
    BY <1>4 DEF SpuriousWake, queue, OnlyDrops
  <1>5. CASE UNCHANGED vars
    BY <1>5 DEF vars, queue, OnlyDrops
  <1> QED
    BY <1>1, <1>2, <1>3, <1>4, <1>5 DEF Next

\* A waiting task is the newest one accepted for its property and has not run;
\* this is what makes NewestStateRuns inductive.
TaskStamps ==
  \A p \in Props :
    /\ started[p] <= accepted[p]
    /\ p \in DOMAIN m_wait_tasks =>
         m_wait_tasks[p] = accepted[p] /\ started[p] < accepted[p]

NewestStep ==
  \A p \in Props : started'[p] # started[p] =>
     started'[p] = accepted[p] /\ started'[p] > started[p]

\* TaskStamps is inductive, and a step that starts a task starts the newest one.
LEMMA TaskStampsStep ==
  ASSUME QueueInv, TaskStamps, [Next]_vars
  PROVE  TaskStamps' /\ NewestStep
  <1> USE DEF QueueInv, TypeOK
  <1>1. ASSUME NEW a \in Adders, AddInsert(a)
        PROVE  TaskStamps' /\ NewestStep
    <2> DEFINE p == prop[a]
    <2>1. /\ accepted' = [accepted EXCEPT ![p] = @ + 1]
          /\ m_wait_tasks' = [q \in DOMAIN m_wait_tasks \cup {p} |->
                                IF q = p THEN accepted[p] + 1 ELSE m_wait_tasks[q]]
          /\ started' = started
      BY <1>1 DEF AddInsert
    <2>2. p \in Props
      BY <1>1 DEF AddInsert, ThreadsOK, HoldsProp
    <2> HIDE DEF p
    <2> QED
      BY <2>1, <2>2 DEF TaskStamps, NewestStep
  <1>2. ASSUME NEW w \in Workers, PopTake(w)
        PROVE  TaskStamps' /\ NewestStep
    <2>1. PICK i \in Eligible :
            LET p == m_wait_props[i]
            IN  /\ started' = [started EXCEPT ![p] = m_wait_tasks[p]]
                /\ m_wait_tasks' = [q \in DOMAIN m_wait_tasks \ {p} |-> m_wait_tasks[q]]
      BY <1>2 DEF PopTake
    <2> DEFINE p == m_wait_props[i]
    <2>2. p \in Props /\ p \in DOMAIN m_wait_tasks
      BY DEF Eligible, InSync, Range
    <2>3. /\ started' = [started EXCEPT ![p] = m_wait_tasks[p]]
          /\ m_wait_tasks' = [q \in DOMAIN m_wait_tasks \ {p} |-> m_wait_tasks[q]]
          /\ accepted' = accepted
      BY <1>2, <2>1 DEF PopTake
    <2> HIDE DEF p
    <2> QED
      BY <2>2, <2>3 DEF TaskStamps, NewestStep
  <1>3. CASE OnlyDrops
    BY <1>3 DEF OnlyDrops, TaskStamps, NewestStep
  <1> QED
    BY <1>1, <1>2, <1>3, StepKinds

\* TaskStamps holds in every reachable state.
LEMMA TaskStampsHold == Spec => []TaskStamps
  <1>1. Init => TaskStamps
    BY DEF Init, TaskStamps
  <1> QED
    BY <1>1, TaskStampsStep, QueueInvHolds, PTL DEF Spec

\* A superseded task never runs, and the tasks of a property run in the order
\* they were accepted.
THEOREM OnlyNewestRuns == Spec => NewestStateRuns
  <1>1. QueueInv /\ TaskStamps /\ [Next]_vars => [NewestStep]_vars
    BY TaskStampsStep
  <1>2. Spec => [][NewestStep]_vars
    BY <1>1, QueueInvHolds, TaskStampsHold, PTL DEF Spec
  <1> QED
    BY <1>2 DEF NewestStateRuns, NewestStep

\* No property enters the list between stop() and the next start().
THEOREM NothingAcceptedWhileStopped == Spec => StoppedQueueOnlyShrinks
  <1> DEFINE Shrinks == m_bstop /\ m_bstop' => Range(m_wait_props') \subseteq Range(m_wait_props)
  <1>1. QueueInv /\ QueueInv' /\ [Next]_vars => Shrinks
    <2> SUFFICES ASSUME QueueInv, QueueInv', [Next]_vars, m_bstop, m_bstop'
                 PROVE  Range(m_wait_props') \subseteq Range(m_wait_props)
      OBVIOUS
    <2>1. Range(m_wait_props) = DOMAIN m_wait_tasks /\ Range(m_wait_props') = DOMAIN m_wait_tasks'
      BY DEF QueueInv, InSync
    <2>2. ASSUME NEW a \in Adders, AddInsert(a) PROVE FALSE
      BY <2>2 DEF AddInsert
    <2>3. ASSUME NEW w \in Workers, PopTake(w)
          PROVE  DOMAIN m_wait_tasks' \subseteq DOMAIN m_wait_tasks
      BY <2>3 DEF PopTake
    <2> QED
      BY <2>1, <2>2, <2>3, StepKinds DEF OnlyDrops
  <1>2. Spec => [][Shrinks]_vars
    BY <1>1, QueueInvHolds, PTL DEF Spec
  <1> QED
    BY <1>2 DEF StoppedQueueOnlyShrinks

------------------------------------------------------------------------------
(* Wake-ups: nobody sleeps with nothing left to wake it.                   *)

Asleep == {"wait_not_full", "wait_not_empty"}

\* The step puts nobody to sleep.
NobodyDozesOff == \A t \in Threads : pc'[t] \in Asleep => pc'[t] = pc[t]

\* notify_one puts nobody to sleep, and wakes one sleeper of cv when there is one.
LEMMA NotifyOneSleepers ==
  ASSUME ThreadsOK, NEW self \in Threads, NEW cv \in Asleep, pc[self] \notin Asleep,
         NotifyOne(self, cv)
  PROVE  /\ NobodyDozesOff
         /\ \A t \in Threads \ {self} : pc[t] # cv => pc'[t] = pc[t]
         /\ \/ /\ pc'[self] = "out"
               /\ \A t \in Threads : pc'[t] # cv
            \/ \E t \in Threads : pc[t] = cv /\ pc'[t] = Reacquire(cv)
  <1>1. CASE /\ \A t \in Threads : pc[t] # cv
             /\ pc' = [pc EXCEPT ![self] = "out"]
    <2>1. /\ pc'[self] = "out"
          /\ \A t \in Threads \ {self} : pc'[t] = pc[t]
      BY <1>1 DEF ThreadsOK
    <2>2. \A t \in Threads : pc'[t] # cv
      BY <1>1, <2>1 DEF Asleep
    <2>3. NobodyDozesOff
      BY <2>1 DEF NobodyDozesOff, Asleep
    <2> QED
      BY <2>1, <2>2, <2>3
  <1>2. ASSUME NEW u \in Threads, pc[u] = cv,
               pc' = [pc EXCEPT ![self] = "out", ![u] = Reacquire(cv)]
        PROVE  /\ NobodyDozesOff
               /\ \A t \in Threads \ {self} : pc[t] # cv => pc'[t] = pc[t]
               /\ pc'[u] = Reacquire(cv)
    BY <1>2 DEF ThreadsOK, Reacquire, NobodyDozesOff, Asleep
  <1> QED
    BY <1>1, <1>2 DEF NotifyOne

\* notify_all leaves nobody asleep.
LEMMA NotifyAllSleepers ==
  ASSUME NEW self \in Threads, NotifyAll(self)
  PROVE  \A t \in Threads : pc'[t] \notin Asleep
  BY DEF NotifyAll, Woken, Reacquire, Asleep

\* Only the two wait predicates put a thread to sleep.
LEMMA WhoDozesOff ==
  ASSUME ThreadsOK, [Next]_vars
  PROVE  \/ NobodyDozesOff
         \/ \E a \in Adders : AddWait(a) /\ ~m_bstop
         \/ \E w \in Workers : PopWait(w) /\ ~m_bstop
  <1>0. Adders \subseteq Threads /\ Workers \subseteq Threads /\ Controllers \subseteq Threads
    BY DEF Threads
  <1>1. ASSUME NEW a \in Adders, add_task(a), ~(AddWait(a) /\ ~m_bstop)
        PROVE  NobodyDozesOff
    <2>1. CASE AddNotify(a)
      BY <1>0, <2>1, NotifyOneSleepers DEF AddNotify, Asleep
    <2>2. CASE ~AddNotify(a)
      BY <1>0, <1>1, <2>2
         DEF add_task, CallAdd, AddWait, AddRefuse, AddInsert, NobodyDozesOff, Asleep, ThreadsOK
    <2> QED BY <2>1, <2>2
  <1>2. ASSUME NEW w \in Workers, pop_task(w), ~(PopWait(w) /\ ~m_bstop)
        PROVE  NobodyDozesOff
    <2>1. CASE PopNotify(w)
      BY <1>0, <2>1, NotifyOneSleepers DEF PopNotify, Asleep
    <2>2. CASE ~PopNotify(w)
      BY <1>0, <1>2, <2>2
         DEF pop_task, CallPop, PopWait, PopNothing, PopTake, PopFinish, NobodyDozesOff, Asleep,
             ThreadsOK
    <2> QED BY <2>1, <2>2
  <1>3. ASSUME NEW c \in Controllers, control(c) PROVE NobodyDozesOff
    <2>1. ASSUME NotifyAll(c) PROVE NobodyDozesOff
      BY <1>0, <2>1, NotifyAllSleepers DEF NobodyDozesOff
    <2>2. CASE RemoveNotify(c)
      BY <1>0, <2>2, NotifyOneSleepers DEF RemoveNotify, Asleep
    <2>3. CASE Start(c) \/ \E p \in Props : RemoveProp(c, p)
      BY <1>0, <2>3 DEF Start, RemoveProp, NobodyDozesOff, Asleep, ThreadsOK
    <2>4. CASE Clear(c) \/ StartNotify(c) \/ \E bwait \in BOOLEAN : Stop(c, bwait)
      BY <2>1, <2>4 DEF Clear, StartNotify, Stop, clear_inner
    <2> QED BY <1>3, <2>2, <2>3, <2>4 DEF control
  <1>4. ASSUME NEW t \in Adders \cup Workers, SpuriousWake(t) PROVE NobodyDozesOff
    BY <1>0, <1>4 DEF SpuriousWake, WakesUp, Reacquire, NobodyDozesOff, Asleep, ThreadsOK
  <1>5. CASE UNCHANGED vars
    BY <1>5 DEF vars, NobodyDozesOff
  <1> QED
    BY <1>1, <1>2, <1>3, <1>4, <1>5 DEF Next

\* A step that stops the queue wakes everybody up.
LEMMA StoppingWakesAll ==
  ASSUME [Next]_vars, ~m_bstop, m_bstop'
  PROVE  \A t \in Threads : pc'[t] \notin Asleep
  <1>1. ASSUME NEW c \in Controllers, NEW bwait \in BOOLEAN, Stop(c, bwait)
        PROVE  \A t \in Threads : pc'[t] \notin Asleep
    <2>1. NotifyAll(c)
      BY <1>1 DEF Stop, clear_inner
    <2> QED BY <2>1, NotifyAllSleepers DEF Threads
  <1>2. ASSUME NEW c \in Controllers, control(c), \A bwait \in BOOLEAN : ~Stop(c, bwait) PROVE FALSE
    BY <1>2 DEF control, Clear, Start, StartNotify, RemoveProp, RemoveNotify
  <1>3. ASSUME NEW a \in Adders, add_task(a) PROVE FALSE
    BY <1>3 DEF add_task, CallAdd, AddWait, AddRefuse, AddInsert, AddNotify
  <1>4. ASSUME NEW w \in Workers, pop_task(w) PROVE FALSE
    BY <1>4 DEF pop_task, CallPop, PopWait, PopNothing, PopTake, PopFinish, PopNotify
  <1>5. ASSUME NEW t \in Adders \cup Workers, SpuriousWake(t) PROVE FALSE
    BY <1>5 DEF SpuriousWake
  <1>6. CASE UNCHANGED vars
    BY <1>6 DEF vars
  <1> QED
    BY <1>1, <1>2, <1>3, <1>4, <1>5, <1>6 DEF Next

\* stop() leaves no caller of add_task and no worker asleep, and none falls
\* asleep before the next start().
THEOREM StopWakesEverybody == Spec => []StoppedQueueHasNoSleeper
  <1>1. Init => StoppedQueueHasNoSleeper
    BY DEF Init, StoppedQueueHasNoSleeper
  <1>2. QueueInv /\ StoppedQueueHasNoSleeper /\ [Next]_vars => StoppedQueueHasNoSleeper'
    <2> SUFFICES ASSUME QueueInv, StoppedQueueHasNoSleeper, [Next]_vars, m_bstop'
                 PROVE  \A t \in Threads : pc'[t] \notin Asleep
      BY DEF StoppedQueueHasNoSleeper, Asleep
    <2>1. CASE ~m_bstop
      BY <2>1, StoppingWakesAll
    <2>2. CASE m_bstop
      <3>1. NobodyDozesOff
        BY <2>2, WhoDozesOff DEF QueueInv, TypeOK
      <3> QED BY <2>2, <3>1 DEF StoppedQueueHasNoSleeper, NobodyDozesOff, Asleep
    <2> QED BY <2>1, <2>2
  <1> QED
    BY <1>1, <1>2, QueueInvHolds, PTL DEF Spec

\* What can still wake a blocked caller of add_task up.
AdderWakers == {"add_lock", "add_locked", "running", "finish_notify",
                "remove_notify", "start_notify"}

HasWaker == m_wait_props # <<>> \/ \E t \in Threads : pc[t] \in AdderWakers
NoBlockedAdder == \A a \in Adders : pc[a] # "wait_not_full"

\* No step leaves a blocked caller of add_task without somebody who will notify it.
LEMMA NextKeepsAdderWaker ==
  ASSUME QueueInv, StoppedQueueHasNoSleeper, BlockedAdderHasWaker, [Next]_vars
  PROVE  BlockedAdderHasWaker'
  <1> USE DEF QueueInv, TypeOK
  <1>0. Adders \subseteq Threads /\ Workers \subseteq Threads /\ Controllers \subseteq Threads
    BY DEF Threads
  <1> SUFFICES NoBlockedAdder' \/ HasWaker'
    BY DEF BlockedAdderHasWaker, NoBlockedAdder, HasWaker, AdderWakers
  <1>a. NoBlockedAdder \/ HasWaker
    BY DEF BlockedAdderHasWaker, NoBlockedAdder, HasWaker, AdderWakers
  \* Steps of a thread that is no waker leave the others, and the list, alone.
  <1>b. ASSUME m_wait_props' = m_wait_props, NobodyDozesOff,
               \A t \in Threads : pc[t] \in AdderWakers => pc'[t] = pc[t]
        PROVE  NoBlockedAdder' \/ HasWaker'
    BY <1>0, <1>a, <1>b DEF NoBlockedAdder, HasWaker, NobodyDozesOff, Asleep
  \* notify_one on m_cv_not_full wakes a caller of add_task up, if one sleeps.
  <1>c. ASSUME NEW t \in Threads, pc[t] \notin Asleep, NotifyOne(t, "wait_not_full")
        PROVE  NoBlockedAdder' \/ HasWaker'
    <2>1. \/ \A u \in Threads : pc'[u] # "wait_not_full"
          \/ \E u \in Threads : pc'[u] = "add_lock"
      BY <1>c, NotifyOneSleepers DEF Asleep, Reacquire
    <2> QED BY <1>0, <2>1 DEF NoBlockedAdder, HasWaker, AdderWakers
  <1>d. ASSUME NEW t \in Threads, NotifyAll(t) PROVE NoBlockedAdder'
    BY <1>0, <1>d, NotifyAllSleepers DEF NoBlockedAdder, Asleep
  <1>1. ASSUME NEW a \in Adders, add_task(a) PROVE NoBlockedAdder' \/ HasWaker'
    <2>1. ASSUME NEW p \in Props, CallAdd(a, p) PROVE HasWaker'
      BY <1>0, <2>1 DEF CallAdd, HasWaker, AdderWakers, ThreadsOK
    <2>2. CASE AddWait(a)
      <3>1. CASE m_bstop \/ not_full
        BY <1>0, <2>2, <3>1 DEF AddWait, HasWaker, AdderWakers, ThreadsOK
      <3>2. CASE ~(m_bstop \/ not_full)
        BY <2>2, <3>2, QueueAssumption DEF AddWait, not_full, HasWaker, queue
      <3> QED BY <3>1, <3>2
    <2>3. CASE AddRefuse(a)
      BY <1>0, <2>3 DEF AddRefuse, StoppedQueueHasNoSleeper, NoBlockedAdder, ThreadsOK
    <2>4. CASE AddInsert(a)
      <3>1. prop[a] \in Props
        BY <2>4 DEF AddInsert, ThreadsOK, HoldsProp
      <3>2. prop[a] \in DOMAIN m_wait_tasks => m_wait_props # <<>>
        BY DEF InSync, Range
      <3>3. Append(m_wait_props, prop[a]) # <<>>
        BY <3>1, AppendProperties
      <3>4. m_wait_props' # <<>>
        BY <2>4, <3>2, <3>3 DEF AddInsert
      <3> QED BY <3>4 DEF HasWaker
    <2>5. CASE AddNotify(a)
      <3>1. /\ NobodyDozesOff
            /\ \A t \in Threads \ {a} : pc[t] # "wait_not_empty" => pc'[t] = pc[t]
        BY <1>0, <2>5, NotifyOneSleepers DEF AddNotify, Asleep
      <3> QED BY <1>b, <2>5, <3>1 DEF AddNotify, AdderWakers, queue
    <2> QED BY <1>1, <2>1, <2>2, <2>3, <2>4, <2>5 DEF add_task
  <1>2. ASSUME NEW w \in Workers, pop_task(w) PROVE NoBlockedAdder' \/ HasWaker'
    <2>1. CASE CallPop(w) \/ PopWait(w) \/ PopNothing(w)
      <3>1. NoBlockedAdder => NoBlockedAdder'
        BY <1>0, <2>1 DEF CallPop, PopWait, PopNothing, NoBlockedAdder, ThreadsOK
      <3>2. HasWaker => HasWaker'
        BY <1>0, <2>1 DEF CallPop, PopWait, PopNothing, HasWaker, AdderWakers, ThreadsOK, queue
      <3> QED BY <1>a, <3>1, <3>2
    <2>2. CASE PopTake(w) \/ PopFinish(w)
      BY <1>0, <2>2 DEF PopTake, PopFinish, HasWaker, AdderWakers, ThreadsOK
    <2>3. CASE PopNotify(w)
      BY <1>0, <1>c, <2>3 DEF PopNotify, Asleep
    <2> QED BY <1>2, <2>1, <2>2, <2>3 DEF pop_task
  <1>3. ASSUME NEW c \in Controllers, control(c) PROVE NoBlockedAdder' \/ HasWaker'
    <2>1. CASE Clear(c) \/ StartNotify(c) \/ \E bwait \in BOOLEAN : Stop(c, bwait)
      BY <1>0, <1>d, <2>1 DEF Clear, StartNotify, Stop, clear_inner
    <2>2. CASE Start(c) \/ \E p \in Props : RemoveProp(c, p)
      BY <1>0, <2>2 DEF Start, RemoveProp, HasWaker, AdderWakers, ThreadsOK
    <2>3. CASE RemoveNotify(c)
      BY <1>0, <1>c, <2>3 DEF RemoveNotify, Asleep
    <2> QED BY <1>3, <2>1, <2>2, <2>3 DEF control
  <1>4. ASSUME NEW t \in Adders \cup Workers, SpuriousWake(t)
        PROVE  NoBlockedAdder' \/ HasWaker'
    <2>1. /\ t \in Threads /\ pc[t] \in Asleep
          /\ pc' = [pc EXCEPT ![t] = Reacquire(pc[t])]
          /\ m_wait_props' = m_wait_props
      BY <1>0, <1>4 DEF SpuriousWake, WakesUp, Asleep, queue
    <2>2. NobodyDozesOff
      BY <2>1 DEF NobodyDozesOff, Reacquire, Asleep, ThreadsOK
    <2>3. \A u \in Threads : pc[u] \in AdderWakers => pc'[u] = pc[u]
      BY <2>1 DEF Asleep, AdderWakers, ThreadsOK
    <2> QED BY <1>b, <2>1, <2>2, <2>3
  <1>5. CASE UNCHANGED vars
    BY <1>5, <1>a DEF vars, queue, NoBlockedAdder, HasWaker
  <1> QED
    BY <1>1, <1>2, <1>3, <1>4, <1>5 DEF Next

\* A caller of add_task never sleeps for ever: whenever one sleeps on
\* m_cv_not_full there is a waiting or running task, or a thread on its way to
\* notify, for any capacity.
THEOREM AddersAreWoken == Spec => []BlockedAdderHasWaker
  <1>1. Init => BlockedAdderHasWaker
    BY DEF Init, BlockedAdderHasWaker, Threads
  <1> QED
    BY <1>1, NextKeepsAdderWaker, QueueInvHolds, StopWakesEverybody, PTL DEF Spec

\* No step leaves every worker asleep while a property waits.
LEMMA NextKeepsWorkerWaker ==
  ASSUME QueueInv, NoWorkLeftAsleep, [Next]_vars
  PROVE  NoWorkLeftAsleep'
  <1> USE DEF QueueInv, TypeOK
  <1>0. Adders \subseteq Threads /\ Workers \subseteq Threads /\ Controllers \subseteq Threads
    BY DEF Threads
  <1>d. PICK w0 \in Workers : TRUE
    BY QueueAssumption
  <1> SUFFICES ASSUME \A w \in Workers : pc'[w] = "wait_not_empty"
               PROVE  m_wait_props' = <<>> \/ \E a \in Adders : pc'[a] = "add_notify"
    BY DEF NoWorkLeftAsleep
  \* A step that puts no worker to sleep, adds nothing to the list and is not
  \* the notification itself.
  <1>b. ASSUME NobodyDozesOff, m_wait_props = <<>> => m_wait_props' = <<>>,
               \A a \in Adders : pc[a] = "add_notify" => pc'[a] = pc[a]
        PROVE  m_wait_props' = <<>> \/ \E a \in Adders : pc'[a] = "add_notify"
    BY <1>0, <1>b DEF NoWorkLeftAsleep, NobodyDozesOff, Asleep
  <1>1. ASSUME NEW a \in Adders, add_task(a)
        PROVE  m_wait_props' = <<>> \/ \E b \in Adders : pc'[b] = "add_notify"
    <2>1. ASSUME NEW p \in Props, CallAdd(a, p)
          PROVE  m_wait_props' = <<>> \/ \E b \in Adders : pc'[b] = "add_notify"
      BY <1>0, <1>b, <2>1 DEF CallAdd, NobodyDozesOff, Asleep, ThreadsOK, queue
    <2>2. CASE AddWait(a)
      <3>1. \A t \in Threads \ {a} : pc'[t] = pc[t]
        BY <1>0, <2>2 DEF AddWait, ThreadsOK
      <3>2. \A w \in Workers : pc[w] = "wait_not_empty"
        BY <1>0, <3>1, QueueAssumption
      <3> QED BY <1>0, <2>2, <3>1, <3>2 DEF AddWait, NoWorkLeftAsleep, queue
    <2>3. CASE AddRefuse(a)
      BY <1>0, <1>b, <2>3 DEF AddRefuse, NobodyDozesOff, Asleep, ThreadsOK, queue
    <2>4. CASE AddInsert(a)
      BY <1>0, <2>4 DEF AddInsert, ThreadsOK
    <2>5. CASE AddNotify(a)
      <3>1. \/ \A t \in Threads : pc'[t] # "wait_not_empty"
            \/ \E t \in Threads : pc[t] = "wait_not_empty" /\ pc'[t] = "pop_lock"
        BY <1>0, <2>5, NotifyOneSleepers DEF AddNotify, Asleep, Reacquire
      <3>2. ASSUME NEW t \in Threads, pc[t] = "wait_not_empty", pc'[t] = "pop_lock"
            PROVE  FALSE
        <4>1. t \in Workers
          BY <3>2 DEF ThreadsOK, Threads, AddPC, CtlPC
        <4> QED BY <3>2, <4>1
      <3> QED BY <1>0, <1>d, <3>1, <3>2
    <2> QED BY <1>1, <2>1, <2>2, <2>3, <2>4, <2>5 DEF add_task
  <1>2. ASSUME NEW w \in Workers, pop_task(w)
        PROVE  m_wait_props' = <<>> \/ \E b \in Adders : pc'[b] = "add_notify"
    <2>1. pc'[w] = "wait_not_empty"
      OBVIOUS
    <2>2. ~CallPop(w) /\ ~PopNothing(w) /\ ~PopTake(w) /\ ~PopFinish(w)
      BY <1>0, <2>1 DEF CallPop, PopNothing, PopTake, PopFinish, ThreadsOK
    <2>3. CASE PopWait(w)
      BY <1>0, <2>1, <2>3 DEF PopWait, ThreadsOK, not_empty, queue
    <2>4. CASE PopNotify(w)
      <3>1. NobodyDozesOff /\ pc[w] = "finish_notify"
        BY <1>0, <2>4, NotifyOneSleepers DEF PopNotify, Asleep
      <3> QED BY <1>0, <2>1, <3>1 DEF NobodyDozesOff, Asleep
    <2> QED BY <1>2, <2>2, <2>3, <2>4 DEF pop_task
  <1>3. ASSUME NEW c \in Controllers, control(c)
        PROVE  m_wait_props' = <<>> \/ \E b \in Adders : pc'[b] = "add_notify"
    <2>1. CASE Clear(c) \/ StartNotify(c) \/ \E bwait \in BOOLEAN : Stop(c, bwait)
      <3>1. NotifyAll(c)
        BY <2>1 DEF Clear, StartNotify, Stop, clear_inner
      <3> QED BY <1>0, <1>d, <3>1, NotifyAllSleepers DEF Asleep
    <2>2. CASE Start(c)
      BY <1>0, <1>b, <2>2 DEF Start, NobodyDozesOff, Asleep, ThreadsOK, queue
    <2>3. ASSUME NEW p \in Props, RemoveProp(c, p)
          PROVE  m_wait_props' = <<>> \/ \E b \in Adders : pc'[b] = "add_notify"
      <3>1. m_wait_props = <<>> => m_wait_props' = <<>>
        BY <2>3 DEF RemoveProp, Without
      <3> QED BY <1>0, <1>b, <2>3, <3>1 DEF RemoveProp, NobodyDozesOff, Asleep, ThreadsOK
    <2>4. CASE RemoveNotify(c)
      <3>1. /\ NobodyDozesOff
            /\ \A t \in Threads \ {c} : pc[t] # "wait_not_full" => pc'[t] = pc[t]
        BY <1>0, <2>4, NotifyOneSleepers DEF RemoveNotify, Asleep
      <3>2. c \notin Adders
        BY QueueAssumption
      <3> QED BY <1>0, <1>b, <2>4, <3>1, <3>2 DEF RemoveNotify, queue
    <2> QED BY <1>3, <2>1, <2>2, <2>3, <2>4 DEF control
  <1>4. ASSUME NEW t \in Adders \cup Workers, SpuriousWake(t)
        PROVE  m_wait_props' = <<>> \/ \E b \in Adders : pc'[b] = "add_notify"
    BY <1>0, <1>b, <1>4 DEF SpuriousWake, WakesUp, Reacquire, NobodyDozesOff, Asleep, ThreadsOK, queue
  <1>5. CASE UNCHANGED vars
    BY <1>5 DEF vars, queue, NoWorkLeftAsleep
  <1> QED
    BY <1>1, <1>2, <1>3, <1>4, <1>5 DEF Next

\* The workers never all sleep on m_cv_not_empty while a property waits, unless
\* the notify_one of the add_task that queued it is still to come.
THEOREM WorkersAreWoken == Spec => []NoWorkLeftAsleep
  <1>1. Init => NoWorkLeftAsleep
    BY DEF Init, NoWorkLeftAsleep
  <1> QED
    BY <1>1, NextKeepsWorkerWaker, QueueInvHolds, PTL DEF Spec

=============================================================================
