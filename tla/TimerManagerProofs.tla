-------------------------- MODULE TimerManagerProofs --------------------------
(***************************************************************************)
(* What TimerManager guarantees for any number of timers and users, any    *)
(* slice, any intervals and loop counts, and any number of restarts.       *)
(***************************************************************************)
EXTENDS TimerManager, DataLemmas

------------------------------------------------------------------------------
(* The inductive invariant.                                                *)

Stopping == {"stop_clear", "stop_ioc", "stop_reset"}

\* One owner at a time is inside stop(), and the switch shows it.
SwitchInv ==
  /\ SwitchTypeOK /\ (m_bstart <=> m_binit) /\ (m_bstop => m_binit)
  /\ upc \in [Users \cup Owners -> {"idle", "insert"} \cup Stopping]
  /\ \A u \in Users \cup Owners : upc[u] \in Stopping => m_bstop
  /\ \A u, v \in Users \cup Owners : upc[u] \in Stopping /\ upc[v] \in Stopping => u = v

PairsOf(ids, tasks) == {<<tasks[id].time_point, id>> : id \in ids}

\* The two maps hold the same timers.
MapsInv ==
  /\ item \in Seq(Task) /\ Len(item) <= MaxTimers /\ inserting \in [Users -> Task]
  /\ m_all_timer_map \in SUBSET (DOMAIN item)
  /\ m_timer_part_queue = PairsOf(m_all_timer_map, item)
  /\ m_task_pool \in Seq(DOMAIN item)
  /\ fired \in Seq(Nat) /\ Len(fired) = Len(item)

Handlers == {h \in [ok : BOOLEAN, wait : Wait] : h.ok => h.wait.time_point <= now}

\* A wait that has ended was for a time point that is past; while there are timers, one of
\* them is the current one.
HandlersInv ==
  /\ now \in Nat /\ m_wait \in Wait /\ m_ready \in Seq(Handlers)
  /\ m_cur_task \in 0 .. Len(item)
  /\ m_cur_task = 0 => m_timer_part_queue = {}

\* A timer that is still in the maps is due one interval after the other, counted from when it
\* was asked for, less than a millisecond early, and counts how often it was handed to the
\* pool.
TimesInv ==
  /\ \A u \in Users : upc[u] = "insert" =>
       /\ inserting[u].time_point + Millisecond > inserting[u].asked
       /\ inserting[u].loop_index = 0 /\ inserting[u].loop_count >= 0
  /\ \A id \in m_all_timer_map :
       /\ item[id].time_point + Millisecond > item[id].asked + fired[id] * item[id].interval
       /\ item[id].loop_count >= 0
       /\ item[id].loop_count > 0 =>
            item[id].loop_index = fired[id] /\ fired[id] < item[id].loop_count
  /\ FiresAsAsked

Quiet == m_wait = None /\ m_ready = <<>>

\* With no handler on its way the asio timer waits for the earliest timer, which is the
\* current one; and a stop() that is through leaves nothing armed behind.
ArmedInv ==
  ~stranded =>
    /\ has_started /\ m_ready = <<>> /\ m_cur_task # 0 =>
         /\ m_timer_part_queue # {}
         /\ m_wait = [id |-> m_cur_task, time_point |-> front(m_timer_part_queue)[1]]
         /\ m_cur_task = front(m_timer_part_queue)[2]
    /\ ~cleared =>
         /\ m_ready = <<>> \/ (m_wait = None /\ Len(m_ready) = 1)
         /\ has_started /\ m_cur_task = 0 => Quiet
    /\ ~m_binit => m_cur_task = 0 /\ Quiet
    /\ \A u \in Users \cup Owners :
         /\ upc[u] \in {"stop_ioc", "stop_reset"} => m_cur_task = 0
         /\ upc[u] = "stop_reset" => Quiet

TimerInv == SwitchInv /\ MapsInv /\ HandlersInv /\ TimesInv /\ ArmedInv

\* TimerInv holds initially.
LEMMA TimerInvInit == Init => TimerInv
  <1> SUFFICES ASSUME Init PROVE TimerInv
    OBVIOUS
  <1>1. SwitchInv
    BY DEF Init, SwitchInit, SwitchInv, SwitchTypeOK, switch, Stopping
  <1>2. MapsInv
    BY TimerAssumption DEF Init, NoTimer, Task, MapsInv, PairsOf
  <1>3. TimesInv
    BY DEF Init, TimesInv, FiresAsAsked
  <1>5. HandlersInv
    BY DEF Init, HandlersInv, Wait, None
  <1>4. ArmedInv
    BY DEF Init, SwitchInit, ArmedInv, Quiet, Stopping
  <1> QED
    BY <1>1, <1>2, <1>3, <1>4, <1>5 DEF TimerInv

------------------------------------------------------------------------------
(* The switch.                                                             *)

\* Every step keeps SwitchInv: the compare_exchange of stop() lets one owner through.
LEMMA StepKeepsSwitchInv ==
  ASSUME SwitchInv, [Next]_vars
  PROVE  SwitchInv'
  <1> USE DEF SwitchInv, SwitchTypeOK, Stopping, switch
  <1>1. CASE Tick \/ Expires \/ handler \/ Invoke \/ UNCHANGED vars
    BY <1>1 DEF Tick, Expires, handler, Invoke, vars
  <1>2. ASSUME NEW u \in Users,
               \/ Insert(u)
               \/ \E duration \in Durations, interval \in Intervals, loop_count \in LoopCounts :
                    InsertCheck(u, duration, interval, loop_count)
        PROVE  SwitchInv'
    BY <1>2 DEF Insert, InsertCheck
  <1>3. ASSUME NEW u \in Users, clear(u)
        PROVE  SwitchInv'
    BY <1>3 DEF clear
  <1>7. ASSUME NEW u \in Users, NEW id \in Ids, erase(u, id)
        PROVE  SwitchInv'
    BY <1>7 DEF erase, RemoveTimers
  <1>8. ASSUME NEW u \in Users, NEW time \in 0 .. MaxTime, clear_point_timer(u, time)
        PROVE  SwitchInv'
    BY <1>8 DEF clear_point_timer, RemoveTimers
  <1>4. ASSUME NEW u \in Owners, start_manager(u)
        PROVE  SwitchInv'
    BY <1>4 DEF start_manager
  <1>5. ASSUME NEW u \in Owners, StopSwitch(u)
        PROVE  SwitchInv'
    BY <1>5 DEF StopSwitch, MayStop, StopCas
  <1>6. ASSUME NEW u \in Owners, stop(u)
        PROVE  SwitchInv'
    <2>1. CASE StopClear(u)
      BY <2>1 DEF StopClear
    <2>2. CASE StopIoc(u)
      BY <2>2 DEF StopIoc
    <2>3. CASE StopReset(u)
      BY <2>3 DEF StopReset
    <2> QED
      BY <1>6, <2>1, <2>2, <2>3 DEF stop
  <1> QED
    BY <1>1, <1>2, <1>3, <1>4, <1>5, <1>6, <1>7, <1>8 DEF Next

------------------------------------------------------------------------------
(* Time points, and the order of the maps.                                 *)

\* The assumption, for the leaves that add milliseconds up.
LEMMA MillisecondIsNat ==
  Millisecond \in Nat /\ Millisecond > 0
  BY TimerAssumption

\* Whole milliseconds are never rounded down.
LEMMA RoundUpIsLater ==
  ASSUME NEW ms \in Nat
  PROVE  RoundUp(ms) \in Nat /\ RoundUp(ms) >= ms
  BY TimerAssumption DEF RoundUp

\* Division by a positive number rounds down, by less than the divisor.
LEMMA Quotient ==
  ASSUME NEW n \in Nat, NEW d \in Nat, d > 0
  PROVE  n \div d \in Nat /\ d * (n \div d) + d > n
  OBVIOUS

\* Multiplication by a natural number is monotonic.
LEMMA ProductGrows ==
  ASSUME NEW d \in Nat, NEW i \in Nat, NEW j \in Nat, j >= i
  PROVE  d * j \in Nat /\ d * j >= d * i
  OBVIOUS

\* The truncation to milliseconds makes a time point less than a millisecond earlier.
LEMMA RevisePointIsClose ==
  ASSUME NEW time \in Nat
  PROVE  RevisePoint(time) \in Nat /\ RevisePoint(time) + Millisecond > time
  <1>1. Millisecond \in Nat /\ Millisecond > 0
    BY MillisecondIsNat
  <1> DEFINE ms == InMilliseconds(time)
  <1>2. ms \in Nat /\ Millisecond * ms + Millisecond > time
    BY <1>1, Quotient DEF InMilliseconds
  <1>3. RoundUp(ms) \in Nat /\ RoundUp(ms) >= ms
    BY <1>2, RoundUpIsLater
  <1>4. Millisecond * RoundUp(ms) \in Nat /\ Millisecond * RoundUp(ms) >= Millisecond * ms
    BY <1>1, <1>2, <1>3, ProductGrows
  <1>5. CASE m_space_millsecond > 1
    <2>1. RevisePoint(time) = Millisecond * RoundUp(ms)
      BY <1>5 DEF RevisePoint
    <2> HIDE DEF ms
    <2>2. Millisecond * ms \in Nat
      BY <1>1, <1>2
    <2> QED
      BY <1>1, <1>2, <1>4, <2>1, <2>2
  <1>6. CASE ~(m_space_millsecond > 1)
    BY <1>1, <1>6 DEF RevisePoint
  <1> QED
    BY <1>5, <1>6

\* front() is the earliest pair of the queue.
LEMMA FrontIsFirst ==
  ASSUME NEW part \in SUBSET (Nat \X Nat), part # {}
  PROVE  /\ front(part) \in part
         /\ \A q \in part \ {front(part)} : Earlier(front(part), q)
  <1> DEFINE Times == {p[1] : p \in part}
  <1>1. PICK t \in Times : \A k \in Times : t <= k
    <2>1. Times \in SUBSET Nat /\ Times # {}
      OBVIOUS
    <2> HIDE DEF Times
    <2> QED
      BY <2>1, LeastNumber
  <1> DEFINE Then == {p[2] : p \in {q \in part : q[1] = t}}
  <1>2. PICK m \in Then : \A k \in Then : m <= k
    <2>1. Then \in SUBSET Nat /\ Then # {}
      BY <1>1
    <2> HIDE DEF Then
    <2> QED
      BY <2>1, LeastNumber
  <1>3. PICK p \in part : p[1] = t /\ p[2] = m
    BY <1>2
  <1>4. \A q \in part \ {p} : Earlier(p, q)
    <2> SUFFICES ASSUME NEW q \in part \ {p} PROVE Earlier(p, q)
      OBVIOUS
    <2>1. q \in Nat \X Nat /\ p \in Nat \X Nat /\ t <= q[1]
      BY <1>1
    <2>2. q[1] = t => m <= q[2]
      BY <1>2
    <2>3. q[1] = t => q[2] # m
      BY <1>3, <2>1
    <2> QED
      BY <1>3, <2>1, <2>2, <2>3 DEF Earlier
  <1> QED
    BY <1>4 DEF front

\* It is the only one.
LEMMA FrontIsUnique ==
  ASSUME NEW part \in SUBSET (Nat \X Nat), NEW p \in part, \A q \in part \ {p} : Earlier(p, q)
  PROVE  front(part) = p
  <1> DEFINE f == front(part)
  <1>1. f \in part /\ \A q \in part \ {f} : Earlier(f, q)
    BY FrontIsFirst
  <1> HIDE DEF f
  <1>2. ASSUME f # p PROVE FALSE
    <2>1. Earlier(p, f) /\ Earlier(f, p) /\ p \in Nat \X Nat /\ f \in Nat \X Nat
      BY <1>1, <1>2
    <2> QED
      BY <2>1 DEF Earlier
  <1> QED
    BY <1>2 DEF f

------------------------------------------------------------------------------
(* The maps.                                                               *)

\* The type invariant follows from the parts of TimerInv.
LEMMA InvGivesType ==
  ASSUME SwitchInv, MapsInv, HandlersInv
  PROVE  TypeOK
  <1>1. m_ready \in Seq([ok : BOOLEAN, wait : Wait])
    <2>1. Handlers \subseteq [ok : BOOLEAN, wait : Wait] /\ m_ready \in Seq(Handlers)
      BY DEF HandlersInv, Handlers
    <2> HIDE DEF Handlers
    <2> QED
      BY <2>1, SeqOfMore
  <1> QED
    BY <1>1 DEF SwitchInv, MapsInv, HandlersInv, TypeOK

\* The pairs of m_timer_part_queue that belong to a set of timers.
LEMMA PairsAreTyped ==
  ASSUME NEW tasks \in Seq(Task), NEW ids \in SUBSET (DOMAIN tasks)
  PROVE  /\ PairsOf(ids, tasks) \in SUBSET (Nat \X Nat)
         /\ \A p \in PairsOf(ids, tasks) : p[2] \in ids /\ p[1] = tasks[p[2]].time_point
         /\ \A id \in ids : <<tasks[id].time_point, id>> \in PairsOf(ids, tasks)
         /\ PairsOf(ids, tasks) = {} <=> ids = {}
  <1>1. \A id \in DOMAIN tasks : id \in Nat /\ tasks[id] \in Task
    OBVIOUS
  <1>2. \A id \in ids : id \in Nat /\ tasks[id].time_point \in Nat
    BY <1>1 DEF Task
  <1>3. \A p \in PairsOf(ids, tasks) : \E id \in ids : p = <<tasks[id].time_point, id>>
    BY DEF PairsOf
  <1>4. PairsOf(ids, tasks) \in SUBSET (Nat \X Nat)
    BY <1>2, <1>3
  <1>5. \A p \in PairsOf(ids, tasks) : p[2] \in ids /\ p[1] = tasks[p[2]].time_point
    BY <1>3
  <1>6. \A id \in ids : <<tasks[id].time_point, id>> \in PairsOf(ids, tasks)
    BY DEF PairsOf
  <1> QED
    BY <1>3, <1>4, <1>5, <1>6

\* Taking out the pairs of some ids takes out the ids.
LEMMA WithoutPairs ==
  ASSUME NEW tasks \in Seq(Task), NEW ids \in SUBSET (DOMAIN tasks), NEW gone
  PROVE  {p \in PairsOf(ids, tasks) : p[2] \notin gone} = PairsOf(ids \ gone, tasks)
  BY DEF PairsOf

\* insert adds the timer to both maps under a new id, and leaves the others alone.
LEMMA InsertKeepsMaps ==
  ASSUME MapsInv, NEW u \in Users, Insert(u)
  PROVE  /\ MapsInv'
         /\ Len(item') = Len(item) + 1
         /\ \A id \in 1 .. Len(item) : item'[id] = item[id] /\ fired'[id] = fired[id]
         /\ item'[Len(item) + 1] = inserting[u] /\ fired'[Len(item) + 1] = 0
  <1> DEFINE n == Len(item) + 1
  <1>1. /\ n \in Ids /\ item' = Append(item, inserting[u]) /\ fired' = Append(fired, 0)
        /\ m_all_timer_map' = m_all_timer_map \cup {n}
        /\ m_timer_part_queue' = m_timer_part_queue \cup {<<inserting[u].time_point, n>>}
        /\ inserting' = [inserting EXCEPT ![u] = NoTimer] /\ m_task_pool' = m_task_pool
    BY DEF Insert
  <1>2. inserting[u] \in Task /\ NoTimer \in Task
    BY DEF MapsInv, NoTimer, Task
  <1>3. /\ item' \in Seq(Task) /\ Len(item') = Len(item) + 1 /\ Len(item') <= MaxTimers
        /\ \A id \in 1 .. Len(item) : item'[id] = item[id]
        /\ item'[n] = inserting[u]
    BY <1>1, <1>2 DEF MapsInv, Ids
  <1>4. /\ fired' \in Seq(Nat) /\ Len(fired') = Len(item')
        /\ \A id \in 1 .. Len(item) : fired'[id] = fired[id]
        /\ fired'[n] = 0
    BY <1>1, <1>3 DEF MapsInv
  <1>5. m_timer_part_queue' = PairsOf(m_all_timer_map', item')
    <2>1. \A id \in m_all_timer_map : item'[id] = item[id]
      BY <1>3 DEF MapsInv
    <2>2. m_timer_part_queue = {<<item[id].time_point, id>> : id \in m_all_timer_map}
      BY DEF MapsInv, PairsOf
    <2> QED
      BY <1>1, <1>3, <2>1, <2>2 DEF PairsOf
  <1>6. m_all_timer_map' \in SUBSET (DOMAIN item')
    BY <1>1, <1>3 DEF MapsInv
  <1>7. m_task_pool' \in Seq(DOMAIN item')
    BY <1>1, <1>3 DEF MapsInv
  <1>8. inserting' \in [Users -> Task]
    BY <1>1, <1>2 DEF MapsInv
  <1> QED
    BY <1>3, <1>4, <1>5, <1>6, <1>7, <1>8 DEF MapsInv

\* Taking timers out of both maps, cancelled or not, keeps them equal.
LEMMA ForgetKeepsMaps ==
  ASSUME MapsInv, NEW ids, Forget(ids),
         item' = item \/ item' = cancel(ids),
         m_task_pool' = m_task_pool \/ m_task_pool' = <<>>,
         inserting' = inserting, fired' = fired
  PROVE  /\ MapsInv' /\ Len(item') = Len(item)
         /\ \A id \in m_all_timer_map' : item'[id] = item[id]
         /\ \A id \in DOMAIN item : \/ item'[id] = item[id]
                                    \/ item'[id] = [item[id] EXCEPT !.loop_count = -1]
  <1>1. /\ item' \in Seq(Task) /\ Len(item') = Len(item)
        /\ \A id \in (DOMAIN item) \ ids : item'[id] = item[id]
        /\ \A id \in DOMAIN item : \/ item'[id] = item[id]
                                   \/ item'[id] = [item[id] EXCEPT !.loop_count = -1]
    <2>1. item \in Seq(Task)
      BY DEF MapsInv
    <2>2. CASE item' = item
      BY <2>1, <2>2
    <2>3. CASE item' = cancel(ids)
      <3>1. ASSUME NEW id \in DOMAIN item
            PROVE  [item[id] EXCEPT !.loop_count = -1] \in Task
        <4>1. item[id] \in Task
          BY <2>1
        <4> QED
          BY <4>1 DEF Task
      <3>2. item' \in [1 .. Len(item) -> Task]
        BY <2>1, <2>3, <3>1 DEF cancel
      <3>3. item' \in Seq(Task) /\ Len(item') = Len(item)
        BY <2>1, <3>2
      <3> QED
        BY <2>1, <2>3, <3>3 DEF cancel
    <2> QED
      BY <2>2, <2>3
  <1>2. m_all_timer_map' = m_all_timer_map \ ids /\ m_all_timer_map' \in SUBSET (DOMAIN item')
    BY <1>1 DEF Forget, MapsInv
  <1>3. \A id \in m_all_timer_map' : item'[id] = item[id]
    BY <1>1, <1>2 DEF MapsInv
  <1>4. m_timer_part_queue' = PairsOf(m_all_timer_map', item')
    <2>1. m_timer_part_queue' = PairsOf(m_all_timer_map \ ids, item)
      BY WithoutPairs DEF MapsInv, Forget
    <2> QED
      BY <1>2, <1>3, <2>1 DEF PairsOf
  <1>5. m_task_pool' \in Seq(DOMAIN item')
    <2>1. DOMAIN item' = DOMAIN item /\ m_task_pool \in Seq(DOMAIN item)
      BY <1>1 DEF MapsInv
    <2>3. <<>> \in Seq(DOMAIN item)
      OBVIOUS
    <2>2. m_task_pool' \in Seq(DOMAIN item)
      BY <2>1, <2>3
    <2> QED
      BY <2>1, <2>2
  <1> QED
    BY <1>1, <1>2, <1>3, <1>4, <1>5 DEF MapsInv

\* What loop_point_timer makes of the timers that are due, which must be in the maps: each
\* is counted, and stays in both maps at its next time point, or leaves both.
LEMMA LoopPointTimerEffect ==
  ASSUME MapsInv, NEW due \in SUBSET m_all_timer_map, LoopPointTimer(due),
         inserting' = inserting
  PROVE  /\ MapsInv' /\ Len(item') = Len(item)
         /\ m_all_timer_map' \subseteq m_all_timer_map
         /\ \A id \in DOMAIN item \ due :
              item'[id] = item[id] /\ fired'[id] = fired[id]
         /\ \A id \in m_all_timer_map \ due : id \in m_all_timer_map'
         /\ \A id \in due :
              /\ fired'[id] = fired[id] + 1
              /\ item'[id].asked = item[id].asked /\ item'[id].interval = item[id].interval
              /\ item'[id].loop_count = item[id].loop_count
              /\ item[id].loop_count > 0 /\ item[id].loop_index < item[id].loop_count =>
                   item'[id].loop_index = item[id].loop_index + 1
              /\ id \in m_all_timer_map' =>
                   /\ item'[id].time_point = item[id].time_point + item[id].interval
                   /\ need_next(item'[id])
  <1> DEFINE counted == [id \in due |-> loop_once_count(item[id])]
             staying == {id \in due : need_next(counted[id])}
  <1>1. /\ m_task_pool' = m_task_pool \o InOrder(due)
        /\ item' = [id \in DOMAIN item |->
                      CASE id \in staying -> loop_once_time(counted[id])
                        [] id \in due \ staying -> counted[id]
                        [] OTHER -> item[id]]
        /\ m_all_timer_map' = m_all_timer_map \ (due \ staying)
        /\ m_timer_part_queue' = {pair \in m_timer_part_queue : pair[2] \notin due}
                                   \cup {<<item'[id].time_point, id>> : id \in staying}
        /\ fired' = [id \in DOMAIN fired |-> IF id \in due THEN fired[id] + 1 ELSE fired[id]]
    BY DEF LoopPointTimer
  <1>2. /\ item \in Seq(Task) /\ Len(item) \in Nat /\ DOMAIN item = 1 .. Len(item)
        /\ m_all_timer_map \in SUBSET (DOMAIN item) /\ due \in SUBSET (DOMAIN item)
        /\ \A id \in DOMAIN item : item[id] \in Task
        /\ fired \in Seq(Nat) /\ DOMAIN fired = 1 .. Len(item)
        /\ \A id \in DOMAIN item : fired[id] \in Nat
    BY DEF MapsInv
  <1>3. ASSUME NEW id \in due
        PROVE  /\ counted[id] \in Task
               /\ counted[id].asked = item[id].asked /\ counted[id].interval = item[id].interval
               /\ counted[id].loop_count = item[id].loop_count
               /\ counted[id].time_point = item[id].time_point
               /\ item[id].loop_count > 0 /\ item[id].loop_index < item[id].loop_count =>
                    counted[id].loop_index = item[id].loop_index + 1
    <2>1. item[id] \in Task /\ counted[id] = loop_once_count(item[id])
      BY <1>2
    <2> HIDE DEF counted
    <2> QED
      BY <2>1 DEF loop_once_count, need_next, Task
  <1> HIDE DEF counted
  <1>4. ASSUME NEW id \in staying
        PROVE  /\ item'[id] = [counted[id] EXCEPT !.time_point = @ + counted[id].interval]
               /\ item'[id] \in Task
               /\ item'[id].time_point = item[id].time_point + item[id].interval
               /\ need_next(item'[id])
    <2>1. id \in due /\ id \in DOMAIN item
      BY <1>2
    <2>2. item'[id] = [counted[id] EXCEPT !.time_point = @ + counted[id].interval]
      BY <1>1, <2>1 DEF loop_once_time
    <2>3. /\ counted[id] \in Task /\ counted[id].interval = item[id].interval
          /\ counted[id].time_point = item[id].time_point
      BY <1>3, <2>1
    <2>4. item'[id] \in Task
      BY <2>2, <2>3 DEF Task
    <2>5. item'[id].time_point = item[id].time_point + item[id].interval
      BY <2>2, <2>3 DEF Task
    <2>6. need_next(item'[id])
      BY <2>2, <2>3 DEF Task, need_next
    <2> QED
      BY <2>2, <2>4, <2>5, <2>6
  <1>5. ASSUME NEW id \in due \ staying
        PROVE  item'[id] = counted[id] /\ item'[id] \in Task
    <2>1. id \in DOMAIN item /\ id \notin staying
      BY <1>2
    <2> HIDE DEF staying
    <2>2. item'[id] = counted[id]
      BY <1>1, <2>1
    <2> QED
      BY <1>3, <2>2
  <1>6. ASSUME NEW id \in DOMAIN item \ due
        PROVE  item'[id] = item[id]
    <2>1. id \notin staying /\ id \notin due \ staying
      OBVIOUS
    <2> HIDE DEF staying
    <2> QED
      BY <1>1, <2>1
  <1>7. staying \subseteq due
    OBVIOUS
  <1>8. ASSUME NEW id \in due
        PROVE  /\ item'[id].asked = item[id].asked /\ item'[id].interval = item[id].interval
               /\ item'[id].loop_count = item[id].loop_count
               /\ item[id].loop_count > 0 /\ item[id].loop_index < item[id].loop_count =>
                    item'[id].loop_index = item[id].loop_index + 1
    <2>1. CASE id \in staying
      BY <1>3, <1>4, <2>1 DEF Task
    <2>2. CASE id \notin staying
      BY <1>3, <1>5, <2>2
    <2> QED
      BY <2>1, <2>2
  <1> HIDE DEF staying
  <1>9. item' \in Seq(Task) /\ Len(item') = Len(item) /\ DOMAIN item' = DOMAIN item
    <2>1. \A id \in 1 .. Len(item) : item'[id] \in Task
      BY <1>2, <1>4, <1>5, <1>6
    <2>2. DOMAIN item' = 1 .. Len(item) /\ item' = [id \in 1 .. Len(item) |-> item'[id]]
      BY <1>1, <1>2
    <2>3. item' \in [1 .. Len(item) -> Task]
      BY <2>1, <2>2
    <2> QED
      BY <1>2, <2>3
  <1>10. fired' \in Seq(Nat) /\ Len(fired') = Len(item)
    <2>1. fired' \in [1 .. Len(item) -> Nat]
      BY <1>1, <1>2
    <2> QED
      BY <1>2, <2>1
  <1>11. m_task_pool' \in Seq(DOMAIN item')
    <2>1. InOrder(due) \in Seq(due)
      BY <1>2, SelectedInOrder
    <2>2. InOrder(due) \in Seq(DOMAIN item)
      BY <1>2, <2>1, SeqOfMore
    <2>3. m_task_pool \in Seq(DOMAIN item)
      BY DEF MapsInv
    <2> QED
      BY <1>1, <1>9, <2>2, <2>3, ConcatElements
  <1>12. m_timer_part_queue' = PairsOf(m_all_timer_map', item')
    <2>1. {pair \in m_timer_part_queue : pair[2] \notin due} = PairsOf(m_all_timer_map \ due, item)
      BY <1>2, WithoutPairs DEF MapsInv
    <2>2. PairsOf(m_all_timer_map \ due, item) = PairsOf(m_all_timer_map \ due, item')
      BY <1>2, <1>6 DEF PairsOf
    <2>3. m_all_timer_map' = (m_all_timer_map \ due) \cup staying
      BY <1>1, <1>7
    <2>4. m_timer_part_queue' = PairsOf(m_all_timer_map \ due, item') \cup PairsOf(staying, item')
      BY <1>1, <2>1, <2>2 DEF PairsOf
    <2> QED
      BY <2>3, <2>4 DEF PairsOf
  <1>13. m_all_timer_map' \in SUBSET (DOMAIN item') /\ m_all_timer_map' \subseteq m_all_timer_map
    BY <1>1, <1>2, <1>9
  <1>14. MapsInv'
    BY <1>9, <1>10, <1>11, <1>12, <1>13 DEF MapsInv
  <1>15. \A id \in due : fired'[id] = fired[id] + 1
    BY <1>1, <1>2
  <1>16. \A id \in DOMAIN item \ due : fired'[id] = fired[id]
    BY <1>1, <1>2
  <1>17. \A id \in m_all_timer_map \ due : id \in m_all_timer_map'
    BY <1>1
  <1>18. \A id \in due : id \in m_all_timer_map' => id \in staying
    BY <1>1
  <1> QED
    BY <1>4, <1>6, <1>8, <1>9, <1>13, <1>14, <1>15, <1>16, <1>17, <1>18

------------------------------------------------------------------------------
(* The handlers.                                                           *)

\* The handler of a wait that is cancelled.
LEMMA AbortedIsHandler ==
  ASSUME m_wait \in Wait
  PROVE  /\ Aborted \in Seq(Handlers)
         /\ Len(Aborted) = IF m_wait = None THEN 0 ELSE 1
  <1>1. [ok |-> FALSE, wait |-> m_wait] \in Handlers
    BY DEF Handlers
  <1> QED
    BY <1>1 DEF Aborted

\* Cancelling the asio timer turns the wait it has into a handler.
LEMMA CancelKeepsHandlers ==
  ASSUME m_wait \in Wait, m_ready \in Seq(Handlers), CancelTimer
  PROVE  /\ m_wait' \in Wait /\ m_ready' \in Seq(Handlers)
         /\ m_wait' = None
         /\ Len(m_ready') = Len(m_ready) + (IF m_wait = None THEN 0 ELSE 1)
  <1>1. None \in Wait
    BY DEF None, Wait
  <1>2. /\ Aborted \in Seq(Handlers)
        /\ Len(Aborted) = IF m_wait = None THEN 0 ELSE 1
    BY AbortedIsHandler
  <1>3. m_wait' = None /\ m_ready' = m_ready \o Aborted
    BY DEF CancelTimer
  <1>4. m_ready' \in Seq(Handlers) /\ Len(m_ready') = Len(m_ready) + Len(Aborted)
    BY <1>2, <1>3, ConcatElements
  <1> QED
    BY <1>1, <1>2, <1>3, <1>4

\* Arming the asio timer again cancels the wait it has.
LEMMA ArmKeepsHandlers ==
  ASSUME NEW id \in Nat, NEW time \in Nat, NEW ready \in Seq(Handlers), m_wait \in Wait,
         Arm(id, time, ready)
  PROVE  /\ m_wait' \in Wait /\ m_ready' \in Seq(Handlers)
         /\ m_wait' = IF has_started THEN [id |-> id, time_point |-> time] ELSE m_wait
         /\ Len(m_ready') = Len(ready) + (IF has_started /\ m_wait # None THEN 1 ELSE 0)
  <1>1. [id |-> id, time_point |-> time] \in Wait
    BY DEF Wait
  <1>2. /\ Aborted \in Seq(Handlers)
        /\ Len(Aborted) = IF m_wait = None THEN 0 ELSE 1
    BY AbortedIsHandler
  <1>3. CASE has_started
    <2>1. m_wait' = [id |-> id, time_point |-> time] /\ m_ready' = ready \o Aborted
      BY <1>3 DEF Arm
    <2>2. m_ready' \in Seq(Handlers) /\ Len(m_ready') = Len(ready) + Len(Aborted)
      BY <1>2, <2>1, ConcatElements
    <2> QED
      BY <1>1, <1>2, <1>3, <2>1, <2>2
  <1>4. CASE ~has_started
    BY <1>4 DEF Arm
  <1> QED
    BY <1>3, <1>4

\* After the rearm the current timer is the earliest one and, in a started manager, the asio timer
\* waits for it.
LEMMA RearmEffect ==
  ASSUME NEW tasks \in Seq(Task), NEW ids \in SUBSET (DOMAIN tasks),
         NEW ready \in Seq(Handlers), m_wait \in Wait, Rearm(PairsOf(ids, tasks), ready)
  PROVE  /\ m_wait' \in Wait /\ m_ready' \in Seq(Handlers)
         /\ m_cur_task' \in {0} \cup DOMAIN tasks
         /\ m_cur_task' = 0 <=> ids = {}
         /\ ids = {} => m_wait' = m_wait /\ m_ready' = ready
         /\ ids # {} =>
              /\ m_cur_task' = front(PairsOf(ids, tasks))[2]
              /\ m_wait' = IF has_started
                           THEN [id |-> m_cur_task', time_point |-> front(PairsOf(ids, tasks))[1]]
                           ELSE m_wait
              /\ Len(m_ready') = Len(ready) + (IF has_started /\ m_wait # None THEN 1 ELSE 0)
  <1> DEFINE part == PairsOf(ids, tasks)
  <1>1. /\ part \in SUBSET (Nat \X Nat) /\ (part = {} <=> ids = {})
        /\ \A p \in part : p[2] \in ids
    BY PairsAreTyped
  <1> HIDE DEF part
  <1>2. CASE ids = {}
    BY <1>1, <1>2 DEF Rearm, part
  <1>3. CASE ids # {}
    <2>1. front(part) \in part
      BY <1>1, <1>3, FrontIsFirst
    <2>2. front(part)[1] \in Nat /\ front(part)[2] \in Nat /\ front(part)[2] \in DOMAIN tasks
      BY <1>1, <2>1
    <2>3. m_cur_task' = front(part)[2] /\ Arm(front(part)[2], front(part)[1], ready)
      BY <1>1, <1>3 DEF Rearm, part
    <2>4. front(part)[2] # 0
      BY <2>2
    <2>5. /\ m_wait' \in Wait /\ m_ready' \in Seq(Handlers)
          /\ m_wait' = IF has_started
                       THEN [id |-> front(part)[2], time_point |-> front(part)[1]] ELSE m_wait
          /\ Len(m_ready') = Len(ready) + (IF has_started /\ m_wait # None THEN 1 ELSE 0)
      BY <2>2, <2>3, ArmKeepsHandlers
    <2> QED
      BY <1>3, <2>2, <2>3, <2>4, <2>5 DEF part
  <1> QED
    BY <1>2, <1>3

\* What the handler takes from the maps is due.
LEMMA HandlerEffect ==
  ASSUME MapsInv, HandlersInv, handler
  PROVE  /\ m_ready # <<>> /\ Tail(m_ready) \in Seq(Handlers) /\ Len(Tail(m_ready)) = Len(m_ready) - 1
         /\ Rearm(m_timer_part_queue', Tail(m_ready))
         /\ \E due \in SUBSET m_all_timer_map :
              /\ LoopPointTimer(due)
              /\ \A id \in due : item[id].time_point <= now
         /\ MapsInv' /\ Len(item') = Len(item)
  <1> DEFINE h == Head(m_ready)
             found == {p \in m_timer_part_queue : h.ok /\ p[1] = h.wait.time_point}
             due == {pair[2] : pair \in found}
  <1>1. /\ m_ready # <<>> /\ Rearm(m_timer_part_queue', Tail(m_ready))
        /\ LoopPointTimer(due) /\ inserting' = inserting
    BY DEF handler
  <1>2. m_ready \in Seq(Handlers)
    BY DEF HandlersInv
  <1>3. h \in Handlers /\ Tail(m_ready) \in Seq(Handlers) /\ Len(Tail(m_ready)) = Len(m_ready) - 1
    BY <1>1, <1>2
  <1>4. \A p \in m_timer_part_queue : p[2] \in m_all_timer_map /\ p[1] = item[p[2]].time_point
    BY PairsAreTyped DEF MapsInv
  <1> HIDE DEF h
  <1>5. due \in SUBSET m_all_timer_map /\ \A id \in due : h.ok /\ item[id].time_point = h.wait.time_point
    BY <1>4
  <1>6. \A id \in due : item[id].time_point <= now
    BY <1>3, <1>5 DEF Handlers
  <1> HIDE DEF due
  <1>7. MapsInv' /\ Len(item') = Len(item)
    BY <1>1, <1>5, LoopPointTimerEffect
  <1> QED
    BY <1>1, <1>3, <1>5, <1>6, <1>7

\* clear() empties both maps.
LEMMA ClearKeepsMaps ==
  ASSUME MapsInv, ClearTimers, fired' = fired
  PROVE  /\ MapsInv' /\ item' = item
         /\ m_timer_part_queue' = {} /\ m_all_timer_map' = {}
  <1>1. Forget(m_all_timer_map) /\ item' = item /\ m_task_pool' = <<>> /\ inserting' = inserting
    BY DEF ClearTimers
  <1>2. MapsInv'
    BY <1>1, ForgetKeepsMaps
  <1>3. m_all_timer_map' = {}
    BY <1>1 DEF Forget
  <1>4. m_timer_part_queue' = {}
    BY <1>2, <1>3 DEF MapsInv, PairsOf
  <1> QED
    BY <1>1, <1>2, <1>3, <1>4

\* Removing timers takes them out of both maps, and cancels the wait when the current one is
\* among them.
LEMMA RemoveEffect ==
  ASSUME MapsInv, HandlersInv, NEW ids, RemoveTimers(ids)
  PROVE  /\ MapsInv' /\ HandlersInv' /\ Len(item') = Len(item)
         /\ \A id \in m_all_timer_map' : item'[id] = item[id]
         /\ \A id \in DOMAIN item : \/ item'[id] = item[id]
                                    \/ item'[id] = [item[id] EXCEPT !.loop_count = -1]
         /\ m_timer_part_queue' = {pair \in m_timer_part_queue : pair[2] \notin ids}
         /\ IF m_cur_task \in ids
            THEN /\ m_wait' = None
                 /\ Len(m_ready') = Len(m_ready) + (IF m_wait = None THEN 0 ELSE 1)
            ELSE UNCHANGED <<m_wait, m_ready>>
  <1>1. /\ item' = cancel(ids) /\ Forget(ids)
        /\ IF m_cur_task \in ids THEN CancelTimer ELSE UNCHANGED <<m_wait, m_ready>>
        /\ UNCHANGED <<now, m_cur_task, inserting, m_task_pool, fired>>
    BY DEF RemoveTimers, history
  <1>2. /\ MapsInv' /\ Len(item') = Len(item)
        /\ \A id \in m_all_timer_map' : item'[id] = item[id]
        /\ \A id \in DOMAIN item : \/ item'[id] = item[id]
                                   \/ item'[id] = [item[id] EXCEPT !.loop_count = -1]
    BY <1>1, ForgetKeepsMaps
  <1>3. m_timer_part_queue' = {pair \in m_timer_part_queue : pair[2] \notin ids}
    BY <1>1 DEF Forget
  <1>4. /\ m_wait' \in Wait /\ m_ready' \in Seq(Handlers)
        /\ IF m_cur_task \in ids
           THEN /\ m_wait' = None
                /\ Len(m_ready') = Len(m_ready) + (IF m_wait = None THEN 0 ELSE 1)
           ELSE UNCHANGED <<m_wait, m_ready>>
    <2>1. m_wait \in Wait /\ m_ready \in Seq(Handlers)
      BY DEF HandlersInv
    <2>2. CASE m_cur_task \in ids
      BY <1>1, <2>1, <2>2, CancelKeepsHandlers
    <2>3. CASE m_cur_task \notin ids
      BY <1>1, <2>1, <2>3
    <2> QED
      BY <2>2, <2>3
  <1>5. Handlers' = Handlers
    BY <1>1 DEF Handlers
  <1>6. HandlersInv'
    <2>1. m_cur_task' \in 0 .. Len(item') /\ now' \in Nat
      BY <1>1, <1>2 DEF HandlersInv
    <2>2. m_cur_task' = 0 => m_timer_part_queue' = {}
      BY <1>1, <1>3 DEF HandlersInv
    <2>3. m_ready' \in Seq(Handlers')
      BY <1>4, <1>5
    <2> QED
      BY <1>4, <2>1, <2>2, <2>3 DEF HandlersInv
  <1> QED
    BY <1>2, <1>3, <1>4, <1>6

\* Every step keeps MapsInv.
LEMMA StepKeepsMapsInv ==
  ASSUME MapsInv, HandlersInv, [Next]_vars
  PROVE  MapsInv'
  <1>1. CASE Tick \/ Expires \/ UNCHANGED vars
    BY <1>1 DEF Tick, Expires, vars, MapsInv, timers, history
  <1>2. CASE handler
    BY <1>2, HandlerEffect
  <1>3. CASE Invoke
    <2>1. m_task_pool' \in Seq(DOMAIN item)
      BY <1>3 DEF Invoke, MapsInv
    <2> QED
      BY <1>3, <2>1 DEF Invoke, MapsInv, timers, history
  <1>4. ASSUME NEW u \in Users, Insert(u)
        PROVE  MapsInv'
    BY <1>4, InsertKeepsMaps
  <1>5. ASSUME NEW u \in Users, clear(u)
        PROVE  MapsInv'
    BY <1>5, ClearKeepsMaps DEF clear
  <1>6. ASSUME NEW u \in Users, NEW id \in Ids, erase(u, id)
        PROVE  MapsInv'
    BY <1>6, RemoveEffect DEF erase
  <1>7. ASSUME NEW u \in Users, NEW time \in 0 .. MaxTime, clear_point_timer(u, time)
        PROVE  MapsInv'
    BY <1>7, RemoveEffect DEF clear_point_timer
  <1>8. ASSUME NEW u \in Users, NEW duration \in Durations, NEW interval \in Intervals,
               NEW loop_count \in LoopCounts, InsertCheck(u, duration, interval, loop_count)
        PROVE  MapsInv'
    <2> DEFINE timer == [time_point |-> RevisePoint(now + duration), asked |-> now + duration,
                         interval |-> Millisecond * RoundUp(interval), loop_count |-> loop_count,
                         loop_index |-> 0]
    <2>1. /\ now + duration \in Nat /\ interval \in Nat /\ loop_count \in Nat
      BY TimerAssumption DEF HandlersInv
    <2>2. RevisePoint(now + duration) \in Nat /\ Millisecond * RoundUp(interval) \in Nat
      BY <2>1, RoundUpIsLater, RevisePointIsClose, TimerAssumption
    <2>3. timer \in Task
      BY <2>1, <2>2 DEF Task
    <2> HIDE DEF timer
    <2>4. inserting' = [inserting EXCEPT ![u] = timer]
      BY <1>8 DEF InsertCheck, timer
    <2>5. inserting' \in [Users -> Task]
      BY <2>3, <2>4 DEF MapsInv
    <2> QED
      BY <1>8, <2>5 DEF InsertCheck, MapsInv, timers, history
  <1>9. ASSUME NEW u \in Owners, start_manager(u) \/ StopSwitch(u)
        PROVE  MapsInv'
    BY <1>9 DEF start_manager, StopSwitch, MapsInv, timers, history
  <1>10. ASSUME NEW u \in Owners, stop(u)
         PROVE  MapsInv'
    <2>1. CASE StopClear(u)
      BY <2>1, ClearKeepsMaps DEF StopClear, history
    <2>2. CASE StopIoc(u)
      BY <2>2 DEF StopIoc, MapsInv, timers, history
    <2>3. CASE StopReset(u)
      BY <2>3 DEF StopReset, MapsInv, timers, history
    <2> QED
      BY <1>10, <2>1, <2>2, <2>3 DEF stop
  <1> QED
    BY <1>1, <1>2, <1>3, <1>4, <1>5, <1>6, <1>7, <1>8, <1>9, <1>10 DEF Next

\* Arming or cancelling the asio timer, for the timer that u inserts.
LEMMA InsertArms ==
  ASSUME MapsInv, HandlersInv, NEW u \in Users, Insert(u)
  PROVE  /\ HandlersInv'
         /\ m_timer_part_queue' \in SUBSET (Nat \X Nat)
         /\ m_cur_task = 0 =>
              /\ m_cur_task' = Len(item) + 1
              /\ m_wait' = IF has_started
                           THEN [id |-> m_cur_task', time_point |-> inserting[u].time_point]
                           ELSE m_wait
              /\ Len(m_ready') = Len(m_ready) + (IF has_started /\ m_wait # None THEN 1 ELSE 0)
         /\ m_cur_task # 0 =>
              /\ m_cur_task' = m_cur_task
              /\ IF m_cur_task # front(m_timer_part_queue')[2]
                 THEN /\ m_wait' = None
                      /\ Len(m_ready') = Len(m_ready) + (IF m_wait = None THEN 0 ELSE 1)
                 ELSE UNCHANGED <<m_wait, m_ready>>
  <1>1. MapsInv' /\ Len(item') = Len(item) + 1
    BY InsertKeepsMaps
  <1>2. /\ m_wait \in Wait /\ m_ready \in Seq(Handlers) /\ now \in Nat
        /\ m_cur_task \in 0 .. Len(item)
    BY DEF HandlersInv
  <1>3. Len(item) \in Nat /\ inserting[u].time_point \in Nat
    BY DEF MapsInv, Task
  <1>4. /\ ArmInserted(Len(item) + 1, inserting[u].time_point, m_timer_part_queue')
        /\ now' = now
    BY DEF Insert
  <1>5. m_timer_part_queue' \in SUBSET (Nat \X Nat)
    BY <1>1, PairsAreTyped DEF MapsInv
  <1>6. Handlers' = Handlers
    BY <1>4 DEF Handlers
  <1>7. CASE m_cur_task = 0
    <2>1. m_cur_task' = Len(item) + 1 /\ Arm(Len(item) + 1, inserting[u].time_point, m_ready)
      BY <1>4, <1>7 DEF ArmInserted
    <2>2. /\ m_wait' \in Wait /\ m_ready' \in Seq(Handlers)
          /\ m_wait' = IF has_started
                       THEN [id |-> Len(item) + 1, time_point |-> inserting[u].time_point]
                       ELSE m_wait
          /\ Len(m_ready') = Len(m_ready) + (IF has_started /\ m_wait # None THEN 1 ELSE 0)
      <3> DEFINE id == Len(item) + 1
                 time == inserting[u].time_point
      <3>1. id \in Nat /\ time \in Nat
        BY <1>3
      <3>2. Arm(id, time, m_ready) /\ m_wait \in Wait /\ m_ready \in Seq(Handlers)
        BY <1>2, <2>1
      <3> HIDE DEF id, time
      <3>3. /\ m_wait' \in Wait /\ m_ready' \in Seq(Handlers)
            /\ m_wait' = IF has_started THEN [id |-> id, time_point |-> time] ELSE m_wait
            /\ Len(m_ready') = Len(m_ready) + (IF has_started /\ m_wait # None THEN 1 ELSE 0)
        BY <3>1, <3>2, ArmKeepsHandlers
      <3> QED
        BY <3>3, Zenon DEF id, time
    <2>3. m_cur_task' \in 0 .. Len(item') /\ m_cur_task' # 0
      BY <1>1, <1>3, <2>1
    <2>4. HandlersInv'
      BY <1>2, <1>4, <1>6, <2>2, <2>3 DEF HandlersInv
    <2> QED
      BY <1>5, <1>7, <2>1, <2>2, <2>4
  <1>8. CASE m_cur_task # 0
    <2>1. /\ m_cur_task' = m_cur_task
          /\ IF m_cur_task # front(m_timer_part_queue')[2]
             THEN CancelTimer ELSE UNCHANGED <<m_wait, m_ready>>
      BY <1>4, <1>8 DEF ArmInserted
    <2>2. /\ m_wait' \in Wait /\ m_ready' \in Seq(Handlers)
          /\ IF m_cur_task # front(m_timer_part_queue')[2]
             THEN /\ m_wait' = None
                  /\ Len(m_ready') = Len(m_ready) + (IF m_wait = None THEN 0 ELSE 1)
             ELSE UNCHANGED <<m_wait, m_ready>>
      <3>1. CASE m_cur_task # front(m_timer_part_queue')[2]
        BY <1>2, <2>1, <3>1, CancelKeepsHandlers
      <3>2. CASE m_cur_task = front(m_timer_part_queue')[2]
        BY <1>2, <2>1, <3>2
      <3> QED
        BY <3>1, <3>2
    <2>3. m_cur_task' \in 0 .. Len(item') /\ m_cur_task' # 0
      BY <1>1, <1>2, <1>3, <1>8, <2>1
    <2>4. HandlersInv'
      BY <1>2, <1>4, <1>6, <2>2, <2>3 DEF HandlersInv
    <2> QED
      BY <1>5, <1>8, <2>1, <2>2, <2>4
  <1> QED
    BY <1>7, <1>8

\* Every step keeps HandlersInv.
LEMMA StepKeepsHandlersInv ==
  ASSUME MapsInv, HandlersInv, [Next]_vars
  PROVE  HandlersInv'
  <1>0. /\ now \in Nat /\ m_wait \in Wait /\ m_ready \in Seq(Handlers)
        /\ m_cur_task \in 0 .. Len(item) /\ Len(item) \in Nat
    BY DEF HandlersInv, MapsInv
  <1>1. CASE UNCHANGED vars
    BY <1>1 DEF vars, timers, armed, HandlersInv, Handlers
  <1>2. CASE Tick
    <2>1. now' \in Nat /\ Handlers \subseteq Handlers'
      <3>1. now' = now + 1
        BY <1>2 DEF Tick
      <3> QED
        BY <1>0, <3>1 DEF Handlers, Wait
    <2>2. m_ready \in Seq(Handlers')
      BY <1>0, <2>1, SeqOfMore
    <2> QED
      BY <1>2, <2>1, <2>2 DEF Tick, HandlersInv, timers, armed
  <1>3. CASE Expires
    <2>1. [ok |-> TRUE, wait |-> m_wait] \in Handlers
      BY <1>0, <1>3 DEF Expires, Handlers
    <2>2. m_ready' \in Seq(Handlers)
      BY <1>0, <1>3, <2>1 DEF Expires
    <2>3. m_wait' \in Wait
      BY <1>3 DEF Expires, None, Wait
    <2> QED
      BY <1>3, <2>2, <2>3 DEF Expires, HandlersInv, Handlers, timers
  <1>4. CASE handler
    <2>1. /\ Tail(m_ready) \in Seq(Handlers) /\ Rearm(m_timer_part_queue', Tail(m_ready))
          /\ MapsInv' /\ Len(item') = Len(item)
      BY <1>4, HandlerEffect
    <2>2. /\ item' \in Seq(Task) /\ m_all_timer_map' \in SUBSET (DOMAIN item')
          /\ m_timer_part_queue' = PairsOf(m_all_timer_map', item')
      BY <2>1 DEF MapsInv
    <2>3. /\ m_wait' \in Wait /\ m_ready' \in Seq(Handlers)
          /\ m_cur_task' \in {0} \cup DOMAIN item'
          /\ m_cur_task' = 0 <=> m_all_timer_map' = {}
      BY <1>0, <2>1, <2>2, RearmEffect
    <2>4. m_cur_task' \in 0 .. Len(item')
      BY <1>0, <2>1, <2>2, <2>3
    <2>5. m_cur_task' = 0 => m_timer_part_queue' = {}
      BY <2>2, <2>3 DEF PairsOf
    <2>6. now' = now /\ Handlers' = Handlers
      BY <1>4 DEF handler, Handlers
    <2> QED
      BY <1>0, <2>3, <2>4, <2>5, <2>6 DEF HandlersInv
  <1>5. CASE Invoke
    BY <1>5 DEF Invoke, HandlersInv, Handlers, timers, armed
  <1>6. ASSUME NEW u \in Users, Insert(u)
        PROVE  HandlersInv'
    BY <1>6, InsertArms
  <1>7. ASSUME ClearTimers, fired' = fired
        PROVE  HandlersInv'
    <2>1. item' = item /\ m_timer_part_queue' = {}
      BY <1>7, ClearKeepsMaps
    <2>2. now' = now /\ CancelTimer /\ m_cur_task' = 0
      BY <1>7 DEF ClearTimers
    <2>3. m_wait' \in Wait /\ m_ready' \in Seq(Handlers)
      BY <1>0, <2>2, CancelKeepsHandlers
    <2> QED
      BY <1>0, <2>1, <2>2, <2>3 DEF HandlersInv, Handlers
  <1>8. ASSUME NEW u \in Users, clear(u)
        PROVE  HandlersInv'
    BY <1>7, <1>8 DEF clear
  <1>9. ASSUME NEW u \in Users, NEW id \in Ids, erase(u, id)
        PROVE  HandlersInv'
    BY <1>9, RemoveEffect DEF erase
  <1>10. ASSUME NEW u \in Users, NEW time \in 0 .. MaxTime, clear_point_timer(u, time)
         PROVE  HandlersInv'
    BY <1>10, RemoveEffect DEF clear_point_timer
  <1>11. ASSUME NEW u \in Users, NEW duration \in Durations, NEW interval \in Intervals,
                NEW loop_count \in LoopCounts, InsertCheck(u, duration, interval, loop_count)
         PROVE  HandlersInv'
    BY <1>11 DEF InsertCheck, HandlersInv, Handlers, timers, armed
  <1>12. ASSUME NEW u \in Owners, start_manager(u) \/ StopSwitch(u)
         PROVE  HandlersInv'
    BY <1>12 DEF start_manager, StopSwitch, HandlersInv, Handlers, timers, armed
  <1>13. ASSUME NEW u \in Owners, stop(u)
         PROVE  HandlersInv'
    <2>1. CASE StopClear(u)
      BY <1>7, <2>1 DEF StopClear, history
    <2>2. CASE StopIoc(u)
      <3>1. m_wait' \in Wait /\ m_ready' \in Seq(Handlers')
        BY <2>2 DEF StopIoc, None, Wait
      <3> QED
        BY <1>0, <2>2, <3>1 DEF StopIoc, HandlersInv, timers
    <2>3. CASE StopReset(u)
      BY <2>3 DEF StopReset, HandlersInv, Handlers, timers, armed
    <2> QED
      BY <1>13, <2>1, <2>2, <2>3 DEF stop
  <1> QED
    BY <1>1, <1>2, <1>3, <1>4, <1>5, <1>6, <1>8, <1>9, <1>10, <1>11, <1>12, <1>13 DEF Next

------------------------------------------------------------------------------
(* How often, and when.                                                    *)

\* Nothing changes for the timers in the maps, and time goes on.
LEMMA TimesInvStays ==
  ASSUME MapsInv, TimesInv, MapsInv', Len(item') = Len(item), fired' = fired,
         m_all_timer_map' \subseteq m_all_timer_map,
         now \in Nat, now' \in Nat, now' >= now,
         \A id \in m_all_timer_map' : item'[id] = item[id],
         \A id \in DOMAIN item : \/ item'[id] = item[id]
                                 \/ item'[id] = [item[id] EXCEPT !.loop_count = -1],
         \A u \in Users : upc'[u] = "insert" =>
                            upc[u] = "insert" /\ inserting'[u] = inserting[u]
  PROVE  TimesInv'
  <1>1. /\ DOMAIN item' = DOMAIN item /\ m_all_timer_map' \subseteq m_all_timer_map
        /\ \A id \in DOMAIN item : item[id] \in Task /\ fired[id] \in Nat
    BY DEF MapsInv
  <1>2. ASSUME NEW id \in DOMAIN item
        PROVE  /\ fired'[id] > 0 =>
                    now' + Millisecond > item'[id].asked + (fired'[id] - 1) * item'[id].interval
               /\ item'[id].loop_count > 0 => fired'[id] <= item'[id].loop_count
    <2>1. /\ fired[id] > 0 => now + Millisecond > item[id].asked + (fired[id] - 1) * item[id].interval
          /\ item[id].loop_count > 0 => fired[id] <= item[id].loop_count
      BY DEF TimesInv, FiresAsAsked
    <2>2. /\ item'[id].asked = item[id].asked /\ item'[id].interval = item[id].interval
          /\ item'[id].loop_count = item[id].loop_count \/ item'[id].loop_count = -1
      BY <1>1 DEF Task
    <2> DEFINE last == item[id].asked + (fired[id] - 1) * item[id].interval
    <2>3. last \in Int
      BY <1>1 DEF Task
    <2>4. item'[id].asked + (fired'[id] - 1) * item'[id].interval = last
      BY <2>2
    <2>5. fired[id] > 0 => now + Millisecond > last
      BY <2>1
    <2> HIDE DEF last
    <2>6. fired'[id] > 0 => now' + Millisecond > last
      BY <2>3, <2>5, MillisecondIsNat
    <2>7. item'[id].loop_count > 0 => fired'[id] <= item'[id].loop_count
      BY <2>1, <2>2
    <2> QED
      BY <2>4, <2>6, <2>7
  <1>3. FiresAsAsked'
    BY <1>1, <1>2 DEF FiresAsAsked
  <1> QED
    BY <1>1, <1>3 DEF TimesInv

\* A new timer is due when it was asked for, give or take a millisecond.
LEMMA InsertKeepsTimesInv ==
  ASSUME MapsInv, HandlersInv, TimesInv, SwitchInv, NEW u \in Users, Insert(u)
  PROVE  TimesInv'
  <1> DEFINE n == Len(item) + 1
  <1>1. /\ Len(item') = n /\ MapsInv'
        /\ \A id \in 1 .. Len(item) : item'[id] = item[id] /\ fired'[id] = fired[id]
        /\ item'[n] = inserting[u] /\ fired'[n] = 0
    BY InsertKeepsMaps
  <1>2. /\ m_all_timer_map' = m_all_timer_map \cup {n} /\ now' = now
        /\ inserting' = [inserting EXCEPT ![u] = NoTimer] /\ upc' = [upc EXCEPT ![u] = "idle"]
        /\ upc[u] = "insert"
    BY DEF Insert
  <1>3. Len(item) \in Nat /\ m_all_timer_map \subseteq 1 .. Len(item) /\ n \in Nat
        /\ inserting[u] \in Task /\ DOMAIN item' = 1 .. n /\ n \notin 1 .. Len(item)
    BY <1>1 DEF MapsInv
  <1>4. /\ inserting[u].time_point + Millisecond > inserting[u].asked
        /\ inserting[u].loop_index = 0 /\ inserting[u].loop_count >= 0
    BY <1>2 DEF TimesInv
  <1>5. \A v \in Users : upc'[v] = "insert" => upc[v] = "insert" /\ inserting'[v] = inserting[v]
    BY <1>2 DEF SwitchInv, MapsInv
  <1> HIDE DEF n
  <1>6. ASSUME NEW id \in m_all_timer_map'
        PROVE  /\ item'[id].time_point + Millisecond >
                    item'[id].asked + fired'[id] * item'[id].interval
               /\ item'[id].loop_count >= 0
               /\ item'[id].loop_count > 0 =>
                    item'[id].loop_index = fired'[id] /\ fired'[id] < item'[id].loop_count
    <2>1. CASE id = n
      <3>1. inserting[u].asked + 0 * inserting[u].interval = inserting[u].asked
        BY <1>3 DEF Task
      <3> QED
        BY <1>1, <1>4, <2>1, <3>1
    <2>2. CASE id # n
      <3>1. id \in m_all_timer_map /\ id \in 1 .. Len(item)
        BY <1>2, <1>3, <2>2
      <3>2. item'[id] = item[id] /\ fired'[id] = fired[id]
        BY <1>1, <3>1
      <3> QED
        BY <3>1, <3>2 DEF TimesInv
    <2> QED
      BY <2>1, <2>2
  <1>7. FiresAsAsked'
    <2> SUFFICES ASSUME NEW id \in DOMAIN item'
                 PROVE  /\ fired'[id] > 0 =>
                             now' + Millisecond > item'[id].asked + (fired'[id] - 1) * item'[id].interval
                        /\ item'[id].loop_count > 0 => fired'[id] <= item'[id].loop_count
      BY DEF FiresAsAsked
    <2>1. CASE id = n
      BY <1>1, <1>3, <2>1 DEF Task
    <2>2. CASE id # n
      <3>1. id \in 1 .. Len(item) /\ id \in DOMAIN item
        BY <1>1, <1>3, <2>2 DEF n
      <3>2. item'[id] = item[id] /\ fired'[id] = fired[id]
        BY <1>1, <3>1
      <3> QED
        BY <1>2, <3>1, <3>2 DEF TimesInv, FiresAsAsked
    <2> QED
      BY <2>1, <2>2
  <1>8. \A v \in Users : upc'[v] = "insert" =>
          /\ inserting'[v].time_point + Millisecond > inserting'[v].asked
          /\ inserting'[v].loop_index = 0 /\ inserting'[v].loop_count >= 0
    BY <1>5 DEF TimesInv
  <1> QED
    BY <1>6, <1>7, <1>8 DEF TimesInv

\* The arithmetic of the next interval, product by product.
LEMMA NextMultiple ==
  ASSUME NEW n \in Nat, NEW k \in Nat
  PROVE  /\ n * k \in Int
         /\ \A m, j : m = n + 1 /\ j = k => m * j = n * k + k /\ (m - 1) * j = n * k
  <1>1. n * k \in Int /\ (n + 1) * k = n * k + k /\ ((n + 1) - 1) * k = n * k
    OBVIOUS
  <1> SUFFICES ASSUME NEW m, NEW j, m = n + 1, j = k
               PROVE  m * j = n * k + k /\ (m - 1) * j = n * k
    BY <1>1
  <1>2. m * j = (n + 1) * k
    BY Zenon
  <1>3. (m - 1) * j = ((n + 1) - 1) * k
    BY Zenon
  <1> QED
    BY <1>1, <1>2, <1>3, Zenon

\* The handler hands a timer to the pool once per interval, and forgets it after the last time.
LEMMA HandlerKeepsTimesInv ==
  ASSUME MapsInv, HandlersInv, TimesInv, handler
  PROVE  TimesInv'
  <1>1. PICK due \in SUBSET m_all_timer_map :
          LoopPointTimer(due) /\ \A id \in due : item[id].time_point <= now
    BY HandlerEffect
  <1>2. inserting' = inserting /\ now' = now /\ upc' = upc
    BY DEF handler
  <1>3. /\ MapsInv' /\ Len(item') = Len(item)
        /\ m_all_timer_map' \subseteq m_all_timer_map
        /\ \A id \in DOMAIN item \ due :
             item'[id] = item[id] /\ fired'[id] = fired[id]
        /\ \A id \in due :
             /\ fired'[id] = fired[id] + 1
             /\ item'[id].asked = item[id].asked /\ item'[id].interval = item[id].interval
             /\ item'[id].loop_count = item[id].loop_count
             /\ item[id].loop_count > 0 /\ item[id].loop_index < item[id].loop_count =>
                  item'[id].loop_index = item[id].loop_index + 1
             /\ id \in m_all_timer_map' =>
                  /\ item'[id].time_point = item[id].time_point + item[id].interval
                  /\ need_next(item'[id])
    BY <1>1, <1>2, LoopPointTimerEffect
  <1>4. /\ DOMAIN item' = DOMAIN item /\ m_all_timer_map \subseteq DOMAIN item /\ now \in Nat
        /\ \A id \in DOMAIN item : item[id] \in Task /\ item'[id] \in Task /\ fired[id] \in Nat
    <2>1. item \in Seq(Task) /\ item' \in Seq(Task) /\ fired \in Seq(Nat) /\ Len(fired) = Len(item)
      BY <1>3 DEF MapsInv
    <2>2. DOMAIN item' = DOMAIN item /\ DOMAIN fired = DOMAIN item
      BY <1>3, <2>1
    <2> QED
      BY <2>1, <2>2 DEF MapsInv, HandlersInv
  <1>5. ASSUME NEW id \in due
        PROVE  /\ now' + Millisecond > item'[id].asked + (fired'[id] - 1) * item'[id].interval
               /\ item'[id].loop_count > 0 => fired'[id] <= item'[id].loop_count
               /\ id \in m_all_timer_map' =>
                    /\ item'[id].time_point + Millisecond >
                         item'[id].asked + fired'[id] * item'[id].interval
                    /\ item'[id].loop_count >= 0
                    /\ item'[id].loop_count > 0 =>
                         item'[id].loop_index = fired'[id] /\ fired'[id] < item'[id].loop_count
    <2>1. /\ item[id].time_point + Millisecond > item[id].asked + fired[id] * item[id].interval
          /\ item[id].loop_count >= 0
          /\ item[id].loop_count > 0 =>
               item[id].loop_index = fired[id] /\ fired[id] < item[id].loop_count
      BY DEF TimesInv
    <2>2. /\ item[id].time_point \in Nat /\ item[id].asked \in Nat /\ item[id].interval \in Nat
          /\ item[id].loop_count \in Int /\ item[id].loop_index \in Nat /\ fired[id] \in Nat
          /\ item[id].time_point <= now
      BY <1>1, <1>4 DEF Task
    <2>3. /\ fired'[id] = fired[id] + 1
          /\ item'[id].asked = item[id].asked /\ item'[id].interval = item[id].interval
          /\ item'[id].loop_count = item[id].loop_count
          /\ item[id].loop_count > 0 /\ item[id].loop_index < item[id].loop_count =>
               item'[id].loop_index = item[id].loop_index + 1
      BY <1>3
    <2> DEFINE product == fired[id] * item[id].interval
    <2>4. /\ product \in Int
          /\ \A m, j : m = fired[id] + 1 /\ j = item[id].interval =>
               m * j = product + item[id].interval /\ (m - 1) * j = product
      BY <2>2, NextMultiple
    <2>6. item[id].time_point + Millisecond > item[id].asked + product
      BY <2>1
    <2>7. /\ (fired'[id] - 1) * item'[id].interval = product
          /\ fired'[id] * item'[id].interval = product + item[id].interval
      BY <2>3, <2>4, Zenon
    <2> HIDE DEF product
    <2>8. now' + Millisecond > item'[id].asked + (fired'[id] - 1) * item'[id].interval
      BY <1>2, <1>4, <2>2, <2>3, <2>4, <2>6, <2>7, MillisecondIsNat
    <2>9. item'[id].loop_count > 0 => fired'[id] <= item'[id].loop_count
      BY <2>1, <2>2, <2>3
    <2>10. ASSUME id \in m_all_timer_map'
           PROVE  /\ item'[id].time_point + Millisecond >
                       item'[id].asked + fired'[id] * item'[id].interval
                  /\ item'[id].loop_count >= 0
                  /\ item'[id].loop_count > 0 =>
                       item'[id].loop_index = fired'[id] /\ fired'[id] < item'[id].loop_count
      <3>1. /\ item'[id].time_point = item[id].time_point + item[id].interval
            /\ need_next(item'[id])
        BY <1>3, <2>10
      <3>2. item'[id].time_point + Millisecond > item'[id].asked + fired'[id] * item'[id].interval
        BY <2>2, <2>3, <2>4, <2>6, <2>7, <3>1, MillisecondIsNat
      <3>3. item'[id].loop_count > 0 =>
              item'[id].loop_index = fired'[id] /\ fired'[id] < item'[id].loop_count
        BY <2>1, <2>2, <2>3, <3>1 DEF need_next
      <3> QED
        BY <2>1, <2>3, <3>2, <3>3
    <2> QED
      BY <2>8, <2>9, <2>10
  <1>6. ASSUME NEW id \in m_all_timer_map'
        PROVE  /\ item'[id].time_point + Millisecond >
                    item'[id].asked + fired'[id] * item'[id].interval
               /\ item'[id].loop_count >= 0
               /\ item'[id].loop_count > 0 =>
                    item'[id].loop_index = fired'[id] /\ fired'[id] < item'[id].loop_count
    <2>1. CASE id \in due
      BY <1>5, <2>1
    <2>2. CASE id \notin due
      <3>1. id \in m_all_timer_map /\ item'[id] = item[id] /\ fired'[id] = fired[id]
        BY <1>3, <1>4, <2>2
      <3> QED
        BY <3>1 DEF TimesInv
    <2> QED
      BY <2>1, <2>2
  <1>7. FiresAsAsked'
    <2> SUFFICES ASSUME NEW id \in DOMAIN item
                 PROVE  /\ fired'[id] > 0 =>
                             now' + Millisecond > item'[id].asked + (fired'[id] - 1) * item'[id].interval
                        /\ item'[id].loop_count > 0 => fired'[id] <= item'[id].loop_count
      BY <1>4 DEF FiresAsAsked
    <2>1. CASE id \in due
      BY <1>5, <2>1
    <2>2. CASE id \notin due
      <3>1. item'[id] = item[id] /\ fired'[id] = fired[id]
        BY <1>3, <2>2
      <3> QED
        BY <1>2, <3>1 DEF TimesInv, FiresAsAsked
    <2> QED
      BY <2>1, <2>2
  <1>8. \A v \in Users : upc'[v] = "insert" =>
          /\ inserting'[v].time_point + Millisecond > inserting'[v].asked
          /\ inserting'[v].loop_index = 0 /\ inserting'[v].loop_count >= 0
    BY <1>2 DEF TimesInv
  <1> QED
    BY <1>6, <1>7, <1>8 DEF TimesInv

\* Every step keeps TimesInv.
LEMMA StepKeepsTimesInv ==
  ASSUME SwitchInv, MapsInv, HandlersInv, TimesInv, [Next]_vars
  PROVE  TimesInv'
  <1>0. MapsInv' /\ HandlersInv' /\ now \in Nat /\ now' \in Nat
    BY StepKeepsMapsInv, StepKeepsHandlersInv DEF HandlersInv
  <1>1. ASSUME item' = item, fired' = fired, m_all_timer_map' \subseteq m_all_timer_map,
               now' >= now,
               \A u \in Users : upc'[u] = "insert" =>
                                  upc[u] = "insert" /\ inserting'[u] = inserting[u]
        PROVE  TimesInv'
    BY <1>0, <1>1, TimesInvStays
  <1>2. ASSUME UNCHANGED <<item, fired, m_all_timer_map, upc, inserting>>, now' >= now
        PROVE  TimesInv'
    BY <1>1, <1>2
  <1>3. CASE Tick \/ Expires \/ Invoke \/ UNCHANGED vars
    BY <1>0, <1>2, <1>3 DEF Tick, Expires, Invoke, vars, timers, history
  <1>4. CASE handler
    BY <1>4, HandlerKeepsTimesInv
  <1>5. ASSUME NEW u \in Users, Insert(u)
        PROVE  TimesInv'
    BY <1>5, InsertKeepsTimesInv
  <1>6. ASSUME NEW u \in Users, clear(u)
        PROVE  TimesInv'
    <2>1. /\ item' = item /\ fired' = fired /\ now' = now /\ upc' = upc /\ inserting' = inserting
          /\ m_all_timer_map' \subseteq m_all_timer_map
      BY <1>6 DEF clear, ClearTimers, Forget
    <2>2. now' >= now
      BY <1>0, <2>1
    <2> QED
      BY <1>1, <2>1, <2>2
  <1>7. ASSUME NEW ids, RemoveTimers(ids)
        PROVE  TimesInv'
    <2>1. /\ Len(item') = Len(item)
          /\ \A id \in m_all_timer_map' : item'[id] = item[id]
          /\ \A id \in DOMAIN item : \/ item'[id] = item[id]
                                     \/ item'[id] = [item[id] EXCEPT !.loop_count = -1]
      BY <1>7, RemoveEffect
    <2>2. m_all_timer_map' \subseteq m_all_timer_map /\ now' = now /\ fired' = fired
          /\ upc' = upc /\ inserting' = inserting
      BY <1>7 DEF RemoveTimers, Forget, history
    <2>3. now' >= now
      BY <1>0, <2>2
    <2>4. \A u \in Users : upc'[u] = "insert" =>
                             upc[u] = "insert" /\ inserting'[u] = inserting[u]
      BY <2>2
    <2> QED
      BY <1>0, <2>1, <2>2, <2>3, <2>4, TimesInvStays
  <1>8. ASSUME NEW u \in Users, NEW duration \in Durations, NEW interval \in Intervals,
               NEW loop_count \in LoopCounts, InsertCheck(u, duration, interval, loop_count)
        PROVE  TimesInv'
    <2> DEFINE timer == [time_point |-> RevisePoint(now + duration), asked |-> now + duration,
                         interval |-> Millisecond * RoundUp(interval), loop_count |-> loop_count,
                         loop_index |-> 0]
    <2>1. now + duration \in Nat /\ loop_count \in Nat
      BY <1>0, TimerAssumption
    <2>2. /\ timer.time_point + Millisecond > timer.asked
          /\ timer.loop_index = 0 /\ timer.loop_count >= 0
      BY <2>1, RevisePointIsClose
    <2> HIDE DEF timer
    <2>3. inserting' = [inserting EXCEPT ![u] = timer] /\ upc' = [upc EXCEPT ![u] = "insert"]
          /\ UNCHANGED <<item, fired, m_all_timer_map, now>>
      BY <1>8 DEF InsertCheck, timer, timers, history
    <2>4. \A v \in Users : upc'[v] = "insert" =>
            /\ inserting'[v].time_point + Millisecond > inserting'[v].asked
            /\ inserting'[v].loop_index = 0 /\ inserting'[v].loop_count >= 0
      BY <2>2, <2>3 DEF SwitchInv, MapsInv, TimesInv
    <2> QED
      BY <2>3, <2>4 DEF TimesInv, FiresAsAsked
  <1>9. ASSUME NEW u \in Owners, start_manager(u) \/ StopSwitch(u) \/ stop(u)
        PROVE  TimesInv'
    <2>1. \A v \in Users : upc'[v] = "insert" => upc[v] = "insert" /\ inserting'[v] = inserting[v]
      <3>1. inserting' = inserting
        BY <1>9 DEF start_manager, StopSwitch, stop, StopClear, ClearTimers, StopIoc, StopReset
      <3>2. \/ upc' = upc
            \/ upc' = [upc EXCEPT ![u] = "stop_clear"]
            \/ upc' = [upc EXCEPT ![u] = "stop_ioc"]
            \/ upc' = [upc EXCEPT ![u] = "stop_reset"]
            \/ upc' = [upc EXCEPT ![u] = "idle"]
        BY <1>9 DEF start_manager, StopSwitch, stop, StopClear, StopIoc, StopReset
      <3>3. \A v \in Users : upc'[v] = "insert" => upc[v] = "insert"
        BY <3>2 DEF SwitchInv
      <3> QED
        BY <3>1, <3>3
    <2>2. m_all_timer_map' \subseteq m_all_timer_map /\ item' = item /\ fired' = fired /\ now' = now
      BY <1>9 DEF start_manager, StopSwitch, stop, StopClear, ClearTimers, Forget, StopIoc,
                  StopReset, timers, history
    <2>3. now' >= now
      BY <1>0, <2>2
    <2> QED
      BY <1>1, <2>1, <2>2, <2>3
  <1> QED
    BY <1>3, <1>4, <1>5, <1>6, <1>7, <1>8, <1>9 DEF Next, erase, clear_point_timer

------------------------------------------------------------------------------
(* What the asio timer is armed for.                                       *)

\* The empty sequence is the one of length zero.
LEMMA EmptyHasNoLength ==
  ASSUME NEW S, NEW s \in Seq(S)
  PROVE  s = <<>> <=> Len(s) = 0
  OBVIOUS

\* The same for the handlers on their way.
LEMMA NoHandlers ==
  ASSUME HandlersInv
  PROVE  Len(m_ready) \in Nat /\ (m_ready = <<>> <=> Len(m_ready) = 0)
  BY DEF HandlersInv

\* Nobody is inside stop() while the manager runs, and one owner at a time.
LEMMA OneStops ==
  ASSUME SwitchInv, NEW u \in Users \cup Owners, upc[u] \in Stopping
  PROVE  /\ ~has_started /\ m_binit
         /\ \A v \in Users \cup Owners : v # u => upc[v] \notin Stopping
  BY DEF SwitchInv, has_started

\* An insert in front of the others arms the asio timer anew.
LEMMA InsertKeepsArmedInv ==
  ASSUME SwitchInv, MapsInv, HandlersInv, ArmedInv, NEW u \in Users, Insert(u)
  PROVE  ArmedInv'
  <1> SUFFICES ASSUME ~stranded'
               PROVE  ArmedInv'
    BY DEF ArmedInv
  <1> DEFINE n == Len(item) + 1
             part == m_timer_part_queue'
             old == m_timer_part_queue
  <1>1. ~stranded /\ has_started /\ UNCHANGED <<switch, cleared>>
        /\ upc' = [upc EXCEPT ![u] = "idle"]
        /\ m_timer_part_queue' = m_timer_part_queue \cup {<<inserting[u].time_point, n>>}
    BY DEF Insert
  <1>2. \A v \in Users \cup Owners : upc[v] \notin Stopping
    BY <1>1, OneStops
  <1>3. \A v \in Users \cup Owners : upc'[v] \notin {"stop_ioc", "stop_reset"}
    BY <1>1, <1>2 DEF SwitchInv, Stopping
  <1>4. m_binit' /\ (has_started <=> has_started')
    BY <1>1 DEF has_started, switch
  <1>5. /\ HandlersInv' /\ part \in SUBSET (Nat \X Nat)
        /\ m_cur_task = 0 =>
              /\ m_cur_task' = Len(item) + 1
              /\ m_wait' = IF has_started
                           THEN [id |-> m_cur_task', time_point |-> inserting[u].time_point]
                           ELSE m_wait
              /\ Len(m_ready') = Len(m_ready) + (IF has_started /\ m_wait # None THEN 1 ELSE 0)
        /\ m_cur_task # 0 =>
              /\ m_cur_task' = m_cur_task
              /\ IF m_cur_task # front(part)[2]
                 THEN /\ m_wait' = None
                      /\ Len(m_ready') = Len(m_ready) + (IF m_wait = None THEN 0 ELSE 1)
                 ELSE UNCHANGED <<m_wait, m_ready>>
    BY InsertArms
  <1>6. /\ Len(m_ready) \in Nat /\ (m_ready = <<>> <=> Len(m_ready) = 0)
        /\ Len(m_ready') \in Nat /\ (m_ready' = <<>> <=> Len(m_ready') = 0)
    BY <1>5, NoHandlers DEF HandlersInv
  <1>7. m_ready = <<>> /\ m_cur_task # 0 =>
          /\ m_timer_part_queue # {} /\ m_wait # None
          /\ m_wait = [id |-> m_cur_task, time_point |-> front(old)[1]]
          /\ m_cur_task = front(old)[2]
    BY <1>1 DEF ArmedInv, None
  <1>8. ~cleared => /\ m_ready = <<>> \/ (m_wait = None /\ Len(m_ready) = 1)
                    /\ m_cur_task = 0 => Quiet
    BY <1>1 DEF ArmedInv
  <1>9. /\ m_cur_task \in Nat /\ n # m_cur_task /\ n # 0 /\ part # {}
        /\ old \in SUBSET (Nat \X Nat)
        /\ \A p \in old : p[1] = item[p[2]].time_point
        /\ m_cur_task = 0 => old = {}
    <2>1. Len(item) \in Nat /\ m_cur_task \in 0 .. Len(item)
      BY DEF HandlersInv, MapsInv
    <2>2. old \in SUBSET (Nat \X Nat) /\ \A p \in old : p[1] = item[p[2]].time_point
      BY PairsAreTyped DEF MapsInv
    <2>3. m_cur_task = 0 => old = {}
      BY DEF HandlersInv
    <2>4. n # m_cur_task /\ n # 0 /\ m_cur_task \in Nat
      BY <2>1
    <2>5. part # {}
      BY <1>1
    <2> QED
      BY <2>2, <2>3, <2>4, <2>5
  <1> HIDE DEF n, part, old
  <1>10. CASE m_cur_task = 0
    <2>1. part = {<<inserting[u].time_point, n>>}
      BY <1>1, <1>9, <1>10 DEF part, old
    <2>2. front(part) = <<inserting[u].time_point, n>>
      BY <1>5, <1>9, <2>1, FrontIsUnique
    <2>3. m_cur_task' = n /\ m_wait' = [id |-> m_cur_task', time_point |-> inserting[u].time_point]
      BY <1>1, <1>5, <1>10 DEF n
    <2>4. ~cleared => m_ready' = <<>>
      BY <1>5, <1>6, <1>8, <1>10 DEF Quiet
    <2>5. m_wait' = [id |-> m_cur_task', time_point |-> front(part)[1]] /\ m_cur_task' = front(part)[2]
      BY <2>2, <2>3
    <2> QED
      BY <1>1, <1>3, <1>4, <1>9, <2>3, <2>4, <2>5 DEF ArmedInv, part
  <1>11. CASE m_cur_task # 0 /\ m_cur_task # front(part)[2]
    <2>1. /\ m_wait' = None /\ m_cur_task' = m_cur_task
          /\ Len(m_ready') = Len(m_ready) + (IF m_wait = None THEN 0 ELSE 1)
      BY <1>5, <1>11
    <2>2. m_ready' # <<>>
      BY <1>6, <1>7, <1>11, <2>1
    <2>3. ~cleared => Len(m_ready') = 1
      BY <1>6, <1>8, <2>1, <2>2
    <2> QED
      BY <1>1, <1>3, <1>4, <1>11, <2>1, <2>2, <2>3 DEF ArmedInv
  <1>12. CASE m_cur_task # 0 /\ m_cur_task = front(part)[2]
    <2>1. m_cur_task' = m_cur_task /\ m_wait' = m_wait /\ m_ready' = m_ready
      BY <1>5, <1>12
    <2>2. ASSUME m_ready = <<>>
          PROVE  m_wait' = [id |-> m_cur_task', time_point |-> front(part)[1]]
      <3>1. front(part) \in part
        BY <1>5, <1>9, FrontIsFirst
      <3>2. front(part) \in old
        BY <1>1, <1>9, <1>12, <3>1 DEF part, old
      <3>3. front(part)[1] = item[m_cur_task].time_point
        BY <1>9, <1>12, <3>2
      <3>4. front(old) \in old
        BY <1>9, <3>2, FrontIsFirst
      <3>5. front(old)[1] = item[m_cur_task].time_point
        BY <1>7, <1>9, <1>12, <2>2, <3>4
      <3> QED
        BY <1>7, <1>12, <2>1, <2>2, <3>3, <3>5
    <2> QED
      BY <1>1, <1>3, <1>4, <1>8, <1>9, <1>12, <2>1, <2>2 DEF ArmedInv, part
  <1> QED
    BY <1>10, <1>11, <1>12

\* Removing the current timer leaves its cancelled handler, which arms the next one.
LEMMA RemoveKeepsArmedInv ==
  ASSUME SwitchInv, MapsInv, HandlersInv, ArmedInv, NEW ids, RemoveTimers(ids)
  PROVE  ArmedInv'
  <1> SUFFICES ASSUME ~stranded'
               PROVE  ArmedInv'
    BY DEF ArmedInv
  <1> DEFINE part == m_timer_part_queue'
             old == m_timer_part_queue
  <1>1. ~stranded /\ UNCHANGED <<switch, cleared, upc, m_cur_task>>
    BY DEF RemoveTimers, history
  <1>2. m_binit' = m_binit /\ (has_started' <=> has_started)
    BY <1>1 DEF switch, has_started
  <1>3. /\ HandlersInv'
        /\ part = {pair \in old : pair[2] \notin ids}
        /\ IF m_cur_task \in ids
           THEN /\ m_wait' = None
                /\ Len(m_ready') = Len(m_ready) + (IF m_wait = None THEN 0 ELSE 1)
           ELSE UNCHANGED <<m_wait, m_ready>>
    BY RemoveEffect
  <1>4. /\ Len(m_ready) \in Nat /\ (m_ready = <<>> <=> Len(m_ready) = 0)
        /\ Len(m_ready') \in Nat /\ (m_ready' = <<>> <=> Len(m_ready') = 0)
    BY <1>3, NoHandlers DEF HandlersInv
  <1>5. has_started /\ m_ready = <<>> /\ m_cur_task # 0 =>
          /\ old # {} /\ m_wait # None
          /\ m_wait = [id |-> m_cur_task, time_point |-> front(old)[1]]
          /\ m_cur_task = front(old)[2]
    BY <1>1 DEF ArmedInv, None
  <1>6. /\ ~cleared => /\ m_ready = <<>> \/ (m_wait = None /\ Len(m_ready) = 1)
                       /\ has_started /\ m_cur_task = 0 => Quiet
        /\ ~m_binit => m_cur_task = 0 /\ Quiet
        /\ \A u \in Users \cup Owners :
             /\ upc[u] \in {"stop_ioc", "stop_reset"} => m_cur_task = 0
             /\ upc[u] = "stop_reset" => Quiet
    BY <1>1 DEF ArmedInv
  <1>7. old \in SUBSET (Nat \X Nat)
    BY PairsAreTyped DEF MapsInv
  <1>8. Quiet => Quiet'
    BY <1>3, <1>4 DEF Quiet
  <1> HIDE DEF part, old
  <1>9. CASE m_cur_task \in ids
    <2>1. has_started /\ m_cur_task # 0 => m_ready' # <<>>
      BY <1>3, <1>4, <1>5, <1>9
    <2>3. /\ m_wait' = None
          /\ Len(m_ready') = Len(m_ready) + (IF m_wait = None THEN 0 ELSE 1)
      BY <1>3, <1>9
    <2>2. ~cleared => m_ready' = <<>> \/ (m_wait' = None /\ Len(m_ready') = 1)
      BY <1>4, <1>6, <2>3
    <2> QED
      BY <1>1, <1>2, <1>6, <1>8, <2>1, <2>2 DEF ArmedInv
  <1>10. CASE m_cur_task \notin ids
    <2>1. m_wait' = m_wait /\ m_ready' = m_ready
      BY <1>3, <1>10
    <2>2. ASSUME has_started, m_ready = <<>>, m_cur_task # 0
          PROVE  part # {} /\ front(part) = front(old)
      <3>1. front(old) \in old /\ \A q \in old \ {front(old)} : Earlier(front(old), q)
        BY <1>5, <1>7, <2>2, FrontIsFirst
      <3>2. front(old) \in part /\ part \subseteq old
        BY <1>3, <1>5, <1>10, <2>2, <3>1
      <3>3. front(part) = front(old)
        BY <1>7, <3>1, <3>2, FrontIsUnique
      <3> QED
        BY <3>2, <3>3
    <2> QED
      BY <1>1, <1>2, <1>5, <1>6, <1>8, <2>1, <2>2 DEF ArmedInv, part
  <1> QED
    BY <1>9, <1>10

\* The handler arms the asio timer for the earliest timer that is left.
LEMMA HandlerKeepsArmedInv ==
  ASSUME SwitchInv, MapsInv, HandlersInv, ArmedInv, handler
  PROVE  ArmedInv'
  <1> SUFFICES ASSUME ~stranded'
               PROVE  ArmedInv'
    BY DEF ArmedInv
  <1> DEFINE ready == Tail(m_ready)
             part == m_timer_part_queue'
  <1>1. ~stranded /\ UNCHANGED <<switch, cleared, upc>>
    BY DEF handler
  <1>2. m_binit' = m_binit /\ (has_started' <=> has_started)
    BY <1>1 DEF switch, has_started
  <1>3. /\ m_ready # <<>> /\ ready \in Seq(Handlers) /\ Len(ready) = Len(m_ready) - 1
        /\ Rearm(part, ready)
        /\ MapsInv' /\ Len(item') = Len(item)
    BY HandlerEffect
  <1>4. m_all_timer_map' \subseteq m_all_timer_map
    BY HandlerEffect DEF LoopPointTimer
  <1>5. /\ item' \in Seq(Task) /\ m_all_timer_map' \in SUBSET (DOMAIN item')
        /\ part = PairsOf(m_all_timer_map', item')
        /\ m_wait \in Wait /\ m_ready \in Seq(Handlers) /\ Len(m_ready) \in Nat
    BY <1>3 DEF MapsInv, HandlersInv
  <1> HIDE DEF ready, part
  <1>6. /\ m_wait' \in Wait /\ m_ready' \in Seq(Handlers)
        /\ m_cur_task' = 0 <=> m_all_timer_map' = {}
        /\ m_all_timer_map' = {} => m_wait' = m_wait /\ m_ready' = ready
        /\ m_all_timer_map' # {} =>
             /\ m_cur_task' = front(part)[2]
             /\ m_wait' = IF has_started
                          THEN [id |-> m_cur_task', time_point |-> front(part)[1]] ELSE m_wait
             /\ Len(m_ready') = Len(ready) + (IF has_started /\ m_wait # None THEN 1 ELSE 0)
    BY <1>3, <1>5, RearmEffect
  <1>7. /\ ready = <<>> <=> Len(ready) = 0
        /\ m_ready' = <<>> <=> Len(m_ready') = 0
    <2>1. ready \in Seq(Handlers) /\ m_ready' \in Seq(Handlers)
      BY <1>3, <1>6
    <2> QED
      BY <2>1, EmptyHasNoLength
  <1>8. /\ ~cleared => m_wait = None /\ ready = <<>>
        /\ m_binit
        /\ \A u \in Users \cup Owners :
             /\ upc[u] \in {"stop_ioc", "stop_reset"} => m_cur_task = 0
             /\ upc[u] # "stop_reset"
    BY <1>1, <1>3, <1>5, <1>7 DEF ArmedInv, Quiet
  <1>9. m_cur_task = 0 => m_all_timer_map' = {}
    BY <1>4, PairsAreTyped DEF HandlersInv, MapsInv
  <1>10. m_cur_task' # 0 => part # {}
    BY <1>5, <1>6, PairsAreTyped
  <1>11. ~cleared => m_ready' = <<>> /\ (m_cur_task' = 0 => Quiet')
    BY <1>3, <1>6, <1>7, <1>8 DEF Quiet
  <1>12. \A u \in Users \cup Owners :
           upc[u] \in {"stop_ioc", "stop_reset"} => m_cur_task' = 0
    BY <1>6, <1>8, <1>9
  <1>13. has_started /\ m_cur_task' # 0 =>
           /\ m_wait' = [id |-> m_cur_task', time_point |-> front(part)[1]]
           /\ m_cur_task' = front(part)[2]
    BY <1>6
  <1> QED
    BY <1>1, <1>2, <1>8, <1>10, <1>11, <1>12, <1>13 DEF ArmedInv, part

\* clear() leaves no wait and no current timer.
LEMMA ClearEffect ==
  ASSUME HandlersInv, ClearTimers
  PROVE  /\ m_cur_task' = 0 /\ m_wait' = None
         /\ Len(m_ready') = Len(m_ready) + (IF m_wait = None THEN 0 ELSE 1)
         /\ Len(m_ready) \in Nat /\ Len(m_ready') \in Nat
         /\ (m_ready = <<>> <=> Len(m_ready) = 0) /\ (m_ready' = <<>> <=> Len(m_ready') = 0)
  <1>1. m_wait \in Wait /\ m_ready \in Seq(Handlers)
    BY DEF HandlersInv
  <1>2. CancelTimer /\ m_cur_task' = 0
    BY DEF ClearTimers
  <1>3. /\ m_ready' \in Seq(Handlers) /\ m_wait' = None
        /\ Len(m_ready') = Len(m_ready) + (IF m_wait = None THEN 0 ELSE 1)
    BY <1>1, <1>2, CancelKeepsHandlers
  <1> QED
    BY <1>1, <1>2, <1>3

\* stop() leaves nothing armed behind.
LEMMA StopKeepsArmedInv ==
  ASSUME SwitchInv, MapsInv, HandlersInv, ArmedInv, NEW u \in Owners, stop(u)
  PROVE  ArmedInv'
  <1> SUFFICES ASSUME ~stranded'
               PROVE  ArmedInv'
    BY DEF ArmedInv
  <1>1. upc[u] \in Stopping
    BY DEF stop, StopClear, StopIoc, StopReset, Stopping
  <1>2. /\ ~has_started /\ m_binit
        /\ \A v \in Users \cup Owners : v # u => upc[v] \notin Stopping
    BY <1>1, OneStops
  <1>3. ~stranded /\ cleared' = cleared
    BY DEF stop, StopClear, StopIoc, StopReset, history
  <1>4. CASE StopClear(u)
    <2>1. UNCHANGED <<switch, cleared>> /\ upc' = [upc EXCEPT ![u] = "stop_ioc"] /\ ClearTimers
      BY <1>4 DEF StopClear, history
    <2>2. /\ m_cur_task' = 0 /\ m_wait' = None
          /\ Len(m_ready') = Len(m_ready) + (IF m_wait = None THEN 0 ELSE 1)
          /\ Len(m_ready) \in Nat /\ Len(m_ready') \in Nat
          /\ (m_ready = <<>> <=> Len(m_ready) = 0) /\ (m_ready' = <<>> <=> Len(m_ready') = 0)
      BY <2>1, ClearEffect
    <2>3. ~cleared => m_ready' = <<>> \/ (m_wait' = None /\ Len(m_ready') = 1)
      BY <1>3, <2>2 DEF ArmedInv
    <2>4. ~has_started' /\ m_binit'
      BY <1>2, <2>1 DEF has_started, switch
    <2>5. \A v \in Users \cup Owners : upc'[v] # "stop_reset"
      BY <1>2, <2>1 DEF SwitchInv, Stopping
    <2> QED
      BY <1>3, <2>2, <2>3, <2>4, <2>5 DEF ArmedInv
  <1>5. CASE StopIoc(u)
    <2>1. Quiet' /\ UNCHANGED <<switch, m_cur_task>>
      BY <1>5 DEF StopIoc, Quiet, None
    <2>2. m_cur_task = 0
      BY <1>3, <1>5 DEF ArmedInv, StopIoc
    <2> QED
      BY <2>1, <2>2 DEF ArmedInv, Quiet
  <1>6. CASE StopReset(u)
    <2>1. Quiet /\ m_cur_task = 0 /\ UNCHANGED armed
      BY <1>3, <1>6 DEF ArmedInv, StopReset
    <2> QED
      BY <2>1 DEF ArmedInv, Quiet, armed
  <1> QED
    BY <1>4, <1>5, <1>6 DEF stop

\* Every step keeps ArmedInv.
LEMMA StepKeepsArmedInv ==
  ASSUME SwitchInv, MapsInv, HandlersInv, ArmedInv, [Next]_vars
  PROVE  ArmedInv'
  <1>1. ASSUME UNCHANGED <<switch, m_timer_part_queue, armed, stranded, cleared>>,
               \A u \in Users \cup Owners :
                 upc'[u] \in {"stop_ioc", "stop_reset"} => upc'[u] = upc[u]
        PROVE  ArmedInv'
    BY <1>1 DEF ArmedInv, Quiet, armed, switch, has_started
  <1>2. CASE Tick \/ Invoke \/ UNCHANGED vars
    BY <1>1, <1>2 DEF Tick, Invoke, vars, timers, history
  <1>3. CASE Expires
    <2>1. m_wait # None /\ m_wait' = None /\ m_ready' = Append(m_ready, [ok |-> TRUE, wait |-> m_wait])
          /\ UNCHANGED <<switch, m_timer_part_queue, m_cur_task, upc, cleared, stranded>>
      BY <1>3 DEF Expires, timers, history
    <2>2. m_ready' # <<>> /\ (m_ready = <<>> => Len(m_ready') = 1)
      BY <2>1 DEF HandlersInv
    <2> QED
      BY <2>1, <2>2 DEF ArmedInv, Quiet, switch, has_started
  <1>4. CASE handler
    BY <1>4, HandlerKeepsArmedInv
  <1>5. ASSUME NEW u \in Users, Insert(u)
        PROVE  ArmedInv'
    BY <1>5, InsertKeepsArmedInv
  <1>6. ASSUME NEW u \in Users, clear(u)
        PROVE  ArmedInv'
    <2>1. /\ m_cur_task' = 0 /\ m_wait' = None
          /\ Len(m_ready') = Len(m_ready) + (IF m_wait = None THEN 0 ELSE 1)
          /\ Len(m_ready) \in Nat /\ Len(m_ready') \in Nat
          /\ (m_ready = <<>> <=> Len(m_ready) = 0) /\ (m_ready' = <<>> <=> Len(m_ready') = 0)
      BY <1>6, ClearEffect DEF clear
    <2>2. Quiet => Quiet'
      BY <2>1 DEF Quiet
    <2>3. cleared' /\ UNCHANGED <<switch, upc, stranded>>
      BY <1>6 DEF clear
    <2> QED
      BY <2>1, <2>2, <2>3 DEF ArmedInv, switch
  <1>7. ASSUME NEW ids, RemoveTimers(ids)
        PROVE  ArmedInv'
    BY <1>7, RemoveKeepsArmedInv
  <1>8. ASSUME NEW u \in Users, NEW duration \in Durations, NEW interval \in Intervals,
               NEW loop_count \in LoopCounts, InsertCheck(u, duration, interval, loop_count)
        PROVE  ArmedInv'
    BY <1>1, <1>8 DEF InsertCheck, SwitchInv, timers, history
  <1>9. ASSUME NEW u \in Owners, start_manager(u)
        PROVE  ArmedInv'
    BY <1>9 DEF start_manager, ArmedInv, Quiet, armed, timers, history
  <1>10. ASSUME NEW u \in Owners, StopSwitch(u)
         PROVE  ArmedInv'
    <2>1. /\ m_bstop' /\ m_binit' = m_binit
          /\ upc' = [upc EXCEPT ![u] = "stop_clear"]
          /\ UNCHANGED <<armed, m_timer_part_queue, stranded, cleared>>
      BY <1>10 DEF StopSwitch, StopCas, timers, history
    <2> QED
      BY <2>1 DEF ArmedInv, Quiet, armed, has_started, SwitchInv
  <1>11. ASSUME NEW u \in Owners, stop(u)
         PROVE  ArmedInv'
    BY <1>11, StopKeepsArmedInv
  <1> QED
    BY <1>2, <1>3, <1>4, <1>5, <1>6, <1>7, <1>8, <1>9, <1>10, <1>11
       DEF Next, erase, clear_point_timer

------------------------------------------------------------------------------
\* Every reachable state satisfies the inductive invariant: through every order of
\* insertions, removals, expiries, handlers, starts and stops that timer_manager.hpp allows.
THEOREM TimerInvHolds == Spec => []TimerInv
  <1>1. Init => TimerInv
    BY TimerInvInit
  <1>2. TimerInv /\ [Next]_vars => TimerInv'
    BY StepKeepsSwitchInv, StepKeepsMapsInv, StepKeepsHandlersInv, StepKeepsTimesInv,
       StepKeepsArmedInv DEF TimerInv
  <1> QED
    BY <1>1, <1>2, PTL DEF Spec

\* m_all_timer_map and m_timer_part_queue hold the same timers, each at its own time point:
\* front() is never taken of an empty map, nor a timer looked for where it is not.
THEOREM TheMapsAgree == Spec => []MapsAgree
  <1>1. TimerInv => MapsAgree
    BY InvGivesType DEF TimerInv, MapsAgree, MapsInv, PairsOf
  <1> QED
    BY <1>1, TimerInvHolds, PTL

\* loop_point_timer hands a timer to the pool no earlier than it was asked for, the n-th
\* time no earlier than n - 1 intervals later, and no more than loop_count times.
THEOREM TimersFireAsAsked == Spec => []FiresAsAsked
  <1>1. TimerInv => FiresAsAsked
    BY DEF TimerInv, TimesInv
  <1> QED
    BY <1>1, TimerInvHolds, PTL

\* While the manager runs and no handler is on its way, the asio timer waits for the
\* earliest timer; without clear() it is never armed twice.
THEOREM TheFirstIsArmed == Spec => []ArmedForFront
  <1>1. TimerInv => ArmedForFront
    <2> SUFFICES ASSUME TimerInv, ~stranded PROVE ArmedForFront
      BY DEF ArmedForFront
    <2>1. ASSUME has_started, m_timer_part_queue # {}, m_ready = <<>>
          PROVE  m_wait.id # 0 /\ m_wait.time_point = front(m_timer_part_queue)[1]
      <3>1. m_cur_task # 0
        BY <2>1 DEF TimerInv, HandlersInv
      <3>2. m_wait = [id |-> m_cur_task, time_point |-> front(m_timer_part_queue)[1]]
        BY <2>1, <3>1 DEF TimerInv, ArmedInv
      <3> QED
        BY <3>1, <3>2
    <2>2. ASSUME ~cleared
          PROVE  Len(m_ready \o Aborted) <= 1
      <3>1. m_wait \in Wait /\ m_ready \in Seq(Handlers)
        BY DEF TimerInv, HandlersInv
      <3>2. Aborted \in Seq(Handlers) /\ Len(Aborted) = IF m_wait = None THEN 0 ELSE 1
        BY <3>1, AbortedIsHandler
      <3>3. Len(m_ready \o Aborted) = Len(m_ready) + Len(Aborted)
        BY <3>1, <3>2, ConcatElements
      <3>4. m_ready = <<>> \/ (m_wait = None /\ Len(m_ready) = 1)
        BY <2>2 DEF TimerInv, ArmedInv
      <3> DEFINE a == Len(m_ready)
                 b == Len(Aborted)
      <3>5. (a = 0 /\ (b = 0 \/ b = 1)) \/ (a = 1 /\ b = 0)
        BY <3>2, <3>4
      <3>6. Len(m_ready \o Aborted) = a + b
        BY <3>3
      <3> HIDE DEF a, b
      <3>7. a + b <= 1
        BY <3>5
      <3> QED
        BY <3>6, <3>7
    <2> QED
      BY <2>1, <2>2 DEF ArmedForFront
  <1> QED
    BY <1>1, TimerInvHolds, PTL
==============================================================================
