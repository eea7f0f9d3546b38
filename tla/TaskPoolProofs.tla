--------------------------- MODULE TaskPoolProofs ---------------------------
(***************************************************************************)
(* LastTaskPool keeps every promise of its queue, for any number of        *)
(* threads, controllers, properties and resizes; and, when one controller  *)
(* at a time calls start, stop and reset_thread_num (OneOwner), a stop     *)
(* joins every thread and a started pool has threads that serve its queue. *)
(***************************************************************************)
EXTENDS TaskPool, LastTaskQueueProofs, FiniteSetTheorems

------------------------------------------------------------------------------
(* Every step of the pool is a step of the queue, or leaves it alone.      *)

\* start() of the pool calls start() of the queue in one of its steps, and leaves it alone in the
\* others.
LEMMA StartIsQueueStep ==
  ASSUME NEW c \in Controllers, pool_start(c)
  PROVE  [Next]_vars
  <1>1. CASE QueueStart(c) \/ QueueStartNotify(c)
    BY <1>1 DEF QueueStart, QueueStartNotify, Next, control
  <1>2. CASE CallStart(c) \/ StartTest(c) \/ StartCas(c) \/ CallResetThreadNum(c) \/ create_thread(c)
    BY <1>2 DEF CallStart, StartTest, StartCas, CallResetThreadNum, create_thread
  <1> QED
    BY <1>1, <1>2 DEF pool_start

\* stop(bwait) of the pool calls stop(bwait) of the queue in one of its steps.
LEMMA StopIsQueueStep ==
  ASSUME NEW c \in Controllers, pool_stop(c), bwait[c] \in BOOLEAN
  PROVE  [Next]_vars
  <1>1. CASE QueueStop(c)
    BY <1>1 DEF QueueStop, Next, control
  <1>2. CASE CallStop(c) \/ StopCas(c) \/ SwapThreads(c) \/ JoinThreads(c)
    BY <1>2 DEF CallStop, StopCas, SwapThreads, JoinThreads
  <1>3. CASE ResetStart(c) \/ ResetStop(c) \/ ResetInit(c)
    BY <1>3 DEF ResetStart, ResetStop, ResetInit
  <1> QED
    BY <1>1, <1>2, <1>3 DEF pool_stop

\* clear and remove_prop hand the call on to the queue, and wait() only looks at it.
LEMMA OtherIsQueueStep ==
  ASSUME NEW c \in Controllers, pool_other(c)
  PROVE  [Next]_vars
  <1>1. CASE PoolClear(c) \/ PoolRemoveNotify(c) \/ \E p \in Props : PoolRemoveProp(c, p)
    BY <1>1 DEF PoolClear, PoolRemoveNotify, PoolRemoveProp, Next, control
  <1>2. CASE CallWait(c) \/ WaitPolls(c)
    BY <1>2 DEF CallWait, WaitPolls
  <1> QED
    BY <1>1, <1>2 DEF pool_other

\* A thread of the pool only calls pop_task.
LEMMA ThreadIsQueueStep ==
  ASSUME NEW w \in Workers, thread_fun(w)
  PROVE  [Next]_vars
  BY DEF thread_fun, ThreadEnds, ThreadPops, ThreadInPop, Next, pop_task

\* add_task of the pool is add_task of the queue.
LEMMA AddIsQueueStep ==
  ASSUME NEW a \in Adders, pool_add_task(a)
  PROVE  [Next]_vars
  BY DEF pool_add_task, PoolCallAdd, PoolAdd, Next, add_task

\* The argument of stop() is the only state of the pool that reaches the queue.
BwaitOK == bwait \in [Controllers -> BOOLEAN]

\* The argument of stop(bwait) stays a Boolean.
LEMMA BwaitStep ==
  ASSUME BwaitOK, [PoolNext]_<<vars, pool_vars>>
  PROVE  BwaitOK'
  <1>1. ASSUME NEW c \in Controllers, CallStop(c) PROVE BwaitOK'
    BY <1>1 DEF CallStop, BwaitOK
  <1>2. ASSUME NEW c \in Controllers, pool_start(c) \/ pool_stop(c) \/ pool_other(c), ~CallStop(c)
        PROVE  UNCHANGED bwait
    BY <1>2 DEF pool_start, pool_stop, pool_other, CallStart, StartTest, StartCas, QueueStart,
       QueueStartNotify, CallResetThreadNum, create_thread, StopCas, QueueStop, SwapThreads,
       JoinThreads, ResetStart, ResetStop, ResetInit, PoolClear, PoolRemoveProp,
       PoolRemoveNotify, CallWait, WaitPolls, pool_vars, control_vars
  <1>3. ASSUME NEW w \in Workers, thread_fun(w) PROVE UNCHANGED bwait
    BY <1>3 DEF thread_fun, ThreadEnds, ThreadPops, ThreadInPop, pool_vars, control_vars
  <1>4. ASSUME NEW a \in Adders, pool_add_task(a) PROVE UNCHANGED bwait
    BY <1>4 DEF pool_add_task, PoolCallAdd, PoolAdd, pool_vars, control_vars
  <1>5. ASSUME NEW t \in Adders \cup Workers, PoolSpuriousWake(t) PROVE UNCHANGED bwait
    BY <1>5 DEF PoolSpuriousWake, pool_vars, control_vars
  <1>6. CASE UNCHANGED <<vars, pool_vars>>
    BY <1>6 DEF pool_vars, control_vars, BwaitOK
  <1> QED
    BY <1>1, <1>2, <1>3, <1>4, <1>5, <1>6 DEF PoolNext, BwaitOK

\* Every step of the pool is a step of the queue or leaves it alone.
LEMMA PoolStepIsQueueStep ==
  ASSUME BwaitOK, [PoolNext]_<<vars, pool_vars>>
  PROVE  [Next]_vars
  <1>1. ASSUME NEW c \in Controllers, pool_stop(c) PROVE [Next]_vars
    BY <1>1, StopIsQueueStep DEF BwaitOK
  <1>2. ASSUME NEW t \in Adders \cup Workers, PoolSpuriousWake(t) PROVE [Next]_vars
    BY <1>2 DEF PoolSpuriousWake, Next
  <1>3. CASE UNCHANGED <<vars, pool_vars>>
    BY <1>3
  <1> QED
    BY <1>1, <1>2, <1>3, StartIsQueueStep, OtherIsQueueStep, ThreadIsQueueStep, AddIsQueueStep
       DEF PoolNext

\* Whatever start, stop, reset_thread_num and the thread function do, the queue
\* inside the pool behaves as LastTaskQueue: so what is proved of the queue may be
\* cited for the pool.
LEMMA PoolImplementsQueue == PoolSpec => PoolIsQueue
  <1>1. PoolInit => Init /\ BwaitOK
    BY DEF PoolInit, BwaitOK
  <1>2. BwaitOK /\ [PoolNext]_<<vars, pool_vars>> => BwaitOK' /\ [Next]_vars
    BY BwaitStep, PoolStepIsQueueStep
  <1> QED
    BY <1>1, <1>2, PTL DEF PoolSpec, PoolIsQueue, Spec

\* In a pool too, no two threads run tasks of one property at the same time
\* (LastTaskPool's promise 3).
THEOREM PoolPropsRunSerially == PoolSpec => []OneThreadPerProp
  BY PoolImplementsQueue, PropsRunSerially DEF PoolIsQueue

------------------------------------------------------------------------------
(* Where the pool's threads and controllers are.                           *)

\* No thread goes from outside pop_task into it.
NobodyEnters == \A w \in Workers : pc'[w] # "out" => pc[w] # "out"

\* notify_one lets no idle thread into the queue: only a call of pop_task does.
LEMMA NotifyOneEnters ==
  ASSUME ThreadsOK, NEW self \in Threads, NEW cv \in {"wait_not_full", "wait_not_empty"},
         NotifyOne(self, cv)
  PROVE  NobodyEnters
  <1>1. ASSUME NEW u \in Threads, pc[u] = cv,
               pc' = [pc EXCEPT ![self] = "out", ![u] = Reacquire(cv)]
        PROVE  NobodyEnters
    BY <1>1 DEF ThreadsOK, Threads, Reacquire, NobodyEnters
  <1> QED
    BY <1>1 DEF NotifyOne, ThreadsOK, Threads, NobodyEnters

\* notify_all lets no idle thread into the queue.
LEMMA NotifyAllEnters ==
  ASSUME NEW self \in Threads, NotifyAll(self)
  PROVE  NobodyEnters
  BY DEF NotifyAll, Woken, Reacquire, NobodyEnters, Threads

\* The control functions let no idle thread into the queue.
LEMMA ControlEnters ==
  ASSUME ThreadsOK, NEW c \in Controllers, control(c)
  PROVE  NobodyEnters
  <1>0. c \in Threads /\ c \notin Workers
    BY QueueAssumption DEF Threads
  <1>1. CASE RemoveNotify(c)
    BY <1>0, <1>1, NotifyOneEnters DEF RemoveNotify
  <1>2. CASE Start(c) \/ \E p \in Props : RemoveProp(c, p)
    BY <1>0, <1>2 DEF Start, RemoveProp, NobodyEnters, ThreadsOK, Threads
  <1>3. CASE Clear(c) \/ StartNotify(c) \/ \E b \in BOOLEAN : Stop(c, b)
    <2>1. NotifyAll(c)
      BY <1>3 DEF Clear, StartNotify, Stop, clear_inner
    <2> QED
      BY <1>0, <2>1, NotifyAllEnters
  <1> QED
    BY <1>1, <1>2, <1>3 DEF control

\* add_task lets no idle thread into the queue.
LEMMA AddEnters ==
  ASSUME ThreadsOK, NEW a \in Adders, add_task(a)
  PROVE  NobodyEnters
  <1>0. a \in Threads /\ a \notin Workers
    BY QueueAssumption DEF Threads
  <1>1. CASE AddNotify(a)
    BY <1>0, <1>1, NotifyOneEnters DEF AddNotify
  <1>2. CASE ~AddNotify(a)
    BY <1>0, <1>2 DEF add_task, CallAdd, AddWait, AddRefuse, AddInsert, NobodyEnters, ThreadsOK,
         Threads
  <1> QED
    BY <1>1, <1>2

\* The steps of pop_task after its call let no idle thread into the queue.
LEMMA PopEnters ==
  ASSUME ThreadsOK, NEW w \in Workers, pop_task(w), ~CallPop(w)
  PROVE  NobodyEnters
  <1>0. w \in Threads
    BY DEF Threads
  <1>1. CASE PopNotify(w)
    BY <1>0, <1>1, NotifyOneEnters DEF PopNotify
  <1>2. CASE ~PopNotify(w)
    BY <1>0, <1>2 DEF pop_task, PopWait, PopNothing, PopTake, PopFinish, NobodyEnters, ThreadsOK,
         Threads
  <1> QED
    BY <1>1, <1>2

\* A spurious wake lets no idle thread into the queue.
LEMMA SpuriousWakeEnters ==
  ASSUME ThreadsOK, NEW t \in Adders \cup Workers, SpuriousWake(t)
  PROVE  NobodyEnters
  BY DEF SpuriousWake, WakesUp, Reacquire, NobodyEnters, ThreadsOK, Threads

\* A thread enters the queue only when thread_fun calls pop_task.
LEMMA PoolEnters ==
  ASSUME ThreadsOK, BwaitOK, [PoolNext]_<<vars, pool_vars>>
  PROVE  NobodyEnters \/ \E w \in Workers : ThreadPops(w)
  <1>0. UNCHANGED pc => NobodyEnters
    BY DEF NobodyEnters
  <1>1. ASSUME NEW c \in Controllers, pool_start(c)
        PROVE  NobodyEnters
    <2>1. CASE QueueStart(c) \/ QueueStartNotify(c)
      BY <1>0, <2>1, ControlEnters DEF QueueStart, QueueStartNotify, control, vars
    <2>2. CASE CallStart(c) \/ StartTest(c) \/ StartCas(c) \/ CallResetThreadNum(c) \/ create_thread(c)
      BY <1>0, <2>2 DEF CallStart, StartTest, StartCas, CallResetThreadNum, create_thread, vars
    <2> QED
      BY <1>1, <2>1, <2>2 DEF pool_start
  <1>2. ASSUME NEW c \in Controllers, pool_stop(c)
        PROVE  NobodyEnters
    <2>1. CASE QueueStop(c)
      BY <1>0, <2>1, ControlEnters DEF QueueStop, control, vars, BwaitOK
    <2>2. CASE ~QueueStop(c)
      BY <1>0, <1>2, <2>2 DEF pool_stop, CallStop, StopCas, SwapThreads, JoinThreads, ResetStart,
         ResetStop, ResetInit, vars
    <2> QED
      BY <2>1, <2>2
  <1>3. ASSUME NEW c \in Controllers, pool_other(c)
        PROVE  NobodyEnters
    <2>1. CASE CallWait(c) \/ WaitPolls(c)
      BY <1>0, <2>1 DEF CallWait, WaitPolls, vars
    <2>2. CASE ~(CallWait(c) \/ WaitPolls(c))
      BY <1>3, <2>2, ControlEnters DEF pool_other, PoolClear, PoolRemoveProp, PoolRemoveNotify, control
    <2> QED
      BY <2>1, <2>2
  <1>4. ASSUME NEW w \in Workers, thread_fun(w), ~ThreadPops(w)
        PROVE  NobodyEnters
    <2>1. CASE ThreadInPop(w)
      <3>1. pop_task(w) /\ ~CallPop(w)
        BY <2>1 DEF ThreadInPop, pop_task, CallPop, PopWait, PopNothing, PopTake, PopFinish, PopNotify
      <3> QED
        BY <3>1, PopEnters
    <2>2. CASE ThreadEnds(w)
      BY <1>0, <2>2 DEF ThreadEnds, vars
    <2> QED
      BY <1>4, <2>1, <2>2 DEF thread_fun
  <1>5. ASSUME NEW a \in Adders, pool_add_task(a)
        PROVE  NobodyEnters
    BY <1>5, AddEnters DEF pool_add_task, PoolCallAdd, PoolAdd, add_task
  <1>6. ASSUME NEW t \in Adders \cup Workers, PoolSpuriousWake(t)
        PROVE  NobodyEnters
    BY <1>6, SpuriousWakeEnters DEF PoolSpuriousWake
  <1>7. CASE UNCHANGED <<vars, pool_vars>>
    BY <1>0, <1>7 DEF vars
  <1> QED
    BY <1>1, <1>2, <1>3, <1>4, <1>5, <1>6, <1>7 DEF PoolNext

\* A stopped queue that is empty stays empty.
LEMMA StoppedStaysEmpty ==
  ASSUME QueueInv, QueueInv', [Next]_vars, m_bstop, m_wait_props = <<>>
  PROVE  m_bstop' => m_wait_props' = <<>>
  <1>1. ASSUME NEW a \in Adders, AddInsert(a) PROVE FALSE
    BY <1>1 DEF AddInsert
  <1>2. ASSUME NEW w \in Workers, PopTake(w) PROVE FALSE
    BY <1>2 DEF PopTake, Eligible
  <1>3. OnlyDrops
    BY <1>1, <1>2, StepKinds
  <1>4. Range(m_wait_props') \subseteq Range(m_wait_props)
    BY <1>3 DEF OnlyDrops, QueueInv, InSync
  <1>5. Range(m_wait_props) = {}
    BY DEF Range
  <1>6. \A i \in 1 .. Len(m_wait_props') : m_wait_props'[i] \in Range(m_wait_props')
    BY DEF QueueInv, TypeOK, Range
  <1>7. m_wait_props' \in Seq(Props)
    BY DEF QueueInv, TypeOK
  <1>8. Len(m_wait_props') = 0
    BY <1>4, <1>5, <1>6, <1>7
  <1> QED
    BY <1>7, <1>8, EmptySeq

\* A thread in pop_task runs, and stop() will find every thread that runs.
PoolPlaces ==
  /\ m_binit \in BOOLEAN /\ m_bstart \in BOOLEAN /\ sw_bstop \in BOOLEAN
  /\ m_cur_thread_ver \in Nat
  /\ m_cur_threads \subseteq Workers
  /\ thread_ver \in [Workers -> Nat]
  /\ at \in [Controllers -> ControlPC]
  /\ bwait \in [Controllers -> BOOLEAN]
  /\ tmp_threads \in [Controllers -> SUBSET Workers]
  /\ \A w \in Workers : pc[w] # "out" => thread_ver[w] # 0
  /\ \A w \in Workers : thread_ver[w] # 0 =>
       w \in m_cur_threads \/ \E c \in Controllers : w \in tmp_threads[c]
  /\ \A c \in Controllers : at[c] # "join" => tmp_threads[c] = {}

\* Threads appear in create_thread and disappear at the end of thread_fun.
LEMMA ThreadsComeAndGo ==
  ASSUME [PoolNext]_<<vars, pool_vars>>
  PROVE  \/ UNCHANGED thread_ver
         \/ \E c \in Controllers : create_thread(c)
         \/ \E w \in Workers : ThreadEnds(w)
  <1>1. ASSUME NEW c \in Controllers, pool_start(c), ~create_thread(c) PROVE UNCHANGED thread_ver
    BY <1>1 DEF pool_start, CallStart, StartTest, StartCas, QueueStart, QueueStartNotify,
       CallResetThreadNum, threads, pool_vars
  <1>2. ASSUME NEW c \in Controllers, pool_stop(c) PROVE UNCHANGED thread_ver
    BY <1>2 DEF pool_stop, CallStop, StopCas, QueueStop, SwapThreads, JoinThreads, ResetStart,
       ResetStop, ResetInit, threads
  <1>3. ASSUME NEW c \in Controllers, pool_other(c) PROVE UNCHANGED thread_ver
    BY <1>3 DEF pool_other, PoolClear, PoolRemoveProp, PoolRemoveNotify, CallWait, WaitPolls,
       threads, pool_vars
  <1>4. ASSUME NEW w \in Workers, thread_fun(w), ~ThreadEnds(w) PROVE UNCHANGED thread_ver
    BY <1>4 DEF thread_fun, ThreadPops, ThreadInPop, threads, pool_vars
  <1>5. ASSUME \/ \E a \in Adders : pool_add_task(a)
               \/ \E t \in Adders \cup Workers : PoolSpuriousWake(t)
               \/ UNCHANGED <<vars, pool_vars>>
        PROVE  UNCHANGED thread_ver
    BY <1>5 DEF pool_add_task, PoolCallAdd, PoolAdd, PoolSpuriousWake, threads, pool_vars
  <1> QED
    BY <1>1, <1>2, <1>3, <1>4, <1>5 DEF PoolNext

\* A thread inside pop_task belongs to a pool that was started.
LEMMA PopRunsStep ==
  ASSUME PoolPlaces, ThreadsOK, [PoolNext]_<<vars, pool_vars>>
  PROVE  \A w \in Workers : pc'[w] # "out" => thread_ver'[w] # 0
  <1>0. PoolPlaces /\ BwaitOK
    BY DEF PoolPlaces, BwaitOK
  <1>1. CASE NobodyEnters /\ UNCHANGED thread_ver
    BY <1>0, <1>1 DEF NobodyEnters, PoolPlaces
  <1>2. ASSUME NEW w \in Workers, ThreadPops(w)
        PROVE  \A v \in Workers : pc'[v] # "out" => thread_ver'[v] # 0
    BY <1>0, <1>2 DEF ThreadPops, AtLoopHead, CallPop, pool_vars, threads, PoolPlaces, ThreadsOK
  <1>3. ASSUME NEW c \in Controllers, create_thread(c)
        PROVE  \A v \in Workers : pc'[v] # "out" => thread_ver'[v] # 0
    BY <1>0, <1>3 DEF create_thread, vars, PoolPlaces
  <1>4. ASSUME NEW w \in Workers, ThreadEnds(w)
        PROVE  \A v \in Workers : pc'[v] # "out" => thread_ver'[v] # 0
    BY <1>0, <1>4 DEF ThreadEnds, AtLoopHead, vars, PoolPlaces
  <1> QED
    BY <1>0, <1>1, <1>2, <1>3, <1>4, PoolEnters, ThreadsComeAndGo

\* PoolPlaces is inductive: create_thread puts every thread it makes into m_cur_threads, and
\* stop() takes over the whole set.
LEMMA PoolPlacesStep ==
  ASSUME PoolPlaces, ThreadsOK, [PoolNext]_<<vars, pool_vars>>
  PROVE  PoolPlaces'
  <1>0. \A w \in Workers : pc'[w] # "out" => thread_ver'[w] # 0
    BY PopRunsStep
  <1> USE <1>0 DEF PoolPlaces, Goto, ControlPC, control_vars, switch, threads
  <1>1. ASSUME NEW c \in Controllers, create_thread(c)
        PROVE  PoolPlaces'
    <2>1. PICK new \in SUBSET FreePlaces :
             /\ m_cur_threads' = m_cur_threads \cup new
             /\ thread_ver' = [w \in Workers |-> IF w \in new THEN m_cur_thread_ver + 1
                                                              ELSE thread_ver[w]]
      BY <1>1 DEF create_thread
    <2>2. new \subseteq Workers
      BY <2>1 DEF FreePlaces
    <2>3. /\ m_cur_thread_ver' = m_cur_thread_ver + 1 /\ at' = [at EXCEPT ![c] = "out"]
          /\ at[c] = "create"
          /\ UNCHANGED <<switch, bwait, tmp_threads>>
      BY <1>1 DEF create_thread
    <2> QED
      BY <2>1, <2>2, <2>3
  <1>2. ASSUME NEW c \in Controllers, pool_start(c), ~create_thread(c)
        PROVE  PoolPlaces'
    <2>1. CASE CallStart(c)
      BY <2>1 DEF CallStart, MayCall
    <2>2. CASE StartTest(c)
      BY <2>2 DEF StartTest
    <2>3. CASE StartCas(c)
      BY <2>3 DEF StartCas
    <2>4. CASE QueueStart(c)
      BY <2>4 DEF QueueStart
    <2>5. CASE QueueStartNotify(c) \/ CallResetThreadNum(c)
      BY <2>5 DEF QueueStartNotify, CallResetThreadNum, MayCall, pool_vars
    <2> QED
      BY <1>2, <2>1, <2>2, <2>3, <2>4, <2>5 DEF pool_start
  <1>3. ASSUME NEW c \in Controllers, pool_stop(c)
        PROVE  PoolPlaces'
    <2>1. CASE CallStop(c)
      BY <2>1 DEF CallStop, MayCall
    <2>4. CASE StopCas(c)
      BY <2>4 DEF StopCas
    <2>5. CASE QueueStop(c)
      BY <2>5 DEF QueueStop
    <2>6. CASE ResetStart(c) \/ ResetStop(c) \/ ResetInit(c)
      BY <2>6 DEF ResetStart, ResetStop, ResetInit
    <2>2. CASE SwapThreads(c)
      BY <2>2 DEF SwapThreads
    <2>3. CASE JoinThreads(c)
      BY <2>3 DEF JoinThreads
    <2> QED
      BY <1>3, <2>1, <2>2, <2>3, <2>4, <2>5, <2>6 DEF pool_stop
  <1>4. ASSUME NEW c \in Controllers, pool_other(c)
        PROVE  PoolPlaces'
    <2>1. CASE CallWait(c)
      BY <2>1 DEF CallWait, MayCall
    <2>2. CASE WaitPolls(c)
      BY <2>2 DEF WaitPolls
    <2>3. CASE ~(CallWait(c) \/ WaitPolls(c))
      BY <1>4, <2>3 DEF pool_other, PoolClear, PoolRemoveProp, PoolRemoveNotify, pool_vars
    <2> QED
      BY <2>1, <2>2, <2>3
  <1>5. ASSUME NEW w \in Workers, thread_fun(w)
        PROVE  PoolPlaces'
    <2>1. CASE ThreadEnds(w)
      BY <2>1 DEF ThreadEnds
    <2>2. CASE ~ThreadEnds(w)
      BY <1>5, <2>2 DEF thread_fun, ThreadPops, ThreadInPop, pool_vars
    <2> QED
      BY <2>1, <2>2
  <1>6. ASSUME \/ \E a \in Adders : pool_add_task(a)
               \/ \E t \in Adders \cup Workers : PoolSpuriousWake(t)
               \/ UNCHANGED <<vars, pool_vars>>
        PROVE  PoolPlaces'
    BY <1>6 DEF pool_add_task, PoolCallAdd, PoolAdd, PoolSpuriousWake, pool_vars
  <1> QED
    BY <1>1, <1>2, <1>3, <1>4, <1>5, <1>6 DEF PoolNext

\* PoolPlaces holds initially.
LEMMA PoolPlacesInit == PoolInit => PoolPlaces
  <1> SUFFICES ASSUME PoolInit PROVE PoolPlaces
    OBVIOUS
  <1>1. \A w \in Workers : pc[w] = "out" /\ thread_ver[w] = 0
    BY DEF PoolInit, Init, Threads
  <1>2. thread_ver \in [Workers -> Nat] /\ at \in [Controllers -> ControlPC]
    BY DEF PoolInit, ControlPC
  <1>3. bwait \in [Controllers -> BOOLEAN] /\ tmp_threads \in [Controllers -> SUBSET Workers]
    BY DEF PoolInit
  <1>4. \A c \in Controllers : tmp_threads[c] = {}
    BY DEF PoolInit
  <1> QED
    BY <1>1, <1>2, <1>3, <1>4 DEF PoolInit, PoolPlaces

\* PoolPlaces holds in every reachable state.
LEMMA PoolPlacesHold == PoolSpec => []PoolPlaces
  <1>1. PoolPlaces /\ TypeOK /\ [PoolNext]_<<vars, pool_vars>> => PoolPlaces'
    BY PoolPlacesStep DEF TypeOK
  <1> QED
    BY <1>1, PoolPlacesInit, PoolImplementsQueue, TypeCorrect, PTL DEF PoolSpec, PoolIsQueue

\* Every thread that is in pop_task runs, and every thread that runs is where stop() finds
\* it, whoever calls start, stop and reset_thread_num.
THEOREM PoolTypeCorrect == PoolSpec => []PoolTypeOK
  <1>1. PoolPlaces /\ TypeOK => PoolTypeOK
    BY DEF PoolPlaces, PoolTypeOK
  <1> QED
    BY <1>1, PoolPlacesHold, PoolImplementsQueue, TypeCorrect, PTL DEF PoolIsQueue

------------------------------------------------------------------------------
(* What the pool's owner knows while it is the only one.                   *)

Idle(c) == at[c] \in {"out", "waiting"}

\* The place of a controller in start, stop or reset_thread_num tells the values of the
\* switch, and from the stop of the queue on what waits in it.
PlaceTells(c) ==
  /\ at[c] \in {"start_test", "start_cas"} => m_binit /\ ~m_bstart /\ ~sw_bstop
  /\ at[c] \in {"queue_start", "create", "stop_cas"} => m_binit /\ m_bstart /\ ~sw_bstop
  /\ at[c] \in {"queue_stop", "swap", "join", "reset_start"} => m_binit /\ m_bstart /\ sw_bstop
  /\ at[c] = "reset_stop" => m_binit /\ ~m_bstart /\ sw_bstop
  /\ at[c] = "reset_init" => m_binit /\ ~m_bstart /\ ~sw_bstop
  /\ at[c] \in {"create", "stop_cas", "queue_stop"} => ~m_bstop
  /\ at[c] \in {"swap", "join"} \/ Joined(c) => m_bstop /\ (~bwait[c] => m_wait_props = <<>>)
  /\ at[c] = "join" \/ Joined(c) => m_cur_threads = {}

NoThreads == \A w \in Workers : thread_ver[w] = 0

OwnerInv ==
  /\ \A c \in Controllers : ~Idle(c) => Calls[c] \cap Lifecycle # {}
  /\ \A c \in Controllers : PlaceTells(c)
  /\ (\A c \in Controllers : Idle(c)) => (m_bstart <=> m_binit) /\ ~sw_bstop /\ (m_binit => ~m_bstop)
  /\ ~m_binit => NoThreads
  /\ \A c \in Controllers :
       at[c] \in {"start_test", "start_cas", "queue_start"} \/ Joined(c) => NoThreads
  /\ SomeThreadServes

\* With one owner, nobody else is inside start, stop or reset_thread_num meanwhile.
LEMMA OthersAreIdle ==
  ASSUME OneOwner, OwnerInv, PoolPlaces, NEW c \in Controllers,
         ~Idle(c) \/ Calls[c] \cap Lifecycle # {}
  PROVE  \A d \in Controllers : d # c => Idle(d)
  BY DEF OneOwner, OwnerInv, Lifecycle

\* A step that moves no controller into or out of start, stop and reset_thread_num.
LEMMA OwnerInvFrame ==
  ASSUME OwnerInv, UNCHANGED <<switch, m_cur_thread_ver, m_cur_threads, thread_ver, bwait, m_bstop>>,
         m_bstop /\ m_wait_props = <<>> => m_wait_props' = <<>>,
         \A c \in Controllers : at'[c] = at[c] \/ (Idle(c) /\ at'[c] \in {"out", "waiting"})
  PROVE  OwnerInv'
  <1>1. \A c \in Controllers : PlaceTells(c)'
    BY DEF OwnerInv, PlaceTells, Joined, Idle, switch
  <1>2. SomeThreadServes'
    BY DEF OwnerInv, SomeThreadServes, has_started, Idle, switch
  <1> QED
    BY <1>1, <1>2 DEF OwnerInv, Joined, Idle, NoThreads, switch

\* What has to be shown of c when the other controllers are idle.
OwnerTells(c) ==
  /\ ~Idle(c) => Calls[c] \cap Lifecycle # {}
  /\ PlaceTells(c)
  /\ Idle(c) => (m_bstart <=> m_binit) /\ ~sw_bstop /\ (m_binit => ~m_bstop)
  /\ ~m_binit \/ at[c] \in {"start_test", "start_cas", "queue_start"} \/ Joined(c) => NoThreads
  /\ has_started /\ at[c] \notin {"queue_start", "create"} =>
       \E w \in Workers : thread_ver[w] # 0 /\ thread_ver[w] = m_cur_thread_ver

\* A step of the owner, the other controllers idle, has to be checked for the owner alone.
LEMMA OneActs ==
  ASSUME OwnerInv, NEW c \in Controllers, \A d \in Controllers : d # c => Idle(d),
         PoolPlaces, at' = [at EXCEPT ![c] = at'[c]], OwnerTells(c)'
  PROVE  OwnerInv'
  <1>1. \A d \in Controllers : d # c => at'[d] = at[d] /\ Idle(d)
    BY DEF PoolPlaces
  <1>2. \A d \in Controllers : d # c => PlaceTells(d)'
    BY <1>1 DEF Idle, PlaceTells, Joined
  <1>3. SomeThreadServes'
    BY <1>1 DEF OwnerTells, SomeThreadServes, Idle
  <1> QED
    BY <1>1, <1>2, <1>3 DEF OwnerTells, OwnerInv, Idle, Joined

\* What OwnerInv says of the owner while the others are idle.
LEMMA AllTell ==
  ASSUME OwnerInv, NEW c \in Controllers, \A d \in Controllers : d # c => Idle(d)
  PROVE  OwnerTells(c)
  BY DEF OwnerInv, OwnerTells, SomeThreadServes, Idle

\* start() and reset_thread_num(), each step of them, keep OwnerInv.
LEMMA StartKeepsOwnerInv ==
  ASSUME OneOwner, OwnerInv, PoolPlaces, PoolPlaces', NEW c \in Controllers, pool_start(c)
  PROVE  OwnerInv'
  <1>0. ~QueueStartNotify(c) => \A d \in Controllers : d # c => Idle(d)
    <2>1. ~QueueStartNotify(c) => ~Idle(c) \/ Calls[c] \cap Lifecycle # {}
      BY DEF pool_start, CallStart, StartTest, StartCas, QueueStart, CallResetThreadNum,
         create_thread, MayCall, Lifecycle, Idle
    <2> QED
      BY <2>1, OthersAreIdle
  <1>1. ~QueueStartNotify(c) => OwnerTells(c) /\ at' = [at EXCEPT ![c] = at'[c]]
    <2>1. ~QueueStartNotify(c) => at' = [at EXCEPT ![c] = at'[c]]
      BY DEF pool_start, CallStart, StartTest, StartCas, QueueStart, CallResetThreadNum,
         create_thread, Goto, PoolPlaces
    <2> QED
      BY <1>0, <2>1, AllTell
  <1>2. ASSUME ~QueueStartNotify(c), OwnerTells(c) => OwnerTells(c)'
        PROVE  OwnerInv'
    BY <1>0, <1>1, <1>2, OneActs
  <1> USE DEF OwnerTells, PlaceTells, has_started, Joined, Idle, NoThreads, Goto, switch, threads,
              PoolPlaces, Lifecycle
  <1>3. CASE QueueStartNotify(c)
    BY <1>3, OwnerInvFrame DEF QueueStartNotify, StartNotify, pool_vars, control_vars, threads, queue
  <1>4. CASE CallStart(c) /\ ~QueueStartNotify(c)
    BY <1>2, <1>4 DEF CallStart, MayCall
  <1>5. CASE StartTest(c) /\ ~QueueStartNotify(c)
    BY <1>2, <1>5 DEF StartTest
  <1>6. CASE StartCas(c) /\ ~QueueStartNotify(c)
    BY <1>2, <1>6 DEF StartCas
  <1>7. CASE QueueStart(c) /\ ~QueueStartNotify(c)
    BY <1>2, <1>7 DEF QueueStart, Start, queue, vars
  <1>8. CASE CallResetThreadNum(c) /\ ~QueueStartNotify(c)
    BY <1>2, <1>8 DEF CallResetThreadNum, MayCall, vars
  <1>9. CASE create_thread(c) /\ ~QueueStartNotify(c)
    <2>1. PICK new \in SUBSET FreePlaces :
             /\ Cardinality(new) \in ThreadNums
             /\ thread_ver' = [w \in Workers |-> IF w \in new THEN m_cur_thread_ver + 1
                                                              ELSE thread_ver[w]]
      BY <1>9 DEF create_thread
    <2>2. PICK v \in Workers : v \in new
      BY <2>1, FS_EmptySet, PoolAssumption DEF FreePlaces
    <2>3. thread_ver'[v] = m_cur_thread_ver + 1 /\ m_cur_thread_ver' = m_cur_thread_ver + 1
      BY <1>9, <2>1, <2>2 DEF create_thread
    <2>4. thread_ver'[v] # 0 /\ thread_ver'[v] = m_cur_thread_ver'
      BY <2>3
    <2> QED
      BY <1>2, <1>9, <2>2, <2>4 DEF create_thread, vars
  <1> QED
    BY <1>3, <1>4, <1>5, <1>6, <1>7, <1>8, <1>9 DEF pool_start

\* stop() keeps OwnerInv: it joins all the threads before it resets the switch.
LEMMA StopKeepsOwnerInv ==
  ASSUME OneOwner, OwnerInv, PoolPlaces, PoolPlaces', NEW c \in Controllers, pool_stop(c)
  PROVE  OwnerInv'
  <1>0. \A d \in Controllers : d # c => Idle(d)
    <2>1. ~Idle(c) \/ Calls[c] \cap Lifecycle # {}
      BY DEF pool_stop, CallStop, StopCas, QueueStop, SwapThreads, JoinThreads, ResetStart,
         ResetStop, ResetInit, MayCall, Lifecycle, Idle
    <2> QED
      BY <2>1, OthersAreIdle
  <1>1. OwnerTells(c) /\ at' = [at EXCEPT ![c] = at'[c]]
    <2>1. at' = [at EXCEPT ![c] = at'[c]]
      BY DEF pool_stop, CallStop, StopCas, QueueStop, SwapThreads, JoinThreads, ResetStart,
         ResetStop, ResetInit, Goto, PoolPlaces
    <2> QED
      BY <1>0, <2>1, AllTell
  <1>2. OwnerTells(c)' => OwnerInv'
    BY <1>0, <1>1, OneActs
  <1> USE <1>1, <1>2
      DEF OwnerTells, PlaceTells, has_started, Joined, Idle, NoThreads, Goto, switch, threads,
          PoolPlaces, Lifecycle
  <1>3. CASE CallStop(c)
    BY <1>3 DEF CallStop, MayCall, vars
  <1>4. CASE StopCas(c)
    BY <1>4 DEF StopCas, vars
  <1>5. CASE QueueStop(c)
    BY <1>5 DEF QueueStop, Stop, clear_inner, queue
  <1>6. CASE SwapThreads(c)
    BY <1>6 DEF SwapThreads, vars, queue
  <1>7. CASE JoinThreads(c)
    <2>1. \A w \in Workers : thread_ver[w] = 0
      <3>1. m_cur_threads = {} /\ \A d \in Controllers : d # c => tmp_threads[d] = {}
        BY <1>0, <1>7 DEF JoinThreads
      <3> QED
        BY <1>7, <3>1 DEF JoinThreads
    <2> QED
      BY <1>7, <2>1 DEF JoinThreads, vars, queue
  <1>8. CASE ResetStart(c) \/ ResetStop(c) \/ ResetInit(c)
    BY <1>8 DEF ResetStart, ResetStop, ResetInit, vars, queue
  <1> QED
    BY <1>3, <1>4, <1>5, <1>6, <1>7, <1>8 DEF pool_stop

\* A thread ends only after a stop or when reset_thread_num has made it obsolete.
LEMMA ThreadEndKeepsOwnerInv ==
  ASSUME OwnerInv, PoolPlaces, NEW w \in Workers, ThreadEnds(w)
  PROVE  OwnerInv'
  <1>1. /\ UNCHANGED <<switch, m_cur_thread_ver, m_cur_threads, at, bwait, m_bstop, m_wait_props>>
        /\ thread_ver' = [thread_ver EXCEPT ![w] = 0]
        /\ has_stoped \/ thread_ver[w] < m_cur_thread_ver
    BY DEF ThreadEnds, LeavesLoop, control_vars, vars, queue
  <1>2. \A c \in Controllers : PlaceTells(c)'
    BY <1>1 DEF OwnerInv, PlaceTells, Joined, switch
  <1>3. NoThreads => NoThreads'
    BY <1>1 DEF NoThreads, PoolPlaces
  <1>4. SomeThreadServes'
    BY <1>1 DEF OwnerInv, SomeThreadServes, has_started, has_stoped, switch, PoolPlaces
  <1> QED
    BY <1>1, <1>2, <1>3, <1>4 DEF OwnerInv, Joined, Idle, switch

\* OwnerInv is inductive.
LEMMA OwnerInvStep ==
  ASSUME OneOwner, OwnerInv, PoolPlaces, PoolPlaces', QueueInv, QueueInv',
         [PoolNext]_<<vars, pool_vars>>
  PROVE  OwnerInv'
  <1>1. m_bstop /\ m_bstop' /\ m_wait_props = <<>> => m_wait_props' = <<>>
    BY StoppedStaysEmpty, PoolStepIsQueueStep DEF PoolPlaces, BwaitOK
  <1>2. ASSUME UNCHANGED <<switch, m_cur_thread_ver, m_cur_threads, thread_ver, bwait, m_bstop>>,
               \A c \in Controllers : at'[c] = at[c] \/ (Idle(c) /\ at'[c] \in {"out", "waiting"})
        PROVE  OwnerInv'
    BY <1>1, <1>2, OwnerInvFrame
  <1>3. ASSUME NEW c \in Controllers, pool_other(c)
        PROVE  OwnerInv'
    <2>1. UNCHANGED <<switch, m_cur_thread_ver, m_cur_threads, thread_ver, bwait, m_bstop>>
      BY <1>3 DEF pool_other, PoolClear, PoolRemoveProp, PoolRemoveNotify, CallWait, WaitPolls,
         Clear, RemoveProp, RemoveNotify, pool_vars, control_vars, threads, vars
    <2>2. \A d \in Controllers : at'[d] = at[d] \/ (Idle(d) /\ at'[d] \in {"out", "waiting"})
      BY <1>3 DEF pool_other, PoolClear, PoolRemoveProp, PoolRemoveNotify, CallWait, WaitPolls,
         MayCall, Goto, Idle, pool_vars, control_vars, PoolPlaces
    <2> QED
      BY <1>2, <2>1, <2>2
  <1>4. ASSUME \/ \E w \in Workers : thread_fun(w) /\ ~ThreadEnds(w)
               \/ \E a \in Adders : pool_add_task(a)
               \/ \E t \in Adders \cup Workers : PoolSpuriousWake(t)
               \/ UNCHANGED <<vars, pool_vars>>
        PROVE  OwnerInv'
    <2>1. UNCHANGED pool_vars
      BY <1>4 DEF thread_fun, ThreadPops, ThreadInPop, pool_add_task, PoolCallAdd, PoolAdd,
         PoolSpuriousWake
    <2>2. UNCHANGED m_bstop
      BY <1>4 DEF thread_fun, ThreadPops, ThreadInPop, pool_add_task, PoolCallAdd, PoolAdd,
         PoolSpuriousWake, CallPop, PopWait, PopNothing, PopTake, PopFinish, PopNotify, CallAdd,
         AddWait, AddRefuse, AddInsert, AddNotify, SpuriousWake, vars
    <2> QED
      BY <1>2, <2>1, <2>2 DEF pool_vars, threads, control_vars
  <1> QED
    BY <1>3, <1>4, StartKeepsOwnerInv, StopKeepsOwnerInv, ThreadEndKeepsOwnerInv DEF PoolNext

\* OwnerInv holds in every reachable state.
LEMMA OwnerInvHolds ==
  ASSUME OneOwner
  PROVE  PoolSpec => []OwnerInv
  <1>1. PoolInit => PoolPlaces /\ OwnerInv
    <2> SUFFICES ASSUME PoolInit PROVE PoolPlaces /\ OwnerInv
      OBVIOUS
    <2>1. \A c \in Controllers : at[c] = "out"
      BY DEF PoolInit
    <2>2. NoThreads
      BY DEF PoolInit, NoThreads
    <2>3. OwnerInv
      BY <2>1, <2>2 DEF PoolInit, OwnerInv, Idle, PlaceTells, Joined, SomeThreadServes, has_started
    <2> QED
      BY <2>3, PoolPlacesInit
  <1>2. OwnerInv /\ PoolPlaces /\ PoolPlaces' /\ QueueInv /\ QueueInv' /\ [PoolNext]_<<vars, pool_vars>>
        => OwnerInv'
    BY OwnerInvStep
  <1> QED
    BY <1>1, <1>2, PoolPlacesHold, PoolImplementsQueue, QueueInvHolds, PTL DEF PoolSpec, PoolIsQueue

\* When the owner's stop() has joined, no thread of the pool runs and no task is being run,
\* and without bwait nothing waits: what was waiting is dropped.
THEOREM StopJoins ==
  ASSUME OneOwner
  PROVE  PoolSpec => []StopJoinsAll
  <1>1. OwnerInv /\ PoolPlaces /\ OneThreadPerProp => StopJoinsAll
    <2> SUFFICES ASSUME OwnerInv, PoolPlaces, OneThreadPerProp PROVE StopJoinsAll
      OBVIOUS
    <2>1. ASSUME (\E c \in Controllers : Joined(c)) \/ ~m_binit
          PROVE  (\A w \in Workers : thread_ver[w] = 0) /\ m_cur_pop_props = {}
      <3>1. \A w \in Workers : thread_ver[w] = 0
        BY <2>1 DEF OwnerInv, NoThreads
      <3>2. \A w \in Workers : pc[w] = "out"
        BY <3>1 DEF PoolPlaces
      <3> QED
        BY <3>1, <3>2 DEF OneThreadPerProp
    <2> QED
      BY <2>1 DEF StopJoinsAll, OwnerInv, PlaceTells
  <1> QED
    BY <1>1, OwnerInvHolds, PoolPlacesHold, PoolPropsRunSerially, PTL

\* A started pool has a thread of the newest version that runs: neither a resize nor a stop
\* that overlaps with clear, remove_prop or wait leaves it without one.
THEOREM PoolIsServed ==
  ASSUME OneOwner
  PROVE  PoolSpec => []SomeThreadServes
  BY OwnerInvHolds, PTL DEF OwnerInv
==============================================================================
