------------------------------ MODULE TaskPool ------------------------------
(***************************************************************************)
(* BTool::TaskPoolBase (task_pool.hpp) over a LastTaskQueue, that is the   *)
(* class LastTaskPool: an AtomicSwitch (atomic_switch.hpp) that guards     *)
(* start and stop, the queue, and the SafeThreads that run thread_fun.     *)
(*                                                                         *)
(* The module extends the queue: its Adders call LastTaskPool::add_task,   *)
(* its Workers are the places of SafeThread objects, and its Controllers   *)
(* call the pool's other functions.  at[c] is the place a controller has   *)
(* reached in the pool's code; pc[t] stays the place of a thread in the    *)
(* queue's code.  Calls that return at once and change nothing (start of a *)
(* pool that is initialised, stop of one that is not started, ...) are not *)
(* steps.                                                                  *)
(***************************************************************************)
EXTENDS LastTaskQueue

CONSTANTS
  Calls,        \* the functions of the pool each controller calls
  ThreadNums,   \* the values of thread_num
  MaxVersion    \* bound of the model: calls of create_thread

PoolFunctions == {"start", "stop", "reset_thread_num", "clear", "remove_prop", "wait"}

ASSUME PoolAssumption ==
  /\ Calls \in [Controllers -> SUBSET PoolFunctions]
  /\ ThreadNums \subseteq Nat \ {0}
  /\ MaxVersion \in Nat

\* One thread calls start, stop and reset_thread_num, the pool's owner: the three take
\* no lock that would keep two of them apart.
Lifecycle == {"start", "stop", "reset_thread_num"}
OneOwner ==
  \A c, d \in Controllers : Calls[c] \cap Lifecycle # {} /\ Calls[d] \cap Lifecycle # {} => c = d

VARIABLES
  m_binit, m_bstart, sw_bstop,  \* the AtomicSwitch; sw_bstop is its m_bstop
  m_cur_thread_ver,             \* version number of the newest threads
  m_cur_threads,                \* the SafeThreads that stop() will join
  thread_ver,                   \* version each running thread was made with; 0: not running
  at,                           \* where each controller is in the pool's code
  bwait,                        \* argument of the stop() a controller is in
  tmp_threads                   \* the threads a controller's stop() has swapped out

switch  == <<m_binit, m_bstart, sw_bstop>>
threads == <<m_cur_thread_ver, m_cur_threads, thread_ver>>
control_vars == <<at, bwait, tmp_threads>>
pool_vars == <<switch, threads, control_vars>>

ControlPC == {"out", "start_test", "start_cas", "queue_start", "create",
              "stop_cas", "queue_stop", "swap", "join",
              "reset_start", "reset_stop", "reset_init", "waiting"}

------------------------------------------------------------------------------
(* The switch.  The three loads of has_started and of has_stoped are one   *)
(* step; the test and the compare_exchange of start() and stop() are two.  *)

has_started == ~sw_bstop /\ m_bstart /\ m_binit
has_stoped  == ~m_binit \/ ~m_bstart \/ sw_bstop

Goto(c, place) == at' = [at EXCEPT ![c] = place]

\* c is outside every call, and function f is one it calls.
MayCall(c, f) == at[c] = "out" /\ pc[c] = "out" /\ f \in Calls[c]

------------------------------------------------------------------------------
(* start and reset_thread_num                                              *)

\* m_atomic_switch.init()
CallStart(c) ==
  /\ MayCall(c, "start")
  /\ m_cur_thread_ver < MaxVersion
  /\ ~m_binit
  /\ m_binit' = TRUE
  /\ Goto(c, "start_test")
  /\ UNCHANGED <<vars, m_bstart, sw_bstop, threads, bwait, tmp_threads>>

\* m_atomic_switch.start(): the two loads, then the compare_exchange.
StartTest(c) ==
  /\ at[c] = "start_test"
  /\ Goto(c, IF sw_bstop \/ ~m_binit THEN "out" ELSE "start_cas")
  /\ UNCHANGED <<vars, switch, threads, bwait, tmp_threads>>

StartCas(c) ==
  /\ at[c] = "start_cas"
  /\ m_bstart' = TRUE
  /\ Goto(c, IF m_bstart THEN "out" ELSE "queue_start")
  /\ UNCHANGED <<vars, m_binit, sw_bstop, threads, bwait, tmp_threads>>

\* m_task_queue.start(), which does nothing when the queue is not stopped.
QueueStart(c) ==
  /\ at[c] = "queue_start"
  /\ Start(c) \/ (~m_bstop /\ UNCHANGED vars)
  /\ Goto(c, "create")
  /\ UNCHANGED <<switch, threads, bwait, tmp_threads>>

QueueStartNotify(c) ==
  /\ StartNotify(c)
  /\ UNCHANGED pool_vars

\* Places without a SafeThread object: the model has room for Workers of them.
FreePlaces ==
  {w \in Workers : thread_ver[w] = 0 /\ w \notin m_cur_threads
                   /\ \A c \in Controllers : w \notin tmp_threads[c]}

CallResetThreadNum(c) ==
  /\ MayCall(c, "reset_thread_num")
  /\ m_cur_thread_ver < MaxVersion
  /\ FreePlaces # {}
  /\ has_started
  /\ Goto(c, "create")
  /\ UNCHANGED <<vars, switch, threads, bwait, tmp_threads>>

\* Forgets to push the new threads to m_cur_threads.
Badcreate_thread(c) ==
  /\ at[c] = "create"
  /\ pc[c] = "out"
  /\ m_cur_thread_ver' = m_cur_thread_ver + 1
  /\ \E new \in SUBSET FreePlaces :
       /\ Cardinality(new) \in ThreadNums
       /\ thread_ver' = [w \in Workers |-> IF w \in new THEN m_cur_thread_ver + 1
                                                        ELSE thread_ver[w]]
  /\ Goto(c, "out")
  /\ UNCHANGED <<vars, switch, m_cur_threads, bwait, tmp_threads>>

\* create_thread, all of it under m_threads_mtx.
create_thread(c) ==
  /\ at[c] = "create"
  /\ pc[c] = "out"
  /\ m_cur_thread_ver' = m_cur_thread_ver + 1
  /\ \E new \in SUBSET FreePlaces :
       /\ Cardinality(new) \in ThreadNums
       /\ m_cur_threads' = m_cur_threads \cup new
       /\ thread_ver' = [w \in Workers |-> IF w \in new THEN m_cur_thread_ver + 1
                                                        ELSE thread_ver[w]]
  /\ Goto(c, "out")
  /\ UNCHANGED <<vars, switch, bwait, tmp_threads>>

------------------------------------------------------------------------------
(* stop                                                                    *)

\* m_atomic_switch.stop(): the two loads, then the compare_exchange.
CallStop(c) ==
  /\ MayCall(c, "stop")
  /\ m_binit /\ m_bstart
  /\ \E b \in BOOLEAN : bwait' = [bwait EXCEPT ![c] = b]
  /\ Goto(c, "stop_cas")
  /\ UNCHANGED <<vars, switch, threads, tmp_threads>>

StopCas(c) ==
  /\ at[c] = "stop_cas"
  /\ sw_bstop' = TRUE
  /\ Goto(c, IF sw_bstop THEN "out" ELSE "queue_stop")
  /\ UNCHANGED <<vars, m_binit, m_bstart, threads, bwait, tmp_threads>>

\* Does not stop the queue.
BadQueueStopNone(c) ==
  /\ at[c] = "queue_stop"
  /\ Goto(c, "swap")
  /\ UNCHANGED <<vars, switch, threads, bwait, tmp_threads>>

\* m_task_queue.stop(bwait), which does nothing when the queue is stopped.
QueueStop(c) ==
  /\ at[c] = "queue_stop"
  /\ Stop(c, bwait[c]) \/ (m_bstop /\ MutexFree /\ UNCHANGED vars)
  /\ Goto(c, "swap")
  /\ UNCHANGED <<switch, threads, bwait, tmp_threads>>

SwapThreads(c) ==
  /\ at[c] = "swap"
  /\ tmp_threads' = [tmp_threads EXCEPT ![c] = m_cur_threads]
  /\ m_cur_threads' = {}
  /\ Goto(c, "join")
  /\ UNCHANGED <<vars, switch, m_cur_thread_ver, thread_ver, bwait>>

\* Detaches the threads.
BadJoinThreads(c) ==
  /\ at[c] = "join"
  /\ tmp_threads' = [tmp_threads EXCEPT ![c] = {}]
  /\ Goto(c, "reset_start")
  /\ UNCHANGED <<vars, switch, threads, bwait>>

\* delete joins the thread: the loop is over when the last one has ended.
JoinThreads(c) ==
  /\ at[c] = "join"
  /\ \A w \in tmp_threads[c] : thread_ver[w] = 0
  /\ tmp_threads' = [tmp_threads EXCEPT ![c] = {}]
  /\ Goto(c, "reset_start")
  /\ UNCHANGED <<vars, switch, threads, bwait>>

\* m_atomic_switch.reset(): three stores.
ResetStart(c) ==
  /\ at[c] = "reset_start"
  /\ m_bstart' = FALSE
  /\ Goto(c, "reset_stop")
  /\ UNCHANGED <<vars, m_binit, sw_bstop, threads, bwait, tmp_threads>>

ResetStop(c) ==
  /\ at[c] = "reset_stop"
  /\ sw_bstop' = FALSE
  /\ Goto(c, "reset_init")
  /\ UNCHANGED <<vars, m_binit, m_bstart, threads, bwait, tmp_threads>>

ResetInit(c) ==
  /\ at[c] = "reset_init"
  /\ m_binit' = FALSE
  /\ Goto(c, "out")
  /\ UNCHANGED <<vars, m_bstart, sw_bstop, threads, bwait, tmp_threads>>

------------------------------------------------------------------------------
(* clear, wait, remove_prop and add_task                                   *)

PoolClear(c) ==
  /\ MayCall(c, "clear")
  /\ Clear(c)
  /\ UNCHANGED pool_vars

PoolRemoveProp(c, p) ==
  /\ MayCall(c, "remove_prop")
  /\ RemoveProp(c, p)
  /\ UNCHANGED pool_vars

PoolRemoveNotify(c) ==
  /\ RemoveNotify(c)
  /\ UNCHANGED pool_vars

CallWait(c) ==
  /\ MayCall(c, "wait")
  /\ Goto(c, "waiting")
  /\ UNCHANGED <<vars, switch, threads, bwait, tmp_threads>>

\* One turn of the loop of wait(), which polls empty().
WaitPolls(c) ==
  /\ at[c] = "waiting"
  /\ MutexFree
  /\ Goto(c, IF m_wait_props = <<>> THEN "out" ELSE "waiting")
  /\ UNCHANGED <<vars, switch, threads, bwait, tmp_threads>>

\* LastTaskPool::add_task tests the switch, then calls the queue.
PoolCallAdd(a, p) ==
  /\ has_started
  /\ CallAdd(a, p)
  /\ UNCHANGED pool_vars

PoolAdd(a) ==
  /\ AddWait(a) \/ AddRefuse(a) \/ AddInsert(a) \/ AddNotify(a)
  /\ UNCHANGED pool_vars

------------------------------------------------------------------------------
(* thread_fun                                                              *)

\* Threads of the newest version leave as well.
BadLeavesLoopAll(w) ==
  \/ has_stoped /\ m_wait_props = <<>>
  \/ thread_ver[w] <= m_cur_thread_ver

\* Leaves when there is nothing to do, whether the pool is stopped or not.
BadLeavesLoopIdle(w) ==
  \/ m_wait_props = <<>>
  \/ thread_ver[w] < m_cur_thread_ver

\* The tests at the head of the loop; empty() takes the queue's mutex.
LeavesLoop(w) ==
  \/ has_stoped /\ m_wait_props = <<>>
  \/ thread_ver[w] < m_cur_thread_ver

AtLoopHead(w) ==
  /\ thread_ver[w] # 0
  /\ pc[w] = "out"
  /\ has_stoped => MutexFree

ThreadEnds(w) ==
  /\ AtLoopHead(w)
  /\ LeavesLoop(w)
  /\ thread_ver' = [thread_ver EXCEPT ![w] = 0]
  /\ UNCHANGED <<vars, switch, m_cur_thread_ver, m_cur_threads, control_vars>>

ThreadPops(w) ==
  /\ AtLoopHead(w)
  /\ ~LeavesLoop(w)
  /\ CallPop(w)
  /\ UNCHANGED pool_vars

ThreadInPop(w) ==
  /\ PopWait(w) \/ PopNothing(w) \/ PopTake(w) \/ PopFinish(w) \/ PopNotify(w)
  /\ UNCHANGED pool_vars

PoolSpuriousWake(t) ==
  /\ SpuriousWake(t)
  /\ UNCHANGED pool_vars

------------------------------------------------------------------------------
PoolInit ==
  /\ Init
  /\ m_binit = FALSE /\ m_bstart = FALSE /\ sw_bstop = FALSE
  /\ m_cur_thread_ver = 0
  /\ m_cur_threads = {}
  /\ thread_ver = [w \in Workers |-> 0]
  /\ at = [c \in Controllers |-> "out"]
  /\ bwait = [c \in Controllers |-> FALSE]
  /\ tmp_threads = [c \in Controllers |-> {}]

pool_start(c) ==
  \/ CallStart(c) \/ StartTest(c) \/ StartCas(c)
  \/ QueueStart(c) \/ QueueStartNotify(c)
  \/ CallResetThreadNum(c) \/ create_thread(c)

pool_stop(c) ==
  \/ CallStop(c) \/ StopCas(c) \/ QueueStop(c)
  \/ SwapThreads(c) \/ JoinThreads(c)
  \/ ResetStart(c) \/ ResetStop(c) \/ ResetInit(c)

pool_other(c) ==
  \/ PoolClear(c)
  \/ \E p \in Props : PoolRemoveProp(c, p)
  \/ PoolRemoveNotify(c)
  \/ CallWait(c) \/ WaitPolls(c)

thread_fun(w) == ThreadEnds(w) \/ ThreadPops(w) \/ ThreadInPop(w)

pool_add_task(a) == (\E p \in Props : PoolCallAdd(a, p)) \/ PoolAdd(a)

PoolNext ==
  \/ \E c \in Controllers : pool_start(c) \/ pool_stop(c) \/ pool_other(c)
  \/ \E w \in Workers : thread_fun(w)
  \/ \E a \in Adders : pool_add_task(a)
  \/ \E t \in Adders \cup Workers : PoolSpuriousWake(t)

PoolSpec == PoolInit /\ [][PoolNext]_<<vars, pool_vars>>

(***************************************************************************)
(* Every thread inside a call goes on: it gets a contended mutex in the    *)
(* end (hence strong fairness), and every task returns.  Callers are free  *)
(* not to call, and wait() may poll at the wrong moments for ever.         *)
(***************************************************************************)
pool_continue(c) ==
  \/ StartTest(c) \/ StartCas(c) \/ QueueStart(c) \/ QueueStartNotify(c) \/ create_thread(c)
  \/ StopCas(c) \/ QueueStop(c) \/ SwapThreads(c) \/ JoinThreads(c)
  \/ ResetStart(c) \/ ResetStop(c) \/ ResetInit(c)
  \/ PoolRemoveNotify(c)

FairPoolSpec ==
  /\ PoolSpec
  /\ \A c \in Controllers : SF_<<vars, pool_vars>>(pool_continue(c))
  /\ \A w \in Workers : SF_<<vars, pool_vars>>(thread_fun(w))
  /\ \A a \in Adders : SF_<<vars, pool_vars>>(PoolAdd(a))

------------------------------------------------------------------------------
(* Properties.                                                             *)

\* Every variable of the pool holds a value the program's variable can hold; a
\* thread in pop_task runs, and a SafeThread that runs is where a stop() finds it.
PoolTypeOK ==
  /\ TypeOK
  /\ {m_binit, m_bstart, sw_bstop} \subseteq BOOLEAN
  /\ m_cur_thread_ver \in Nat
  /\ m_cur_threads \subseteq Workers
  /\ thread_ver \in [Workers -> Nat]
  /\ at \in [Controllers -> ControlPC]
  /\ bwait \in [Controllers -> BOOLEAN]
  /\ tmp_threads \in [Controllers -> SUBSET Workers]
  /\ \A w \in Workers : pc[w] # "out" => thread_ver[w] # 0
  /\ \A w \in Workers : thread_ver[w] # 0 =>
       w \in m_cur_threads \/ \E c \in Controllers : w \in tmp_threads[c]

\* The behaviours of the queue alone. The actions of the pool are made of those of
\* its queue, so that this holds of a pool by the way the modules are written; it is
\* named for the proofs, where the queue's theorems carry over to the pool by it.
PoolIsQueue == Spec

\* A controller's stop() that has joined its threads and has not returned yet.
Joined(c) == at[c] \in {"reset_start", "reset_stop", "reset_init"}

\* Once stop() has joined, and until the next start(), no thread of the pool
\* runs and no task is being run; what was waiting is dropped without bwait.
StopJoinsAll ==
  /\ (\E c \in Controllers : Joined(c)) \/ ~m_binit =>
       /\ \A w \in Workers : thread_ver[w] = 0
       /\ m_cur_pop_props = {}
  /\ \A c \in Controllers : Joined(c) /\ ~bwait[c] => m_wait_props = <<>>

\* stop(true) returns when every accepted task has been run, as task_pool.hpp
\* says of bwait.
StopWaitDrains ==
  \A c \in Controllers : Joined(c) /\ bwait[c] => m_wait_props = <<>>

\* While the pool is started, and nobody is just making threads, some thread of
\* the newest version runs: a resize never leaves the pool without one.
SomeThreadServes ==
  has_started /\ (\A c \in Controllers : at[c] \notin {"queue_start", "create"}) =>
    \E w \in Workers : thread_ver[w] # 0 /\ thread_ver[w] = m_cur_thread_ver

\* stop() returns although workers and callers of add_task sleep when it is
\* called, and whatever tasks are waiting.
StopReturns == \A c \in Controllers : (at[c] = "stop_cas") ~> (at[c] = "out")

\* A property that waits in a started pool is taken, removed or cleared in the
\* end, or the pool is stopped, whatever resizes happen meanwhile.
WaitingIsServed ==
  \A p \in Props : (p \in DOMAIN m_wait_tasks /\ has_started)
                     ~> (p \notin DOMAIN m_wait_tasks \/ ~has_started)

\* task_pool.hpp says of wait() that it waits until all tasks are done.
WaitMeansDone ==
  [][\A c \in Controllers :
       at[c] = "waiting" /\ at'[c] = "out" => \A w \in Workers : pc[w] # "running"]_at

\* task_pool.hpp says of reset_thread_num that the threads it makes superfluous
\* are released by themselves.
OldThreadsEnd ==
  \A w \in Workers :
    (thread_ver[w] # 0 /\ thread_ver[w] < m_cur_thread_ver) ~> (thread_ver[w] = 0)

==============================================================================
