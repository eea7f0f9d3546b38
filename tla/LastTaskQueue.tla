---------------------------- MODULE LastTaskQueue ----------------------------
(***************************************************************************)
(* BTool::LastTaskQueue<TPropType> (task_queue.hpp): a FIFO of properties  *)
(* that keeps only the newest task of each property, and never runs two    *)
(* tasks of one property at the same time.                                 *)
(*                                                                         *)
(* The threads of the model are the callers of add_task (Adders), the      *)
(* callers of pop_task (Workers) and the callers of clear, start, stop and *)
(* remove_prop (Controllers).  pc[t] is the place a thread has reached in  *)
(* the call it is making; a section under m_mtx is one step, except that   *)
(* the predicate of a wait() and the code after it are two, because        *)
(* start() flips m_bstop without taking the mutex.                         *)
(*                                                                         *)
(* A task is a number: the n-th task accepted for its property is n.       *)
(*                                                                         *)
(* Definitions named Bad... are the definition that follows with a mistake *)
(* a programmer could make.  Nothing uses them; put in its place, each of  *)
(* them must break a property, as PROJECT.json lists.                      *)
(***************************************************************************)
EXTENDS Integers, FiniteSets, SequencesExt, QueueMonitor

CONSTANTS
  Props,         \* values of TPropType
  NoProp,        \* the value of a thread's property outside a call
  MaxTaskCount,  \* m_max_task_count; 0 means "no limit"
  MaxTasks       \* bound of the model: number of tasks accepted for each property

ASSUME QueueAssumption ==
  /\ Adders \cap Workers = {}
  /\ Adders \cap Controllers = {}
  /\ Workers \cap Controllers = {}
  /\ Workers # {}
  /\ NoProp \notin Props
  /\ MaxTaskCount \in Nat
  /\ MaxTasks \in [Props -> Nat]

VARIABLES
  m_bstop,          \* atomic flag: the queue is stopped
  m_wait_props,     \* list: properties that wait, in the order of their turn
  m_wait_tasks,     \* map: waiting property -> its newest task
  m_cur_pop_props,  \* set: properties whose task is being run
  prop,             \* the argument or local `pop_type` of each thread
  accepted,         \* history: number of tasks accepted for each property
  started           \* history: last task of each property that was started

queue == <<m_wait_props, m_wait_tasks, m_cur_pop_props>>
vars  == <<m_bstop, queue, pc, prop, accepted, started>>

AddPC  == {"out", "add_lock", "add_locked", "wait_not_full", "add_notify"}
PopPC  == {"out", "pop_lock", "pop_locked", "wait_not_empty", "running", "finish_notify"}
CtlPC  == {"out", "start_notify", "remove_notify"}

not_full  == MaxTaskCount = 0 \/ Len(m_wait_props) < MaxTaskCount
not_empty == m_wait_props # <<>>

------------------------------------------------------------------------------
(* add_task                                                                *)

\* Tasks of p that are accepted or may still be: what MaxTasks bounds.
Claimed(p) ==
  accepted[p] + Cardinality({a \in Adders : prop[a] = p})

\* The unlocked test of m_bstop; a stopped queue refuses and nothing changes.
CallAdd(a, p) ==
  /\ pc[a] = "out"
  /\ Claimed(p) < MaxTasks[p]
  /\ ~m_bstop
  /\ pc' = [pc EXCEPT ![a] = "add_lock"]
  /\ prop' = [prop EXCEPT ![a] = p]
  /\ UNCHANGED <<m_bstop, queue, accepted, started>>

\* The predicate of m_cv_not_full.wait, evaluated with the mutex taken.
AddWait(a) ==
  /\ pc[a] = "add_lock"
  /\ MutexFree
  /\ pc' = [pc EXCEPT ![a] = IF m_bstop \/ not_full THEN "add_locked" ELSE "wait_not_full"]
  /\ UNCHANGED <<m_bstop, queue, prop, accepted, started>>

\* The code after the wait: refuse when stopped, ...
AddRefuse(a) ==
  /\ pc[a] = "add_locked"
  /\ m_bstop
  /\ pc' = [pc EXCEPT ![a] = "out"]
  /\ prop' = [prop EXCEPT ![a] = NoProp]
  /\ UNCHANGED <<m_bstop, queue, accepted, started>>

\* Queues the property again although it waits already.
BadInsertTwice(a) ==
  /\ pc[a] = "add_locked"
  /\ ~m_bstop
  /\ m_wait_props' = Append(m_wait_props, prop[a])
  /\ m_wait_tasks' = [q \in DOMAIN m_wait_tasks \cup {prop[a]} |->
                        IF q = prop[a] THEN accepted[q] + 1 ELSE m_wait_tasks[q]]
  /\ accepted' = [accepted EXCEPT ![prop[a]] = @ + 1]
  /\ pc' = [pc EXCEPT ![a] = "add_notify"]
  /\ prop' = [prop EXCEPT ![a] = NoProp]
  /\ UNCHANGED <<m_bstop, m_cur_pop_props, started>>

\* Keeps the older task of a property that waits: emplace, not operator[].
BadInsertOlder(a) ==
  LET p == prop[a]
      new == p \notin DOMAIN m_wait_tasks
  IN  /\ pc[a] = "add_locked"
      /\ ~m_bstop
      /\ m_wait_props' = IF new THEN Append(m_wait_props, p) ELSE m_wait_props
      /\ m_wait_tasks' = [q \in DOMAIN m_wait_tasks \cup {p} |->
                            IF new /\ q = p THEN accepted[p] + 1 ELSE m_wait_tasks[q]]
      /\ accepted' = [accepted EXCEPT ![p] = @ + 1]
      /\ pc' = [pc EXCEPT ![a] = "add_notify"]
      /\ prop' = [prop EXCEPT ![a] = NoProp]
      /\ UNCHANGED <<m_bstop, m_cur_pop_props, started>>

\* Does not test m_bstop again after the wait.
BadInsertStopped(a) ==
  LET p == prop[a]
  IN  /\ pc[a] = "add_locked"
      /\ m_wait_props' = IF p \in DOMAIN m_wait_tasks THEN m_wait_props
                                                      ELSE Append(m_wait_props, p)
      /\ m_wait_tasks' = [q \in DOMAIN m_wait_tasks \cup {p} |->
                            IF q = p THEN accepted[p] + 1 ELSE m_wait_tasks[q]]
      /\ accepted' = [accepted EXCEPT ![p] = @ + 1]
      /\ pc' = [pc EXCEPT ![a] = "add_notify"]
      /\ prop' = [prop EXCEPT ![a] = NoProp]
      /\ UNCHANGED <<m_bstop, m_cur_pop_props, started>>

\* ... or queue the property unless it waits already, and overwrite its task.
AddInsert(a) ==
  LET p == prop[a]
  IN  /\ pc[a] = "add_locked"
      /\ ~m_bstop
      /\ m_wait_props' = IF p \in DOMAIN m_wait_tasks THEN m_wait_props
                                                      ELSE Append(m_wait_props, p)
      /\ m_wait_tasks' = [q \in DOMAIN m_wait_tasks \cup {p} |->
                            IF q = p THEN accepted[p] + 1 ELSE m_wait_tasks[q]]
      /\ accepted' = [accepted EXCEPT ![p] = @ + 1]
      /\ pc' = [pc EXCEPT ![a] = "add_notify"]
      /\ prop' = [prop EXCEPT ![a] = NoProp]
      /\ UNCHANGED <<m_bstop, m_cur_pop_props, started>>

\* Notifies nobody.
BadAddNotify(a) ==
  /\ pc[a] = "add_notify"
  /\ pc' = [pc EXCEPT ![a] = "out"]
  /\ UNCHANGED <<m_bstop, queue, prop, accepted, started>>

AddNotify(a) ==
  /\ pc[a] = "add_notify"
  /\ NotifyOne(a, "wait_not_empty")
  /\ UNCHANGED <<m_bstop, queue, prop, accepted, started>>

------------------------------------------------------------------------------
(* pop_task                                                                *)

CallPop(w) ==
  /\ pc[w] = "out"
  /\ pc' = [pc EXCEPT ![w] = "pop_lock"]
  /\ UNCHANGED <<m_bstop, queue, prop, accepted, started>>

\* The predicate of m_cv_not_empty.wait, evaluated with the mutex taken.
PopWait(w) ==
  /\ pc[w] = "pop_lock"
  /\ MutexFree
  /\ pc' = [pc EXCEPT ![w] = IF m_bstop \/ not_empty THEN "pop_locked" ELSE "wait_not_empty"]
  /\ UNCHANGED <<m_bstop, queue, prop, accepted, started>>

\* Ignores m_cur_pop_props.
BadEligible == 1..Len(m_wait_props)

\* Positions of the list whose property is not being run, and the first of them.
Eligible == {i \in 1..Len(m_wait_props) : m_wait_props[i] \notin m_cur_pop_props}
IsFirst(i, S) == i \in S /\ \A j \in S : i <= j

\* Calls the task although there is none.
BadPopNothing(w) ==
  /\ pc[w] = "pop_locked"
  /\ Eligible = {}
  /\ pc' = [pc EXCEPT ![w] = "running"]
  /\ UNCHANGED <<m_bstop, queue, prop, accepted, started>>

\* Nothing to take (the list is empty, or all its properties are being run).
PopNothing(w) ==
  /\ pc[w] = "pop_locked"
  /\ Eligible = {}
  /\ pc' = [pc EXCEPT ![w] = "out"]
  /\ UNCHANGED <<m_bstop, queue, prop, accepted, started>>

\* Take the first eligible property and its task out, and mark it as running.
PopTake(w) ==
  /\ pc[w] = "pop_locked"
  /\ \E i \in Eligible :
       /\ IsFirst(i, Eligible)
       /\ LET p == m_wait_props[i]
          IN  /\ started' = [started EXCEPT ![p] = m_wait_tasks[p]]
              /\ m_wait_tasks' = [q \in DOMAIN m_wait_tasks \ {p} |-> m_wait_tasks[q]]
              /\ m_wait_props' = RemoveAt(m_wait_props, i)
              /\ m_cur_pop_props' = m_cur_pop_props \cup {p}
              /\ prop' = [prop EXCEPT ![w] = p]
  /\ pc' = [pc EXCEPT ![w] = "running"]
  /\ UNCHANGED <<m_bstop, accepted>>

\* Leaves the property in m_cur_pop_props.
BadPopFinish(w) ==
  /\ pc[w] = "running"
  /\ MutexFree
  /\ pc' = [pc EXCEPT ![w] = "finish_notify"]
  /\ prop' = [prop EXCEPT ![w] = NoProp]
  /\ UNCHANGED <<m_bstop, queue, accepted, started>>

\* The task returns; its property may be taken again.
PopFinish(w) ==
  /\ pc[w] = "running"
  /\ MutexFree
  /\ m_cur_pop_props' = m_cur_pop_props \ {prop[w]}
  /\ pc' = [pc EXCEPT ![w] = "finish_notify"]
  /\ prop' = [prop EXCEPT ![w] = NoProp]
  /\ UNCHANGED <<m_bstop, m_wait_props, m_wait_tasks, accepted, started>>

\* Notifies nobody.
BadPopNotify(w) ==
  /\ pc[w] = "finish_notify"
  /\ pc' = [pc EXCEPT ![w] = "out"]
  /\ UNCHANGED <<m_bstop, queue, prop, accepted, started>>

PopNotify(w) ==
  /\ pc[w] = "finish_notify"
  /\ NotifyOne(w, "wait_not_full")
  /\ UNCHANGED <<m_bstop, queue, prop, accepted, started>>

------------------------------------------------------------------------------
(* clear, stop, start and remove_prop                                      *)

\* Notifies nobody.
Badclear_inner(c) ==
  /\ m_wait_tasks' = [q \in {} |-> 0]
  /\ m_wait_props' = <<>>
  /\ UNCHANGED <<pc, m_cur_pop_props>>

clear_inner(c) ==
  /\ m_wait_tasks' = [q \in {} |-> 0]
  /\ m_wait_props' = <<>>
  /\ NotifyAll(c)
  /\ UNCHANGED m_cur_pop_props

Clear(c) ==
  /\ pc[c] = "out"
  /\ MutexFree
  /\ clear_inner(c)
  /\ UNCHANGED <<m_bstop, prop, accepted, started>>

\* stop(bwait): with bwait the tasks that wait stay, without it they are dropped.
Stop(c, bwait) ==
  /\ pc[c] = "out"
  /\ MutexFree
  /\ ~m_bstop
  /\ m_bstop' = TRUE
  /\ IF bwait THEN NotifyAll(c) /\ UNCHANGED queue ELSE clear_inner(c)
  /\ UNCHANGED <<prop, accepted, started>>

\* start() does not take the mutex.
Start(c) ==
  /\ pc[c] = "out"
  /\ m_bstop
  /\ m_bstop' = FALSE
  /\ pc' = [pc EXCEPT ![c] = "start_notify"]
  /\ UNCHANGED <<queue, prop, accepted, started>>

StartNotify(c) ==
  /\ pc[c] = "start_notify"
  /\ NotifyAll(c)
  /\ UNCHANGED <<m_bstop, queue, prop, accepted, started>>

\* remove_if takes every occurrence of p out; there is at most one (InSync).
Without(s, p) ==
  IF \E i \in 1..Len(s) : s[i] = p
  THEN RemoveAt(s, CHOOSE i \in 1..Len(s) : s[i] = p)
  ELSE s

RemoveProp(c, p) ==
  /\ pc[c] = "out"
  /\ MutexFree
  /\ m_wait_props' = Without(m_wait_props, p)
  /\ m_wait_tasks' = [q \in DOMAIN m_wait_tasks \ {p} |-> m_wait_tasks[q]]
  /\ pc' = [pc EXCEPT ![c] = "remove_notify"]
  /\ UNCHANGED <<m_bstop, m_cur_pop_props, prop, accepted, started>>

RemoveNotify(c) ==
  /\ pc[c] = "remove_notify"
  /\ NotifyOne(c, "wait_not_full")
  /\ UNCHANGED <<m_bstop, queue, prop, accepted, started>>

SpuriousWake(t) ==
  /\ WakesUp(t)
  /\ UNCHANGED <<m_bstop, queue, prop, accepted, started>>

------------------------------------------------------------------------------
Init ==
  /\ m_bstop = FALSE
  /\ m_wait_props = <<>>
  /\ m_wait_tasks = [q \in {} |-> 0]
  /\ m_cur_pop_props = {}
  /\ pc = [t \in Threads |-> "out"]
  /\ prop = [t \in Adders \cup Workers |-> NoProp]
  /\ accepted = [p \in Props |-> 0]
  /\ started = [p \in Props |-> 0]

add_task(a) ==
  \/ \E p \in Props : CallAdd(a, p)
  \/ AddWait(a)
  \/ AddRefuse(a)
  \/ AddInsert(a)
  \/ AddNotify(a)

pop_task(w) ==
  \/ CallPop(w)
  \/ PopWait(w)
  \/ PopNothing(w)
  \/ PopTake(w)
  \/ PopFinish(w)
  \/ PopNotify(w)

control(c) ==
  \/ Clear(c)
  \/ \E bwait \in BOOLEAN : Stop(c, bwait)
  \/ Start(c)
  \/ StartNotify(c)
  \/ \E p \in Props : RemoveProp(c, p)
  \/ RemoveNotify(c)

Next ==
  \/ \E a \in Adders : add_task(a)
  \/ \E w \in Workers : pop_task(w)
  \/ \E c \in Controllers : control(c)
  \/ \E t \in Adders \cup Workers : SpuriousWake(t)

Spec == Init /\ [][Next]_vars

(***************************************************************************)
(* A thread inside a call is scheduled again and again, gets a contended   *)
(* mutex in the end (strong fairness of the steps that take it), and every *)
(* task returns.  Nobody has to call add_task or a control function, and   *)
(* no wake-up is spurious by obligation.                                   *)
(***************************************************************************)
AdderFairness(a) ==
  /\ SF_vars(AddWait(a))
  /\ WF_vars(AddRefuse(a) \/ AddInsert(a) \/ AddNotify(a))

WorkerFairness(w) ==
  /\ SF_vars(PopWait(w))
  /\ SF_vars(PopFinish(w))
  /\ WF_vars(CallPop(w) \/ PopNothing(w) \/ PopTake(w) \/ PopNotify(w))

ControllerFairness(c) == WF_vars(StartNotify(c) \/ RemoveNotify(c))

FairSpec ==
  /\ Spec
  /\ \A a \in Adders : AdderFairness(a)
  /\ \A w \in Workers : WorkerFairness(w)
  /\ \A c \in Controllers : ControllerFairness(c)

------------------------------------------------------------------------------
(* Properties.                                                             *)

\* Each thread is at a place of the functions it calls, and holds a property
\* exactly while add_task has one to queue or a task of it is being run.
HoldsProp == {"add_lock", "add_locked", "wait_not_full", "running"}

ThreadsOK ==
  /\ pc \in [Threads -> AddPC \cup PopPC \cup CtlPC]
  /\ \A a \in Adders : pc[a] \in AddPC
  /\ \A w \in Workers : pc[w] \in PopPC
  /\ \A c \in Controllers : pc[c] \in CtlPC
  /\ prop \in [Adders \cup Workers -> Props \cup {NoProp}]
  /\ \A t \in Adders \cup Workers : prop[t] \in Props <=> pc[t] \in HoldsProp

\* Every variable holds a value the program's variable can hold.
TypeOK ==
  /\ m_bstop \in BOOLEAN
  /\ m_wait_props \in Seq(Props)
  /\ DOMAIN m_wait_tasks \subseteq Props
  /\ m_wait_tasks \in [DOMAIN m_wait_tasks -> Nat]
  /\ m_cur_pop_props \subseteq Props
  /\ ThreadsOK
  /\ accepted \in [Props -> Nat]
  /\ started \in [Props -> Nat]

\* The list and the map name the same properties, each of them once: the
\* comment of m_wait_tasks asks for it, and add_task, pop_task, clear, stop and
\* remove_prop each change both.
InSync ==
  /\ IsInjective(m_wait_props)
  /\ DOMAIN m_wait_tasks = Range(m_wait_props)

\* m_cur_pop_props is exactly the set of properties being run, and no property
\* is run by two threads at once, whatever clear, stop and remove_prop do
\* while tasks run (task_pool.hpp: a property's tasks run serially).
OneThreadPerProp ==
  /\ \A v, w \in Workers : pc[v] = "running" /\ pc[w] = "running" /\ prop[v] = prop[w] => v = w
  /\ m_cur_pop_props = {prop[w] : w \in {v \in Workers : pc[v] = "running"}}

\* A task that is started is the newest its property had accepted, and is
\* newer than the last one started: an overwritten state never runs.
NewestStateRuns ==
  [][\A p \in Props : started'[p] # started[p] =>
        started'[p] = accepted[p] /\ started'[p] > started[p]]_vars

\* From stop() to the next start() the list of waiting properties never gains
\* one: add_task tests m_bstop again under the mutex stop() takes.
StoppedQueueOnlyShrinks ==
  [][m_bstop /\ m_bstop' => Range(m_wait_props') \subseteq Range(m_wait_props)]_vars

\* A caller of add_task sleeps on m_cv_not_full only while something is left
\* whose end will notify it: a waiting property, a running task, a thread that
\* is about to notify, or another caller that is already awake.
BlockedAdderHasWaker ==
  (\E a \in Adders : pc[a] = "wait_not_full") =>
    \/ m_wait_props # <<>>
    \/ \E t \in Threads : pc[t] \in {"add_lock", "add_locked", "running", "finish_notify",
                                     "remove_notify", "start_notify"}

\* Nobody sleeps in a stopped queue: stop() wakes every waiter up under the
\* mutex, and a predicate evaluated later sees m_bstop.
StoppedQueueHasNoSleeper ==
  m_bstop => \A t \in Threads : pc[t] \notin {"wait_not_full", "wait_not_empty"}

\* All workers sleep on m_cv_not_empty only if there is nothing to take or a
\* notify_one is on its way.
NoWorkLeftAsleep ==
  (\A w \in Workers : pc[w] = "wait_not_empty") =>
    m_wait_props = <<>> \/ \E a \in Adders : pc[a] = "add_notify"

\* A property in the list is taken, removed or cleared in the end.
WaitingPropIsTaken ==
  \A p \in Props : (p \in DOMAIN m_wait_tasks) ~> (p \notin DOMAIN m_wait_tasks)

\* A call of add_task that blocks on a full queue returns in the end.
AddTaskReturns ==
  \A a \in Adders : (pc[a] = "wait_not_full") ~> (pc[a] = "out")

==============================================================================
