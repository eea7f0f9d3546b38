--------------------------- MODULE SerialTaskQueue ---------------------------
(***************************************************************************)
(* BTool::SerialTaskQueue<TPropType> (task_queue.hpp): a FIFO that keeps   *)
(* every task, and runs the tasks of one property one after another.       *)
(*                                                                         *)
(* Threads, pc and the sections under m_mtx are as in LastTaskQueue.       *)
(* PropCountNodeList is the sequence of its nodes; a node counts           *)
(* successive tasks of one property and says whether the next of them may  *)
(* be taken.  m_all_nodes[p] and the same-property links follow from the   *)
(* sequence: they chain the nodes of p in list order.                      *)
(*                                                                         *)
(* A task is a number: the n-th task accepted for its property is n; 0 is  *)
(* the function object left at the front of a deque once it is moved out.  *)
(* Definitions named Bad... are faulty variants, as in LastTaskQueue.      *)
(***************************************************************************)
EXTENDS Integers, FiniteSets, SequencesExt, QueueMonitor, Selection

CONSTANTS
  Props,         \* values of TPropType
  NoProp,        \* the value of a thread's property outside a call
  MaxTaskCount,  \* m_max_task_count; 0 means "no limit"
  MaxTasks,      \* bound of the model: number of tasks accepted for each property
  CallersWait    \* clear, remove_prop and start are called only while no task
                 \* they concern runs, as a pool that joins its threads does

ASSUME SerialAssumption ==
  /\ Adders \cap Workers = {}
  /\ Adders \cap Controllers = {}
  /\ Workers \cap Controllers = {}
  /\ Workers # {}
  /\ NoProp \notin Props
  /\ MaxTaskCount \in Nat
  /\ MaxTasks \in [Props -> Nat]
  /\ CallersWait \in BOOLEAN

VARIABLES
  m_bstop,        \* atomic flag: the queue is stopped
  m_approx_size,  \* atomic counter: tasks added less tasks taken
  m_wait_props,   \* PropCountNodeList: sequence of [prop, count, can_pop]
  m_wait_tasks,   \* map: property -> deque of its tasks, the running one included
  m_cur_props,    \* set: properties whose task is being run
  prop,           \* the argument or local `prop_type` of each thread
  accepted,       \* history: number of tasks accepted for each property
  next            \* history: number of the task each property must run next

queue == <<m_approx_size, m_wait_props, m_wait_tasks, m_cur_props>>
vars  == <<m_bstop, queue, pc, prop, accepted, next>>

AddPC == {"out", "try_lock", "add_lock", "add_locked", "wait_not_full", "add_notify"}
PopPC == {"out", "pop_lock", "wait_not_empty", "running", "finish_notify"}
CtlPC == {"out", "start_notify", "remove_notify"}

not_full  == MaxTaskCount = 0 \/ m_approx_size < MaxTaskCount
not_empty == /\ m_wait_tasks # <<>>
             /\ Cardinality(m_cur_props) < Cardinality(DOMAIN m_wait_tasks)

------------------------------------------------------------------------------
(* PropCountNodeList                                                       *)

NodeOf(s, p) == {i \in DOMAIN s : s[i].prop = p}

FirstOf(S) == CHOOSE i \in S : \A j \in S : i <= j

\* One more task of p: counted in the last node if that is p's, else in a new
\* node, which may be taken at once only if it is p's only one.
push_back(s, p, can_immediately_pop) ==
  IF s # <<>> /\ Last(s).prop = p
  THEN [s EXCEPT ![Len(s)].count = @ + 1]
  ELSE Append(s, [prop    |-> p,
                  count   |-> 1,
                  can_pop |-> can_immediately_pop /\ NodeOf(s, p) = {}])

\* Nodes that may be taken: pop_front takes the first of them.
Poppable(s) == {i \in DOMAIN s : s[i].can_pop}

\* Keeps a node whose count has become zero.
Badpop_front(s, i) == [s EXCEPT ![i].count = @ - 1, ![i].can_pop = FALSE]

pop_front(s, i) ==
  IF s[i].count > 1
  THEN [s EXCEPT ![i].count = @ - 1, ![i].can_pop = FALSE]
  ELSE RemoveAt(s, i)

\* Forgets the property's other tasks.
Badreset_prop(s, p) == s

\* The next task of p may be taken again.
reset_prop(s, p) ==
  IF NodeOf(s, p) = {} THEN s ELSE [s EXCEPT ![FirstOf(NodeOf(s, p))].can_pop = TRUE]

remove_nodes(s, p) == Select(s, DOMAIN s \ NodeOf(s, p))

------------------------------------------------------------------------------
(* add_task                                                                *)

Claimed(p) ==
  accepted[p] + Cardinality({a \in Adders : prop[a] = p})

\* The unlocked tests: m_bstop, then not_full(), which chooses the fast path.
CallAdd(a, p) ==
  /\ pc[a] = "out"
  /\ Claimed(p) < MaxTasks[p]
  /\ ~m_bstop
  /\ pc' = [pc EXCEPT ![a] = IF not_full THEN "try_lock" ELSE "add_lock"]
  /\ prop' = [prop EXCEPT ![a] = p]
  /\ UNCHANGED <<m_bstop, queue, accepted, next>>

\* Puts the task before the older ones of its property.
BadInsert(a) ==
  LET p == prop[a]
      old == IF p \in DOMAIN m_wait_tasks THEN m_wait_tasks[p] ELSE <<>>
      is_first == p \notin m_cur_props /\ old = <<>>
  IN  /\ m_wait_tasks' = [q \in DOMAIN m_wait_tasks \cup {p} |->
                            IF q = p THEN <<accepted[p] + 1>> \o old ELSE m_wait_tasks[q]]
      /\ m_wait_props' = push_back(m_wait_props, p, is_first)
      /\ m_approx_size' = m_approx_size + 1
      /\ accepted' = [accepted EXCEPT ![p] = @ + 1]
      /\ pc' = [pc EXCEPT ![a] = "add_notify"]
      /\ prop' = [prop EXCEPT ![a] = NoProp]
      /\ UNCHANGED <<m_bstop, m_cur_props, next>>

\* What both paths do with the mutex taken, once m_bstop is seen false.
Insert(a) ==
  LET p == prop[a]
      old == IF p \in DOMAIN m_wait_tasks THEN m_wait_tasks[p] ELSE <<>>
      is_first == p \notin m_cur_props /\ old = <<>>
  IN  /\ m_wait_tasks' = [q \in DOMAIN m_wait_tasks \cup {p} |->
                            IF q = p THEN Append(old, accepted[p] + 1) ELSE m_wait_tasks[q]]
      /\ m_wait_props' = push_back(m_wait_props, p, is_first)
      /\ m_approx_size' = m_approx_size + 1
      /\ accepted' = [accepted EXCEPT ![p] = @ + 1]
      /\ pc' = [pc EXCEPT ![a] = "add_notify"]
      /\ prop' = [prop EXCEPT ![a] = NoProp]
      /\ UNCHANGED <<m_bstop, m_cur_props, next>>

Refuse(a) ==
  /\ pc' = [pc EXCEPT ![a] = "out"]
  /\ prop' = [prop EXCEPT ![a] = NoProp]
  /\ UNCHANGED <<m_bstop, queue, accepted, next>>

\* Does not test m_bstop again.
BadAddFast(a) ==
  /\ pc[a] = "try_lock"
  /\ MutexFree
  /\ Insert(a)

\* The fast path, when try_lock() succeeds: not_full() is not tested again.
AddFast(a) ==
  /\ pc[a] = "try_lock"
  /\ MutexFree
  /\ IF m_bstop THEN Refuse(a) ELSE Insert(a)

\* try_lock() fails, for a held mutex or spuriously: the slow path.
TryLockFails(a) ==
  /\ pc[a] = "try_lock"
  /\ pc' = [pc EXCEPT ![a] = "add_lock"]
  /\ UNCHANGED <<m_bstop, queue, prop, accepted, next>>

\* The predicate of m_cv_not_full.wait, evaluated with the mutex taken.
AddWait(a) ==
  /\ pc[a] = "add_lock"
  /\ MutexFree
  /\ pc' = [pc EXCEPT ![a] = IF m_bstop \/ not_full THEN "add_locked" ELSE "wait_not_full"]
  /\ UNCHANGED <<m_bstop, queue, prop, accepted, next>>

\* The code after the wait.
AddSlow(a) ==
  /\ pc[a] = "add_locked"
  /\ IF m_bstop THEN Refuse(a) ELSE Insert(a)

\* Notifies nobody.
BadAddNotify(a) ==
  /\ pc[a] = "add_notify"
  /\ pc' = [pc EXCEPT ![a] = "out"]
  /\ UNCHANGED <<m_bstop, queue, prop, accepted, next>>

AddNotify(a) ==
  /\ pc[a] = "add_notify"
  /\ NotifyOne(a, "wait_not_empty")
  /\ UNCHANGED <<m_bstop, queue, prop, accepted, next>>

------------------------------------------------------------------------------
(* pop_task                                                                *)

CallPop(w) ==
  /\ pc[w] = "out"
  /\ pc' = [pc EXCEPT ![w] = "pop_lock"]
  /\ UNCHANGED <<m_bstop, queue, prop, accepted, next>>

\* Nothing to take: sleep, or return when the queue is stopped.
PopNothing(w) ==
  /\ pc[w] = "pop_lock"
  /\ MutexFree
  /\ ~not_empty
  /\ pc' = [pc EXCEPT ![w] = IF m_bstop THEN "out" ELSE "wait_not_empty"]
  /\ UNCHANGED <<m_bstop, queue, prop, accepted, next>>

\* Take the next task of the first node that may be taken.  It stays in its
\* deque, moved out, until it returns.
PopTake(w) ==
  /\ pc[w] = "pop_lock"
  /\ MutexFree
  /\ not_empty
  /\ Poppable(m_wait_props) # {}
  /\ LET i == FirstOf(Poppable(m_wait_props))
         p == m_wait_props[i].prop
         task == IF p \in DOMAIN m_wait_tasks THEN Head(m_wait_tasks[p]) ELSE 0
     IN  /\ m_wait_props' = pop_front(m_wait_props, i)
         /\ m_approx_size' = m_approx_size - 1
         /\ m_cur_props' = m_cur_props \cup {p}
         /\ m_wait_tasks' = [q \in DOMAIN m_wait_tasks |->
                               IF q = p THEN [m_wait_tasks[p] EXCEPT ![1] = 0]
                                        ELSE m_wait_tasks[q]]
         /\ IF task # 0
            THEN /\ next' = [next EXCEPT ![p] = task + 1]
                 /\ prop' = [prop EXCEPT ![w] = p]
                 /\ pc' = [pc EXCEPT ![w] = "running"]
            ELSE /\ pc' = [pc EXCEPT ![w] = "out"]
                 /\ UNCHANGED <<next, prop>>
  /\ UNCHANGED <<m_bstop, accepted>>

\* Leaves the task that has run in its deque.
BadPopFinish(w) ==
  /\ pc[w] = "running"
  /\ MutexFree
  /\ m_cur_props' = m_cur_props \ {prop[w]}
  /\ m_wait_props' = reset_prop(m_wait_props, prop[w])
  /\ pc' = [pc EXCEPT ![w] = "finish_notify"]
  /\ prop' = [prop EXCEPT ![w] = NoProp]
  /\ UNCHANGED <<m_bstop, m_approx_size, m_wait_tasks, accepted, next>>

\* The task returns: it leaves its deque and its property may be taken again.
PopFinish(w) ==
  LET p == prop[w]
      rest == IF p \in DOMAIN m_wait_tasks THEN Tail(m_wait_tasks[p]) ELSE <<>>
      kept == IF rest = <<>> THEN DOMAIN m_wait_tasks \ {p} ELSE DOMAIN m_wait_tasks
  IN  /\ pc[w] = "running"
      /\ MutexFree
      /\ m_wait_tasks' = [q \in kept |-> IF q = p THEN rest ELSE m_wait_tasks[q]]
      /\ m_cur_props' = m_cur_props \ {p}
      /\ m_wait_props' = reset_prop(m_wait_props, p)
      /\ pc' = [pc EXCEPT ![w] = "finish_notify"]
      /\ prop' = [prop EXCEPT ![w] = NoProp]
      /\ UNCHANGED <<m_bstop, m_approx_size, accepted, next>>

\* Notifies nobody.
BadPopNotify(w) ==
  /\ pc[w] = "finish_notify"
  /\ pc' = [pc EXCEPT ![w] = "out"]
  /\ UNCHANGED <<m_bstop, queue, prop, accepted, next>>

PopNotify(w) ==
  /\ pc[w] = "finish_notify"
  /\ NotifyOne(w, "wait_not_full")
  /\ UNCHANGED <<m_bstop, queue, prop, accepted, next>>

------------------------------------------------------------------------------
(* clear, stop, start and remove_prop                                      *)

\* The environment CallersWait describes.
NoneRuns(P) == \A w \in Workers : pc[w] = "running" => prop[w] \notin P
MayConcern(P) == CallersWait => NoneRuns(P)

\* m_approx_size keeps its value.
clear_inner(c) ==
  /\ m_wait_props' = <<>>
  /\ m_wait_tasks' = <<>>
  /\ m_cur_props' = {}
  /\ next' = [p \in Props |-> accepted[p] + 1]
  /\ NotifyAll(c)
  /\ UNCHANGED m_approx_size

Clear(c) ==
  /\ pc[c] = "out"
  /\ MayConcern(Props)
  /\ MutexFree
  /\ clear_inner(c)
  /\ UNCHANGED <<m_bstop, prop, accepted>>

\* stop(bwait): with bwait the tasks that wait stay, without it they are dropped.
Stop(c, bwait) ==
  /\ pc[c] = "out"
  /\ MutexFree
  /\ ~m_bstop
  /\ m_bstop' = TRUE
  /\ IF bwait THEN NotifyAll(c) /\ UNCHANGED <<queue, next>> ELSE clear_inner(c)
  /\ UNCHANGED <<prop, accepted>>

\* start() does not take the mutex.
Start(c) ==
  /\ pc[c] = "out"
  /\ MayConcern(Props)
  /\ m_bstop
  /\ m_bstop' = FALSE
  /\ pc' = [pc EXCEPT ![c] = "start_notify"]
  /\ UNCHANGED <<queue, prop, accepted, next>>

StartNotify(c) ==
  /\ pc[c] = "start_notify"
  /\ NotifyAll(c)
  /\ UNCHANGED <<m_bstop, queue, prop, accepted, next>>

\* m_approx_size keeps its value.
RemoveProp(c, p) ==
  /\ pc[c] = "out"
  /\ MayConcern({p})
  /\ MutexFree
  /\ m_wait_tasks' = [q \in DOMAIN m_wait_tasks \ {p} |-> m_wait_tasks[q]]
  /\ m_wait_props' = remove_nodes(m_wait_props, p)
  /\ next' = [next EXCEPT ![p] = accepted[p] + 1]
  /\ pc' = [pc EXCEPT ![c] = "remove_notify"]
  /\ UNCHANGED <<m_bstop, m_approx_size, m_cur_props, prop, accepted>>

RemoveNotify(c) ==
  /\ pc[c] = "remove_notify"
  /\ NotifyOne(c, "wait_not_full")
  /\ UNCHANGED <<m_bstop, queue, prop, accepted, next>>

SpuriousWake(t) ==
  /\ WakesUp(t)
  /\ UNCHANGED <<m_bstop, queue, prop, accepted, next>>

------------------------------------------------------------------------------
Init ==
  /\ m_bstop = FALSE
  /\ m_approx_size = 0
  /\ m_wait_props = <<>>
  /\ m_wait_tasks = <<>>
  /\ m_cur_props = {}
  /\ pc = [t \in Threads |-> "out"]
  /\ prop = [t \in Adders \cup Workers |-> NoProp]
  /\ accepted = [p \in Props |-> 0]
  /\ next = [p \in Props |-> 1]

add_task(a) ==
  \/ \E p \in Props : CallAdd(a, p)
  \/ AddFast(a)
  \/ TryLockFails(a)
  \/ AddWait(a)
  \/ AddSlow(a)
  \/ AddNotify(a)

pop_task(w) ==
  \/ CallPop(w)
  \/ PopNothing(w)
  \/ PopTake(w)
  \/ PopFinish(w)
  \/ PopNotify(w)

control(c) ==
  \/ Clear(c)
  \/ \E bwait \in BOOLEAN : Stop(c, bwait)
  \/ Start(c)
  \/ StartNotify(c)
  \/ \E p \in Props : RemoveProp(c, p)
  \/ RemoveNotify(c)

Next ==
  \/ \E a \in Adders : add_task(a)
  \/ \E w \in Workers : pop_task(w)
  \/ \E c \in Controllers : control(c)
  \/ \E t \in Adders \cup Workers : SpuriousWake(t)

Spec == Init /\ [][Next]_vars

(***************************************************************************)
(* A thread inside a call goes on and gets a contended mutex in the end    *)
(* (strong fairness), and every task returns.  Workers call pop_task again *)
(* and again; nobody has to call add_task or a control function.           *)
(***************************************************************************)
add_continues(a) == AddFast(a) \/ TryLockFails(a) \/ AddWait(a) \/ AddSlow(a) \/ AddNotify(a)

FairSpec ==
  /\ Spec
  /\ \A a \in Adders : SF_vars(add_continues(a))
  /\ \A w \in Workers : SF_vars(pop_task(w))
  /\ \A c \in Controllers : WF_vars(StartNotify(c) \/ RemoveNotify(c))

------------------------------------------------------------------------------
(* Properties.                                                             *)

Nodes == [prop : Props, count : Nat \ {0}, can_pop : BOOLEAN]
HoldsProp == {"try_lock", "add_lock", "add_locked", "wait_not_full", "running"}

\* Every variable holds a value the program's variable can hold: no node counts
\* zero tasks, no deque is empty, and m_approx_size does not wrap below zero.
TypeOK ==
  /\ m_bstop \in BOOLEAN
  /\ m_approx_size \in Nat
  /\ m_wait_props \in Seq(Nodes)
  /\ DOMAIN m_wait_tasks \subseteq Props
  /\ \A p \in DOMAIN m_wait_tasks : m_wait_tasks[p] \in Seq(Nat) \ {<<>>}
  /\ m_cur_props \subseteq Props
  /\ pc \in [Threads -> AddPC \cup PopPC \cup CtlPC]
  /\ \A a \in Adders : pc[a] \in AddPC
  /\ \A w \in Workers : pc[w] \in PopPC
  /\ \A c \in Controllers : pc[c] \in CtlPC
  /\ prop \in [Adders \cup Workers -> Props \cup {NoProp}]
  /\ \A t \in Adders \cup Workers : prop[t] \in Props <=> pc[t] \in HoldsProp
  /\ accepted \in [Props -> Nat]
  /\ next \in [Props -> Nat]

\* Numbers of the tasks of p that were accepted, and neither started nor dropped.
Pending(p) == next[p]..accepted[p]
NumPending == Cardinality(UNION {{p} \X Pending(p) : p \in Props})

\* The tasks of p that the nodes count, as pairs of a node and a number.
Counted(s, p) == UNION {{i} \X (1 .. s[i].count) : i \in NodeOf(s, p)}

\* The deques keep every accepted task once and in order, behind the one that
\* is being run, and the nodes of a property count exactly those that wait.
NothingLostOrDoubled ==
  \A p \in Props :
    LET taken == IF p \in m_cur_props THEN <<0>> ELSE <<>>
        waits == [k \in 1..Cardinality(Pending(p)) |-> next[p] + k - 1]
    IN  /\ (IF p \in DOMAIN m_wait_tasks THEN m_wait_tasks[p] ELSE <<>>) = taken \o waits
        /\ Cardinality(Counted(m_wait_props, p)) = Cardinality(Pending(p))

\* A node may be taken exactly if it is its property's first one and no task of
\* the property is being run.  With it the two assertions of pop_task hold:
\* not_empty() promises a node that may be taken, of a property that is not run.
PopAssertions ==
  /\ \A i \in DOMAIN m_wait_props :
       LET p == m_wait_props[i].prop
       IN  m_wait_props[i].can_pop <=> p \notin m_cur_props /\ i = FirstOf(NodeOf(m_wait_props, p))
  /\ not_empty => /\ Poppable(m_wait_props) # {}
                  /\ m_wait_props[FirstOf(Poppable(m_wait_props))].prop \notin m_cur_props

\* No property is run by two threads at once: the class comment promises that a
\* property's tasks run serially.
OneThreadPerProp ==
  \A v, w \in Workers : pc[v] = "running" /\ pc[w] = "running" /\ prop[v] = prop[w] => v = w

\* The task a worker starts is the one its property must run next: tasks run in
\* the order add_task accepted them, none twice, and none is left out.
TasksRunInOrder ==
  [][\A w \in Workers : pc[w] # "running" /\ pc'[w] = "running" =>
        next'[prop'[w]] = next[prop'[w]] + 1]_vars

\* While a worker sleeps, every property that could be taken has an awake worker
\* or a notify_one on its way to it: the pool's promise 4, a free thread runs a
\* submitted task at once.
IdleWorkerHasNothingToDo ==
  (\E w \in Workers : pc[w] = "wait_not_empty") =>
    Cardinality({p \in Props : Pending(p) # {} /\ p \notin m_cur_props})
      <= Cardinality({w \in Workers : pc[w] \in {"out", "pop_lock", "finish_notify"}})
         + Cardinality({a \in Adders : pc[a] = "add_notify"})

\* A caller of add_task sleeps on m_cv_not_full only while something is left
\* whose end will notify it: a waiting or running task, a thread that is about
\* to notify, or another caller that is awake.
BlockedAdderHasWaker ==
  (\E a \in Adders : pc[a] = "wait_not_full") =>
    \/ NumPending > 0
    \/ \E t \in Threads : pc[t] \in {"try_lock", "add_lock", "add_locked", "running",
                                     "finish_notify", "remove_notify", "start_notify"}

\* Every accepted task is run or dropped in the end.
EveryTaskRuns == \A p \in Props : (Pending(p) # {}) ~> (Pending(p) = {})

\* A call of add_task that blocks on a full queue returns in the end, unless
\* clear, stop(false) or remove_prop has dropped tasks and m_approx_size still
\* counts them.
AddTaskReturns ==
  \A a \in Adders : (pc[a] = "wait_not_full") ~> (pc[a] = "out" \/ m_approx_size > NumPending)

==============================================================================
