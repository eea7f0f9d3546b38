-------------------------- MODULE ParallelTaskQueue --------------------------
(***************************************************************************)
(* BTool::ParallelTaskQueue (task_queue.hpp) in the hands of Adders and of *)
(* the Workers of a ParallelTaskPool.  m_queue is lock-free: the mutex     *)
(* m_mtx and the two condition variables serve to sleep, and neither the   *)
(* enqueue nor the dequeue nor a notify holds the mutex.                   *)
(*                                                                         *)
(* at[t] is the place of thread t.  At "add_blocking" and "pop_blocking" t *)
(* has found the predicate of its wait false and holds m_mtx; at           *)
(* "add_waiting" and "pop_waiting" it sleeps.                              *)
(***************************************************************************)
EXTENDS Naturals, Sequences

CONSTANTS
  Adders,           \* threads that call add_task
  Workers,          \* threads of the pool
  m_max_task_count  \* 0: no limit

VARIABLES
  m_bstop, m_queue,
  at,
  task              \* what each thread adds, or runs

queue_vars == <<m_bstop, m_queue, at, task>>

QueueThreads == Adders \cup Workers
not_full == m_max_task_count = 0 \/ Len(m_queue) < m_max_task_count
not_empty == m_queue # <<>>
MutexFree == \A t \in QueueThreads : at[t] \notin {"add_blocking", "pop_blocking"}

Goes(t, place) == [at EXCEPT ![t] = place]
Moves(t, place) == at' = Goes(t, place) /\ UNCHANGED <<m_bstop, m_queue, task>>

\* places, when one of those who sleep at waiting, if any, has been notified.
NotifyOne(places, waiting, lock) ==
  IF \E t \in QueueThreads : places[t] = waiting
  THEN {[places EXCEPT ![t] = lock] : t \in {s \in QueueThreads : places[s] = waiting}}
  ELSE {places}

NotifyAll(places) ==
  [t \in QueueThreads |-> CASE places[t] = "add_waiting" -> "add_lock"
                            [] places[t] = "pop_waiting" -> "pop_lock"
                            [] OTHER -> places[t]]

------------------------------------------------------------------------------
(* add_task                                                                *)

AddStart(t, item) ==
  /\ at[t] = "out" /\ ~m_bstop
  /\ at' = Goes(t, "add_lock")
  /\ task' = [task EXCEPT ![t] = item]
  /\ UNCHANGED <<m_bstop, m_queue>>

\* The section under m_mtx that waits for a place, and leaves without taking it.
AddPass(t) == at[t] = "add_lock" /\ MutexFree /\ (m_bstop \/ not_full) /\ Moves(t, "add_enqueue")
AddFull(t) == at[t] = "add_lock" /\ MutexFree /\ ~(m_bstop \/ not_full) /\ Moves(t, "add_blocking")
AddBlock(t) == at[t] = "add_blocking" /\ Moves(t, "add_waiting")

AddCheck(t) == at[t] = "add_enqueue" /\ Moves(t, IF m_bstop THEN "out" ELSE "add_push")

AddPush(t) ==
  /\ at[t] = "add_push"
  /\ m_queue' = Append(m_queue, task[t])
  /\ at' = Goes(t, "add_notify")
  /\ UNCHANGED <<m_bstop, task>>

AddNotify(t) ==
  /\ at[t] = "add_notify"
  /\ at' \in NotifyOne(Goes(t, "out"), "pop_waiting", "pop_lock")
  /\ UNCHANGED <<m_bstop, m_queue, task>>

------------------------------------------------------------------------------
(* pop_task                                                                *)

PopStart(w) == at[w] = "out" /\ Moves(w, IF m_bstop THEN "pop_take" ELSE "pop_lock")
PopPass(w) == at[w] = "pop_lock" /\ MutexFree /\ (m_bstop \/ not_empty) /\ Moves(w, "pop_take")
PopEmpty(w) == at[w] = "pop_lock" /\ MutexFree /\ ~(m_bstop \/ not_empty) /\ Moves(w, "pop_blocking")
PopBlock(w) == at[w] = "pop_blocking" /\ Moves(w, "pop_waiting")

PopTake(w) ==
  /\ at[w] = "pop_take" /\ not_empty
  /\ m_queue' = Tail(m_queue)
  /\ task' = [task EXCEPT ![w] = Head(m_queue)]
  /\ at' = Goes(w, "pop_notify")
  /\ UNCHANGED m_bstop

PopNotify(w) ==
  /\ at[w] = "pop_notify"
  /\ at' \in NotifyOne(Goes(w, "run"), "add_waiting", "add_lock")
  /\ UNCHANGED <<m_bstop, m_queue, task>>

\* Another worker has been faster; a notify follows unless that was seen at once.
PopNothing(w) ==
  /\ at[w] = "pop_take" /\ ~not_empty
  /\ at' \in {Goes(w, "out")} \cup NotifyOne(Goes(w, "out"), "add_waiting", "add_lock")
  /\ UNCHANGED <<m_bstop, m_queue, task>>

RunReturns(w) == at[w] = "run" /\ Moves(w, "out")

\* A wait may wake up although nobody notified it.
Spurious(t) ==
  /\ at[t] \in {"add_waiting", "pop_waiting"}
  /\ Moves(t, IF at[t] = "add_waiting" THEN "add_lock" ELSE "pop_lock")

------------------------------------------------------------------------------
(* clear, stop, start                                                      *)

clear_inner == m_queue' = <<>> /\ at' = NotifyAll(at)

ClearQueue == MutexFree /\ clear_inner /\ UNCHANGED <<m_bstop, task>>

StopQueue(bwait) ==
  /\ MutexFree /\ ~m_bstop
  /\ m_bstop' = TRUE
  /\ IF bwait THEN at' = NotifyAll(at) /\ UNCHANGED m_queue ELSE clear_inner
  /\ UNCHANGED task

StartQueue == m_bstop /\ m_bstop' = FALSE /\ at' = NotifyAll(at) /\ UNCHANGED <<m_queue, task>>

------------------------------------------------------------------------------
QueueInit(nothing) ==
  /\ m_bstop = FALSE /\ m_queue = <<>>
  /\ at = [t \in QueueThreads |-> "out"]
  /\ task = [t \in QueueThreads |-> nothing]

pop_task(w) ==
  \/ PopStart(w) \/ PopPass(w) \/ PopEmpty(w) \/ PopBlock(w) \/ PopTake(w)
  \/ PopNotify(w) \/ PopNothing(w) \/ RunReturns(w)

add_task(t) ==
  AddPass(t) \/ AddFull(t) \/ AddBlock(t) \/ AddCheck(t) \/ AddPush(t) \/ AddNotify(t)

QueueNext ==
  \/ \E w \in Workers : pop_task(w)
  \/ \E t \in Adders : add_task(t) \/ AddStart(t, t)
  \/ \E t \in QueueThreads : Spurious(t)
  \/ \E bwait \in BOOLEAN : StopQueue(bwait)
  \/ ClearQueue \/ StartQueue

QueueSpec == QueueInit("nothing") /\ [][QueueNext]_queue_vars

\* "As long as a thread of the pool is idle, a task that is submitted is executed
\* at once" (task_pool.hpp:145): when every worker sleeps and no notify is on its way,
\* the queue is empty.
IdleThreadTakesTask ==
  (\A w \in Workers : at[w] = "pop_waiting") /\ (\A t \in Adders : at[t] # "add_notify")
    => ~not_empty
==============================================================================
