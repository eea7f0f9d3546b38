---------------------------- MODULE QueueMonitor ----------------------------
(***************************************************************************)
(* The mutex m_mtx and the condition variables m_cv_not_full and           *)
(* m_cv_not_empty of the blocking queues of task_queue.hpp: what           *)
(* std::mutex and std::condition_variable do, seen through the place pc[t] *)
(* of each thread.  A thread at "wait_not_full" or "wait_not_empty" sleeps *)
(* on that condition variable; "add_locked" and "pop_locked" are places    *)
(* inside a section that holds the mutex.                                  *)
(***************************************************************************)

CONSTANTS
  Adders,       \* threads that call add_task
  Workers,      \* threads that call pop_task
  Controllers   \* threads that call clear, start, stop and remove_prop

VARIABLE pc     \* where each thread is

Threads == Adders \cup Workers \cup Controllers

\* m_mtx is held between the steps of a thread that is inside a locked section.
MutexFree == \A t \in Threads : pc[t] \notin {"add_locked", "pop_locked"}

\* A thread that leaves a wait() must take the mutex again first.
Reacquire(cv) == IF cv = "wait_not_full" THEN "add_lock" ELSE "pop_lock"

\* self finishes its call with cv.notify_one(): one waiter, if any, wakes up.
NotifyOne(self, cv) ==
  LET waiting == {t \in Threads : pc[t] = cv}
  IN  \/ /\ waiting = {}
         /\ pc' = [pc EXCEPT ![self] = "out"]
      \/ \E t \in waiting : pc' = [pc EXCEPT ![self] = "out", ![t] = Reacquire(cv)]

\* m_cv_not_full.notify_all(); m_cv_not_empty.notify_all(), at the end of a call.
Woken(place) ==
  IF place \in {"wait_not_full", "wait_not_empty"} THEN Reacquire(place) ELSE place

NotifyAll(self) ==
  pc' = [t \in Threads |-> IF t = self THEN "out" ELSE Woken(pc[t])]

\* The standard allows a wait() to wake up although nobody notified it.
WakesUp(t) ==
  /\ pc[t] \in {"wait_not_full", "wait_not_empty"}
  /\ pc' = [pc EXCEPT ![t] = Reacquire(pc[t])]
=============================================================================
