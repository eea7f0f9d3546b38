----------------------------- MODULE MCTaskPool ------------------------------
(* TaskPool for TLC.  One thread, the pool's owner, calls start, stop and     *)
(* reset_thread_num; another one calls clear, remove_prop and wait meanwhile. *)
EXTENDS TaskPool

CONSTANTS a1, a2, w1, w2, c1, c2, p1, p2

MCAdders == {a1}
MCWorkers == {w1, w2}
MCControllers == {c1, c2}
MCOneController == {c1}
MCProps == {p1, p2}
MCOneProp == {p1}
MCMaxTasks == (p1 :> 1) @@ (p2 :> 1)
MCOneTask == (p1 :> 1)
MCThreadNums == {1, 2}

MCCalls == (c1 :> {"start", "stop", "reset_thread_num"}) @@ (c2 :> {"clear", "remove_prop", "wait"})
MCStopCalls == (c1 :> {"start", "stop"})
MCWaitCalls == (c1 :> {"start", "stop", "wait"})
MCResizeCalls == (c1 :> {"start", "reset_thread_num"})

ASSUME OneOwner
==============================================================================
