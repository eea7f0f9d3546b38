-------------------------- MODULE MCLastTaskQueue ---------------------------
(* LastTaskQueue for TLC: few threads and properties, a queue of one entry. *)
EXTENDS LastTaskQueue

CONSTANTS a1, a2, w1, w2, c1, p1, p2

MCAdders == {a1, a2}
MCWorkers == {w1, w2}
MCControllers == {c1}
MCProps == {p1, p2}
MCMaxTasks == (p1 :> 2) @@ (p2 :> 1)
==============================================================================
