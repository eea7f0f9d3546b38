-------------------------- MODULE MCSerialTaskQueue --------------------------
(* SerialTaskQueue for TLC: few threads, two properties, a short queue. *)
EXTENDS SerialTaskQueue

CONSTANTS a1, a2, w1, w2, c1, p1, p2

MCAdders == {a1, a2}
MCOneAdder == {a1}
MCWorkers == {w1, w2}
MCControllers == {c1}
MCProps == {p1, p2}
MCMaxTasks == (p1 :> 2) @@ (p2 :> 2)
==============================================================================
