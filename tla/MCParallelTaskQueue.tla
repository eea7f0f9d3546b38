------------------------- MODULE MCParallelTaskQueue -------------------------
(* ParallelTaskQueue for TLC: one adder, one worker, room for two tasks.      *)
EXTENDS ParallelTaskQueue

CONSTANTS a1, w1

MCAdders == {a1}
MCWorkers == {w1}
==============================================================================
