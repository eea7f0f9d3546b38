---------------------------- MODULE MCTimerManager ---------------------------
(* TimerManager for TLC: one user, one owner, time in half milliseconds.         *)
EXTENDS TimerManager

CONSTANTS u1, u2

MCUsers == {u1}
MCOwners == {u2}
MCDurations == {0, 2}
MCIntervals == {1}
MCLoopCounts == {2}
==============================================================================
