------------------------------- MODULE Channel -------------------------------
(***************************************************************************)
(* What a stream session promises to those who write to it.  While it is   *)
(* open it accepts pieces of data and delivers them to the peer in the     *)
(* order in which they were accepted, each at most once.  When it stops    *)
(* it drops what it has not delivered, so that a connection opens with     *)
(* nothing left over from the one before.                                  *)
(***************************************************************************)
EXTENDS Naturals, Sequences

CONSTANT Data
VARIABLES open, queue   \* queue: accepted and not delivered yet

Init == open = FALSE /\ queue = <<>>

Open == /\ ~open /\ queue = <<>>
        /\ open' = TRUE
        /\ UNCHANGED queue

Accept == /\ open
          /\ \E d \in Data : queue' = Append(queue, d)
          /\ UNCHANGED open

Deliver == /\ \E n \in 1 .. Len(queue) : queue' = SubSeq(queue, n + 1, Len(queue))
           /\ UNCHANGED open

Close == /\ open' = FALSE
         /\ queue' \in {queue, <<>>}

Next == Open \/ Accept \/ Deliver \/ Close
Spec == Init /\ [][Next]_<<open, queue>>
==============================================================================
