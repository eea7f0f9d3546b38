----------------------------- MODULE AsioSession -----------------------------
(***************************************************************************)
(* What the sessions of boost_net share: one socket, the asynchronous      *)
(* operations they have begun on it, the completions that wait in the      *)
(* io_context, and the threads in the session's code.  All handlers of a   *)
(* session run in one thread, Io (AsioContextPool gives each io_context    *)
(* one thread), in the order in which the operations completed; the        *)
(* threads in Users call the public functions meanwhile.                   *)
(*                                                                         *)
(* pc[t] is the stack of places that t has still to run: <<>> is a thread  *)
(* outside the session, the names in Callbacks are the callbacks of the    *)
(* user, and the others are places in the session's functions.             *)
(***************************************************************************)
EXTENDS Integers, Sequences, FiniteSets, SequencesExt, Selection

CONSTANTS
  Users,          \* threads other than the io thread
  MaxConnects     \* bound of the model: calls of connect

ASSUME AsioAssumption == "io" \notin Users /\ MaxConnects \in Nat \ {0}

VARIABLES
  sock,       \* "closed", "opening" or "open"
  pending,    \* operations begun and not completed, in the order they began
  ready,      \* completions to be handled: which operation, and whether it succeeded
  pc,
  connects    \* calls of connect so far

asio_vars == <<sock, pending, ready, pc, connects>>

Io == "io"
Threads == Users \cup {Io}
Callbacks == {"open_cbk", "read_cbk", "write_cbk", "close_cbk"}
Transfers == {"read", "write"}
Stages == {"resolve", "connect", "tls", "handshake", "accept"}
Completion == [op : Transfers \cup Stages \cup {"overtime", "start"}, ok : BOOLEAN]

Top(t) == IF pc[t] = <<>> THEN "out" ELSE Head(pc[t])
Goto(t, places) == pc' = [pc EXCEPT ![t] = places \o Tail(@)]
Call(t, places) == pc' = [pc EXCEPT ![t] = places \o @]
Return(t) == Goto(t, <<>>)

\* The next statement of t is the user's: it is outside the session or in a callback.
InUserCode(t) == IF pc[t] = <<>> THEN t # Io ELSE Head(pc[t]) \in Callbacks

\* The io thread takes the next completion, which is one of op.
Handles(op) == pc[Io] = <<>> /\ ready # <<>> /\ Head(ready).op = op
Succeeded == Head(ready).ok

\* A read or a write begins: on a socket that
\* is not connected it fails at once.
Begin(op) ==
  IF sock = "open"
  THEN pending' = Append(pending, op) /\ UNCHANGED ready
  ELSE UNCHANGED pending /\ ready' = Append(ready, [op |-> op, ok |-> FALSE])

\* The socket goes away: what is outstanding on it completes with an error, at once.
Aborted ==
  LET ops == Select(pending, {i \in DOMAIN pending : pending[i] # "resolve"})
  IN  [i \in DOMAIN ops |-> [op |-> ops[i], ok |-> FALSE]]
Unaborted == Select(pending, {i \in DOMAIN pending : pending[i] = "resolve"})
Abort(queue) == ready' = queue \o Aborted /\ pending' = Unaborted

\* The network, or the resolver, completes the i-th operation.
Completes(i, ok) ==
  /\ pending' = RemoveAt(pending, i)
  /\ ready' = Append(ready, [op |-> pending[i], ok |-> ok])
  /\ sock' = IF ok /\ pending[i] = "connect" THEN "open" ELSE sock
  /\ UNCHANGED <<pc, connects>>

\* No peer has to send anything, but a read may end in an error.
Settles  == \E i \in DOMAIN pending, ok \in BOOLEAN : pending[i] # "read" /\ Completes(i, ok)
Arrives == \E i \in DOMAIN pending, ok \in BOOLEAN : pending[i] = "read" /\ Completes(i, ok)

Outstanding(op) == Cardinality({i \in DOMAIN pending : pending[i] = op})

\* An attempt to connect is under way: one of its stages, or the completion of one.
Opening == \/ \E i \in DOMAIN pending : pending[i] \in Stages
           \/ \E i \in DOMAIN ready : ready[i].op \in Stages

AsioTypeOK ==
  /\ sock \in {"closed", "opening", "open"}
  /\ pending \in Seq(Transfers \cup Stages)
  /\ ready \in Seq(Completion)
  /\ DOMAIN pc = Threads
  /\ connects \in 0 .. MaxConnects
==============================================================================
