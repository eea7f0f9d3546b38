--------------------------------- MODULE Rpc ---------------------------------
(***************************************************************************)
(* The requests of an RpcClient to an RpcService (rpc_base.hpp): the three *)
(* maps of SyncProxy and CallbackProxy, the timer of each callback, the    *)
(* packages on a connection that may be lost, and read_cbk, which cuts     *)
(* packages out of what has been read.                                     *)
(*                                                                         *)
(* Each request has a caller of its own.  A response is a sequence of      *)
(* cells, of which the first holds the head and so the length; a read may  *)
(* end at any of them.  The client has one io thread, which runs read_cbk; *)
(* any thread may close the session meanwhile, and a read that completed   *)
(* before is handled after.  The user's callbacks make no calls.           *)
(***************************************************************************)
EXTENDS Integers, Sequences, SequencesExt

CONSTANTS
  Requests,
  Size,               \* cells of each response
  m_max_rbuffer_size, \* how much may wait in the read buffer, in cells
  MaxLosses           \* bound of the model: losses of the connection

ASSUME RpcAssumption ==
  /\ MaxLosses \in Nat /\ m_max_rbuffer_size \in Nat
  /\ \A r \in Requests : Size[r] \in 2 .. m_max_rbuffer_size

VARIABLES
  model,              \* rpc_model of each request: "future" or "callback"
  at,                 \* where the caller of each request is
  m_callback_map, m_overtime_reqs, m_future_map,
  timers,             \* requests whose timer is in the TimerManager
  expired,            \* requests whose time-out waits in the manager's pool
  has_value,          \* requests whose promise has its value
  up, losses,
  requests,           \* on their way to the service
  executing,          \* functions that the service has begun
  responses,          \* cells on their way to the client
  arrived,            \* cells of a completed read whose handler has not run
  m_read_buf,
  reading,            \* read_cbk runs
  units,              \* packages that it has still to deliver
  deal_len,           \* cells that it will consume
  promise,            \* promises that SyncProxy::invoke has found and not set
  status,             \* history: how each call ended
  executed, refused,  \* history: what the service has run, and has answered unrun
  garbled,            \* history: futures whose value is not an answer to them
  early,              \* history: ended before its entry in m_overtime_reqs was made
  torn                \* history: bytes of a connection that is lost are read as the next one's

proxies == <<m_callback_map, m_overtime_reqs, m_future_map, timers, expired, has_value>>
wire == <<up, losses, requests, executing, responses, arrived, m_read_buf>>
reader == <<reading, units, deal_len, promise, torn>>
ran == <<executed, refused>>
history == <<status, ran, garbled, early>>
vars == <<model, at, proxies, wire, reader, history>>

Moves(r, from, to) == at[r] = from /\ at' = [at EXCEPT ![r] = to]
Ends(r, s) == status' = [status EXCEPT ![r] = s]

------------------------------------------------------------------------------
(* CallbackProxy                                                           *)

insert(r) ==
  /\ model[r] = "callback" /\ Moves(r, "idle", "insert_timer")
  /\ m_callback_map' = m_callback_map \cup {r}
  /\ Ends(r, "open")
  /\ UNCHANGED <<model, m_overtime_reqs, m_future_map, timers, expired, has_value, wire, reader, ran,
                 garbled, early>>

\* The timer is made first, and written down in m_overtime_reqs under m_mtx then.
insert_timer(r) ==
  /\ Moves(r, "insert_timer", "emplace")
  /\ timers' = timers \cup {r}
  /\ UNCHANGED <<model, m_callback_map, m_overtime_reqs, m_future_map, expired, has_value, wire,
                 reader, history>>

emplace(r) ==
  /\ Moves(r, "emplace", "write")
  /\ m_overtime_reqs' = m_overtime_reqs \cup {r}
  /\ UNCHANGED <<model, m_callback_map, m_future_map, timers, expired, has_value, wire, reader,
                 history>>

remove_timer(r) ==
  /\ timers' = IF r \in m_overtime_reqs THEN timers \ {r} ELSE timers
  /\ m_overtime_reqs' = m_overtime_reqs \ {r}

\* remove_overtime, remove_unsent and, with "ok", invoke: the callback is called, if it is there.
Finish(r, s) ==
  /\ remove_timer(r)
  /\ m_callback_map' = m_callback_map \ {r}
  /\ IF r \in m_callback_map THEN Ends(r, s) ELSE UNCHANGED status

remove_unsent(r) ==
  /\ Moves(r, "send_error", "done")
  /\ Finish(r, "send_error")
  /\ UNCHANGED <<model, m_future_map, expired, has_value, wire, reader, ran, garbled, early>>

TimerExpires(r) ==
  /\ r \in timers
  /\ timers' = timers \ {r} /\ expired' = expired \cup {r}
  /\ UNCHANGED <<model, at, m_callback_map, m_overtime_reqs, m_future_map, has_value, wire, reader,
                 history>>

remove_overtime(r) ==
  /\ r \in expired
  /\ expired' = expired \ {r}
  /\ Finish(r, "timeout")
  /\ early' = IF at[r] = "emplace" THEN early \cup {r} ELSE early
  /\ UNCHANGED <<model, at, m_future_map, has_value, wire, reader, ran, garbled>>

------------------------------------------------------------------------------
(* SyncProxy                                                               *)

get_next_promise(r) ==
  /\ model[r] = "future" /\ Moves(r, "idle", "write")
  /\ m_future_map' = m_future_map \cup {r}
  /\ Ends(r, "open")
  /\ UNCHANGED <<model, m_callback_map, m_overtime_reqs, timers, expired, has_value, wire, reader,
                 ran, garbled, early>>

\* Waits for the value as long as it takes.
BadWaitFor(r) ==
  /\ r \in has_value /\ Moves(r, "wait_for", "ready")
  /\ UNCHANGED <<model, proxies, wire, reader, history>>

\* The future is ready or its time is over, then the promise is removed.
wait_for(r) ==
  /\ Moves(r, "wait_for", IF r \in has_value THEN "ready" ELSE "timeout")
  /\ UNCHANGED <<model, proxies, wire, reader, history>>

\* Leaves the promise in the map.
BadForgetPromise(r) == UNCHANGED m_future_map
ForgetPromise(r) == m_future_map' = m_future_map \ {r}

\* The status that the answer of the service carries.
Answer(r) == IF r \in refused THEN "no_bind" ELSE "ok"

remove_promise(r) ==
  /\ \/ /\ Moves(r, "ready", "done")
        /\ Ends(r, IF r \in garbled THEN "garbled" ELSE Answer(r))
     \/ Moves(r, "timeout", "done") /\ Ends(r, "timeout")
  /\ ForgetPromise(r)
  /\ UNCHANGED <<model, m_callback_map, m_overtime_reqs, timers, expired, has_value, wire, reader,
                 ran, garbled, early>>

------------------------------------------------------------------------------
(* callback_send and sync_send                                             *)

write(r) ==
  /\ up
  /\ Moves(r, "write", IF model[r] = "callback" THEN "done" ELSE "wait_for")
  /\ requests' = Append(requests, r)
  /\ UNCHANGED <<model, proxies, up, losses, executing, responses, arrived, m_read_buf, reader, history>>

\* The session is not started, or its buffer is full.
write_fails(r) ==
  /\ IF model[r] = "callback"
     THEN Moves(r, "write", "send_error") /\ UNCHANGED status
     ELSE Moves(r, "write", "done") /\ Ends(r, "send_error")
  /\ UNCHANGED <<model, proxies, wire, reader, ran, garbled, early>>

------------------------------------------------------------------------------
(* The service, and the connection                                         *)

Package(r) == [i \in 1 .. Size[r] |-> [head |-> i = 1, of |-> r]]

\* read_cbk of the service invokes the function that is bound.
bind_invoke ==
  /\ requests # <<>>
  /\ requests' = Tail(requests)
  /\ executing' = executing \cup {Head(requests)}
  /\ executed' = executed \cup {Head(requests)}
  /\ UNCHANGED <<model, at, proxies, up, losses, responses, arrived, m_read_buf, reader, status,
                 refused, garbled, early>>

\* Nothing is bound to the name, or the parameters do not unpack: an error is the answer.
no_bind ==
  /\ requests # <<>>
  /\ requests' = Tail(requests)
  /\ refused' = refused \cup {Head(requests)}
  /\ responses' = responses \o Package(Head(requests))
  /\ UNCHANGED <<model, at, proxies, up, losses, executing, arrived, m_read_buf, reader, status,
                 executed, garbled, early>>

\* By bind_auto at once, by the user of bind in any order.
rsp_bind(r) ==
  /\ r \in executing
  /\ executing' = executing \ {r}
  /\ responses' = responses \o Package(r)
  /\ UNCHANGED <<model, at, proxies, up, losses, requests, arrived, m_read_buf, reader, history>>

\* The session closes; the service answers to a session that is gone.
Lost ==
  /\ losses < MaxLosses
  /\ up' = FALSE /\ losses' = losses + 1
  /\ requests' = <<>> /\ executing' = {} /\ responses' = <<>>

\* Keeps what has been read of a package.
BadClearRead == UNCHANGED m_read_buf
ClearRead == m_read_buf' = <<>>

\* By any thread.  Where consume() runs at the same time, its write to the pointer of the
\* streambuf may be the one that stays, and what it leaves is not dropped.
close ==
  /\ up /\ Lost
  /\ \/ /\ ClearRead /\ torn' = (torn /\ reading)
        /\ UNCHANGED <<reading, deal_len>>
     \/ /\ reading /\ units = <<>> /\ promise = {}
        /\ m_read_buf' = SubSeq(m_read_buf, deal_len + 1, Len(m_read_buf))
        /\ torn' = (m_read_buf' # <<>>)
        /\ reading' = FALSE /\ deal_len' = 0
  /\ UNCHANGED <<model, at, proxies, arrived, units, promise, history>>

\* The handler of the connect comes to the io thread behind those that are there.
connect ==
  /\ ~up /\ ~reading /\ arrived = <<>>
  /\ up' = TRUE
  /\ UNCHANGED <<model, at, proxies, losses, requests, executing, responses, arrived, m_read_buf,
                 reader, history>>

------------------------------------------------------------------------------
(* The reads of the client                                                 *)

\* Room is left for a read as long as a package fits the buffer.
ReadCompletes ==
  /\ up /\ ~reading /\ arrived = <<>>
  /\ \E n \in 1 .. Len(responses) :
       /\ Len(m_read_buf) + n <= m_max_rbuffer_size
       /\ arrived' = SubSeq(responses, 1, n)
       /\ responses' = SubSeq(responses, n + 1, Len(responses))
  /\ UNCHANGED <<model, at, proxies, up, losses, requests, executing, m_read_buf, reader, history>>

\* unpackage_msg: where the first package that is not complete begins, and the packages
\* before.  What lies where a head is expected is taken for one, of the length garbage.
Unpackaged(buf, garbage) ==
  LET scan[i \in 1 .. Len(buf) + 1] ==
        IF i > Len(buf) THEN [rest |-> i, units |-> <<>>]
        ELSE LET next == i + (IF buf[i].head THEN Size[buf[i].of] ELSE garbage[i])
             IN  IF next > Len(buf) + 1 THEN [rest |-> i, units |-> <<>>]
                 ELSE [scan[next] EXCEPT !.units = <<SubSeq(buf, i, next - 1)>> \o @]
  IN  scan[1]

Garbage(buf) == [{i \in 1 .. Len(buf) : ~buf[i].head} -> 1 .. Len(buf) + 1]

Misread(buf, cut) ==
  \/ \E i \in 1 .. Len(cut.units) : ~cut.units[i][1].head
  \/ cut.rest <= Len(buf) /\ ~buf[cut.rest].head

\* commit does not look at the switch; read_cbk is given all that is there.
handle_read ==
  /\ ~reading /\ arrived # <<>>
  /\ LET buf == m_read_buf \o arrived
     IN  \E garbage \in Garbage(buf) :
           LET cut == Unpackaged(buf, garbage)
           IN  m_read_buf' = buf /\ units' = cut.units /\ deal_len' = cut.rest - 1
  /\ reading' = TRUE /\ arrived' = <<>> /\ torn' = (torn \/ ~up)
  /\ UNCHANGED <<model, at, proxies, up, losses, requests, executing, responses, promise, history>>

\* shutdown() by read_cbk, with buf in the read buffer.
Shutdown(buf) ==
  IF up THEN Lost /\ ClearRead /\ torn' = FALSE
  ELSE /\ m_read_buf' = buf /\ torn' = TRUE
       /\ UNCHANGED <<up, losses, requests, executing, responses>>

\* unpackage_msg finds a head that is none.
bad_package ==
  /\ ~reading /\ arrived # <<>>
  /\ LET buf == m_read_buf \o arrived
     IN  /\ \E garbage \in Garbage(buf) : Misread(buf, Unpackaged(buf, garbage))
         /\ Shutdown(buf)
  /\ arrived' = <<>>
  /\ UNCHANGED <<model, at, proxies, reading, units, deal_len, promise, history>>

Intact(unit) == unit = Package(unit[1].of)

\* Whose answer it is, or may be taken for.
Named(unit) == IF unit[1].head THEN {unit[1].of} ELSE Requests

callback_invoke ==
  /\ units # <<>> /\ promise = {}
  /\ \E r \in Named(Head(units)) :
       /\ model[r] = "callback"
       /\ Finish(r, IF Intact(Head(units)) THEN Answer(r) ELSE "garbled")
       /\ early' = IF at[r] \in {"insert_timer", "emplace"} THEN early \cup {r} ELSE early
  /\ units' = Tail(units)
  /\ UNCHANGED <<model, at, m_future_map, expired, has_value, wire, reading, deal_len, promise, torn,
                 ran, garbled>>

\* get_promise takes the lock, set_value comes after it.
sync_invoke ==
  /\ units # <<>> /\ promise = {}
  /\ \E r \in Named(Head(units)) :
       /\ model[r] = "future"
       /\ promise' = {r} \cap m_future_map
       /\ units' = IF r \in m_future_map THEN units ELSE Tail(units)
  /\ UNCHANGED <<model, at, proxies, wire, reading, deal_len, torn, history>>

\* A second value is not accepted: std::future_error ends the program.
set_value ==
  /\ promise # {} /\ promise \cap has_value = {}
  /\ has_value' = has_value \cup promise
  /\ garbled' = IF Intact(Head(units)) THEN garbled ELSE garbled \cup promise
  /\ promise' = {} /\ units' = Tail(units)
  /\ UNCHANGED <<model, at, m_callback_map, m_overtime_reqs, m_future_map, timers, expired, wire,
                 reading, deal_len, torn, status, ran, early>>

\* It is read as a request, or as the answer to no call; or its rpc_model is none.
misread ==
  /\ units # <<>> /\ promise = {} /\ ~Head(units)[1].head
  /\ \/ units' = Tail(units) /\ UNCHANGED <<wire, reading, deal_len, torn>>
     \/ /\ Shutdown(m_read_buf)
        /\ units' = <<>> /\ reading' = FALSE /\ deal_len' = 0
        /\ UNCHANGED arrived
  /\ UNCHANGED <<model, at, proxies, promise, history>>

\* Refused once the session is closed.
consume_read_buf ==
  /\ reading /\ units = <<>> /\ promise = {}
  /\ m_read_buf' = IF up THEN SubSeq(m_read_buf, deal_len + 1, Len(m_read_buf)) ELSE m_read_buf
  /\ torn' = (torn /\ (up \/ m_read_buf # <<>>))
  /\ reading' = FALSE /\ deal_len' = 0
  /\ UNCHANGED <<model, at, proxies, up, losses, requests, executing, responses, arrived, units,
                 promise, history>>

------------------------------------------------------------------------------
Init ==
  /\ model \in [Requests -> {"future", "callback"}]
  /\ at = [r \in Requests |-> "idle"]
  /\ m_callback_map = {} /\ m_overtime_reqs = {} /\ m_future_map = {}
  /\ timers = {} /\ expired = {} /\ has_value = {}
  /\ up = TRUE /\ losses = 0 /\ requests = <<>> /\ executing = {} /\ responses = <<>>
  /\ arrived = <<>> /\ m_read_buf = <<>>
  /\ reading = FALSE /\ units = <<>> /\ deal_len = 0 /\ promise = {} /\ torn = FALSE
  /\ status = [r \in Requests |-> "none"]
  /\ executed = {} /\ refused = {} /\ garbled = {} /\ early = {}

call(r) ==
  \/ insert_timer(r) \/ emplace(r) \/ remove_unsent(r) \/ write(r) \/ write_fails(r)
  \/ wait_for(r) \/ remove_promise(r)

Next ==
  \/ \E r \in Requests : \/ insert(r) \/ get_next_promise(r) \/ call(r)
                         \/ TimerExpires(r) \/ remove_overtime(r) \/ rsp_bind(r)
  \/ bind_invoke \/ no_bind \/ close \/ connect
  \/ ReadCompletes \/ handle_read \/ bad_package
  \/ callback_invoke \/ sync_invoke \/ set_value \/ misread \/ consume_read_buf

Spec == Init /\ [][Next]_vars

\* Callers run and timers expire.  Nothing is assumed of the peer and of the
\* connection, nor of the pool that runs what the TimerManager hands over: its
\* ParallelTaskQueue may leave a task with an idle thread.
FairSpec ==
  Spec /\ \A r \in Requests : WF_vars(call(r)) /\ WF_vars(TimerExpires(r))

------------------------------------------------------------------------------
TypeOK ==
  /\ model \in [Requests -> {"future", "callback"}]
  /\ DOMAIN at = Requests /\ DOMAIN status = Requests
  /\ m_callback_map \cup m_overtime_reqs \cup timers \cup expired \subseteq
       {r \in Requests : model[r] = "callback"}
  /\ m_future_map \cup has_value \subseteq {r \in Requests : model[r] = "future"}
  /\ Len(m_read_buf) + Len(arrived) <= m_max_rbuffer_size

\* A call that has ended is in none of the maps of the proxies, but for a future that
\* could not be sent (rpc_base.hpp:895) and a callback that was ended, by its timer or by
\* torn bytes, before insert_timer wrote the timer down; and a callback that waits has a
\* timer, or its time-out is on its way.
NothingLeftBehind ==
  TypeOK /\ \A r \in Requests :
    /\ r \in m_callback_map => status[r] = "open"
    /\ r \in m_callback_map => at[r] = "insert_timer" \/ r \in timers \cup expired
    /\ r \in m_overtime_reqs => r \in m_callback_map \cup early
    /\ r \in m_future_map /\ at[r] = "done" => status[r] = "send_error"

Abstract == INSTANCE Calls

\* The proxies implement calls that end at most once, and with the answer of the service
\* to them, whatever is lost, late or cut in two; but for the calls that end while bytes
\* that handle_read has committed after close() are read as those of the next connection.
CallsComplete == Abstract!Spec

\* Every call ends, or its time-out waits in the pool of the TimerManager.
EveryCallEnds ==
  \A r \in Requests : (status[r] = "open") ~> (status[r] # "open" \/ r \in expired)
==============================================================================
