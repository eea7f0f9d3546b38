------------------------------ MODULE RpcProofs ------------------------------
(***************************************************************************)
(* What the RPC layer guarantees for any number of requests, packages of   *)
(* any length that fits the read buffer and any number of lost             *)
(* connections: NothingLeftBehind, and that the proxies implement Calls.   *)
(***************************************************************************)
EXTENDS Rpc, DataLemmas

------------------------------------------------------------------------------
(* The inductive invariant.                                                *)

Ran == executed \cup refused
Cell == [head : BOOLEAN, of : Requests]
Answered == [head : BOOLEAN, of : Ran]
Places == {"idle", "insert_timer", "emplace", "write", "send_error", "wait_for", "ready",
           "timeout", "done"}
Statuses == {"none", "open", "ok", "no_bind", "garbled", "timeout", "send_error"}
Waiting == {"write", "wait_for", "ready", "timeout"}
Sent == {"wait_for", "ready", "timeout", "done"}

\* Where the caller of a callback is tells what the maps and the timers hold of it.
CallbackInv(r) ==
  /\ at[r] \in {"idle", "insert_timer", "emplace", "write", "send_error", "done"}
  /\ status[r] = "none" <=> at[r] = "idle"
  /\ r \in m_callback_map <=> status[r] = "open"
  /\ at[r] = "idle" => r \notin m_overtime_reqs
  /\ at[r] \in {"idle", "insert_timer"} => r \notin timers \cup expired
  /\ at[r] \in {"insert_timer", "emplace"} => r \in m_callback_map \cup early
  /\ r \in m_callback_map => at[r] = "insert_timer" \/ r \in timers \cup expired
  /\ r \in m_overtime_reqs => r \in m_callback_map \cup early

\* The same for a future.
FutureInv(r) ==
  /\ at[r] \in Waiting \cup {"idle", "done"}
  /\ status[r] = "none" <=> at[r] = "idle"
  /\ status[r] = "open" <=> at[r] \in Waiting
  /\ r \in m_future_map /\ at[r] = "done" => status[r] = "send_error"
  /\ at[r] = "ready" => r \in has_value

CallerInv ==
  /\ model \in [Requests -> {"future", "callback"}]
  /\ at \in [Requests -> Places] /\ status \in [Requests -> Statuses]
  /\ m_callback_map \cup m_overtime_reqs \cup timers \cup expired \subseteq
       {r \in Requests : model[r] = "callback"}
  /\ m_future_map \cup has_value \cup promise \subseteq {r \in Requests : model[r] = "future"}
  /\ \A r \in Requests : IF model[r] = "callback" THEN CallbackInv(r) ELSE FutureInv(r)

\* A request is on the wire at most once, and only after its caller has written it; what
\* has a value has been answered, or was garbled.
RequestsInv ==
  /\ requests \in Seq(Requests)
  /\ \A i, j \in 1 .. Len(requests) : requests[i] = requests[j] => i = j
  /\ \A i \in 1 .. Len(requests) : requests[i] \notin Ran /\ at[requests[i]] \in Sent
  /\ Ran \subseteq {r \in Requests : at[r] \in Sent}
  /\ executing \subseteq executed
  /\ has_value \subseteq Ran \cup garbled
  /\ ~up => requests = <<>> /\ executing = {}

\* s is a row of packages: where a head is, its package lies whole, and the next head follows.
Whole(s, i) ==
  LET r == s[i].of
  IN  /\ i + Size[r] - 1 <= Len(s)
      /\ \A k \in 1 .. Size[r] : s[i + k - 1] = Package(r)[k]
      /\ i + Size[r] <= Len(s) => s[i + Size[r]].head

Framed(s) ==
  /\ s \in Seq(Cell)
  /\ Len(s) > 0 => s[1].head
  /\ \A i \in 1 .. Len(s) : s[i].head => Whole(s, i)

\* What the client has still to cut into packages.
Unread == IF reading THEN SubSeq(m_read_buf, deal_len + 1, Len(m_read_buf))
          ELSE m_read_buf \o arrived

\* The client reads whole packages, of a connection that is up, or nothing.
Untorn ==
  /\ IF up THEN Framed(Unread \o responses) ELSE m_read_buf = <<>>
  /\ \A i \in 1 .. Len(units) : Intact(units[i])

\* All that is under way was answered; and it lies in packages, if it is not torn.
ResponsesInv ==
  /\ up \in BOOLEAN /\ reading \in BOOLEAN /\ torn \in BOOLEAN
  /\ m_read_buf \in Seq(Answered) /\ arrived \in Seq(Answered) /\ responses \in Seq(Answered)
  /\ units \in Seq(Seq(Answered) \ {<<>>})
  /\ deal_len \in Nat
  /\ Len(m_read_buf) + Len(arrived) <= m_max_rbuffer_size
  /\ IF reading THEN arrived = <<>> ELSE units = <<>>
  /\ promise # {} => units # <<>> /\ \E r \in Named(Head(units)) : promise = {r}
  /\ ~up => responses = <<>>
  /\ ~torn => Untorn

RpcInv == CallerInv /\ RequestsInv /\ ResponsesInv

\* The empty sequence is a row of packages.
LEMMA EmptyFramed == Framed(<<>>)
  BY EmptySeq DEF Framed

\* RpcInv holds initially.
LEMMA RpcInvInit == Init => RpcInv
  <1> SUFFICES ASSUME Init PROVE RpcInv
    OBVIOUS
  <1>1. CallerInv
    BY DEF Init, CallerInv, CallbackInv, FutureInv, Places, Statuses, Waiting
  <1>2. RequestsInv
    BY DEF Init, RequestsInv, Ran
  <1>3. ResponsesInv
    <2>1. m_read_buf \o arrived = <<>> /\ <<>> \o <<>> = <<>>
      BY DEF Init
    <2>2. Untorn
      BY <2>1, EmptyFramed DEF Init, Untorn, Unread
    <2> DEFINE S == Seq(Answered) \ {<<>>}
    <2>3. /\ units \in Seq(S) /\ units = <<>> /\ promise = {} /\ up /\ ~reading /\ deal_len = 0
          /\ torn = FALSE /\ up = TRUE /\ reading = FALSE
      BY DEF Init
    <2>4. /\ m_read_buf \in Seq(Answered) /\ arrived \in Seq(Answered)
          /\ responses \in Seq(Answered) /\ Len(m_read_buf) = 0 /\ Len(arrived) = 0
      BY DEF Init
    <2>5. Len(m_read_buf) + Len(arrived) <= m_max_rbuffer_size
      BY <2>4, RpcAssumption
    <2> QED
      BY <2>2, <2>3, <2>4, <2>5 DEF ResponsesInv
  <1> QED
    BY <1>1, <1>2, <1>3 DEF RpcInv

------------------------------------------------------------------------------
(* The callers.                                                            *)

\* A step of the caller of a callback, or of its timer.
LEMMA CallbackKeepsCallerInv ==
  ASSUME CallerInv, NEW r \in Requests,
         \/ insert(r) \/ insert_timer(r) \/ emplace(r) \/ remove_unsent(r)
         \/ TimerExpires(r) \/ remove_overtime(r)
  PROVE  CallerInv'
  <1> USE DEF CallerInv, CallbackInv, FutureInv, Places, Statuses, Waiting, Moves, Ends, Finish,
              remove_timer
  <1>1. CASE insert(r)
    BY <1>1 DEF insert, reader
  <1>2. CASE insert_timer(r)
    BY <1>2 DEF insert_timer, reader, history
  <1>3. CASE emplace(r)
    BY <1>3 DEF emplace, reader, history
  <1>4. CASE remove_unsent(r)
    BY <1>4 DEF remove_unsent, reader
  <1>5. CASE TimerExpires(r)
    BY <1>5 DEF TimerExpires, reader, history
  <1>6. CASE remove_overtime(r)
    BY <1>6 DEF remove_overtime, reader
  <1> QED
    BY <1>1, <1>2, <1>3, <1>4, <1>5, <1>6

\* A step of the caller of a future, and what both kinds do.
LEMMA FutureKeepsCallerInv ==
  ASSUME CallerInv, NEW r \in Requests,
         \/ get_next_promise(r) \/ wait_for(r) \/ remove_promise(r) \/ write(r) \/ write_fails(r)
  PROVE  CallerInv'
  <1> USE DEF CallerInv, CallbackInv, FutureInv, Places, Statuses, Waiting, Moves, Ends
  <1>1. CASE get_next_promise(r)
    BY <1>1 DEF get_next_promise, reader
  <1>2. CASE wait_for(r)
    BY <1>2 DEF wait_for, proxies, reader, history
  <1>3. CASE remove_promise(r)
    BY <1>3 DEF remove_promise, ForgetPromise, Answer, reader
  <1>4. CASE write(r)
    BY <1>4 DEF write, proxies, reader, history
  <1>5. CASE write_fails(r)
    BY <1>5 DEF write_fails, proxies, reader
  <1> QED
    BY <1>1, <1>2, <1>3, <1>4, <1>5

------------------------------------------------------------------------------
(* Packages.                                                               *)

\* The cells of a package: as many as its size, all of its request, only the first one a head.
LEMMA PackageCells ==
  ASSUME NEW r \in Requests
  PROVE  /\ Package(r) \in Seq(Cell)
         /\ Len(Package(r)) = Size[r] /\ Size[r] \in Nat \ {0, 1}
         /\ \A k \in 1 .. Size[r] : Package(r)[k].of = r /\ (Package(r)[k].head <=> k = 1)
         /\ Package(r)[1].of = r
         /\ Intact(Package(r))
  <1>1. Size[r] \in Nat \ {0, 1}
    BY RpcAssumption
  <1>2. \A k \in 1 .. Size[r] : [head |-> k = 1, of |-> r] \in Cell
    BY DEF Cell
  <1>3. Package(r) \in Seq(Cell)
    BY <1>1, <1>2 DEF Package
  <1>4. Len(Package(r)) = Size[r]
    BY <1>1 DEF Package
  <1>5. \A k \in 1 .. Size[r] : Package(r)[k].of = r /\ (Package(r)[k].head <=> k = 1)
    BY DEF Package
  <1>6. Package(r)[1].of = r
    <2>1. 1 \in 1 .. Size[r]
      BY <1>1
    <2> QED
      BY <1>5, <2>1
  <1> QED
    BY <1>1, <1>3, <1>4, <1>5, <1>6 DEF Intact

\* The package that read_cbk delivers next, and whose answer it is or may be taken for.
LEMMA HeadUnit ==
  ASSUME RpcInv, units # <<>>
  PROVE  LET unit == Head(units)
         IN  /\ reading
             /\ unit \in Seq(Answered) /\ unit # <<>>
             /\ Named(unit) \subseteq Requests
             /\ ~torn => Intact(unit)
             /\ Intact(unit) => \E r \in Ran : unit = Package(r) /\ Named(unit) = {r}
  <1> DEFINE unit == Head(units)
  <1>1. unit = units[1] /\ 1 \in 1 .. Len(units)
    BY EmptySeq DEF RpcInv, ResponsesInv
  <1>2. unit \in Seq(Answered) \ {<<>>}
    <2> DEFINE S == Seq(Answered) \ {<<>>}
    <2>1. units \in Seq(S)
      BY DEF RpcInv, ResponsesInv
    <2> HIDE DEF S
    <2>2. units[1] \in S
      BY <1>1, <2>1, ElementOfSeq
    <2> QED
      BY <1>1, <2>2 DEF S
  <1>3. unit[1] \in Answered
    <2>1. 1 \in 1 .. Len(unit)
      BY <1>2, EmptySeq
    <2> QED
      BY <1>2, <2>1, ElementOfSeq
  <1>4. Ran \subseteq Requests
    BY DEF RpcInv, RequestsInv
  <1>5. reading
    BY DEF RpcInv, ResponsesInv
  <1>6. ~torn => Intact(unit)
    BY <1>1 DEF RpcInv, ResponsesInv, Untorn
  <1> HIDE DEF unit
  <1>7. unit[1].of \in Ran
    BY <1>3 DEF Answered
  <1>8. ASSUME Intact(unit)
        PROVE  unit = Package(unit[1].of) /\ Named(unit) = {unit[1].of}
    <2>1. unit = Package(unit[1].of)
      BY <1>8 DEF Intact
    <2>2. 1 \in 1 .. Size[unit[1].of] /\ unit[1].of \in Requests
      BY <1>4, <1>7, RpcAssumption
    <2>3. Package(unit[1].of)[1].head
      BY <2>2, PackageCells
    <2> QED
      BY <2>1, <2>3 DEF Named
  <1>9. Named(unit) \subseteq Requests
    BY <1>4, <1>7 DEF Named
  <1> QED
    BY <1>2, <1>5, <1>6, <1>7, <1>8, <1>9 DEF unit

\* What read_cbk does with it.
LEMMA DeliveryKeepsCallerInv ==
  ASSUME RpcInv, callback_invoke \/ sync_invoke \/ set_value
  PROVE  CallerInv'
  <1> USE DEF CallerInv, CallbackInv, FutureInv, Places, Statuses, Waiting
  <1>1. CASE callback_invoke
    <2>1. PICK r \in Named(Head(units)) :
            /\ model[r] = "callback"
            /\ Finish(r, IF Intact(Head(units)) THEN Answer(r) ELSE "garbled")
            /\ early' = IF at[r] \in {"insert_timer", "emplace"} THEN early \cup {r} ELSE early
      BY <1>1 DEF callback_invoke
    <2>2. r \in Requests
      BY <1>1, HeadUnit DEF callback_invoke
    <2>3. PICK s \in {"ok", "no_bind", "garbled"} : Finish(r, s)
      BY <2>1 DEF Answer
    <2>4. UNCHANGED <<model, at, m_future_map, expired, has_value, promise>>
      BY <1>1 DEF callback_invoke
    <2> QED
      BY <2>1, <2>2, <2>3, <2>4 DEF RpcInv, Finish, Ends, remove_timer
  <1>2. CASE sync_invoke
    BY <1>2 DEF RpcInv, sync_invoke, proxies, history
  <1>3. CASE set_value
    BY <1>3 DEF RpcInv, set_value
  <1> QED
    BY <1>1, <1>2, <1>3

------------------------------------------------------------------------------
(* Requests and their execution.                                           *)

\* Where nothing is written and nothing is run, a caller may only go on.
LEMMA RequestsInvFrame ==
  ASSUME RequestsInv,
         UNCHANGED <<requests, executing, has_value, ran, garbled>>, up => up',
         \A r \in Requests : at[r] \in Sent => at'[r] \in Sent
  PROVE  RequestsInv'
  BY DEF RequestsInv, Ran, ran

\* write() puts a request on the wire that is not there yet.
LEMMA WriteKeepsRequestsInv ==
  ASSUME RpcInv, NEW r \in Requests, write(r)
  PROVE  RequestsInv'
  <1>1. /\ requests \in Seq(Requests)
        /\ \A i \in 1 .. Len(requests) : requests[i] # r
        /\ r \notin Ran
    BY DEF RpcInv, RequestsInv, write, Moves, Sent
  <1>2. /\ requests' \in Seq(Requests)
        /\ Len(requests') = Len(requests) + 1
        /\ \A i \in 1 .. Len(requests) : requests'[i] = requests[i]
        /\ requests'[Len(requests) + 1] = r
    BY <1>1, AppendProperties DEF write
  <1>3. \A q \in Requests : (q = r \/ at[q] \in Sent) => at'[q] \in Sent
    BY DEF RpcInv, CallerInv, write, Moves, Sent
  <1>4. UNCHANGED <<executing, has_value, garbled, up>> /\ Ran' = Ran /\ up
    BY DEF write, proxies, history, ran, Ran
  <1>5. \A i, j \in 1 .. Len(requests') : requests'[i] = requests'[j] => i = j
    BY <1>1, <1>2 DEF RpcInv, RequestsInv
  <1>6. \A i \in 1 .. Len(requests') : requests'[i] \notin Ran /\ at'[requests'[i]] \in Sent
    <2> SUFFICES ASSUME NEW i \in 1 .. Len(requests')
                 PROVE  requests'[i] \notin Ran /\ at'[requests'[i]] \in Sent
      OBVIOUS
    <2>1. CASE i \in 1 .. Len(requests)
      <3>1. requests[i] \in Requests
        BY <1>1, <2>1, ElementOfSeq
      <3> QED
        BY <1>2, <1>3, <2>1, <3>1 DEF RpcInv, RequestsInv
    <2>2. CASE i = Len(requests) + 1
      BY <1>1, <1>2, <1>3, <2>2
    <2> QED
      BY <1>1, <1>2, <2>1, <2>2
  <1>7. Ran' \subseteq {q \in Requests : at'[q] \in Sent}
    BY <1>3, <1>4 DEF RpcInv, RequestsInv
  <1>8. executing' \subseteq executed' /\ has_value' \subseteq Ran' \cup garbled'
    BY <1>4 DEF RpcInv, RequestsInv, write, history, ran
  <1> QED
    BY <1>2, <1>4, <1>5, <1>6, <1>7, <1>8 DEF RequestsInv

\* The service runs, or refuses, the first request on the wire and takes it off.
LEMMA ServiceKeepsRequestsInv ==
  ASSUME RequestsInv, bind_invoke \/ no_bind
  PROVE  RequestsInv'
  <1> DEFINE r == Head(requests)
  <1>1. /\ requests \in Seq(Requests) /\ requests # <<>>
        /\ requests' = Tail(requests)
        /\ executing' \subseteq executed' /\ Ran' = Ran \cup {r}
        /\ UNCHANGED <<at, has_value, garbled, up>>
    BY DEF RequestsInv, bind_invoke, no_bind, proxies, reader, Ran
  <1>2. /\ r = requests[1] /\ Len(requests) >= 1
        /\ requests' \in Seq(Requests)
        /\ Len(requests') = Len(requests) - 1
        /\ \A i \in 1 .. Len(requests') : requests'[i] = requests[i + 1]
    BY <1>1, HeadTailProperties, EmptySeq
  <1> HIDE DEF r
  <1>3. r \in Requests /\ at[r] \in Sent
    BY <1>2 DEF RequestsInv
  <1>4. \A i, j \in 1 .. Len(requests') : requests'[i] = requests'[j] => i = j
    BY <1>2 DEF RequestsInv
  <1>5. \A i \in 1 .. Len(requests') :
          requests'[i] # r /\ requests'[i] \notin Ran /\ at[requests'[i]] \in Sent
    <2> SUFFICES ASSUME NEW i \in 1 .. Len(requests')
                 PROVE  /\ requests'[i] # r /\ requests'[i] \notin Ran
                        /\ at[requests'[i]] \in Sent
      OBVIOUS
    <2>1. /\ i + 1 \in 1 .. Len(requests) /\ 1 \in 1 .. Len(requests) /\ i + 1 # 1
          /\ requests'[i] = requests[i + 1]
      BY <1>1, <1>2
    <2>2. requests[i + 1] # requests[1]
      BY <2>1 DEF RequestsInv
    <2>3. requests[i + 1] \notin Ran /\ at[requests[i + 1]] \in Sent
      BY <2>1 DEF RequestsInv
    <2> QED
      BY <1>2, <2>1, <2>2, <2>3
  <1>6. up'
    BY <1>1 DEF RequestsInv
  <1> QED
    BY <1>1, <1>2, <1>3, <1>4, <1>5, <1>6 DEF RequestsInv

\* A lost connection loses the requests.
LEMMA LostKeepsRequestsInv ==
  ASSUME RequestsInv, Lost, UNCHANGED <<at, has_value, ran, garbled>>
  PROVE  RequestsInv'
  BY EmptySeq DEF RequestsInv, Lost, Ran, ran

\* Every step keeps RequestsInv.
LEMMA StepKeepsRequestsInv ==
  ASSUME RpcInv, [Next]_vars
  PROVE  RequestsInv'
  <1> USE DEF RpcInv
  <1>1. ASSUME NEW r \in Requests,
               \/ insert(r) \/ insert_timer(r) \/ emplace(r) \/ remove_unsent(r) \/ TimerExpires(r)
               \/ remove_overtime(r) \/ get_next_promise(r) \/ wait_for(r) \/ remove_promise(r)
               \/ write_fails(r)
        PROVE  RequestsInv'
    <2>1. UNCHANGED <<requests, executing, has_value, ran, garbled, up>>
      BY <1>1 DEF insert, insert_timer, emplace, remove_unsent, TimerExpires, remove_overtime,
         get_next_promise, wait_for, remove_promise, write_fails, proxies, wire, reader, history
    <2>2. \A q \in Requests : at[q] \in Sent => at'[q] \in Sent
      BY <1>1 DEF insert, insert_timer, emplace, remove_unsent, TimerExpires, remove_overtime,
         get_next_promise, wait_for, remove_promise, write_fails, Moves, Sent, CallerInv
    <2> QED
      BY <2>1, <2>2, RequestsInvFrame
  <1>2. ASSUME NEW r \in Requests, rsp_bind(r)
        PROVE  RequestsInv'
    BY <1>2 DEF RequestsInv, rsp_bind, proxies, reader, history, ran, Ran
  <1>3. CASE close
    BY <1>3, LostKeepsRequestsInv DEF close, proxies, history
  <1>4. ASSUME \/ connect \/ ReadCompletes \/ handle_read \/ callback_invoke \/ sync_invoke
               \/ consume_read_buf \/ UNCHANGED vars
        PROVE  RequestsInv'
    <2>1. UNCHANGED <<at, requests, executing, has_value, ran, garbled>> /\ (up => up')
      BY <1>4 DEF connect, ReadCompletes, handle_read, callback_invoke, sync_invoke,
         consume_read_buf, vars, proxies, wire, reader, history
    <2> QED
      BY <2>1, RequestsInvFrame
  <1>5. CASE bad_package \/ misread
    <2>1. UNCHANGED <<at, has_value, ran, garbled>>
      BY <1>5 DEF bad_package, misread, proxies, history
    <2>2. Lost \/ UNCHANGED <<up, requests, executing>>
      BY <1>5 DEF bad_package, misread, Shutdown, wire
    <2> QED
      BY <2>1, <2>2, LostKeepsRequestsInv, RequestsInvFrame
  <1>6. CASE set_value
    <2>1. Intact(Head(units)) => promise \subseteq Ran
      BY <1>6, HeadUnit DEF set_value, ResponsesInv
    <2>2. has_value' \subseteq Ran \cup garbled'
      BY <1>6, <2>1 DEF set_value, RequestsInv
    <2>3. UNCHANGED <<at, requests, executing, ran, up>>
      BY <1>6 DEF set_value, wire
    <2> QED
      BY <2>2, <2>3 DEF RequestsInv, Ran, ran
  <1> QED
    BY <1>1, <1>2, <1>3, <1>4, <1>5, <1>6, WriteKeepsRequestsInv, ServiceKeepsRequestsInv
       DEF Next, call

------------------------------------------------------------------------------
(* Rows of packages.                                                       *)

\* A stream of whole packages stays one when a package is written behind it.
LEMMA FramedAppend ==
  ASSUME NEW s, Framed(s), NEW r \in Requests
  PROVE  Framed(s \o Package(r))
  <1> DEFINE p == Package(r)
             t == s \o p
             n == Len(s)
  <1>1. s \in Seq(Cell) /\ n \in Nat
    BY DEF Framed
  <1>2. \A i \in 1 .. n : s[i].head => Whole(s, i)
    BY DEF Framed
  <1>3. p \in Seq(Cell) /\ Len(p) = Size[r] /\ Size[r] \in Nat \ {0, 1}
    BY PackageCells
  <1>4. \A k \in 1 .. Size[r] : p[k].of = r /\ (p[k].head <=> k = 1)
    BY PackageCells
  <1>5. /\ t \in Seq(Cell) /\ Len(t) = n + Size[r]
        /\ \A i \in 1 .. n : t[i] = s[i]
        /\ \A k \in 1 .. Size[r] : t[n + k] = p[k]
    BY <1>1, <1>3, ConcatElements
  <1> HIDE DEF p, t, n
  <1>6. t[n + 1].head
    <2>1. 1 \in 1 .. Size[r]
      BY <1>3
    <2> QED
      BY <1>4, <1>5, <2>1
  <1>7. t[1].head
    <2>1. CASE n = 0
      BY <1>6, <2>1
    <2>2. CASE n # 0
      BY <1>1, <1>5, <2>2 DEF Framed, n
    <2> QED
      BY <2>1, <2>2
  <1>8. ASSUME NEW i \in 1 .. n, s[i].head
        PROVE  Whole(t, i)
    <2> DEFINE q == s[i].of
               z == Size[q]
    <2>1. t[i] = s[i] /\ s[i] \in Cell
      BY <1>1, <1>5, ElementOfSeq DEF n
    <2>2. z \in Nat \ {0, 1}
      BY <2>1, PackageCells DEF Cell
    <2>3. Whole(s, i)
      BY <1>2, <1>8
    <2>4. i + z - 1 <= n
      BY <2>3 DEF Whole, n
    <2>5. \A k \in 1 .. z : s[i + k - 1] = Package(q)[k]
      BY <2>3 DEF Whole
    <2>6. i + z <= n => s[i + z].head
      BY <2>3 DEF Whole, n
    <2> HIDE DEF z
    <2>7. \A k \in 1 .. z : t[i + k - 1] = Package(q)[k]
      <3> SUFFICES ASSUME NEW k \in 1 .. z PROVE t[i + k - 1] = Package(q)[k]
        OBVIOUS
      <3>1. i + k - 1 \in 1 .. n
        BY <1>1, <2>2, <2>4
      <3> QED
        BY <1>5, <2>5, <3>1
    <2>8. i + z <= Len(t) => t[i + z].head
      <3>1. CASE i + z <= n
        <4>1. i + z \in 1 .. n
          BY <1>1, <2>2, <3>1
        <4> QED
          BY <1>5, <2>6, <3>1, <4>1
      <3>2. CASE i + z = n + 1
        BY <1>6, <3>2
      <3> QED
        BY <1>1, <1>3, <1>5, <2>2, <2>4, <3>1, <3>2
    <2>9. i + z - 1 <= Len(t)
      BY <1>1, <1>3, <1>5, <2>2, <2>4
    <2> QED
      BY <2>1, <2>7, <2>8, <2>9 DEF Whole, z
  <1>9. ASSUME NEW i \in n + 1 .. Len(t), t[i].head
        PROVE  Whole(t, i)
    <2>1. i - n \in 1 .. Size[r] /\ i = n + (i - n)
      BY <1>1, <1>3, <1>5
    <2>2. t[i] = p[i - n]
      BY <1>5, <2>1
    <2>3. i = n + 1 /\ t[i].of = r
      BY <1>1, <1>4, <1>9, <2>1, <2>2
    <2>4. \A k \in 1 .. Size[r] : t[i + k - 1] = p[k]
      <3> SUFFICES ASSUME NEW k \in 1 .. Size[r] PROVE t[i + k - 1] = p[k]
        OBVIOUS
      <3>1. i + k - 1 = n + k
        BY <1>1, <1>3, <2>3
      <3> QED
        BY <1>5, <3>1
    <2>5. i + Size[r] - 1 <= Len(t) /\ ~(i + Size[r] <= Len(t))
      BY <1>1, <1>3, <1>5, <2>3
    <2> QED
      BY <2>3, <2>4, <2>5 DEF Whole, p
  <1>10. ASSUME NEW i \in 1 .. Len(t), t[i].head
         PROVE  Whole(t, i)
    <2>1. CASE i \in 1 .. n
      <3>1. s[i].head
        BY <1>5, <1>10, <2>1
      <3> QED
        BY <1>8, <2>1, <3>1
    <2>2. CASE i \in n + 1 .. Len(t)
      BY <1>9, <1>10, <2>2
    <2>3. i \in 1 .. n \/ i \in n + 1 .. Len(t)
      BY <1>1, <1>3, <1>5
    <2> QED
      BY <2>1, <2>2, <2>3
  <1>11. Framed(t)
    BY <1>5, <1>7, <1>10 DEF Framed
  <1> QED
    BY <1>11 DEF t, p

\* What is left of such a stream at the head of a package, or at the end, is one.
LEMMA FramedSuffix ==
  ASSUME NEW s, Framed(s), NEW i \in 1 .. Len(s) + 1, i = Len(s) + 1 \/ s[i].head
  PROVE  Framed(SubSeq(s, i, Len(s)))
  <1> DEFINE t == SubSeq(s, i, Len(s))
             n == Len(s)
  <1>1. s \in Seq(Cell) /\ n \in Nat
    BY DEF Framed
  <1>2. \A j \in 1 .. n : s[j].head => Whole(s, j)
    BY DEF Framed
  <1>3. t \in Seq(Cell) /\ Len(t) = n - i + 1 /\ \A j \in 1 .. n - i + 1 : t[j] = s[j + i - 1]
    BY <1>1, SuffixElements
  <1> HIDE DEF t, n
  <1>4. Len(t) > 0 => t[1].head
    <2> SUFFICES ASSUME Len(t) > 0 PROVE t[1].head
      OBVIOUS
    <2>1. 1 \in 1 .. n - i + 1 /\ 1 + i - 1 = i /\ i # n + 1
      BY <1>1, <1>3 DEF n
    <2> QED
      BY <1>3, <2>1 DEF n
  <1>5. ASSUME NEW j \in 1 .. Len(t), t[j].head
        PROVE  Whole(t, j)
    <2> DEFINE h == j + i - 1
               q == s[h].of
               z == Size[q]
    <2>1. h \in 1 .. n /\ j \in 1 .. n - i + 1
      BY <1>1, <1>3 DEF n
    <2>2. t[j] = s[h]
      BY <1>3, <2>1
    <2>3. s[h] \in Cell
      BY <1>1, <2>1, ElementOfSeq DEF n
    <2>4. z \in Nat \ {0, 1}
      BY <2>3, PackageCells DEF Cell
    <2> HIDE DEF h
    <2>5. Whole(s, h)
      BY <1>2, <1>5, <2>1, <2>2
    <2>6. h + z - 1 <= n
      BY <2>5 DEF Whole, n
    <2>7. \A k \in 1 .. z : s[h + k - 1] = Package(q)[k]
      BY <2>5 DEF Whole
    <2>8. h + z <= n => s[h + z].head
      BY <2>5 DEF Whole, n
    <2> HIDE DEF z
    <2>9. \A k \in 1 .. z : t[j + k - 1] = Package(q)[k]
      <3> SUFFICES ASSUME NEW k \in 1 .. z PROVE t[j + k - 1] = Package(q)[k]
        OBVIOUS
      <3>1. j + k - 1 \in 1 .. n - i + 1 /\ (j + k - 1) + i - 1 = h + k - 1
        BY <1>1, <1>3, <2>1, <2>4, <2>6 DEF h, n
      <3> QED
        BY <1>3, <2>7, <3>1
    <2>10. j + z <= Len(t) => t[j + z].head
      <3> SUFFICES ASSUME j + z <= Len(t) PROVE t[j + z].head
        OBVIOUS
      <3>1. j + z \in 1 .. n - i + 1 /\ (j + z) + i - 1 = h + z /\ h + z <= n
        BY <1>1, <1>3, <2>1, <2>4 DEF h, n
      <3> QED
        BY <1>3, <2>8, <3>1
    <2>11. j + z - 1 <= Len(t)
      BY <1>1, <1>3, <2>1, <2>4, <2>6 DEF h, n
    <2> QED
      BY <2>2, <2>9, <2>10, <2>11 DEF Whole, z
  <1>6. Framed(t)
    BY <1>3, <1>4, <1>5 DEF Framed
  <1> QED
    BY <1>6 DEF t

------------------------------------------------------------------------------
(* unpackage_msg.                                                          *)

\* What Unpackaged's function is at i, in terms of what it is further on.
Prepend(unit, more) == [more EXCEPT !.units = <<unit>> \o @]

\* Where the package that begins at i is over.
Beyond(buf, garbage, i) == i + (IF buf[i].head THEN Size[buf[i].of] ELSE garbage[i])

Cut(buf, garbage, scan, i) ==
  IF i > Len(buf) THEN [rest |-> i, units |-> <<>>]
  ELSE LET next == Beyond(buf, garbage, i)
       IN  IF next > Len(buf) + 1 THEN [rest |-> i, units |-> <<>>]
           ELSE Prepend(SubSeq(buf, i, next - 1), scan[next])

Cuts == [rest : Nat \ {0}, units : Seq(Seq(Answered) \ {<<>>})]

\* A package has a cell, whatever it is taken from.
LEMMA BeyondIsLater ==
  ASSUME Ran \subseteq Requests, NEW buf \in Seq(Answered), NEW garbage \in Garbage(buf),
         NEW i \in 1 .. Len(buf)
  PROVE  Beyond(buf, garbage, i) \in Nat /\ Beyond(buf, garbage, i) > i
  <1>1. buf[i] \in Answered
    BY ElementOfSeq
  <1>2. buf[i].of \in Requests
    BY <1>1 DEF Answered
  <1>3. Size[buf[i].of] \in Nat \ {0}
    BY <1>2, RpcAssumption
  <1>4. ~buf[i].head => garbage[i] \in 1 .. Len(buf) + 1
    BY DEF Garbage
  <1> QED
    BY <1>3, <1>4 DEF Beyond

\* A piece of the buffer that is not empty.
LEMMA PieceType ==
  ASSUME NEW buf \in Seq(Answered), NEW i \in 1 .. Len(buf), NEW j \in i .. Len(buf)
  PROVE  SubSeq(buf, i, j) \in Seq(Answered) \ {<<>>}
  <1>1. SubSeq(buf, i, j) \in Seq(Answered) /\ Len(SubSeq(buf, i, j)) = j - i + 1
    BY SubSeqProperties, ElementOfSeq
  <1> QED
    BY <1>1

\* A cut with one unit more is a cut.
LEMMA PrependType ==
  ASSUME NEW unit \in Seq(Answered) \ {<<>>}, NEW more \in Cuts
  PROVE  /\ Prepend(unit, more) \in Cuts
         /\ Prepend(unit, more).rest = more.rest
         /\ Prepend(unit, more).units = <<unit>> \o more.units
  <1> DEFINE S == Seq(Answered) \ {<<>>}
  <1>1. <<unit>> \in Seq(S) /\ more.units \in Seq(S)
    BY DEF Cuts
  <1> HIDE DEF S
  <1>2. <<unit>> \o more.units \in Seq(S)
    BY <1>1, ConcatProperties
  <1> QED
    BY <1>2 DEF Prepend, Cuts, S

\* One step of the scan for packages gives a cut, when the later ones do.
LEMMA CutType ==
  ASSUME Ran \subseteq Requests, NEW buf \in Seq(Answered), NEW garbage \in Garbage(buf),
         NEW i \in 1 .. Len(buf) + 1,
         NEW scan, \A j \in i + 1 .. Len(buf) + 1 : scan[j] \in Cuts
  PROVE  Cut(buf, garbage, scan, i) \in Cuts
  <1> DEFINE next == Beyond(buf, garbage, i)
             none == [rest |-> i, units |-> <<>>]
  <1>1. none \in Cuts
    <2> DEFINE S == Seq(Answered) \ {<<>>}
    <2> HIDE DEF S
    <2>1. <<>> \in Seq(S)
      OBVIOUS
    <2>2. [rest |-> i, units |-> <<>>] \in [rest : Nat \ {0}, units : Seq(S)]
      BY <2>1
    <2> QED
      BY <2>2 DEF Cuts, S
  <1>2. CASE i > Len(buf) \/ next > Len(buf) + 1
    BY <1>1, <1>2 DEF Cut
  <1>3. CASE ~(i > Len(buf) \/ next > Len(buf) + 1)
    <2>1. i \in 1 .. Len(buf)
      BY <1>3
    <2>2. next \in Nat /\ next > i
      BY <2>1, BeyondIsLater
    <2> HIDE DEF next
    <2>3. next \in i + 1 .. Len(buf) + 1 /\ next - 1 \in i .. Len(buf)
      BY <1>3, <2>1, <2>2
    <2>4. scan[next] \in Cuts
      BY <2>3
    <2>5. SubSeq(buf, i, next - 1) \in Seq(Answered) \ {<<>>}
      BY <2>1, <2>3, PieceType
    <2>6. Prepend(SubSeq(buf, i, next - 1), scan[next]) \in Cuts
      BY <2>4, <2>5, PrependType
    <2> QED
      BY <1>3, <2>6 DEF Cut, next
  <1> QED
    BY <1>2, <1>3

\* Cut at i does not look at scan at i or before.
LEMMA CutLooksAhead ==
  ASSUME Ran \subseteq Requests, NEW buf \in Seq(Answered), NEW garbage \in Garbage(buf),
         NEW j \in 1 .. Len(buf) + 1, NEW i \in j .. Len(buf) + 1,
         NEW scan \in [1 .. Len(buf) + 1 -> Cuts], NEW e
  PROVE  Cut(buf, garbage, [scan EXCEPT ![j] = e], i) = Cut(buf, garbage, scan, i)
  <1> DEFINE next == Beyond(buf, garbage, i)
             changed == [scan EXCEPT ![j] = e]
  <1>1. CASE i > Len(buf) \/ next > Len(buf) + 1
    BY <1>1 DEF Cut
  <1>2. CASE ~(i > Len(buf) \/ next > Len(buf) + 1)
    <2>1. i \in 1 .. Len(buf)
      BY <1>2
    <2>2. next \in Nat /\ next > i
      BY <2>1, BeyondIsLater
    <2> HIDE DEF next
    <2>3. next \in 1 .. Len(buf) + 1 /\ next # j
      BY <1>2, <2>1, <2>2
    <2>4. changed[next] = scan[next]
      BY <2>3
    <2> QED
      BY <1>2, <2>4 DEF Cut, next
  <1> QED
    BY <1>1, <1>2

\* The recursive definition of Unpackaged has a solution, so that it is one.
LEMMA CutHasSolution ==
  ASSUME Ran \subseteq Requests, NEW buf \in Seq(Answered), NEW garbage \in Garbage(buf)
  PROVE  \E g \in [1 .. Len(buf) + 1 -> Cuts] :
           \A i \in 1 .. Len(buf) + 1 : g[i] = Cut(buf, garbage, g, i)
  <1> DEFINE n == Len(buf) + 1
             Solves(g, k) == \A i \in 1 .. n : i > n - k => g[i] = Cut(buf, garbage, g, i)
             Unsolved == {k \in 0 .. n : ~\E g \in [1 .. n -> Cuts] : Solves(g, k)}
  <1>1. n \in Nat \ {0}
    OBVIOUS
  <1>2. Unsolved = {}
    <2> SUFFICES ASSUME Unsolved # {} PROVE FALSE
      OBVIOUS
    <2>1. PICK m \in Unsolved : \A k \in Unsolved : m <= k
      <3>1. Unsolved \in SUBSET Nat
        BY <1>1
      <3> HIDE DEF Unsolved
      <3> QED
        BY <3>1, LeastNumber
    <2>2. m # 0
      <3> DEFINE none == [rest |-> 1, units |-> <<>>]
                 g == [i \in 1 .. n |-> none]
      <3>1. none \in Cuts
        BY EmptySeq DEF Cuts
      <3> HIDE DEF none
      <3>2. g \in [1 .. n -> Cuts]
        BY <3>1
      <3>3. Solves(g, 0)
        BY <1>1
      <3> QED
        BY <2>1, <3>2, <3>3
    <2>3. m \in 1 .. n
      BY <1>1, <2>1, <2>2
    <2>4. m - 1 \notin Unsolved
      <3> HIDE DEF Unsolved
      <3> QED
        BY <2>1, <2>3
    <2>5. PICK g \in [1 .. n -> Cuts] : Solves(g, m - 1)
      BY <2>3, <2>4
    <2> DEFINE j == n - m + 1
               h == [g EXCEPT ![j] = Cut(buf, garbage, g, j)]
    <2>6. j \in 1 .. n
      BY <1>1, <2>3
    <2>7. Cut(buf, garbage, g, j) \in Cuts
      <3>1. \A i \in j + 1 .. n : g[i] \in Cuts
        <4> HIDE DEF n
        <4> QED
          BY <1>1, <2>3, <2>6
      <3> QED
        BY <2>6, <3>1, CutType
    <2>8. h \in [1 .. n -> Cuts]
      BY <2>7
    <2>9. ASSUME NEW i \in 1 .. n, i > n - m
          PROVE  h[i] = Cut(buf, garbage, h, i)
      <3>1. i \in j .. n
        BY <1>1, <2>3, <2>9
      <3>2. Cut(buf, garbage, h, i) = Cut(buf, garbage, g, i)
        BY <2>6, <3>1, CutLooksAhead
      <3>3. CASE i = j
        BY <2>6, <3>2, <3>3
      <3>4. CASE i # j
        <4>1. i > n - (m - 1)
          BY <1>1, <2>3, <3>1, <3>4
        <4>2. h[i] = g[i] /\ g[i] = Cut(buf, garbage, g, i)
          BY <2>5, <3>4, <4>1
        <4> QED
          BY <3>2, <4>2
      <3> QED
        BY <3>3, <3>4
    <2>10. Solves(h, m)
      BY <2>9
    <2> QED
      BY <2>1, <2>8, <2>10
  <1>3. PICK g \in [1 .. n -> Cuts] : Solves(g, n)
    BY <1>1, <1>2
  <1>4. \A i \in 1 .. n : g[i] = Cut(buf, garbage, g, i)
    BY <1>1, <1>3
  <1> QED
    BY <1>4

\* The recursive function that unpacks a buffer is defined: it is the scan that satisfies its
\* own equation.
LEMMA UnpackagedScans ==
  ASSUME Ran \subseteq Requests, NEW buf \in Seq(Answered), NEW garbage \in Garbage(buf)
  PROVE  \E scan :
           /\ \A i \in 1 .. Len(buf) + 1 : scan[i] = Cut(buf, garbage, scan, i)
           /\ Unpackaged(buf, garbage) = scan[1]
  <1> DEFINE n == Len(buf) + 1
             scan == CHOOSE f : f = [i \in 1 .. n |-> Cut(buf, garbage, f, i)]
  <1>1. PICK g \in [1 .. n -> Cuts] : \A i \in 1 .. n : g[i] = Cut(buf, garbage, g, i)
    BY CutHasSolution
  <1>2. g = [i \in 1 .. n |-> Cut(buf, garbage, g, i)]
    BY <1>1
  <1>3. scan = [i \in 1 .. n |-> Cut(buf, garbage, scan, i)]
    BY <1>2
  <1>4. Unpackaged(buf, garbage) = scan[1]
    BY DEF Unpackaged, Cut, Prepend, Beyond
  <1> HIDE DEF scan
  <1>5. \A i \in 1 .. n : scan[i] = Cut(buf, garbage, scan, i)
    BY <1>3
  <1> QED
    BY <1>4, <1>5

\* What holds at a place when it holds at those behind it, holds everywhere.
LEMMA FromTheEnd ==
  ASSUME NEW n \in Nat, NEW T \in SUBSET (1 .. n),
         \A i \in 1 .. n : (\A j \in i + 1 .. n : j \in T) => i \in T
  PROVE  \A i \in 1 .. n : i \in T
  <1> DEFINE Bad == {d \in 0 .. n : d < n /\ n - d \notin T}
  <1>1. Bad = {}
    <2> SUFFICES ASSUME Bad # {} PROVE FALSE
      OBVIOUS
    <2>1. Bad \in SUBSET Nat
      OBVIOUS
    <2>2. PICK m \in Bad : \A k \in Bad : m <= k
      <3> HIDE DEF Bad
      <3> QED
        BY <2>1, LeastNumber
    <2>3. n - m \in 1 .. n /\ n - m \notin T /\ m \in Nat
      BY <2>2
    <2>4. ASSUME NEW j \in n - m + 1 .. n
          PROVE  j \in T
      <3>1. n - j \in 0 .. n /\ n - j < m /\ n - (n - j) = j /\ n - j < n
        BY <2>3, <2>4
      <3>2. n - j \notin Bad
        <4> HIDE DEF Bad
        <4> QED
          BY <2>1, <2>2, <2>3, <3>1
      <3> QED
        BY <3>1, <3>2
    <2> QED
      BY <2>3, <2>4
  <1>2. ASSUME NEW i \in 1 .. n
        PROVE  i \in T
    <2>1. n - i \in 0 .. n /\ n - i < n /\ n - (n - i) = i
      BY <1>2
    <2> QED
      BY <1>1, <2>1
  <1> QED
    BY <1>2

\* unpackage_msg cuts pieces of the buffer, whatever is in it.
LEMMA UnpackagedType ==
  ASSUME Ran \subseteq Requests, NEW buf \in Seq(Answered), NEW garbage \in Garbage(buf)
  PROVE  Unpackaged(buf, garbage) \in Cuts
  <1> DEFINE n == Len(buf) + 1
  <1>1. PICK scan : /\ \A i \in 1 .. n : scan[i] = Cut(buf, garbage, scan, i)
                    /\ Unpackaged(buf, garbage) = scan[1]
    BY UnpackagedScans
  <1> DEFINE T == {i \in 1 .. n : scan[i] \in Cuts}
  <1>2. ASSUME NEW i \in 1 .. n, \A j \in i + 1 .. n : j \in T
        PROVE  i \in T
    <2>1. Cut(buf, garbage, scan, i) \in Cuts
      BY <1>2, CutType
    <2> QED
      BY <1>1, <2>1
  <1>3. n \in Nat /\ T \in SUBSET (1 .. n) /\ 1 \in 1 .. n
    OBVIOUS
  <1>4. \A i \in 1 .. n : i \in T
    <2> HIDE DEF T, n
    <2> QED
      BY <1>2, <1>3, FromTheEnd
  <1> QED
    BY <1>1, <1>3, <1>4

\* s lies in whole packages, of which the first n cells have been read; c is how they
\* were cut.
CutWhole(s, n, c) ==
  /\ c.rest \in 1 .. n + 1
  /\ c.rest = Len(s) + 1 \/ s[c.rest].head
  /\ \A i \in 1 .. Len(c.units) : Intact(c.units[i])

\* One package more is cut off.
LEMMA PrependWhole ==
  ASSUME NEW s, NEW n, NEW c \in Cuts, CutWhole(s, n, c), NEW r \in Requests,
         Package(r) \in Seq(Answered)
  PROVE  CutWhole(s, n, Prepend(Package(r), c))
  <1> DEFINE d == Prepend(Package(r), c)
             S == Seq(Answered) \ {<<>>}
             first == <<Package(r)>>
  <1>1. Package(r) \in S /\ Intact(Package(r))
    <2>1. Len(Package(r)) # 0 /\ Intact(Package(r))
      BY PackageCells
    <2> QED
      BY <2>1
  <1>2. d.rest = c.rest /\ d.units = first \o c.units /\ c.units \in Seq(S)
    BY <1>1, PrependType DEF Cuts
  <1> HIDE DEF d, S
  <1>3. first \in Seq(S) /\ Len(first) = 1 /\ first[1] = Package(r)
    BY <1>1
  <1> HIDE DEF first
  <1>4. /\ Len(d.units) = 1 + Len(c.units)
        /\ \A i \in 1 .. 1 : d.units[i] = first[i]
        /\ \A k \in 1 .. Len(c.units) : d.units[1 + k] = c.units[k]
    <2>1. /\ Len(first \o c.units) = Len(first) + Len(c.units)
          /\ \A i \in 1 .. Len(first) : (first \o c.units)[i] = first[i]
          /\ \A k \in 1 .. Len(c.units) : (first \o c.units)[Len(first) + k] = c.units[k]
      BY <1>2, <1>3, ConcatElements
    <2> QED
      BY <1>2, <1>3, <2>1
  <1>5. ASSUME NEW i \in 1 .. Len(d.units)
        PROVE  Intact(d.units[i])
    <2>1. CASE i = 1
      BY <1>1, <1>3, <1>4, <2>1
    <2>2. CASE i # 1
      <3>1. i - 1 \in 1 .. Len(c.units) /\ i = 1 + (i - 1)
        BY <1>2, <1>4, <2>2
      <3>2. d.units[i] = c.units[i - 1]
        BY <1>4, <3>1
      <3> QED
        BY <3>1, <3>2 DEF CutWhole
    <2> QED
      BY <2>1, <2>2
  <1> QED
    BY <1>2, <1>5 DEF CutWhole, d

\* unpackage_msg cuts whole packages out of what has been read, and leaves a beginning of
\* the next one.
LEMMA UnpackagedWhole ==
  ASSUME Ran \subseteq Requests, NEW s \in Seq(Answered), Framed(s), NEW n \in 0 .. Len(s),
         NEW garbage \in Garbage(SubSeq(s, 1, n))
  PROVE  CutWhole(s, n, Unpackaged(SubSeq(s, 1, n), garbage))
  <1> DEFINE buf == SubSeq(s, 1, n)
             Start(i) == i = Len(s) + 1 \/ s[i].head
  <1>1. Len(s) \in Nat /\ n \in Nat
    OBVIOUS
  <1>2. buf \in Seq(Answered) /\ Len(buf) = n /\ \A i \in 1 .. n : buf[i] = s[i]
    BY <1>1
  <1> HIDE DEF buf
  <1>3. garbage \in Garbage(buf)
    BY DEF buf
  <1>4. PICK scan : /\ \A i \in 1 .. n + 1 : scan[i] = Cut(buf, garbage, scan, i)
                    /\ Unpackaged(buf, garbage) = scan[1]
    BY <1>2, <1>3, UnpackagedScans
  <1> DEFINE Good(i) == scan[i] \in Cuts /\ (Start(i) => CutWhole(s, n, scan[i]))
             T == {i \in 1 .. n + 1 : Good(i)}
  <1>5. ASSUME NEW i \in 1 .. n + 1, \A j \in i + 1 .. n + 1 : Good(j)
        PROVE  Good(i)
    <2> DEFINE next == Beyond(buf, garbage, i)
    <2>1. scan[i] \in Cuts
      <3>1. Cut(buf, garbage, scan, i) \in Cuts
        BY <1>2, <1>3, <1>5, CutType
      <3> QED
        BY <1>4, <3>1
    <2> SUFFICES ASSUME Start(i) PROVE CutWhole(s, n, scan[i])
      BY <2>1
    <2>2. CASE i > n \/ next > n + 1
      <3>1. scan[i] = [rest |-> i, units |-> <<>>]
        BY <1>2, <1>4, <2>2 DEF Cut
      <3>2. scan[i].rest = i /\ scan[i].units = <<>>
        BY <3>1
      <3> QED
        BY <1>1, <3>2, EmptySeq DEF CutWhole
    <2>3. CASE ~(i > n \/ next > n + 1)
      <3> DEFINE r == buf[i].of
                 z == Size[r]
                 unit == SubSeq(buf, i, next - 1)
      <3>1. i \in 1 .. n /\ i \in 1 .. Len(s) /\ s[i].head
        BY <1>1, <2>3
      <3>2. buf[i] = s[i] /\ s[i] \in Answered /\ s[i] \in Cell
        <4>1. s[i] \in Answered
          BY <3>1, ElementOfSeq
        <4>2. buf[i] = s[i]
          BY <1>2, <3>1
        <4> QED
          BY <4>1, <4>2 DEF Answered, Cell
      <3>3. r \in Requests /\ r \in Ran /\ r = s[i].of
        BY <3>1, <3>2 DEF Answered
      <3>4. z \in Nat \ {0, 1}
        BY <3>3, PackageCells
      <3>5. next = i + z
        BY <3>1, <3>2 DEF Beyond
      <3>6. Whole(s, i)
        BY <3>1 DEF Framed
      <3>7. \A k \in 1 .. z : s[i + k - 1] = Package(r)[k]
        BY <3>3, <3>6 DEF Whole
      <3>8. i + z <= Len(s) => s[i + z].head
        BY <3>3, <3>6 DEF Whole
      <3>9. scan[i] = Prepend(unit, scan[next])
        BY <1>2, <1>4, <2>3 DEF Cut
      <3> HIDE DEF r, z, next
      <3>10. i + z - 1 \in i .. n /\ i + z \in i + 1 .. n + 1
        BY <1>1, <2>3, <3>1, <3>4, <3>5
      <3>11. unit = Package(r)
        <4>1. unit \in Seq(Answered) /\ Len(unit) = z /\ \A k \in 1 .. z : unit[k] = buf[i + k - 1]
          <5>1. unit = SubSeq(buf, i, i + z - 1)
            BY <3>4, <3>5, <1>1
          <5> HIDE DEF unit
          <5> QED
            BY <1>1, <1>2, <3>1, <3>4, <3>10, <5>1
        <4> HIDE DEF unit
        <4>2. ASSUME NEW k \in 1 .. z PROVE unit[k] = Package(r)[k]
          <5>1. i + k - 1 \in 1 .. n
            BY <1>1, <3>1, <3>4, <3>10
          <5> QED
            BY <1>2, <3>7, <4>1, <5>1
        <4>3. Package(r) \in Seq(Cell) /\ Len(Package(r)) = z
          BY <3>3, PackageCells DEF z
        <4>4. Seq(Answered) \subseteq Seq(Cell)
          <5>1. Answered \subseteq Cell
            BY DEF Answered, Cell
          <5> QED
            BY <5>1, SeqOfMore
        <4> QED
          BY <4>1, <4>2, <4>3, <4>4, SeqEqual
      <3>12. unit \in Seq(Answered)
        <4>1. next - 1 \in i .. Len(buf) /\ i \in 1 .. Len(buf)
          BY <1>2, <3>1, <3>5, <3>10
        <4> QED
          BY <1>2, <4>1, PieceType
      <3>13. Start(next)
        BY <1>1, <3>1, <3>4, <3>5, <3>6, <3>8, <3>10
      <3>14. Good(next)
        BY <1>5, <3>5, <3>10
      <3> HIDE DEF unit
      <3> QED
        BY <3>3, <3>9, <3>11, <3>12, <3>13, <3>14, PrependWhole
    <2> QED
      BY <2>2, <2>3
  <1>6. \A i \in 1 .. n + 1 : i \in T
    <2>1. ASSUME NEW i \in 1 .. n + 1, \A j \in i + 1 .. n + 1 : j \in T
          PROVE  i \in T
      <3> HIDE DEF Good
      <3>1. \A j \in i + 1 .. n + 1 : Good(j)
        BY <2>1
      <3> QED
        BY <1>5, <3>1
    <2>2. n + 1 \in Nat /\ T \in SUBSET (1 .. n + 1)
      BY <1>1
    <2> DEFINE m == n + 1
    <2> HIDE DEF T, m
    <2> QED
      BY <2>1, <2>2, FromTheEnd DEF m
  <1>7. Start(1)
    BY <1>1 DEF Framed
  <1>8. Good(1)
    <2> HIDE DEF Good
    <2> QED
      BY <1>1, <1>6
  <1> QED
    BY <1>4, <1>7, <1>8 DEF buf

------------------------------------------------------------------------------
(* What has been read, and what is under way.                              *)

\* What has been answered stays answered.
LEMMA AnsweredGrows ==
  ASSUME Ran \subseteq Ran'
  PROVE  /\ Seq(Answered) \subseteq Seq(Answered')
         /\ Seq(Seq(Answered) \ {<<>>}) \subseteq Seq(Seq(Answered') \ {<<>>})
  <1>1. Answered \subseteq Answered'
    BY DEF Answered
  <1> DEFINE A == Answered
             B == Answered'
  <1> HIDE DEF A, B
  <1>2. A \subseteq B
    BY <1>1 DEF A, B
  <1>3. Seq(A) \subseteq Seq(B)
    BY <1>2, SeqOfMore
  <1> DEFINE S == Seq(A) \ {<<>>}
             T == Seq(B) \ {<<>>}
  <1>4. S \subseteq T
    BY <1>3
  <1> HIDE DEF S, T
  <1>5. Seq(S) \subseteq Seq(T)
    BY <1>4, SeqOfMore
  <1> QED
    BY <1>3, <1>5 DEF A, B, S, T

\* Dropping from the front of a sequence.
LEMMA DropType ==
  ASSUME NEW S, NEW s \in Seq(S), NEW k \in Nat
  PROVE  /\ SubSeq(s, k + 1, Len(s)) \in Seq(S)
         /\ Len(SubSeq(s, k + 1, Len(s))) <= Len(s)
  <1>1. CASE k <= Len(s)
    <2>1. k + 1 \in 1 .. Len(s) + 1
      BY <1>1
    <2>2. /\ SubSeq(s, k + 1, Len(s)) \in Seq(S)
          /\ Len(SubSeq(s, k + 1, Len(s))) = Len(s) - (k + 1) + 1
      BY <2>1, SuffixElements
    <2> QED
      BY <2>2
  <1>2. CASE k > Len(s)
    <2>1. SubSeq(s, k + 1, Len(s)) = <<>>
      BY <1>2
    <2> QED
      BY <2>1, EmptySeq
  <1> QED
    BY <1>1, <1>2

\* What is read, and read but not handled, fits the buffer.
LEMMA BufferFits ==
  ASSUME ResponsesInv
  PROVE  /\ m_read_buf \in Seq(Answered) /\ arrived \in Seq(Answered)
         /\ Len(m_read_buf) \in Nat /\ Len(arrived) \in Nat
         /\ Len(m_read_buf) + Len(arrived) <= m_max_rbuffer_size
         /\ m_max_rbuffer_size \in Nat
  <1>1. m_read_buf \in Seq(Answered) /\ arrived \in Seq(Answered)
    BY DEF ResponsesInv
  <1>2. Len(m_read_buf) \in Nat /\ Len(arrived) \in Nat
    BY <1>1
  <1>3. Len(m_read_buf) + Len(arrived) <= m_max_rbuffer_size
    BY DEF ResponsesInv
  <1> QED
    BY <1>1, <1>2, <1>3, RpcAssumption

\* Nothing is put on the wire or taken from it, and read_cbk does not go on.
LEMMA ResponsesInvFrame ==
  ASSUME ResponsesInv, UNCHANGED <<up, responses, arrived, m_read_buf, reader>>, Ran \subseteq Ran'
  PROVE  ResponsesInv'
  <1>1. /\ m_read_buf' \in Seq(Answered') /\ arrived' \in Seq(Answered')
        /\ responses' \in Seq(Answered') /\ units' \in Seq(Seq(Answered') \ {<<>>})
    BY AnsweredGrows DEF ResponsesInv, reader
  <1>2. UNCHANGED <<up, responses, arrived, m_read_buf, reading, units, deal_len, promise, torn>>
    BY DEF reader
  <1>3. Untorn' = Untorn
    BY <1>2 DEF Untorn, Unread
  <1>4. Named(Head(units))' = Named(Head(units))
    BY <1>2 DEF Named
  <1> QED
    BY <1>1, <1>2, <1>3, <1>4 DEF ResponsesInv

\* An answer is written behind what is on the wire.
LEMMA AnswerKeepsResponsesInv ==
  ASSUME RpcInv, NEW r \in Requests, r \in Ran', Ran \subseteq Ran', up,
         responses' = responses \o Package(r), UNCHANGED <<up, arrived, m_read_buf, reader>>
  PROVE  ResponsesInv'
  <1> DEFINE p == Package(r)
             s == Unread \o responses
  <1>1. /\ m_read_buf' \in Seq(Answered') /\ arrived' \in Seq(Answered')
        /\ responses \in Seq(Answered') /\ units' \in Seq(Seq(Answered') \ {<<>>})
    BY AnsweredGrows DEF RpcInv, ResponsesInv, reader
  <1>2. UNCHANGED <<up, arrived, m_read_buf, reading, units, deal_len, promise, torn>>
    BY DEF reader
  <1>3. /\ p \in Seq(Cell) /\ Len(p) = Size[r]
        /\ \A k \in 1 .. Size[r] : p[k].of = r
    BY PackageCells
  <1> HIDE DEF p
  <1>4. p \in Seq(Answered')
    <2>1. \A k \in 1 .. Len(p) : p[k] \in Answered'
      <3> SUFFICES ASSUME NEW k \in 1 .. Len(p) PROVE p[k] \in Answered'
        OBVIOUS
      <3>1. p[k] \in Cell
        BY <1>3, ElementOfSeq
      <3> QED
        BY <1>3, <3>1 DEF Cell, Answered
    <2> QED
      BY <1>3, <2>1
  <1>5. responses' = responses \o p
    BY DEF p
  <1>6. responses' \in Seq(Answered')
    BY <1>1, <1>4, <1>5, ConcatProperties
  <1>7. Unread' = Unread
    BY <1>2 DEF Unread
  <1>8. ASSUME ~torn
        PROVE  Untorn'
    <2>1. Framed(s) /\ \A i \in 1 .. Len(units) : Intact(units[i])
      BY <1>8 DEF RpcInv, ResponsesInv, Untorn
    <2>2. Framed(s \o p)
      <3> HIDE DEF s
      <3> QED
        BY <2>1, FramedAppend DEF p
    <2>3. Unread \in Seq(Answered) /\ responses \in Seq(Answered)
      <3>1. /\ m_read_buf \in Seq(Answered) /\ arrived \in Seq(Answered)
            /\ responses \in Seq(Answered) /\ deal_len \in Nat
        BY DEF RpcInv, ResponsesInv
      <3>2. m_read_buf \o arrived \in Seq(Answered)
        BY <3>1, ConcatProperties
      <3>3. SubSeq(m_read_buf, deal_len + 1, Len(m_read_buf)) \in Seq(Answered)
        BY <3>1, DropType
      <3> QED
        BY <3>1, <3>2, <3>3 DEF Unread
    <2>4. Unread \in Seq(Answered') /\ responses \in Seq(Answered')
      BY <2>3, AnsweredGrows
    <2>5. s \o p = Unread \o responses'
      BY <1>4, <1>5, <2>4, ConcatAssociative
    <2> QED
      BY <1>2, <1>7, <2>1, <2>2, <2>5 DEF Untorn
  <1>9. Named(Head(units))' = Named(Head(units))
    BY <1>2 DEF Named
  <1> QED
    BY <1>1, <1>2, <1>6, <1>8, <1>9 DEF RpcInv, ResponsesInv

\* close() drops what is on the way and in the read buffer, or leaves what consume() leaves.
LEMMA CloseKeepsResponsesInv ==
  ASSUME ResponsesInv, close
  PROVE  ResponsesInv'
  <1>1. /\ up' = FALSE /\ responses' = <<>> /\ Ran' = Ran
        /\ UNCHANGED <<arrived, units, promise>>
    BY DEF close, Lost, history, ran, Ran
  <1>2. Answered' = Answered /\ Named(Head(units))' = Named(Head(units))
    BY <1>1 DEF Answered, Named
  <1>3. <<>> \in Seq(Answered)
    BY EmptySeq
  <1>4. CASE ClearRead /\ torn' = (torn /\ reading) /\ UNCHANGED <<reading, deal_len>>
    <2>1. m_read_buf' = <<>> /\ Len(m_read_buf') = 0
      BY <1>4 DEF ClearRead
    <2>2. ~torn' => Untorn'
      BY <1>1, <1>4, <2>1, EmptySeq DEF ResponsesInv, Untorn
    <2>3. Len(m_read_buf') + Len(arrived') <= m_max_rbuffer_size
      BY <1>1, <2>1, BufferFits
    <2> QED
      BY <1>1, <1>2, <1>3, <1>4, <2>1, <2>2, <2>3 DEF ResponsesInv
  <1>5. CASE /\ reading /\ units = <<>> /\ promise = {}
             /\ m_read_buf' = SubSeq(m_read_buf, deal_len + 1, Len(m_read_buf))
             /\ torn' = (m_read_buf' # <<>>)
             /\ reading' = FALSE /\ deal_len' = 0
    <2>1. m_read_buf' \in Seq(Answered) /\ Len(m_read_buf') <= Len(m_read_buf)
      BY <1>5, DropType DEF ResponsesInv
    <2>2. ASSUME ~torn'
          PROVE  Untorn'
      <3>1. m_read_buf' = <<>> /\ ~up'
        BY <1>1, <1>5, <2>2
      <3>2. units' = <<>> /\ Len(<<>>) = 0
        BY <1>1, <1>5, EmptySeq
      <3> QED
        BY <3>1, <3>2 DEF Untorn
    <2>3. arrived = <<>>
      BY <1>5 DEF ResponsesInv
    <2>4. Len(m_read_buf') + Len(arrived') <= m_max_rbuffer_size
      <3>1. Len(m_read_buf') \in Nat
        BY <2>1
      <3> QED
        BY <1>1, <2>1, <3>1, BufferFits
    <2> QED
      BY <1>1, <1>2, <1>3, <1>5, <2>1, <2>2, <2>3, <2>4 DEF ResponsesInv
  <1> QED
    BY <1>4, <1>5 DEF close

\* shutdown() by read_cbk ends it.
LEMMA ShutdownKeepsResponsesInv ==
  ASSUME ResponsesInv, NEW buf \in Seq(Answered), Len(buf) <= m_max_rbuffer_size, Shutdown(buf),
         reading' = FALSE, units' = <<>>, promise' = {}, arrived' = <<>>, deal_len' \in Nat,
         Ran' = Ran
  PROVE  ResponsesInv'
  <1>1. Answered' = Answered
    BY DEF Answered
  <1>2. <<>> \in Seq(Answered) /\ Len(<<>>) = 0
    BY EmptySeq
  <1> DEFINE S == Seq(Answered) \ {<<>>}
  <1>3. units' \in Seq(S)
    <2> HIDE DEF S
    <2> QED
      OBVIOUS
  <1>4. CASE up
    <2>1. up' = FALSE /\ responses' = <<>> /\ m_read_buf' = <<>> /\ torn' = FALSE
      BY <1>4 DEF Shutdown, Lost, ClearRead
    <2>2. Untorn'
      BY <2>1, <1>2 DEF Untorn
    <2>3. Len(m_read_buf') + Len(arrived') <= m_max_rbuffer_size
      BY <2>1, <1>2, RpcAssumption
    <2> QED
      BY <1>1, <1>2, <1>3, <2>1, <2>2, <2>3 DEF ResponsesInv
  <1>5. CASE ~up
    <2>1. m_read_buf' = buf /\ torn' = TRUE /\ UNCHANGED <<up, responses>>
      BY <1>5 DEF Shutdown
    <2>2. Len(m_read_buf') + Len(arrived') <= m_max_rbuffer_size
      BY <2>1, <1>2
    <2> QED
      BY <1>1, <1>2, <1>3, <2>1, <2>2 DEF ResponsesInv
  <1> QED
    BY <1>4, <1>5

\* The handler of a read or of a delivery finds that the stream is none.
LEMMA MisreadKeepsResponsesInv ==
  ASSUME ResponsesInv,
         \/ bad_package
         \/ misread /\ Shutdown(m_read_buf) /\ units' = <<>> /\ reading' = FALSE /\ deal_len' = 0
                    /\ UNCHANGED arrived
  PROVE  ResponsesInv'
  <1>1. Ran' = Ran
    BY DEF bad_package, misread, history, ran, Ran
  <1>2. CASE bad_package
    <2> DEFINE buf == m_read_buf \o arrived
    <2>1. m_read_buf \in Seq(Answered) /\ arrived \in Seq(Answered)
      BY DEF ResponsesInv
    <2>2. buf \in Seq(Answered) /\ Len(buf) = Len(m_read_buf) + Len(arrived)
      BY <2>1, ConcatProperties
    <2>3. /\ Shutdown(buf) /\ ~reading /\ reading' = reading /\ units' = units /\ promise' = promise
          /\ arrived' = <<>> /\ deal_len' = deal_len
      BY <1>2 DEF bad_package
    <2> HIDE DEF buf
    <2>4. units = <<>> /\ promise = {} /\ reading' = FALSE /\ deal_len' \in Nat
          /\ Len(buf) <= m_max_rbuffer_size
      BY <2>2, <2>3 DEF ResponsesInv
    <2> QED
      BY <1>1, <2>2, <2>3, <2>4, ShutdownKeepsResponsesInv
  <1>3. CASE /\ misread /\ Shutdown(m_read_buf) /\ units' = <<>> /\ reading' = FALSE
             /\ deal_len' = 0 /\ UNCHANGED arrived
    <2>1. units # <<>> /\ promise' = {}
      BY <1>3 DEF misread
    <2>2. arrived' = <<>> /\ m_read_buf \in Seq(Answered) /\ Len(m_read_buf) <= m_max_rbuffer_size
      <3>1. arrived' = <<>>
        BY <1>3, <2>1 DEF ResponsesInv
      <3> QED
        BY <3>1, BufferFits
    <2> QED
      BY <1>1, <1>3, <2>1, <2>2, ShutdownKeepsResponsesInv
  <1> QED
    BY <1>2, <1>3

\* A connection begins with empty buffers, or where old bytes have been left, torn.
LEMMA ConnectKeepsResponsesInv ==
  ASSUME ResponsesInv, connect
  PROVE  ResponsesInv'
  <1>1. /\ ~up /\ ~reading /\ arrived = <<>> /\ up' = TRUE /\ Ran' = Ran
        /\ UNCHANGED <<responses, arrived, m_read_buf, reading, units, deal_len, promise, torn>>
    BY DEF connect, reader, history, ran, Ran
  <1>2. Answered' = Answered /\ Named(Head(units))' = Named(Head(units))
    BY <1>1 DEF Answered, Named
  <1>3. ASSUME ~torn
        PROVE  Untorn'
    <2>1. m_read_buf = <<>> /\ responses = <<>> /\ units = <<>>
      BY <1>1, <1>3 DEF ResponsesInv, Untorn
    <2>2. (Unread \o responses)' = <<>>
      <3>1. <<>> \o <<>> = <<>>
        BY EmptySeq
      <3> QED
        BY <1>1, <2>1, <3>1 DEF Unread
    <2>3. Framed((Unread \o responses)')
      BY <2>2, EmptyFramed
    <2>4. \A i \in 1 .. Len(units') : Intact(units'[i])
      BY <1>1, <2>1, EmptySeq
    <2> QED
      BY <1>1, <2>3, <2>4 DEF Untorn
  <1> QED
    BY <1>1, <1>2, <1>3 DEF ResponsesInv

\* A read takes cells off the wire.
LEMMA CompletedReadKeepsResponsesInv ==
  ASSUME ResponsesInv, ReadCompletes
  PROVE  ResponsesInv'
  <1>1. PICK n :
          /\ n \in 1 .. Len(responses)
          /\ Len(m_read_buf) + n <= m_max_rbuffer_size
          /\ arrived' = SubSeq(responses, 1, n)
          /\ responses' = SubSeq(responses, n + 1, Len(responses))
    BY DEF ReadCompletes
  <1>2. /\ up /\ ~reading /\ arrived = <<>> /\ Ran' = Ran
        /\ UNCHANGED <<up, m_read_buf, reading, units, deal_len, promise, torn>>
    BY DEF ReadCompletes, reader, history, ran, Ran
  <1>3. responses \in Seq(Answered) /\ m_read_buf \in Seq(Answered) /\ Len(responses) \in Nat
    BY DEF ResponsesInv
  <1>4. arrived' \in Seq(Answered) /\ Len(arrived') = n
    <2>1. SubSeq(responses, 1, n) \in Seq(Answered) /\ Len(SubSeq(responses, 1, n)) = n
      BY <1>1, <1>3
    <2> QED
      BY <1>1, <2>1
  <1>5. responses' \in Seq(Answered)
    <2>1. n \in Nat
      BY <1>1
    <2>2. SubSeq(responses, n + 1, Len(responses)) \in Seq(Answered)
      BY <1>3, <2>1, DropType
    <2> QED
      BY <1>1, <2>2
  <1>6. arrived' \o responses' = responses
    <2>1. n \in 1 - 1 .. Len(responses) /\ 1 \in 1 .. Len(responses) + 1
          /\ Len(responses) \in n .. Len(responses)
      BY <1>1, <1>3
    <2>2. SubSeq(responses, 1, n) \o SubSeq(responses, n + 1, Len(responses))
            = SubSeq(responses, 1, Len(responses))
      BY <1>3, <2>1, ConcatAdjacentSubSeq
    <2> QED
      BY <1>1, <1>3, <2>2, SubSeqFull
  <1>7. (Unread \o responses)' = Unread \o responses
    <2>1. m_read_buf \o (arrived' \o responses') = (m_read_buf \o arrived') \o responses'
      <3>1. m_read_buf \in Seq(Answered)
        BY <1>3
      <3> QED
        BY <1>4, <1>5, <3>1, ConcatAssociative
    <2>2. m_read_buf \o arrived = m_read_buf
      BY <1>2, <1>3, ConcatEmptySeq
    <2> QED
      BY <1>2, <1>6, <2>1, <2>2 DEF Unread
  <1>8. ~torn' => Untorn'
    BY <1>2, <1>7 DEF ResponsesInv, Untorn
  <1>9. Len(m_read_buf') + Len(arrived') <= m_max_rbuffer_size
    BY <1>1, <1>2, <1>4
  <1>10. Answered' = Answered /\ Named(Head(units))' = Named(Head(units))
    BY <1>2 DEF Answered, Named
  <1> QED
    BY <1>2, <1>4, <1>5, <1>8, <1>9, <1>10 DEF ResponsesInv

\* Dropping from the front of what stands before t.
LEMMA DropBefore ==
  ASSUME NEW S, NEW s \in Seq(S), NEW t \in Seq(S), NEW i \in 1 .. Len(s) + 1
  PROVE  /\ SubSeq(s \o t, 1, Len(s)) = s
         /\ SubSeq(s, i, Len(s)) \o t = SubSeq(s \o t, i, Len(s \o t))
  <1> DEFINE u == s \o t
             n == Len(s)
  <1>1. u \in Seq(S) /\ Len(u) = n + Len(t) /\ n \in Nat /\ Len(t) \in Nat
    BY ConcatProperties
  <1>2. \A j, k \in 1 .. n : SubSeq(u, j, k) = SubSeq(s, j, k)
    BY SubSeqOfConcat1
  <1>3. SubSeq(u, n + 1, Len(u)) = t
    <2>1. CASE Len(t) = 0
      <3>1. SubSeq(u, n + 1, Len(u)) = <<>>
        BY <1>1, <2>1, SubSeqEmpty
      <3> QED
        BY <2>1, <3>1, EmptySeq
    <2>2. CASE Len(t) # 0
      <3>1. n + 1 \in n + 1 .. n + Len(t) /\ n + Len(t) \in n + 1 .. n + Len(t)
        BY <1>1, <2>2
      <3>2. SubSeq(u, n + 1, n + Len(t)) = SubSeq(t, n + 1 - n, n + Len(t) - n)
        BY <3>1, SubSeqOfConcat2
      <3>3. n + 1 - n = 1 /\ n + Len(t) - n = Len(t)
        BY <1>1
      <3> QED
        BY <1>1, <3>2, <3>3, SubSeqFull
    <2> QED
      BY <2>1, <2>2
  <1>4. SubSeq(u, i, n) = SubSeq(s, i, n)
    <2>1. CASE i = n + 1
      BY <1>1, <2>1, SubSeqEmpty
    <2>2. CASE i # n + 1
      <3>1. i \in 1 .. n /\ n \in 1 .. n
        BY <1>1, <2>2
      <3> QED
        BY <1>2, <3>1
    <2> QED
      BY <2>1, <2>2
  <1>5. SubSeq(u, i, n) \o SubSeq(u, n + 1, Len(u)) = SubSeq(u, i, Len(u))
    <2>1. i \in 1 .. Len(u) + 1 /\ n \in i - 1 .. Len(u) /\ Len(u) \in n .. Len(u)
      BY <1>1
    <2> HIDE DEF u, n
    <2> QED
      BY <1>1, <2>1, ConcatAdjacentSubSeq
  <1>6. SubSeq(u, 1, n) = s
    <2>1. CASE n = 0
      <3>1. SubSeq(u, 1, n) = <<>> /\ s = <<>>
        BY <2>1, SubSeqEmpty, EmptySeq
      <3> QED
        BY <3>1
    <2>2. CASE n # 0
      <3>1. 1 \in 1 .. n /\ n \in 1 .. n
        BY <1>1, <2>2
      <3> QED
        BY <1>2, <3>1, SubSeqFull
    <2> QED
      BY <2>1, <2>2
  <1> QED
    BY <1>3, <1>4, <1>5, <1>6

\* What has been read is cut: whole packages, if it is whole packages that are read.
LEMMA ReadKeepsResponsesInv ==
  ASSUME RpcInv, handle_read
  PROVE  ResponsesInv'
  <1> DEFINE buf == m_read_buf \o arrived
  <1>1. /\ m_read_buf \in Seq(Answered) /\ arrived \in Seq(Answered) /\ responses \in Seq(Answered)
        /\ Ran \subseteq Requests
    BY DEF RpcInv, ResponsesInv, RequestsInv
  <1>2. buf \in Seq(Answered) /\ Len(buf) = Len(m_read_buf) + Len(arrived)
        /\ Len(buf) <= m_max_rbuffer_size
    <2>1. buf \in Seq(Answered) /\ Len(buf) = Len(m_read_buf) + Len(arrived)
      BY <1>1, ConcatProperties
    <2> QED
      BY <2>1, BufferFits DEF RpcInv
  <1>3. PICK garbage \in Garbage(buf) :
          /\ m_read_buf' = buf
          /\ units' = Unpackaged(buf, garbage).units
          /\ deal_len' = Unpackaged(buf, garbage).rest - 1
    BY DEF handle_read
  <1>4. /\ ~reading /\ reading' = TRUE /\ arrived' = <<>> /\ torn' = (torn \/ ~up) /\ Ran' = Ran
        /\ UNCHANGED <<up, responses, promise>>
    BY DEF handle_read, history, ran, Ran
  <1>5. Unread = buf /\ promise = {}
    BY <1>4 DEF RpcInv, ResponsesInv, Unread
  <1> HIDE DEF buf
  <1> DEFINE c == Unpackaged(buf, garbage)
  <1>6. c \in Cuts
    BY <1>1, <1>2, UnpackagedType
  <1>7. c.rest \in Nat \ {0} /\ c.units \in Seq(Seq(Answered) \ {<<>>})
    BY <1>6 DEF Cuts
  <1>8. ASSUME ~torn'
        PROVE  Untorn'
    <2> DEFINE s == buf \o responses
               n == Len(buf)
    <2>1. ~torn /\ up
      BY <1>4, <1>8 DEF RpcInv, ResponsesInv
    <2>2. Framed(s)
      BY <1>5, <2>1 DEF RpcInv, ResponsesInv, Untorn
    <2>3. s \in Seq(Answered) /\ Len(s) = n + Len(responses) /\ SubSeq(s, 1, n) = buf
      <3>1. 1 \in 1 .. Len(buf) + 1
        BY <1>2
      <3> QED
        BY <1>1, <1>2, <3>1, ConcatProperties, DropBefore
    <2>4. n \in 0 .. Len(s)
      BY <1>1, <1>2, <2>3
    <2>5. CutWhole(s, n, c)
      <3>1. garbage \in Garbage(SubSeq(s, 1, n))
        BY <2>3
      <3>2. CutWhole(s, n, Unpackaged(SubSeq(s, 1, n), garbage))
        <4> HIDE DEF s, n
        <4> QED
          BY <1>1, <2>2, <2>3, <2>4, <3>1, UnpackagedWhole
      <3> QED
        BY <2>3, <3>2
    <2> DEFINE b == c.rest
    <2>6. b \in 1 .. n + 1 /\ (b = Len(s) + 1 \/ s[b].head)
          /\ \A i \in 1 .. Len(c.units) : Intact(c.units[i])
      BY <2>5 DEF CutWhole
    <2>7. Framed(SubSeq(s, b, Len(s)))
      <3>1. b \in 1 .. Len(s) + 1
        BY <2>4, <2>6
      <3> HIDE DEF s, b
      <3> QED
        BY <2>2, <2>6, <3>1, FramedSuffix
    <2>8. Unread' = SubSeq(buf, b, n)
      <3>1. Unread' = SubSeq(buf, c.rest - 1 + 1, Len(buf))
        BY <1>3, <1>4 DEF Unread
      <3>2. c.rest - 1 + 1 = c.rest
        BY <1>7
      <3> HIDE DEF c
      <3> QED
        BY <3>1, <3>2
    <2>9. (Unread \o responses)' = SubSeq(s, b, Len(s))
      <3>1. SubSeq(buf, b, n) \o responses = SubSeq(s, b, Len(s))
        <4> HIDE DEF b
        <4> QED
          BY <1>1, <1>2, <2>6, DropBefore
      <3> QED
        BY <1>4, <2>8, <3>1
    <2> QED
      BY <1>3, <1>4, <2>1, <2>6, <2>7, <2>9 DEF Untorn
  <1>9. deal_len' \in Nat
    BY <1>3, <1>7
  <1>10. Answered' = Answered
    BY <1>4 DEF Answered
  <1>11. <<>> \in Seq(Answered) /\ Len(buf) + Len(<<>>) <= m_max_rbuffer_size
    BY <1>2, EmptySeq
  <1> QED
    BY <1>1, <1>2, <1>3, <1>4, <1>5, <1>7, <1>8, <1>9, <1>10, <1>11 DEF RpcInv, ResponsesInv

\* A package has been delivered.
LEMMA DeliveryKeepsResponsesInv ==
  ASSUME ResponsesInv, units # <<>>, units' = Tail(units), promise' = {}, Ran' = Ran,
         UNCHANGED <<up, responses, arrived, m_read_buf, reading, deal_len, torn>>
  PROVE  ResponsesInv'
  <1> DEFINE S == Seq(Answered) \ {<<>>}
  <1>1. units \in Seq(S)
    BY DEF ResponsesInv
  <1> HIDE DEF S
  <1>2. /\ units' \in Seq(S) /\ Len(units) >= 1 /\ Len(units') = Len(units) - 1
        /\ \A i \in 1 .. Len(units') : units'[i] = units[i + 1]
    BY <1>1, HeadTailProperties, EmptySeq
  <1>3. ~torn' => Untorn'
    <2> SUFFICES ASSUME ~torn' PROVE Untorn'
      OBVIOUS
    <2>1. Untorn
      BY DEF ResponsesInv
    <2>2. \A i \in 1 .. Len(units') : Intact(units'[i])
      <3>1. \A i \in 1 .. Len(units') : i + 1 \in 1 .. Len(units)
        BY <1>2
      <3> QED
        BY <1>2, <2>1, <3>1 DEF Untorn
    <2>3. (Unread \o responses)' = Unread \o responses
      BY DEF Unread
    <2> QED
      BY <2>1, <2>2, <2>3 DEF Untorn
  <1>4. Answered' = Answered /\ reading
    BY DEF Answered, ResponsesInv
  <1> QED
    BY <1>2, <1>3, <1>4 DEF ResponsesInv, S

\* A promise is found, or there is none any more.
LEMMA SyncInvokeKeepsResponsesInv ==
  ASSUME ResponsesInv, sync_invoke
  PROVE  ResponsesInv'
  <1>1. PICK r \in Named(Head(units)) :
          /\ promise' = {r} \cap m_future_map
          /\ units' = IF r \in m_future_map THEN units ELSE Tail(units)
    BY DEF sync_invoke
  <1>2. /\ units # <<>> /\ Ran' = Ran
        /\ UNCHANGED <<up, responses, arrived, m_read_buf, reading, deal_len, torn>>
    BY DEF sync_invoke, wire, history, ran, Ran
  <1>3. CASE r \in m_future_map
    <2>1. UNCHANGED units /\ promise' = {r}
      BY <1>1, <1>3
    <2>2. Untorn' = Untorn
      BY <1>2, <2>1 DEF Untorn, Unread
    <2>3. Answered' = Answered /\ Named(Head(units))' = Named(Head(units))
      BY <1>2, <2>1 DEF Answered, Named
    <2> QED
      BY <1>1, <1>2, <2>1, <2>2, <2>3 DEF ResponsesInv
  <1>4. CASE r \notin m_future_map
    BY <1>1, <1>2, <1>4, DeliveryKeepsResponsesInv
  <1> QED
    BY <1>3, <1>4

\* What has been delivered is dropped, unless the session is closed.
LEMMA ConsumeKeepsResponsesInv ==
  ASSUME ResponsesInv, consume_read_buf
  PROVE  ResponsesInv'
  <1> DEFINE left == SubSeq(m_read_buf, deal_len + 1, Len(m_read_buf))
  <1>1. /\ reading /\ units = <<>> /\ promise = {} /\ reading' = FALSE /\ deal_len' = 0
        /\ m_read_buf' = IF up THEN left ELSE m_read_buf
        /\ torn' = (torn /\ (up \/ m_read_buf # <<>>))
        /\ Ran' = Ran /\ UNCHANGED <<up, responses, arrived, units, promise>>
    BY DEF consume_read_buf, history, ran, Ran
  <1>2. /\ m_read_buf \in Seq(Answered) /\ left \in Seq(Answered) /\ Len(left) <= Len(m_read_buf)
        /\ arrived = <<>>
    BY <1>1, DropType DEF ResponsesInv
  <1> HIDE DEF left
  <1>3. m_read_buf' \in Seq(Answered) /\ Len(m_read_buf') <= Len(m_read_buf)
    BY <1>1, <1>2
  <1>4. Len(m_read_buf') + Len(arrived') <= m_max_rbuffer_size
    <2>1. Len(m_read_buf') \in Nat
      BY <1>3
    <2> QED
      BY <1>1, <1>3, <2>1, BufferFits
  <1>5. ASSUME ~torn'
        PROVE  Untorn'
    <2>1. \A i \in 1 .. Len(units') : Intact(units'[i])
      BY <1>1, EmptySeq
    <2>2. CASE up
      <3>1. Untorn
        BY <1>1, <1>5, <2>2 DEF ResponsesInv
      <3>2. left \o arrived = left
        BY <1>2, ConcatEmptySeq
      <3>3. (Unread \o responses)' = Unread \o responses
        BY <1>1, <2>2, <3>2 DEF Unread, left
      <3> QED
        BY <1>1, <2>1, <2>2, <3>1, <3>3 DEF Untorn
    <2>3. CASE ~up
      <3>1. m_read_buf = <<>>
        BY <1>1, <1>5, <2>3 DEF ResponsesInv, Untorn
      <3> QED
        BY <1>1, <2>1, <2>3, <3>1 DEF Untorn
    <2> QED
      BY <2>2, <2>3
  <1>6. Answered' = Answered /\ Named(Head(units))' = Named(Head(units))
    BY <1>1 DEF Answered, Named
  <1> QED
    BY <1>1, <1>3, <1>4, <1>5, <1>6 DEF ResponsesInv

\* Every step keeps ResponsesInv.
LEMMA StepKeepsResponsesInv ==
  ASSUME RpcInv, [Next]_vars
  PROVE  ResponsesInv'
  <1>1. ResponsesInv
    BY DEF RpcInv
  <1>2. ASSUME \/ \E r \in Requests :
                    \/ insert(r) \/ insert_timer(r) \/ emplace(r) \/ remove_unsent(r)
                    \/ TimerExpires(r) \/ remove_overtime(r) \/ get_next_promise(r)
                    \/ wait_for(r) \/ remove_promise(r) \/ write(r) \/ write_fails(r)
               \/ bind_invoke \/ UNCHANGED vars
        PROVE  ResponsesInv'
    <2>1. UNCHANGED <<up, responses, arrived, m_read_buf, reader>> /\ Ran \subseteq Ran'
      BY <1>2 DEF insert, insert_timer, emplace, remove_unsent, TimerExpires, remove_overtime,
         get_next_promise, wait_for, remove_promise, write, write_fails, bind_invoke, vars, wire,
         history, ran, Ran
    <2> QED
      BY <1>1, <2>1, ResponsesInvFrame
  <1>3. CASE no_bind
    <2> DEFINE r == Head(requests)
    <2>1. r \in Requests /\ up
      BY <1>3, HeadTailProperties DEF RpcInv, RequestsInv, no_bind
    <2>2. /\ r \in Ran' /\ Ran \subseteq Ran' /\ responses' = responses \o Package(r)
          /\ UNCHANGED <<up, arrived, m_read_buf, reader>>
      BY <1>3 DEF no_bind, Ran
    <2> HIDE DEF r
    <2> QED
      BY <2>1, <2>2, AnswerKeepsResponsesInv
  <1>4. ASSUME NEW r \in Requests, rsp_bind(r)
        PROVE  ResponsesInv'
    <2>1. r \in Ran /\ up
      BY <1>4 DEF RpcInv, RequestsInv, rsp_bind, Ran
    <2>2. /\ Ran' = Ran /\ responses' = responses \o Package(r)
          /\ UNCHANGED <<up, arrived, m_read_buf, reader>>
      BY <1>4 DEF rsp_bind, history, ran, Ran
    <2> QED
      BY <2>1, <2>2, AnswerKeepsResponsesInv
  <1>5. CASE callback_invoke \/ set_value
    <2>1. /\ units # <<>> /\ units' = Tail(units) /\ promise' = {} /\ Ran' = Ran
          /\ UNCHANGED <<up, responses, arrived, m_read_buf, reading, deal_len, torn>>
      BY <1>1, <1>5 DEF callback_invoke, set_value, ResponsesInv, wire, history, ran, Ran
    <2> QED
      BY <1>1, <2>1, DeliveryKeepsResponsesInv
  <1>6. CASE misread
    <2>1. /\ units # <<>> /\ promise = {} /\ UNCHANGED promise /\ Ran' = Ran
      BY <1>6 DEF misread, history, ran, Ran
    <2>2. CASE units' = Tail(units) /\ UNCHANGED <<wire, reading, deal_len, torn>>
      <3>1. UNCHANGED <<up, responses, arrived, m_read_buf, reading, deal_len, torn>>
        BY <2>2 DEF wire
      <3> QED
        BY <1>1, <2>1, <2>2, <3>1, DeliveryKeepsResponsesInv
    <2>3. CASE /\ Shutdown(m_read_buf) /\ units' = <<>> /\ reading' = FALSE /\ deal_len' = 0
               /\ UNCHANGED arrived
      BY <1>1, <1>6, <2>3, MisreadKeepsResponsesInv
    <2> QED
      BY <1>6, <2>2, <2>3 DEF misread
  <1>7. ASSUME \/ close \/ connect \/ ReadCompletes \/ handle_read \/ bad_package \/ sync_invoke
               \/ consume_read_buf
        PROVE  ResponsesInv'
    BY <1>1, <1>7, CloseKeepsResponsesInv, MisreadKeepsResponsesInv, ConnectKeepsResponsesInv,
       CompletedReadKeepsResponsesInv, ReadKeepsResponsesInv, SyncInvokeKeepsResponsesInv,
       ConsumeKeepsResponsesInv
  <1> QED
    BY <1>2, <1>3, <1>4, <1>5, <1>6, <1>7 DEF Next, call

\* Every step keeps CallerInv.
LEMMA StepKeepsCallerInv ==
  ASSUME RpcInv, [Next]_vars
  PROVE  CallerInv'
  <1>1. CallerInv
    BY DEF RpcInv
  <1>2. ASSUME \/ \E r \in Requests : rsp_bind(r)
               \/ bind_invoke \/ no_bind \/ close \/ connect \/ ReadCompletes \/ handle_read
               \/ bad_package \/ misread \/ consume_read_buf \/ UNCHANGED vars
        PROVE  CallerInv'
    <2>1. UNCHANGED <<model, at, m_callback_map, m_overtime_reqs, m_future_map, timers, expired,
                      has_value, promise, status, early>>
      BY <1>2 DEF rsp_bind, bind_invoke, no_bind, close, connect, ReadCompletes, handle_read,
         bad_package, misread, consume_read_buf, vars, proxies, reader, history
    <2> QED
      BY <1>1, <2>1 DEF CallerInv, CallbackInv, FutureInv
  <1> QED
    BY <1>1, <1>2, CallbackKeepsCallerInv, FutureKeepsCallerInv, DeliveryKeepsCallerInv
       DEF Next, call

------------------------------------------------------------------------------
(* The theorems.                                                           *)

\* RpcInv is inductive.
LEMMA RpcInvStep == RpcInv /\ [Next]_vars => RpcInv'
  BY StepKeepsCallerInv, StepKeepsRequestsInv, StepKeepsResponsesInv DEF RpcInv

\* RpcInv holds in every reachable state: it relates each call to its entries in the maps of the
\* proxies, to the requests on the wire and to the bytes of its answer.
THEOREM Reachable == Spec => []RpcInv
  BY RpcInvInit, RpcInvStep, PTL DEF Spec

\* The maps of the proxies hold no call that has ended, but for the two that rpc_base.hpp
\* leaves there, and every callback that waits has its timer.
THEOREM NothingIsLeftBehind == Spec => []NothingLeftBehind
  <1>1. RpcInv => NothingLeftBehind
    BY BufferFits
       DEF RpcInv, CallerInv, CallbackInv, FutureInv, NothingLeftBehind, TypeOK
  <1> QED
    BY <1>1, Reachable, PTL

------------------------------------------------------------------------------
(* The proxies implement Calls.                                            *)

\* The initial states of the proxies are initial states of Calls.
LEMMA CallsInit == Init => Abstract!Init
  BY DEF Init, Abstract!Init

\* Every step of the proxies, the service and the network is a step of Calls or changes no call.
LEMMA CallsStep ==
  ASSUME RpcInv, [Next]_vars
  PROVE  [Abstract!Next]_<<status, executed, refused, torn, garbled>>
  <1> DEFINE Step == [Abstract!Next]_<<status, executed, refused, torn, garbled>>
  <1> USE DEF Abstract!Next, Abstract!Begin, Abstract!Execute, Abstract!Refuse, Abstract!Tear,
              Abstract!Garble, Abstract!End, Abstract!Unanswered, Abstract!Failures
  <1>1. CallerInv /\ RequestsInv /\ ResponsesInv
    BY DEF RpcInv
  <1>2. ASSUME NEW r \in Requests, insert(r) \/ get_next_promise(r)
        PROVE  Step
    <2>1. status[r] = "none"
      BY <1>1, <1>2 DEF CallerInv, CallbackInv, FutureInv, insert, get_next_promise, Moves
    <2>2. Ends(r, "open") /\ UNCHANGED <<ran, garbled, reader>>
      BY <1>2 DEF insert, get_next_promise
    <2> QED
      BY <2>1, <2>2 DEF Ends, ran, reader
  <1>3. ASSUME NEW r \in Requests, remove_unsent(r) \/ remove_overtime(r)
        PROVE  Step
    <2>1. r \in m_callback_map => status[r] = "open"
      BY <1>1 DEF CallerInv, CallbackInv
    <2>2. /\ IF r \in m_callback_map
             THEN \E s \in Abstract!Failures : Ends(r, s)
             ELSE UNCHANGED status
          /\ UNCHANGED <<ran, garbled, reader>>
      BY <1>3 DEF remove_unsent, remove_overtime, Finish
    <2> QED
      BY <2>1, <2>2 DEF Ends, ran, reader
  <1>4. ASSUME NEW r \in Requests, remove_promise(r)
        PROVE  Step
    <2>1. /\ at[r] \in {"ready", "timeout"} /\ status[r] = "open"
          /\ at[r] = "ready" => r \in Ran \cup garbled
      BY <1>1, <1>4 DEF CallerInv, CallbackInv, FutureInv, RequestsInv, remove_promise, Moves,
         Waiting
    <2>2. UNCHANGED <<ran, garbled, reader>>
      BY <1>4 DEF remove_promise
    <2>3. PICK s \in {"ok", "no_bind", "garbled", "timeout"} :
            /\ Ends(r, s)
            /\ s = "ok" => r \in executed
            /\ s = "no_bind" => r \in refused
            /\ s = "garbled" => r \in garbled
      <3>1. CASE at[r] = "ready"
        BY <1>4, <2>1, <3>1 DEF remove_promise, Moves, Answer, Ran
      <3>2. CASE at[r] = "timeout"
        BY <1>4, <3>2 DEF remove_promise, Moves
      <3> QED
        BY <2>1, <3>1, <3>2
    <2> QED
      BY <2>1, <2>2, <2>3 DEF Ends, ran, reader
  <1>5. ASSUME NEW r \in Requests, write_fails(r)
        PROVE  Step
    <2>1. model[r] # "callback" => status[r] = "open"
      BY <1>1, <1>5 DEF CallerInv, FutureInv, write_fails, Moves, Waiting
    <2> QED
      BY <1>5, <2>1 DEF write_fails, Ends, ran, reader
  <1>6. CASE bind_invoke \/ no_bind
    <2> DEFINE r == Head(requests)
    <2>1. r \in Requests /\ r \notin Ran /\ status[r] # "none"
      <3>1. r = requests[1] /\ 1 \in 1 .. Len(requests)
        BY <1>1, <1>6, EmptySeq DEF RequestsInv, bind_invoke, no_bind
      <3> QED
        BY <1>1, <3>1 DEF RequestsInv, CallerInv, CallbackInv, FutureInv, Sent
    <2>2. \/ executed' = executed \cup {r} /\ UNCHANGED refused
          \/ refused' = refused \cup {r} /\ UNCHANGED executed
      BY <1>6 DEF bind_invoke, no_bind
    <2>3. UNCHANGED <<status, torn, garbled>>
      BY <1>6 DEF bind_invoke, no_bind, reader
    <2> HIDE DEF r
    <2> QED
      BY <2>1, <2>2, <2>3 DEF Ran
  <1>7. CASE callback_invoke
    <2>1. PICK r \in Named(Head(units)) :
            Finish(r, IF Intact(Head(units)) THEN Answer(r) ELSE "garbled")
      BY <1>7 DEF callback_invoke
    <2>2. r \in Requests /\ (torn \/ Intact(Head(units))) /\ (Intact(Head(units)) => r \in Ran)
      BY <1>7, HeadUnit DEF callback_invoke
    <2>3. UNCHANGED <<ran, garbled, torn>>
      BY <1>7 DEF callback_invoke
    <2>4. r \in m_callback_map => status[r] = "open"
      BY <1>1, <2>2 DEF CallerInv, CallbackInv
    <2>5. PICK s \in {"ok", "no_bind", "garbled"} :
            /\ Finish(r, s)
            /\ s = "ok" => r \in executed
            /\ s = "no_bind" => r \in refused
            /\ s = "garbled" => torn
      BY <2>1, <2>2 DEF Answer, Ran
    <2> QED
      BY <2>2, <2>3, <2>4, <2>5 DEF Finish, Ends, ran
  <1>8. CASE set_value
    <2>1. UNCHANGED <<status, ran, torn>> /\ torn \in BOOLEAN
      BY <1>1, <1>8 DEF set_value, ResponsesInv
    <2>2. CASE Intact(Head(units))
      BY <1>8, <2>1, <2>2 DEF set_value, ran
    <2>3. CASE ~Intact(Head(units))
      <3>1. units # <<>>
        BY <1>1, <1>8 DEF set_value, ResponsesInv
      <3>2. torn
        BY <2>3, <3>1, HeadUnit
      <3>3. PICK r \in Requests : promise = {r}
        <4>1. PICK r \in Named(Head(units)) : promise = {r}
          BY <1>1, <1>8 DEF set_value, ResponsesInv
        <4> QED
          BY <3>1, <4>1, HeadUnit
      <3> QED
        BY <1>8, <2>1, <2>3, <3>2, <3>3 DEF set_value, ran
    <2> QED
      BY <2>2, <2>3
  <1>9. CASE close \/ handle_read \/ bad_package \/ misread \/ consume_read_buf
    <2>1. UNCHANGED <<status, ran, garbled>>
      BY <1>9 DEF close, handle_read, bad_package, misread, consume_read_buf, history
    <2>2. torn \in BOOLEAN /\ torn' \in BOOLEAN
      <3>1. ResponsesInv'
        BY StepKeepsResponsesInv
      <3> QED
        BY <1>1, <3>1 DEF ResponsesInv
    <2>3. torn' = torn \/ torn' = ~torn
      BY <2>2
    <2> QED
      BY <2>1, <2>3 DEF ran
  <1>10. ASSUME \/ \E r \in Requests : \/ insert_timer(r) \/ emplace(r) \/ write(r) \/ wait_for(r)
                                       \/ TimerExpires(r) \/ rsp_bind(r)
                \/ connect \/ ReadCompletes \/ sync_invoke \/ UNCHANGED vars
         PROVE  UNCHANGED <<status, executed, refused, torn, garbled>>
    BY <1>10 DEF insert_timer, emplace, write, wait_for, TimerExpires, rsp_bind, connect,
       ReadCompletes, sync_invoke, vars, reader, history, ran
  <1> QED
    BY <1>2, <1>3, <1>4, <1>5, <1>6, <1>7, <1>8, <1>9, <1>10 DEF Next, call

\* Whatever is lost, late or cut in two, each call ends at most once, and while the bytes that
\* are read are those of one connection, with its own answer.
THEOREM ProxiesImplementCalls == Spec => CallsComplete
  <1>1. RpcInv /\ [Next]_vars => [Abstract!Next]_<<status, executed, refused, torn, garbled>>
    BY CallsStep
  <1> QED
    BY <1>1, CallsInit, Reachable, PTL DEF Spec, CallsComplete, Abstract!Spec
==============================================================================
