---------------------------- MODULE TimerManager -----------------------------
(***************************************************************************)
(* BTool::TimerManager (timer_manager.hpp): two maps of timers and the one *)
(* asio timer, armed for the earliest of them, all under m_queue_mtx; a    *)
(* section that holds it is one step.  The handlers of the asio timer run  *)
(* in the io thread, which hands what is due to the ParallelTaskPool; the  *)
(* threads in Users call the functions, from callbacks too.  One thread    *)
(* starts and stops the manager: start() is one step, for it has returned  *)
(* before the manager is used, and so is the reset of the switch at the    *)
(* end of stop(), for has_started(), all that the other threads read, is   *)
(* false before, between and after its three stores.                       *)
(*                                                                         *)
(* m_wait is the wait of the asio timer that is outstanding (at most one:  *)
(* expires_at cancels), and m_ready holds the handlers that wait in the    *)
(* io_context.                                                             *)
(***************************************************************************)
EXTENDS Integers, FiniteSets, FiniteSetsExt, SequencesExt, AtomicSwitch, Selection

CONSTANTS
  Users,                \* threads that use the manager
  Owners,               \* the thread that starts and stops it
  Millisecond,          \* ticks of the clock in a millisecond
  m_space_millsecond,   \* the slice: time points are multiples of it
  Durations, Intervals, \* how far off in ticks, and interval_ms, in the calls of insert
  LoopCounts,           \* loop_count of the calls of insert; 0: without end
  MaxTimers, MaxTime, MaxStarts,  \* bounds of the model
  MaxRounds                       \* rounds of a timer that DueFires follows

ASSUME TimerAssumption == m_space_millsecond \in Nat /\ MaxTimers \in Nat /\ MaxTime \in Nat
                          /\ MaxStarts \in Nat /\ Intervals \subseteq Nat /\ LoopCounts \subseteq Nat
                          /\ Durations \subseteq Nat /\ Millisecond \in Nat \ {0}
                          /\ \A u, v \in Owners : u = v

VARIABLES
  now,                \* the clock
  item,               \* TimerTask of each id that has been used
  m_all_timer_map,    \* ids of the timers
  m_timer_part_queue, \* the same timers as pairs of time point and id
  m_cur_task,         \* id of the timer the asio timer is armed for; 0: the null pointer
  m_wait, m_ready,
  upc,                \* where each user is
  inserting,          \* the timer that each user is inserting
  m_task_pool,        \* ids whose callback waits in the ParallelTaskPool
  starts,
  fired,              \* history: how often each timer has been handed to the pool
  cleared, stranded   \* history: clear was called; an insert was overtaken by a stop

timers == <<item, m_all_timer_map, m_timer_part_queue>>
armed == <<m_cur_task, m_wait, m_ready>>
history == <<fired, cleared, stranded>>
vars == <<switch, now, timers, armed, upc, inserting, m_task_pool, starts,
          history>>

Ids == 1 .. MaxTimers
None == [id |-> 0, time_point |-> 0]
NoTimer == [time_point |-> 0, asked |-> 0, interval |-> 0, loop_count |-> 0, loop_index |-> 0]
Wait == [id : Nat, time_point : Nat]

------------------------------------------------------------------------------
(* TimerTask                                                               *)

\* duration_cast: what is left of the last millisecond is dropped.
InMilliseconds(time) == time \div Millisecond

\* Rounds down.
BadRoundUp(ms) == (ms \div m_space_millsecond) * m_space_millsecond

RoundUp(ms) ==
  IF m_space_millsecond > 1
  THEN ((ms + m_space_millsecond - 1) \div m_space_millsecond) * m_space_millsecond
  ELSE ms

\* The first time point of a timer: in whole milliseconds before it is rounded up, so that
\* it may be earlier than time, by less than a millisecond.
RevisePoint(time) ==
  IF m_space_millsecond > 1 THEN Millisecond * RoundUp(InMilliseconds(time)) ELSE time

need_next(i) == i.loop_count = 0 \/ i.loop_index < i.loop_count
loop_once_count(i) ==
  IF need_next(i) /\ i.loop_count # 0 THEN [i EXCEPT !.loop_index = @ + 1] ELSE i
loop_once_time(i) == [i EXCEPT !.time_point = @ + i.interval]
cancel(ids) == [id \in DOMAIN item |-> IF id \in ids THEN [item[id] EXCEPT !.loop_count = -1]
                                                     ELSE item[id]]

------------------------------------------------------------------------------
(* The asio timer                                                          *)

Aborted == IF m_wait = None THEN <<>> ELSE <<[ok |-> FALSE, wait |-> m_wait]>>
CancelTimer == m_wait' = None /\ m_ready' = m_ready \o Aborted

Earlier(p, q) == p[1] < q[1] \/ (p[1] = q[1] /\ p[2] < q[2])
front(part) == CHOOSE pair \in part : \A q \in part \ {pair} : Earlier(pair, q)

\* start(id): nothing is armed in a manager that is being stopped.
Arm(id, time, ready) ==
  IF has_started
  THEN m_wait' = [id |-> id, time_point |-> time] /\ m_ready' = ready \o Aborted
  ELSE m_ready' = ready /\ UNCHANGED m_wait

Expires ==
  /\ m_wait # None /\ now >= m_wait.time_point
  /\ m_ready' = Append(m_ready, [ok |-> TRUE, wait |-> m_wait])
  /\ m_wait' = None
  /\ UNCHANGED <<switch, now, timers, m_cur_task, upc, inserting, m_task_pool, starts,
                 history>>

Tick ==
  /\ now < MaxTime /\ now' = now + 1
  /\ UNCHANGED <<switch, timers, armed, upc, inserting, m_task_pool, starts, history>>

------------------------------------------------------------------------------
(* insert                                                                  *)

InsertCheck(u, duration, interval, loop_count) ==
  /\ upc[u] = "idle" /\ has_started
  /\ upc' = [upc EXCEPT ![u] = "insert"]
  /\ inserting' = [inserting EXCEPT ![u] =
       [time_point |-> RevisePoint(now + duration), asked |-> now + duration,
        interval |-> Millisecond * RoundUp(interval), loop_count |-> loop_count, loop_index |-> 0]]
  /\ UNCHANGED <<switch, now, timers, armed, m_task_pool, starts, history>>

\* Leaves the asio timer armed for a later timer.
BadArmInserted(id, time, part) ==
  IF m_cur_task = 0 THEN m_cur_task' = id /\ Arm(id, time, m_ready) ELSE UNCHANGED armed

ArmInserted(id, time, part) ==
  IF m_cur_task = 0 THEN m_cur_task' = id /\ Arm(id, time, m_ready)
  ELSE /\ UNCHANGED m_cur_task
       /\ IF m_cur_task # front(part)[2] THEN CancelTimer ELSE UNCHANGED <<m_wait, m_ready>>

Insert(u) ==
  /\ upc[u] = "insert"
  /\ LET id == Len(item) + 1
     IN  /\ id \in Ids
         /\ item' = Append(item, inserting[u])
         /\ m_all_timer_map' = m_all_timer_map \cup {id}
         /\ m_timer_part_queue' = m_timer_part_queue \cup {<<inserting[u].time_point, id>>}
         /\ ArmInserted(id, inserting[u].time_point, m_timer_part_queue')
         /\ fired' = Append(fired, 0)
  /\ upc' = [upc EXCEPT ![u] = "idle"] /\ inserting' = [inserting EXCEPT ![u] = NoTimer]
  /\ stranded' = (stranded \/ ~has_started)
  /\ UNCHANGED <<switch, now, m_task_pool, starts, cleared>>

------------------------------------------------------------------------------
(* erase, clear_point_timer, clear                                         *)

\* Forgets the time points.
BadForget(ids) == m_all_timer_map' = m_all_timer_map \ ids /\ UNCHANGED m_timer_part_queue

Forget(ids) ==
  /\ m_all_timer_map' = m_all_timer_map \ ids
  /\ m_timer_part_queue' = {pair \in m_timer_part_queue : pair[2] \notin ids}

\* The timers in ids go; the asio timer is cancelled if it was armed for one of them.
RemoveTimers(ids) ==
  /\ item' = cancel(ids)
  /\ Forget(ids)
  /\ IF m_cur_task \in ids THEN CancelTimer ELSE UNCHANGED <<m_wait, m_ready>>
  /\ UNCHANGED <<switch, now, m_cur_task, upc, inserting, m_task_pool, starts, history>>

erase(u, id) ==
  upc[u] = "idle" /\ id \in m_all_timer_map /\ RemoveTimers({id})

clear_point_timer(u, time) ==
  LET ids == {pair[2] : pair \in {p \in m_timer_part_queue : p[1] = time}}
  IN  upc[u] = "idle" /\ ids # {} /\ RemoveTimers(ids)

ClearTimers ==
  /\ Forget(m_all_timer_map)
  /\ m_task_pool' = <<>>
  /\ CancelTimer
  /\ m_cur_task' = 0
  /\ UNCHANGED <<item, now, inserting, starts>>

clear(u) ==
  /\ upc[u] = "idle" /\ ClearTimers
  /\ cleared' = TRUE
  /\ UNCHANGED <<switch, upc, fired, stranded>>

------------------------------------------------------------------------------
(* The handler, and the pool                                               *)

\* Waits for the next insert.
BadRearm(part, ready) == m_cur_task' = 0 /\ m_ready' = ready /\ UNCHANGED m_wait

\* Armed for the first timer of part.
Rearm(part, ready) ==
  IF part = {} THEN m_cur_task' = 0 /\ m_ready' = ready /\ UNCHANGED m_wait
  ELSE LET pair == front(part)
       IN  m_cur_task' = pair[2] /\ Arm(pair[2], pair[1], ready)

\* loop_point_timer: each timer in due, in the order of the inner map, is handed to the
\* pool, counted, and goes to its next time point or away.
LoopPointTimer(due) ==
  LET counted == [id \in due |-> loop_once_count(item[id])]
      staying == {id \in due : need_next(counted[id])}
  IN  /\ m_task_pool' = m_task_pool \o InOrder(due)
      /\ item' = [id \in DOMAIN item |->
                    CASE id \in staying -> loop_once_time(counted[id])
                      [] id \in due \ staying -> counted[id]
                      [] OTHER -> item[id]]
      /\ m_all_timer_map' = m_all_timer_map \ (due \ staying)
      /\ m_timer_part_queue' = {pair \in m_timer_part_queue : pair[2] \notin due}
                                 \cup {<<item'[id].time_point, id>> : id \in staying}
      /\ fired' = [id \in DOMAIN fired |-> IF id \in due THEN fired[id] + 1 ELSE fired[id]]

\* A wait that was cancelled runs nothing.
handler ==
  /\ m_ready # <<>>
  /\ LoopPointTimer({pair[2] : pair \in {p \in m_timer_part_queue :
                                  Head(m_ready).ok /\ p[1] = Head(m_ready).wait.time_point}})
  /\ Rearm(m_timer_part_queue', Tail(m_ready))
  /\ UNCHANGED <<switch, now, upc, inserting, starts, cleared, stranded>>

\* A thread of the pool takes a callback, whatever has become of the timer since.
Invoke ==
  /\ m_task_pool # <<>>
  /\ m_task_pool' = Tail(m_task_pool)
  /\ UNCHANGED <<switch, now, timers, armed, upc, inserting, starts, history>>

------------------------------------------------------------------------------
(* start and stop                                                          *)

start_manager(u) ==
  /\ upc[u] = "idle" /\ starts < MaxStarts
  /\ ~m_binit /\ m_binit' = TRUE /\ m_bstart' = TRUE
  /\ starts' = starts + 1
  /\ UNCHANGED <<m_bstop, now, timers, armed, upc, inserting, m_task_pool, history>>

StopSwitch(u) ==
  /\ upc[u] = "idle" /\ MayStop /\ StopCas
  /\ upc' = [upc EXCEPT ![u] = "stop_clear"]
  /\ UNCHANGED <<now, timers, armed, inserting, m_task_pool, starts, history>>

StopClear(u) ==
  /\ upc[u] = "stop_clear" /\ ClearTimers
  /\ upc' = [upc EXCEPT ![u] = "stop_ioc"]
  /\ UNCHANGED <<switch, history>>

\* m_ioc_pool.stop() joins the io thread; handlers that have not run are lost.
StopIoc(u) ==
  /\ upc[u] = "stop_ioc"
  /\ m_wait' = None /\ m_ready' = <<>>
  /\ upc' = [upc EXCEPT ![u] = "stop_reset"]
  /\ UNCHANGED <<switch, now, timers, m_cur_task, inserting, m_task_pool, starts,
                 history>>

StopReset(u) ==
  /\ upc[u] = "stop_reset"
  /\ m_bstart' = FALSE /\ m_bstop' = FALSE /\ m_binit' = FALSE
  /\ upc' = [upc EXCEPT ![u] = "idle"]
  /\ UNCHANGED <<now, timers, armed, inserting, m_task_pool, starts, history>>

------------------------------------------------------------------------------
Init ==
  /\ SwitchInit
  /\ now = 0 /\ item = <<>> /\ m_all_timer_map = {} /\ m_timer_part_queue = {}
  /\ m_cur_task = 0 /\ m_wait = None /\ m_ready = <<>>
  /\ upc = [u \in Users \cup Owners |-> "idle"]
  /\ inserting = [u \in Users |-> NoTimer]
  /\ m_task_pool = <<>> /\ starts = 0
  /\ fired = <<>> /\ cleared = FALSE /\ stranded = FALSE

stop(u) == StopClear(u) \/ StopIoc(u) \/ StopReset(u)

Next ==
  \/ Tick \/ Expires \/ handler \/ Invoke
  \/ \E u \in Users :
       \/ Insert(u) \/ clear(u)
       \/ \E id \in Ids : erase(u, id)
       \/ \E time \in 0 .. MaxTime : clear_point_timer(u, time)
       \/ \E duration \in Durations, interval \in Intervals, loop_count \in LoopCounts :
            InsertCheck(u, duration, interval, loop_count)
  \/ \E u \in Owners : start_manager(u) \/ StopSwitch(u) \/ stop(u)

Spec == Init /\ [][Next]_vars

\* Threads run, and the asio timer expires; nothing else has to happen.
FairSpec ==
  /\ Spec
  /\ WF_vars(Expires) /\ WF_vars(handler)
  /\ \A u \in Owners : WF_vars(stop(u))

------------------------------------------------------------------------------
Task == [time_point : Nat, asked : Nat, interval : Nat, loop_count : Int, loop_index : Nat]

TypeOK ==
  /\ SwitchTypeOK
  /\ item \in Seq(Task) /\ Len(item) <= MaxTimers
  /\ m_all_timer_map \subseteq DOMAIN item
  /\ m_cur_task \in 0 .. Len(item)
  /\ m_wait \in Wait /\ m_ready \in Seq([ok : BOOLEAN, wait : Wait])
  /\ m_task_pool \in Seq(DOMAIN item)
  /\ DOMAIN fired = DOMAIN item

\* The two maps hold the same timers, each once, at the time point it has now: front()
\* is never taken of an empty map, and no timer is looked for at another time point.
MapsAgree ==
  TypeOK /\ m_timer_part_queue = {<<item[id].time_point, id>> : id \in m_all_timer_map}

\* Unless an insert was overtaken by stop(): when no handler is on its way, the asio
\* timer is armed for the earliest timer; and without clear() it is armed only once.
ArmedForFront ==
  stranded \/
    /\ has_started /\ m_timer_part_queue # {} /\ m_ready = <<>> =>
         m_wait.id # 0 /\ m_wait.time_point = front(m_timer_part_queue)[1]
    /\ cleared \/ Len(m_ready \o Aborted) <= 1

\* A timer is handed to the pool less than a millisecond before it was asked for at the
\* earliest, the drift that the header of the file grants, never two rounds in less than its
\* interval, and no more than loop_count times, through erasures, clears and restarts.
FiresAsAsked ==
  \A id \in DOMAIN item :
    /\ fired[id] > 0 => now + Millisecond > item[id].asked + (fired[id] - 1) * item[id].interval
    /\ item[id].loop_count > 0 => fired[id] <= item[id].loop_count

\* A timer that is due is handed to the pool, unless it is removed.
DueFires ==
  \A id \in Ids, n \in 0 .. MaxRounds :
    (id \in m_all_timer_map /\ fired[id] = n /\ item[id].time_point <= now)
      ~> (stranded \/ id \notin m_all_timer_map \/ fired[id] > n)
==============================================================================
