# btool: a TLA+ verification project

`btool` is a C++17 header library: task queues and thread pools, a timer, TCP sessions and
servers over asio, an RPC layer, an AMQP session, and many small utilities. This directory
holds TLA+ modules of its concurrent core, TLC configurations that check them on small
instances, and proofs that TLAPS checks for every instance.

Contents: [Inventory](#inventory) - [Modules](#modules) - [Runs](#runs) -
[Fairness](#fairness) - [Proofs](#proofs) - [Disagreements](#disagreements-with-the-documentation) -
[Not modelled](#not-modelled) - [Plan](#plan)

## Inventory

| Part | State it keeps | Operations | What makes it correct |
|---|---|---|---|
| `AtomicSwitch` (`atomic_switch.hpp`) | three atomic flags: initialised, started, stopped | `init`, `start`, `stop`, `reset` | one start and one stop per life; after `reset` it can be used again |
| `TaskQueue`, `ParallelTaskQueue` and variants (`task_queue.hpp`) | FIFO of functions, `m_bstop`, a mutex and two condition variables (or a lock-free queue and a counter) | `add_task`, `pop_task`, `clear`, `start`, `stop`, `wait` | every task taken once; no lost wake-up; the limit blocks and unblocks callers |
| `LastTaskQueue` | FIFO of properties, newest task of each, properties being run | the same and `remove_prop` | list and map in step; one task per property at a time; only the newest state runs |
| `SerialTaskQueue` | list of nodes (property, count, takeable), a deque per property, properties being run, a counter | the same | nothing lost or doubled; FIFO per property; one at a time; its assertions |
| `SPMCSerialTaskQueue`, `LockFreeTaskQueue` | one lock-free queue per property, a flag per property | the same | the flag gives a property to one thread |
| `TaskPoolBase` and pools (`task_pool.hpp`) | a switch, a queue, `SafeThread`s, a version number of the threads | `start`, `stop`, `reset_thread_num`, `add_task`, `wait`, `clear` | `stop` returns and joins all; accepted work is served through resizes; the queue's promises survive |
| rotating, concurrent and coroutine pools | a queue per thread or property | `add_task`, `stop` | serial per property; no lost wake-up |
| `TimerManager` (`timer_manager.hpp`) | map of time points, the task the asio timer is armed for | `insert`, `erase`, `clear`, `start`, `stop`, the handler | the earliest task is armed whenever there is one; once per firing |
| `TcpSession`, `WebsocketSession`, `WebsocketSslSession` and their servers (`boost_net/`) | switch, socket, read and write buffers, the message being sent; map of sessions | `connect`, `start`, `write`, `write_tail`, handlers, `shutdown`, `reconnect` | messages sent in order, one write at a time; a started session hears of its end; reconnect starts afresh; the map forgets what has closed |
| RPC (`boost_net/rpc_base.hpp`) | pending promises, callbacks and timers by request id | request, response, time-out, reconnect | every request ends once: answered or timed out |
| `rmq::Session` (`rmq/rmq_session.hpp`) | connection, channels with a switch each, write buffer, a read and a write thread | `connect`, `write`, `close`, reconnects | one write in flight; buffered messages are sent after a reconnect |
| HTTP and HTTPS sessions | one request, one response, two flags | `connect`, `async_write`, handlers | one exchange at a time |
| `ScrollWindowArray`, `ObjectPool`, conversions, files, encryption | local data | | sequential |

How they interact: a pool owns a switch and a queue; its threads loop in `thread_fun`, which
calls `pop_task`, which runs the user's task outside the mutex. Callers of `add_task` block
on the same monitor when the queue is full. `stop` stops switch, then queue, then joins.
`TimerManager` runs its callbacks in a `ParallelTaskPool`; RPC uses `TimerManager` for its
time-outs and `TcpSession` for its messages; `rmq::Session` has two single-thread pools.

What is hard: wake-ups (notification after the unlock, spurious wake-ups, `notify_one` with
several kinds of waiters), tests of atomic flags outside the mutex, lifecycle calls that
meet calls of an older life, tasks dropped while others run, counters kept beside the
data they count, completions of an old connection or an old wait that are handled when a new
one has begun, and a response, a failed write and a time-out that compete for one call. PROJECT.json lists each such hazard at its line.

## Modules

Names of constants, variables and operators are the source's where TLA+ allows it. `pc[t]`
is the place thread `t` has reached in the call it is making. A section under the mutex is
one step, unless the code reads something in it that others change without the mutex; a test
of an atomic flag outside the mutex is a step of its own.

`QueueMonitor` is the monitor all blocking queues share: `m_mtx`, `m_cv_not_full`,
`m_cv_not_empty`, `notify_one` (any one waiter), `notify_all`, spurious wake-ups. It models
the C++ standard library as the queues use it, and is marked external.

`LastTaskQueue` has one action per step of `add_task` (test, wait, refuse or insert,
notify), `pop_task` (wait, nothing, take, finish, notify), `clear`, `stop`, `start` and
`remove_prop`. The predicate of a `wait` and the code after it are two steps, since
`start()` flips `m_bstop` without the mutex. A task is the number of its acceptance; the
history variables `accepted` and `started` let properties say "newest".

`TaskPool` EXTENDS the queue and adds the switch, the version number, the `SafeThread`s
and the callers of the pool's functions: each load-then-compare_exchange of the switch is
two steps, `reset()` is three stores, `stop` is switch, queue, swap, join, reset. A worker
is a place where a `SafeThread` may run; `thread_ver[w]` is the version it was made with.
Every action conjoins a queue's action or leaves the queue alone, so that the pool's behaviours
are the queue's by the way the modules are written (`PoolIsQueue`): not a property worth a run,
but the lemma through which the queue's theorems carry over to the pool.

`SerialTaskQueue` models the list of nodes, the deques, the counter `m_approx_size`, the
fast path of `add_task` (`try_lock`, which may fail spuriously, and no second test of
`not_full`) and the slow one. A moved-out function at the head of a deque is the number 0.
The pointers between nodes follow from the sequence of nodes and are not modelled. The
constant `CallersWait` says whether callers keep `clear`, `start` and `remove_prop` for
moments when no task they concern runs, as the pool does for `start` after `stop` has
joined; `serial_clear` shows what happens when they do not.

`ParallelTaskQueue` is the queue whose list is lock-free: the mutex and the condition variables
only serve to sleep, and `enqueue`, dequeue and the notifies are steps without it. The list is
a FIFO here, which `moodycamel::ConcurrentQueue` is for each producer; no property is about
the order.

`AtomicSwitch` has the flags and functions of that class. `start()` and `stop()` are their loads
(`MayStart`, `MayStop`) and their `compare_exchange` (`StartCas`, `StopCas`), so that another
thread's stop and close can come in between; `reset()` is three stores. The `TimerManager` alone takes
`start` and `reset` in one step: one thread starts and stops it, and what the others read,
`has_started()`, is false before, between and after the three stores.

The sessions are layers of EXTENDS:

| Module | Models |
|---|---|
| `AsioSession` | the socket, operations begun, completions in the io_context, and the threads: `pc[t]` is a stack, since callbacks may call `shutdown`, `write` or, in `close_cbk`, `connect`. External: asio and beast as the sessions use them. Closing the socket completes everything outstanding with an error. |
| `StreamSession` | what the three classes share word for word: buffer, `write`, `write_tail`, the handlers of reads and writes, `shutdown`, `close`, and the server's map |
| `TcpSession`, `WebsocketSession`, `WebsocketSslSession` | how each class opens: `connect` with its timer; resolve, connect, handshake; resolve, connect, TLS, handshake. Also how its server accepts. |
| `Sessions` | one session of one class, client's or server's, chosen at the beginning, with `INSTANCE` of the three; the properties |

A section that holds `m_write_mtx` from start to end is one step, but for the one of `close()`: it
resets the switch, which `handle_start`, `shutdown` and `connect` read without the mutex, so that
closing the socket and the three stores (the last with the clearing of the buffers) are a step each,
and `Locked` says that the mutex is held meanwhile. `handle_write` tests the
switch, calls back and only then locks, which are three; `handle_start` is the loads of the switch's
`start()` and, at the place "start", its `compare_exchange`. A message is the sequence of the
pieces it was made of. `Channel` is the abstract specification: open, accept, deliver in order,
close. `SessionIsChannel` refines it with `open <- has_started /\ ~Locked` (open to whoever gets the
mutex) and `queue <- m_current_send_msg \o FlattenSeq(m_write_buf)`.

`TimerManager` has `m_all_timer_map`, `m_timer_part_queue` (as pairs of time point and id),
`m_cur_task` and the asio timer: `m_wait` is the outstanding wait, `m_ready` the handlers that
have been queued, expired or aborted. Each section under `m_queue_mtx` is a step; `insert` tests
the switch before it. `expires_at` aborts the wait before. Time is a counter that `Tick` raises, in
ticks of which a millisecond has `Millisecond`: `insert` drops what is left of the last millisecond of
a time point before it rounds it up to a slice (`InMilliseconds`, `RoundUp`, `RevisePoint`), so
that a timer may be armed for a time before the one it was asked for. A timer keeps the latter in `asked`, for the
properties. `TimerQueue` and `TimerTask` are operators.

`Rpc` has the maps of `SyncProxy` and `CallbackProxy`, a timer per callback, requests on their
way, responses as sequences of cells of which a read takes any number, and connections that
may be lost at any moment. Each request has a caller of its own, who is at `at[r]`.
`insert_timer` is two steps, as the timer exists before `m_overtime_reqs` knows it; so are
`get_promise` and `set_value`. The service runs the function (`bind_invoke`) or answers without
running it (`no_bind`: nothing is bound to the name, or the parameters do not unpack).

The read of the client is three steps and more. `ReadCompletes` takes cells off the connection;
`handle_read`, later, commits them without a look at the switch and cuts packages out of all
that lies in the buffer; `callback_invoke`, `sync_invoke` and `set_value` deliver them one after
the other; `consume_read_buf` is refused when the session has been closed meanwhile. `close` may come between any two
of them. When it does, the cells stay and are read again as those of the next connection: `torn` says
that such cells lie in the buffer. What is taken for a head in the middle of them has any
length (`Garbage`) and names any call (`Named`), an answer that is not the call's own is "garbled", and one that
comes twice sets its promise twice, which ends the program (`set_value` is not enabled). `close`
drops the buffer in any thread, while the io thread may be in `consume`: the second disjunct of `close` is the
outcome of that data race in which the io thread's pointer is the one that stays.

`Calls` is the abstract specification: a call ends at most once,
its function runs at most once, "ok" only after it has run, "no_bind" only after it was refused, and
"garbled" only while `torn` holds or of a future that was given a wrong value while it held.

`MCLastTaskQueue`, `MCTaskPool`, `MCSerialTaskQueue`, `MCSessions`, `MCTimerManager`, `MCRpc` and
`MCParallelTaskQueue` give the constants values.
`LastTaskQueueProofs`, `TaskPoolProofs`, `SerialTaskQueueProofs`, `TimerManagerProofs`, `RpcProofs` and
`SessionsProofs` hold the theorems about the module they are named after; `DataLemmas` (sequences,
numbers, selections) and `StreamLemmas` (the queues of the sessions, `FlattenSeq`) the lemmas they
share. `Selection` has the loops that copy or erase the elements of a container that fit: the
elements at a set of places, in order. It is written with `CHOOSE` and not with `SelectSeq` or
`SortSeq`, so that the provers can reason about it.

Definitions named `Bad...` are copies of the definition after them with a mistake in it
(a missing notification, a forgotten erase, a test dropped). No specification uses them.
PROJECT.json pairs each property with one that breaks it, so that no property is vacuous.

## Runs

| Run | Checks | Bounds |
|---|---|---|
| `last_queue` | list and map in step, one thread per property, newest only, nothing accepted while stopped, no blocked adder or sleeping worker without somebody to wake it, and the two liveness properties | 2 adders, 2 workers, 1 controller, 2 properties, 3 tasks, limit 1; 34 488 states |
| `task_pool` | `stop` returns and joins, a resize leaves a serving thread, waiting work is served | 1 adder, 2 thread places, 2 controllers, 2 properties with 1 task each, 2 calls of `create_thread`; 116 652 states |
| `serial_queue` | nothing lost or doubled, FIFO per property, one thread per property, the two assertions, idle workers have nothing to do, every task runs, blocked adders return | 2 adders, 2 workers, 1 controller, 2 properties with 2 tasks each, limit 2; 123 231 states |
| `sessions` | at most one write and one read outstanding, a started session is not deaf, no open socket without an owner, the counted length is exact, the server forgets closed sessions, the session implements `Channel`, connecting settles, accepted data leaves the buffer | 3 classes, client and server, io thread and 1 user thread, 2 connections, 3 pieces, limit of 2, `size_t` modulo 8; 459 661 states |
| `timer` | the two maps agree, the earliest timer is the one armed, no timer fires a millisecond or more before it was asked for, or more than `loop_count` times, a due timer fires | 1 user, 1 owner, 2 timers of two rounds, instants 0 to 4, 2 to a millisecond, slices of 2 milliseconds, 2 starts; 776 096 states |
| `rpc` | no proxy keeps a call that has ended, the proxies implement `Calls`, every call ends | 2 calls of either kind, responses of 2 and 3 cells, a read buffer of 4, 2 lost connections; 885 143 states |
| `pool_drain`, `pool_wait`, `pool_shrink`, `serial_clear`, `serial_leak`, `parallel_idle` | a documented promise the code does not keep (below) | smaller instances of the same modules |

Why the bounds are enough: the interesting cases are two workers at one property, two
adders at one free place, an adder and a controller that meet in the gap between a test and
the mutex, a new task for a property that waits (`last_queue`) or is being run (all), a full
list while a task runs, and a pool in its second life or resized once. Each needs at most
the threads, tasks and `create_thread` calls given; all are reached (each mutant of PROJECT.json
needs one of them to be found). With a limit of 1 every second task blocks. `MaxTasks` and
`MaxVersion` only bound how often callers call. Reaching `MaxTasks` is not a deadlock: workers
go on calling `pop_task`, and deadlock is checked in every run of the queues and the pool.

For the sessions, two threads are enough for the cases in the hazards: a `shutdown` that is
overtaken by the io thread's, a write between a close and a reconnect, a time-out that is queued
before the connect handler runs. Two connections show what is left over of the first; three
pieces fill a message, the buffer and one place more, and let `write_tail` extend a message
before it is sent. With three connections and two pieces (1 941 206 states) TLC finds nothing else. For the timers, two of
them decide which is first; with two ticks to a millisecond and slices of two milliseconds the five instants give
time points inside a millisecond, at its end and at the end of a slice, a first firing and a
second (`MaxRounds` is how many rounds of a timer `DueFires` follows). For the calls, two connections lost leave a
third for late answers and for what a late read has left.

Some properties have an exception, written as a history variable. Each marks a real behaviour of
the code: TLC finds a counterexample when it is taken out, in the instance of the run or in the larger
one named here:

* `overtaken` (sessions): a connection began, with `connect` or, in `WebsocketSslSession`, with the `init` of
  its `handle_connect`, while another thread was still inside the session.
  The other thread's `stop()` or `close()` then hits the new connection: two reads may be outstanding,
  or a socket be open that no switch knows of.
* `overlapped` (sessions): `connect` was called while an attempt to connect was under way. A `stop()`
  that passed its loads in an earlier life closes the attempt although its completion is queued without
  an error; the user connects again, and the old completion starts the new life before the new
  completion comes. Two reads, and even two writes, may then be outstanding. The proof of
  `OneWriteInFlight` came upon it: the two connections of the run do not reach it for the writes.
* `late` (sessions): a `stop()` and its `close()` came between the loads of the switch's `start()`
  (`atomic_switch.hpp:49`) and its `compare_exchange` (53), or between the stores of a `reset()`. `m_bstart`
  is then set in a switch that has been reset; the read that `start()` leads to fails, its `shutdown` is
  refused, and the next `connect` finds a session that counts as started and does not read. So
  `NeverDeaf` and `OneWriteInFlight` end where `late` begins. `OneReadInFlight` and `NoOrphanSocket` need no
  exception more, since a start is `late` only where a thread of an earlier life is inside; `NeverDeaf` needs
  neither of the other two; `ClosedIsForgotten` and `SessionIsChannel` need none.
* `tailed` (sessions): `write_tail` extends a message without counting it (`net_buffer.hpp:126`), and the counter
  may wrap when the message is sent. `LenIsExact` says nothing from there to the next `clear`, so that this
  hazard itself is shown only by taking the exception out.
* `stranded` (timers): an `insert` that has passed the test of the switch meets `stop()`; it sets
  `m_cur_task` and arms nothing (`timer_manager.hpp:350`), and neither do later inserts after a restart.
  `ArmedForFront` and `DueFires` say nothing of this hazard.
* `cleared` (timers): after `clear()` there may be two queued handlers at once, one of them aborted.
* `early` (calls): the time-out of a call, or torn bytes, end it between the two steps of `insert_timer`, and its
  entry in `m_overtime_reqs` stays. A promise whose request could not be written stays in
  `m_future_map` (`rpc_base.hpp:895`), which `NothingLeftBehind` names as its other exception.
* `torn` (calls): above. It begins with a read that is handled after `close()` and ends with the next `close()`
  or when the buffer is empty.

`serial_queue` keeps `clear`, `start` and `remove_prop` apart from running tasks (`CallersWait`). Of what
that leaves out `serial_clear` shows the half of `clear`; `remove_prop` of a property whose task runs
(`task_queue.hpp:1055`) has no run.

In `task_pool` one controller calls `start`, `stop` and `reset_thread_num`: the owner of the
pool, who starts and stops it in the repository's tests too. The other calls `clear`, `remove_prop` and `wait` at any
moment. `stop` and `reset_thread_num` from two threads at once are not run (see the hazards).
Calls that return at once without effect are not steps. `TaskPool` excludes weak-memory
effects: its atomics are sequentially consistent, as the code's default orderings are; the
relaxed loads of `SerialTaskQueue` are either repeated under the mutex or only choose the path.

## Fairness

A thread inside a call goes on, and gets a contended mutex in the end. The latter is strong
fairness, because a step that takes the mutex is enabled only between other threads'
sections: `std::mutex` does not promise it by the letter, but sections are short and every
mainstream implementation provides it in effect. Tasks return (the library can do nothing
about one that does not). Workers of a queue call `pop_task` again and again, which is what
`thread_fun` does; in the pool this is not assumed but follows from `thread_fun`. Nobody has
to call `add_task`, `stop`, `clear` or any other function, and spurious wake-ups need never
happen.

Sessions: handlers run, callbacks return, threads inside a function go on. A stage of connecting ends
only where something in the code ends it (`Timed`): the websocket classes set a time-out on resolve, connect and
the websocket handshake, and the server's side on TLS too; the connect of a `TcpSession` is ended by its own
timer, `TimerExpires`. The TLS handshake of a client has no time-out (`websocket_ssl_session.hpp:344` clears
it, 366 begins), and `shutdown` is refused before the session has started: an attempt may stay there
for ever, and `ConnectSettles` says that an attempt ends *or* waits for that answer. A late `connect` of a
`TcpSession` whose attempt a close has ended is not an attempt. Of writes it is *assumed* that the
peer takes them (`Ends({"write"})`), as they have no time-out; `WritesDrain` rests on it. Nothing makes
a peer send: a read may stay outstanding for ever. Nobody has to call `write` or `shutdown`.
Timers: the asio timer expires and its handler runs, and a thread in `stop()` goes on; time need
not pass, and the pool need not run what it is handed. Calls: the callers run and the timers
expire. The peer need never answer and the connection may stay down. That the pool of the timers
runs a time-out is not assumed, as `parallel_idle` shows that it may not: `EveryCallEnds` says
that a call has ended or that its time-out waits there.

Deadlock is not checked in `sessions`, `timer` and `rpc`, where everything may come to rest: a
closed session out of connections, a stopped manager, calls that have all ended.

## Proofs

`LastTaskQueueProofs`, for any sets of threads and properties (only: the three kinds of
threads are disjoint, there is a worker, `NoProp` is not a property; `QueueAssumption`), any
limit and any number of tasks:

* `TypeCorrect`, `ListAndMapInSync`: `QueueInv == TypeOK /\ InSync` is inductive. Type
  correctness alone is not: `PopTake` reads `m_wait_tasks[p]` for a `p` of the list, so it
  needs the list and the map in step; that both stay free of duplicates needs lemmas on
  `RemoveAt` and `Append` (`RemoveAtRange`, `AppendRange`).
* `PropsRunSerially`: `OneThreadPerProp` is inductive relative to `QueueInv`; one step per
  action shows that the set of running workers changes only with `m_cur_pop_props`.
* `OnlyNewestRuns`: needs `TaskStamps` (a waiting task is the newest accepted, and newer
  than the last started), which is inductive; the action property follows.
* `NothingAcceptedWhileStopped`: by cases on the few steps that change the list.
* `StopWakesEverybody`: nobody sleeps in a stopped queue. `AddersAreWoken` rests on it, so as
  to exclude the adder that blocks after `stop` has notified.
* `AddersAreWoken`, `WorkersAreWoken`: no lost wake-up, on either condition variable.

`TaskPoolProofs`, for any number of thread places, controllers and resizes:

* `PoolPropsRunSerially`: in a pool too a property is run by one thread, whatever
  calls the controllers make, concurrent `stop` and `reset_thread_num` included. It rests on the lemma that every
  step of the pool is a step of the queue or leaves it alone, by which what is proved of the queue may be cited.
* `PoolTypeCorrect`: a thread that is in `pop_task` runs, and one that runs is where `stop` will
  find it (`PoolPlaces`), also for any calls.
* `StopJoins`, `PoolIsServed`: when `stop` has joined, no thread and no task runs; a started pool has a
  thread of the newest version. Both assume `OneOwner`: one controller calls `start`, `stop` and
  `reset_thread_num`, which the run's module assumes as well. Without it they are false
  (`task_pool.hpp:81`, a hazard): the functions take no lock. `OwnerInv` says for each place the
  owner has reached what the switch, the queue and the threads are; the other controllers are idle.

`SerialTaskQueueProofs`, for any threads, properties and limit, finite or not (only
`IdleWorkersMissNothing` wants the adders and workers finite), and callers that wait
(`CallersWait`; `serial_clear` shows that the properties fail otherwise).
`SerialInv == PlacesInv /\ RunInv /\ CountsInv /\ DequesInv /\ ListInv`: the places of the threads; a
property in `m_cur_props` is run by one thread; a counter that is no less than what waits; each deque
is the moved-out head, if its property is run, and then the numbers that have been accepted and not
started; the nodes of each property count as many, and the first of them, and only the first, may be
taken unless the property is run. None of the five is inductive without the others: a node counts what
the deque holds, `pop_task` takes a deque's head because a node told it to, and the counter
is decremented for a task that some deque held.

* `SerialInvHolds`, `SerialTypeCorrect`, `TasksRunSerially`, `PopAssertionsHold`,
  `NothingIsLostOrDoubled`, `TasksKeepTheirOrder` follow from it.
* `IdleWorkersMissNothing`: no property that could be taken is left while all workers sleep. It needs a
  balance: the properties that may be taken are no more than the workers that are awake and the
  notifications that are still to come.

`TimerManagerProofs`, for any users, slices, times and ticks to a millisecond, and one owner.
`TimerInv == SwitchInv /\ MapsInv /\ HandlersInv /\ TimesInv /\ ArmedInv`: the owner's place tells what the
switch is; the two maps hold the same timers; what a handler that came without an error waited for is
past; a timer's point is its first one and an interval for each time it fired, and the first is less than a
millisecond before the time asked for; and the timer armed is
the front of the map unless a handler is on its way. `loop_point_timer` walks the timers that are
due in order, with `Selection`, whose lemmas are in `DataLemmas`. `TheMapsAgree`, `TimersFireAsAsked` and `TheFirstIsArmed`
follow.

`RpcProofs`, for any requests, losses of the connection and size of the read buffer, with packages that fit it.
`RpcInv == CallerInv /\ RequestsInv /\ ResponsesInv`: where a caller is tells which maps hold its call;
a request is on the wire once, after it was written and before it was executed or refused, and what has a value
has been answered or is garbled; and all cells under way are those of answered calls. As long as nothing is torn
(`Untorn`), what is left to read of the buffer, followed by what has arrived and by what is under way, is a row of
whole packages (`Framed`), and nothing is left of it when the connection is down. That part is what a loss in the
middle of a package, and a read that is handled after `close()`, may break; the proof shows that it is broken
only there, and that each `close()` restores it. The
recursive function that takes packages out of the buffer is shown to satisfy its equation for every
sequence and every garbage (by the least-number principle, below), and to give whole packages for a row of them. `NothingIsLeftBehind` follows,
torn or not; `ProxiesImplementCalls` is the refinement of `Calls`, step by step.

`SessionsProofs`, for any threads, classes, numbers of connections and pieces, and limits of the
buffer and of a package (`size_t` can count the pieces). The actions of the three classes are shown to be instances of a few kinds of
steps (`Kinds`, `StepKinds`): begin an operation, complete it, go from one place to the next, connect,
accept, write, take a message. Each part of the invariant is then kept kind by kind.

* `SessionInv` conjoins `TypeInv`; `RoleInv`, a client has no map and a server's session has one life;
  `SwitchInv`, a stopped switch has a thread that will reset it, and a started one is initialised; `IdleInv`, a
  session that is not started has nothing to write, once its `close()` is through, and no write is outstanding in the locked section;
  `AttemptInv`, one attempt to open is
  under way and it has ended when the session is started; `WriteInv` and `ReadInv`, one operation is
  outstanding, completed or being followed up, and completions of an earlier life come before
  the one that opens this one (the order of the io_context: this is what fails when attempts overlap);
  `EarlyInv`, no thread is about to stop or close a client that is connecting, so that without `overtaken` and
  `overlapped` no start is `late`; `OwnerInv`, who closes an open
  socket; `LenInv`, what the counter counts. `EarlyInv` serves `OwnerInv` and `ReadInv`, and `AttemptInv` serves both
  `WriteInv` and `ReadInv`.
* `SessionInvHolds`, `SessionTypeCorrect`, `WritesAreSerial`, `ReadsAreSerial`, `SocketsAreOwned` and
  `LengthIsExact` follow from it.
* `ServedInv`, inductive relative to `SessionInv`: a started session has a read
  outstanding, completed, or ahead of a thread, or is being closed, whatever attempts overlap and whichever threads
  are inside, unless its start was `late`; what has closed is about to leave the map. It gives
  `SessionsHear` and `ClosedLeaveTheMap`.
* `SessionsImplementChannel`: the refinement of `Channel`. `FlattenSeq` is a fold; how it behaves when
  a message is appended, taken or extended is proved in `StreamLemmas` (`FlattenAppend`,
  `FlattenHead`, `FlattenExtend`).

The assumptions are those named in the modules (`QueueAssumption`, `PoolAssumption`, `SerialAssumption`,
`TimerAssumption`, `RpcAssumption`, `AsioAssumption`, `StreamAssumption`, `ClassesAssumption`), which
TLC evaluates in the runs, and the two hypotheses above (`OneOwner`, `CallersWait`). What needs induction
over the natural numbers is proved from the least-number principle (`LeastNumber` in `DataLemmas`): the
smallest counterexample of a set of numbers. The library's theorems on induction take an operator as a
parameter, which the SMT, Zenon and LS4 backends cannot instantiate.

Every invariant, action property and refinement of the passing runs is a theorem. Only model-checked
are the liveness properties (`WaitingPropIsTaken`, `AddTaskReturns`, `WaitingIsServed`,
`StopReturns`, `EveryTaskRuns`, `ConnectSettles`, `WritesDrain`, `DueFires`, `EveryCallEnds`), since
TLAPS proves nothing of `ENABLED` and so of fairness; and `ParallelTaskQueue`, whose one run
shows a disagreement. The converse of each exception, that the code does violate the property there,
is TLC's to show.

## Disagreements with the documentation

Each has a run in which TLC finds the counterexample.

* `pool_drain`: `task_pool.hpp:49` says that `stop(true)` waits until the queue has been executed.
  A worker leaves when the switch is stopped and the queue is empty (118), and an `add_task`
  in flight can queue its task after the last worker left and before the queue stops (54).
* `pool_wait`: `task_pool.hpp:74` says that `wait()` waits until all tasks are done.
  `LastTaskQueue::wait` polls a list that a task leaves before it runs.
* `pool_shrink`: `task_pool.hpp:77` says that superfluous threads are released by themselves.
  Nobody wakes an old thread that sleeps in `pop_task`.
* `serial_clear`: `task_queue.hpp:727` says that the tasks of a property run serially. `clear` and
  `stop(false)` forget which properties are being run (1082).
* `serial_leak`: `task_queue.hpp:921` says that `max_task_count` limits the number of tasks. Tasks
  that `clear`, `stop(false)` or `remove_prop` drop are counted for ever (1079).
* `parallel_idle`: `task_pool.hpp:145` says that a submitted task must be executed at once as long as
  a thread of the pool is idle. `ParallelTaskQueue::add_task` notifies without the mutex
  (`task_queue.hpp:258`), between a worker's test and its sleep; the worker sleeps on until another
  task is added.

## Not modelled

Contents and types of tasks and messages, exceptions thrown by tasks, by callbacks or by `new` (a
throwing task ends the program), binding to cores, functions that only read, the object pool
under the nodes. In the modelled classes:

* sessions: `IsReadSome = false` of the websocket classes, whose `write` puts nothing on the wire (it only
  fills the buffer); the read buffer (it is in `Rpc`, with the assumption that every package fits it,
  `tcp_session.hpp:267`); what happens when the server's `clear()` destroys a session whose TLS handshake is under
  way (its handlers capture `[&]` and hold no pointer to it, `websocket_ssl_session.hpp:190`; `clear` of
  `WebsocketSslSession` is not taken there), or when a client lets go of its session in a handshake (391); several sessions of one server, which share only the map; the
  listening and the `stop()` of the servers. `WebsocketSslServer::find_session` returns a temporary as a
  non-const reference and cannot be instantiated, so its callers are modelled as those of `TcpServer`;
* timers: an `insert` while `start()` runs, between the switch and `m_timer` (`timer_manager.hpp:260`); a
  second thread that starts or stops;
* calls: `push` from the service, which runs the same functions in the other direction; callbacks that make
  calls themselves (`rpc_base.hpp:470`); an answer that does not unpack as the caller's type, which ends the call with another
  status; reads of no bytes, which complete again and again once the buffer is full (`tcp_session.hpp:267`): a read takes at least
  a cell.

Components without a module, and why:

* `TaskQueue`, `SerialTaskPool`, the other parallel queues and pools: the monitor of
  `LastTaskQueue` or `ParallelTaskQueue` again, and `TaskPoolBase` over them;
* `SPMCSerialTaskQueue`, the rotating, concurrent and coroutine pools, `rmq::Session`: worth a module each,
  see the hazards at their lines; the last two depend on a coroutine library and on an AMQP library
  that are not in the repository;
* HTTP and HTTPS sessions: one request and its response at a time, another protocol than that of the stream
  sessions. `boost_netcoro` and `boost_net1_68` are other variants of the classes modelled; the
  latter no longer agrees with the headers it includes;
* `ScrollWindowArray`, `ObjectPool`, `sync.hpp`, conversions, files, encryption: sequential data handling or
  wrappers of system calls;
* `hp_websocket` and `submodule`: vendored code.

## Plan

1. Done: `QueueMonitor`, `LastTaskQueue`, `TaskPool`, `SerialTaskQueue`, and the proofs above.
2. Done: `ParallelTaskQueue`, `AtomicSwitch`, the sessions with `Channel`, `TimerManager`, `Rpc` with `Calls`.
3. Done: theorems about every safety property, action property and refinement of the passing runs.
4. With room for more runs: `rmq::Session`; the SPMC and rotating queues.
