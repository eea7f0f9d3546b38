---------------------------- MODULE StreamSession ----------------------------
(***************************************************************************)
(* The part that TcpSession, WebsocketSession and WebsocketSslSession have *)
(* in common: the write buffer and the message that is being sent, both    *)
(* under m_write_mtx, the loop of reads, shutdown and close.  A module for *)
(* each class adds how that class opens a connection.  A section that      *)
(* holds m_write_mtx is one step, except the one of close(), which resets  *)
(* the switch: that is read without the mutex.                             *)
(*                                                                         *)
(* A message is the sequence of the pieces it was built from: write makes  *)
(* a message of one piece, write_tail may add a piece to the last one.     *)
(* The session belongs to a client, or to a server that finds it in        *)
(* m_sessions.                                                             *)
(***************************************************************************)
EXTENDS AsioSession, AtomicSwitch

CONSTANTS
  MaxPieces,    \* bound of the model: pieces accepted by write and write_tail
  MaxBuffer,    \* m_max_wbuffer_size, in pieces; 0: no limit
  MaxPackage,   \* max_package_size of write_tail, in pieces
  SizeMod       \* size_t counts modulo SizeMod

ASSUME StreamAssumption == MaxPieces \in Nat /\ MaxBuffer \in Nat /\ MaxPackage \in Nat \ {0}
                           /\ SizeMod \in Nat /\ SizeMod > MaxPieces

VARIABLES
  m_write_buf,          \* messages that wait (m_send_items of the WriteBuffer)
  m_current_send_msg,   \* the message being sent; <<>>: the null pointer
  m_all_len,            \* size of m_write_buf as the WriteBuffer counts it
  tailed,               \* history: write_tail has extended a message in place since the last clear
  pieces,               \* pieces accepted so far
  overtaken,            \* history: a connection began while another thread was inside the session
  overlapped,           \* history: connect was called while an attempt was under way
  late,                 \* history: a stop came between the loads and the compare_exchange of
                        \* start(), or that between the stores of a reset()
  role,                 \* "client" or "server"
  m_sessions            \* the server's map holds this session

buffer == <<m_write_buf, m_current_send_msg, m_all_len, tailed>>
history == <<overtaken, overlapped, late>>
stream_vars == <<buffer, pieces, history, role, m_sessions>>
session_vars == <<asio_vars, switch, stream_vars>>

\* close() holds m_write_mtx from the closing of the socket to the last store of reset() and
\* the clearing of the buffers.
Resets == {"reset_start", "reset_stop", "reset_init"}
Locked == \E t \in Threads : Top(t) \in Resets

\* A server's functions reach the session through find_session.
Reachable(t) == InUserCode(t) /\ (role = "client" \/ m_sessions)

------------------------------------------------------------------------------
(* WriteBuffer and the functions that write                                *)

append(buf, piece) == Append(buf, <<piece>>)

ExtendsTail(buf) == buf # <<>> /\ Len(Last(buf)) + 1 < MaxPackage

append_tail(buf, piece) ==
  IF ExtendsTail(buf) THEN [buf EXCEPT ![Len(buf)] = Append(@, piece)] ELSE append(buf, piece)

\* Counts with a signed number.
BadSendFront(buf, len) ==
  /\ m_current_send_msg' = Head(buf) /\ m_write_buf' = Tail(buf)
  /\ m_all_len' = len - Len(Head(buf))
  /\ Begin("write")

\* write(): the message at the front of buf is popped and sent.
SendFront(buf, len) ==
  /\ m_current_send_msg' = Head(buf)
  /\ m_write_buf' = Tail(buf)
  /\ m_all_len' = (len + SizeMod - Len(Head(buf))) % SizeMod
  /\ Begin("write")

\* Sends though a message is being sent.
BadEnqueued(buf, len) == SendFront(buf, len)

\* Something has been added: send, unless a message is being sent already.
Enqueued(buf, len) ==
  IF m_current_send_msg # <<>>
  THEN /\ m_write_buf' = buf /\ m_all_len' = len
       /\ UNCHANGED <<m_current_send_msg, pending, ready>>
  ELSE SendFront(buf, len)

Longer == (m_all_len + 1) % SizeMod

MayWrite(t) ==
  /\ Reachable(t) /\ ~Locked /\ pieces < MaxPieces
  /\ has_started
  /\ MaxBuffer > 0 => Longer <= MaxBuffer
  /\ pieces' = pieces + 1
  /\ UNCHANGED <<sock, pc, connects, switch, history, role, m_sessions>>

Write(t) ==
  /\ MayWrite(t)
  /\ Enqueued(append(m_write_buf, pieces'), Longer)
  /\ UNCHANGED tailed

WriteTail(t) ==
  /\ MayWrite(t)
  /\ Enqueued(append_tail(m_write_buf, pieces'),
              IF ExtendsTail(m_write_buf) THEN m_all_len ELSE Longer)
  /\ tailed' = (tailed \/ ExtendsTail(m_write_buf))

\* Does not look for another message.
BadReleaseSent ==
  /\ Top(Io) = "release" /\ ~Locked /\ Return(Io)
  /\ m_current_send_msg' = <<>>
  /\ UNCHANGED <<sock, pending, ready, connects, switch, m_write_buf, m_all_len, tailed,
                 pieces, history, role, m_sessions>>

\* The rest of handle_write: release the message that was sent, send the next one.
ReleaseSent ==
  /\ Top(Io) = "release" /\ ~Locked
  /\ Return(Io)
  /\ \/ /\ m_write_buf = <<>>
        /\ m_current_send_msg' = <<>>
        /\ UNCHANGED <<pending, ready, m_write_buf, m_all_len>>
     \/ m_write_buf # <<>> /\ SendFront(m_write_buf, m_all_len)
  /\ UNCHANGED <<sock, connects, switch, tailed, pieces, history, role, m_sessions>>

------------------------------------------------------------------------------
(* Handlers.  Handle(op, places): the io thread takes a completion of op   *)
(* and has places to go.                                                   *)

Handle(op, places) ==
  /\ Handles(op)
  /\ ready' = Tail(ready)
  /\ Call(Io, places)
  /\ UNCHANGED <<sock, pending, connects, stream_vars>>

\* shutdown(ec) as a handler calls it.
Shutdown == IF MayStop THEN <<"stop">> ELSE <<>>

\* Returns when the read has failed.
BadHandleRead ==
  /\ Handle("read", IF Succeeded THEN <<"read_cbk", "after_read">> ELSE <<>>)
  /\ UNCHANGED switch

HandleRead ==
  /\ Handle("read", IF Succeeded THEN <<"read_cbk", "after_read">> ELSE Shutdown)
  /\ UNCHANGED switch

HandleWrite ==
  /\ Handle("write", IF ~Succeeded THEN Shutdown
                     ELSE IF has_stoped THEN <<>>
                     ELSE IF m_current_send_msg # <<>> THEN <<"write_cbk", "release">>
                     ELSE <<"release">>)
  /\ UNCHANGED switch

\* Returns when the stage has failed.
BadHandleOpened(op, refused) ==
  /\ Handle(op, IF ~Succeeded THEN <<>> ELSE IF MayStart THEN <<"start">> ELSE refused)
  /\ UNCHANGED switch

\* The last stage of opening has completed: handle_start, as far as the loads of the
\* switch's start(), and to refused when they refuse.
HandleOpened(op, refused) ==
  /\ Handle(op, IF ~Succeeded THEN <<"close">> ELSE IF MayStart THEN <<"start">> ELSE refused)
  /\ UNCHANGED switch

\* The compare_exchange, without m_write_mtx.
Start(refused) ==
  /\ Top(Io) = "start"
  /\ IF m_bstart
     THEN Goto(Io, refused) /\ UNCHANGED <<switch, late>>
     ELSE /\ Goto(Io, <<"read", "open_cbk">>) /\ StartCas
          /\ late' = (late \/ ~MayStart \/ Locked)
  /\ UNCHANGED <<sock, pending, ready, connects, buffer, pieces, overtaken, overlapped, role,
                 m_sessions>>

\* An earlier stage has completed: the next one begins, if the socket is still connected.
HandleStage(op, next) ==
  /\ Handles(op)
  /\ \/ /\ Succeeded /\ sock = "open"
        /\ pending' = Append(pending, next) /\ ready' = Tail(ready)
        /\ UNCHANGED pc
     \/ /\ Succeeded /\ sock # "open"
        /\ ready' = Append(Tail(ready), [op |-> next, ok |-> FALSE])
        /\ UNCHANGED <<pending, pc>>
     \/ /\ ~Succeeded
        /\ ready' = Tail(ready)
        /\ Call(Io, <<"close">>)
        /\ UNCHANGED pending
  /\ UNCHANGED <<sock, connects, switch, stream_vars>>

\* The resolver has answered: the socket, which may still be in use, is connected anew.
HandleResolved ==
  /\ Handles("resolve")
  /\ IF Succeeded
     THEN /\ pending' = Append(Unaborted, "connect")
          /\ ready' = Tail(ready) \o Aborted
          /\ sock' = "opening"
          /\ UNCHANGED pc
     ELSE ready' = Tail(ready) /\ Call(Io, <<"close">>) /\ UNCHANGED <<sock, pending>>
  /\ UNCHANGED <<connects, switch, stream_vars>>

\* Reads on in a session that the callback has closed.
BadAfterRead ==
  /\ Top(Io) = "after_read" /\ Goto(Io, <<"read">>)
  /\ UNCHANGED <<sock, pending, ready, connects, switch, stream_vars>>

AfterRead ==
  /\ Top(Io) = "after_read"
  /\ Goto(Io, IF has_stoped THEN <<>> ELSE <<"read">>)
  /\ UNCHANGED <<sock, pending, ready, connects, switch, stream_vars>>

Read ==
  /\ Top(Io) = "read"
  /\ Return(Io)
  /\ Begin("read")
  /\ UNCHANGED <<sock, connects, switch, stream_vars>>

CallbackReturns(t) ==
  /\ Top(t) \in Callbacks
  /\ Return(t)
  /\ UNCHANGED <<sock, pending, ready, connects, switch, stream_vars>>

------------------------------------------------------------------------------
(* shutdown and close                                                      *)

CallShutdown(t) ==
  /\ Reachable(t) /\ MayStop
  /\ Call(t, <<"stop">>)
  /\ UNCHANGED <<sock, pending, ready, connects, switch, stream_vars>>

Stop(t) ==
  /\ Top(t) = "stop"
  /\ IF m_bstop THEN Return(t) /\ UNCHANGED switch
                ELSE Goto(t, <<"close">>) /\ StopCas
  /\ UNCHANGED <<sock, pending, ready, connects, stream_vars>>

\* Forgets m_write_buf.clear().
BadClearBuffers == m_current_send_msg' = <<>> /\ UNCHANGED <<m_write_buf, m_all_len, tailed>>

\* Forgets the length that goes with m_write_buf.
BadClearLength ==
  m_write_buf' = <<>> /\ tailed' = FALSE /\ m_current_send_msg' = <<>> /\ UNCHANGED m_all_len

ClearBuffers ==
  /\ m_write_buf' = <<>> /\ m_all_len' = 0 /\ tailed' = FALSE
  /\ m_current_send_msg' = <<>>

\* Takes the socket for closed already.
BadClose(t) ==
  /\ Top(t) = "close" /\ ~Locked
  /\ Abort(ready)
  /\ Goto(t, <<"reset_start">>)
  /\ UNCHANGED <<sock, connects, switch, stream_vars>>

\* close(): the socket first.
Close(t) ==
  /\ Top(t) = "close" /\ ~Locked
  /\ sock' = IF has_init THEN "closed" ELSE sock
  /\ Abort(ready)
  /\ Goto(t, <<"reset_start">>)
  /\ UNCHANGED <<connects, switch, stream_vars>>

ResetStart(t) ==
  /\ Top(t) = "reset_start" /\ Goto(t, <<"reset_stop">>) /\ StoreStart
  /\ UNCHANGED <<sock, pending, ready, connects, stream_vars>>

ResetStop(t) ==
  /\ Top(t) = "reset_stop" /\ Goto(t, <<"reset_init">>) /\ StoreStop
  /\ UNCHANGED <<sock, pending, ready, connects, stream_vars>>

\* With the clearing of the buffers, which only holders of the mutex read.  Then comes the
\* server's on_close_cbk, or the client's callback.
ResetInit(t) ==
  /\ Top(t) = "reset_init" /\ StoreInit
  /\ Goto(t, IF role = "server" THEN <<"remove_session", "close_cbk">> ELSE <<"close_cbk">>)
  /\ ClearBuffers
  /\ late' = (late \/ Top(Io) = "start")
  /\ UNCHANGED <<sock, pending, ready, connects, pieces, overtaken, overlapped, role, m_sessions>>

\* Another thread than t is inside the session.
Occupied(t) == \E s \in Threads \ {t} : pc[s] # <<>>

\* Where a client may call connect or reconnect.
MayConnect(t) ==
  /\ role = "client" /\ connects < MaxConnects
  /\ (t # Io /\ pc[t] = <<>>) \/ Top(t) = "close_cbk"
  /\ connects' = connects + 1
  /\ overtaken' = (overtaken \/ Occupied(t))
  /\ overlapped' = (overlapped \/ Opening)
  /\ UNCHANGED <<pc, buffer, pieces, late, role, m_sessions>>

------------------------------------------------------------------------------
(* The server's map                                                        *)

\* Forgets to take the session out of the map.
BadRemoveSession(t) ==
  /\ Top(t) = "remove_session" /\ Return(t)
  /\ UNCHANGED <<sock, pending, ready, connects, switch, stream_vars>>

RemoveSession(t) ==
  /\ Top(t) = "remove_session" /\ Return(t)
  /\ m_sessions' = FALSE
  /\ UNCHANGED <<sock, pending, ready, connects, switch, buffer, pieces, history, role>>

\* handle_accept puts the one session that the model has into the map.
Accepted ==
  /\ role = "server" /\ connects = 0
  /\ connects' = 1
  /\ m_sessions' = TRUE
  /\ UNCHANGED <<sock, pc, buffer, pieces, history, role>>

\* clear(): the map lets go of the session; the handlers that hold it keep it alive.
DropSessions ==
  /\ m_sessions
  /\ m_sessions' = FALSE
  /\ UNCHANGED <<asio_vars, switch, buffer, pieces, history, role>>

------------------------------------------------------------------------------
SessionInit ==
  /\ SwitchInit
  /\ pending = <<>> /\ ready = <<>> /\ connects = 0
  /\ pc = [t \in Threads |-> <<>>]
  /\ m_write_buf = <<>> /\ m_current_send_msg = <<>> /\ m_all_len = 0
  /\ tailed = FALSE /\ pieces = 0 /\ overtaken = FALSE /\ overlapped = FALSE
  /\ late = FALSE
  /\ role \in {"client", "server"}
  /\ m_sessions = FALSE
  /\ sock = IF role = "server" THEN "open" ELSE "closed"

\* What a thread inside the session's functions goes on to do.
Proceeds(t) ==
  \/ Stop(t) \/ Close(t) \/ ResetStart(t) \/ ResetStop(t) \/ ResetInit(t)
  \/ RemoveSession(t) \/ CallbackReturns(t)
  \/ t = Io /\ (AfterRead \/ Read \/ ReleaseSent)

Environment == (Settles \/ Arrives) /\ UNCHANGED <<switch, stream_vars>>
==============================================================================
