----------------------------- MODULE TcpSession ------------------------------
(***************************************************************************)
(* BTool::BoostNet::TcpSession (tcp_session.hpp) and the TcpServer that    *)
(* accepts it (tcp_server.hpp).                                            *)
(***************************************************************************)
EXTENDS StreamSession

VARIABLE m_overtime_timer   \* a wait of the connect timer is outstanding

connect(t) ==
  /\ MayConnect(t)
  /\ init
  /\ sock' = "opening"
  /\ pending' = Append(pending, "connect")
  /\ m_overtime_timer' = TRUE
  /\ UNCHANGED ready

TimerExpires ==
  /\ m_overtime_timer
  /\ m_overtime_timer' = FALSE
  /\ ready' = Append(ready, [op |-> "overtime", ok |-> TRUE])
  /\ UNCHANGED <<sock, pending, pc, connects, switch, stream_vars>>

\* Cancels the timer; a handler that is in the queue already is not called back.
handle_connect == HandleOpened("connect", <<>>) /\ m_overtime_timer' = FALSE

\* Closes the socket and nothing else, without m_write_mtx.
handle_overtimer ==
  /\ Handles("overtime")
  /\ sock' = "closed"
  /\ Abort(Tail(ready))
  /\ UNCHANGED <<pc, connects, switch, stream_vars, m_overtime_timer>>

\* start() of an accepted session, dispatched to its io thread: init, then handle_start.
session_start ==
  /\ Handle("start", <<"start">>)
  /\ init
  /\ UNCHANGED m_overtime_timer

handle_accept ==
  /\ Accepted
  /\ ready' = Append(ready, [op |-> "start", ok |-> TRUE])
  /\ UNCHANGED <<pending, switch, m_overtime_timer>>

TcpInit == SessionInit /\ m_overtime_timer = FALSE

Handlers ==
  \/ handle_connect \/ handle_overtimer \/ session_start
  \/ (Start(<<>>) \/ HandleRead \/ HandleWrite) /\ UNCHANGED m_overtime_timer

Next ==
  \/ Handlers \/ TimerExpires \/ handle_accept
  \/ \E t \in Threads : connect(t)
  \/ /\ \/ Environment \/ DropSessions
        \/ \E t \in Threads : Write(t) \/ WriteTail(t) \/ CallShutdown(t) \/ Proceeds(t)
     /\ UNCHANGED m_overtime_timer
==============================================================================
