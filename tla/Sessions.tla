------------------------------- MODULE Sessions ------------------------------
(***************************************************************************)
(* One session of one of the stream classes of boost_net, in the hands of  *)
(* a client or of a server, and what it promises.                          *)
(***************************************************************************)
EXTENDS StreamSession

CONSTANT Classes   \* the classes that are checked

ASSUME ClassesAssumption == Classes \subseteq {"tcp", "websocket", "websocket_ssl"}

VARIABLES class, m_overtime_timer

vars == <<session_vars, class, m_overtime_timer>>

Tcp == INSTANCE TcpSession
Ws  == INSTANCE WebsocketSession
Wss == INSTANCE WebsocketSslSession

Init == SessionInit /\ m_overtime_timer = FALSE /\ class \in Classes

Step(tcp, ws, wss) ==
  /\ UNCHANGED class
  /\ \/ class = "tcp" /\ tcp
     \/ class = "websocket" /\ ws /\ UNCHANGED m_overtime_timer
     \/ class = "websocket_ssl" /\ wss /\ UNCHANGED m_overtime_timer

Next == Step(Tcp!Next, Ws!Next, Wss!Next)

Handlers == Step(Tcp!Handlers, Ws!Handlers, Wss!Handlers)
Continues(t) == Proceeds(t) /\ UNCHANGED <<class, m_overtime_timer>>
Ends(ops) ==
  /\ \E i \in DOMAIN pending, ok \in BOOLEAN : pending[i] \in ops /\ Completes(i, ok)
  /\ UNCHANGED <<switch, stream_vars, class, m_overtime_timer>>

\* The stages that the resolver or a time-out ends.  The TLS handshake of a client has none,
\* and what ends the connect of a TcpSession is its timer.
Timed ==
  CASE class = "tcp" -> {}
    [] class = "websocket" -> Stages
    [] class = "websocket_ssl" -> IF role = "server" THEN Stages ELSE Stages \ {"tls"}

Spec == Init /\ [][Next]_vars

\* Threads run, user callbacks return, and timers expire.  Of the peer it is assumed that it
\* takes what is written, for writes have no time-out; nothing makes it send or answer.
FairSpec ==
  /\ Spec
  /\ WF_vars(Handlers) /\ WF_vars(Ends(Timed)) /\ WF_vars(Ends({"write"}))
  /\ WF_vars(Step(Tcp!TimerExpires, FALSE, FALSE))
  /\ \A t \in Threads : WF_vars(Continues(t))

------------------------------------------------------------------------------
TypeOK ==
  /\ AsioTypeOK /\ SwitchTypeOK
  /\ m_write_buf \in Seq(Seq(1 .. MaxPieces)) /\ m_current_send_msg \in Seq(1 .. MaxPieces)
  /\ m_all_len \in 0 .. SizeMod - 1
  /\ pieces \in 0 .. MaxPieces

\* At most one async_write is outstanding on the socket, whichever threads write
\* and however often the session is closed and opened again (boost asks for it),
\* unless an attempt to connect began before the one before had ended, or a stop came between
\* the loads and the compare_exchange of start().
OneWriteInFlight == overlapped \/ late \/ Outstanding("write") <= 1

\* At most one read is outstanding, unless a connection began while another thread was still
\* inside the session, or before the attempt before it had ended.
OneReadInFlight == overtaken \/ overlapped \/ Outstanding("read") <= 1

\* A started session never goes deaf: a read is outstanding, has completed, or is about to
\* begin, or the session is being stopped, so that it learns that its peer has gone; unless a
\* stop came between the loads and the compare_exchange of start(), which was then let through
\* by the reset() that followed or by a part of it.
NeverDeaf ==
  has_started =>
    \/ late \/ Outstanding("read") > 0
    \/ \E i \in DOMAIN ready : ready[i].op = "read"
    \/ \E t \in Threads : \E i \in DOMAIN pc[t] :
         pc[t][i] \in {"read", "after_read", "stop", "close"} \cup Resets

\* An open socket belongs to a session that is initialised, being opened or being
\* closed, with the exceptions of OneReadInFlight.
NoOrphanSocket ==
  sock = "open" /\ role = "client" =>
    \/ overtaken \/ overlapped \/ m_binit
    \/ \E i \in DOMAIN ready : ready[i].op \in Stages
    \/ \E t \in Threads : Top(t) = "close"

\* m_all_len is what waits in the buffer, as long as write_tail has not extended a
\* message in place.
LenIsExact == tailed \/ m_all_len = Len(FlattenSeq(m_write_buf))

\* The server's map forgets a session that has closed.
ClosedIsForgotten ==
  m_sessions /\ ~m_binit => \/ \E i \in DOMAIN ready : ready[i].op = "start"
                            \/ \E t \in Threads : Top(t) \in {"close", "remove_session"}

TlsUnanswered == class = "websocket_ssl" /\ role = "client" /\ Outstanding("tls") > 0

\* An attempt that has not ended yet, but for a client whose TLS handshake is not answered.  A
\* late connect of a TcpSession may outlive its attempt, which a close has ended.
Attempting ==
  /\ ~TlsUnanswered
  /\ (m_binit /\ ~m_bstart) \/ (Opening /\ class # "tcp")

\* Every attempt to connect ends with a session that has started or with close_cbk, however
\* the time-outs and the handlers fall, or waits for the answer to a TLS handshake.
ConnectSettles ==
  Attempting ~> \/ has_started \/ TlsUnanswered
                \/ \E t \in Threads : Top(t) = "close_cbk"

\* Whatever has been accepted is delivered or dropped by a close.
WritesDrain == (m_write_buf # <<>>) ~> (m_write_buf = <<>>)

Link == INSTANCE Channel WITH
          Data <- 1 .. MaxPieces,
          open <- has_started /\ ~Locked,
          queue <- m_current_send_msg \o FlattenSeq(m_write_buf)

\* The session implements a channel, open to whoever gets m_write_mtx: pieces go out in
\* order, at most once, and none outlives the connection it was accepted on.
SessionIsChannel == Link!Spec
==============================================================================
