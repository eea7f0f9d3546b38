------------------------- MODULE WebsocketSslSession -------------------------
(***************************************************************************)
(* BTool::BoostNet::WebsocketSslSession (websocket_ssl_session.hpp) with   *)
(* IsReadSome, and the WebsocketSslServer that accepts it                  *)
(* (websocket_ssl_server.hpp).  connect leaves the switch alone; it is     *)
(* handle_connect that initialises it.                                     *)
(***************************************************************************)
EXTENDS StreamSession

connect(t) ==
  /\ MayConnect(t)
  /\ pending' = Append(pending, "resolve")
  /\ UNCHANGED <<sock, ready, switch>>

handle_resolve == HandleResolved

\* When the switch is initialised already, or still, the handler just returns; setting the
\* server name (SNI) may fail.
handle_connect ==
  IF Handles("connect") /\ Succeeded
  THEN /\ ready' = Tail(ready)
       /\ \/ m_binit /\ UNCHANGED <<pending, pc, switch>>
          \/ init /\ Call(Io, <<"close">>) /\ UNCHANGED pending
          \/ init /\ pending' = Append(pending, "tls") /\ UNCHANGED pc
       /\ overtaken' = (overtaken \/ Occupied(Io))
       /\ UNCHANGED <<sock, connects, buffer, pieces, overlapped, late, role, m_sessions>>
  ELSE Handle("connect", <<"close">>) /\ UNCHANGED switch

\* The TLS handshake has completed, of a client or of start().
handle_handshake == HandleStage("tls", IF role = "server" THEN "accept" ELSE "handshake")

handle_start == HandleOpened("handshake", <<"close">>) \/ HandleOpened("accept", <<"close">>)

write(t) == Write(t)
write_tail(t) == WriteTail(t)
shutdown(t) == CallShutdown(t)
handle_read == HandleRead
handle_write == HandleWrite
close(t) == Close(t)

\* WebsocketSslServer::handle_accept, with the start() that it calls.
handle_accept == Accepted /\ init /\ pending' = Append(pending, "tls") /\ UNCHANGED ready
remove_session(t) == RemoveSession(t)

\* The handler of the TLS stage does not hold the session, which it would find destroyed:
\* what happens then is undefined, and not modelled.
clear ==
  /\ \A i \in DOMAIN pending : pending[i] # "tls"
  /\ \A i \in DOMAIN ready : ready[i].op # "tls"
  /\ DropSessions

Handlers ==
  \/ handle_resolve \/ handle_connect \/ handle_handshake \/ handle_start
  \/ Start(<<"close">>) \/ handle_read \/ handle_write

Next ==
  \/ Handlers \/ handle_accept \/ clear \/ Environment
  \/ \E t \in Threads : \/ connect(t) \/ write(t) \/ write_tail(t) \/ shutdown(t)
                        \/ Proceeds(t)
==============================================================================
