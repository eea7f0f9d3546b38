-------------------------- MODULE WebsocketSession ---------------------------
(***************************************************************************)
(* BTool::BoostNet::WebsocketSession (websocket_session.hpp) with          *)
(* IsReadSome, and the WebsocketServer that accepts it                     *)
(* (websocket_server.hpp).  The functions that are those of TcpSession     *)
(* word for word are the operators of StreamSession.                       *)
(***************************************************************************)
EXTENDS StreamSession

connect(t) ==
  /\ MayConnect(t)
  /\ init
  /\ pending' = Append(pending, "resolve")
  /\ UNCHANGED <<sock, ready>>

handle_resolve == HandleResolved
handle_connect == HandleStage("connect", "handshake")
handle_handshake == HandleOpened("handshake", <<"close">>)
handle_start == HandleOpened("accept", <<"close">>)

write(t) == Write(t)
write_tail(t) == WriteTail(t)
shutdown(t) == CallShutdown(t)
handle_read == HandleRead
handle_write == HandleWrite
close(t) == Close(t)

\* WebsocketServer::handle_accept, with the start() that it calls.
handle_accept == Accepted /\ init /\ pending' = Append(pending, "accept") /\ UNCHANGED ready
remove_session(t) == RemoveSession(t)
clear == DropSessions

Handlers ==
  \/ handle_resolve \/ handle_connect \/ handle_handshake \/ handle_start
  \/ Start(<<"close">>) \/ handle_read \/ handle_write

Next ==
  \/ Handlers \/ handle_accept \/ clear \/ Environment
  \/ \E t \in Threads : \/ connect(t) \/ write(t) \/ write_tail(t) \/ shutdown(t)
                        \/ Proceeds(t)
==============================================================================
