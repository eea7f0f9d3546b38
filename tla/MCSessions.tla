----------------------------- MODULE MCSessions ------------------------------
(* Sessions for TLC: one thread beside the io thread, two connections.        *)
EXTENDS Sessions

CONSTANT u1

MCUsers == {u1}
MCClasses == {"tcp", "websocket", "websocket_ssl"}
==============================================================================
