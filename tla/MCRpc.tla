-------------------------------- MODULE MCRpc --------------------------------
(* Rpc for TLC: packages of two and three cells, two lost connections.        *)
EXTENDS Rpc

CONSTANTS r1, r2

MCRequests == {r1, r2}
MCSize == (r1 :> 2) @@ (r2 :> 3)
==============================================================================
