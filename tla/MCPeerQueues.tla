---------------------------- MODULE MCPeerQueues ----------------------------
(* Two flows that hash to different queues.                                 *)
EXTENDS PeerQueues

CONSTANTS f, g

MCHash == (f :> 0) @@ (g :> 1)
=============================================================================
