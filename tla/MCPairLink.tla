------------------------------ MODULE MCPairLink -------------------------------
(* Two connections, one dialed by each node, and a message.                *)
EXTENDS PairLink

MCDialer == [c1 |-> "a", c2 |-> "b"]
=============================================================================
