------------------------------- MODULE MCGossip -------------------------------
(* Four nodes in a ring: two ways round from any node to any other, so     *)
(* that copies of one message race each other.                             *)
EXTENDS Gossip

MCNodes == {"a", "b", "c", "d"}
MCPeers == [a |-> {"b", "c"}, b |-> {"a", "d"}, c |-> {"a", "d"},
            d |-> {"b", "c"}]
=============================================================================
