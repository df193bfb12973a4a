---------------------------- MODULE MCRoutingTable ----------------------------
(* IDs of two bytes.  Calls a, b and c save peers of one bucket (they      *)
(* differ from this node first in bit 2 of the second byte), b and c the   *)
(* same one; e differs in the last bit only and f is this node's own ID.   *)
EXTENDS RoutingTable

Flip(bits) == [i \in 0..15 |-> IF i \in bits THEN 1 ELSE 0]

MCMyID   == Flip({})
MCCalls  == {"a", "b", "c", "e", "f"}
MCPeerOf == [a |-> Flip({10}), b |-> Flip({10, 15}), c |-> Flip({10, 15}),
             e |-> Flip({15}), f |-> MCMyID]
=============================================================================
