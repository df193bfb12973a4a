-------------------------------- MODULE MCSwarm -------------------------------
(* Several connections of one node, as after a lost connection or when     *)
(* both sides dial at once: nothing in Swarm relates two nodes but         *)
(* connChan and its reader, which any two connections share.               *)
EXTENDS Swarm

MCConns == {"p1", "p2"}
MCOwner == [c \in MCConns |-> "p"]
=============================================================================
