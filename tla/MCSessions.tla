------------------------------ MODULE MCSessions ------------------------------
(* Two sessions that take turns under one ID, and streams whose handlers   *)
(* compete for the one place in a channel.                                 *)
EXTENDS Sessions

MCAsked == [s \in AcceptedStreams |-> "i1"]
=============================================================================
