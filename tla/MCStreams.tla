------------------------------- MODULE MCStreams ------------------------------
(* One stream: streams share nothing but the peer's context, which any     *)
(* step may cancel, and the map, in which each has an entry of its own.    *)
EXTENDS Streams
=============================================================================
