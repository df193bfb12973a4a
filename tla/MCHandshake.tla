------------------------------ MODULE MCHandshake -----------------------------
(* One connection between two ends.                                        *)
EXTENDS Handshake
=============================================================================
