------------------------------ MODULE MCNodeStart ------------------------------
(* Two processes over one directory and one port, and two passwords.       *)
EXTENDS NodeStart
=============================================================================
