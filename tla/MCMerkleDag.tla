------------------------------ MODULE MCMerkleDag ------------------------------
(* Chunks of two bytes.  Two files share their first chunk, one of three   *)
(* chunks has two that are equal, one is empty, one fits in one node and   *)
(* one is what that node encodes to.                                       *)
EXTENDS MerkleDag

CONSTANTS x, y

MCFiles == {<<>>, <<x>>, <<x, y, x>>, <<x, y, y>>, <<x, x, x, x, y>>,
            Marshal(MetaLink(<<x>>, <<>>))}
=============================================================================
