--------------------------- MODULE MCParallelCopy ---------------------------
(* Instances of ParallelCopy for TLC: small source trees. *)
EXTENDS ParallelCopy, TLC

CONSTANTS f1, f2, f3, pipe

\* A directory with a file, a subdirectory of two files and a FIFO.
TreeListing == [src |-> <<".", f1, "sub", pipe>>, sub |-> <<"..", f2, f3>>]
TreeChunks  == f1 :> 2 @@ f2 :> 1 @@ f3 :> 1

\* Two files at the top and an entry after them.
FlatListing == [src |-> <<f1, f2, "..">>]
FlatChunks  == f1 :> 1 @@ f2 :> 1
=============================================================================
