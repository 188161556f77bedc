--------------------------- MODULE MCPThreadSync ---------------------------
(* Instances of PThreadSync for TLC.                                       *)
EXTENDS PThreadSyncInv, TLC

\* Threads are interchangeable in the safety runs.
Symmetry == Permutations(Thread)
=============================================================================
