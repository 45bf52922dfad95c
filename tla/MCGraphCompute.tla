--------------------------- MODULE MCGraphCompute ---------------------------
(* A pool of three threads. The graph has a NOP between two products; a    *)
(* product has eight chunks for one thread or two, and one for each thread *)
(* (the last of them empty) for three.                                     *)
EXTENDS GraphCompute

GraphOps == {0, 2}
=============================================================================
