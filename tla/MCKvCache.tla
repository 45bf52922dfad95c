----------------------------- MODULE MCKvCache -----------------------------
(* Two sequences that nothing tells apart, in a cache with and without a   *)
(* window.                                                                 *)
EXTENDS KvCache, TLC

CONSTANTS s1, s2

CacheSeqs == {s1, s2}
CacheWindows == {0, 2}
CacheDeltas == {-1}
SeqSymmetry == Permutations(CacheSeqs)
=============================================================================
