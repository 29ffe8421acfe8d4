---------------------------- MODULE MCCacheServer ----------------------------
(* CacheServer on small instances. *)
EXTENDS CacheServer, TLC

CONSTANTS t1, t2, t3, k1, k2, good, bad

Interchangeable == Permutations(Threads)
=============================================================================
