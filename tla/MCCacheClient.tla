---------------------------- MODULE MCCacheClient ----------------------------
(* CacheClient on small instances. *)
EXTENDS CacheClient, TLC

CONSTANTS c1, c2, good, bad

Interchangeable == Permutations(Clients)
=============================================================================
