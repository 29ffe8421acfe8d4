------------------------------- MODULE MCDict -------------------------------
(* Three keys that share a bucket of two, and two of them one of four. *)
EXTENDS Dict

Hashes == [a |-> 0, b |-> 2, c |-> 4]
=============================================================================
