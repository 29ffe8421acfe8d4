--------------------------- MODULE MCReplication ---------------------------
EXTENDS Replication

CONSTANTS a, b, c

Chain == (a :> None) @@ (b :> a) @@ (c :> b)
Star == (a :> None) @@ (b :> a) @@ (c :> a)

Left(w, f, sv, so, m) ==
    [writes |-> w, flushes |-> f, saves |-> sv, slaveofs |-> so, mishaps |-> m]

(* A chain with two databases, whose operator may promote the middle        *)
(* server; the same chain, and a master with two slaves, where links fail   *)
(* without the other end noticing; and two slaves of a master, where the    *)
(* operator makes one the other's slave or promotes it.                     *)
Deployments ==
    {[masterhost |-> Chain, dbs |-> {0, 1}, may |-> {<<b, None>>},
      mishaps |-> {"failed", "syncfork"}, left |-> Left(2, 0, 0, 1, 1)],
     [masterhost |-> Chain, dbs |-> {0}, may |-> {},
      mishaps |-> {"timeout", "crash"}, left |-> Left(2, 0, 0, 0, 1)],
     [masterhost |-> Star, dbs |-> {0}, may |-> {},
      mishaps |-> {"timeout", "cut", "crash"}, left |-> Left(2, 1, 0, 0, 1)],
     [masterhost |-> Star, dbs |-> {0}, may |-> {<<b, c>>, <<c, None>>},
      mishaps |-> {},
      left |-> Left(1, 0, 1, 2, 0)]}

(* Two slaves of one save, and two databases.                               *)
TwoDatabases ==
    {[masterhost |-> Star, dbs |-> {0, 1}, may |-> {}, mishaps |-> {},
      left |-> Left(2, 0, 0, 0, 0)]}

(* One save child is killed by a signal from outside.                       *)
Killed ==
    {[masterhost |-> Star, dbs |-> {0}, may |-> {}, mishaps |-> {"killed"},
      left |-> Left(2, 0, 0, 0, 1)]}
=============================================================================
