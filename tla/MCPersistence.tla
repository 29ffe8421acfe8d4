--------------------------- MODULE MCPersistence ---------------------------
EXTENDS Persistence

Left(w, f, sv, rw, cf, sd, m) ==
    [writes |-> w, flushes |-> f, saves |-> sv, rewrites |-> rw, configs |-> cf,
     shutdowns |-> sd, mishaps |-> m]

(* Every policy, with rewrites that are asked for or grown into; a server   *)
(* that turns its file off and on; and a server with save points only.      *)
Configurations ==
    {[dbs |-> {0, 1}, appendonly |-> TRUE, fsync |-> policy, noFsyncOnRewrite |-> FALSE,
      changes |-> 0, percentage |-> 100,
      mishaps |-> {"kill", "power", "child", "rename", "pipeline"},
      left |-> Left(2, 0, 0, 1, 0, 1, 1)] : policy \in {"always", "everysec", "no"}}
    \cup
    {[dbs |-> {0, 1}, appendonly |-> TRUE, fsync |-> "everysec", noFsyncOnRewrite |-> TRUE,
      changes |-> 0, percentage |-> 0, mishaps |-> {"kill", "fork"},
      left |-> Left(3, 0, 0, 1, 2, 0, 1)],
     [dbs |-> {0}, appendonly |-> FALSE, fsync |-> "always", noFsyncOnRewrite |-> FALSE,
      changes |-> 1, percentage |-> 0, mishaps |-> {"kill", "child", "fork"},
      left |-> Left(2, 1, 1, 1, 1, 0, 1)]}

(* A server that syncs its file every second and is shut down.              *)
ShutDown ==
    {[dbs |-> {0}, appendonly |-> TRUE, fsync |-> "everysec", noFsyncOnRewrite |-> FALSE,
      changes |-> 0, percentage |-> 0, mishaps |-> {},
      left |-> Left(2, 0, 0, 0, 0, 1, 0)]}
=============================================================================
