----------------------------- MODULE MCSentinel -----------------------------
(* Two sentinels watch a master with two slaves. *)
EXTENDS Sentinel, TLC

Priorities == (11 :> 100) @@ (12 :> 100) @@ (13 :> 50)
Faults == [k \in {"crash", "restart", "cut", "tilt", "admin", "delay", "early", "any"} |->
             IF k = "any" THEN 2 ELSE 1]
=============================================================================
