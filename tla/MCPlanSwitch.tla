---------------------------- MODULE MCPlanSwitch ----------------------------
(* PlanSwitch on small instances. *)
EXTENDS PlanSwitch

CONSTANTS k1, c1, c2

(* The other hub, or publishers on both hubs and subscribers on one: two   *)
(* plans lead away from the default hub, and hubs of the last plan but one *)
(* are told of a change that others have already gone beyond.              *)
AwayAndSpread ==
  { [shards |-> {1}, strategy |-> "default"],
    [shards |-> {0, 1}, strategy |-> "publishers_connected"] }

\* A client draws hub 1 under every plan.
OneDraw == {[i \in 0 .. MaxPlans - 1 |-> 1]}

\* A client draws hub 0 under the third plan that is made, and else hub 1.
TwoDraws == {[i \in 0 .. MaxPlans - 1 |-> IF i = 3 THEN 0 ELSE 1]}

\* Every channel on one hub, and publishers on one of the two hubs where
\* subscribers are on both.
On(hs) == [shards |-> hs, strategy |-> "default"]
Moves == {On({0}), On({1})}
Replications == {On({0}), [shards |-> {0, 1}, strategy |-> "subscribers_connected"]}
=============================================================================
