-------------------------------- MODULE Plans --------------------------------
(***************************************************************************)
(* Plans of the Dynamoth engine (NetworkEngine/RPub/Manager/Plan): a plan  *)
(* has an id and maps channels to hubs ("shards") under a strategy; every  *)
(* mapping has a plan id too.  The arrays of hubs are sets here: no code   *)
(* depends on their order but the equality of two mappings, and the        *)
(* rebalancers keep the order of the hubs they do not change.              *)
(***************************************************************************)
EXTENDS Naturals

CONSTANTS
  Channels,
  Hubs,       \* the RPubClientIds of the hubs, numbers
  Default     \* RPubClientId.Default, the hub of channels not in a plan

ASSUME PlansAssumption == Hubs \subseteq Nat /\ Default \in Hubs

Strategies == {"default", "subscribers_connected", "publishers_connected"}
Mappings == [shards : (SUBSET Hubs) \ {{}}, strategy : Strategies, id : Nat]
IsPlan(p) ==
  /\ p = [id |-> p.id, map |-> p.map]
  /\ p.id \in Nat
  /\ DOMAIN p.map \subseteq Channels
  /\ \A c \in DOMAIN p.map : p.map[c] \in Mappings

FirstPlan == [id |-> 0, map |-> [c \in {} |-> 0]]

DefaultMapping(id) == [shards |-> {Default}, strategy |-> "default", id |-> id]

\* getMapping: a channel the plan does not define has the id of the plan.
MappingOf(p, c) == IF c \in DOMAIN p.map THEN p.map[c] ELSE DefaultMapping(p.id)

\* equals: the plan ids of two mappings are not compared.
SameMapping(m, n) == m.shards = n.shards /\ m.strategy = n.strategy

SetMapping(p, c, m) ==
  [p EXCEPT !.map = [d \in DOMAIN p.map \cup {c} |->
                       IF d = c THEN m ELSE p.map[d]]]

MaxId(i, j) == IF i > j THEN i ELSE j

\* (Bug variant of ChangedMapping: the receiver keeps its own plan id for the
\* channel.)
ChangedMappingStale(p, c, m) ==
  [SetMapping(p, c, [m EXCEPT !.id = p.id]) EXCEPT !.id = MaxId(m.id, p.id)]

\* processChangeChannelMappingControlMessage: the plan of the receiver with the
\* mapping it was sent, and the larger of the two plan ids.
ChangedMapping(p, c, m) ==
  [SetMapping(p, c, m) EXCEPT !.id = MaxId(m.id, p.id)]

\* mergeMissingChannels: channels the analyzers saw and the plan does not
\* define are bound to the hub they were seen on: the default one, since a
\* channel is elsewhere only by a plan that defines it, and plans keep what
\* they define.  (Two hubs that both saw one would leave it to the last.)
Merged(p, seen) ==
  [p EXCEPT !.map = [d \in DOMAIN p.map \cup seen |->
             IF d \in DOMAIN p.map THEN p.map[d] ELSE DefaultMapping(p.id)]]

\* (Bug variant of NumberChanged: no mapping takes the id of the new plan.)
NumberNone(p, old) == p

\* applyPlanIdToChangedMappings: only mappings that differ from those of the
\* old plan take the id of the new one.
NumberChanged(p, old) ==
  [p EXCEPT !.map = [d \in DOMAIN p.map |->
     IF SameMapping(p.map[d], MappingOf(old, d)) THEN p.map[d]
     ELSE [p.map[d] EXCEPT !.id = p.id]]]

\* A plan a rebalancer proposes after p, which gives some channels the mappings
\* of the function changes; it is numbered when the load balancer takes it.
Proposed(p, changes) ==
  [id |-> p.id,
   map |-> [d \in DOMAIN p.map \cup DOMAIN changes |->
              IF d \in DOMAIN changes
              THEN [shards |-> changes[d].shards,
                    strategy |-> changes[d].strategy, id |-> p.id]
              ELSE p.map[d]]]
NextPlan(p, changes) ==
  NumberChanged([Proposed(p, changes) EXCEPT !.id = p.id + 1], p)
-----------------------------------------------------------------------------
\* RepeatableRandomSelector draws one hub per channel, plan id and client and
\* remembers it; picks holds the draws of one client, by plan id.
Picked(m, picks) ==
  IF picks[m.id] \in m.shards THEN picks[m.id]
  ELSE CHOOSE h \in m.shards : TRUE

PublicationShards(m, picks) ==
  IF m.strategy = "subscribers_connected" THEN {Picked(m, picks)} ELSE m.shards

SubscriptionShards(m, picks) ==
  IF m.strategy = "publishers_connected" THEN {Picked(m, picks)} ELSE m.shards

\* PlanDiffImpl.computeDiff: the hubs on which a channel has to be subscribed
\* and unsubscribed when p becomes q.
ToSubscribe(p, q, c, picks) ==
  LET m == MappingOf(p, c)  n == MappingOf(q, c)
  IN  IF c \notin DOMAIN q.map \/ SameMapping(m, n) THEN {}
      ELSE SubscriptionShards(n, picks) \ SubscriptionShards(m, picks)

\* (Bug variant of ToUnsubscribe: channels the old plan did not define are
\* passed over, which the line that is commented out in computeDiff did.)
ToUnsubscribeRetained(p, q, c, picks) ==
  IF c \notin DOMAIN p.map THEN {}
  ELSE SubscriptionShards(p.map[c], picks) \
       SubscriptionShards(MappingOf(q, c), picks)

ToUnsubscribe(p, q, c, picks) ==
  LET m == MappingOf(p, c)  n == MappingOf(q, c)
  IN  IF c \notin DOMAIN q.map
      THEN IF c \in DOMAIN p.map THEN m.shards ELSE {}
      ELSE IF SameMapping(m, n) THEN {}
      ELSE SubscriptionShards(m, picks) \ SubscriptionShards(n, picks)
=============================================================================
