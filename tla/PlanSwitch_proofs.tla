------------------------- MODULE PlanSwitch_proofs -------------------------
(***************************************************************************)
(* What holds of every system, whatever the hubs, the clients and the      *)
(* number of plans: that plan ids tell mappings, if there is one channel,  *)
(* that every variable has its type, and that clients are subscribed where *)
(* their plans say, if proposals never overlap in part.                    *)
(***************************************************************************)
EXTENDS PlanSwitch, TLAPS

(* With a second channel plan ids do not tell mappings: finding 6. *)
OneChannel == \A c, d \in Channels : c = d

(* A mapping that comes from a proposal, or from none. *)
Proposable(m) ==
  \/ \E x \in Proposals : SameMapping(m, x)
  \/ SameMapping(m, DefaultMapping(0))

(* A mapping of c has an origin in the plans ps of the load balancer: they
   have its id and, if c is the one channel, give it this mapping under it. *)
Told(m, c, ps) ==
  /\ m.id \in 0 .. Len(ps) - 1
  /\ Proposable(m)
  /\ OneChannel => SameMapping(m, MappingOf(ps[m.id + 1], c))

(* The mapping of channels that are in no plan needs no proposal, and no
   mapping changes this by taking another id. *)
LEMMA ProposableMappings ==
  /\ \A id : Proposable(DefaultMapping(id))
  /\ \A m, n : SameMapping(m, n) /\ Proposable(m) => Proposable(n)
  <1>1. \A id : Proposable(DefaultMapping(id))
    BY DEF Proposable, SameMapping, DefaultMapping
  <1>2. \A m, n : SameMapping(m, n) /\ Proposable(m) => Proposable(n)
    BY DEF Proposable, SameMapping
  <1> QED BY <1>1, <1>2

PlanMaps == UNION { [D -> Mappings] : D \in SUBSET Channels }
SomePlans == [id : Nat, map : PlanMaps]

Truthful(ps) ==
  { p \in SomePlans : p.id < Len(ps) /\ \A c \in Channels : Told(MappingOf(p, c), c, ps) }

Sound(ps) ==
  { msg \in Messages :
      msg.type \in {"change", "direct"} => Told(msg.mapping, msg.ch, ps) }

Numbered(ps) == \A i \in 1 .. Len(ps) : ps[i].id = i - 1

Directs(S) == { msg \in S : msg.type = "direct" }

QueuesOf(S, qs) ==
  /\ qs.clients \in [Clients -> [Hubs -> Seq(S)]]
  /\ qs.analyzers \in [Hubs -> Seq(S)]
  /\ qs.engines \in [Hubs -> Seq(Directs(S))]

PlansPushed ==
  /\ pushed \in Seq(Truthful(pushed)) /\ pushed # <<>>
  /\ Numbered(pushed)
  /\ lbPlan = pushed[Len(pushed)]

AnalyzersHonest ==
  /\ history \in [Hubs -> Seq(Truthful(pushed))]
  /\ received \in [Hubs -> 1 .. Len(pushed)]
  /\ DOMAIN applying = Hubs
  /\ \A h \in Hubs : history[h] # <<>> /\ (applying[h] => Len(history[h]) > 1)

ClientsHonest ==
  /\ plan \in [Clients -> Truthful(pushed)]
  /\ sending \in [Clients -> {NoMessage} \cup [ch : Channels, hubs : SUBSET Hubs]]

IInv ==
  /\ PlansPushed
  /\ AnalyzersHonest
  /\ ClientsHonest
  /\ QueuesOf(Sound(pushed), Queues)

-----------------------------------------------------------------------------
(* Plans and mappings *)

(* The mapping of channels that are in no plan. *)
LEMMA DefaultType ==
  ASSUME NEW id \in Nat
  PROVE  DefaultMapping(id) \in Mappings
  <1>1. {Default} \in (SUBSET Hubs) \ {{}}
    <2>1. {Default} # {} /\ {Default} \subseteq Hubs
      BY PlansAssumption
    <2> QED BY <2>1
  <1>2. "default" \in Strategies
    BY DEF Strategies
  <1> QED BY <1>1, <1>2 DEF DefaultMapping, Mappings

(* A plan gives every channel a mapping. *)
LEMMA MappingType ==
  ASSUME NEW p \in SomePlans, NEW c \in Channels
  PROVE  MappingOf(p, c) \in Mappings
  <1>1. p.id \in Nat /\ \A d \in DOMAIN p.map : p.map[d] \in Mappings
    BY DEF SomePlans, PlanMaps
  <1> QED BY <1>1, DefaultType DEF MappingOf

(* A plan with one mapping more. *)
LEMMA SetMappingIs ==
  ASSUME NEW p \in SomePlans, NEW c \in Channels, NEW m \in Mappings
  PROVE  /\ SetMapping(p, c, m) \in SomePlans
         /\ SetMapping(p, c, m).id = p.id
         /\ DOMAIN SetMapping(p, c, m).map = DOMAIN p.map \cup {c}
         /\ SetMapping(p, c, m).map[c] = m
         /\ \A d \in DOMAIN p.map : d # c => SetMapping(p, c, m).map[d] = p.map[d]
  BY DEF SomePlans, PlanMaps, SetMapping

(* What the plans of the load balancer tell stays told as they grow. *)
LEMMA ToldStays ==
  ASSUME NEW S, NEW ps \in Seq(S), NEW q \in S, NEW c, NEW m, Told(m, c, ps)
  PROVE  Told(m, c, Append(ps, q))
  BY DEF Told

(* The same of a plan that tells only what they tell. *)
LEMMA PlansStay ==
  ASSUME NEW S, NEW ps \in Seq(S), NEW q \in S
  PROVE  Truthful(ps) \subseteq Truthful(Append(ps, q))
  <1> SUFFICES ASSUME NEW p \in Truthful(ps) PROVE p \in Truthful(Append(ps, q))
    OBVIOUS
  <1>1. \A c \in Channels : Told(MappingOf(p, c), c, Append(ps, q))
    BY ToldStays DEF Truthful
  <1>2. p.id < Len(Append(ps, q))
    BY DEF Truthful, SomePlans
  <1> QED BY <1>1, <1>2 DEF Truthful

(* The same of the mappings that messages carry. *)
LEMMA MessagesStay ==
  ASSUME NEW S, NEW ps \in Seq(S), NEW q \in S
  PROVE  Sound(ps) \subseteq Sound(Append(ps, q))
  BY ToldStays DEF Sound

(* A mapping that is told is set in a plan: of one channel, nothing else is
   left of the plan; of several, the others keep the mapping or go on without. *)
LEMMA ChangedTruthful ==
  ASSUME NEW ps, Len(ps) \in Nat, NEW p \in Truthful(ps), NEW c \in Channels,
         NEW m \in Mappings, Told(m, c, ps)
  PROVE  ChangedMapping(p, c, m) \in Truthful(ps)
  <1> DEFINE q == SetMapping(p, c, m)
             r == ChangedMapping(p, c, m)
  <1>1. p \in SomePlans /\ p.id < Len(ps) /\ p.id \in Nat /\ m.id \in Nat /\ m.id < Len(ps)
    BY DEF Truthful, SomePlans, Told, Mappings
  <1>2. /\ q \in SomePlans /\ DOMAIN q.map = DOMAIN p.map \cup {c} /\ q.map[c] = m
        /\ \A d \in DOMAIN p.map : d # c => q.map[d] = p.map[d]
    BY <1>1, SetMappingIs
  <1>3. MaxId(m.id, p.id) \in Nat /\ MaxId(m.id, p.id) < Len(ps)
    BY <1>1 DEF MaxId
  <1>4. r = [q EXCEPT !.id = MaxId(m.id, p.id)]
    BY DEF ChangedMapping
  <1> HIDE DEF q, r
  <1>5. r \in SomePlans /\ r.id = MaxId(m.id, p.id) /\ r.map = q.map
    BY <1>2, <1>3, <1>4 DEF SomePlans
  <1>6. ASSUME NEW d \in Channels  PROVE Told(MappingOf(r, d), d, ps)
    <2>1. CASE d = c
      BY <1>2, <1>5, <2>1 DEF MappingOf
    <2>2. CASE d # c /\ d \in DOMAIN p.map
      <3>1. MappingOf(r, d) = MappingOf(p, d)
        BY <1>2, <1>5, <2>2 DEF MappingOf
      <3> QED BY <3>1 DEF Truthful
    <2>3. CASE d # c /\ d \notin DOMAIN p.map
      <3>1. MappingOf(r, d) = DefaultMapping(MaxId(m.id, p.id))
        BY <1>2, <1>5, <2>3 DEF MappingOf
      <3>2. DefaultMapping(MaxId(m.id, p.id)).id = MaxId(m.id, p.id)
        BY DEF DefaultMapping
      <3>3. ~OneChannel
        BY <2>3 DEF OneChannel
      <3> QED BY <1>3, <3>1, <3>2, <3>3, ProposableMappings DEF Told
    <2> QED BY <2>1, <2>2, <2>3
  <1> QED BY <1>3, <1>5, <1>6 DEF Truthful, r

(* Channels that are merged into a plan keep the mapping they had in it. *)
LEMMA MergedIs ==
  ASSUME NEW p \in SomePlans, NEW seen \in SUBSET Channels
  PROVE  /\ Merged(p, seen) \in SomePlans
         /\ Merged(p, seen).id = p.id
         /\ \A c \in Channels : MappingOf(Merged(p, seen), c) = MappingOf(p, c)
  <1> DEFINE f == [d \in DOMAIN p.map \cup seen |->
                     IF d \in DOMAIN p.map THEN p.map[d] ELSE DefaultMapping(p.id)]
             q == Merged(p, seen)
  <1>1. p.id \in Nat /\ DOMAIN p.map \subseteq Channels
        /\ \A d \in DOMAIN p.map : p.map[d] \in Mappings
    BY DEF SomePlans, PlanMaps
  <1>2. DefaultMapping(p.id) \in Mappings
    BY <1>1, DefaultType
  <1>3. f \in PlanMaps
    <2>1. DOMAIN p.map \cup seen \in SUBSET Channels
      BY <1>1
    <2>2. f \in [DOMAIN p.map \cup seen -> Mappings]
      BY <1>1, <1>2
    <2> QED BY <2>1, <2>2 DEF PlanMaps
  <1>4. q = [p EXCEPT !.map = f]
    BY DEF Merged
  <1>5. DOMAIN f = DOMAIN p.map \cup seen
        /\ \A d \in DOMAIN f : f[d] = IF d \in DOMAIN p.map THEN p.map[d] ELSE DefaultMapping(p.id)
    OBVIOUS
  <1> HIDE DEF f, q
  <1>6. q \in SomePlans /\ q.id = p.id /\ q.map = f
    BY <1>3, <1>4 DEF SomePlans
  <1>7. \A c \in Channels : MappingOf(q, c) = MappingOf(p, c)
    BY <1>5, <1>6 DEF MappingOf
  <1> QED BY <1>6, <1>7 DEF q

(* The next plan of the load balancer: a mapping that changes takes the id
   of the plan, one that does not keeps an id under which it is told. *)
LEMMA NextTruthful ==
  ASSUME NEW ps, ps \in Seq(Truthful(ps)), ps # <<>>, Numbered(ps),
         NEW seen \in SUBSET Channels, NEW cs \in SUBSET Channels,
         NEW changes \in [cs -> Proposals]
  PROVE  LET q == NextPlan(Merged(ps[Len(ps)], seen), changes)
         IN  q \in Truthful(Append(ps, q)) /\ q.id = Len(ps)
  <1> DEFINE p == Merged(ps[Len(ps)], seen)
             a == Proposed(p, changes)
             b == [a EXCEPT !.id = p.id + 1]
             f == [d \in DOMAIN b.map |->
                     IF SameMapping(b.map[d], MappingOf(p, d)) THEN b.map[d]
                     ELSE [b.map[d] EXCEPT !.id = b.id]]
             q == NextPlan(p, changes)
             n == Len(ps)
  <1>1. n \in Nat \ {0} /\ ps[n] \in Truthful(ps) /\ ps[n] \in SomePlans /\ ps[n].id = n - 1
    <2>1. n \in Nat \ {0}
      OBVIOUS
    <2> QED BY <2>1 DEF Truthful, Numbered
  <1>2. /\ p \in SomePlans /\ p.id = n - 1
        /\ \A c \in Channels : MappingOf(p, c) = MappingOf(ps[n], c)
    BY <1>1, MergedIs
  <1>3. \A c \in Channels : MappingOf(p, c) \in Mappings /\ Told(MappingOf(p, c), c, ps)
    BY <1>1, <1>2, MappingType DEF Truthful
  <1>4. \A d \in cs : changes[d].shards \in (SUBSET Hubs) \ {{}} /\ changes[d].strategy \in Strategies
    BY SwitchAssumption
  <1> HIDE DEF p
  <1>5. /\ a.id = p.id /\ a = [id |-> a.id, map |-> a.map]
        /\ DOMAIN a.map = DOMAIN p.map \cup cs
        /\ \A d \in DOMAIN a.map :
              a.map[d] = IF d \in cs THEN [shards |-> changes[d].shards,
                                           strategy |-> changes[d].strategy, id |-> p.id]
                         ELSE p.map[d]
    BY DEF Proposed
  <1> HIDE DEF a
  <1>6. DOMAIN p.map \subseteq Channels /\ \A d \in DOMAIN p.map : p.map[d] \in Mappings
    BY <1>2 DEF SomePlans, PlanMaps
  <1>7. \A d \in DOMAIN a.map : d \in Channels /\ a.map[d] \in Mappings
    <2> TAKE d \in DOMAIN a.map
    <2>1. CASE d \in cs
      <3>1. a.map[d] = [shards |-> changes[d].shards, strategy |-> changes[d].strategy, id |-> p.id]
        BY <2>1, <1>5
      <3>2. p.id \in Nat
        BY <1>1, <1>2
      <3> QED BY <2>1, <3>1, <3>2, <1>4 DEF Mappings
    <2>2. CASE d \notin cs
      BY <2>2, <1>5, <1>6
    <2> QED BY <2>1, <2>2
  <1>8. b.id = n /\ b.map = a.map /\ b = [id |-> b.id, map |-> b.map]
    BY <1>1, <1>2, <1>5
  <1>9. q = [b EXCEPT !.map = f]
    BY DEF NextPlan, NumberChanged, a
  <1> HIDE DEF b
  <1>10. /\ DOMAIN f = DOMAIN a.map
         /\ \A d \in DOMAIN f :
               /\ f[d] \in Mappings
               /\ f[d].shards = a.map[d].shards /\ f[d].strategy = a.map[d].strategy
               /\ f[d].id = IF SameMapping(a.map[d], MappingOf(p, d)) THEN a.map[d].id ELSE n
    BY <1>1, <1>7, <1>8 DEF Mappings
  <1>11. f \in PlanMaps
    <2>1. DOMAIN a.map \in SUBSET Channels
      BY <1>7
    <2>2. f \in [DOMAIN a.map -> Mappings]
      <3>1. f = [d \in DOMAIN f |-> f[d]]
        OBVIOUS
      <3> HIDE DEF f
      <3> QED BY <3>1, <1>10
    <2> QED BY <2>1, <2>2 DEF PlanMaps
  <1> HIDE DEF f, q
  <1>12. q \in SomePlans /\ q.id = n /\ q.map = f
    BY <1>1, <1>8, <1>9, <1>11 DEF SomePlans
  <1> DEFINE qs == Append(ps, q)
  <1>13. Len(qs) = n + 1 /\ qs[n + 1] = q /\ \A i \in 1..n : qs[i] = ps[i]
    BY <1>1
  <1> HIDE DEF qs, n
  <1>14. ASSUME NEW c \in Channels  PROVE Proposable(MappingOf(q, c))
    <2>1. CASE c \notin DOMAIN f
      BY <2>1, <1>12, ProposableMappings DEF MappingOf
    <2>2. CASE c \in DOMAIN f
      <3>1. MappingOf(q, c) = f[c] /\ SameMapping(a.map[c], f[c])
        BY <2>2, <1>10, <1>12 DEF MappingOf, SameMapping
      <3>2. CASE c \in cs
        <4>1. changes[c] \in Proposals /\ SameMapping(a.map[c], changes[c])
          <5>1. c \in DOMAIN a.map
            BY <2>2, <1>10
          <5>2. a.map[c] = [shards |-> changes[c].shards,
                            strategy |-> changes[c].strategy, id |-> p.id]
            BY <5>1, <3>2, <1>5
          <5>3. changes[c] \in Proposals
            BY <3>2
          <5> QED BY <5>2, <5>3 DEF SameMapping
        <4> QED BY <3>1, <4>1, ProposableMappings DEF Proposable
      <3>3. CASE c \notin cs
        <4>1. a.map[c] = MappingOf(p, c)
          BY <3>3, <2>2, <1>5, <1>10 DEF MappingOf
        <4> QED BY <3>1, <4>1, <1>3, ProposableMappings DEF Told
      <3> QED BY <3>2, <3>3
    <2> QED BY <2>1, <2>2
  <1>15. ASSUME NEW c \in Channels  PROVE Told(MappingOf(q, c), c, qs)
    <2>1. CASE c \notin DOMAIN f
      <3>1. MappingOf(q, c).id = n
        BY <2>1, <1>12 DEF MappingOf, DefaultMapping
      <3> QED BY <1>1, <1>13, <1>14, <3>1 DEF Told, SameMapping
    <2>2. CASE c \in DOMAIN f /\ ~SameMapping(a.map[c], MappingOf(p, c))
      <3>1. MappingOf(q, c).id = n
        BY <2>2, <1>10, <1>12 DEF MappingOf
      <3> QED BY <1>1, <1>13, <1>14, <3>1 DEF Told, SameMapping
    <2>3. CASE c \in DOMAIN f /\ SameMapping(a.map[c], MappingOf(p, c))
      <3>1. MappingOf(q, c) = f[c]
        BY <2>3, <1>12 DEF MappingOf
      <3>2. f[c].id = a.map[c].id /\ SameMapping(f[c], MappingOf(p, c))
        BY <2>3, <1>10 DEF SameMapping
      <3>3. CASE c \in cs
        <4>1. f[c].id = n - 1
          <5>1. a.map[c].id = p.id
            <6>1. c \in DOMAIN a.map
              BY <2>3, <1>10
            <6>2. a.map[c] = [shards |-> changes[c].shards,
                              strategy |-> changes[c].strategy, id |-> p.id]
              BY <6>1, <3>3, <1>5
            <6> QED BY <6>2
          <5> QED BY <5>1, <3>2, <1>2
        <4>2. SameMapping(f[c], MappingOf(qs[n], c))
          BY <3>2, <1>1, <1>2, <1>13
        <4> QED BY <3>1, <4>1, <4>2, <1>1, <1>13, <1>14 DEF Told
      <3>4. CASE c \notin cs
        <4>1. a.map[c] = MappingOf(p, c)
          BY <3>4, <2>3, <1>5, <1>10 DEF MappingOf
        <4>2. Told(f[c], c, ps)
          BY <4>1, <3>1, <3>2, <1>3, <1>14 DEF Told, SameMapping
        <4> QED BY <3>1, <4>2, <1>13 DEF Told, n
      <3> QED BY <3>3, <3>4
    <2> QED BY <2>1, <2>2, <2>3
  <1>16. q \in Truthful(qs)
    BY <1>1, <1>12, <1>13, <1>15 DEF Truthful
  <1> QED BY <1>12, <1>16 DEF q, p, n, qs

-----------------------------------------------------------------------------
(* Queues *)

(* More messages may wait where more are sound. *)
LEMMA QueuesStay ==
  ASSUME NEW S, NEW T, S \subseteq T, NEW qs, QueuesOf(S, qs)
  PROVE  QueuesOf(T, qs)
  <1>1. \A q : q \in Seq(S) => q \in Seq(T)
    OBVIOUS
  <1>2. \A k \in Clients : qs.clients[k] \in [Hubs -> Seq(T)]
    BY <1>1 DEF QueuesOf
  <1>3. \A q : q \in Seq(Directs(S)) => q \in Seq(Directs(T))
    <2>1. Directs(S) \subseteq Directs(T)
      BY DEF Directs
    <2> QED BY <2>1
  <1> QED BY <1>1, <1>2, <1>3 DEF QueuesOf

(* A message is relayed to whoever receives it. *)
LEMMA RelayedQueues ==
  ASSUME NEW S, NEW qs, QueuesOf(S, qs), NEW hs, NEW msg \in S
  PROVE  QueuesOf(S, Relayed(qs, hs, msg))
  <1> DEFINE rs == Relayed(qs, hs, msg)
  <1>1. \A q \in Seq(S) : Append(q, msg) \in Seq(S)
    OBVIOUS
  <1>2. rs.clients \in [Clients -> [Hubs -> Seq(S)]]
    <2> SUFFICES ASSUME NEW k \in Clients, NEW h \in Hubs
                 PROVE  (IF h \in hs /\ Receives(k, h, msg) THEN Append(qs.clients[k][h], msg)
                         ELSE qs.clients[k][h]) \in Seq(S)
      BY DEF Relayed
    <2> QED BY <1>1 DEF QueuesOf
  <1>3. rs.analyzers \in [Hubs -> Seq(S)]
    <2> SUFFICES ASSUME NEW h \in Hubs
                 PROVE  (IF h \in hs /\ msg.type # "direct" THEN Append(qs.analyzers[h], msg)
                         ELSE qs.analyzers[h]) \in Seq(S)
      BY DEF Relayed
    <2> QED BY <1>1 DEF QueuesOf
  <1>4. rs.engines \in [Hubs -> Seq(Directs(S))]
    <2> SUFFICES ASSUME NEW g \in Hubs
                 PROVE  (IF msg.type = "direct" /\ msg.to = g /\ msg.from # g
                         THEN Append(qs.engines[g], msg) ELSE qs.engines[g]) \in Seq(Directs(S))
      BY DEF Relayed
    <2>1. CASE msg.type = "direct"
      <3>1. msg \in Directs(S) /\ qs.engines[g] \in Seq(Directs(S))
        BY <2>1 DEF Directs, QueuesOf
      <3> QED BY <3>1
    <2>2. CASE msg.type # "direct"
      BY <2>2 DEF QueuesOf
    <2> QED BY <2>1, <2>2
  <1> QED BY <1>2, <1>3, <1>4 DEF QueuesOf

(* What the invariant says of the queues, and what a step makes of them. *)
LEMMA QueuesAre ==
  ASSUME NEW S
  PROVE  /\ QueuesOf(S, Queues) <=> /\ toClient \in [Clients -> [Hubs -> Seq(S)]]
                                    /\ toAnalyzer \in [Hubs -> Seq(S)]
                                    /\ toEngine \in [Hubs -> Seq(Directs(S))]
         /\ QueuesOf(S, Queues)' <=> /\ toClient' \in [Clients -> [Hubs -> Seq(S)]]
                                     /\ toAnalyzer' \in [Hubs -> Seq(S)]
                                     /\ toEngine' \in [Hubs -> Seq(Directs(S))]
  BY DEF QueuesOf, Queues

(* The first message of a queue, and the queue without it. *)
LEMMA HeadAndTail ==
  ASSUME NEW S, NEW q \in Seq(S), q # <<>>
  PROVE  Head(q) \in S /\ Tail(q) \in Seq(S)
  OBVIOUS

(* The messages that carry no mapping are sound. *)
LEMMA RequestsSound ==
  ASSUME NEW ps, NEW k \in Clients, NEW c \in Channels, NEW id \in Nat, NEW infra \in BOOLEAN
  PROVE  /\ Publication(k, c, id) \in Sound(ps)
         /\ \A type \in {"subscribe", "unsubscribe"} :
               SubscriptionMessage(type, k, c, id, infra) \in Sound(ps)
  BY DEF Publication, SubscriptionMessage, Sound, Messages

(* A change is sound when its mapping is told. *)
LEMMA ChangesSound ==
  ASSUME NEW ps, NEW h \in Hubs, NEW c \in Channels, NEW id \in Nat, NEW n \in Nodes,
         NEW m \in Mappings, Told(m, c, ps)
  PROVE  /\ ChannelChange(h, c, id, m) \in Sound(ps)
         /\ DirectChange(h, c, n, m) \in Sound(ps)
  BY DEF ChannelChange, DirectChange, Sound, Messages

(* What a sound message is about, and from whom. *)
LEMMA MessageFields ==
  ASSUME NEW ps, NEW msg \in Sound(ps)
  PROVE  /\ msg.ch \in Channels
         /\ msg.from \in Nodes
         /\ msg.type \in {"change", "direct"} =>
               msg.mapping \in Mappings /\ Told(msg.mapping, msg.ch, ps)
  BY DEF Sound, Messages, Nodes

-----------------------------------------------------------------------------
(* The steps *)

(* The plans that the invariant is about. *)
LEMMA PlansAre ==
  ASSUME IInv
  PROVE  /\ Len(pushed) \in Nat \ {0}
         /\ \A h \in Hubs : history[h] \in Seq(Truthful(pushed)) /\ history[h] # <<>>
         /\ \A k \in Clients : plan[k] \in Truthful(pushed) /\ plan[k] \in SomePlans
         /\ \A p \in Truthful(pushed) : \A c \in Channels :
               /\ MappingOf(p, c) \in Mappings
               /\ MappingOf(p, c).id \in Nat
               /\ Told(MappingOf(p, c), c, pushed)
  <1>1. \A p \in Truthful(pushed) : p \in SomePlans
    BY DEF Truthful
  <1>2. \A p \in Truthful(pushed) : \A c \in Channels : MappingOf(p, c) \in Mappings
    BY <1>1, MappingType
  <1>3. \A m \in Mappings : m.id \in Nat
    BY DEF Mappings
  <1>4. \A p \in Truthful(pushed) : \A c \in Channels : Told(MappingOf(p, c), c, pushed)
    BY DEF Truthful
  <1>5. Len(pushed) \in Nat \ {0}
    BY DEF IInv, PlansPushed
  <1> QED BY <1>1, <1>2, <1>3, <1>4, <1>5 DEF IInv, AnalyzersHonest, ClientsHonest

(* At first there is one plan, which gives every channel the default hub. *)
LEMMA InvInit == Init => IInv
  <1> SUFFICES ASSUME Init PROVE IInv
    OBVIOUS
  <1>1. pushed = <<FirstPlan>> /\ Len(pushed) = 1 /\ pushed[1] = FirstPlan
    BY DEF Init
  <1>2. FirstPlan \in SomePlans /\ FirstPlan.id = 0 /\ DOMAIN FirstPlan.map = {}
    BY DEF FirstPlan, SomePlans, PlanMaps
  <1>3. \A c \in Channels : MappingOf(FirstPlan, c).id = 0 /\ Proposable(MappingOf(FirstPlan, c))
    BY <1>2, ProposableMappings DEF MappingOf, DefaultMapping
  <1>4. FirstPlan \in Truthful(pushed)
    BY <1>1, <1>2, <1>3 DEF Truthful, Told, SameMapping
  <1>5. PlansPushed
    BY <1>1, <1>2, <1>4 DEF PlansPushed, Numbered, Init
  <1>6. AnalyzersHonest
    BY <1>1, <1>4 DEF AnalyzersHonest, Init
  <1>7. ClientsHonest
    BY <1>4 DEF ClientsHonest, Init
  <1>8. QueuesOf(Sound(pushed), Queues)
    BY QueuesAre DEF Init
  <1> QED BY <1>5, <1>6, <1>7, <1>8 DEF IInv

(* The load balancer makes a plan: all that was told stays so. *)
LEMMA NewPlanStep == ASSUME IInv, NewPlan PROVE IInv'
  <1>1. PICK seen \in SUBSET Channels, cs \in (SUBSET Channels) \ {{}} :
          \E changes \in [cs -> Proposals] :
            /\ lbPlan' = NextPlan(Merged(lbPlan, seen), changes)
            /\ pushed' = Append(pushed, NextPlan(Merged(lbPlan, seen), changes))
    BY DEF NewPlan
  <1>2. PICK changes \in [cs -> Proposals] :
            /\ lbPlan' = NextPlan(Merged(lbPlan, seen), changes)
            /\ pushed' = Append(pushed, NextPlan(Merged(lbPlan, seen), changes))
    BY <1>1
  <1>3. /\ pushed \in Seq(Truthful(pushed)) /\ pushed # <<>> /\ Numbered(pushed)
        /\ lbPlan = pushed[Len(pushed)]
    BY DEF IInv, PlansPushed
  <1> DEFINE q == NextPlan(Merged(lbPlan, seen), changes)
  <1>4. q \in Truthful(Append(pushed, q)) /\ q.id = Len(pushed)
    BY <1>3, NextTruthful
  <1>5. lbPlan' = q /\ pushed' = Append(pushed, q)
    BY <1>2
  <1> HIDE DEF q
  <1>6. pushed \in Seq(SomePlans) /\ q \in SomePlans
    BY <1>3, <1>4 DEF Truthful
  <1>7. Truthful(pushed) \subseteq Truthful(pushed') /\ Sound(pushed) \subseteq Sound(pushed')
    BY <1>5, <1>6, PlansStay, MessagesStay
  <1>8. PlansPushed'
    <2>1. pushed' \in Seq(Truthful(pushed')) /\ Len(pushed') = Len(pushed) + 1
          /\ pushed'[Len(pushed) + 1] = q /\ Len(pushed) \in Nat
      BY <1>3, <1>4, <1>5, <1>7
    <2>2. Numbered(pushed')
      BY <1>3, <1>4, <1>5, <2>1 DEF Numbered
    <2> QED BY <1>5, <2>1, <2>2 DEF PlansPushed
  <1>9. UNCHANGED <<analyzerVars, clientVars, netVars>>
    BY DEF NewPlan
  <1>10. AnalyzersHonest'
    <2>1. \A s : s \in Seq(Truthful(pushed)) => s \in Seq(Truthful(pushed'))
      BY <1>7
    <2>2. 1 .. Len(pushed) \subseteq 1 .. Len(pushed')
      BY <1>3, <1>5
    <2>3. history' = history /\ received' = received /\ applying' = applying
      BY <1>9 DEF analyzerVars
    <2> QED BY <2>1, <2>2, <2>3 DEF IInv, AnalyzersHonest
  <1>11. ClientsHonest'
    BY <1>7, <1>9 DEF IInv, ClientsHonest, clientVars
  <1>12. QueuesOf(Sound(pushed'), Queues)
    BY <1>7, QueuesStay DEF IInv
  <1>13. Queues' = Queues
    BY <1>9 DEF netVars, queueVars, Queues
  <1> QED BY <1>8, <1>10, <1>11, <1>12, <1>13 DEF IInv

(* An analyzer takes up a plan that is truthful. *)
LEMMA BeginPlanKeeps ==
  ASSUME AnalyzersHonest, NEW h \in Hubs, NEW p \in Truthful(pushed), BeginPlan(h, p),
         received' \in [Hubs -> 1 .. Len(pushed)], pushed' = pushed
  PROVE  AnalyzersHonest'
  <1>1. /\ history' = [history EXCEPT ![h] = Append(@, p)]
        /\ applying' = [applying EXCEPT ![h] = TRUE]
    BY DEF BeginPlan
  <1>2. \A g \in Hubs : history[g] \in Seq(Truthful(pushed)) /\ history[g] # <<>>
    BY DEF AnalyzersHonest
  <1>3. Append(history[h], p) \in Seq(Truthful(pushed)) /\ Len(Append(history[h], p)) > 1
        /\ Append(history[h], p) # <<>>
    BY <1>2
  <1>4. history' \in [Hubs -> Seq(Truthful(pushed))] /\ history'[h] = Append(history[h], p)
        /\ \A g \in Hubs : g # h => history'[g] = history[g] /\ (applying'[g] <=> applying[g])
    BY <1>1, <1>3 DEF AnalyzersHonest
  <1>5. DOMAIN applying' = Hubs
    BY <1>1 DEF AnalyzersHonest
  <1> HIDE DEF Truthful
  <1> QED BY <1>2, <1>3, <1>4, <1>5 DEF AnalyzersHonest

(* A plan of the load balancer arrives at an analyzer. *)
LEMMA ReceivePlanStep == ASSUME IInv, NEW h \in Hubs, ReceivePlan(h) PROVE IInv'
  <1>1. /\ received[h] < Len(pushed) /\ received' = [received EXCEPT ![h] = @ + 1]
        /\ BeginPlan(h, pushed[received[h] + 1])
        /\ UNCHANGED <<lbVars, lastSent, clientVars, netVars>>
    BY DEF ReceivePlan
  <1>2. pushed' = pushed /\ lbPlan' = lbPlan
    BY <1>1 DEF lbVars
  <1>3. AnalyzersHonest'
    <2>1. received' \in [Hubs -> 1 .. Len(pushed)] /\ received[h] + 1 \in 1 .. Len(pushed)
      BY <1>1, PlansAre DEF IInv, AnalyzersHonest
    <2>2. pushed[received[h] + 1] \in Truthful(pushed)
      BY <2>1 DEF IInv, PlansPushed
    <2> QED BY <1>1, <1>2, <2>1, <2>2, BeginPlanKeeps DEF IInv
  <1>4. PlansPushed' /\ ClientsHonest'
    BY <1>1, <1>2 DEF IInv, PlansPushed, ClientsHonest, clientVars
  <1>5. Queues' = Queues
    BY <1>1 DEF netVars, queueVars, Queues
  <1> QED BY <1>2, <1>3, <1>4, <1>5 DEF IInv

(* The analyzer is done with it. *)
LEMMA EndPlanStep == ASSUME IInv, NEW h \in Hubs, EndPlan(h) PROVE IInv'
  <1>1. /\ applying' = [applying EXCEPT ![h] = FALSE]
        /\ UNCHANGED <<lbVars, received, history, lastSent, clientVars, netVars>>
    BY DEF EndPlan
  <1>2. pushed' = pushed /\ lbPlan' = lbPlan
    BY <1>1 DEF lbVars
  <1>3. AnalyzersHonest'
    BY <1>1, <1>2 DEF IInv, AnalyzersHonest
  <1>4. PlansPushed' /\ ClientsHonest'
    BY <1>1, <1>2 DEF IInv, PlansPushed, ClientsHonest, clientVars
  <1>5. Queues' = Queues
    BY <1>1 DEF netVars, queueVars, Queues
  <1> QED BY <1>2, <1>3, <1>4, <1>5 DEF IInv

(* The engine of an analyzer is told of a mapping of a channel. *)
LEMMA EngineChangeStep ==
  ASSUME IInv, NEW h \in Hubs, EngineChange(h)
  PROVE  IInv'
  <1> DEFINE msg == Head(toEngine[h])
             p == ChangedMapping(Last(history[h]), msg.ch, msg.mapping)
  <1>1. /\ toEngine[h] # <<>> /\ BeginPlan(h, p)
        /\ toEngine' = [toEngine EXCEPT ![h] = Tail(@)]
        /\ UNCHANGED <<lbVars, received, lastSent, clientVars, subscribed, toAnalyzer, toClient>>
    BY DEF EngineChange
  <1>2. pushed' = pushed /\ lbPlan' = lbPlan
    BY <1>1 DEF lbVars
  <1>3. toEngine \in [Hubs -> Seq(Directs(Sound(pushed)))]
    BY QueuesAre DEF IInv
  <1>4. msg \in Directs(Sound(pushed)) /\ Tail(toEngine[h]) \in Seq(Directs(Sound(pushed)))
    BY <1>1, <1>3, HeadAndTail
  <1>5. msg.ch \in Channels /\ msg.mapping \in Mappings /\ Told(msg.mapping, msg.ch, pushed)
    BY <1>4, MessageFields DEF Directs
  <1> HIDE DEF msg
  <1>6. Last(history[h]) \in Truthful(pushed) /\ Len(pushed) \in Nat
    BY PlansAre DEF Last
  <1>7. p \in Truthful(pushed)
    BY <1>5, <1>6, ChangedTruthful
  <1> HIDE DEF p
  <1>8. AnalyzersHonest'
    BY <1>1, <1>2, <1>7, BeginPlanKeeps DEF IInv, AnalyzersHonest
  <1>9. PlansPushed' /\ ClientsHonest'
    BY <1>1, <1>2 DEF IInv, PlansPushed, ClientsHonest, clientVars
  <1>10. toEngine' \in [Hubs -> Seq(Directs(Sound(pushed)))]
    BY <1>1, <1>3, <1>4
  <1>11. QueuesOf(Sound(pushed), Queues)'
    <2>1. toClient \in [Clients -> [Hubs -> Seq(Sound(pushed))]]
          /\ toAnalyzer \in [Hubs -> Seq(Sound(pushed))]
      BY QueuesAre DEF IInv
    <2> QED BY <1>1, <1>2, <1>10, <2>1 DEF QueuesOf, Queues
  <1> QED BY <1>8, <1>9, <1>11 DEF IInv

(* The queues that a step sets. *)
LEMMA QueuesSet ==
  ASSUME NEW S, NEW qs, QueuesOf(S, qs), SetQueues(qs)
  PROVE  QueuesOf(S, Queues')
  BY DEF QueuesOf, SetQueues, Queues

(* What a reader of an analyzer's plan finds is truthful. *)
LEMMA CurrentTruthful ==
  ASSUME IInv, NEW h \in Hubs
  PROVE  CurrentPlans(h) \subseteq Truthful(pushed)
  <1>1. /\ history[h] \in Seq(Truthful(pushed)) /\ history[h] # <<>>
        /\ applying[h] => Len(history[h]) > 1
    BY DEF IInv, AnalyzersHonest
  <1> HIDE DEF Truthful
  <1>2. Last(history[h]) \in Truthful(pushed)
    BY <1>1 DEF Last
  <1>3. applying[h] => history[h][Len(history[h]) - 1] \in Truthful(pushed)
    BY <1>1
  <1> QED BY <1>2, <1>3 DEF CurrentPlans

(* An analyzer reads a message, and answers with a mapping of a current plan. *)
LEMMA Analyzed ==
  ASSUME IInv, NEW h \in Hubs, Analyze(h)
  PROVE  \E rest, previous, change, direct :
           /\ QueuesOf(Sound(pushed), rest) /\ rest.clients = toClient
           /\ change \in Sound(pushed) /\ change.type = "change"
           /\ direct \in Sound(pushed) /\ direct.type = "direct"
           /\ \/ SetQueues(rest)
              \/ SetQueues(Relayed(rest, {Default}, direct))
              \/ SetQueues(Relayed(Relayed(rest, previous, change), {Default}, direct))
  <1> DEFINE S == Sound(pushed)
             msg == Head(toAnalyzer[h])
             c == msg.ch
             rest == [Queues EXCEPT !.analyzers[h] = Tail(@)]
             previous == MappingOf(history[h][Len(history[h]) - 1], c).shards
             change(p, q) == ChannelChange(h, c, MappingOf(q, c).id, MappingOf(p, c))
             direct(p) == DirectChange(h, c, msg.from, MappingOf(p, c))
  <1>1. /\ toAnalyzer[h] # <<>>
        /\ \E p, q \in CurrentPlans(h) :
             \/ SetQueues(rest)
             \/ SetQueues(Relayed(rest, {Default}, direct(p)))
             \/ SetQueues(Relayed(Relayed(rest, previous, change(p, q)), {Default}, direct(p)))
    BY DEF Analyze
  <1>2. QueuesOf(S, Queues) /\ toAnalyzer \in [Hubs -> Seq(S)]
    BY QueuesAre DEF IInv
  <1>3. msg \in S /\ Tail(toAnalyzer[h]) \in Seq(S)
    BY <1>1, <1>2, HeadAndTail
  <1>4. c \in Channels /\ msg.from \in Nodes
    BY <1>3, MessageFields
  <1>5. QueuesOf(S, rest) /\ rest.clients = toClient
    <2>1. /\ rest.clients = toClient /\ rest.engines = toEngine
          /\ rest.analyzers = [toAnalyzer EXCEPT ![h] = Tail(@)]
      BY DEF Queues
    <2>2. rest.analyzers \in [Hubs -> Seq(S)]
      BY <1>2, <1>3, <2>1
    <2>3. toClient \in [Clients -> [Hubs -> Seq(S)]] /\ toEngine \in [Hubs -> Seq(Directs(S))]
      BY <1>2, QueuesAre
    <2> HIDE DEF rest, S
    <2> QED BY <2>1, <2>2, <2>3 DEF QueuesOf
  <1> HIDE DEF msg, rest, previous
  <1>6. ASSUME NEW p \in CurrentPlans(h), NEW q \in CurrentPlans(h)
        PROVE  /\ change(p, q) \in S /\ change(p, q).type = "change"
               /\ direct(p) \in S /\ direct(p).type = "direct"
    <2>1. p \in Truthful(pushed) /\ q \in Truthful(pushed)
      BY CurrentTruthful
    <2>2. /\ MappingOf(p, c) \in Mappings /\ Told(MappingOf(p, c), c, pushed)
          /\ MappingOf(q, c).id \in Nat
      BY <1>4, <2>1, PlansAre
    <2>3. change(p, q) \in S /\ direct(p) \in S
      BY <1>4, <2>2, ChangesSound
    <2> QED BY <2>3 DEF ChannelChange, DirectChange
  <1> HIDE DEF S, change, direct
  <1>7. PICK p \in CurrentPlans(h), q \in CurrentPlans(h) :
             \/ SetQueues(rest)
             \/ SetQueues(Relayed(rest, {Default}, direct(p)))
             \/ SetQueues(Relayed(Relayed(rest, previous, change(p, q)), {Default}, direct(p)))
    BY <1>1
  <1>8. /\ change(p, q) \in S /\ change(p, q).type = "change"
        /\ direct(p) \in S /\ direct(p).type = "direct"
    BY <1>6
  <1> QED BY <1>5, <1>7, <1>8, Zenon DEF S

(* What it answers with is told. *)
LEMMA AnalyzeStep == ASSUME IInv, NEW h \in Hubs, Analyze(h) PROVE IInv'
  <1>1. UNCHANGED <<lbVars, received, history, applying, clientVars, subscribed>>
    BY DEF Analyze
  <1>2. PICK rest, previous, change, direct :
           /\ QueuesOf(Sound(pushed), rest)
           /\ change \in Sound(pushed) /\ direct \in Sound(pushed)
           /\ \/ SetQueues(rest)
              \/ SetQueues(Relayed(rest, {Default}, direct))
              \/ SetQueues(Relayed(Relayed(rest, previous, change), {Default}, direct))
    BY Analyzed
  <1>3. /\ QueuesOf(Sound(pushed), Relayed(rest, {Default}, direct))
        /\ QueuesOf(Sound(pushed), Relayed(Relayed(rest, previous, change), {Default}, direct))
    BY <1>2, RelayedQueues
  <1>4. QueuesOf(Sound(pushed), Queues')
    BY <1>2, <1>3, QueuesSet
  <1>5. pushed' = pushed /\ lbPlan' = lbPlan
    BY <1>1 DEF lbVars
  <1>6. PlansPushed' /\ AnalyzersHonest' /\ ClientsHonest'
    BY <1>1, <1>5 DEF IInv, PlansPushed, AnalyzersHonest, ClientsHonest, clientVars
  <1> QED BY <1>4, <1>5, <1>6 DEF IInv

(* What the steps of a client have in common. *)
LEMMA ClientSteps ==
  ASSUME IInv, UNCHANGED <<lbVars, analyzerVars>>, ClientsHonest', QueuesOf(Sound(pushed), Queues')
  PROVE  IInv'
  <1>1. pushed' = pushed /\ lbPlan' = lbPlan
    BY DEF lbVars
  <1>2. PlansPushed' /\ AnalyzersHonest'
    BY <1>1 DEF IInv, PlansPushed, AnalyzersHonest, analyzerVars
  <1> QED BY <1>1, <1>2 DEF IInv

(* A client starts a publication. *)
LEMMA PublishStep ==
  ASSUME IInv, NEW k \in Clients, NEW c \in Channels, Publish(k, c)
  PROVE  IInv'
  <1> DEFINE hs == PublicationShards(MappingOf(plan[k], c), picks[k])
  <1>1. /\ sending' = [sending EXCEPT ![k] = [ch |-> c, hubs |-> hs]]
        /\ UNCHANGED <<lbVars, analyzerVars, plan, own, picks, requests, raced, netVars>>
    BY DEF Publish
  <1>2. hs \subseteq Hubs
    <2> DEFINE m == MappingOf(plan[k], c)
    <2>1. m \in Mappings
      BY PlansAre
    <2>2. m.shards \subseteq Hubs /\ m.shards # {}
      BY <2>1 DEF Mappings
    <2> HIDE DEF m
    <2>3. Picked(m, picks[k]) \in m.shards
      BY <2>2 DEF Picked
    <2>4. PublicationShards(m, picks[k]) \subseteq Hubs
      BY <2>2, <2>3 DEF PublicationShards
    <2> QED BY <2>4 DEF m
  <1> HIDE DEF hs
  <1>3. ClientsHonest'
    BY <1>1, <1>2 DEF IInv, ClientsHonest, lbVars
  <1>4. Queues' = Queues
    BY <1>1 DEF netVars, queueVars, Queues
  <1> QED BY <1>1, <1>3, <1>4, ClientSteps DEF IInv

(* A client sends it to one hub. *)
LEMMA SendToStep ==
  ASSUME IInv, NEW k \in Clients, NEW h \in Hubs, SendTo(k, h)
  PROVE  IInv'
  <1> DEFINE c == sending[k].ch
             msg == Publication(k, c, MappingOf(plan[k], c).id)
             rest == sending[k].hubs \ {h}
  <1>1. /\ sending[k] # NoMessage
        /\ SetQueues(Relayed(Queues, {h}, msg))
        /\ sending' = [sending EXCEPT ![k] = IF rest = {} THEN NoMessage ELSE [@ EXCEPT !.hubs = rest]]
        /\ UNCHANGED <<lbVars, analyzerVars, plan, own, picks, requests, raced, subscribed>>
    BY DEF SendTo
  <1>2. sending[k] \in [ch : Channels, hubs : SUBSET Hubs]
    BY <1>1 DEF IInv, ClientsHonest
  <1>3. c \in Channels /\ [sending[k] EXCEPT !.hubs = rest] \in [ch : Channels, hubs : SUBSET Hubs]
    BY <1>2
  <1>4. msg \in Sound(pushed)
    BY <1>3, PlansAre, RequestsSound
  <1> HIDE DEF c, msg, rest
  <1>5. QueuesOf(Sound(pushed), Queues')
    BY <1>1, <1>4, RelayedQueues, QueuesSet DEF IInv
  <1>6. ClientsHonest'
    BY <1>1, <1>3 DEF IInv, ClientsHonest, lbVars
  <1> QED BY <1>1, <1>5, <1>6, ClientSteps

(* An application asks for a channel, or for it no more. *)
LEMMA RequestStep ==
  ASSUME IInv, NEW k \in Clients, NEW c \in Channels, NEW type \in {"subscribe", "unsubscribe"},
         Request(k, c, type)
  PROVE  IInv'
  <1> DEFINE m == MappingOf(plan[k], c)
             msg == SubscriptionMessage(type, k, c, m.id, FALSE)
             hs == SubscriptionShards(m, picks[k])
  <1>1. /\ SetQueues(Relayed(Queues, hs, msg))
        /\ UNCHANGED <<lbVars, analyzerVars, plan, own, sending, picks, raced, subscribed>>
    BY DEF Request
  <1>2. m.id \in Nat
    BY PlansAre
  <1>3. msg \in Sound(pushed)
    BY <1>2, RequestsSound
  <1> HIDE DEF m, msg, hs
  <1>4. QueuesOf(Sound(pushed), Queues')
    BY <1>1, <1>3, RelayedQueues, QueuesSet DEF IInv
  <1>5. ClientsHonest'
    BY <1>1 DEF IInv, ClientsHonest, lbVars
  <1> QED BY <1>1, <1>4, <1>5, ClientSteps

(* The queues without the message a client receives. *)
LEMMA Received ==
  ASSUME NEW S, QueuesOf(S, Queues), NEW k \in Clients, NEW h \in Hubs, toClient[k][h] # <<>>
  PROVE  /\ Head(toClient[k][h]) \in S
         /\ QueuesOf(S, [Queues EXCEPT !.clients[k][h] = Tail(@)])
         /\ [toClient EXCEPT ![k][h] = Tail(@)] \in [Clients -> [Hubs -> Seq(S)]]
  <1> DEFINE rest == [Queues EXCEPT !.clients[k][h] = Tail(@)]
             t == [toClient EXCEPT ![k][h] = Tail(@)]
  <1>1. /\ toClient \in [Clients -> [Hubs -> Seq(S)]] /\ toAnalyzer \in [Hubs -> Seq(S)]
        /\ toEngine \in [Hubs -> Seq(Directs(S))]
    BY QueuesAre
  <1>2. Head(toClient[k][h]) \in S /\ Tail(toClient[k][h]) \in Seq(S)
    BY <1>1, HeadAndTail
  <1>3. t \in [Clients -> [Hubs -> Seq(S)]]
    BY <1>1, <1>2
  <1>4. rest.clients = t /\ rest.analyzers = toAnalyzer /\ rest.engines = toEngine
    BY DEF Queues
  <1> HIDE DEF rest, t
  <1>5. QueuesOf(S, rest)
    BY <1>1, <1>3, <1>4 DEF QueuesOf
  <1> QED BY <1>2, <1>3, <1>5 DEF rest, t

(* A client is told of a mapping of a channel. *)
LEMMA ReceiveChangeStep ==
  ASSUME IInv, NEW k \in Clients, NEW h \in Hubs, ReceiveChange(k, h)
  PROVE  IInv'
  <1> DEFINE S == Sound(pushed)
             msg == Head(toClient[k][h])
             c == msg.ch
             q == ChangedMapping(plan[k], c, msg.mapping)
             rest == [Queues EXCEPT !.clients[k][h] = Tail(@)]
  <1>1. /\ toClient[k][h] # <<>> /\ msg.type \in {"change", "direct"}
        /\ plan' = [plan EXCEPT ![k] = q]
        /\ SetQueues(IF c \in own[k] THEN Resubscribed(rest, k, c, q) ELSE rest)
        /\ UNCHANGED <<lbVars, analyzerVars, own, sending, picks, requests, subscribed>>
    BY DEF ReceiveChange
  <1>2. msg \in S /\ QueuesOf(S, rest)
    BY <1>1, Received DEF IInv
  <1>3. c \in Channels /\ msg.mapping \in Mappings /\ Told(msg.mapping, c, pushed)
    BY <1>1, <1>2, MessageFields
  <1> HIDE DEF S, msg, rest
  <1>4. Len(pushed) \in Nat /\ plan[k] \in Truthful(pushed)
    BY PlansAre
  <1>5. q \in Truthful(pushed)
    BY <1>3, <1>4, ChangedTruthful
  <1> HIDE DEF c, q
  <1>6. QueuesOf(S, Resubscribed(rest, k, c, q))
    <2> DEFINE sub == SubscriptionMessage("subscribe", k, c, MappingOf(q, c).id, TRUE)
               unsub == SubscriptionMessage("unsubscribe", k, c, MappingOf(plan[k], c).id, TRUE)
    <2>1. MappingOf(q, c).id \in Nat /\ MappingOf(plan[k], c).id \in Nat
      BY <1>3, <1>4, <1>5, PlansAre
    <2>2. sub \in S /\ unsub \in S
      BY <1>3, <2>1, RequestsSound DEF S
    <2> HIDE DEF sub, unsub
    <2>3. \A hs, gs : QueuesOf(S, Relayed(Relayed(rest, hs, sub), gs, unsub))
      BY <1>2, <2>2, RelayedQueues
    <2> QED BY <2>3 DEF Resubscribed, sub, unsub
  <1>7. QueuesOf(S, Queues')
    <2>1. QueuesOf(S, IF c \in own[k] THEN Resubscribed(rest, k, c, q) ELSE rest)
      BY <1>2, <1>6
    <2> QED BY <1>1, <2>1, QueuesSet
  <1>8. ClientsHonest'
    BY <1>1, <1>5 DEF IInv, ClientsHonest, lbVars
  <1> QED BY <1>1, <1>7, <1>8, ClientSteps DEF S

(* A client's own subscription or unsubscription comes back. *)
LEMMA OwnRequestStep ==
  ASSUME IInv, NEW k \in Clients, NEW h \in Hubs, ReceiveSubscribe(k, h) \/ ReceiveUnsubscribe(k, h)
  PROVE  IInv'
  <1>1. /\ toClient[k][h] # <<>>
        /\ toClient' = [toClient EXCEPT ![k][h] = Tail(@)]
        /\ UNCHANGED <<lbVars, analyzerVars, plan, sending, picks, requests, raced,
                       toAnalyzer, toEngine>>
    BY DEF ReceiveSubscribe, ReceiveUnsubscribe
  <1>2. toClient' \in [Clients -> [Hubs -> Seq(Sound(pushed))]]
    BY <1>1, Received DEF IInv
  <1>3. /\ toAnalyzer \in [Hubs -> Seq(Sound(pushed))]
        /\ toEngine \in [Hubs -> Seq(Directs(Sound(pushed)))]
    BY QueuesAre DEF IInv
  <1>4. QueuesOf(Sound(pushed), Queues')
    BY <1>1, <1>2, <1>3 DEF QueuesOf, Queues
  <1>5. ClientsHonest'
    BY <1>1 DEF IInv, ClientsHonest, lbVars
  <1> QED BY <1>1, <1>4, <1>5, ClientSteps

(* Every step keeps the invariant. *)
LEMMA InvStep == ASSUME IInv, [Next]_pvars PROVE IInv'
  <1>1. CASE NewPlan
    BY <1>1, NewPlanStep
  <1>2. ASSUME NEW h \in Hubs, AnalyzerNext(h)  PROVE IInv'
    BY <1>2, ReceivePlanStep, EndPlanStep, EngineChangeStep, AnalyzeStep DEF AnalyzerNext
  <1>3. ASSUME NEW k \in Clients, ClientNext(k)  PROVE IInv'
    BY <1>3, PublishStep, RequestStep, SendToStep, ReceiveChangeStep, OwnRequestStep DEF ClientNext
  <1>4. CASE UNCHANGED pvars
    <2>1. UNCHANGED <<lbVars, analyzerVars, clientVars, netVars>>
      BY <1>4 DEF pvars
    <2>2. ClientsHonest' /\ Queues' = Queues
      BY <2>1 DEF IInv, ClientsHonest, clientVars, lbVars, netVars, queueVars, Queues
    <2> QED BY <2>1, <2>2, ClientSteps DEF IInv
  <1> QED BY <1>1, <1>2, <1>3, <1>4 DEF Next

-----------------------------------------------------------------------------
(* With one channel, the plan id a client has for it always tells the
   mapping it uses, as the analyzers that look it up take for granted: through
   any number of plans, of hubs and of clients, whatever changes arrive late,
   twice or out of order on the hubs, and whatever plan an analyzer reads
   while it applies the next. *)
THEOREM IdsAlwaysTellMappings == OneChannel => (Spec => []PlanIdsTellMappings)
  <1>1. IInv /\ OneChannel => PlanIdsTellMappings
    <2> SUFFICES ASSUME IInv, OneChannel, NEW k \in Clients, NEW c \in Channels
                 PROVE  SameMapping(MappingOf(plan[k], c),
                                    MappingOf(pushed[MappingOf(plan[k], c).id + 1], c))
      BY DEF PlanIdsTellMappings
    <2> QED BY PlansAre DEF Told
  <1> SUFFICES ASSUME OneChannel PROVE Spec => []PlanIdsTellMappings
    OBVIOUS
  <1>2. IInv /\ [Next]_pvars => IInv'
    BY InvStep
  <1> QED BY <1>1, <1>2, InvInit, PTL DEF Spec
-----------------------------------------------------------------------------
(* The types of the other variables *)

Bounded ==
  /\ Len(pushed) <= MaxPlans
  /\ \A h \in Hubs : received[h] <= Len(history[h])
  /\ applying \in [Hubs -> BOOLEAN]
  /\ lastSent \in [Hubs -> [Channels -> 0 .. None]]

ClientsTyped ==
  /\ own \in [Clients -> SUBSET Channels]
  /\ sending \in [Clients -> {NoMessage} \cup [ch : Channels, hubs : (SUBSET Hubs) \ {{}}]]
  /\ subscribed \in [Hubs -> SUBSET (Clients \X Channels)]
  /\ picks \in [Clients -> Draws]
  /\ requests \in [Clients -> 0 .. MaxRequests]
  /\ raced \subseteq Clients

Typed == Bounded /\ ClientsTyped

(* At first nothing is on its way, and every channel is on the default hub. *)
LEMMA TypedInit == Init => Typed
  <1> SUFFICES ASSUME Init PROVE Typed
    OBVIOUS
  <1>1. MaxPlans \in Nat \ {0} /\ MaxRequests \in Nat
    BY SwitchAssumption
  <1>2. Bounded
    BY <1>1 DEF Init, Bounded, None
  <1>3. subscribed \in [Hubs -> SUBSET (Clients \X Channels)]
    BY DEF Init
  <1>4. ClientsTyped
    BY <1>1, <1>3 DEF Init, ClientsTyped
  <1> QED BY <1>2, <1>4 DEF Typed

(* The hubs of a mapping that messages are published on, and those that
   channels are subscribed on: there is always one. *)
LEMMA ShardsAre ==
  ASSUME NEW m \in Mappings, NEW draw
  PROVE  /\ PublicationShards(m, draw) \in (SUBSET Hubs) \ {{}}
         /\ SubscriptionShards(m, draw) \in (SUBSET Hubs) \ {{}}
  <1>1. m.shards \subseteq Hubs /\ m.shards # {}
    BY DEF Mappings
  <1>2. Picked(m, draw) \in m.shards
    BY <1>1 DEF Picked
  <1>3. PublicationShards(m, draw) = {Picked(m, draw)} \/ PublicationShards(m, draw) = m.shards
    BY DEF PublicationShards
  <1>4. SubscriptionShards(m, draw) = {Picked(m, draw)} \/ SubscriptionShards(m, draw) = m.shards
    BY DEF SubscriptionShards
  <1> HIDE DEF PublicationShards, SubscriptionShards
  <1> QED BY <1>1, <1>2, <1>3, <1>4

(* Plans are made while there are fewer than MaxPlans, and their analyzers
   count them as they add them to their history. *)
LEMMA AnalyzersBounded ==
  ASSUME IInv, Bounded, NewPlan \/ \E h \in Hubs : AnalyzerNext(h)
  PROVE  Bounded'
  <1>1. /\ MaxPlans \in Nat \ {0} /\ Len(pushed) \in Nat \ {0}
        /\ received \in [Hubs -> Nat] /\ \A g \in Hubs : Len(history[g]) \in Nat
    <2>1. received \in [Hubs -> Nat]
      BY DEF IInv, AnalyzersHonest
    <2> QED BY <2>1, PlansAre, SwitchAssumption
  <1>2. CASE NewPlan
    <2>1. Len(pushed) < MaxPlans /\ UNCHANGED analyzerVars /\ \E q : pushed' = Append(pushed, q)
      BY <1>2 DEF NewPlan
    <2>2. Len(pushed') = Len(pushed) + 1
      BY <2>1, <1>1 DEF IInv, PlansPushed
    <2> QED BY <2>1, <2>2, <1>1 DEF Bounded, analyzerVars
  <1>3. ASSUME NEW h \in Hubs, NEW p, BeginPlan(h, p), pushed' = pushed, lastSent' = lastSent,
               \/ received' = received
               \/ received' = [received EXCEPT ![h] = @ + 1]
        PROVE  Bounded'
    <2>1. /\ history' = [history EXCEPT ![h] = Append(@, p)]
          /\ applying' = [applying EXCEPT ![h] = TRUE]
      BY <1>3 DEF BeginPlan
    <2>2. Len(Append(history[h], p)) = Len(history[h]) + 1
      BY PlansAre
    <2>3. /\ Len(history'[h]) = Len(history[h]) + 1
          /\ \A g \in Hubs : g # h => history'[g] = history[g]
      BY <2>1, <2>2 DEF IInv, AnalyzersHonest
    <2>4. /\ received'[h] <= received[h] + 1
          /\ \A g \in Hubs : g # h => received'[g] = received[g]
      BY <1>1, <1>3
    <2>5. \A g \in Hubs : received[g] <= Len(history[g])
      BY DEF Bounded
    <2>6. \A g \in Hubs : received'[g] <= Len(history'[g])
      <3> TAKE g \in Hubs
      <3>1. received'[g] \in Nat
        BY <1>1, <1>3
      <3> QED BY <3>1, <2>3, <2>4, <2>5, <1>1
    <2> QED BY <1>3, <2>1, <2>6 DEF Bounded
  <1>4. ASSUME NEW h \in Hubs, ReceivePlan(h)  PROVE Bounded'
    BY <1>3, <1>4 DEF ReceivePlan, lbVars
  <1>5. ASSUME NEW h \in Hubs, EngineChange(h)  PROVE Bounded'
    BY <1>3, <1>5 DEF EngineChange, lbVars
  <1>6. ASSUME NEW h \in Hubs, EndPlan(h)  PROVE Bounded'
    BY <1>6 DEF EndPlan, lbVars, Bounded
  <1>7. ASSUME NEW h \in Hubs, Analyze(h)  PROVE Bounded'
    <2> DEFINE c == Head(toAnalyzer[h]).ch
    <2>1. toAnalyzer[h] # <<>> /\ UNCHANGED <<lbVars, received, history, applying>>
      BY <1>7 DEF Analyze
    <2>2. \/ lastSent' = lastSent
          \/ \E p \in CurrentPlans(h) : lastSent' = [lastSent EXCEPT ![h][c] = MappingOf(p, c).id]
      BY <1>7 DEF Analyze
    <2>3. c \in Channels
      BY <2>1, QueuesAre, HeadAndTail, MessageFields DEF IInv
    <2>4. ASSUME NEW p \in CurrentPlans(h)  PROVE MappingOf(p, c).id \in 0 .. None
      <3>1. MappingOf(p, c).id \in 0 .. Len(pushed) - 1
        BY <2>3, CurrentTruthful, PlansAre DEF Told
      <3> QED BY <3>1, <1>1 DEF Bounded, None
    <2> HIDE DEF c
    <2>5. lastSent' \in [Hubs -> [Channels -> 0 .. None]]
      <3>1. ASSUME NEW id \in 0 .. None, lastSent' = [lastSent EXCEPT ![h][c] = id]
            PROVE  lastSent' \in [Hubs -> [Channels -> 0 .. None]]
        BY <2>3, <3>1 DEF Bounded
      <3>2. CASE lastSent' = lastSent
        BY <3>2 DEF Bounded
      <3> QED BY <2>2, <2>4, <3>1, <3>2
    <2> QED BY <2>1, <2>5 DEF Bounded, lbVars
  <1> QED BY <1>2, <1>4, <1>5, <1>6, <1>7 DEF AnalyzerNext

(* The steps of a client set its own variables within their types. *)
LEMMA ClientsStayTyped ==
  ASSUME IInv, ClientsTyped, NEW k \in Clients, ClientNext(k)
  PROVE  ClientsTyped'
  <1>1. MaxRequests \in Nat
    BY SwitchAssumption
  <1>2. ASSUME NEW c \in Channels, Publish(k, c)  PROVE ClientsTyped'
    <2>1. MappingOf(plan[k], c) \in Mappings
      BY PlansAre
    <2>2. PublicationShards(MappingOf(plan[k], c), picks[k]) \in (SUBSET Hubs) \ {{}}
      BY <2>1, ShardsAre
    <2>3. [ch |-> c, hubs |-> PublicationShards(MappingOf(plan[k], c), picks[k])]
             \in [ch : Channels, hubs : (SUBSET Hubs) \ {{}}]
      BY <2>2
    <2> QED BY <1>2, <2>3 DEF Publish, ClientsTyped, netVars
  <1>3. ASSUME NEW c \in Channels, NEW type \in {"subscribe", "unsubscribe"}, Request(k, c, type)
        PROVE  ClientsTyped'
    <2>1. /\ requests[k] > 0 /\ requests' = [requests EXCEPT ![k] = @ - 1]
          /\ UNCHANGED <<own, sending, picks, raced, subscribed>>
      BY <1>3 DEF Request
    <2>2. requests[k] - 1 \in 0 .. MaxRequests
      BY <2>1, <1>1 DEF ClientsTyped
    <2> QED BY <2>1, <2>2 DEF ClientsTyped
  <1>4. ASSUME NEW h \in Hubs, SendTo(k, h)  PROVE ClientsTyped'
    <2> DEFINE rest == sending[k].hubs \ {h}
    <2>1. /\ sending[k] # NoMessage
          /\ sending' = [sending EXCEPT ![k] = IF rest = {} THEN NoMessage ELSE [@ EXCEPT !.hubs = rest]]
          /\ UNCHANGED <<own, picks, requests, raced, subscribed>>
      BY <1>4 DEF SendTo
    <2>2. sending[k] \in [ch : Channels, hubs : (SUBSET Hubs) \ {{}}]
      BY <2>1 DEF ClientsTyped
    <2>3. rest # {} => [sending[k] EXCEPT !.hubs = rest] \in [ch : Channels, hubs : (SUBSET Hubs) \ {{}}]
      BY <2>2
    <2> HIDE DEF rest
    <2> QED BY <2>1, <2>3 DEF ClientsTyped
  <1>5. ASSUME NEW h \in Hubs, ReceiveChange(k, h)  PROVE ClientsTyped'
    BY <1>5 DEF ReceiveChange, ClientsTyped
  <1>6. ASSUME NEW h \in Hubs, ReceiveSubscribe(k, h) \/ ReceiveUnsubscribe(k, h)
        PROVE  ClientsTyped'
    <2> DEFINE c == Head(toClient[k][h]).ch
    <2>1. /\ toClient[k][h] # <<>> /\ UNCHANGED <<sending, picks, requests, raced>>
          /\ \/ subscribed' = [subscribed EXCEPT ![h] = @ \cup {Subscription(k, c)}]
             \/ subscribed' = [subscribed EXCEPT ![h] = @ \ {Subscription(k, c)}]
          /\ \/ own' = own
             \/ own' = [own EXCEPT ![k] = @ \cup {c}]
             \/ own' = [own EXCEPT ![k] = @ \ {c}]
      BY <1>6 DEF ReceiveSubscribe, ReceiveUnsubscribe
    <2>2. c \in Channels
      BY <2>1, Received, MessageFields DEF IInv
    <2> HIDE DEF c
    <2>3. subscribed' \in [Hubs -> SUBSET (Clients \X Channels)]
      <3>1. Subscription(k, c) \in Clients \X Channels
        BY <2>2 DEF Subscription
      <3>2. subscribed \in [Hubs -> SUBSET (Clients \X Channels)]
        BY DEF ClientsTyped
      <3>3. subscribed[h] \cup {Subscription(k, c)} \in SUBSET (Clients \X Channels)
        BY <3>1, <3>2
      <3>4. subscribed[h] \ {Subscription(k, c)} \in SUBSET (Clients \X Channels)
        BY <3>2
      <3> HIDE DEF Subscription
      <3> QED BY <2>1, <3>2, <3>3, <3>4
    <2>4. own' \in [Clients -> SUBSET Channels]
      <3>1. own \in [Clients -> SUBSET Channels]
        BY DEF ClientsTyped
      <3>2. ASSUME NEW s \in SUBSET Channels, own' = [own EXCEPT ![k] = s]
            PROVE  own' \in [Clients -> SUBSET Channels]
        BY <3>1, <3>2
      <3>3. own[k] \cup {c} \in SUBSET Channels /\ own[k] \ {c} \in SUBSET Channels
        BY <2>2, <3>1
      <3> QED BY <2>1, <3>1, <3>2, <3>3
    <2> QED BY <2>1, <2>3, <2>4 DEF ClientsTyped
  <1> QED BY <1>2, <1>3, <1>4, <1>5, <1>6 DEF ClientNext

(* Every step keeps the types. *)
LEMMA TypedStep == ASSUME IInv, Typed, [Next]_pvars PROVE Typed'
  <1>1. CASE NewPlan \/ \E h \in Hubs : AnalyzerNext(h)
    <2>1. UNCHANGED <<clientVars, subscribed>>
      BY <1>1 DEF NewPlan, AnalyzerNext, ReceivePlan, EndPlan, EngineChange, Analyze, netVars
    <2> QED BY <1>1, <2>1, AnalyzersBounded DEF Typed, ClientsTyped, clientVars
  <1>2. ASSUME NEW k \in Clients, ClientNext(k)  PROVE Typed'
    <2>1. UNCHANGED <<lbVars, analyzerVars>>
      BY <1>2 DEF ClientNext, Publish, Request, SendTo, ReceiveChange, ReceiveSubscribe, ReceiveUnsubscribe
    <2> QED BY <1>2, <2>1, ClientsStayTyped DEF Typed, Bounded, lbVars, analyzerVars
  <1>3. CASE UNCHANGED pvars
    BY <1>3 DEF pvars, lbVars, analyzerVars, clientVars, netVars, Typed, Bounded, ClientsTyped
  <1> QED BY <1>1, <1>2, <1>3 DEF Next

(* The two invariants make the type invariant. *)
LEMMA TypesAreOK == ASSUME IInv, Typed PROVE TypeOK
  <1>1. \A p \in Truthful(pushed) : IsPlan(p)
    BY DEF Truthful, SomePlans, PlanMaps, IsPlan
  <1>2. pushed \in Seq(Truthful(pushed)) /\ pushed # <<>> /\ lbPlan = pushed[Len(pushed)]
    BY DEF IInv, PlansPushed
  <1>3. IsPlan(lbPlan) /\ \A i \in DOMAIN pushed : IsPlan(pushed[i])
    BY <1>1, <1>2
  <1>4. Len(pushed) \in 1 .. MaxPlans
    BY <1>2, SwitchAssumption DEF Typed, Bounded
  <1>5. \A h \in Hubs : \A i \in DOMAIN history[h] : IsPlan(history[h][i])
    BY <1>1, PlansAre
  <1>6. \A k \in Clients : IsPlan(plan[k])
    BY <1>1, PlansAre
  <1>7. /\ toAnalyzer \in [Hubs -> Seq(Messages)]
        /\ toEngine \in [Hubs -> Seq(Messages)]
        /\ toClient \in [Clients -> [Hubs -> Seq(Messages)]]
    <2>1. Sound(pushed) \subseteq Messages
      BY DEF Sound
    <2>2. QueuesOf(Messages, Queues)
      BY <2>1, QueuesStay DEF IInv
    <2>3. \A q : q \in Seq(Directs(Messages)) => q \in Seq(Messages)
      <3>1. Directs(Messages) \subseteq Messages
        BY DEF Directs
      <3> QED BY <3>1
    <2> QED BY <2>2, <2>3, QueuesAre
  <1> QED BY <1>3, <1>4, <1>5, <1>6, <1>7 DEF TypeOK, IInv, AnalyzersHonest, Typed, Bounded, ClientsTyped

(* Every variable always has its type: with any number of channels, every
   message, every plan and every plan id in them is one the clients, the
   analyzers and the load balancer can make of the proposals, and no counter
   leaves its bounds. *)
THEOREM AlwaysTypeOK == Spec => []TypeOK
  <1>1. IInv /\ Typed => TypeOK
    BY TypesAreOK
  <1>2. Init => IInv /\ Typed
    BY InvInit, TypedInit
  <1>3. IInv /\ Typed /\ [Next]_pvars => (IInv /\ Typed)'
    BY InvStep, TypedStep
  <1> QED BY <1>1, <1>2, <1>3, PTL DEF Spec

-----------------------------------------------------------------------------
(* The subscription messages in a queue *)

(* Two mappings of a channel have the same subscription hubs or none in
   common, and the same ones if they differ in their ids only.  With hubs that
   overlap in part clients lose subscriptions (finding 5); with a draw for each
   id they keep the one of an old id (finding 14). *)
HubsApart ==
  \A draw \in Draws : \A m, n \in { x \in Mappings : x.id < MaxPlans /\ Proposable(x) } :
    LET M == SubscriptionShards(m, draw)  N == SubscriptionShards(n, draw)
    IN  /\ M = N \/ M \cap N = {}
        /\ SameMapping(m, n) => M = N

Asking == {"subscribe", "unsubscribe"}

(* Where the messages are that ask for c or ask for it no more; those of the
   application among them; none comes after those that is not one of them. *)
About(q, c) == { i \in 1 .. Len(q) : q[i].type \in Asking /\ q[i].ch = c }
Asked(q, c) == { i \in About(q, c) : q[i].infra \in {FALSE} }
AskedLast(q, c) == \A i \in Asked(q, c) : \A j \in About(q, c) : j > i => j \in Asked(q, c)

(* The last of them asks for c. *)
Joins(q, c) ==
  \E i \in About(q, c) : q[i].type = "subscribe" /\ \A j \in About(q, c) : j <= i

(* What they leave behind of a subscription that is there or not. *)
Settles(q, c, was) == IF About(q, c) = {} THEN was ELSE Joins(q, c)

(* Two queues say the same about c. *)
SameAbout(q, r, c) ==
  /\ About(q, c) = {} <=> About(r, c) = {}
  /\ Asked(q, c) = {} <=> Asked(r, c) = {}
  /\ Joins(q, c) <=> Joins(r, c)
  /\ AskedLast(q, c) <=> AskedLast(r, c)

(* A message about something else joins a queue. *)
LEMMA AppendOther ==
  ASSUME NEW S, NEW q \in Seq(S), NEW msg \in S, NEW c, msg.type \notin Asking \/ msg.ch # c
  PROVE  SameAbout(q, Append(q, msg), c)
  <1> DEFINE r == Append(q, msg)
  <1>1. Len(r) = Len(q) + 1 /\ Len(q) \in Nat /\ r[Len(q) + 1] = msg
        /\ \A i \in 1 .. Len(q) : r[i] = q[i]
    OBVIOUS
  <1> HIDE DEF r
  <1>2. About(r, c) = About(q, c)
    BY <1>1 DEF About
  <1>3. \A i \in About(q, c) : r[i] = q[i]
    BY <1>1 DEF About
  <1>4. Asked(r, c) = Asked(q, c)
    BY <1>2, <1>3 DEF Asked
  <1>5. Joins(r, c) <=> Joins(q, c)
    BY <1>2, <1>3 DEF Joins
  <1>6. AskedLast(r, c) <=> AskedLast(q, c)
    BY <1>2, <1>4 DEF AskedLast
  <1> QED BY <1>2, <1>4, <1>5, <1>6 DEF SameAbout, r

(* A message about c joins a queue. *)
LEMMA AppendOwn ==
  ASSUME NEW S, NEW q \in Seq(S), NEW msg \in S, msg.type \in Asking,
         AskedLast(q, msg.ch),
         msg.infra \in {FALSE} \/ Asked(q, msg.ch) = {}
  PROVE  LET r == Append(q, msg)  c == msg.ch
         IN  /\ About(r, c) # {} /\ AskedLast(r, c)
             /\ Joins(r, c) <=> msg.type = "subscribe"
             /\ Asked(r, c) = {} <=> msg.infra \notin {FALSE} /\ Asked(q, c) = {}
  <1> DEFINE r == Append(q, msg)
             c == msg.ch
             n == Len(q) + 1
  <1>1. Len(r) = n /\ Len(q) \in Nat /\ r[n] = msg /\ \A i \in 1 .. Len(q) : r[i] = q[i]
    OBVIOUS
  <1> HIDE DEF r
  <1>2. About(r, c) = About(q, c) \cup {n} /\ \A i \in About(q, c) : i \in Nat /\ i < n /\ r[i] = q[i]
    BY <1>1 DEF About
  <1>3. Asked(r, c) = IF msg.infra \in {FALSE} THEN Asked(q, c) \cup {n} ELSE Asked(q, c)
    BY <1>1, <1>2 DEF Asked
  <1>4. Asked(q, c) \subseteq About(q, c)
    BY DEF Asked
  <1>5. Joins(r, c) <=> msg.type = "subscribe"
    <2>1. n \in About(r, c) /\ \A j \in About(r, c) : j <= n /\ (n <= j => j = n)
      BY <1>1, <1>2
    <2> QED BY <1>1, <2>1 DEF Joins
  <1>6. AskedLast(r, c)
    <2>1. CASE msg.infra \in {FALSE}
      <3> SUFFICES ASSUME NEW i \in Asked(r, c), NEW j \in About(r, c), j > i
                   PROVE  j \in Asked(r, c)
        BY DEF AskedLast
      <3>1. CASE j = n
        BY <1>3, <2>1, <3>1
      <3>2. CASE j # n
        <4>1. j \in About(q, c) /\ i \in Asked(q, c)
          BY <1>1, <1>2, <1>3, <2>1, <3>2
        <4> QED BY <4>1, <1>3, <2>1 DEF AskedLast
      <3> QED BY <3>1, <3>2
    <2>2. CASE msg.infra \notin {FALSE}
      BY <1>3, <2>2 DEF AskedLast
    <2> QED BY <2>1, <2>2
  <1>7. About(r, c) # {}
    BY <1>2
  <1> QED BY <1>3, <1>5, <1>6, <1>7 DEF r

(* Positions in a queue, and in the queue without its first message. *)
LEMMA TailPositions ==
  ASSUME NEW S, NEW q \in Seq(S), q # <<>>, NEW c
  PROVE  /\ \A i \in About(Tail(q), c) : i \in Nat /\ i + 1 \in About(q, c) /\ Tail(q)[i] = q[i + 1]
         /\ \A i \in About(q, c) : i # 1 => i \in Nat /\ i > 1 /\ i - 1 \in About(Tail(q), c)
         /\ 1 \in About(q, c) <=> Head(q).type \in Asking /\ Head(q).ch = c
         /\ q[1] = Head(q)
  <1> DEFINE r == Tail(q)
  <1>1. /\ Len(q) \in Nat /\ Len(q) >= 1 /\ Len(r) = Len(q) - 1 /\ q[1] = Head(q)
        /\ \A i \in 1 .. Len(r) : r[i] = q[i + 1]
    OBVIOUS
  <1> HIDE DEF r
  <1>2. \A i \in About(r, c) : i \in Nat /\ i + 1 \in About(q, c) /\ r[i] = q[i + 1]
    BY <1>1 DEF About
  <1>3. ASSUME NEW i \in About(q, c), i # 1  PROVE i \in Nat /\ i > 1 /\ i - 1 \in About(r, c)
    <2>1. i \in Nat /\ i > 1 /\ i - 1 \in 1 .. Len(r) /\ (i - 1) + 1 = i
      BY <1>1, <1>3 DEF About
    <2>2. r[i - 1] = q[i]
      BY <1>1, <2>1
    <2>3. q[i].type \in Asking /\ q[i].ch = c
      BY DEF About
    <2> QED BY <2>1, <2>2, <2>3 DEF About
  <1>4. 1 \in About(q, c) <=> Head(q).type \in Asking /\ Head(q).ch = c
    BY <1>1 DEF About
  <1> QED BY <1>1, <1>2, <1>3, <1>4 DEF r

(* What a queue without its first message says. *)
LEMMA TailKeeps ==
  ASSUME NEW S, NEW q \in Seq(S), q # <<>>, NEW c
  PROVE  /\ \A i \in Asked(Tail(q), c) : i \in Nat /\ i + 1 \in Asked(q, c)
         /\ \A i \in Asked(q, c) : i # 1 => i - 1 \in Asked(Tail(q), c)
         /\ AskedLast(q, c) => AskedLast(Tail(q), c)
         /\ About(Tail(q), c) # {} => (Joins(q, c) <=> Joins(Tail(q), c))
  <1> DEFINE r == Tail(q)
  <1>1. /\ \A i \in About(r, c) : i \in Nat /\ i + 1 \in About(q, c) /\ r[i] = q[i + 1]
        /\ \A i \in About(q, c) : i # 1 => i \in Nat /\ i > 1 /\ i - 1 \in About(r, c)
    BY TailPositions
  <1> HIDE DEF r
  <1>2. \A i \in Asked(r, c) : i \in About(r, c) /\ i \in Nat /\ i + 1 \in Asked(q, c)
    BY <1>1 DEF Asked
  <1>3. ASSUME NEW i \in Asked(q, c), i # 1  PROVE i - 1 \in Asked(r, c)
    <2>1. i \in Nat /\ i - 1 \in About(r, c) /\ (i - 1) + 1 = i
      BY <1>1, <1>3 DEF Asked
    <2>2. r[i - 1] = q[i]
      BY <1>1, <2>1
    <2> QED BY <2>1, <2>2 DEF Asked
  <1>4. ASSUME AskedLast(q, c)  PROVE AskedLast(r, c)
    <2> SUFFICES ASSUME NEW i \in Asked(r, c), NEW j \in About(r, c), j > i
                 PROVE  j \in Asked(r, c)
      BY DEF AskedLast
    <2>1. i + 1 \in Asked(q, c) /\ j + 1 \in About(q, c) /\ i \in Nat /\ j \in Nat /\ j + 1 > i + 1
      BY <1>1, <1>2
    <2>2. j + 1 \in Asked(q, c)
      BY <1>4, <2>1 DEF AskedLast
    <2>3. j + 1 # 1 /\ (j + 1) - 1 = j
      BY <2>1
    <2> QED BY <1>3, <2>2, <2>3
  <1>5. ASSUME About(r, c) # {}  PROVE Joins(q, c) <=> Joins(r, c)
    <2>1. ASSUME Joins(r, c)  PROVE Joins(q, c)
      <3>1. PICK i \in About(r, c) : r[i].type = "subscribe" /\ \A j \in About(r, c) : j <= i
        BY <2>1 DEF Joins
      <3>2. i \in Nat /\ i + 1 \in About(q, c) /\ q[i + 1].type = "subscribe"
        BY <1>1, <3>1
      <3>3. ASSUME NEW j \in About(q, c)  PROVE j <= i + 1
        <4>1. CASE j = 1
          BY <3>2, <4>1
        <4>2. CASE j # 1
          <5>1. j \in Nat /\ j - 1 <= i
            BY <1>1, <3>1, <4>2
          <5> QED BY <5>1, <3>2
        <4> QED BY <4>1, <4>2
      <3> QED BY <3>2, <3>3 DEF Joins
    <2>2. ASSUME Joins(q, c)  PROVE Joins(r, c)
      <3>1. PICK i \in About(q, c) : q[i].type = "subscribe" /\ \A j \in About(q, c) : j <= i
        BY <2>2 DEF Joins
      <3>2. PICK n \in About(r, c) : TRUE
        BY <1>5
      <3>3. n \in Nat /\ n + 1 <= i
        BY <1>1, <3>1, <3>2
      <3>4. n \in 1 .. Len(r)
        BY <3>2 DEF About
      <3>5. n >= 1
        BY <3>3, <3>4
      <3>6. i # 1
        BY <3>3, <3>5
      <3>7. i \in Nat /\ i - 1 \in About(r, c) /\ (i - 1) + 1 = i
        BY <1>1, <3>6
      <3>8. r[i - 1].type = "subscribe"
        BY <1>1, <3>1, <3>7
      <3>9. ASSUME NEW j \in About(r, c)  PROVE j <= i - 1
        <4>1. j \in Nat /\ j + 1 <= i
          BY <1>1, <3>1
        <4> QED BY <4>1, <3>7
      <3> QED BY <3>7, <3>8, <3>9 DEF Joins
    <2> QED BY <2>1, <2>2
  <1> QED BY <1>2, <1>3, <1>4, <1>5 DEF r

(* A message about something else leaves a queue. *)
LEMMA TailOther ==
  ASSUME NEW S, NEW q \in Seq(S), q # <<>>, NEW c,
         Head(q).type \notin Asking \/ Head(q).ch # c
  PROVE  SameAbout(q, Tail(q), c)
  <1> DEFINE r == Tail(q)
  <1>1. /\ \A i \in About(r, c) : i \in Nat /\ i + 1 \in About(q, c)
        /\ \A i \in About(q, c) : i # 1 /\ i \in Nat /\ i - 1 \in About(r, c)
    BY TailPositions
  <1>2. /\ \A i \in Asked(r, c) : i \in Nat /\ i + 1 \in Asked(q, c)
        /\ \A i \in Asked(q, c) : i # 1 => i - 1 \in Asked(r, c)
        /\ AskedLast(q, c) => AskedLast(r, c)
        /\ About(r, c) # {} => (Joins(q, c) <=> Joins(r, c))
    BY TailKeeps
  <1> HIDE DEF r
  <1>3. About(q, c) = {} <=> About(r, c) = {}
    BY <1>1
  <1>4. \A i \in Asked(q, c) : i \in About(q, c)
    BY DEF Asked
  <1>5. Asked(q, c) = {} <=> Asked(r, c) = {}
    BY <1>1, <1>2, <1>4
  <1>6. Joins(q, c) <=> Joins(r, c)
    <2>1. About(q, c) = {} /\ About(r, c) = {} => ~Joins(q, c) /\ ~Joins(r, c)
      BY DEF Joins
    <2> QED BY <1>2, <1>3, <2>1
  <1>7. ASSUME AskedLast(r, c)  PROVE AskedLast(q, c)
    <2> SUFFICES ASSUME NEW i \in Asked(q, c), NEW j \in About(q, c), j > i
                 PROVE  j \in Asked(q, c)
      BY DEF AskedLast
    <2>1. i \in Nat /\ j \in Nat /\ i - 1 \in Asked(r, c) /\ j - 1 \in About(r, c)
      BY <1>1, <1>2, <1>4
    <2>2. j - 1 > i - 1 /\ (j - 1) + 1 = j
      BY <2>1
    <2>3. j - 1 \in Asked(r, c)
      BY <1>7, <2>1, <2>2 DEF AskedLast
    <2> QED BY <1>2, <2>2, <2>3
  <1> QED BY <1>2, <1>3, <1>5, <1>6, <1>7 DEF SameAbout, r

(* A message about c leaves a queue: if it is the last one, what it asks for
   is what the queue came to; behind one of the application there are only
   those of the application. *)
LEMMA TailOwn ==
  ASSUME NEW S, NEW q \in Seq(S), q # <<>>, NEW c, Head(q).type \in Asking, Head(q).ch = c,
         AskedLast(q, c)
  PROVE  /\ About(q, c) # {} /\ AskedLast(Tail(q), c)
         /\ About(Tail(q), c) # {} => (Joins(q, c) <=> Joins(Tail(q), c))
         /\ About(Tail(q), c) = {} => (Joins(q, c) <=> Head(q).type = "subscribe")
         /\ Head(q).infra \notin {FALSE} => (Asked(q, c) = {} <=> Asked(Tail(q), c) = {})
         /\ Head(q).infra \in {FALSE} =>
               Asked(q, c) # {} /\ (Asked(Tail(q), c) = {} => About(Tail(q), c) = {})
  <1> DEFINE r == Tail(q)
  <1>1. /\ \A i \in About(r, c) : i \in Nat /\ i + 1 \in About(q, c)
        /\ \A i \in About(q, c) : i # 1 => i \in Nat /\ i > 1 /\ i - 1 \in About(r, c)
        /\ 1 \in About(q, c) /\ q[1] = Head(q)
    BY TailPositions
  <1>2. /\ \A i \in Asked(r, c) : i \in Nat /\ i + 1 \in Asked(q, c)
        /\ \A i \in Asked(q, c) : i # 1 => i - 1 \in Asked(r, c)
        /\ AskedLast(r, c)
        /\ About(r, c) # {} => (Joins(q, c) <=> Joins(r, c))
    BY TailKeeps
  <1> HIDE DEF r
  <1>3. 1 \in Asked(q, c) <=> Head(q).infra \in {FALSE}
    BY <1>1 DEF Asked
  <1>4. ASSUME About(r, c) = {}  PROVE Joins(q, c) <=> Head(q).type = "subscribe"
    <2>1. \A i \in About(q, c) : i = 1
      BY <1>1, <1>4
    <2> QED BY <1>1, <2>1 DEF Joins
  <1>5. ASSUME Head(q).infra \notin {FALSE}  PROVE Asked(q, c) = {} <=> Asked(r, c) = {}
    BY <1>2, <1>3, <1>5
  <1>6. ASSUME Head(q).infra \in {FALSE}, Asked(r, c) = {}  PROVE About(r, c) = {}
    <2> SUFFICES ASSUME NEW i \in About(r, c) PROVE FALSE
      OBVIOUS
    <2>1. i \in 1 .. Len(r) /\ i \in Nat /\ i + 1 \in About(q, c)
      BY <1>1 DEF About
    <2>2. i + 1 > 1 /\ (i + 1) - 1 = i
      BY <2>1
    <2>3. i + 1 \in Asked(q, c)
      BY <1>3, <1>6, <2>1, <2>2 DEF AskedLast
    <2> QED BY <1>2, <1>6, <2>2, <2>3
  <1> QED BY <1>1, <1>2, <1>3, <1>4, <1>5, <1>6 DEF r

-----------------------------------------------------------------------------
(* Where clients are heading *)

Planned(k, c) == SubscriptionShards(MappingOf(plan[k], c), picks[k])

(* Once its messages about c have come back, k is subscribed to it on the hubs
   hs.  The application's requests wait on the hubs of its plan, behind the
   messages of plans that were applied before; while there are none, hs are
   the hubs of an own channel. *)
Heading(k, c, hs) ==
  /\ \A h \in Hubs : Settles(toClient[k][h], c, Subscription(k, c) \in subscribed[h]) <=> h \in hs
  /\ \A h \in Hubs : AskedLast(toClient[k][h], c)
  /\ \A h \in Hubs : Asked(toClient[k][h], c) # {} => h \in Planned(k, c)
  /\ (\A h \in Hubs : Asked(toClient[k][h], c) = {}) => (c \in own[k] <=> hs # {})

Follows(k, c) == \E hs \in {{}, Planned(k, c)} : Heading(k, c, hs)
Following == \A k \in Clients \ raced, c \in Channels : Follows(k, c)

(* The hubs of its plan are hubs, one at least. *)
LEMMA PlannedAre ==
  ASSUME IInv, NEW k \in Clients, NEW c \in Channels
  PROVE  Planned(k, c) \in (SUBSET Hubs) \ {{}}
  <1>1. MappingOf(plan[k], c) \in Mappings
    BY PlansAre
  <1> QED BY <1>1, ShardsAre DEF Planned

(* At first an own channel is subscribed on the default hub. *)
LEMMA FollowingInit == Init => Following
  <1> SUFFICES ASSUME Init, NEW k \in Clients, NEW c \in Channels PROVE Follows(k, c)
    BY DEF Following
  <1>1. Planned(k, c) = {Default}
    <2>1. MappingOf(plan[k], c) = DefaultMapping(0)
      BY DEF Init, FirstPlan, MappingOf
    <2> QED BY <2>1 DEF Planned, SubscriptionShards, DefaultMapping
  <1>2. \A h \in Hubs : toClient[k][h] = <<>>
    BY DEF Init
  <1>3. \A h \in Hubs : Subscription(k, c) \in subscribed[h] <=> h = Default /\ c \in own[k]
    BY DEF Init, Subscription
  <1>4. /\ About(<<>>, c) = {} /\ Asked(<<>>, c) = {} /\ ~Joins(<<>>, c) /\ AskedLast(<<>>, c)
    <2>1. About(<<>>, c) = {}
      BY DEF About
    <2> QED BY <2>1 DEF Asked, Joins, AskedLast
  <1> DEFINE hs == IF c \in own[k] THEN {Default} ELSE {}
  <1>5. hs \in {{}, Planned(k, c)} /\ \A h \in Hubs : h \in hs <=> h = Default /\ c \in own[k]
    BY <1>1
  <1>6. c \in own[k] <=> hs # {}
    OBVIOUS
  <1> HIDE DEF hs
  <1>7. Heading(k, c, hs)
    BY <1>2, <1>3, <1>4, <1>5, <1>6 DEF Heading, Settles
  <1> QED BY <1>5, <1>7 DEF Follows

(* Nothing has changed that a client's way depends on. *)
LEMMA Untouched ==
  ASSUME Following, UNCHANGED <<toClient, subscribed, plan, own, picks, raced>>
  PROVE  Following'
  BY DEF Following, Follows, Heading, Planned

(* To say the same about a channel is an equivalence. *)
LEMMA SameAboutTrans ==
  /\ \A q, c : SameAbout(q, q, c)
  /\ \A p, q, r, c : SameAbout(p, q, c) /\ SameAbout(q, r, c) => SameAbout(p, r, c)
  BY DEF SameAbout

(* A client goes on as before when its queues still say the same. *)
LEMMA StillFollows ==
  ASSUME NEW k \in Clients, NEW c \in Channels, Follows(k, c),
         Planned(k, c)' = Planned(k, c),
         c \in own'[k] <=> c \in own[k],
         \A h \in Hubs : /\ Subscription(k, c) \in subscribed'[h] <=> Subscription(k, c) \in subscribed[h]
                         /\ SameAbout(toClient[k][h], toClient'[k][h], c)
  PROVE  Follows(k, c)'
  <1>1. PICK hs \in {{}, Planned(k, c)} : Heading(k, c, hs)
    BY DEF Follows
  <1>2. \A h \in Hubs :
           /\ Settles(toClient[k][h], c, Subscription(k, c) \in subscribed[h]) <=>
                Settles(toClient'[k][h], c, Subscription(k, c) \in subscribed'[h])
           /\ AskedLast(toClient[k][h], c) <=> AskedLast(toClient'[k][h], c)
           /\ Asked(toClient[k][h], c) = {} <=> Asked(toClient'[k][h], c) = {}
    BY DEF SameAbout, Settles
  <1>3. Heading(k, c, hs)'
    BY <1>1, <1>2 DEF Heading
  <1> QED BY <1>1, <1>3 DEF Follows

(* What relaying a message does to one queue of a client. *)
LEMMA RelayedClient ==
  ASSUME NEW qs, NEW hs, NEW msg, NEW k \in Clients, NEW h \in Hubs
  PROVE  Relayed(qs, hs, msg).clients[k][h] =
            IF h \in hs /\ Receives(k, h, msg) THEN Append(qs.clients[k][h], msg)
            ELSE qs.clients[k][h]
  BY DEF Relayed

(* Relaying a message about something else changes nothing about c. *)
LEMMA RelayedOther ==
  ASSUME NEW S, NEW qs, QueuesOf(S, qs), NEW hs, NEW msg \in S, NEW c,
         msg.type \notin Asking \/ msg.ch # c,
         NEW k \in Clients, NEW h \in Hubs
  PROVE  SameAbout(qs.clients[k][h], Relayed(qs, hs, msg).clients[k][h], c)
  <1> DEFINE q == qs.clients[k][h]
  <1>1. q \in Seq(S)
    BY DEF QueuesOf
  <1> HIDE DEF q
  <1>2. SameAbout(q, q, c) /\ SameAbout(q, Append(q, msg), c)
    BY <1>1, AppendOther, SameAboutTrans
  <1> QED BY <1>2, RelayedClient DEF q

(* What the analyzers and the publishers send is not about subscriptions. *)
LEMMA NotAsking ==
  /\ \A k, c, id : Publication(k, c, id).type \notin Asking
  /\ \A h, c, id, m : ChannelChange(h, c, id, m).type \notin Asking
  /\ \A h, c, n, m : DirectChange(h, c, n, m).type \notin Asking
  BY DEF Publication, ChannelChange, DirectChange, Asking

(* Only the queues change, and they say the same about every channel. *)
LEMMA OthersFollow ==
  ASSUME Following, UNCHANGED <<subscribed, plan, own, picks, raced>>,
         \A k \in Clients, h \in Hubs, c \in Channels : SameAbout(toClient[k][h], toClient'[k][h], c)
  PROVE  Following'
  <1> SUFFICES ASSUME NEW k \in Clients \ raced, NEW c \in Channels PROVE Follows(k, c)'
    BY DEF Following
  <1>1. Planned(k, c)' = Planned(k, c)
    BY DEF Planned
  <1> QED BY <1>1, StillFollows DEF Following

(* What an analyzer answers is not about subscriptions. *)
LEMMA AnalyzeFollows ==
  ASSUME IInv, Following, NEW h \in Hubs, Analyze(h)
  PROVE  Following'
  <1>1. PICK rest, previous, change, direct :
           /\ QueuesOf(Sound(pushed), rest) /\ rest.clients = toClient
           /\ change \in Sound(pushed) /\ change.type = "change"
           /\ direct \in Sound(pushed) /\ direct.type = "direct"
           /\ \/ SetQueues(rest)
              \/ SetQueues(Relayed(rest, {Default}, direct))
              \/ SetQueues(Relayed(Relayed(rest, previous, change), {Default}, direct))
    BY Analyzed
  <1>2. change.type \notin Asking /\ direct.type \notin Asking
    BY <1>1 DEF Asking
  <1> DEFINE answered == Relayed(rest, {Default}, direct)
             changed == Relayed(rest, previous, change)
             both == Relayed(changed, {Default}, direct)
  <1>3. QueuesOf(Sound(pushed), changed)
    BY <1>1, RelayedQueues
  <1>4. ASSUME NEW k \in Clients, NEW g \in Hubs, NEW c \in Channels
        PROVE  SameAbout(toClient[k][g], toClient'[k][g], c)
    <2>1. SameAbout(toClient[k][g], answered.clients[k][g], c)
      BY <1>1, <1>2, RelayedOther
    <2>2. SameAbout(toClient[k][g], changed.clients[k][g], c)
      BY <1>1, <1>2, RelayedOther
    <2> HIDE DEF changed
    <2>3. SameAbout(changed.clients[k][g], both.clients[k][g], c)
      BY <1>1, <1>2, <1>3, RelayedOther
    <2>4. SameAbout(toClient[k][g], both.clients[k][g], c)
      BY <2>2, <2>3, SameAboutTrans
    <2>5. \/ toClient' = toClient
          \/ toClient' = answered.clients
          \/ toClient' = both.clients
      BY <1>1 DEF SetQueues, changed
    <2> HIDE DEF answered, both
    <2> QED BY <2>1, <2>4, <2>5, SameAboutTrans
  <1>5. UNCHANGED <<subscribed, plan, own, picks, raced>>
    BY DEF Analyze, clientVars
  <1> QED BY <1>4, <1>5, OthersFollow

(* Neither is a publication. *)
LEMMA SendToFollows ==
  ASSUME IInv, Following, NEW k \in Clients, NEW h \in Hubs, SendTo(k, h)
  PROVE  Following'
  <1> DEFINE c == sending[k].ch
             msg == Publication(k, c, MappingOf(plan[k], c).id)
  <1>1. /\ sending[k] # NoMessage /\ SetQueues(Relayed(Queues, {h}, msg))
        /\ UNCHANGED <<plan, own, picks, raced, subscribed>>
    BY DEF SendTo
  <1>2. c \in Channels
    BY <1>1 DEF IInv, ClientsHonest
  <1>3. msg \in Sound(pushed) /\ msg.type \notin Asking
    BY <1>2, PlansAre, RequestsSound, NotAsking
  <1> HIDE DEF c, msg
  <1>4. QueuesOf(Sound(pushed), Queues) /\ Queues.clients = toClient
    BY DEF IInv, Queues
  <1>5. toClient' = Relayed(Queues, {h}, msg).clients
    BY <1>1 DEF SetQueues
  <1>6. ASSUME NEW j \in Clients, NEW g \in Hubs, NEW d \in Channels
        PROVE  SameAbout(toClient[j][g], toClient'[j][g], d)
    <2>1. SameAbout(Queues.clients[j][g], Relayed(Queues, {h}, msg).clients[j][g], d)
      BY <1>3, <1>4, RelayedOther
    <2> QED BY <2>1, <1>4, <1>5
  <1> QED BY <1>1, <1>6, OthersFollow

(* A subscription message of a client reaches this client only. *)
LEMMA RelayedAsking ==
  ASSUME NEW qs, NEW hs, NEW msg, NEW k \in Clients, NEW j \in Clients, NEW h \in Hubs,
         msg.type \in Asking, msg.from = k
  PROVE  Relayed(qs, hs, msg).clients[j][h] =
            IF j = k /\ h \in hs THEN Append(qs.clients[j][h], msg) ELSE qs.clients[j][h]
  <1>1. Receives(j, h, msg) <=> j = k
    BY DEF Receives, Asking
  <1> QED BY <1>1, RelayedClient

(* A request of the application is the last word about its channel, on all
   hubs of the plan. *)
LEMMA RequestFollows ==
  ASSUME IInv, Following, NEW k \in Clients, NEW c \in Channels, NEW type \in Asking,
         Request(k, c, type)
  PROVE  Following'
  <1> DEFINE m == MappingOf(plan[k], c)
             msg == SubscriptionMessage(type, k, c, m.id, FALSE)
             after == Relayed(Queues, Planned(k, c), msg)
  <1>1. /\ SetQueues(after)
        /\ UNCHANGED <<plan, own, picks, raced, subscribed>>
    BY DEF Request, Planned
  <1>2. m.id \in Nat
    BY PlansAre
  <1>3. /\ msg \in Sound(pushed) /\ msg.type = type /\ msg.from = k /\ msg.ch = c
        /\ msg.infra \in {FALSE}
    <2>1. msg \in Sound(pushed)
      BY <1>2, RequestsSound DEF Asking
    <2> QED BY <2>1 DEF SubscriptionMessage
  <1>4. \A j \in Clients, h \in Hubs :
          toClient'[j][h] = IF j = k /\ h \in Planned(k, c) THEN Append(toClient[j][h], msg)
                            ELSE toClient[j][h]
    <2>1. toClient' = after.clients /\ Queues.clients = toClient
      BY <1>1 DEF SetQueues, Queues
    <2>2. \A j \in Clients, h \in Hubs :
            after.clients[j][h] = IF j = k /\ h \in Planned(k, c) THEN Append(Queues.clients[j][h], msg)
                                  ELSE Queues.clients[j][h]
      <3> HIDE DEF msg
      <3> QED BY <1>3, RelayedAsking
    <2> HIDE DEF after, msg
    <2> QED BY <2>1, <2>2
  <1>5. \A j \in Clients, h \in Hubs : toClient[j][h] \in Seq(Sound(pushed))
    BY QueuesAre DEF IInv
  <1> HIDE DEF m, msg, after
  <1> SUFFICES ASSUME NEW j \in Clients \ raced, NEW d \in Channels PROVE Follows(j, d)'
    BY <1>1 DEF Following
  <1>6. Follows(j, d) /\ Planned(j, d)' = Planned(j, d)
    BY <1>1 DEF Following, Planned
  <1>7. CASE j # k \/ d # c
    <2>1. ASSUME NEW h \in Hubs  PROVE SameAbout(toClient[j][h], toClient'[j][h], d)
      <3>1. CASE toClient'[j][h] = toClient[j][h]
        BY <3>1, SameAboutTrans
      <3>2. CASE j = k /\ toClient'[j][h] = Append(toClient[j][h], msg)
        BY <3>2, <1>3, <1>5, <1>7, AppendOther
      <3> QED BY <1>4, <3>1, <3>2
    <2> QED BY <1>1, <1>6, <2>1, StillFollows
  <1>8. CASE j = k /\ d = c
    <2>1. PICK hs \in {{}, Planned(k, c)} : Heading(k, c, hs)
      BY <1>6, <1>8 DEF Follows
    <2>2. Planned(k, c) \in (SUBSET Hubs) \ {{}} /\ Planned(k, c)' = Planned(k, c)
      BY <1>6, <1>8, PlannedAre
    <2>3. ASSUME NEW h \in Hubs, h \in Planned(k, c)
          PROVE  /\ About(toClient'[k][h], c) # {} /\ AskedLast(toClient'[k][h], c)
                 /\ Joins(toClient'[k][h], c) <=> type = "subscribe"
                 /\ Asked(toClient'[k][h], c) # {}
      <3>1. toClient'[k][h] = Append(toClient[k][h], msg)
        BY <1>4, <2>3
      <3>2. AskedLast(toClient[k][h], c)
        BY <2>1 DEF Heading
      <3>3. toClient[k][h] \in Seq(Sound(pushed)) /\ AskedLast(toClient[k][h], msg.ch) /\ msg.type \in Asking
        BY <1>3, <1>5, <3>2
      <3>4. LET u == Append(toClient[k][h], msg)
            IN  /\ About(u, msg.ch) # {} /\ AskedLast(u, msg.ch)
                /\ Joins(u, msg.ch) <=> msg.type = "subscribe"
                /\ Asked(u, msg.ch) = {} <=> msg.infra \notin {FALSE} /\ Asked(toClient[k][h], msg.ch) = {}
        BY <1>3, <3>3, AppendOwn
      <3> QED BY <1>3, <3>1, <3>4
    <2>4. ASSUME NEW h \in Hubs, h \notin Planned(k, c)
          PROVE  /\ ~Settles(toClient'[k][h], c, Subscription(k, c) \in subscribed'[h])
                 /\ AskedLast(toClient'[k][h], c) /\ Asked(toClient'[k][h], c) = {}
      <3>1. toClient'[k][h] = toClient[k][h] /\ subscribed' = subscribed
        BY <1>1, <1>4, <2>4
      <3>2. h \notin hs
        BY <2>1, <2>4
      <3> QED BY <2>1, <2>4, <3>1, <3>2 DEF Heading
    <2> DEFINE gs == IF type = "subscribe" THEN Planned(k, c) ELSE {}
    <2>5. \A h \in Hubs : Settles(toClient'[k][h], c, Subscription(k, c) \in subscribed'[h]) <=> h \in gs
      <3> TAKE h \in Hubs
      <3>1. CASE h \in Planned(k, c)
        BY <2>3, <3>1 DEF Settles
      <3>2. CASE h \notin Planned(k, c)
        BY <2>4, <3>2
      <3> QED BY <3>1, <3>2
    <2>6. \E h \in Hubs : Asked(toClient'[k][h], c) # {}
      BY <2>2, <2>3
    <2>7. Heading(k, c, gs)'
      <3> HIDE DEF gs
      <3>1. \A h \in Hubs : AskedLast(toClient'[k][h], c)
        BY <2>3, <2>4
      <3>2. \A h \in Hubs : Asked(toClient'[k][h], c) # {} => h \in Planned(k, c)'
        BY <2>2, <2>4
      <3>3. gs' = gs
        BY <2>2 DEF gs
      <3> QED BY <2>5, <2>6, <3>1, <3>2, <3>3 DEF Heading
    <2>8. gs' \in {{}, Planned(k, c)'} /\ gs' = gs
      BY <2>2
    <2> QED BY <1>8, <2>7, <2>8 DEF Follows
  <1> QED BY <1>7, <1>8

(* A message of a client comes back to it: the subscription is what it says,
   and if it was the last one, this is what the queue had come to. *)
LEMMA OwnRequestFollows ==
  ASSUME IInv, Typed, Following, NEW k \in Clients, NEW h \in Hubs,
         ReceiveSubscribe(k, h) \/ ReceiveUnsubscribe(k, h)
  PROVE  Following'
  <1> DEFINE msg == Head(toClient[k][h])
             c == msg.ch
             q == toClient[k][h]
             r == Tail(toClient[k][h])
  <1>1. /\ q # <<>> /\ msg.type \in Asking
        /\ toClient' = [toClient EXCEPT ![k][h] = Tail(@)]
        /\ UNCHANGED <<plan, picks, raced>>
    BY DEF ReceiveSubscribe, ReceiveUnsubscribe, Asking
  <1>2. subscribed' = [subscribed EXCEPT ![h] = IF msg.type = "subscribe"
                         THEN @ \cup {Subscription(k, c)} ELSE @ \ {Subscription(k, c)}]
    BY DEF ReceiveSubscribe, ReceiveUnsubscribe
  <1>3. own' = IF msg.infra THEN own
               ELSE [own EXCEPT ![k] = IF msg.type = "subscribe" THEN @ \cup {c} ELSE @ \ {c}]
    BY DEF ReceiveSubscribe, ReceiveUnsubscribe
  <1>4. /\ \A j \in Clients, g \in Hubs : toClient[j][g] \in Seq(Sound(pushed))
        /\ toClient \in [Clients -> [Hubs -> Seq(Sound(pushed))]]
    BY QueuesAre DEF IInv
  <1>5. msg \in Sound(pushed) /\ c \in Channels /\ msg.infra \in BOOLEAN
    <2>1. msg \in Sound(pushed) /\ c \in Channels
      BY <1>1, <1>4, HeadAndTail, MessageFields
    <2>2. msg.infra \in BOOLEAN
      BY <1>1, <2>1 DEF Sound, Messages, Asking
    <2> QED BY <2>1, <2>2
  <1>6. \A j \in Clients, g \in Hubs :
          toClient'[j][g] = IF j = k /\ g = h THEN r ELSE toClient[j][g]
    BY <1>1, <1>4
  <1>7. \A j \in Clients, g \in Hubs, d \in Channels :
          Subscription(j, d) \in subscribed'[g] <=>
            IF j = k /\ d = c /\ g = h THEN msg.type = "subscribe"
            ELSE Subscription(j, d) \in subscribed[g]
    <2>1. \A j \in Clients, d \in Channels : Subscription(j, d) = Subscription(k, c) <=> j = k /\ d = c
      BY DEF Subscription
    <2>2. DOMAIN subscribed = Hubs
      BY DEF Typed, ClientsTyped
    <2> HIDE DEF msg, c, Subscription
    <2> QED BY <1>2, <2>1, <2>2
  <1>8. \A j \in Clients, d \in Channels :
          d \in own'[j] <=> IF j = k /\ d = c /\ msg.infra \in {FALSE} THEN msg.type = "subscribe"
                            ELSE d \in own[j]
    <2>1. DOMAIN own = Clients
      BY DEF Typed, ClientsTyped
    <2> HIDE DEF msg, c
    <2>2. CASE msg.infra = TRUE
      BY <1>3, <2>2
    <2>3. CASE msg.infra = FALSE
      BY <1>3, <2>1, <2>3
    <2> QED BY <1>5, <2>2, <2>3
  <1> HIDE DEF msg, c, r
  <1> SUFFICES ASSUME NEW j \in Clients \ raced, NEW d \in Channels PROVE Follows(j, d)'
    BY <1>1 DEF Following
  <1>9. Follows(j, d) /\ Planned(j, d)' = Planned(j, d)
    BY <1>1 DEF Following, Planned
  <1>10. CASE j # k \/ d # c
    <2>1. ASSUME NEW g \in Hubs  PROVE SameAbout(toClient[j][g], toClient'[j][g], d)
      <3>1. CASE toClient'[j][g] = toClient[j][g]
        BY <3>1, SameAboutTrans
      <3>2. CASE j = k /\ g = h
        <4>1. SameAbout(q, r, d)
          BY <1>1, <1>4, <1>10, <3>2, TailOther DEF msg, c, r
        <4> QED BY <4>1, <1>6, <3>2
      <3> QED BY <1>6, <3>1, <3>2
    <2>2. \A g \in Hubs : Subscription(j, d) \in subscribed'[g] <=> Subscription(j, d) \in subscribed[g]
      BY <1>7, <1>10
    <2>3. d \in own'[j] <=> d \in own[j]
      BY <1>8, <1>10
    <2> QED BY <1>9, <2>1, <2>2, <2>3, StillFollows
  <1>11. CASE j = k /\ d = c
    <2>1. PICK hs \in {{}, Planned(k, d)} : Heading(k, d, hs)
      BY <1>9, <1>11 DEF Follows
    <2>2. /\ About(q, d) # {} /\ AskedLast(r, d)
          /\ About(r, d) # {} => (Joins(q, d) <=> Joins(r, d))
          /\ About(r, d) = {} => (Joins(q, d) <=> msg.type = "subscribe")
          /\ msg.infra \notin {FALSE} => (Asked(q, d) = {} <=> Asked(r, d) = {})
          /\ msg.infra \in {FALSE} => Asked(q, d) # {} /\ (Asked(r, d) = {} => About(r, d) = {})
      <3>1. AskedLast(q, d)
        BY <2>1 DEF Heading
      <3>2. Head(q).type \in Asking /\ Head(q).ch = d /\ q \in Seq(Sound(pushed))
        BY <1>1, <1>4, <1>11 DEF msg, c
      <3>3. q # <<>>
        BY <1>1
      <3> HIDE DEF q
      <3>4. /\ About(q, d) # {} /\ AskedLast(Tail(q), d)
            /\ About(Tail(q), d) # {} => (Joins(q, d) <=> Joins(Tail(q), d))
            /\ About(Tail(q), d) = {} => (Joins(q, d) <=> Head(q).type = "subscribe")
            /\ Head(q).infra \notin {FALSE} => (Asked(q, d) = {} <=> Asked(Tail(q), d) = {})
            /\ Head(q).infra \in {FALSE} =>
                  Asked(q, d) # {} /\ (Asked(Tail(q), d) = {} => About(Tail(q), d) = {})
        BY <3>1, <3>2, <3>3, TailOwn
      <3>5. msg = Head(q) /\ r = Tail(q)
        BY DEF msg, r, q
      <3> QED BY <3>4, <3>5
    <2>3. Asked(r, d) # {} => Asked(q, d) # {}
      <3>1. \A i \in Asked(r, d) : i + 1 \in Asked(q, d)
        BY <1>1, <1>4, TailKeeps DEF r
      <3> QED BY <3>1
    <2>4. Settles(q, d, Subscription(k, d) \in subscribed[h]) <=> Joins(q, d)
      BY <2>2 DEF Settles
    <2>5. Joins(q, d) <=> h \in hs
      BY <2>1, <2>4 DEF Heading
    <2> HIDE DEF q
    <2>6. \A g \in Hubs : Settles(toClient'[k][g], d, Subscription(k, d) \in subscribed'[g]) <=> g \in hs
      <3> TAKE g \in Hubs
      <3>1. CASE g = h
        <4>1. toClient'[k][g] = r /\ (Subscription(k, d) \in subscribed'[g] <=> msg.type = "subscribe")
          BY <1>5, <1>6, <1>7, <1>11, <3>1
        <4> QED BY <2>2, <2>5, <3>1, <4>1 DEF Settles
      <3>2. CASE g # h
        <4>1. toClient'[k][g] = toClient[k][g]
              /\ (Subscription(k, d) \in subscribed'[g] <=> Subscription(k, d) \in subscribed[g])
          BY <1>5, <1>6, <1>7, <1>11, <3>2
        <4> QED BY <2>1, <4>1 DEF Heading, Settles
      <3> QED BY <3>1, <3>2
    <2>7. \A g \in Hubs : AskedLast(toClient'[k][g], d)
      BY <1>6, <2>1, <2>2 DEF Heading
    <2>8. \A g \in Hubs : Asked(toClient'[k][g], d) # {} => g \in Planned(k, d)
      BY <1>6, <2>1, <2>3 DEF Heading, q
    <2>9. ASSUME \A g \in Hubs : Asked(toClient'[k][g], d) = {}
          PROVE  d \in own'[k] <=> hs # {}
      <3>1. Asked(r, d) = {} /\ \A g \in Hubs : g # h => Asked(toClient[k][g], d) = {}
        BY <1>6, <2>9
      <3>2. CASE msg.infra \in {FALSE}
        <4>1. d \in own'[k] <=> msg.type = "subscribe"
          BY <1>5, <1>8, <1>11, <3>2
        <4>2. msg.type = "subscribe" <=> h \in hs
          BY <2>2, <2>5, <3>1, <3>2
        <4>3. h \in Planned(k, d)
          BY <2>1, <2>2, <3>2 DEF Heading, q
        <4>4. h \in hs <=> hs # {}
          BY <2>1, <4>3
        <4> QED BY <4>1, <4>2, <4>4
      <3>3. CASE msg.infra \notin {FALSE}
        <4>1. \A g \in Hubs : Asked(toClient[k][g], d) = {}
          BY <2>2, <3>1, <3>3 DEF q
        <4>2. d \in own[k] <=> hs # {}
          BY <2>1, <4>1 DEF Heading
        <4> QED BY <4>2, <1>5, <1>8, <1>11, <3>3
      <3> QED BY <3>2, <3>3
    <2>10. Heading(k, d, hs)'
      <3>1. Planned(k, d)' = Planned(k, d)
        BY <1>9, <1>11
      <3> QED BY <2>6, <2>7, <2>8, <2>9, <3>1 DEF Heading
    <2> QED BY <1>9, <1>11, <2>1, <2>10 DEF Follows
  <1> QED BY <1>10, <1>11

(* Any mapping a client may have and any it may be told of have the same
   subscription hubs, or none in common. *)
LEMMA ApartMappings ==
  ASSUME HubsApart, IInv, Typed, NEW k \in Clients, NEW c \in Channels,
         NEW m \in Mappings, NEW n \in Mappings, Told(m, c, pushed), Told(n, c, pushed)
  PROVE  LET M == SubscriptionShards(m, picks[k])  N == SubscriptionShards(n, picks[k])
         IN  /\ M = N \/ M \cap N = {}
             /\ SameMapping(m, n) => M = N
  <1>1. Len(pushed) \in Nat /\ Len(pushed) <= MaxPlans /\ MaxPlans \in Nat
    BY PlansAre, SwitchAssumption DEF Typed, Bounded
  <1>2. m.id < MaxPlans /\ n.id < MaxPlans /\ Proposable(m) /\ Proposable(n)
    BY <1>1 DEF Told
  <1>3. picks[k] \in Draws
    BY DEF Typed, ClientsTyped
  <1> QED BY <1>2, <1>3 DEF HubsApart

(* A correction of one channel leaves the hubs of the others as they are. *)
LEMMA OthersPlanned ==
  ASSUME NEW p \in SomePlans, NEW c \in Channels, NEW d \in Channels, d # c, NEW m \in Mappings, NEW draw
  PROVE  SubscriptionShards(MappingOf(ChangedMapping(p, c, m), d), draw)
           = SubscriptionShards(MappingOf(p, d), draw)
  <1> DEFINE r == ChangedMapping(p, c, m)
             s == SetMapping(p, c, m)
  <1>1. /\ s \in SomePlans /\ DOMAIN s.map = DOMAIN p.map \cup {c}
        /\ \A e \in DOMAIN p.map : e # c => s.map[e] = p.map[e]
    BY SetMappingIs
  <1>2. r = [s EXCEPT !.id = MaxId(m.id, p.id)]
    BY DEF ChangedMapping
  <1> HIDE DEF r, s
  <1>3. r.map = s.map
    BY <1>1, <1>2 DEF SomePlans
  <1>4. CASE d \in DOMAIN p.map
    <2>1. MappingOf(r, d) = MappingOf(p, d)
      BY <1>1, <1>3, <1>4 DEF MappingOf
    <2> QED BY <2>1 DEF r
  <1>5. CASE d \notin DOMAIN p.map
    <2>1. MappingOf(r, d) = DefaultMapping(r.id) /\ MappingOf(p, d) = DefaultMapping(p.id)
      BY <1>1, <1>3, <1>5 DEF MappingOf
    <2>2. \A id : SubscriptionShards(DefaultMapping(id), draw) = {Default}
      BY DEF SubscriptionShards, DefaultMapping
    <2> QED BY <2>1, <2>2 DEF r
  <1> QED BY <1>4, <1>5

(* The plan of a receiver gives the channel the mapping it was told of. *)
LEMMA ChangedIs ==
  ASSUME NEW p \in SomePlans, NEW c \in Channels, NEW m \in Mappings
  PROVE  /\ c \in DOMAIN ChangedMapping(p, c, m).map
         /\ MappingOf(ChangedMapping(p, c, m), c) = m
  <1> DEFINE s == SetMapping(p, c, m)
  <1>1. s \in SomePlans /\ c \in DOMAIN s.map /\ s.map[c] = m
    BY SetMappingIs
  <1>2. ChangedMapping(p, c, m) = [s EXCEPT !.id = MaxId(m.id, p.id)]
    BY DEF ChangedMapping
  <1> HIDE DEF s
  <1>3. ChangedMapping(p, c, m).map = s.map
    BY <1>1, <1>2 DEF SomePlans
  <1> QED BY <1>1, <1>3 DEF MappingOf

(* Two subscription messages of a client, one after the other, on hubs of
   their own. *)
LEMMA RelayedBoth ==
  ASSUME NEW qs, NEW hs, NEW gs, NEW m, NEW n, NEW k \in Clients, NEW j \in Clients, NEW h \in Hubs,
         hs \cap gs = {},
         m.type \in Asking, m.from = k,
         n.type \in Asking, n.from = k
  PROVE  LET t == qs.clients[j][h]
             u == Relayed(Relayed(qs, hs, m), gs, n).clients[j][h]
         IN  /\ j = k /\ h \in hs => u = Append(t, m)
             /\ j = k /\ h \in gs => u = Append(t, n)
             /\ j # k \/ (h \notin hs /\ h \notin gs) => u = t
  <1> DEFINE rs == Relayed(qs, hs, m)
  <1>1. rs.clients[j][h] = IF j = k /\ h \in hs THEN Append(qs.clients[j][h], m) ELSE qs.clients[j][h]
    BY RelayedAsking
  <1> HIDE DEF rs
  <1>2. Relayed(rs, gs, n).clients[j][h] =
          IF j = k /\ h \in gs THEN Append(rs.clients[j][h], n) ELSE rs.clients[j][h]
    BY RelayedAsking
  <1> QED BY <1>1, <1>2 DEF rs

(* A client is told of a mapping: if its hubs are others, subscriptions go to
   all of them and unsubscriptions to all the old ones. *)
LEMMA ReceiveChangeFollows ==
  ASSUME HubsApart, IInv, Typed, Following, NEW k \in Clients, NEW h \in Hubs, ReceiveChange(k, h)
  PROVE  Following'
  <1> DEFINE S == Sound(pushed)
             msg == Head(toClient[k][h])
             rest == [Queues EXCEPT !.clients[k][h] = Tail(@)]
  <1>1. /\ toClient[k][h] # <<>> /\ msg.type \in {"change", "direct"}
        /\ plan' = [plan EXCEPT ![k] = ChangedMapping(plan[k], msg.ch, msg.mapping)]
        /\ SetQueues(IF msg.ch \in own[k]
                     THEN Resubscribed(rest, k, msg.ch, ChangedMapping(plan[k], msg.ch, msg.mapping))
                     ELSE rest)
        /\ raced' = IF Pending(k, msg.ch, {FALSE}) THEN raced \cup {k} ELSE raced
        /\ UNCHANGED <<own, picks, subscribed>>
    BY DEF ReceiveChange
  <1>2. msg \in S /\ QueuesOf(S, rest)
    BY <1>1, Received DEF IInv
  <1>3. msg.ch \in Channels /\ msg.mapping \in Mappings /\ Told(msg.mapping, msg.ch, pushed)
    BY <1>1, <1>2, MessageFields
  <1>4. PICK c \in Channels, n \in Mappings : c = msg.ch /\ n = msg.mapping
    BY <1>3
  <1>5. PICK q : q = ChangedMapping(plan[k], c, n)
    OBVIOUS
  <1>6. /\ \A j \in Clients, g \in Hubs : toClient[j][g] \in Seq(S)
        /\ toClient \in [Clients -> [Hubs -> Seq(S)]]
    BY QueuesAre DEF IInv
  <1>7. \A j \in Clients, g \in Hubs :
          rest.clients[j][g] = IF j = k /\ g = h THEN Tail(toClient[k][h]) ELSE toClient[j][g]
    <2>1. rest.clients = [toClient EXCEPT ![k][h] = Tail(@)]
      BY DEF Queues
    <2> HIDE DEF rest
    <2> QED BY <1>6, <2>1
  <1>8. ASSUME NEW j \in Clients, NEW g \in Hubs, NEW d \in Channels
        PROVE  SameAbout(toClient[j][g], rest.clients[j][g], d)
    <2>1. msg.type \notin Asking
      BY <1>1 DEF Asking
    <2>2. SameAbout(toClient[k][h], Tail(toClient[k][h]), d)
      BY <1>1, <1>6, <2>1, TailOther
    <2> HIDE DEF rest, msg
    <2> QED BY <1>7, <2>2, SameAboutTrans
  <1> DEFINE m == MappingOf(plan[k], c)
             M == Planned(k, c)
             N == SubscriptionShards(n, picks[k])
  <1>9. /\ plan[k] \in SomePlans /\ plan[k] \in Truthful(pushed)
        /\ m \in Mappings /\ m.id \in Nat /\ Told(m, c, pushed)
        /\ n.id \in Nat /\ Told(n, c, pushed)
    BY <1>3, <1>4, PlansAre DEF Mappings
  <1>10. /\ c \in DOMAIN q.map /\ MappingOf(q, c) = n
         /\ \A d \in Channels \ {c} : SubscriptionShards(MappingOf(q, d), picks[k]) = Planned(k, d)
    BY <1>5, <1>9, ChangedIs, OthersPlanned DEF Planned
  <1>11. /\ M \in (SUBSET Hubs) \ {{}} /\ N \in (SUBSET Hubs) \ {{}}
         /\ M = N \/ M \cap N = {}
         /\ SameMapping(m, n) => M = N
    BY <1>9, ApartMappings, ShardsAre DEF Planned
  <1>12. /\ plan' = [plan EXCEPT ![k] = q]
         /\ toClient' = IF c \in own[k] THEN Resubscribed(rest, k, c, q).clients ELSE rest.clients
         /\ raced' = IF Pending(k, c, {FALSE}) THEN raced \cup {k} ELSE raced
         /\ UNCHANGED <<own, picks, subscribed>>
    BY <1>1, <1>4, <1>5 DEF SetQueues
  <1>13. /\ \A j \in Clients \ {k}, d \in Channels : Planned(j, d)' = Planned(j, d)
         /\ \A d \in Channels \ {c} : Planned(k, d)' = Planned(k, d)
         /\ Planned(k, c)' = N
    <2>1. plan \in [Clients -> Truthful(pushed)]
      BY DEF IInv, ClientsHonest
    <2>2. plan'[k] = q /\ \A j \in Clients \ {k} : plan'[j] = plan[j]
      BY <1>12, <2>1
    <2> QED BY <1>10, <1>12, <2>2 DEF Planned
  <1> DEFINE sub == SubscriptionMessage("subscribe", k, c, n.id, TRUE)
             unsub == SubscriptionMessage("unsubscribe", k, c, m.id, TRUE)
  <1>14. /\ sub \in S /\ sub.type = "subscribe" /\ sub.from = k /\ sub.ch = c /\ sub.infra \notin {FALSE}
         /\ unsub \in S /\ unsub.type = "unsubscribe" /\ unsub.from = k /\ unsub.ch = c
         /\ unsub.infra \notin {FALSE}
    <2>1. sub \in S /\ unsub \in S
      BY <1>9, RequestsSound
    <2> QED BY <2>1 DEF SubscriptionMessage
  (* Nothing is sent if the hubs stay the same; if not, subscriptions to all
     the new ones and unsubscriptions to all the old ones. *)
  <1>15. /\ M = N => Resubscribed(rest, k, c, q) = Relayed(Relayed(rest, {}, sub), {}, unsub)
         /\ M # N => Resubscribed(rest, k, c, q) = Relayed(Relayed(rest, N, sub), M, unsub)
    <2>1. /\ MappingOf(plan[k], c) = m /\ MappingOf(q, c) = n /\ c \in DOMAIN q.map
          /\ SubscriptionShards(m, picks[k]) = M
      BY <1>10 DEF Planned
    <2>2. SubscriptionShards(n, picks[k]) = N
      OBVIOUS
    <2> HIDE DEF rest, m, M, N
    <2>3. ToSubscribe(plan[k], q, c, picks[k]) = {} <=> M = N
      BY <1>11, <2>1, <2>2 DEF ToSubscribe
    <2>4. ToUnsubscribe(plan[k], q, c, picks[k]) = {} <=> M = N
      BY <1>11, <2>1, <2>2 DEF ToUnsubscribe
    <2> QED BY <2>1, <2>2, <2>3, <2>4 DEF Resubscribed
  <1> HIDE DEF S, msg, rest, m, M, N, sub, unsub
  <1>16. \A j \in Clients, g \in Hubs :
           LET t == rest.clients[j][g]
           IN  toClient'[j][g] =
                 IF j = k /\ c \in own[k] /\ M # N /\ g \in N THEN Append(t, sub)
                 ELSE IF j = k /\ c \in own[k] /\ M # N /\ g \in M THEN Append(t, unsub)
                 ELSE t
    <2> TAKE j \in Clients, g \in Hubs
    <2> DEFINE t == rest.clients[j][g]
    <2>1. sub.type \in Asking /\ unsub.type \in Asking
      BY <1>14 DEF Asking
    <2>2. CASE c \notin own[k]
      BY <1>12, <2>2
    <2>3. CASE c \in own[k] /\ M = N
      <3>1. Relayed(Relayed(rest, {}, sub), {}, unsub).clients[j][g] = t
        <4>1. {} \cap {} = {} /\ g \notin {}
          OBVIOUS
        <4> QED BY <1>14, <2>1, <4>1, RelayedBoth
      <3> QED BY <1>12, <1>15, <2>3, <3>1
    <2>4. CASE c \in own[k] /\ M # N
      <3> DEFINE u == Relayed(Relayed(rest, N, sub), M, unsub).clients[j][g]
      <3>1. N \cap M = {}
        BY <1>11, <2>4
      <3>2. /\ j = k /\ g \in N => u = Append(t, sub)
            /\ j = k /\ g \in M => u = Append(t, unsub)
            /\ j # k \/ (g \notin N /\ g \notin M) => u = t
        BY <1>14, <2>1, <3>1, RelayedBoth
      <3>3. toClient'[j][g] = u
        BY <1>12, <1>15, <2>4
      <3> HIDE DEF u, t
      <3> QED BY <2>4, <3>1, <3>2, <3>3 DEF t
    <2> QED BY <2>2, <2>3, <2>4
  <1>17. \A j \in Clients, g \in Hubs : rest.clients[j][g] \in Seq(S)
    BY <1>2 DEF QueuesOf, S, rest
  <1> SUFFICES ASSUME NEW j \in Clients \ raced', NEW d \in Channels PROVE Follows(j, d)'
    BY DEF Following
  <1>18. Follows(j, d) /\ j \notin raced
    BY <1>12 DEF Following
  <1>19. CASE j # k \/ d # c
    <2>1. ASSUME NEW g \in Hubs  PROVE SameAbout(toClient[j][g], toClient'[j][g], d)
      <3>1. SameAbout(toClient[j][g], rest.clients[j][g], d)
        BY <1>8
      <3>2. CASE toClient'[j][g] = rest.clients[j][g]
        BY <3>1, <3>2
      <3>3. ASSUME NEW x \in S, x.ch = c, j = k, toClient'[j][g] = Append(rest.clients[j][g], x)
            PROVE  SameAbout(toClient[j][g], toClient'[j][g], d)
        <4>1. SameAbout(rest.clients[j][g], Append(rest.clients[j][g], x), d)
          BY <1>17, <1>19, <3>3, AppendOther
        <4> QED BY <3>1, <3>3, <4>1, SameAboutTrans
      <3> QED BY <1>14, <1>16, <3>2, <3>3
    <2>2. Planned(j, d)' = Planned(j, d)
      BY <1>13, <1>19
    <2> QED BY <1>12, <1>18, <2>1, <2>2, StillFollows
  <1>20. CASE j = k /\ d = c
    <2>1. PICK hs \in {{}, M} : Heading(k, c, hs)
      BY <1>18, <1>20 DEF Follows, M
    <2>2. \A g \in Hubs : Asked(toClient[k][g], c) = {}
      <3>1. ~Pending(k, c, {FALSE})
        BY <1>12, <1>20
      <3>2. \A g \in Hubs : DOMAIN toClient[k][g] = 1 .. Len(toClient[k][g])
        BY <1>6
      <3> QED BY <3>1, <3>2 DEF Pending, Asked, About, Asking
    <2>3. c \in own[k] <=> hs # {}
      BY <2>1, <2>2 DEF Heading
    <2> DEFINE t == rest.clients[k]
    <2>4. \A g \in Hubs : /\ Settles(t[g], c, Subscription(k, c) \in subscribed[g]) <=> g \in hs
                          /\ AskedLast(t[g], c) /\ Asked(t[g], c) = {}
      <3> TAKE g \in Hubs
      <3>1. SameAbout(toClient[k][g], t[g], c)
        BY <1>8
      <3> HIDE DEF t
      <3> QED BY <2>1, <2>2, <3>1 DEF Heading, Settles, SameAbout
    <2> DEFINE gs == IF c \in own[k] THEN N ELSE {}
    <2>5. \A g \in Hubs : /\ Settles(toClient'[k][g], c, Subscription(k, c) \in subscribed'[g]) <=> g \in gs
                          /\ AskedLast(toClient'[k][g], c) /\ Asked(toClient'[k][g], c) = {}
      <3> TAKE g \in Hubs
      <3> USE DEF t
      <3>1. CASE ~(c \in own[k] /\ M # N /\ g \in M \cup N)
        <4>1. toClient'[k][g] = t[g] /\ subscribed' = subscribed
          BY <1>12, <1>16, <3>1
        <4>2. g \in hs <=> g \in gs
          BY <2>1, <2>3, <3>1
        <4> HIDE DEF t
        <4> QED BY <2>4, <4>1, <4>2
      <3>2. CASE c \in own[k] /\ M # N /\ g \in N
        <4>1. toClient'[k][g] = Append(t[g], sub) /\ t[g] \in Seq(S)
          BY <1>16, <1>17, <3>2
        <4> HIDE DEF t
        <4>2. sub.type \in Asking
          BY <1>14 DEF Asking
        <4>3. /\ About(toClient'[k][g], c) # {} /\ AskedLast(toClient'[k][g], c)
              /\ Joins(toClient'[k][g], c) /\ Asked(toClient'[k][g], c) = {}
          <5>1. /\ AskedLast(t[g], sub.ch) /\ Asked(t[g], sub.ch) = {}
                /\ sub \in S
            BY <1>14, <2>4
          <5>2. LET u == Append(t[g], sub)
                IN  /\ About(u, sub.ch) # {} /\ AskedLast(u, sub.ch)
                    /\ Joins(u, sub.ch) <=> sub.type = "subscribe"
                    /\ Asked(u, sub.ch) = {} <=> sub.infra \notin {FALSE} /\ Asked(t[g], sub.ch) = {}
            BY <4>1, <4>2, <5>1, AppendOwn
          <5> QED BY <1>14, <4>1, <5>1, <5>2
        <4> QED BY <3>2, <4>3 DEF Settles
      <3>3. CASE c \in own[k] /\ M # N /\ g \in M
        <4>1. g \notin N
          BY <1>11, <3>3
        <4>2. toClient'[k][g] = Append(t[g], unsub) /\ t[g] \in Seq(S)
          BY <1>16, <1>17, <3>3, <4>1
        <4> HIDE DEF t
        <4>3. unsub.type \in Asking
          BY <1>14 DEF Asking
        <4>4. /\ About(toClient'[k][g], c) # {} /\ AskedLast(toClient'[k][g], c)
              /\ ~Joins(toClient'[k][g], c) /\ Asked(toClient'[k][g], c) = {}
          <5>1. /\ AskedLast(t[g], unsub.ch) /\ Asked(t[g], unsub.ch) = {}
                /\ unsub \in S
            BY <1>14, <2>4
          <5>2. LET u == Append(t[g], unsub)
                IN  /\ About(u, unsub.ch) # {} /\ AskedLast(u, unsub.ch)
                    /\ Joins(u, unsub.ch) <=> unsub.type = "subscribe"
                    /\ Asked(u, unsub.ch) = {} <=> unsub.infra \notin {FALSE} /\ Asked(t[g], unsub.ch) = {}
            BY <4>2, <4>3, <5>1, AppendOwn
          <5> QED BY <1>14, <4>2, <5>1, <5>2
        <4> QED BY <3>3, <4>1, <4>4 DEF Settles
      <3> QED BY <3>1, <3>2, <3>3
    <2>6. PICK fs : fs = gs
      OBVIOUS
    <2>7. c \in own'[k] <=> fs # {}
      BY <1>11, <1>12, <2>6
    <2>8. Heading(k, c, fs)'
      <3> HIDE DEF gs
      <3> QED BY <2>5, <2>6, <2>7 DEF Heading
    <2>9. fs \in {{}, Planned(k, c)'}
      BY <1>13, <2>6
    <2> QED BY <1>20, <2>8, <2>9 DEF Follows
  <1> QED BY <1>19, <1>20

(* Every step leaves the clients on their way. *)
LEMMA FollowingStep ==
  ASSUME HubsApart, IInv, Typed, Following, [Next]_pvars
  PROVE  Following'
  <1>1. CASE NewPlan
    BY <1>1, Untouched DEF NewPlan, clientVars, netVars, queueVars
  <1>2. ASSUME NEW h \in Hubs, AnalyzerNext(h)  PROVE Following'
    <2>1. CASE ReceivePlan(h) \/ EndPlan(h) \/ EngineChange(h)
      BY <2>1, Untouched DEF ReceivePlan, EndPlan, EngineChange, clientVars, netVars, queueVars
    <2>2. CASE Analyze(h)
      BY <2>2, AnalyzeFollows
    <2> QED BY <1>2, <2>1, <2>2 DEF AnalyzerNext
  <1>3. ASSUME NEW k \in Clients, ClientNext(k)  PROVE Following'
    <2>1. ASSUME NEW c \in Channels, Publish(k, c)  PROVE Following'
      BY <2>1, Untouched DEF Publish, netVars, queueVars
    <2>2. "subscribe" \in Asking /\ "unsubscribe" \in Asking
      BY DEF Asking
    <2> QED BY <1>3, <2>1, <2>2, RequestFollows, SendToFollows, ReceiveChangeFollows, OwnRequestFollows
            DEF ClientNext
  <1>4. CASE UNCHANGED pvars
    BY <1>4, Untouched DEF pvars, clientVars, netVars, queueVars
  <1> QED BY <1>1, <1>2, <1>3, <1>4 DEF Next

(* A client that none of its messages is on the way to has arrived. *)
LEMMA ArrivedAsPlanned ==
  ASSUME IInv, Typed, Following
  PROVE  SubscribedAsPlanned
  <1> SUFFICES ASSUME NEW k \in Clients \ raced, NEW c \in Channels, ~Pending(k, c, BOOLEAN)
               PROVE  Where(k, c) = IF c \in own[k] THEN Planned(k, c) ELSE {}
    BY TypesAreOK DEF SubscribedAsPlanned, Planned
  <1>1. PICK hs \in {{}, Planned(k, c)} : Heading(k, c, hs)
    BY DEF Following, Follows
  <1>2. \A h \in Hubs : About(toClient[k][h], c) = {}
    <2> SUFFICES ASSUME NEW h \in Hubs, NEW i \in About(toClient[k][h], c) PROVE FALSE
      OBVIOUS
    <2>1. toClient[k][h] \in Seq(Sound(pushed))
      BY QueuesAre DEF IInv
    <2> DEFINE msg == toClient[k][h][i]
    <2>2. i \in DOMAIN toClient[k][h] /\ msg.type \in Asking /\ msg.ch = c /\ msg \in Sound(pushed)
      BY <2>1 DEF About
    <2>3. msg.infra \in BOOLEAN
      BY <2>2 DEF Sound, Messages, Asking
    <2> HIDE DEF msg
    <2> QED BY <2>2, <2>3 DEF Pending, Asking, msg
  <1>3. \A h \in Hubs : Subscription(k, c) \in subscribed[h] <=> h \in hs
    BY <1>1, <1>2 DEF Heading, Settles
  <1>4. hs \subseteq Hubs /\ Planned(k, c) # {}
    BY <1>1, PlannedAre
  <1>5. Where(k, c) = hs
    BY <1>3, <1>4 DEF Where
  <1>6. c \in own[k] <=> hs # {}
    BY <1>1, <1>2 DEF Heading, Asked
  <1> QED BY <1>1, <1>4, <1>5, <1>6

(* Clients end up subscribed where their plans say, on every hub of the plan
   and on no other: whatever plans are made and however many, whatever
   corrections come late, twice, out of order or on several hubs at once, with
   any number of clients and channels.  Mappings that share a part of their
   hubs are left out, and draws that tell ids of one mapping apart. *)
THEOREM AlwaysSubscribedAsPlanned == HubsApart => (Spec => []SubscribedAsPlanned)
  <1> SUFFICES ASSUME HubsApart PROVE Spec => []SubscribedAsPlanned
    OBVIOUS
  <1>1. IInv /\ Typed /\ Following => SubscribedAsPlanned
    BY ArrivedAsPlanned
  <1>2. Init => IInv /\ Typed /\ Following
    BY InvInit, TypedInit, FollowingInit
  <1>3. IInv /\ Typed /\ Following /\ [Next]_pvars => (IInv /\ Typed /\ Following)'
    BY InvStep, TypedStep, FollowingStep
  <1> QED BY <1>1, <1>2, <1>3, PTL DEF Spec

(* Balancers that move every channel as a whole, from hub to hub: the case of
   a system that uses no replication, which needs no hypothesis on the draws. *)
THEOREM MovedChannelsFollow ==
  (\A x \in Proposals : x.strategy = "default" /\ \E h \in Hubs : x.shards = {h})
     => (Spec => []SubscribedAsPlanned)
  <1> SUFFICES ASSUME \A x \in Proposals : x.strategy = "default" /\ \E h \in Hubs : x.shards = {h}
               PROVE  HubsApart
    BY AlwaysSubscribedAsPlanned
  <1>1. ASSUME NEW m, Proposable(m)
        PROVE  m.strategy = "default" /\ \E h \in Hubs : m.shards = {h}
    BY <1>1, PlansAssumption DEF Proposable, SameMapping, DefaultMapping
  <1>2. \A m, draw : Proposable(m) => \E h \in Hubs : m.shards = {h} /\ SubscriptionShards(m, draw) = {h}
    BY <1>1 DEF SubscriptionShards
  <1>3. ASSUME NEW draw, NEW m, NEW n, Proposable(m), Proposable(n)
        PROVE  LET M == SubscriptionShards(m, draw)  N == SubscriptionShards(n, draw)
               IN  /\ M = N \/ M \cap N = {}
                   /\ SameMapping(m, n) => M = N
    <2>1. PICK g \in Hubs : m.shards = {g} /\ SubscriptionShards(m, draw) = {g}
      BY <1>2, <1>3
    <2>2. PICK h \in Hubs : n.shards = {h} /\ SubscriptionShards(n, draw) = {h}
      BY <1>2, <1>3
    <2> QED BY <2>1, <2>2 DEF SameMapping
  <1> QED BY <1>3 DEF HubsApart
=============================================================================
