----------------------------- MODULE PlanSwitch -----------------------------
(***************************************************************************)
(* How the clients of the Dynamoth engine follow the plans of the load     *)
(* balancer (DynamothRPubManager, LocalLoadAnalyzer, JedisRPubClient),     *)
(* with lazy propagation: plans are sent to the load analyzers only, one   *)
(* beside every hub.  Messages carry the plan id of the mapping they were  *)
(* sent under, and an analyzer that sees an old one answers its source     *)
(* with the new mapping of the channel.                                    *)
(*                                                                         *)
(* A message passes through a hub to its receivers: one FIFO queue per hub *)
(* and receiver, as the pipelines of Jedis and Redis give; the time it     *)
(* waits to be sent is not told apart from the time it waits to be         *)
(* received.  A node is a client or the engine of an analyzer (named by    *)
(* its hub).  What applications publish is not looked at, only where it is *)
(* sent and under which plan id.                                           *)
(***************************************************************************)
EXTENDS Plans, Sequences, FiniteSets, FiniteSetsExt, Functions

CONSTANTS
  Clients,
  Proposals,     \* the mappings the rebalancers choose from
  NoMessage,     \* no publication has been started
  Draws,         \* what the random selectors may draw: plan id -> hub
  MaxPlans,      \* bounds: plans made, the first one included,
  MaxChanges,    \*   plans and requests together, a plan counting as two,
  MaxRequests,   \*   subscriptions an application asks for,
  MaxBacklog     \*   messages waiting in a queue when more are sent

ASSUME SwitchAssumption ==
  /\ Proposals \subseteq [shards : (SUBSET Hubs) \ {{}}, strategy : Strategies]
  /\ Draws \subseteq [0 .. MaxPlans - 1 -> Hubs]
  /\ MaxPlans \in Nat \ {0} /\ MaxRequests \in Nat /\ MaxBacklog \in Nat
  /\ MaxChanges \in Nat

VARIABLES
  lbPlan,      \* the load balancer's current plan
  pushed,      \* the plans it has sent, in order, the first plan before them
  received,    \* analyzer -> how many of them it has received
  history,     \* analyzer -> its planHistory
  applying,    \* analyzer -> it is in applyPlan
  lastSent,    \* analyzer -> channel -> plan id in lastUpdateSent, None if none
  plan,        \* client -> its current plan
  own,         \* client -> its currentSubscriptions
  sending,     \* client -> the publication it is sending, hub by hub
  subscribed,  \* hub -> who is subscribed to what on it
  toAnalyzer,  \* hub -> messages for its analyzer's listener
  toEngine,    \* hub -> unicast messages for its analyzer's engine
  toClient,    \* client -> hub -> messages on its connection
  picks,       \* client -> plan id -> the hub RepeatableRandomSelector draws
  requests,    \* client -> requests it may still make
  raced        \* history: clients that applied a plan with a request pending

queueVars == <<toAnalyzer, toEngine, toClient>>
lbVars == <<lbPlan, pushed>>
analyzerVars == <<received, history, applying, lastSent>>
clientVars == <<plan, own, sending, picks, requests, raced>>
netVars == <<subscribed, queueVars>>
pvars == <<lbVars, analyzerVars, clientVars, netVars>>
-----------------------------------------------------------------------------
Nodes == Clients \cup Hubs
None == MaxPlans           \* no plan has this id

\* What a hub knows of a subscription.
Subscription(k, c) == <<k, c>>

\* Messages: publications of the application, subscriptions and
\* unsubscriptions of a client to itself, changes of mapping published on the
\* channel, and changes of mapping sent to a node.
Publication(k, c, id) == [type |-> "publish", from |-> k, ch |-> c, id |-> id]
SubscriptionMessage(type, k, c, id, infra) ==
  [type |-> type, from |-> k, ch |-> c, id |-> id, infra |-> infra]
ChannelChange(h, c, id, m) ==
  [type |-> "change", from |-> h, ch |-> c, id |-> id, mapping |-> m]
DirectChange(h, c, n, m) ==
  [type |-> "direct", from |-> h, ch |-> c, to |-> n, mapping |-> m]

Last(s) == s[Len(s)]

\* Who receives a message on hub h: clients their own subscriptions and the
\* changes addressed to them or published on channels they are subscribed to.
Receives(k, h, msg) ==
  \/ msg.type \in {"subscribe", "unsubscribe"} /\ msg.from = k
  \/ msg.type = "direct" /\ msg.to = k
  \/ msg.type = "change" /\ Subscription(k, msg.ch) \in subscribed[h]

\* The queues with msg relayed by every hub of hs, after what qs holds.  An
\* analyzer's listener is subscribed to every channel (what is sent on unicast
\* channels it does not judge here); nobody consumes messages of its own.
Relayed(qs, hs, msg) ==
  [clients |-> [k \in Clients |-> [h \in Hubs |->
     IF h \in hs /\ Receives(k, h, msg) THEN Append(qs.clients[k][h], msg)
     ELSE qs.clients[k][h]]],
   analyzers |-> [h \in Hubs |->
     IF h \in hs /\ msg.type # "direct" THEN Append(qs.analyzers[h], msg)
     ELSE qs.analyzers[h]],
   engines |-> [g \in Hubs |->
     IF msg.type = "direct" /\ msg.to = g /\ msg.from # g
     THEN Append(qs.engines[g], msg) ELSE qs.engines[g]]]
Queues == [clients |-> toClient, analyzers |-> toAnalyzer, engines |-> toEngine]
SetQueues(qs) ==
  /\ toClient' = qs.clients
  /\ toAnalyzer' = qs.analyzers
  /\ toEngine' = qs.engines

\* Messages on their way.
InFlight ==
  LET total(q) == FoldFunction(LAMBDA s, n : n + Len(s), 0, q)
      totals(qs) == FoldFunction(LAMBDA q, n : n + total(q), 0, qs)
  IN  totals(toClient) + total(toAnalyzer) + total(toEngine)

\* A bound on the senders that are not answering somebody.
Uncrowded == InFlight <= MaxBacklog

\* Before the first plan, channels are subscribed and published on the default
\* hub.
Init ==
  /\ lbPlan = FirstPlan
  /\ pushed = <<FirstPlan>>
  /\ received = [h \in Hubs |-> 1]
  /\ history = [h \in Hubs |-> <<FirstPlan>>]
  /\ applying = [h \in Hubs |-> FALSE]
  /\ lastSent = [h \in Hubs |-> [c \in Channels |-> None]]
  /\ plan = [k \in Clients |-> FirstPlan]
  /\ own \in [Clients -> SUBSET Channels]
  /\ sending = [k \in Clients |-> NoMessage]
  /\ subscribed = [h \in Hubs |->
       IF h = Default THEN {s \in Clients \X Channels : s[2] \in own[s[1]]}
                            ELSE {}]
  /\ toAnalyzer = [h \in Hubs |-> <<>>]
  /\ toEngine = [h \in Hubs |-> <<>>]
  /\ toClient = [k \in Clients |-> [h \in Hubs |-> <<>>]]
  /\ picks \in [Clients -> Draws]
  /\ requests = [k \in Clients |-> MaxRequests]
  /\ raced = {}
\* n more plans or requests, a plan being two, are within the bound.
Affordable(n) ==
  LET spent(k, m) == m + MaxRequests - requests[k]
  IN  FoldSet(spent, 2 * (Len(pushed) - 1), Clients) + n <= MaxChanges
-----------------------------------------------------------------------------
(* The load balancer.                                                      *)

\* processTimer: missing channels are merged into the current plan, and a new
\* plan of the rebalancer is numbered and sent to the analyzers.
NewPlan ==
  /\ Len(pushed) < MaxPlans /\ Affordable(2)
  /\ \A h \in Hubs : received[h] = Len(pushed)
  /\ \E seen \in SUBSET Channels :
     \E cs \in (SUBSET Channels) \ {{}} :
     \E changes \in [cs -> Proposals] :
       LET p == Merged(lbPlan, seen)
           q == NextPlan(p, changes)
       IN  /\ Proposed(p, changes) # p
           /\ lbPlan' = q
           /\ pushed' = Append(pushed, q)
  /\ UNCHANGED <<analyzerVars, clientVars, netVars>>
-----------------------------------------------------------------------------
(* The load analyzers.                                                     *)

\* applyPlan in an analyzer's engine: the plan is added to the history, then
\* the current plan is set to it, to the old one and to it again.
BeginPlan(h, p) ==
  /\ ~applying[h]
  /\ history' = [history EXCEPT ![h] = Append(@, p)]
  /\ applying' = [applying EXCEPT ![h] = TRUE]

EndPlan(h) ==
  /\ applying[h]
  /\ applying' = [applying EXCEPT ![h] = FALSE]
  /\ UNCHANGED <<lbVars, received, history, lastSent, clientVars, netVars>>

\* The plans a reader that takes no lock may find current.
CurrentPlans(h) ==
  {Last(history[h])} \cup
  (IF applying[h] THEN {history[h][Len(history[h]) - 1]} ELSE {})

\* A ChangePlanControlMessage arrives.
ReceivePlan(h) ==
  /\ received[h] < Len(pushed)
  /\ received' = [received EXCEPT ![h] = @ + 1]
  /\ BeginPlan(h, pushed[received[h] + 1])
  /\ UNCHANGED <<lbVars, lastSent, clientVars, netVars>>

\* An analyzer's engine is told of a mapping as any node is.
EngineChange(h) ==
  /\ toEngine[h] # <<>>
  /\ LET msg == Head(toEngine[h])
     IN  BeginPlan(h, ChangedMapping(Last(history[h]), msg.ch, msg.mapping))
  /\ toEngine' = [toEngine EXCEPT ![h] = Tail(@)]
  /\ UNCHANGED <<lbVars, received, lastSent, clientVars,
                 subscribed, toAnalyzer, toClient>>

\* The hubs that have received the publication too, and the one of them whose
\* analyzer answers it (chooseForwarder).
AlreadyReceived(h, m) ==
  {h} \cup (IF m.strategy = "publishers_connected" THEN m.shards ELSE {})
IsForwarder(h, m) == \A g \in AlreadyReceived(h, m) : h <= g

\* (Bug variant of Judged: plan id 0 is taken for no plan.)
JudgedNumbered(h, msg) ==
  /\ msg.type # "unsubscribe"
  /\ Len(history[h]) > 1
  /\ msg.id \in 1 .. Len(history[h]) - 1

\* forwardPublicationWithReplication: the plan ids a message can be judged by.
Judged(h, msg) ==
  /\ msg.type # "unsubscribe"
  /\ Len(history[h]) > 1
  /\ msg.id < Len(history[h])

\* The mapping the source used, read from the history at the id it sent.
SourceMapping(h, msg) == MappingOf(history[h][msg.id + 1], msg.ch)

\* The mapping is out of date and it is this analyzer that answers.
Answers(h, msg, m) ==
  /\ Judged(h, msg)
  /\ SourceMapping(h, msg).id < m.id
  /\ IsForwarder(h, SourceMapping(h, msg))

\* The answer: once per plan id the change is published on the hubs of the
\* last plan but one; it is always sent to the source, through its unicast
\* channel on the default hub.
Analyze(h) ==
  /\ toAnalyzer[h] # <<>>
  /\ LET msg == Head(toAnalyzer[h])
         c == msg.ch
         rest == [Queues EXCEPT !.analyzers[h] = Tail(@)]
         previous == MappingOf(history[h][Len(history[h]) - 1], c).shards
     IN  \E p, q \in CurrentPlans(h) :
           LET m == MappingOf(p, c)
               change == ChannelChange(h, c, MappingOf(q, c).id, m)
               direct == DirectChange(h, c, msg.from, m)
           IN  \/ /\ ~Answers(h, msg, m)
                  /\ SetQueues(rest)
                  /\ UNCHANGED lastSent
               \/ /\ Answers(h, msg, m)
                  /\ lastSent[h][c] = m.id
                  /\ SetQueues(Relayed(rest, {Default}, direct))
                  /\ UNCHANGED lastSent
               \/ /\ Answers(h, msg, m)
                  /\ lastSent[h][c] # m.id
                  /\ lastSent' = [lastSent EXCEPT ![h][c] = m.id]
                  /\ SetQueues(Relayed(Relayed(rest, previous, change),
                                       {Default}, direct))
  /\ UNCHANGED <<lbVars, received, history, applying, clientVars, subscribed>>
-----------------------------------------------------------------------------
(* The clients.                                                            *)

\* publishToChannel, in two steps: the hubs are chosen under planChangeLock ...
Publish(k, c) ==
  /\ sending[k] = NoMessage
  /\ Uncrowded
  /\ sending' = [sending EXCEPT ![k] =
       [ch |-> c, hubs |-> PublicationShards(MappingOf(plan[k], c), picks[k])]]
  /\ UNCHANGED <<lbVars, analyzerVars, plan, own, picks, requests, raced, netVars>>

\* ... and for each hub prePublishToChannel stamps the message with the plan id
\* it finds, under no lock.
SendTo(k, h) ==
  /\ sending[k] # NoMessage
  /\ h \in sending[k].hubs
  /\ LET c == sending[k].ch
         rest == sending[k].hubs \ {h}
     IN  /\ SetQueues(Relayed(Queues, {h},
                              Publication(k, c, MappingOf(plan[k], c).id)))
         /\ sending' = [sending EXCEPT ![k] =
              IF rest = {} THEN NoMessage ELSE [@ EXCEPT !.hubs = rest]]
  /\ UNCHANGED <<lbVars, analyzerVars, plan, own, picks, requests, raced,
                 subscribed>>

\* subscribeChannel and unsubscribeChannel: a message to oneself, on the
\* subscription hubs of the current plan.
Request(k, c, type) ==
  /\ requests[k] > 0 /\ Affordable(1)
  /\ Uncrowded
  /\ requests' = [requests EXCEPT ![k] = @ - 1]
  /\ LET m == MappingOf(plan[k], c)
     IN  SetQueues(Relayed(Queues, SubscriptionShards(m, picks[k]),
                           SubscriptionMessage(type, k, c, m.id, FALSE)))
  /\ UNCHANGED <<lbVars, analyzerVars, plan, own, sending, picks, raced,
                 subscribed>>

\* Subscription messages of k about c that have not come back to it.
Pending(k, c, infras) ==
  \E h \in Hubs : \E i \in DOMAIN toClient[k][h] :
    LET msg == toClient[k][h][i]
    IN  /\ msg.type \in {"subscribe", "unsubscribe"}
        /\ msg.ch = c /\ msg.infra \in infras

\* applyPlan: own channels are subscribed on every subscription hub of the new
\* plan when one of them is new, and unsubscribed on every one of the old plan
\* when one of them is left.
Resubscribed(qs, k, c, q) ==
  LET m == MappingOf(plan[k], c)
      n == MappingOf(q, c)
      subs == IF ToSubscribe(plan[k], q, c, picks[k]) = {} THEN {}
              ELSE SubscriptionShards(n, picks[k])
      unsubs == IF ToUnsubscribe(plan[k], q, c, picks[k]) = {} THEN {}
                ELSE SubscriptionShards(m, picks[k])
  IN  Relayed(
        Relayed(qs, subs, SubscriptionMessage("subscribe", k, c, n.id, TRUE)),
        unsubs, SubscriptionMessage("unsubscribe", k, c, m.id, TRUE))

\* A mapping arrives, directly or on the channel: it is set whatever its id.
ReceiveChange(k, h) ==
  /\ toClient[k][h] # <<>>
  /\ LET msg == Head(toClient[k][h])
         c == msg.ch
         q == ChangedMapping(plan[k], c, msg.mapping)
         rest == [Queues EXCEPT !.clients[k][h] = Tail(@)]
     IN  /\ msg.type \in {"change", "direct"}
         /\ plan' = [plan EXCEPT ![k] = q]
         /\ SetQueues(IF c \in own[k] THEN Resubscribed(rest, k, c, q) ELSE rest)
         /\ raced' = IF Pending(k, c, {FALSE}) THEN raced \cup {k} ELSE raced
  /\ UNCHANGED <<lbVars, analyzerVars, own, sending, picks, requests,
                 subscribed>>

\* The client's own subscription comes back from hub h: the connection is
\* subscribed or unsubscribed there (JedisRPubClient.onMessage), and what the
\* application asked for is noted (processSubscriptionMessage).
ReceiveSubscribe(k, h) ==
  /\ toClient[k][h] # <<>>
  /\ LET msg == Head(toClient[k][h])
     IN  /\ msg.type = "subscribe"
         /\ subscribed' = [subscribed EXCEPT ![h] = @ \cup {Subscription(k, msg.ch)}]
         /\ own' = IF msg.infra THEN own
                   ELSE [own EXCEPT ![k] = @ \cup {msg.ch}]
  /\ toClient' = [toClient EXCEPT ![k][h] = Tail(@)]
  /\ UNCHANGED <<lbVars, analyzerVars, plan, sending, picks, requests, raced,
                 toAnalyzer, toEngine>>

ReceiveUnsubscribe(k, h) ==
  /\ toClient[k][h] # <<>>
  /\ LET msg == Head(toClient[k][h])
     IN  /\ msg.type = "unsubscribe"
         /\ subscribed' = [subscribed EXCEPT ![h] = @ \ {Subscription(k, msg.ch)}]
         /\ own' = IF msg.infra THEN own
                   ELSE [own EXCEPT ![k] = @ \ {msg.ch}]
  /\ toClient' = [toClient EXCEPT ![k][h] = Tail(@)]
  /\ UNCHANGED <<lbVars, analyzerVars, plan, sending, picks, requests, raced,
                 toAnalyzer, toEngine>>
-----------------------------------------------------------------------------
AnalyzerNext(h) == ReceivePlan(h) \/ EndPlan(h) \/ EngineChange(h) \/ Analyze(h)
ClientNext(k) ==
  \/ \E c \in Channels : \/ Publish(k, c)
                         \/ Request(k, c, "subscribe")
                         \/ Request(k, c, "unsubscribe")
  \/ \E h \in Hubs : \/ SendTo(k, h)
                     \/ ReceiveChange(k, h)
                     \/ ReceiveSubscribe(k, h)
                     \/ ReceiveUnsubscribe(k, h)

Next ==
  \/ NewPlan
  \/ \E h \in Hubs : AnalyzerNext(h)
  \/ \E k \in Clients : ClientNext(k)

Spec == Init /\ [][Next]_pvars

\* Threads run, connections deliver, and the applications publish on and on.
FairSpec ==
  /\ Spec
  /\ \A h \in Hubs : /\ WF_pvars(ReceivePlan(h))
                     /\ WF_pvars(EndPlan(h))
                     /\ WF_pvars(EngineChange(h))
                     /\ WF_pvars(Analyze(h))
  /\ \A k \in Clients, h \in Hubs : /\ WF_pvars(SendTo(k, h))
                                    /\ WF_pvars(ReceiveChange(k, h))
                                    /\ WF_pvars(ReceiveSubscribe(k, h))
                                    /\ WF_pvars(ReceiveUnsubscribe(k, h))
  /\ \A k \in Clients, c \in Channels : WF_pvars(Publish(k, c))
-----------------------------------------------------------------------------
(* What should be true.                                                    *)

Messages ==
  [type : {"publish"}, from : Clients, ch : Channels, id : Nat]
  \cup [type : {"subscribe", "unsubscribe"}, from : Clients, ch : Channels,
        id : Nat, infra : BOOLEAN]
  \cup [type : {"change"}, from : Hubs, ch : Channels, id : Nat,
        mapping : Mappings]
  \cup [type : {"direct"}, from : Hubs, ch : Channels, to : Nodes,
        mapping : Mappings]

\* Every variable has its type; an analyzer has at least as many plans in its
\* history as it received, and one more while it applies a plan.
TypeOK ==
  /\ IsPlan(lbPlan)
  /\ Len(pushed) \in 1 .. MaxPlans
  /\ \A i \in DOMAIN pushed : IsPlan(pushed[i])
  /\ received \in [Hubs -> 1 .. Len(pushed)]
  /\ \A h \in Hubs : \A i \in DOMAIN history[h] : IsPlan(history[h][i])
  /\ applying \in [Hubs -> BOOLEAN]
  /\ \A h \in Hubs : /\ received[h] <= Len(history[h])
                     /\ applying[h] => Len(history[h]) > 1
  /\ lastSent \in [Hubs -> [Channels -> 0 .. None]]
  /\ \A k \in Clients : IsPlan(plan[k])
  /\ own \in [Clients -> SUBSET Channels]
  /\ sending \in [Clients -> {NoMessage} \cup
                   [ch : Channels, hubs : (SUBSET Hubs) \ {{}}]]
  /\ subscribed \in [Hubs -> SUBSET (Clients \X Channels)]
  /\ toAnalyzer \in [Hubs -> Seq(Messages)]
  /\ toEngine \in [Hubs -> Seq(Messages)]
  /\ toClient \in [Clients -> [Hubs -> Seq(Messages)]]
  /\ picks \in [Clients -> Draws]
  /\ requests \in [Clients -> 0 .. MaxRequests]
  /\ raced \subseteq Clients

\* The plan id a client has for a channel tells the mapping it uses: analyzers
\* look the source's mapping up in their history by this id alone.
PlanIdsTellMappings ==
  \A k \in Clients, c \in Channels :
    LET m == MappingOf(plan[k], c)
    IN  SameMapping(m, MappingOf(pushed[m.id + 1], c))

Where(k, c) == {h \in Hubs : Subscription(k, c) \in subscribed[h]}

\* Through any number of plan changes, late and repeated ones included, a client
\* with no subscription messages on their way is subscribed to its channels on
\* the hubs of its plan and on no other; unless a plan was applied while a
\* request of its application was on its way.  (The state is well typed.)
SubscribedAsPlanned ==
  TypeOK /\ \A k \in Clients \ raced, c \in Channels :
    ~Pending(k, c, BOOLEAN) =>
      Where(k, c) = IF c \in own[k]
                    THEN SubscriptionShards(MappingOf(plan[k], c), picks[k])
                    ELSE {}

\* When no more plans are made, a client that goes on publishing on a channel
\* ends up with the load balancer's mapping of it, though plans are sent to the
\* analyzers only.
PublishersFollow ==
  \A k \in Clients, c \in Channels :
    <>[]SameMapping(MappingOf(plan[k], c), MappingOf(lbPlan, c))
=============================================================================
