----------------------------- MODULE CacheClient -----------------------------
(***************************************************************************)
(* The cache clients of one object (CacheWise/CacheClient.java): in each,  *)
(* the application's thread and the reactor's thread share the hashtable   *)
(* of bundles under no common lock.  They are composed with the object     *)
(* VersionedObject specifies (the server) and with the key's channel.      *)
(* getObj answers any of the bytes that CacheServer's SnapshotsArePast     *)
(* admits: the object of now or of an earlier moment, or null.             *)
(*                                                                         *)
(* Subscribing sends a request that takes effect later, and an operation   *)
(* published reaches the subscribers later still.  A thread is a pair of   *)
(* a client and a role; its pc names the next step of the method it is in. *)
(***************************************************************************)
EXTENDS VersionedObject, ObjectBundle, FiniteSets

CONSTANTS
  Clients,
  Stored,       \* clients that start with a bundle of their own
  Joined,       \* clients whose subscription is in effect from the start
  NoBody,       \* no thread holds the monitor of a bundle
  MaxGets,      \* bounds: remoteGet calls of each application,
  MaxPerforms,  \*   its remotePerform calls,
  MaxUnsubs,    \*   its unsubscribe calls,
  MaxOthers,    \*   operations performed by clients outside the model,
  MaxLost,      \*   messages that do not reach a client,
  MaxFailed     \*   RMI calls that end in a RemoteException

ASSUME ClientAssumption ==
  /\ Stored \subseteq Clients /\ Joined \subseteq Clients
  /\ MaxGets \in Nat /\ MaxPerforms \in Nat /\ MaxUnsubs \in Nat
  /\ MaxOthers \in Nat /\ MaxLost \in Nat /\ MaxFailed \in Nat

VARIABLES
  table,         \* client -> index in bundles of the key's bundle, 0 if none
  bundles,       \* client -> every ObjectBundle it created, in order
  monitor,       \* client -> bundle -> the thread in apply
  subscription,  \* client -> occurrences of the key in the list subscription
  requests,      \* client -> subscribe and unsubscribe messages on their way
  subscribers,   \* the clients the channel delivers to
  routed,        \* how many of the published operations the channel delivered
  inbox,         \* client -> operations received, waiting for the reactor
  pc, frame,     \* where each thread is, and the locals of its method
  caller,        \* the thread whose operation is pending at the server
  left           \* what remains of each bound

clientVars == <<table, bundles, monitor>>
channelVars == <<subscription, requests, subscribers, routed, inbox>>
threadVars == <<pc, frame, caller>>
cvars == <<vvars, clientVars, channelVars, threadVars, left>>
-----------------------------------------------------------------------------
App(c) == <<c, "app">>
Reactor(c) == <<c, "reactor">>
Threads == Clients \X {"app", "reactor"}
Others == <<"others">>

\* null is neither a thread nor an object.
ASSUME NullAssumption == NoBody \notin Threads /\ NoObject \notin Objects

\* The locals: the object to store, the bundle in use, the operation, and what
\* follows localPut.
NoFrame == [obj |-> NoObject, ref |-> 0, msg |-> NoOp, next |-> "idle"]

Goto(t, label) == pc' = [pc EXCEPT ![t] = label]
Return(t) ==
  /\ Goto(t, "idle")
  /\ frame' = [frame EXCEPT ![t] = NoFrame]

\* What follows localPut: the end of operationReceived, or the step named.
AfterPut(t) ==
  IF frame[t].next = "idle" THEN Return(t)
  ELSE Goto(t, frame[t].next) /\ UNCHANGED frame

\* remoteGet is called, whatever the caller was doing.
GetAgain(t) ==
  /\ Goto(t, "get")
  /\ frame' = [frame EXCEPT ![t] = NoFrame]

\* A NullPointerException: Reactor.slice catches it, an application dies.
Throws(t) ==
  /\ Goto(t, IF t[2] = "app" THEN "dead" ELSE "idle")
  /\ frame' = [frame EXCEPT ![t] = NoFrame]

Spend(what) == left[what] > 0 /\ left' = [left EXCEPT ![what] = @ - 1]
SpendOf(what, c) ==
  left[what][c] > 0 /\ left' = [left EXCEPT ![what][c] = @ - 1]

Ref(t) == bundles[t[1]][frame[t].ref]
SetRef(t, b) == bundles' = [bundles EXCEPT ![t[1]][frame[t].ref] = b]
Unlocked(t) == monitor[t[1]][frame[t].ref] = NoBody
SetMonitor(t, u) == monitor' = [monitor EXCEPT ![t[1]][frame[t].ref] = u]

\* The object localGet returns, NoObject also when there is no bundle.
LocalObject(c) ==
  IF table[c] = 0 THEN NoObject ELSE bundles[c][table[c]].obj

Init ==
  /\ VOInit
  /\ table = [c \in Clients |-> IF c \in Stored THEN 1 ELSE 0]
  /\ bundles = [c \in Clients |->
                  IF c \in Stored THEN <<NewBundle(Whole(<<>>))>> ELSE <<>>]
  /\ monitor = [c \in Clients |-> IF c \in Stored THEN <<NoBody>> ELSE <<>>]
  /\ subscription = [c \in Clients |-> IF c \in Joined THEN 1 ELSE 0]
  /\ requests = [c \in Clients |-> <<>>]
  /\ subscribers = Joined
  /\ routed = 0
  /\ inbox = [c \in Clients |-> <<>>]
  /\ pc = [t \in Threads |-> "idle"]
  /\ frame = [t \in Threads |-> NoFrame]
  /\ caller = NoBody
  /\ left = [gets     |-> [c \in Clients |-> MaxGets],
             performs |-> [c \in Clients |-> MaxPerforms],
             unsubs   |-> [c \in Clients |-> MaxUnsubs],
             others |-> MaxOthers, lost |-> MaxLost, failed |-> MaxFailed]
-----------------------------------------------------------------------------
(* The channel.                                                            *)

\* A subscribe or unsubscribe message takes effect (JedisRPubClient.onMessage).
Establish(c) ==
  /\ requests[c] # <<>>
  /\ subscribers' = IF Head(requests[c]) = "subscribe"
                    THEN subscribers \cup {c} ELSE subscribers \ {c}
  /\ requests' = [requests EXCEPT ![c] = Tail(@)]
  /\ UNCHANGED <<vvars, clientVars, subscription, routed, inbox, threadVars,
                 left>>

\* The next published operation reaches the subscribers, but for a set of them.
Route(missed) ==
  /\ routed < Len(published)
  /\ missed \subseteq subscribers
  /\ Cardinality(missed) <= left.lost
  /\ left' = [left EXCEPT !.lost = @ - Cardinality(missed)]
  /\ routed' = routed + 1
  /\ inbox' = [c \in Clients |->
                 IF c \in subscribers \ missed
                 THEN Append(inbox[c], published[routed + 1]) ELSE inbox[c]]
  /\ UNCHANGED <<vvars, clientVars, subscription, requests, subscribers,
                 threadVars>>

\* A client outside the model performs an operation of the next version ...
OtherPublish(op) ==
  /\ Spend("others")
  /\ VOPublish(op)
  /\ caller' = Others
  /\ UNCHANGED <<clientVars, channelVars, pc, frame>>

\* ... and the server applies it, or fails to.
OtherAnswered ==
  /\ caller = Others
  /\ VOApply \/ VOFail
  /\ caller' = NoBody
  /\ UNCHANGED <<clientVars, channelVars, pc, frame, left>>
-----------------------------------------------------------------------------
(* What an application calls.                                              *)

\* subscribe: the list is not consulted, the request is sent.
Subscribe(c) ==
  /\ pc[App(c)] = "idle" /\ subscription[c] = 0
  /\ subscription' = [subscription EXCEPT ![c] = @ + 1]
  /\ requests' = [requests EXCEPT ![c] = Append(@, "subscribe")]
  /\ UNCHANGED <<vvars, clientVars, subscribers, routed, inbox, threadVars,
                 left>>

\* unsubscribe: one occurrence leaves the list.
Unsubscribe(c) ==
  /\ pc[App(c)] = "idle" /\ subscription[c] > 0
  /\ SpendOf("unsubs", c)
  /\ subscription' = [subscription EXCEPT ![c] = @ - 1]
  /\ requests' = [requests EXCEPT ![c] = Append(@, "unsubscribe")]
  /\ UNCHANGED <<vvars, clientVars, subscribers, routed, inbox, threadVars>>

CallRemoteGet(c) ==
  /\ pc[App(c)] = "idle"
  /\ SpendOf("gets", c)
  /\ Goto(App(c), "get")
  /\ UNCHANGED <<vvars, clientVars, channelVars, frame, caller>>

\* remotePerform(key, new Operation(getNextVersion(key), op)): the version is
\* computed here, long before the server sees it; 0 stands for the -1 of a
\* null object, which the server refuses as well.
CallRemotePerform(c, op) ==
  /\ pc[App(c)] = "idle" /\ table[c] # 0
  /\ SpendOf("performs", c)
  /\ LET o == LocalObject(c)
         next == IF o = NoObject THEN 0 ELSE Version(o) + 1
     IN frame' = [frame EXCEPT ![App(c)].msg = Message(op, next)]
  /\ Goto(App(c), "subscribe")
  /\ UNCHANGED <<vvars, clientVars, channelVars, caller>>
-----------------------------------------------------------------------------
(* remoteGet and remotePerform, in either thread.                          *)

\* if (!subscription.contains(key)): the test ...
TestSubscription(t) ==
  /\ pc[t] \in {"get", "subscribe"}
  /\ LET after == IF pc[t] = "get" THEN "fetch" ELSE "perform"
     IN /\ Goto(t, IF subscription[t[1]] > 0 THEN after ELSE "request")
        /\ frame' = [frame EXCEPT ![t].next = after]
  /\ UNCHANGED <<vvars, clientVars, channelVars, caller, left>>

\* ... and the subscription.
RequestSubscription(t) ==
  /\ pc[t] = "request"
  /\ subscription' = [subscription EXCEPT ![t[1]] = @ + 1]
  /\ requests' = [requests EXCEPT ![t[1]] = Append(@, "subscribe")]
  /\ Goto(t, frame[t].next)
  /\ UNCHANGED <<vvars, clientVars, subscribers, routed, inbox, frame,
                 caller, left>>

\* (Bug variant of PerformRefused: the same operation is tried again.)
PerformRetried(t) ==
  /\ pc[t] = "perform" /\ pending = NoOp
  /\ frame[t].msg.ver # Len(history) + 1
  /\ Goto(t, "subscribe")
  /\ UNCHANGED <<vvars, clientVars, channelVars, frame, caller, left>>

\* The operation does not ask for the next version: the server returns false
\* and the client gets the object.
PerformRefused(t) ==
  /\ pc[t] = "perform" /\ pending = NoOp
  /\ frame[t].msg.ver # Len(history) + 1
  /\ GetAgain(t)
  /\ UNCHANGED <<vvars, clientVars, channelVars, caller, left>>

\* It does, and is published by the server.
PerformPublished(t) ==
  /\ pc[t] = "perform" /\ frame[t].msg.ver = Len(history) + 1
  /\ VOPublish(frame[t].msg.op)
  /\ caller' = t
  /\ Goto(t, "performing")
  /\ UNCHANGED <<clientVars, channelVars, frame, left>>

\* The server applied it and returns true, or failed to and returns false.
PerformAnswered(t) ==
  /\ pc[t] = "performing" /\ caller = t
  /\ caller' = NoBody
  /\ \/ VOApply /\ Return(t)
     \/ VOFail /\ GetAgain(t)
  /\ UNCHANGED <<clientVars, channelVars, left>>

\* What getObj may answer.  Bytes may have been kept from before the last
\* operations, and serialized while operations were applied: their version is
\* then older than their content.  They are null if an operation discards
\* them between getSerialized's test and its return.
Answers ==
  {NoObject} \cup
  UNION {{[ver |-> v, data |-> SubSeq(history, 1, n)] : v \in 0..n} :
            n \in 0..Len(history)}

\* server.getObj: a null object is not stored, and the method ends.
Fetch(t) ==
  /\ pc[t] = "fetch"
  /\ \/ \E o \in Answers \ {NoObject} :
           /\ frame' = [frame EXCEPT ![t].obj = o, ![t].next = "bundle"]
           /\ Goto(t, "put")
     \/ Return(t)
  /\ UNCHANGED <<vvars, clientVars, channelVars, caller, left>>

\* A RemoteException is caught where the method called the server, which may
\* have published the operation by then: it goes on without the caller.
RemoteFailure(t) ==
  /\ pc[t] \in {"fetch", "perform", "performing", "missed"}
  /\ Spend("failed")
  /\ Return(t)
  /\ caller' = IF pc[t] = "performing" THEN Others ELSE caller
  /\ UNCHANGED <<vvars, clientVars, channelVars>>

\* localPut: does the hashtable hold the key?
PutTest(t) ==
  /\ pc[t] = "put"
  /\ Goto(t, IF table[t[1]] # 0 THEN "set" ELSE "new")
  /\ UNCHANGED <<vvars, clientVars, channelVars, frame, caller, left>>

\* localPut: setObj, which is not synchronized.
PutSet(t) ==
  /\ pc[t] = "set"
  /\ bundles' = [bundles EXCEPT ![t[1]][table[t[1]]].obj = frame[t].obj]
  /\ AfterPut(t)
  /\ UNCHANGED <<vvars, table, monitor, channelVars, caller, left>>

\* localPut: a new bundle replaces whatever the hashtable holds by now.
PutNew(t) ==
  /\ pc[t] = "new"
  /\ LET c == t[1]
     IN /\ bundles' = [bundles EXCEPT ![c] = Append(@, NewBundle(frame[t].obj))]
        /\ monitor' = [monitor EXCEPT ![c] = Append(@, NoBody)]
        /\ table' = [table EXCEPT ![c] = Len(bundles[c]) + 1]
  /\ AfterPut(t)
  /\ UNCHANGED <<vvars, channelVars, caller, left>>

\* getBundle, before apply and before queue.
GetBundle(t) ==
  /\ pc[t] \in {"bundle", "lookup"}
  /\ frame' = [frame EXCEPT ![t].ref = table[t[1]]]
  /\ Goto(t, IF pc[t] = "bundle" THEN "apply" ELSE "queue")
  /\ UNCHANGED <<vvars, clientVars, channelVars, caller, left>>

\* apply: prepareQueue, in the monitor, which asks the object for its version
\* if there is an operation to compare it with.
ApplyPrepare(t) ==
  /\ pc[t] = "apply" /\ Unlocked(t)
  /\ \/ /\ Ref(t).methods # <<>> /\ Ref(t).obj = NoObject
        /\ Throws(t)
        /\ UNCHANGED <<bundles, monitor>>
     \/ /\ Ref(t).methods = <<>> \/ Ref(t).obj # NoObject
        /\ SetRef(t, IF Ref(t).methods = <<>> THEN Ref(t) ELSE PrepareQueue(Ref(t)))
        /\ SetMonitor(t, t)
        /\ Goto(t, "head") /\ UNCHANGED frame
  /\ UNCHANGED <<vvars, table, channelVars, caller, left>>

\* apply: is the first operation left the next one of the object, which may be
\* another by now?  (A null object is set only while nothing is queued.)
ApplyTest(t) ==
  /\ pc[t] = "head"
  /\ \/ /\ Ref(t).methods = <<>>
        /\ Return(t) /\ SetMonitor(t, NoBody)
     \/ /\ HeadFits(Ref(t))
        /\ Goto(t, "loop") /\ UNCHANGED <<frame, monitor>>
     \/ /\ Ref(t).methods # <<>> /\ ~HeadFits(Ref(t))
        /\ GetAgain(t) /\ SetMonitor(t, NoBody)
  /\ UNCHANGED <<vvars, table, bundles, channelVars, caller, left>>

\* apply: one turn of the loop; the monitor is left after the last one.
ApplyNext(t) ==
  /\ pc[t] = "loop"
  /\ LET b == ApplyHead(Ref(t))
     IN /\ SetRef(t, b)
        /\ IF b.methods = <<>>
           THEN SetMonitor(t, NoBody) /\ Return(t)
           ELSE UNCHANGED <<monitor, pc, frame>>
  /\ UNCHANGED <<vvars, table, channelVars, caller, left>>
-----------------------------------------------------------------------------
(* operationReceived, in the reactor's thread.                             *)

\* The reactor takes the next message and looks the bundle up.
OperationReceived(c) ==
  LET t == Reactor(c)
  IN /\ pc[t] = "idle" /\ inbox[c] # <<>>
     /\ inbox' = [inbox EXCEPT ![c] = Tail(@)]
     /\ Goto(t, IF table[c] = 0 THEN "put" ELSE "queue")
     /\ frame' = [frame EXCEPT ![t] = [obj |-> NoObject, ref |-> table[c],
                                       msg |-> Head(inbox[c]), next |-> "lookup"]]
     /\ UNCHANGED <<vvars, clientVars, subscription, requests, subscribers,
                    routed, caller, left>>

\* bundle.queue(operation)
QueueOperation(t) ==
  /\ pc[t] = "queue" /\ Unlocked(t)
  /\ SetRef(t, Queue(Ref(t), frame[t].msg))
  /\ Goto(t, IF QueueReturns(Ref(t), frame[t].msg) THEN "queued" ELSE "missed")
  /\ UNCHANGED <<vvars, table, monitor, channelVars, frame, caller, left>>

\* (Bug variant of Queued: nothing is applied.)
QueuedOnly(t) ==
  /\ pc[t] = "queued"
  /\ Return(t)
  /\ UNCHANGED <<vvars, clientVars, channelVars, caller, left>>

\* Queued: apply at once, unless the object has not been received yet.
Queued(t) ==
  /\ pc[t] = "queued"
  /\ \/ Ref(t).obj # NoObject /\ Goto(t, "apply") /\ UNCHANGED frame
     \/ Ref(t).obj = NoObject /\ Return(t)
  /\ UNCHANGED <<vvars, clientVars, channelVars, caller, left>>

\* Not queued: the message that is logged asks the object for its key, which
\* throws when there is no object; otherwise a copy is fetched.
MissedOperation(t) ==
  /\ pc[t] = "missed"
  /\ \/ Ref(t).obj = NoObject /\ Throws(t)
     \/ /\ Ref(t).obj # NoObject
        /\ \/ \E o \in Answers \ {NoObject} :
                 /\ frame' = [frame EXCEPT ![t].obj = o, ![t].next = "idle"]
                 /\ Goto(t, "put")
           \/ Return(t)
  /\ UNCHANGED <<vvars, clientVars, channelVars, caller, left>>
-----------------------------------------------------------------------------
\* The steps of a thread inside a method.
Step(t) ==
  \/ TestSubscription(t) \/ RequestSubscription(t)
  \/ PerformRefused(t) \/ PerformPublished(t) \/ PerformAnswered(t)
  \/ Fetch(t) \/ PutTest(t) \/ PutSet(t) \/ PutNew(t) \/ GetBundle(t)
  \/ ApplyPrepare(t) \/ ApplyTest(t) \/ ApplyNext(t)
  \/ QueueOperation(t) \/ Queued(t) \/ MissedOperation(t)

\* What an application may do next.
Application(c) ==
  \/ Subscribe(c) \/ Unsubscribe(c) \/ CallRemoteGet(c)
  \/ \E op \in Ops : CallRemotePerform(c, op)

Next ==
  \/ \E t \in Threads : Step(t) \/ RemoteFailure(t)
  \/ \E c \in Clients : Application(c) \/ OperationReceived(c) \/ Establish(c)
  \/ \E missed \in SUBSET Clients : Route(missed)
  \/ \E op \in Ops : OtherPublish(op)
  \/ OtherAnswered

Spec == Init /\ [][Next]_cvars

\* Threads run, the server answers, the channel delivers; nobody has to call.
Fairness ==
  /\ \A t \in Threads : WF_cvars(Step(t))
  /\ \A c \in Clients :
        WF_cvars(OperationReceived(c)) /\ WF_cvars(Establish(c))
  /\ WF_cvars(\E missed \in SUBSET Clients : Route(missed))
  /\ WF_cvars(OtherAnswered)

FairSpec == Spec /\ Fairness
-----------------------------------------------------------------------------
Labels == {"idle", "get", "subscribe", "request", "fetch", "perform",
           "performing", "put", "set", "new", "bundle", "lookup", "apply",
           "head", "loop", "queue", "queued", "missed", "dead"}

\* The type invariant.
TypeOK ==
  /\ history \in Seq(Ops) /\ pending \in Ops \cup {NoOp}
  /\ published \in Seq(Messages)
  /\ \A c \in Clients :
        /\ bundles[c] \in Seq(Bundles)
        /\ table[c] \in 0..Len(bundles[c])
        /\ monitor[c] \in [DOMAIN bundles[c] -> Threads \cup {NoBody}]
        /\ inbox[c] \in Seq(Messages)
        /\ subscription[c] \in Nat
        /\ requests[c] \in Seq({"subscribe", "unsubscribe"})
  /\ subscribers \subseteq Clients
  /\ routed \in 0..Len(published)
  /\ pc \in [Threads -> Labels]
  /\ \A t \in Threads :
        /\ frame[t].obj \in Objects \cup {NoObject}
        /\ frame[t].ref \in 0..Len(bundles[t[1]])
        /\ frame[t].msg \in Messages \cup {NoOp}
        /\ frame[t].next \in Labels
  /\ caller \in Threads \cup {Others, NoBody}

\* Whatever was lost, refused or cleared, a queue never has a hole: the
\* operations in it have consecutive versions.  (The state is well typed.)
QueuesContiguous ==
  TypeOK /\ \A c \in Clients : \A b \in DOMAIN bundles[c] : Contiguous(bundles[c][b])

\* The server's object once the published operation is applied: a client may
\* have applied it before the server.
Promised ==
  IF pending \in Ops \ Invalid THEN Append(history, pending) ELSE history

\* "updates are valid, apply" (ObjectBundle.java:102): an operation is applied
\* to the object of the version just below its own.  (Refuted.)
UpdatesAreValid ==
  \A t \in Threads :
     pc[t] = "loop" => Head(Ref(t).methods).ver = Version(Ref(t).obj) + 1

\* "fetch latest copy of key=... from server" (CacheClient.java:264): when an
\* operation cannot be queued the reactor goes on to the copy it fetched.
\* (Refuted.)
MissedMeansFetched ==
  [][\A c \in Clients :
       pc[Reactor(c)] = "missed" /\ pc'[Reactor(c)] # "missed"
         => pc'[Reactor(c)] = "put"]_cvars

\* "if object exists, replace, otherwise, create new" (CacheClient.java:121):
\* localPut creates a bundle only for a key that has none.  (Refuted.)
CreatesIfAbsent == \A t \in Threads : pc[t] = "new" => table[t[1]] = 0

\* "fetch latest copy of key=... from server" (CacheClient.java:264): the copy
\* fetched for an operation that could not be queued contains that operation.
\* (Refuted: it is published before it is applied, and the bytes may be old.)
FetchedIsLatest ==
  [][\A c \in Clients :
       LET t == Reactor(c)
       IN  pc[t] = "missed" /\ pc'[t] = "put"
             => frame'[t].obj.ver >= frame[t].msg.ver]_cvars

\* Copies only move forward.  (Refuted: what is fetched may be older than what
\* it replaces.)
CopiesMoveForward ==
  [][\A c \in Clients :
       NoObject \notin {LocalObject(c), LocalObject(c)'}
         => LocalObject(c)'.ver >= LocalObject(c).ver]_cvars

\* A client that stays subscribed ends up with the server's object, provided
\* that no message to it is lost and no call on the server fails.
Converges ==
  \A c \in Clients :
     LET undisturbed == /\ left.lost = MaxLost /\ left.failed = MaxFailed
                        /\ left.unsubs[c] = MaxUnsubs
     IN  <>[](undisturbed => LocalObject(c) = Whole(history))

Inside(t) == pc[t] \notin {"idle", "dead"}

\* Every method returns.  (Refuted: while the server keeps old bytes, remoteGet
\* finds the same gap and calls itself.)
MethodsAlwaysReturn == \A t \in Threads : Inside(t) ~> ~Inside(t)

\* A method is answered with an object that is not the server's.
AnsweredOld(t) ==
  pc[t] = "fetch" /\ pc'[t] = "put" /\ frame'[t].obj # Whole(history)

\* Every method returns unless getObj answers it with old bytes for ever: a
\* thread waits for a bundle only while another applies its queue, and
\* remoteGet calls itself only until the server has applied what it published.
MethodsReturn ==
  \A c \in Clients :
     LET own == {App(c), Reactor(c)}
     IN  \/ \A t \in own : Inside(t) ~> ~Inside(t)
         \/ []<><<\E t \in own : AnsweredOld(t)>>_cvars

\* The copies of the clients, as CachedCopies sees them.
Copies ==
  INSTANCE CachedCopies WITH
    accepted <- Promised,
    copy <- [c \in Clients |-> LocalObject(c)]

\* A client whose reactor alone touches its copy keeps what the cache
\* promises, whatever messages are lost, whatever calls fail and however old
\* the server's answers are: an operation is applied to its copy only if it is
\* the one accepted for the next version, and otherwise the copy is replaced by
\* one that is not ahead of its content.
ImplementsCachedCopies == Copies!CCSpec
=============================================================================
