----------------------------- MODULE CacheServer -----------------------------
(***************************************************************************)
(* The RMI cache server (CacheWise/Impl/CacheServer.java) with the objects *)
(* it holds (SubjectPlus.java, BaseObject.java), thread by thread.         *)
(*                                                                         *)
(* Every RMI call runs in a thread of its own.  performOperation looks the *)
(* SubjectPlus up, then enters the monitor of the hashtable, compares the  *)
(* versions, publishes the operation and applies it.  Hashtable.get and    *)
(* put use the same monitor, so they wait while an operation is performed; *)
(* what getObj does after its lookup (SubjectPlus.getSerialized) is under  *)
(* no lock at all and interleaves with every step of an update.            *)
(*                                                                         *)
(* An object's content is the sequence of operations applied to it since   *)
(* it was loaded.  Serialized bytes hold a version and a content, which    *)
(* Java's serialization reads one after the other: BaseObject's fields     *)
(* first, the subclass's afterwards.                                       *)
(***************************************************************************)
EXTENDS Operations, Sequences, FiniteSets

CONSTANTS
  Keys, Threads,
  LoadVersions,   \* versions of the objects clients load
  NoThread,       \* the monitor is free
  NoBytes,        \* null as a byte array
  MaxVersion,     \* bound: versions the clients ask for
  MaxLoads,       \* bound: calls of loadObj
  MaxPublished    \* bound: publications on one key

ASSUME ServerAssumption ==
  /\ LoadVersions \subseteq Nat
  /\ NoThread \notin Threads
  /\ MaxVersion \in Nat /\ MaxLoads \in Nat /\ MaxPublished \in Nat

VARIABLES
  table,      \* the hashtable: key -> index in subject, 0 if absent
  subject,    \* every SubjectPlus ever created, in order
  lock,       \* the thread inside the monitor of the hashtable
  published,  \* key -> messages sent to its channel (src: which SubjectPlus)
  pc, frame,  \* where each thread is, and the locals of its call
  acked       \* history: per SubjectPlus, the operations answered with true

svars == <<table, subject, lock, published, pc, frame, acked>>
-----------------------------------------------------------------------------
Bytes == [ver : Nat, data : Seq(Ops)]

NewSubject(k, v) ==
  [key |-> k, base |-> v, ver |-> v, data |-> <<>>,
   ser |-> [ver |-> v, data |-> <<>>]]

\* The locals of a call: the looked-up SubjectPlus, the operation, the
\* version it carries, and the bytes being produced.
NoFrame == [s |-> 0, op |-> NoBytes, ver |-> 0, snap |-> NoBytes]

Goto(t, label) == pc' = [pc EXCEPT ![t] = label]
Return(t) ==
  /\ Goto(t, "idle")
  /\ frame' = [frame EXCEPT ![t] = NoFrame]

Subj(t) == subject[frame[t].s]

Init ==
  /\ table = [k \in Keys |-> 0]
  /\ subject = <<>>
  /\ lock = NoThread
  /\ published = [k \in Keys |-> <<>>]
  /\ pc = [t \in Threads |-> "idle"]
  /\ frame = [t \in Threads |-> NoFrame]
  /\ acked = <<>>
-----------------------------------------------------------------------------
\* (Bug variant of LoadObj: the key is bound to an object not there yet.)
LoadObjMisbound(t, k, v) ==
  /\ pc[t] = "idle" /\ lock = NoThread
  /\ Len(subject) < MaxLoads
  /\ subject' = Append(subject, NewSubject(k, v))
  /\ table' = [table EXCEPT ![k] = Len(subject) + 2]
  /\ acked' = Append(acked, <<>>)
  /\ UNCHANGED <<lock, published, pc, frame>>

\* loadObj: a new SubjectPlus replaces whatever the key held.
LoadObj(t, k, v) ==
  /\ pc[t] = "idle" /\ lock = NoThread
  /\ Len(subject) < MaxLoads
  /\ subject' = Append(subject, NewSubject(k, v))
  /\ table' = [table EXCEPT ![k] = Len(subject) + 1]
  /\ acked' = Append(acked, <<>>)
  /\ UNCHANGED <<lock, published, pc, frame>>

\* performOperation up to its synchronized block: the lookup.  (The bound
\* on publications counts the calls that may still publish.)
PerformLookup(t, k, op, v) ==
  /\ pc[t] = "idle" /\ lock = NoThread
  /\ Len(published[k]) + Cardinality({u \in Threads : pc[u] = "enter"})
       < MaxPublished
  /\ Goto(t, "enter")
  /\ frame' = [frame EXCEPT ![t] =
                 [s |-> table[k], op |-> op, ver |-> v, snap |-> NoBytes]]
  /\ UNCHANGED <<table, subject, lock, published, acked>>

\* (Bug variant of IsNext: any newer version will do.)
IsNewer(t) == frame[t].s # 0 /\ frame[t].ver > Subj(t).ver

\* The operation produces the next version of the object it was looked up for.
IsNext(t) == frame[t].s # 0 /\ frame[t].ver = Subj(t).ver + 1

\* In the monitor: no object, or not the next version.
PerformReject(t) ==
  /\ pc[t] = "enter" /\ lock = NoThread
  /\ ~IsNext(t)
  /\ Return(t)
  /\ UNCHANGED <<table, subject, lock, published, acked>>

\* (Bug variant of PerformPublish: the monitor is not waited for.)
PerformPublishUnlocked(t) ==
  /\ pc[t] = "enter"
  /\ IsNext(t)
  /\ lock' = t
  /\ published' = [published EXCEPT ![Subj(t).key] =
       Append(@, [op |-> frame[t].op, ver |-> frame[t].ver, src |-> frame[t].s])]
  /\ Goto(t, "call")
  /\ UNCHANGED <<table, subject, frame, acked>>

\* In the monitor: publish the operation, before applying it.
PerformPublish(t) ==
  /\ pc[t] = "enter" /\ lock = NoThread
  /\ IsNext(t)
  /\ lock' = t
  /\ published' = [published EXCEPT ![Subj(t).key] =
       Append(@, [op |-> frame[t].op, ver |-> frame[t].ver, src |-> frame[t].s])]
  /\ Goto(t, "call")
  /\ UNCHANGED <<table, subject, frame, acked>>

\* (Bug variant of CallFail: the monitor is not left.)
CallFailLocked(t) ==
  /\ pc[t] = "call" /\ frame[t].op \in Invalid
  /\ Return(t)
  /\ UNCHANGED <<table, subject, lock, published, acked>>

\* BaseObject.call: the method cannot be called, the answer is false.
CallFail(t) ==
  /\ pc[t] = "call" /\ frame[t].op \in Invalid
  /\ lock' = NoThread
  /\ Return(t)
  /\ UNCHANGED <<table, subject, published, acked>>

\* BaseObject.call: the method changes the object's content ...
CallInvoke(t) ==
  /\ pc[t] = "call" /\ frame[t].op \notin Invalid
  /\ subject' = [subject EXCEPT ![frame[t].s].data = Append(@, frame[t].op)]
  /\ Goto(t, "inc")
  /\ UNCHANGED <<table, lock, published, frame, acked>>

\* ... and then the version is incremented.
IncVersion(t) ==
  /\ pc[t] = "inc"
  /\ subject' = [subject EXCEPT ![frame[t].s].ver = @ + 1]
  /\ Goto(t, "discard")
  /\ UNCHANGED <<table, lock, published, frame, acked>>

\* SubjectPlus.applyUpdate throws the serialized version away; the monitor
\* is left and the call returns true.
Discard(t) ==
  /\ pc[t] = "discard"
  /\ subject' = [subject EXCEPT ![frame[t].s].ser = NoBytes]
  /\ acked' = [acked EXCEPT ![frame[t].s] =
                 Append(@, Message(frame[t].op, frame[t].ver))]
  /\ lock' = NoThread
  /\ Return(t)
  /\ UNCHANGED <<table, published>>
-----------------------------------------------------------------------------
\* getObj: the lookup; an absent key answers null at once.
GetLookup(t, k) ==
  /\ pc[t] = "idle" /\ lock = NoThread
  /\ table[k] # 0
  /\ Goto(t, "test")
  /\ frame' = [frame EXCEPT ![t].s = table[k]]
  /\ UNCHANGED <<table, subject, lock, published, acked>>

\* getSerialized: is there a serialized version?
GetTest(t) ==
  /\ pc[t] = "test"
  /\ Goto(t, IF Subj(t).ser = NoBytes THEN "sver" ELSE "return")
  /\ UNCHANGED <<table, subject, lock, published, frame, acked>>

\* serialize: the fields of BaseObject are written first ...
SerializeVersion(t) ==
  /\ pc[t] = "sver"
  /\ frame' = [frame EXCEPT ![t].ver = Subj(t).ver]
  /\ Goto(t, "sdata")
  /\ UNCHANGED <<table, subject, lock, published, acked>>

\* ... the fields of the subclass after them ...
SerializeData(t) ==
  /\ pc[t] = "sdata"
  /\ frame' = [frame EXCEPT ![t].snap =
                 [ver |-> frame[t].ver, data |-> Subj(t).data]]
  /\ Goto(t, "store")
  /\ UNCHANGED <<table, subject, lock, published, acked>>

\* (Bug variant of SerializeStore: stamped with the version of the moment.)
SerializeStoreStamped(t) ==
  /\ pc[t] = "store"
  /\ subject' = [subject EXCEPT ![frame[t].s].ser =
                    [ver |-> Subj(t).ver, data |-> frame[t].snap.data]]
  /\ Goto(t, "return")
  /\ UNCHANGED <<table, lock, published, frame, acked>>

\* ... and the bytes are assigned to o_serialized.
SerializeStore(t) ==
  /\ pc[t] = "store"
  /\ subject' = [subject EXCEPT ![frame[t].s].ser = frame[t].snap]
  /\ Goto(t, "return")
  /\ UNCHANGED <<table, lock, published, frame, acked>>

\* getSerialized reads the field again to return it: null if an update
\* discarded it meanwhile.
GetReturn(t) ==
  /\ pc[t] = "return"
  /\ Goto(t, "answer")
  /\ frame' = [frame EXCEPT ![t].snap = Subj(t).ser]
  /\ UNCHANGED <<table, subject, lock, published, acked>>

\* The bytes in frame[t].snap are the answer of getObj.
GetAnswer(t) ==
  /\ pc[t] = "answer"
  /\ Return(t)
  /\ UNCHANGED <<table, subject, lock, published, acked>>
-----------------------------------------------------------------------------
\* The steps of a thread inside a call.
Step(t) ==
  \/ PerformReject(t) \/ PerformPublish(t)
  \/ CallFail(t) \/ CallInvoke(t) \/ IncVersion(t) \/ Discard(t)
  \/ GetTest(t) \/ SerializeVersion(t) \/ SerializeData(t)
  \/ SerializeStore(t) \/ GetReturn(t) \/ GetAnswer(t)

\* A client calls the server.
Call(t) ==
  \E k \in Keys :
     \/ \E v \in LoadVersions : LoadObj(t, k, v)
     \/ \E op \in Ops, v \in 0..MaxVersion : PerformLookup(t, k, op, v)
     \/ GetLookup(t, k)

Next == \E t \in Threads : Call(t) \/ Step(t)

Spec == Init /\ [][Next]_svars

\* A running thread is not suspended for ever; nobody has to call.
FairSpec == Spec /\ \A t \in Threads : WF_svars(Step(t))
-----------------------------------------------------------------------------
Updating == {"call", "inc", "discard"}
Labels == {"idle", "enter", "test", "sver", "sdata", "store", "return",
           "answer"} \cup Updating

Subjects == [key : Keys, base : Nat, ver : Nat, data : Seq(Ops),
             ser : Bytes \cup {NoBytes}]
Frames == [s : Nat, op : Ops \cup {NoBytes}, ver : Nat,
           snap : Bytes \cup {NoBytes}]

\* The types of the variables; the hashtable leads to objects that exist.
WellTyped ==
  /\ subject \in Seq(Subjects)
  /\ table \in [Keys -> 0..Len(subject)]
  /\ lock \in Threads \cup {NoThread}
  /\ published \in [Keys -> Seq([op : Ops, ver : Nat, src : Nat])]
  /\ pc \in [Threads -> Labels]
  /\ frame \in [Threads -> Frames]
  /\ acked \in Seq(Seq([op : Ops, ver : Nat]))
  /\ Len(acked) = Len(subject)

\* A thread is between the publication of an operation and its answer exactly
\* while it holds the monitor.
UpdatesInMonitor == \A t \in Threads : pc[t] \in Updating <=> lock = t

\* The type invariant; only the thread in the monitor updates an object.
TypeOK == WellTyped /\ UpdatesInMonitor

\* An object is what the operations answered with true make of it: the i-th
\* of them asked for version base + i and is the i-th applied, so of two
\* clients asking for the same version one is refused.  Only the operation
\* being performed in the monitor may be applied and not answered yet.
AcceptedExactlyOnce ==
  \A s \in DOMAIN subject :
     LET a == acked[s]
         d == subject[s].data
     IN /\ Len(d) \in {Len(a), Len(a) + 1}
        /\ \A i \in 1..Len(a) :
              a[i] = [op |-> d[i], ver |-> subject[s].base + i]
        /\ Len(d) = Len(a) + 1 =>
              \E t \in Threads : /\ lock = t
                                 /\ pc[t] \in {"inc", "discard"}
                                 /\ frame[t].s = s

\* The bytes b describe a past of the object: a content it had, labelled with
\* a version no newer than that content.
PastOf(b, s) ==
  /\ b.ver <= subject[s].base + Len(b.data)
  /\ Len(b.data) <= Len(subject[s].data)
  /\ b.data = SubSeq(subject[s].data, 1, Len(b.data))

\* Although getSerialized runs under no lock, neither the cached bytes nor an
\* answer of getObj is ever ahead of its own content: a client can miss
\* operations it must still apply, it cannot believe in one it has not got.
SnapshotsArePast ==
  /\ \A s \in DOMAIN subject :
        subject[s].ser # NoBytes => PastOf(subject[s].ser, s)
  /\ \A t \in Threads :
        pc[t] \in {"store", "answer"} /\ frame[t].snap # NoBytes
          => PastOf(frame[t].snap, frame[t].s)

\* "throw away serialized version" (SubjectPlus.java:26): once no update is
\* in progress, bytes kept for an object are those of its current version.  (Refuted.)
CachedIsCurrent ==
  lock = NoThread =>
    \A s \in DOMAIN subject :
       subject[s].ser # NoBytes => subject[s].ser.ver = subject[s].ver

\* Every call on the server returns: a thread waits for the monitor only
\* while another performs an operation, and that takes finitely many steps.
EveryCallReturns ==
  \A t \in Threads : pc[t] # "idle" ~> pc[t] = "idle"
-----------------------------------------------------------------------------
\* The first SubjectPlus as the object that VersionedObject specifies, which
\* numbers versions from the one it was loaded at.  The abstract operation is
\* pending from its publication to its call.
CalledOn(s) ==
  {t \in Threads : lock = t /\ pc[t] = "call" /\ frame[t].s = s}

\* The messages of the s-th SubjectPlus, loaded at version base, among all
\* those of its channel.
MessagesFor(s, base, all) ==
  LET those[i \in 0..Len(all)] ==
        IF i = 0 THEN <<>>
        ELSE IF all[i].src = s
             THEN Append(those[i - 1], Message(all[i].op, all[i].ver - base))
             ELSE those[i - 1]
  IN  those[Len(all)]

FirstObject ==
  INSTANCE VersionedObject WITH
    NoOp <- NoThread,
    history <- IF subject = <<>> THEN <<>> ELSE subject[1].data,
    pending <- IF CalledOn(1) = {} THEN NoThread
               ELSE frame[CHOOSE t \in CalledOn(1) : TRUE].op,
    published <- IF subject = <<>> THEN <<>>
                 ELSE MessagesFor(1, subject[1].base, published[subject[1].key])

\* Whatever the interleaving of its threads, the server publishes and applies
\* the operations on its first object as VersionedObject does.
ImplementsVersionedObject == FirstObject!VOSpec
=============================================================================
