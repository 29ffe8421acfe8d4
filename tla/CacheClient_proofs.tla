-------------------------- MODULE CacheClient_proofs --------------------------
(***************************************************************************)
(* Proofs about CacheClient: for any clients, operations and bounds, the   *)
(* queues of the bundles have no holes; and where only reactors touch the  *)
(* copies, the copies are those CachedCopies specifies.                    *)
(***************************************************************************)
EXTENDS CacheClient, SequenceTheorems, WellFoundedInduction, TLAPS

Frames == [obj : Objects \cup {NoObject}, ref : Nat,
           msg : Messages \cup {NoOp}, next : Labels]

\* TypeOK, with the variables that are functions said to be functions.
ServerTyped ==
  /\ history \in Seq(Ops) /\ pending \in Ops \cup {NoOp}
  /\ published \in Seq(Messages)
ChannelTyped ==
  /\ inbox \in [Clients -> Seq(Messages)]
  /\ subscription \in [Clients -> Nat]
  /\ requests \in [Clients -> Seq({"subscribe", "unsubscribe"})]
  /\ subscribers \subseteq Clients
  /\ routed \in 0..Len(published)
ClientTyped ==
  /\ table \in [Clients -> Nat]
  /\ bundles \in [Clients -> Seq(Bundles)]
  /\ monitor \in [Clients -> Seq(Threads \cup {NoBody})]
  /\ \A c \in Clients : Len(monitor[c]) = Len(bundles[c]) /\ table[c] <= Len(bundles[c])
ThreadTyped ==
  /\ pc \in [Threads -> Labels]
  /\ frame \in [Threads -> Frames]
  /\ \A t \in Threads : frame[t].ref <= Len(bundles[t[1]])
  /\ caller \in Threads \cup {Others, NoBody}

\* A thread is in localPut, or in the monitor of a bundle.
Puts == {"put", "set", "new"}
Applying == {"head", "loop"}

\* The locals f a thread t needs where it is: what its method has looked up
\* or tested before it came to l.
Fits(t, l, f) ==
  /\ l \in {"set", "bundle", "lookup"} => table[t[1]] # 0
  /\ l \in Applying \cup {"apply", "queue", "queued", "missed"} => f.ref # 0
  /\ l = "request" => f.next \in {"fetch", "perform"}
  /\ l \in Puts => f.next \in {"idle", "bundle", "lookup"}
  /\ \/ l \in {"subscribe", "perform", "lookup", "queue"}
     \/ l = "request" /\ f.next = "perform"
     \/ l \in Puts /\ f.next = "lookup"
     => f.msg \in Messages
  /\ l \in {"lookup", "queue", "queued", "missed"} \/ (l \in Puts /\ f.next # "bundle")
     => t[2] = "reactor"
  /\ l \in Puts /\ f.obj = NoObject => f.next = "lookup"

\* Operations are queued only by the reactor, so while it puts a null object
\* nothing is queued: the object of a bundle being applied stays.
Empty(c) == \A b \in 1..Len(bundles[c]) : bundles[c][b].methods = <<>>

\* What a thread at label l in the monitor of a bundle b relies on: there is an
\* object if there is an operation, and there is one in the loop.
Ready(l, b) ==
  /\ b.methods # <<>> => b.obj # NoObject
  /\ l = "loop" => b.methods # <<>>
Holds(t) == monitor[t[1]][frame[t].ref] = t /\ Ready(pc[t], Ref(t))

InMethod(t) ==
  /\ Fits(t, pc[t], frame[t])
  /\ pc[t] \in Puts /\ frame[t].obj = NoObject => Empty(t[1])
  /\ pc[t] \in Applying => Holds(t)

NoBundle == \A c \in Clients : table[c] = 0 => bundles[c] = <<>>
NoHoles ==
  \A c \in Clients : \A b \in 1..Len(bundles[c]) : Contiguous(bundles[c][b])

Local == ClientTyped /\ ThreadTyped /\ NoBundle /\ NoHoles /\ \A t \in Threads : InMethod(t)
IInv == ServerTyped /\ ChannelTyped /\ Local
-----------------------------------------------------------------------------
(* The bundle's operators.                                                 *)

\* Queueing an operation makes no hole.
LEMMA QueueKeeps ==
  ASSUME NEW b \in Bundles, NEW m \in Messages, Contiguous(b)
  PROVE  Queue(b, m) \in Bundles /\ Contiguous(Queue(b, m)) /\ Queue(b, m).obj = b.obj
<1>1. /\ b.methods \in Seq(Messages) /\ Len(b.methods) \in Nat
      /\ \A i \in 1..Len(b.methods) : b.methods[i] \in Messages
  BY LenProperties, ElementOfSeq DEF Bundles
<1>2. CASE Accepts(b, m)
  <2> DEFINE q == Append(b.methods, m)
  <2>1. Queue(b, m) = [b EXCEPT !.methods = q]
    BY <1>2 DEF Queue
  <2>2. /\ q \in Seq(Messages) /\ Len(q) = Len(b.methods) + 1
        /\ \A i \in 1..Len(b.methods) : q[i] = b.methods[i]
        /\ q[Len(b.methods) + 1] = m
    BY <1>1, AppendProperties
  <2> HIDE DEF q
  <2>3. Queue(b, m) \in Bundles /\ Queue(b, m).methods = q /\ Queue(b, m).obj = b.obj
    BY <2>1, <2>2 DEF Bundles
  <2>4. ASSUME NEW i \in 1..(Len(q) - 1)
        PROVE  q[i + 1].ver = q[i].ver + 1
    <3>1. CASE i < Len(b.methods)
      BY <1>1, <2>2, <3>1 DEF Contiguous
    <3>2. CASE i = Len(b.methods)
      <4>1. b.methods # <<>>
        BY <1>1, <2>2, <3>2, EmptySeq
      <4>2. m.ver = b.methods[i].ver + 1
        BY <1>2, <3>2, <4>1 DEF Accepts, HasBasis, Basis, LastVersion
      <4> QED  BY <1>1, <2>2, <3>2, <4>2
    <3> QED  BY <1>1, <2>2, <3>1, <3>2
  <2> QED  BY <2>3, <2>4 DEF Contiguous
<1>3. CASE ~Accepts(b, m) /\ Missed(b, m)
  <2>1. Queue(b, m) = [b EXCEPT !.methods = <<>>]
    BY <1>3 DEF Queue
  <2>2. Queue(b, m) \in Bundles /\ Queue(b, m).methods = <<>> /\ Queue(b, m).obj = b.obj
    BY <2>1, EmptySeq DEF Bundles
  <2> QED  BY <2>2, EmptySeq DEF Contiguous
<1>4. CASE ~Accepts(b, m) /\ ~Missed(b, m)
  <2>1. Queue(b, m) = [b EXCEPT !.methods = b.methods]
    BY <1>4 DEF Queue
  <2>2. Queue(b, m) = b
    BY <2>1 DEF Bundles
  <2> QED  BY <2>2
<1> QED  BY <1>2, <1>3, <1>4

\* A nonempty set of indices has a first one.
LEMMA FirstIndex ==
  ASSUME NEW T, T \subseteq Nat, T # {}
  PROVE  \E i \in T : \A j \in T : i <= j
<1>1. PICK i \in T : \A j \in T : ~(<<j, i>> \in OpToRel(<, Nat))
  BY WFMin, NatLessThanWellFounded
<1>2. \A j \in T : ~(j < i)
  BY <1>1 DEF OpToRel
<1> QED  BY <1>2

\* What is left of a queue without holes has no holes.
LEMMA SuffixKeeps ==
  ASSUME NEW b \in Bundles, Contiguous(b), NEW k \in 1..Len(b.methods)
  PROVE  LET r == [b EXCEPT !.methods = SubSeq(b.methods, k, Len(b.methods))]
         IN r \in Bundles /\ Contiguous(r) /\ r.methods # <<>> /\ r.obj = b.obj
<1> DEFINE q == SubSeq(b.methods, k, Len(b.methods))
<1> DEFINE r == [b EXCEPT !.methods = q]
<1>1. b.methods \in Seq(Messages) /\ Len(b.methods) \in Nat
  BY LenProperties DEF Bundles
<1>2. /\ q \in Seq(Messages) /\ Len(q) = Len(b.methods) - k + 1
      /\ \A i \in 1..(Len(b.methods) - k + 1) : q[i] = b.methods[k + i - 1]
  BY <1>1, SubSeqProperties
<1> HIDE DEF q
<1>3. q # <<>>
  BY <1>1, <1>2, EmptySeq
<1>4. r \in Bundles /\ r.methods = q /\ r.obj = b.obj
  BY <1>2 DEF Bundles
<1>5. \A i \in 1..(Len(q) - 1) : q[i + 1].ver = q[i].ver + 1
  <2> SUFFICES ASSUME NEW i \in 1..(Len(q) - 1)  PROVE q[i + 1].ver = q[i].ver + 1
    OBVIOUS
  <2>1. q[i + 1] = b.methods[(k + i - 1) + 1] /\ q[i] = b.methods[k + i - 1]
    BY <1>1, <1>2
  <2>2. k + i - 1 \in 1..(Len(b.methods) - 1)
    BY <1>1, <1>2
  <2> QED  BY <2>1, <2>2 DEF Contiguous
<1> QED  BY <1>3, <1>4, <1>5 DEF q, Contiguous

(* prepareQueue drops what the object already has: what is left is still    *)
(* without a hole.                                                          *)
LEMMA PrepareKeeps ==
  ASSUME NEW b \in Bundles, Contiguous(b), b.obj # NoObject
  PROVE  /\ PrepareQueue(b) \in Bundles /\ Contiguous(PrepareQueue(b))
         /\ PrepareQueue(b).obj = b.obj
<1>1. CASE Newer(b) = {}
  <2>1. PrepareQueue(b) = [b EXCEPT !.methods = <<>>]
    BY <1>1 DEF PrepareQueue
  <2>2. PrepareQueue(b) \in Bundles /\ PrepareQueue(b).methods = <<>> /\ PrepareQueue(b).obj = b.obj
    BY <2>1, EmptySeq DEF Bundles
  <2> QED  BY <2>2, EmptySeq DEF Contiguous
<1>2. CASE Newer(b) # {}
  <2>1. Newer(b) \subseteq 1..Len(b.methods) /\ Len(b.methods) \in Nat
    BY LenProperties DEF Newer, Bundles
  <2> DEFINE first == CHOOSE i \in Newer(b) : \A j \in Newer(b) : i <= j
  <2>2. first \in 1..Len(b.methods)
    BY <1>2, <2>1, FirstIndex
  <2> HIDE DEF first
  <2>3. PrepareQueue(b) = [b EXCEPT !.methods = SubSeq(b.methods, first, Len(b.methods))]
    BY <1>2 DEF PrepareQueue, first
  <2> QED  BY <2>2, <2>3, SuffixKeeps
<1> QED  BY <1>1, <1>2

\* Applying the first operation leaves a queue without holes and an object.
LEMMA HeadKeeps ==
  ASSUME NEW b \in Bundles, Contiguous(b), b.methods # <<>>, b.obj # NoObject
  PROVE  ApplyHead(b) \in Bundles /\ Contiguous(ApplyHead(b)) /\ ApplyHead(b).obj # NoObject
<1>1. /\ b.methods \in Seq(Messages) /\ Len(b.methods) \in Nat
      /\ Head(b.methods) \in Messages /\ Tail(b.methods) \in Seq(Messages)
      /\ Len(Tail(b.methods)) = Len(b.methods) - 1
      /\ \A i \in 1..Len(Tail(b.methods)) : Tail(b.methods)[i] = b.methods[i + 1]
  BY LenProperties, HeadTailProperties DEF Bundles
<1>2. ApplyUpdate(b.obj, Head(b.methods)) \in Objects
  BY <1>1, AppendProperties DEF ApplyUpdate, Bundles, Objects, Messages
<1>3. ApplyHead(b) \in Bundles /\ ApplyHead(b).obj # NoObject
  BY <1>1, <1>2, NullAssumption DEF ApplyHead, Bundles
<1>4. Contiguous(ApplyHead(b))
  BY <1>1 DEF Contiguous, ApplyHead
<1> QED  BY <1>3, <1>4
-----------------------------------------------------------------------------
(* Types.                                                                  *)

\* A thread is told by its client and its role.
LEMMA ThreadParts ==
  ASSUME NEW t \in Threads
  PROVE  /\ t[1] \in Clients /\ t[2] \in {"app", "reactor"}
         /\ \A u \in Threads : u[1] = t[1] /\ u[2] = t[2] => u = t
  BY DEF Threads

(* The two threads of a client are threads, and are its own.                *)
LEMMA ClientThreads ==
  ASSUME NEW c \in Clients
  PROVE  /\ App(c) \in Threads /\ Reactor(c) \in Threads
         /\ App(c)[1] = c /\ Reactor(c)[1] = c /\ Reactor(c)[2] = "reactor"
  BY DEF Threads, App, Reactor

(* A thread between two calls has locals, and they hold nothing.            *)
LEMMA NoFrameTyped == NoFrame \in Frames /\ NoFrame.ref = 0 /\ NoFrame.obj = NoObject
  BY DEF NoFrame, Frames, Labels

(* What the types say of the bundles of one client.                         *)
LEMMA BundleTypes ==
  ASSUME ClientTyped, NEW c \in Clients
  PROVE  /\ Len(bundles[c]) \in Nat /\ bundles[c] \in Seq(Bundles)
         /\ \A i \in 1..Len(bundles[c]) : bundles[c][i] \in Bundles
  BY LenProperties, ElementOfSeq DEF ClientTyped

\* A thread that has looked a bundle up works on a bundle that exists.
LEMMA HasBundle ==
  ASSUME ClientTyped, ThreadTyped, NEW t \in Threads, frame[t].ref # 0
  PROVE  frame[t].ref \in 1..Len(bundles[t[1]]) /\ Ref(t) \in Bundles
<1>1. t[1] \in Clients /\ frame[t].ref \in Nat /\ frame[t].ref <= Len(bundles[t[1]])
  BY ThreadParts DEF ThreadTyped, Frames
<1>2. frame[t].ref \in 1..Len(bundles[t[1]])
  BY <1>1, BundleTypes
<1> QED  BY <1>1, <1>2, BundleTypes DEF Ref

\* Bundle i of client c becomes b, or its monitor is taken or left; all others
\* stay as they are.
BundleSet(c, i, b) ==
  /\ bundles' \in [Clients -> Seq(Bundles)]
  /\ \A d \in Clients : Len(bundles'[d]) = Len(bundles[d])
  /\ bundles'[c][i] = b
  /\ \A d \in Clients : d # c => bundles'[d] = bundles[d]
  /\ \A j \in 1..Len(bundles[c]) : j # i => bundles'[c][j] = bundles[c][j]
MonitorSet(c, i, x) ==
  /\ monitor' \in [Clients -> Seq(Threads \cup {NoBody})]
  /\ \A d \in Clients : Len(monitor'[d]) = Len(bundles[d])
  /\ monitor'[c][i] = x
  /\ \A d \in Clients : d # c => monitor'[d] = monitor[d]
  /\ \A j \in 1..Len(bundles[c]) : j # i => monitor'[c][j] = monitor[c][j]

(* Replacing the bundle a thread refers to is replacing one bundle of its   *)
(* client.                                                                  *)
LEMMA RefIsSet ==
  ASSUME ClientTyped, ThreadTyped, NEW t \in Threads, frame[t].ref # 0,
         NEW b \in Bundles, SetRef(t, b)
  PROVE  BundleSet(t[1], frame[t].ref, b)
<1> DEFINE s == [bundles[t[1]] EXCEPT ![frame[t].ref] = b]
<1>1. /\ t[1] \in Clients /\ bundles[t[1]] \in Seq(Bundles)
      /\ frame[t].ref \in 1..Len(bundles[t[1]])
  BY ThreadParts, HasBundle DEF ClientTyped
<1>2. /\ s \in Seq(Bundles) /\ Len(s) = Len(bundles[t[1]])
      /\ \A j \in 1..Len(bundles[t[1]]) :
            s[j] = IF j = frame[t].ref THEN b ELSE bundles[t[1]][j]
  BY <1>1, ExceptSeq
<1>3. bundles' = [bundles EXCEPT ![t[1]] = s]
  BY DEF SetRef
<1> HIDE DEF s
<1> QED  BY <1>1, <1>2, <1>3 DEF ClientTyped, BundleSet

(* So is taking or leaving the monitor of that bundle.                      *)
LEMMA MonitorIsSet ==
  ASSUME ClientTyped, ThreadTyped, NEW t \in Threads, frame[t].ref # 0,
         NEW x \in Threads \cup {NoBody}, SetMonitor(t, x)
  PROVE  MonitorSet(t[1], frame[t].ref, x)
<1> DEFINE s == [monitor[t[1]] EXCEPT ![frame[t].ref] = x]
<1>1. /\ t[1] \in Clients /\ monitor[t[1]] \in Seq(Threads \cup {NoBody})
      /\ Len(monitor[t[1]]) = Len(bundles[t[1]])
      /\ frame[t].ref \in 1..Len(bundles[t[1]])
  BY ThreadParts, HasBundle DEF ClientTyped
<1>2. /\ s \in Seq(Threads \cup {NoBody}) /\ Len(s) = Len(bundles[t[1]])
      /\ \A j \in 1..Len(bundles[t[1]]) :
            s[j] = IF j = frame[t].ref THEN x ELSE monitor[t[1]][j]
  BY <1>1, ExceptSeq
<1>3. monitor' = [monitor EXCEPT ![t[1]] = s]
  BY DEF SetMonitor
<1> HIDE DEF s
<1> QED  BY <1>1, <1>2, <1>3 DEF ClientTyped, MonitorSet

\* A monitor that is left alone is set to what it is.
LEMMA MonitorStays ==
  ASSUME ClientTyped, NEW c \in Clients, NEW i \in 1..Len(bundles[c]), monitor' = monitor
  PROVE  monitor[c][i] \in Threads \cup {NoBody} /\ MonitorSet(c, i, monitor[c][i])
  BY ElementOfSeq DEF ClientTyped, MonitorSet

(* The invariant implies the property.                                      *)
LEMMA IInvTypes ==
  ASSUME IInv  PROVE QueuesContiguous
<1>1. \A c \in Clients : bundles[c] \in Seq(Bundles) /\ DOMAIN bundles[c] = 1..Len(bundles[c])
  BY LenProperties DEF IInv, Local, ClientTyped
<1>2. \A c \in Clients : monitor[c] \in [DOMAIN bundles[c] -> Threads \cup {NoBody}]
  <2> SUFFICES ASSUME NEW c \in Clients
               PROVE  monitor[c] \in [DOMAIN bundles[c] -> Threads \cup {NoBody}]
    OBVIOUS
  <2>1. monitor[c] \in Seq(Threads \cup {NoBody}) /\ Len(monitor[c]) = Len(bundles[c])
    BY DEF IInv, Local, ClientTyped
  <2>2. monitor[c] \in [1..Len(monitor[c]) -> Threads \cup {NoBody}]
    BY <2>1, LenProperties
  <2> QED  BY <1>1, <2>1, <2>2
<1>3. \A c \in Clients : table[c] \in 0..Len(bundles[c])
  BY BundleTypes DEF IInv, Local, ClientTyped
<1>4. \A t \in Threads : frame[t].ref \in 0..Len(bundles[t[1]])
  BY ThreadParts, BundleTypes DEF IInv, Local, ThreadTyped, Frames
<1>5. \A t \in Threads : /\ frame[t].obj \in Objects \cup {NoObject}
                         /\ frame[t].msg \in Messages \cup {NoOp} /\ frame[t].next \in Labels
  BY DEF IInv, Local, ThreadTyped, Frames
<1>6. TypeOK
  BY <1>1, <1>2, <1>3, <1>4, <1>5
     DEF IInv, Local, ServerTyped, ChannelTyped, ClientTyped, ThreadTyped, TypeOK
<1>7. \A c \in Clients : \A b \in DOMAIN bundles[c] : Contiguous(bundles[c][b])
  BY <1>1 DEF IInv, Local, NoHoles
<1> QED  BY <1>6, <1>7 DEF QueuesContiguous

(* It holds at the start.                                                   *)
LEMMA IInvInit ==
  ASSUME Init  PROVE IInv
<1> USE DEF Init
<1>1. NewBundle(Whole(<<>>)) \in Bundles /\ Contiguous(NewBundle(Whole(<<>>)))
  BY EmptySeq DEF NewBundle, Whole, Bundles, Objects, Contiguous
<1>2. ServerTyped
  BY EmptySeq DEF VOInit, ServerTyped
<1>3. ChannelTyped
  <2>1. \A S : <<>> \in Seq(S)
    BY EmptySeq
  <2>2. routed \in 0..Len(published)
    BY EmptySeq DEF VOInit
  <2> QED  BY <2>1, <2>2, ClientAssumption DEF ChannelTyped
<1>4. /\ <<NewBundle(Whole(<<>>))>> \in Seq(Bundles) /\ Len(<<NewBundle(Whole(<<>>))>>) = 1
      /\ <<NewBundle(Whole(<<>>))>>[1] = NewBundle(Whole(<<>>))
      /\ <<NoBody>> \in Seq(Threads \cup {NoBody}) /\ Len(<<NoBody>>) = 1
      /\ \A S : <<>> \in Seq(S)
      /\ Len(<<>>) = 0
  BY <1>1, EmptySeq
<1>5. ClientTyped
  <2> DEFINE one == <<NewBundle(Whole(<<>>))>>
  <2> DEFINE m == <<NoBody>>
  <2>1. one \in Seq(Bundles) /\ Len(one) = 1 /\ m \in Seq(Threads \cup {NoBody}) /\ Len(m) = 1
    BY <1>4
  <2>2. /\ bundles = [c \in Clients |-> IF c \in Stored THEN one ELSE <<>>]
        /\ monitor = [c \in Clients |-> IF c \in Stored THEN m ELSE <<>>]
    OBVIOUS
  <2> HIDE DEF one, m
  <2>3. bundles \in [Clients -> Seq(Bundles)] /\ monitor \in [Clients -> Seq(Threads \cup {NoBody})]
    BY <1>4, <2>1, <2>2
  <2>4. \A c \in Clients : Len(monitor[c]) = Len(bundles[c]) /\ table[c] <= Len(bundles[c])
    BY <1>4, <2>1, <2>2
  <2> QED  BY <2>3, <2>4 DEF ClientTyped
<1>6. NoBundle /\ NoHoles
  BY <1>1, <1>4 DEF NoBundle, NoHoles
<1>7. ThreadTyped
  BY NoFrameTyped, <1>5, BundleTypes, ThreadParts DEF ThreadTyped, Labels
<1>8. \A t \in Threads : InMethod(t)
  BY DEF InMethod, Fits, Puts, Applying
<1> QED  BY <1>2, <1>3, <1>5, <1>6, <1>7, <1>8 DEF IInv, Local
-----------------------------------------------------------------------------
(* What a step changes.                                                    *)

\* Nothing of the clients' changes.
LEMMA LocalStays ==
  ASSUME Local, UNCHANGED <<clientVars, pc, frame>>,
         caller' \in Threads \cup {Others, NoBody}
  PROVE  Local'
<1> USE DEF clientVars
<1>1. ClientTyped' /\ NoBundle' /\ NoHoles'
  BY DEF Local, ClientTyped, NoBundle, NoHoles
<1>2. ThreadTyped'
  BY DEF Local, ThreadTyped
<1>3. ASSUME NEW u \in Threads  PROVE InMethod(u)'
  BY DEF Local, InMethod, Fits, Empty, Holds, Ref
<1> QED  BY <1>1, <1>2, <1>3 DEF Local

\* A thread goes to a label outside of monitors, with locals that fit.
LEMMA ThreadMoves ==
  ASSUME Local, NEW t \in Threads, NEW l \in Labels \ Applying, NEW f \in Frames,
         pc' = [pc EXCEPT ![t] = l], frame' = [frame EXCEPT ![t] = f],
         UNCHANGED clientVars, caller' \in Threads \cup {Others, NoBody},
         f.ref <= Len(bundles[t[1]]), Fits(t, l, f),
         l \in Puts /\ f.obj = NoObject => Empty(t[1])
  PROVE  Local'
<1> USE DEF clientVars
<1>1. ClientTyped' /\ NoBundle' /\ NoHoles'
  BY DEF Local, ClientTyped, NoBundle, NoHoles
<1>2. /\ pc' \in [Threads -> Labels] /\ frame' \in [Threads -> Frames]
      /\ pc'[t] = l /\ frame'[t] = f
      /\ \A u \in Threads : u # t => pc'[u] = pc[u] /\ frame'[u] = frame[u]
  BY DEF Local, ThreadTyped
<1>3. ThreadTyped'
  BY <1>2 DEF Local, ThreadTyped
<1>4. InMethod(t)'
  BY <1>2 DEF InMethod, Fits, Empty
<1>5. ASSUME NEW u \in Threads, u # t  PROVE InMethod(u)'
  BY <1>2, <1>5 DEF Local, InMethod, Fits, Empty, Holds, Ref
<1> QED  BY <1>1, <1>3, <1>4, <1>5 DEF Local

\* The same, when the locals stay.
LEMMA ThreadGoes ==
  ASSUME Local, NEW t \in Threads, NEW l \in Labels \ Applying,
         pc' = [pc EXCEPT ![t] = l], frame' = frame,
         UNCHANGED clientVars, caller' \in Threads \cup {Others, NoBody},
         Fits(t, l, frame[t]),
         l \in Puts /\ frame[t].obj = NoObject => Empty(t[1])
  PROVE  Local'
<1>1. frame' = [frame EXCEPT ![t] = frame[t]] /\ frame[t] \in Frames
      /\ frame[t].ref <= Len(bundles[t[1]])
  BY DEF Local, ThreadTyped
<1> QED  BY <1>1, ThreadMoves

\* A method ends, or starts from the beginning.
LEMMA ThreadResets ==
  ASSUME Local, NEW t \in Threads, NEW l \in {"idle", "dead", "get"},
         pc' = [pc EXCEPT ![t] = l], frame' = [frame EXCEPT ![t] = NoFrame],
         UNCHANGED clientVars, caller' \in Threads \cup {Others, NoBody}
  PROVE  Local'
<1>1. l \in Labels \ Applying /\ Fits(t, l, NoFrame) /\ l \notin Puts
  BY DEF Labels, Fits, Puts, Applying
<1>2. NoFrame.ref <= Len(bundles[t[1]])
  BY NoFrameTyped, ThreadParts, BundleTypes DEF Local
<1> QED  BY <1>1, <1>2, NoFrameTyped, ThreadMoves

\* The change of a bundle and its monitor leaves all threads but t with what
\* they rely on.
Unharmed(t, i, b, x) ==
  \A u \in Threads \ {t} :
     /\ u[1] = t[1] /\ pc[u] \in Puts /\ frame[u].obj = NoObject => b.methods = <<>>
     /\ u[1] = t[1] /\ pc[u] \in Applying /\ frame[u].ref = i
          => x = u /\ Ready(pc[u], b)

\* A thread goes to label l with locals f.
Moves(t, l, f) ==
  /\ pc' = [pc EXCEPT ![t] = l] /\ frame' = [frame EXCEPT ![t] = f]
  /\ f.ref <= Len(bundles[t[1]])

\* A thread changes one bundle, and perhaps its monitor.
LEMMA BundleStep ==
  ASSUME Local, NEW t \in Threads, NEW l \in Labels \ Puts, NEW f \in Frames,
         NEW i \in 1..Len(bundles[t[1]]), NEW b \in Bundles, Contiguous(b),
         NEW x \in Threads \cup {NoBody},
         Moves(t, l, f), Fits(t, l, f),
         BundleSet(t[1], i, b), MonitorSet(t[1], i, x),
         UNCHANGED <<table, caller>>,
         l \in Applying => f.ref = i /\ x = t /\ Ready(l, b),
         Unharmed(t, i, b, x)
  PROVE  Local'
<1>0. t[1] \in Clients /\ \A u \in Threads : u[1] \in Clients
  BY ThreadParts
<1> USE DEF BundleSet, MonitorSet, Unharmed, Moves
<1>1. ClientTyped'
  BY DEF Local, ClientTyped
<1>2. NoBundle'
  <2>1. \A c \in Clients : table[c] = 0 => Len(bundles[c]) = 0
    BY EmptySeq DEF Local, NoBundle
  <2> QED  BY <1>0, <2>1 DEF Local, NoBundle
<1>3. NoHoles'
  BY <1>0 DEF Local, NoHoles
<1>4. /\ pc' \in [Threads -> Labels] /\ frame' \in [Threads -> Frames]
      /\ pc'[t] = l /\ frame'[t] = f
      /\ \A u \in Threads : u # t => pc'[u] = pc[u] /\ frame'[u] = frame[u]
  BY DEF Local, ThreadTyped
<1>5. ThreadTyped'
  BY <1>0, <1>4 DEF Local, ThreadTyped
<1>6. InMethod(t)'
  <2>1. Fits(t, pc[t], frame[t])'
    BY <1>4 DEF Fits
  <2>2. pc'[t] \in Applying => Holds(t)'
    BY <1>4 DEF Holds, Ref
  <2> QED  BY <1>4, <2>1, <2>2 DEF InMethod
<1>7. ASSUME NEW u \in Threads, u # t  PROVE InMethod(u)'
  <2>1. pc'[u] = pc[u] /\ frame'[u] = frame[u] /\ InMethod(u)
    BY <1>4, <1>7 DEF Local
  <2>2. Fits(u, pc[u], frame[u])'
    BY <2>1 DEF InMethod, Fits
  <2>3. ASSUME pc[u] \in Puts, frame[u].obj = NoObject  PROVE Empty(u[1])'
    <3>1. Empty(u[1])
      BY <2>1, <2>3 DEF InMethod
    <3>2. CASE u[1] = t[1]
      <4>1. b.methods = <<>>
        BY <1>7, <2>3, <3>2
      <4>2. ASSUME NEW j \in 1..Len(bundles[t[1]])
            PROVE  bundles'[t[1]][j].methods = <<>>
        <5>1. CASE j = i
          BY <4>1, <5>1 DEF BundleSet
        <5>2. CASE j # i
          <6>1. bundles'[t[1]][j] = bundles[t[1]][j]
            BY <5>2 DEF BundleSet
          <6> QED  BY <3>1, <3>2, <6>1 DEF Empty
        <5> QED  BY <5>1, <5>2
      <4> QED  BY <1>0, <3>2, <4>2 DEF Empty
    <3>3. CASE u[1] # t[1]
      BY <1>0, <3>1, <3>3 DEF Empty
    <3> QED  BY <3>2, <3>3
  <2>4. ASSUME pc[u] \in Applying  PROVE Holds(u)'
    <3>1. Holds(u) /\ frame[u].ref # 0
      BY <2>1, <2>4 DEF InMethod, Fits
    <3>2. frame[u].ref \in 1..Len(bundles[u[1]])
      BY <3>1, HasBundle DEF Local
    <3>3. CASE u[1] = t[1] /\ frame[u].ref = i
      BY <1>7, <2>1, <2>4, <3>3 DEF Holds, Ref
    <3>4. CASE ~(u[1] = t[1] /\ frame[u].ref = i)
      <4>1. bundles'[u[1]][frame[u].ref] = bundles[u[1]][frame[u].ref]
        BY <1>0, <3>2, <3>4
      <4>2. monitor'[u[1]][frame[u].ref] = monitor[u[1]][frame[u].ref]
        BY <1>0, <3>2, <3>4
      <4> QED  BY <2>1, <3>1, <4>1, <4>2 DEF Holds, Ref
    <3> QED  BY <3>3, <3>4
  <2> QED  BY <2>1, <2>2, <2>3, <2>4 DEF InMethod
<1> QED  BY <1>1, <1>2, <1>3, <1>5, <1>6, <1>7 DEF Local
-----------------------------------------------------------------------------
(* The methods, one lemma for those that change bundles.                   *)

\* What follows localPut, seen as a move of its thread.
LEMMA AfterPutMoves ==
  ASSUME Local, NEW t \in Threads, pc[t] \in Puts, AfterPut(t)
  PROVE  \E l \in {"idle", "bundle", "lookup"}, f \in Frames :
            /\ Moves(t, l, f) /\ (table[t[1]] # 0 => Fits(t, l, f))
            /\ l # "idle" => f = frame[t] /\ l = f.next
<1> USE DEF Moves, AfterPut, Goto, Return
<1>1. /\ Fits(t, pc[t], frame[t]) /\ frame[t] \in Frames
      /\ frame[t].ref <= Len(bundles[t[1]])
      /\ frame' = [frame EXCEPT ![t] = frame[t]] \/ frame' # frame
  BY DEF Local, InMethod, ThreadTyped
<1>2. CASE frame[t].next = "idle"
  <2>1. Fits(t, "idle", NoFrame)
    BY DEF Fits, Puts, Applying
  <2>2. NoFrame.ref <= Len(bundles[t[1]])
    BY NoFrameTyped, ThreadParts, BundleTypes DEF Local
  <2> QED  BY <1>2, <2>1, <2>2, NoFrameTyped
<1>3. CASE frame[t].next # "idle"
  <2>1. frame[t].next \in {"bundle", "lookup"}
    BY <1>1, <1>3 DEF Fits
  <2>2. table[t[1]] # 0 => Fits(t, frame[t].next, frame[t])
    BY <1>1, <2>1 DEF Fits, Puts, Applying
  <2> QED  BY <1>1, <1>3, <2>1, <2>2
<1> QED  BY <1>2, <1>3

(* localPut sets the object of a bundle, under no lock.                     *)
LEMMA PutSetStep ==
  ASSUME Local, NEW t \in Threads, PutSet(t)
  PROVE  Local'
<1> DEFINE c == t[1]
<1> DEFINE i == table[c]
<1> DEFINE b == [bundles[c][i] EXCEPT !.obj = frame[t].obj]
<1>1. /\ pc[t] = "set" /\ pc[t] \in Puts /\ AfterPut(t) /\ InMethod(t)
      /\ frame[t] \in Frames /\ monitor' = monitor
      /\ UNCHANGED <<table, caller>>
  BY DEF Local, ThreadTyped, PutSet, Puts
<1>2. c \in Clients /\ i \in 1..Len(bundles[c]) /\ i # 0
  BY <1>1, ThreadParts, BundleTypes DEF Local, ClientTyped, InMethod, Fits
<1>3. /\ bundles[c][i] \in Bundles /\ bundles[c] \in Seq(Bundles)
      /\ Contiguous(bundles[c][i])
  BY <1>2, BundleTypes DEF Local, NoHoles
<1>4. /\ b \in Bundles /\ b.methods = bundles[c][i].methods /\ b.obj = frame[t].obj
      /\ Contiguous(b)
  BY <1>1, <1>3 DEF Bundles, Frames, Contiguous
<1>5. BundleSet(c, i, b)
  <2> DEFINE s == [bundles[c] EXCEPT ![i] = b]
  <2>1. bundles' = [bundles EXCEPT ![c] = s]
    BY DEF PutSet
  <2> HIDE DEF b
  <2>2. /\ s \in Seq(Bundles) /\ Len(s) = Len(bundles[c])
        /\ \A j \in 1..Len(bundles[c]) : s[j] = IF j = i THEN b ELSE bundles[c][j]
    BY <1>2, <1>3, <1>4, ExceptSeq
  <2> HIDE DEF s
  <2> QED  BY <1>2, <2>1, <2>2 DEF Local, ClientTyped, BundleSet
<1>6. /\ monitor[c][i] \in Threads \cup {NoBody}
      /\ MonitorSet(c, i, monitor[c][i])
  BY <1>1, <1>2, MonitorStays DEF Local
<1>7. PICK l \in {"idle", "bundle", "lookup"}, f \in Frames :
            Moves(t, l, f) /\ Fits(t, l, f)
  BY <1>1, <1>2, AfterPutMoves
<1>8. l \in Labels \ Puts /\ l \notin Applying
  BY DEF Labels, Puts, Applying
<1>9. ASSUME NEW u \in Threads \ {t}, u[1] = c, pc[u] \in Puts, frame[u].obj = NoObject
      PROVE  b.methods = <<>>
  BY <1>2, <1>4, <1>9 DEF Local, InMethod, Empty
<1>10. ASSUME NEW u \in Threads \ {t}, u[1] = c, pc[u] \in Applying, frame[u].ref = i
       PROVE  monitor[c][i] = u /\ Ready(pc[u], b)
  <2>1. Holds(u)
    BY <1>10 DEF Local, InMethod
  <2>2. monitor[c][i] = u /\ (pc[u] = "loop" => b.methods # <<>>)
    BY <1>4, <1>10, <2>1 DEF Holds, Ready, Ref
  <2>3. b.methods # <<>> => frame[t].obj # NoObject
    BY <1>1, <1>2, <1>4 DEF InMethod, Empty
  <2> QED  BY <1>4, <2>2, <2>3 DEF Ready
<1> HIDE DEF b, i
<1>11. Unharmed(t, i, b, monitor[c][i])
  BY <1>9, <1>10 DEF Unharmed
<1> QED  BY <1>1, <1>2, <1>4, <1>5, <1>6, <1>7, <1>8, <1>11, BundleStep

\* A new bundle, at the end of the list, with no operations.
LEMMA PutNewStep ==
  ASSUME Local, NEW t \in Threads, PutNew(t)
  PROVE  Local'
<1> DEFINE c == t[1]
<1> DEFINE b == NewBundle(frame[t].obj)
<1> DEFINE s == Append(bundles[c], b)
<1> DEFINE m == Append(monitor[c], NoBody)
<1>1. /\ pc[t] = "new" /\ pc[t] \in Puts /\ AfterPut(t) /\ InMethod(t)
      /\ frame[t] \in Frames /\ c \in Clients
      /\ caller' = caller
  BY ThreadParts DEF Local, ThreadTyped, PutNew, Puts
<1>2. b \in Bundles /\ b.methods = <<>> /\ b.obj = frame[t].obj /\ Contiguous(b)
  BY <1>1, EmptySeq DEF NewBundle, Bundles, Frames, Contiguous
<1>3. /\ bundles' = [bundles EXCEPT ![c] = s]
      /\ monitor' = [monitor EXCEPT ![c] = m]
      /\ table' = [table EXCEPT ![c] = Len(bundles[c]) + 1]
  BY DEF PutNew
<1>4. /\ bundles[c] \in Seq(Bundles) /\ Len(bundles[c]) \in Nat
      /\ monitor[c] \in Seq(Threads \cup {NoBody}) /\ Len(monitor[c]) = Len(bundles[c])
  BY <1>1, BundleTypes DEF Local, ClientTyped
<1> HIDE DEF b
<1>5. /\ s \in Seq(Bundles) /\ Len(s) = Len(bundles[c]) + 1
      /\ \A j \in 1..Len(bundles[c]) : s[j] = bundles[c][j]
      /\ s[Len(bundles[c]) + 1] = b
  BY <1>2, <1>4, AppendProperties
<1>6. /\ m \in Seq(Threads \cup {NoBody}) /\ Len(m) = Len(bundles[c]) + 1
      /\ \A j \in 1..Len(bundles[c]) : m[j] = monitor[c][j]
  BY <1>4, AppendProperties
<1> HIDE DEF s, m
<1>7. ClientTyped'
  <2>1. /\ table' \in [Clients -> Nat] /\ bundles' \in [Clients -> Seq(Bundles)]
        /\ monitor' \in [Clients -> Seq(Threads \cup {NoBody})]
    BY <1>1, <1>3, <1>4, <1>5, <1>6 DEF Local, ClientTyped
  <2>2. \A d \in Clients : Len(monitor'[d]) = Len(bundles'[d]) /\ table'[d] <= Len(bundles'[d])
    BY <1>1, <1>3, <1>4, <1>5, <1>6 DEF Local, ClientTyped
  <2> QED  BY <2>1, <2>2 DEF ClientTyped
<1>8. /\ bundles'[c] = s /\ monitor'[c] = m /\ table'[c] # 0
      /\ \A d \in Clients : d # c =>
            bundles'[d] = bundles[d] /\ monitor'[d] = monitor[d] /\ table'[d] = table[d]
  BY <1>1, <1>3, <1>4 DEF Local, ClientTyped
<1>9. NoBundle'
  BY <1>8 DEF Local, NoBundle
<1>10. NoHoles'
  <2>1. ASSUME NEW j \in 1..Len(s)  PROVE Contiguous(s[j])
    BY <1>1, <1>2, <1>4, <1>5 DEF Local, NoHoles
  <2> QED  BY <1>1, <1>8, <2>1 DEF Local, NoHoles
<1>11. PICK l \in {"idle", "bundle", "lookup"}, f \in Frames :
            Moves(t, l, f) /\ (l # "idle" => f = frame[t] /\ l = f.next)
  BY <1>1, AfterPutMoves
<1>12. /\ pc' \in [Threads -> Labels] /\ frame' \in [Threads -> Frames]
       /\ pc'[t] = l /\ frame'[t] = f
       /\ \A u \in Threads : u # t => pc'[u] = pc[u] /\ frame'[u] = frame[u]
  BY <1>11 DEF Local, ThreadTyped, Moves, Labels
<1>13. ThreadTyped'
  <2>1. ASSUME NEW u \in Threads  PROVE frame'[u].ref <= Len(bundles'[u[1]])
    <3>1. /\ frame'[u].ref <= Len(bundles[u[1]]) /\ u[1] \in Clients
          /\ frame'[u].ref \in Nat /\ Len(bundles[u[1]]) \in Nat
      BY <1>11, <1>12, ThreadParts, BundleTypes DEF Local, ThreadTyped, Moves, Frames
    <3> QED  BY <1>4, <1>5, <1>8, <3>1
  <2> QED  BY <1>1, <1>12, <2>1 DEF Local, ThreadTyped
<1>14. InMethod(t)'
  BY <1>1, <1>8, <1>11, <1>12 DEF InMethod, Fits, Puts, Applying
<1>15. ASSUME NEW u \in Threads, u # t  PROVE InMethod(u)'
  <2>1. /\ pc'[u] = pc[u] /\ frame'[u] = frame[u] /\ InMethod(u) /\ u[1] \in Clients
    BY <1>12, <1>15, ThreadParts DEF Local
  <2>2. Fits(u, pc[u], frame[u])'
    BY <1>8, <2>1 DEF InMethod, Fits
  <2>3. Empty(u[1]) => Empty(u[1])'
    <3>1. CASE u[1] # c
      BY <1>8, <2>1, <3>1 DEF Empty
    <3>2. CASE u[1] = c
      <4>1. ASSUME Empty(c), NEW j \in 1..Len(s)  PROVE s[j].methods = <<>>
        BY <1>2, <1>4, <1>5, <4>1 DEF Empty
      <4> QED  BY <1>8, <3>2, <4>1 DEF Empty
    <3> QED  BY <3>1, <3>2
  <2>4. ASSUME pc[u] \in Applying  PROVE Holds(u)'
    <3>1. Holds(u) /\ frame[u].ref # 0
      BY <2>1, <2>4 DEF InMethod, Fits
    <3>2. frame[u].ref \in 1..Len(bundles[u[1]])
      BY <3>1, HasBundle DEF Local
    <3>3. CASE u[1] = c
      <4>1. /\ bundles'[c][frame[u].ref] = bundles[c][frame[u].ref]
            /\ monitor'[c][frame[u].ref] = monitor[c][frame[u].ref]
        BY <1>5, <1>6, <1>8, <3>2, <3>3
      <4> QED  BY <2>1, <3>1, <3>3, <4>1 DEF Holds, Ref
    <3>4. CASE u[1] # c
      BY <1>8, <2>1, <3>1, <3>4 DEF Holds, Ref
    <3> QED  BY <3>3, <3>4
  <2> QED  BY <2>1, <2>2, <2>3, <2>4 DEF InMethod
<1> QED  BY <1>7, <1>9, <1>10, <1>13, <1>14, <1>15 DEF Local

\* What the steps of apply and queue know of their bundle.
LEMMA AtBundle ==
  ASSUME Local, NEW t \in Threads, pc[t] \in Applying \cup {"apply", "queue", "queued", "missed"}
  PROVE  /\ frame[t].ref # 0 /\ t[1] \in Clients
         /\ frame[t].ref \in 1..Len(bundles[t[1]])
         /\ Ref(t) \in Bundles /\ Contiguous(Ref(t))
         /\ frame[t] \in Frames /\ frame[t].ref <= Len(bundles[t[1]])
<1>1. frame[t].ref # 0 /\ t[1] \in Clients
  BY ThreadParts DEF Local, InMethod, Fits
<1>2. frame[t].ref \in 1..Len(bundles[t[1]]) /\ Ref(t) \in Bundles
  BY <1>1, HasBundle DEF Local
<1> QED  BY <1>1, <1>2 DEF Local, NoHoles, ThreadTyped, Ref

\* A method that ends or starts again, as a move.
LEMMA ResetMoves ==
  ASSUME Local, NEW t \in Threads, NEW l \in {"idle", "dead", "get"},
         pc' = [pc EXCEPT ![t] = l], frame' = [frame EXCEPT ![t] = NoFrame]
  PROVE  Moves(t, l, NoFrame) /\ Fits(t, l, NoFrame) /\ l \in Labels \ Puts /\ l \notin Applying
<1>1. NoFrame.ref <= Len(bundles[t[1]])
  BY NoFrameTyped, ThreadParts, BundleTypes DEF Local
<1> QED  BY <1>1 DEF Moves, Fits, Puts, Applying, Labels

\* Nobody applies a bundle whose monitor is free.
LEMMA NobodyApplies ==
  ASSUME Local, NEW t \in Threads, Unlocked(t),
         NEW u \in Threads, u[1] = t[1], pc[u] \in Applying
  PROVE  frame[u].ref # frame[t].ref
  BY NullAssumption DEF Local, InMethod, Holds, Unlocked

\* Nobody else applies a bundle whose monitor a thread has.
LEMMA NobodyElseApplies ==
  ASSUME Local, NEW t \in Threads, Holds(t),
         NEW u \in Threads \ {t}, u[1] = t[1], pc[u] \in Applying
  PROVE  frame[u].ref # frame[t].ref
  BY DEF Local, InMethod, Holds

(* apply takes the monitor and prepares the queue.                          *)
LEMMA ApplyPrepareStep ==
  ASSUME Local, NEW t \in Threads, ApplyPrepare(t)
  PROVE  Local'
<1>0. pc[t] = "apply" /\ Unlocked(t) /\ UNCHANGED <<table, caller>>
  BY DEF ApplyPrepare
<1>1. /\ frame[t].ref # 0 /\ t[1] \in Clients
      /\ frame[t].ref \in 1..Len(bundles[t[1]])
      /\ Ref(t) \in Bundles /\ Contiguous(Ref(t))
      /\ frame[t] \in Frames /\ frame[t].ref <= Len(bundles[t[1]])
  BY <1>0, AtBundle
<1>2. CASE Ref(t).methods # <<>> /\ Ref(t).obj = NoObject
  <2>1. PICK l \in {"idle", "dead"} :
          pc' = [pc EXCEPT ![t] = l] /\ frame' = [frame EXCEPT ![t] = NoFrame]
    BY <1>2 DEF ApplyPrepare, Throws, Goto
  <2>2. UNCHANGED clientVars /\ caller' \in Threads \cup {Others, NoBody}
    BY <1>0, <1>2 DEF ApplyPrepare, clientVars, Local, ThreadTyped
  <2> QED  BY <2>1, <2>2, ThreadResets
<1>3. CASE ~(Ref(t).methods # <<>> /\ Ref(t).obj = NoObject)
  <2> DEFINE b == IF Ref(t).methods = <<>> THEN Ref(t) ELSE PrepareQueue(Ref(t))
  <2>1. SetRef(t, b) /\ SetMonitor(t, t) /\ Goto(t, "head") /\ UNCHANGED frame
    BY <1>3 DEF ApplyPrepare
  <2>2. /\ b \in Bundles /\ Contiguous(b) /\ b.obj = Ref(t).obj
        /\ Ref(t).methods = <<>> => b.methods = <<>>
    BY <1>1, <1>3, PrepareKeeps
  <2>3. Ready("head", b)
    BY <1>3, <2>2 DEF Ready
  <2> HIDE DEF b
  <2>4. BundleSet(t[1], frame[t].ref, b) /\ MonitorSet(t[1], frame[t].ref, t)
    BY <1>1, <2>1, <2>2, RefIsSet, MonitorIsSet DEF Local
  <2>5. Unharmed(t, frame[t].ref, b, t)
    <3>1. ASSUME NEW u \in Threads \ {t}, u[1] = t[1], pc[u] \in Puts, frame[u].obj = NoObject
          PROVE  b.methods = <<>>
      <4>1. Empty(t[1])
        BY <3>1 DEF Local, InMethod
      <4> QED  BY <1>1, <2>2, <4>1 DEF Empty, Ref
    <3>2. ASSUME NEW u \in Threads \ {t}, u[1] = t[1], pc[u] \in Applying
          PROVE  frame[u].ref # frame[t].ref
      BY <1>0, <3>2, NobodyApplies
    <3> QED  BY <3>1, <3>2 DEF Unharmed
  <2>6. Moves(t, "head", frame[t]) /\ Fits(t, "head", frame[t]) /\ "head" \in Labels \ Puts
    BY <1>1, <2>1 DEF Moves, Goto, Fits, Puts, Labels, Local, ThreadTyped
  <2> QED  BY <1>0, <1>1, <2>2, <2>3, <2>4, <2>5, <2>6, BundleStep
<1> QED  BY <1>2, <1>3

(* apply tests the first operation left, and leaves the monitor if there is  *)
(* none or it is not the next.                                               *)
LEMMA ApplyTestStep ==
  ASSUME Local, NEW t \in Threads, ApplyTest(t)
  PROVE  Local'
<1>0. pc[t] = "head" /\ pc[t] \in Applying /\ UNCHANGED <<table, bundles, caller>>
  BY DEF ApplyTest, Applying
<1>1. /\ frame[t].ref # 0 /\ t[1] \in Clients
      /\ frame[t].ref \in 1..Len(bundles[t[1]])
      /\ Ref(t) \in Bundles /\ Contiguous(Ref(t))
      /\ frame[t] \in Frames /\ frame[t].ref <= Len(bundles[t[1]])
  BY <1>0, AtBundle
<1>2. Holds(t)
  BY <1>0 DEF Local, InMethod
<1>3. BundleSet(t[1], frame[t].ref, Ref(t))
  BY <1>0 DEF BundleSet, Ref, Local, ClientTyped
<1>4. \A x : Unharmed(t, frame[t].ref, Ref(t), x)
  <2>1. ASSUME NEW u \in Threads \ {t}, u[1] = t[1], pc[u] \in Puts, frame[u].obj = NoObject
        PROVE  Ref(t).methods = <<>>
    <3>1. Empty(t[1])
      BY <2>1 DEF Local, InMethod
    <3> QED  BY <1>1, <3>1 DEF Empty, Ref
  <2>2. ASSUME NEW u \in Threads \ {t}, u[1] = t[1], pc[u] \in Applying
        PROVE  frame[u].ref # frame[t].ref
    BY <1>2, <2>2, NobodyElseApplies
  <2> QED  BY <2>1, <2>2 DEF Unharmed
<1>5. CASE (Return(t) \/ GetAgain(t)) /\ SetMonitor(t, NoBody)
  <2>1. PICK l \in {"idle", "get"} :
          pc' = [pc EXCEPT ![t] = l] /\ frame' = [frame EXCEPT ![t] = NoFrame]
    BY <1>5 DEF Return, GetAgain, Goto
  <2>2. Moves(t, l, NoFrame) /\ Fits(t, l, NoFrame) /\ l \in Labels \ Puts /\ l \notin Applying
    BY <2>1, ResetMoves
  <2>3. MonitorSet(t[1], frame[t].ref, NoBody)
    BY <1>1, <1>5, MonitorIsSet DEF Local
  <2> QED  BY <1>0, <1>1, <1>3, <1>4, <2>2, <2>3, NoFrameTyped, BundleStep
<1>6. CASE HeadFits(Ref(t)) /\ Goto(t, "loop") /\ UNCHANGED <<frame, monitor>>
  <2>1. Moves(t, "loop", frame[t]) /\ Fits(t, "loop", frame[t]) /\ "loop" \in Labels \ Puts
    BY <1>1, <1>6 DEF Moves, Goto, Fits, Puts, Labels, Local, ThreadTyped
  <2>2. monitor[t[1]][frame[t].ref] = t /\ Ready("loop", Ref(t))
    BY <1>0, <1>2, <1>6 DEF Holds, Ready, HeadFits
  <2>3. MonitorSet(t[1], frame[t].ref, t)
    BY <1>1, <1>6, <2>2, MonitorStays DEF Local
  <2> QED  BY <1>0, <1>1, <1>3, <1>4, <2>1, <2>2, <2>3, BundleStep
<1> QED  BY <1>5, <1>6 DEF ApplyTest

(* apply applies the next operation to the object, or leaves the monitor.   *)
LEMMA ApplyNextStep ==
  ASSUME Local, NEW t \in Threads, ApplyNext(t)
  PROVE  Local'
<1> DEFINE b == ApplyHead(Ref(t))
<1>0. /\ pc[t] = "loop" /\ pc[t] \in Applying /\ SetRef(t, b) /\ UNCHANGED <<table, caller>>
      /\ IF b.methods = <<>> THEN SetMonitor(t, NoBody) /\ Return(t)
         ELSE UNCHANGED <<monitor, pc, frame>>
  BY DEF ApplyNext, Applying
<1>1. /\ frame[t].ref # 0 /\ t[1] \in Clients
      /\ frame[t].ref \in 1..Len(bundles[t[1]])
      /\ Ref(t) \in Bundles /\ Contiguous(Ref(t))
      /\ frame[t] \in Frames /\ frame[t].ref <= Len(bundles[t[1]])
  BY <1>0, AtBundle
<1>2. Holds(t) /\ Ref(t).methods # <<>> /\ Ref(t).obj # NoObject
  BY <1>0 DEF Local, InMethod, Applying, Holds, Ready
<1>3. b \in Bundles /\ Contiguous(b) /\ b.obj # NoObject
  BY <1>1, <1>2, HeadKeeps
<1> HIDE DEF b
<1>4. BundleSet(t[1], frame[t].ref, b)
  BY <1>0, <1>1, <1>3, RefIsSet DEF Local
<1>5. \A x : Unharmed(t, frame[t].ref, b, x)
  <2>1. ASSUME NEW u \in Threads \ {t}, u[1] = t[1], pc[u] \in Puts, frame[u].obj = NoObject
        PROVE  FALSE
    <3>1. Empty(t[1])
      BY <2>1 DEF Local, InMethod
    <3> QED  BY <1>1, <1>2, <3>1 DEF Empty, Ref
  <2>2. ASSUME NEW u \in Threads \ {t}, u[1] = t[1], pc[u] \in Applying
        PROVE  frame[u].ref # frame[t].ref
    BY <1>2, <2>2, NobodyElseApplies
  <2> QED  BY <2>1, <2>2 DEF Unharmed
<1>6. CASE b.methods = <<>>
  <2>1. Moves(t, "idle", NoFrame) /\ Fits(t, "idle", NoFrame)
        /\ "idle" \in Labels \ Puts /\ "idle" \notin Applying
    BY <1>0, <1>6, ResetMoves DEF Return, Goto
  <2>2. MonitorSet(t[1], frame[t].ref, NoBody)
    BY <1>0, <1>1, <1>6, MonitorIsSet DEF Local
  <2> QED  BY <1>0, <1>1, <1>3, <1>4, <1>5, <2>1, <2>2, NoFrameTyped, BundleStep
<1>7. CASE b.methods # <<>>
  <2>1. Moves(t, "loop", frame[t]) /\ Fits(t, "loop", frame[t]) /\ "loop" \in Labels \ Puts
    BY <1>0, <1>1, <1>7 DEF Moves, Fits, Puts, Labels, Local, ThreadTyped
  <2>2. monitor[t[1]][frame[t].ref] = t
    BY <1>2 DEF Holds
  <2>3. MonitorSet(t[1], frame[t].ref, t)
    BY <1>0, <1>1, <1>7, <2>2, MonitorStays DEF Local
  <2>4. Ready("loop", b)
    BY <1>3, <1>7 DEF Ready
  <2> QED  BY <1>0, <1>1, <1>3, <1>4, <1>5, <2>1, <2>3, <2>4, BundleStep
<1> QED  BY <1>6, <1>7

(* queue adds the operation of a message, or finds that one is missing.     *)
LEMMA QueueStep ==
  ASSUME Local, NEW t \in Threads, QueueOperation(t)
  PROVE  Local'
<1> DEFINE b == Queue(Ref(t), frame[t].msg)
<1>0. /\ pc[t] = "queue" /\ Unlocked(t) /\ SetRef(t, b)
      /\ UNCHANGED <<table, monitor, frame, caller>>
  BY DEF QueueOperation
<1>1. /\ frame[t].ref # 0 /\ t[1] \in Clients
      /\ frame[t].ref \in 1..Len(bundles[t[1]])
      /\ Ref(t) \in Bundles /\ Contiguous(Ref(t))
      /\ frame[t] \in Frames /\ frame[t].ref <= Len(bundles[t[1]])
  BY <1>0, AtBundle
<1>2. frame[t].msg \in Messages /\ t[2] = "reactor"
  BY <1>0 DEF Local, InMethod, Fits
<1>3. b \in Bundles /\ Contiguous(b)
  BY <1>1, <1>2, QueueKeeps
<1>4. PICK l \in {"queued", "missed"} : pc' = [pc EXCEPT ![t] = l]
  BY DEF QueueOperation, Goto
<1> HIDE DEF b
<1>5. BundleSet(t[1], frame[t].ref, b)
  BY <1>0, <1>1, <1>3, RefIsSet DEF Local
<1>6. PICK x \in Threads \cup {NoBody} : MonitorSet(t[1], frame[t].ref, x)
  BY <1>0, <1>1, MonitorStays DEF Local
<1>7. Unharmed(t, frame[t].ref, b, x)
  <2>1. ASSUME NEW u \in Threads \ {t}, u[1] = t[1], pc[u] \in Puts, frame[u].obj = NoObject
        PROVE  FALSE
    <3>1. Fits(u, pc[u], frame[u])
      BY DEF Local, InMethod
    <3>2. u[2] = "reactor"
      BY <2>1, <3>1 DEF Fits
    <3> QED  BY <1>2, <2>1, <3>2, ThreadParts
  <2>2. ASSUME NEW u \in Threads \ {t}, u[1] = t[1], pc[u] \in Applying
        PROVE  frame[u].ref # frame[t].ref
    BY <1>0, <2>2, NobodyApplies
  <2> QED  BY <2>1, <2>2 DEF Unharmed
<1>8. Moves(t, l, frame[t]) /\ Fits(t, l, frame[t]) /\ l \in Labels \ Puts /\ l \notin Applying
  BY <1>0, <1>1, <1>2, <1>4 DEF Moves, Fits, Puts, Applying, Labels, Local, ThreadTyped
<1> QED  BY <1>0, <1>1, <1>3, <1>5, <1>6, <1>7, <1>8, BundleStep
-----------------------------------------------------------------------------
(* The other steps of a thread.                                            *)

\* What getObj answers is an object, or null.
LEMMA AnswersTyped ==
  ASSUME history \in Seq(Ops), NEW o \in Answers \ {NoObject}
  PROVE  o \in Objects
<1>1. PICK n \in 0..Len(history) :
         \E v \in 0..n : o = [ver |-> v, data |-> SubSeq(history, 1, n)]
  BY DEF Answers
<1>2. n \in Nat
  BY LenProperties
<1>3. SubSeq(history, 1, n) \in Seq(Ops)
  BY <1>1, <1>2, LenProperties, SubSeqProperties
<1> QED  BY <1>1, <1>2, <1>3 DEF Objects

\* Every step of a thread keeps what the invariant says of the clients' own state.
LEMMA ThreadStep ==
  ASSUME IInv, NEW t \in Threads, Step(t) \/ RemoteFailure(t)
  PROVE  Local'
<1> USE DEF Goto, Return, GetAgain, Throws, clientVars
<1>0. /\ Local /\ InMethod(t) /\ Fits(t, pc[t], frame[t]) /\ frame[t] \in Frames
      /\ frame[t].ref <= Len(bundles[t[1]]) /\ history \in Seq(Ops)
      /\ caller \in Threads \cup {Others, NoBody}
  BY DEF IInv, Local, InMethod, ThreadTyped, ServerTyped
<1>1. CASE TestSubscription(t)
  <2> DEFINE after == IF pc[t] = "get" THEN "fetch" ELSE "perform"
  <2> DEFINE f == [frame[t] EXCEPT !.next = after]
  <2>1. PICK l \in {after, "request"} :
          pc' = [pc EXCEPT ![t] = l] /\ frame' = [frame EXCEPT ![t] = f]
    BY <1>1 DEF TestSubscription
  <2>2. f \in Frames /\ f.ref = frame[t].ref /\ f.msg = frame[t].msg /\ f.next = after
    BY <1>0 DEF Frames, Labels
  <2>3. Fits(t, l, f) /\ l \in Labels \ Applying /\ l \notin Puts
    BY <1>0, <1>1, <2>2 DEF TestSubscription, Fits, Puts, Applying, Labels
  <2> HIDE DEF f, after
  <2> QED  BY <1>0, <1>1, <2>1, <2>2, <2>3, ThreadMoves DEF TestSubscription
<1>2. CASE RequestSubscription(t)
  <2>1. frame[t].next \in {"fetch", "perform"} /\ frame[t].next \in Labels \ Applying
    BY <1>0, <1>2 DEF RequestSubscription, Fits, Applying, Labels
  <2>2. Fits(t, frame[t].next, frame[t]) /\ frame[t].next \notin Puts
    BY <1>0, <1>2, <2>1 DEF RequestSubscription, Fits, Puts
  <2> QED  BY <1>0, <1>2, <2>1, <2>2, ThreadGoes DEF RequestSubscription
<1>3. CASE PerformRefused(t)
  BY <1>0, <1>3, ThreadResets DEF PerformRefused
<1>4. CASE PerformPublished(t)
  <2>1. Fits(t, "performing", frame[t]) /\ "performing" \in Labels \ Applying
        /\ "performing" \notin Puts
    BY DEF Fits, Puts, Applying, Labels
  <2> QED  BY <1>0, <1>4, <2>1, ThreadGoes DEF PerformPublished
<1>5. CASE PerformAnswered(t)
  BY <1>0, <1>5, ThreadResets DEF PerformAnswered
<1>6. CASE Fetch(t)
  <2>1. CASE Return(t)
    BY <1>0, <1>6, <2>1, ThreadResets DEF Fetch
  <2>2. ASSUME NEW o \in Answers \ {NoObject}, Goto(t, "put"),
               frame' = [frame EXCEPT ![t].obj = o, ![t].next = "bundle"]
        PROVE  Local'
    <3> DEFINE f == [frame[t] EXCEPT !.obj = o, !.next = "bundle"]
    <3>1. /\ f \in Frames /\ f.ref = frame[t].ref /\ f.obj = o /\ f.next = "bundle"
          /\ f.obj # NoObject
      BY <1>0, <2>2, AnswersTyped DEF Frames, Labels
    <3>2. Fits(t, "put", f) /\ "put" \in Labels \ Applying
      BY <3>1 DEF Fits, Puts, Applying, Labels
    <3>3. pc' = [pc EXCEPT ![t] = "put"] /\ frame' = [frame EXCEPT ![t] = f]
      BY <2>2
    <3> HIDE DEF f
    <3> QED  BY <1>0, <1>6, <3>1, <3>2, <3>3, ThreadMoves DEF Fetch
  <2> QED  BY <1>6, <2>1, <2>2 DEF Fetch
<1>7. CASE RemoteFailure(t)
  <2>1. caller' \in Threads \cup {Others, NoBody}
    BY <1>0, <1>7 DEF RemoteFailure
  <2> QED  BY <1>0, <1>7, <2>1, ThreadResets DEF RemoteFailure
<1>8. CASE PutTest(t)
  <2>1. PICK l \in {"set", "new"} :
          pc' = [pc EXCEPT ![t] = l] /\ (l = "set" => table[t[1]] # 0)
    BY <1>8 DEF PutTest
  <2>2. Fits(t, l, frame[t]) /\ l \in Labels \ Applying
    BY <1>0, <1>8, <2>1 DEF PutTest, Fits, Puts, Applying, Labels
  <2>3. frame[t].obj = NoObject => Empty(t[1])
    BY <1>0, <1>8 DEF PutTest, InMethod, Puts
  <2> QED  BY <1>0, <1>8, <2>1, <2>2, <2>3, ThreadGoes DEF PutTest
<1>9. CASE PutSet(t)
  BY <1>0, <1>9, PutSetStep
<1>10. CASE PutNew(t)
  BY <1>0, <1>10, PutNewStep
<1>11. CASE GetBundle(t)
  <2> DEFINE f == [frame[t] EXCEPT !.ref = table[t[1]]]
  <2> DEFINE l == IF pc[t] = "bundle" THEN "apply" ELSE "queue"
  <2>1. table[t[1]] \in Nat /\ table[t[1]] # 0 /\ table[t[1]] <= Len(bundles[t[1]])
    BY <1>0, <1>11, ThreadParts DEF GetBundle, Fits, Local, ClientTyped
  <2>2. f \in Frames /\ f.ref = table[t[1]] /\ f.msg = frame[t].msg
    BY <1>0, <2>1 DEF Frames
  <2>3. Fits(t, l, f) /\ l \in Labels \ Applying /\ l \notin Puts
    BY <1>0, <1>11, <2>1, <2>2 DEF GetBundle, Fits, Puts, Applying, Labels
  <2>4. pc' = [pc EXCEPT ![t] = l] /\ frame' = [frame EXCEPT ![t] = f]
    BY <1>11 DEF GetBundle
  <2> HIDE DEF f, l
  <2> QED  BY <1>0, <1>11, <2>1, <2>2, <2>3, <2>4, ThreadMoves DEF GetBundle
<1>12. CASE ApplyPrepare(t) \/ ApplyTest(t)
  BY <1>0, <1>12, ApplyPrepareStep, ApplyTestStep
<1>13. CASE ApplyNext(t)
  BY <1>0, <1>13, ApplyNextStep
<1>14. CASE QueueOperation(t)
  BY <1>0, <1>14, QueueStep
<1>15. CASE Queued(t)
  <2>1. CASE Ref(t).obj = NoObject
    BY <1>0, <1>15, <2>1, ThreadResets DEF Queued
  <2>2. CASE Ref(t).obj # NoObject
    <3>1. Fits(t, "apply", frame[t]) /\ "apply" \in Labels \ Applying /\ "apply" \notin Puts
      BY <1>0, <1>15 DEF Queued, Fits, Puts, Applying, Labels
    <3> QED  BY <1>0, <1>15, <2>2, <3>1, ThreadGoes DEF Queued
  <2> QED  BY <2>1, <2>2
<1>16. CASE MissedOperation(t)
  <2>1. CASE Ref(t).obj = NoObject
    BY <1>0, <1>16, <2>1, ThreadResets DEF MissedOperation
  <2>2. CASE Return(t)
    BY <1>0, <1>16, <2>2, ThreadResets DEF MissedOperation
  <2>3. ASSUME NEW o \in Answers \ {NoObject}, Goto(t, "put"),
               frame' = [frame EXCEPT ![t].obj = o, ![t].next = "idle"]
        PROVE  Local'
    <3> DEFINE f == [frame[t] EXCEPT !.obj = o, !.next = "idle"]
    <3>1. /\ f \in Frames /\ f.ref = frame[t].ref /\ f.obj = o /\ f.next = "idle"
          /\ f.obj # NoObject
      BY <1>0, <2>3, AnswersTyped DEF Frames, Labels
    <3>2. Fits(t, "put", f) /\ "put" \in Labels \ Applying
      BY <1>0, <1>16, <3>1 DEF MissedOperation, Fits, Puts, Applying, Labels
    <3>3. pc' = [pc EXCEPT ![t] = "put"] /\ frame' = [frame EXCEPT ![t] = f]
      BY <2>3
    <3> HIDE DEF f
    <3> QED  BY <1>0, <1>16, <3>1, <3>2, <3>3, ThreadMoves DEF MissedOperation
  <2> QED  BY <1>16, <2>1, <2>2, <2>3 DEF MissedOperation
<1> QED  BY <1>1, <1>2, <1>3, <1>4, <1>5, <1>6, <1>7, <1>8, <1>9, <1>10, <1>11,
            <1>12, <1>13, <1>14, <1>15, <1>16 DEF Step

(* Every step keeps what the invariant says of the clients' own state.      *)
LEMMA LocalStep ==
  ASSUME IInv, [Next]_cvars
  PROVE  Local'
<1> USE DEF Goto, clientVars, channelVars, threadVars
<1>0. Local /\ caller \in Threads \cup {Others, NoBody}
  BY DEF IInv, Local, ThreadTyped
<1>1. ASSUME NEW t \in Threads, Step(t) \/ RemoteFailure(t)  PROVE Local'
  BY <1>1, ThreadStep
<1>2. ASSUME NEW c \in Clients, Application(c)  PROVE Local'
  <2>0. App(c) \in Threads /\ App(c)[1] = c
    BY ClientThreads
  <2>1. CASE Subscribe(c) \/ Unsubscribe(c)
    BY <1>0, <2>1, LocalStays DEF Subscribe, Unsubscribe
  <2>2. CASE CallRemoteGet(c)
    <3>1. Fits(App(c), "get", frame[App(c)]) /\ "get" \in Labels \ Applying /\ "get" \notin Puts
      BY DEF Fits, Puts, Applying, Labels
    <3> QED  BY <1>0, <2>0, <2>2, <3>1, ThreadGoes DEF CallRemoteGet
  <2>3. ASSUME NEW op \in Ops, CallRemotePerform(c, op)  PROVE Local'
    <3> DEFINE next == IF LocalObject(c) = NoObject THEN 0 ELSE Version(LocalObject(c)) + 1
    <3> DEFINE f == [frame[App(c)] EXCEPT !.msg = Message(op, next)]
    <3>1. LocalObject(c) \in Objects \cup {NoObject}
      <4>1. table[c] # 0 /\ table[c] \in 1..Len(bundles[c])
        BY <1>0, <2>3, BundleTypes DEF CallRemotePerform, Local, ClientTyped
      <4>2. bundles[c][table[c]] \in Bundles
        BY <1>0, <4>1, BundleTypes DEF Local
      <4> QED  BY <4>1, <4>2 DEF LocalObject, Bundles
    <3>2. next \in Nat
      BY <3>1 DEF Version, Objects
    <3> HIDE DEF next
    <3>3. /\ f \in Frames /\ f.ref = frame[App(c)].ref /\ f.msg \in Messages
          /\ f.ref <= Len(bundles[c])
      BY <1>0, <2>0, <3>2 DEF Local, ThreadTyped, Frames, Messages, Message
    <3>4. Fits(App(c), "subscribe", f) /\ "subscribe" \in Labels \ Applying
          /\ "subscribe" \notin Puts
      BY <3>3 DEF Fits, Puts, Applying, Labels
    <3>5. /\ pc' = [pc EXCEPT ![App(c)] = "subscribe"]
          /\ frame' = [frame EXCEPT ![App(c)] = f]
      BY <2>3 DEF CallRemotePerform, next
    <3> HIDE DEF f
    <3> QED  BY <1>0, <2>0, <2>3, <3>3, <3>4, <3>5, ThreadMoves DEF CallRemotePerform
  <2> QED  BY <1>2, <2>1, <2>2, <2>3 DEF Application
<1>3. ASSUME NEW c \in Clients, OperationReceived(c)  PROVE Local'
  <2> DEFINE t == Reactor(c)
  <2> DEFINE l == IF table[c] = 0 THEN "put" ELSE "queue"
  <2> DEFINE f == [obj |-> NoObject, ref |-> table[c], msg |-> Head(inbox[c]),
                   next |-> "lookup"]
  <2>1. t \in Threads /\ t[1] = c /\ t[2] = "reactor"
    BY ClientThreads
  <2>2. table[c] \in Nat /\ table[c] <= Len(bundles[c])
    BY <1>0 DEF Local, ClientTyped
  <2>3. Head(inbox[c]) \in Messages
    BY <1>3, HeadTailProperties DEF IInv, ChannelTyped, OperationReceived
  <2>4. f \in Frames /\ f.ref = table[c] /\ f.msg \in Messages /\ f.next = "lookup"
    BY <2>2, <2>3 DEF Frames, Labels
  <2>5. pc' = [pc EXCEPT ![t] = l] /\ frame' = [frame EXCEPT ![t] = f]
    BY <1>3 DEF OperationReceived
  <2> HIDE DEF t, f
  <2>6. Fits(t, l, f) /\ l \in Labels \ Applying
    BY <2>1, <2>2, <2>4 DEF Fits, Puts, Applying, Labels
  <2>7. l \in Puts => Empty(t[1])
    BY <1>0, <2>1, EmptySeq DEF Puts, Local, NoBundle, Empty
  <2> HIDE DEF l
  <2> QED  BY <1>0, <1>3, <2>1, <2>2, <2>4, <2>5, <2>6, <2>7, ThreadMoves DEF OperationReceived
<1>4. ASSUME NEW c \in Clients, Establish(c)  PROVE Local'
  BY <1>0, <1>4, LocalStays DEF Establish
<1>5. ASSUME NEW missed \in SUBSET Clients, Route(missed)  PROVE Local'
  BY <1>0, <1>5, LocalStays DEF Route
<1>6. ASSUME NEW op \in Ops, OtherPublish(op)  PROVE Local'
  BY <1>0, <1>6, LocalStays DEF OtherPublish
<1>7. CASE OtherAnswered
  BY <1>0, <1>7, LocalStays DEF OtherAnswered
<1>8. CASE UNCHANGED cvars
  BY <1>0, <1>8, LocalStays DEF cvars
<1> QED  BY <1>1, <1>2, <1>3, <1>4, <1>5, <1>6, <1>7, <1>8 DEF Next
-----------------------------------------------------------------------------
(* The server and the channel.                                             *)

\* What the steps of VersionedObject do to the types.
LEMMA ServerSteps ==
  ASSUME ServerTyped
  PROVE  /\ \A op \in Ops : VOPublish(op) => ServerTyped' /\ Len(published') = Len(published) + 1
         /\ VOApply \/ VOFail => ServerTyped' /\ published' = published
<1>1. history \in Seq(Ops) /\ Len(history) \in Nat /\ Len(published) \in Nat
  BY LenProperties DEF ServerTyped
<1>2. ASSUME NEW op \in Ops, VOPublish(op)
      PROVE  ServerTyped' /\ Len(published') = Len(published) + 1
  <2>1. Message(op, Len(history) + 1) \in Messages
    BY <1>1 DEF Message, Messages
  <2> QED  BY <1>2, <2>1, AppendProperties DEF VOPublish, ServerTyped
<1>3. ASSUME VOApply  PROVE ServerTyped' /\ published' = published
  BY <1>1, <1>3, AppendProperties DEF VOApply, ServerTyped
<1>4. ASSUME VOFail  PROVE ServerTyped' /\ published' = published
  BY <1>4 DEF VOFail, ServerTyped
<1> QED  BY <1>2, <1>3, <1>4

\* A channel that keeps its state fits published operations that do not shrink.
LEMMA ChannelStays ==
  ASSUME ServerTyped, ChannelTyped, UNCHANGED channelVars,
         published' = published \/ Len(published') = Len(published) + 1
  PROVE  ChannelTyped'
<1>1. Len(published) \in Nat
  BY LenProperties DEF ServerTyped
<1>2. routed' \in 0..Len(published')
  BY <1>1 DEF ChannelTyped, channelVars
<1> QED  BY <1>2 DEF ChannelTyped, channelVars

(* Every step keeps the types of the server and of the channel.             *)
LEMMA ServerChannelStep ==
  ASSUME IInv, [Next]_cvars
  PROVE  ServerTyped' /\ ChannelTyped'
<1> DEFINE Quiet == UNCHANGED <<vvars, channelVars>>
<1>0. ServerTyped /\ ChannelTyped
  BY DEF IInv
<1>1. Quiet => ServerTyped' /\ ChannelTyped'
  BY <1>0, ChannelStays DEF ServerTyped, vvars
<1>2. ASSUME UNCHANGED channelVars, (\E op \in Ops : VOPublish(op)) \/ VOApply \/ VOFail
      PROVE  ServerTyped' /\ ChannelTyped'
  BY <1>0, <1>2, ServerSteps, ChannelStays
\* A request for a subscription, or for the end of one.
<1>3. ASSUME NEW c \in Clients, NEW r \in {"subscribe", "unsubscribe"}, NEW n \in Nat,
             subscription' = [subscription EXCEPT ![c] = n],
             requests' = [requests EXCEPT ![c] = Append(@, r)],
             UNCHANGED <<vvars, subscribers, routed, inbox>>
      PROVE  ServerTyped' /\ ChannelTyped'
  <2>1. Append(requests[c], r) \in Seq({"subscribe", "unsubscribe"})
    BY <1>0, <1>3, AppendProperties DEF ChannelTyped
  <2> QED  BY <1>0, <1>3, <2>1 DEF ServerTyped, ChannelTyped, vvars
<1>4. ASSUME NEW t \in Threads, Step(t) \/ RemoteFailure(t)  PROVE ServerTyped' /\ ChannelTyped'
  <2>1. CASE RequestSubscription(t)
    <3>1. t[1] \in Clients /\ subscription[t[1]] + 1 \in Nat
      BY <1>0, ThreadParts DEF ChannelTyped
    <3> QED  BY <1>3, <2>1, <3>1 DEF RequestSubscription
  <2>2. CASE PerformPublished(t)
    <3>1. frame[t].msg.op \in Ops
      BY <2>2 DEF PerformPublished, IInv, Local, InMethod, Fits, Messages
    <3> QED  BY <1>2, <2>2, <3>1 DEF PerformPublished
  <2>3. CASE PerformAnswered(t)
    BY <1>2, <2>3 DEF PerformAnswered
  <2>4. CASE ~RequestSubscription(t) /\ ~PerformPublished(t) /\ ~PerformAnswered(t)
    <3>1. Quiet
      BY <1>4, <2>4
         DEF Step, RemoteFailure, TestSubscription, PerformRefused, Fetch, PutTest, PutSet, PutNew,
             GetBundle, ApplyPrepare, ApplyTest, ApplyNext, QueueOperation, Queued, MissedOperation
    <3> QED  BY <1>1, <3>1
  <2> QED  BY <2>1, <2>2, <2>3, <2>4
<1>5. ASSUME NEW c \in Clients, Application(c)  PROVE ServerTyped' /\ ChannelTyped'
  <2>1. CASE Subscribe(c)
    <3>1. subscription[c] + 1 \in Nat
      BY <1>0 DEF ChannelTyped
    <3> QED  BY <1>3, <2>1, <3>1 DEF Subscribe
  <2>2. CASE Unsubscribe(c)
    <3>1. subscription[c] - 1 \in Nat
      BY <1>0, <2>2 DEF ChannelTyped, Unsubscribe
    <3> QED  BY <1>3, <2>2, <3>1 DEF Unsubscribe
  <2>3. CASE CallRemoteGet(c) \/ \E op \in Ops : CallRemotePerform(c, op)
    BY <1>1, <2>3 DEF CallRemoteGet, CallRemotePerform
  <2> QED  BY <1>5, <2>1, <2>2, <2>3 DEF Application
<1>6. ASSUME NEW c \in Clients, OperationReceived(c)  PROVE ServerTyped' /\ ChannelTyped'
  <2>1. Tail(inbox[c]) \in Seq(Messages)
    BY <1>0, <1>6, HeadTailProperties DEF OperationReceived, ChannelTyped
  <2> QED  BY <1>0, <1>6, <2>1 DEF OperationReceived, ServerTyped, ChannelTyped, vvars
<1>7. ASSUME NEW c \in Clients, Establish(c)  PROVE ServerTyped' /\ ChannelTyped'
  <2>1. Tail(requests[c]) \in Seq({"subscribe", "unsubscribe"})
    BY <1>0, <1>7, HeadTailProperties DEF Establish, ChannelTyped
  <2> QED  BY <1>0, <1>7, <2>1 DEF Establish, ServerTyped, ChannelTyped, vvars
<1>8. ASSUME NEW missed \in SUBSET Clients, Route(missed)  PROVE ServerTyped' /\ ChannelTyped'
  <2>1. routed + 1 \in 1..Len(published) /\ Len(published) \in Nat
    BY <1>0, <1>8, LenProperties DEF Route, ServerTyped, ChannelTyped
  <2>2. published[routed + 1] \in Messages
    BY <1>0, <2>1, ElementOfSeq DEF ServerTyped
  <2>3. \A c \in Clients : Append(inbox[c], published[routed + 1]) \in Seq(Messages)
    BY <1>0, <2>2, AppendProperties DEF ChannelTyped
  <2>4. inbox' \in [Clients -> Seq(Messages)]
    BY <1>0, <1>8, <2>3 DEF Route, ChannelTyped
  <2> QED  BY <1>0, <1>8, <2>1, <2>4 DEF Route, ServerTyped, ChannelTyped, vvars
<1>9. ASSUME NEW op \in Ops, OtherPublish(op)  PROVE ServerTyped' /\ ChannelTyped'
  BY <1>2, <1>9 DEF OtherPublish
<1>10. CASE OtherAnswered
  BY <1>2, <1>10 DEF OtherAnswered
<1>11. CASE UNCHANGED cvars
  BY <1>1, <1>11 DEF cvars
<1> QED  BY <1>4, <1>5, <1>6, <1>7, <1>8, <1>9, <1>10, <1>11 DEF Next
-----------------------------------------------------------------------------
(* The theorem.                                                            *)

\* Every step keeps the invariant.
LEMMA IInvStep ==
  ASSUME IInv, [Next]_cvars  PROVE IInv'
<1>1. Local'
  BY LocalStep
<1>2. ServerTyped' /\ ChannelTyped'
  BY ServerChannelStep
<1> QED  BY <1>1, <1>2 DEF IInv

\* Whatever messages are lost, whatever calls fail and however the two threads
\* of a client interleave, the operations queued in a bundle have consecutive
\* versions (ObjectBundle.queue, prepareQueue and apply), and the state is well
\* typed.
THEOREM Contiguity == Spec => []QueuesContiguous
<1>1. Init => IInv
  BY IInvInit
<1>2. IInv /\ [Next]_cvars => IInv'
  BY IInvStep
<1>3. IInv => QueuesContiguous
  BY IInvTypes
<1> QED  BY <1>1, <1>2, <1>3, PTL DEF Spec
-----------------------------------------------------------------------------
(* A client whose reactor alone touches its copy, as CachedCopies sees it.  *)

\* Nobody calls the cache: every client has the object from the start, and the
\* applications at most subscribe and unsubscribe.
OnlyReactors == Stored = Clients /\ MaxGets = 0 /\ MaxPerforms = 0

\* The operations o are the first ones of p.
Past(o, p) == o \in Seq(Ops) /\ Len(o) <= Len(p) /\ \A i \in 1..Len(o) : o[i] = p[i]

\* Object o may have been serialized while the operations became p.
Served(o, p) ==
  \E n \in 0..Len(p) : \E v \in 0..n : o = [ver |-> v, data |-> SubSeq(p, 1, n)]

\* A message tells the truth about the server's operations h and what they become, p:
\* the version it names was produced by its operation, or by none as yet if the
\* operation fails.
Sound(m, h, p) ==
  /\ m \in Messages /\ m.ver \in 1..(Len(h) + 1)
  /\ m.op \notin Invalid => m.ver <= Len(p) /\ p[m.ver] = m.op

\* The one operation queued is the next of the copy.
Fitting(b, h, p) ==
  /\ Len(b.methods) = 1 /\ Sound(b.methods[1], h, p)
  /\ b.methods[1].ver = b.obj.ver + 1

\* Where the reactor is, at label l with the locals f, and what it has made of
\* the bundle b so far.
AtReactor(l, f, b, h, p) ==
  /\ b.obj \in Objects
  /\ \/ l = "idle" /\ b.methods = <<>>
     \/ l = "queue" /\ f.ref = 1 /\ b.methods = <<>> /\ Sound(f.msg, h, p)
     \/ l \in {"queued", "apply", "head"} /\ f.ref = 1 /\ (b.methods = <<>> \/ Fitting(b, h, p))
     \/ l = "loop" /\ f.ref = 1 /\ Fitting(b, h, p)
     \/ l = "missed" /\ f.ref = 1 /\ b.methods = <<>>
     \/ l \in {"put", "set"} /\ f.next = "idle" /\ b.methods = <<>> /\ Served(f.obj, h)

NoCalls ==
  /\ {"gets", "performs"} \subseteq DOMAIN left
  /\ left["gets"] = [c \in Clients |-> 0] /\ left["performs"] = [c \in Clients |-> 0]
Sounds ==
  /\ \A i \in 1..Len(published) : Sound(published[i], history, Promised)
  /\ \A c \in Clients : \A i \in 1..Len(inbox[c]) : Sound(inbox[c][i], history, Promised)
Copied(c) ==
  /\ pc[App(c)] = "idle" /\ table[c] = 1 /\ Len(bundles[c]) = 1
  /\ AtReactor(pc[Reactor(c)], frame[Reactor(c)], bundles[c][1], history, Promised)
Kept == NoCalls /\ Sounds /\ \A c \in Clients : Copied(c)

\* What CachedCopies calls copy, and its steps.
Copy == [c \in Clients |-> LocalObject(c)]
Updated(o, op) == [ver |-> o.ver + 1, data |-> Append(o.data, op)]
Changes(o, r) ==
  \/ o.ver < Len(Promised) /\ r = Updated(o, Promised[o.ver + 1])
  \/ Served(r, Promised)
CopiesStep ==
  \/ \E op \in Ops : Promised' = Append(Promised, op) /\ Copy' = Copy
  \/ Promised' = Promised /\ \E c \in Clients :
        \E r : Copy' = [Copy EXCEPT ![c] = r] /\ Changes(Copy[c], r)
  \/ Promised' = Promised /\ Copy' = Copy

\* These are CachedCopies' initial states and steps.
LEMMA CopiesAre ==
  /\ Copies!CCInit <=> Promised = <<>> /\ Copy = [c \in Clients |-> Whole(<<>>)]
  /\ CopiesStep => [Copies!CCNext]_<<Promised, Copy>>
<1>1. Copies!CCInit <=> Promised = <<>> /\ Copy = [c \in Clients |-> Whole(<<>>)]
  BY DEF Copies!CCInit, Copy, Whole
<1>2. ASSUME NEW op \in Ops, Promised' = Append(Promised, op), Copy' = Copy
      PROVE  Copies!CCNext
  BY <1>2 DEF Copies!CCNext, Copies!CCAccept, Copy
<1>3. ASSUME Promised' = Promised, NEW c \in Clients, NEW r,
             Copy' = [Copy EXCEPT ![c] = r], Changes(Copy[c], r)
      PROVE  Copies!CCNext
  <2>1. CASE Copy[c].ver < Len(Promised) /\ r = Updated(Copy[c], Promised[Copy[c].ver + 1])
    <3>1. Copies!CCUpdate(c)
      BY <1>3, <2>1 DEF Copies!CCUpdate, Updated, Copy
    <3> QED  BY <3>1 DEF Copies!CCNext
  <2>2. CASE Served(r, Promised)
    <3>1. r \in Copies!Serialized
      <4>1. PICK n \in 0..Len(Promised) :
              \E v \in 0..n : r = [ver |-> v, data |-> SubSeq(Promised, 1, n)]
        BY <2>2 DEF Served
      <4>2. r \in {[ver |-> v, data |-> SubSeq(Promised, 1, n)] : v \in 0..n}
        BY <4>1
      <4> QED  BY <4>2 DEF Copies!Serialized
    <3>2. Copies!CCReplace(c)
      BY <1>3, <3>1 DEF Copies!CCReplace, Copy
    <3> QED  BY <3>2 DEF Copies!CCNext
  <2> QED  BY <1>3, <2>1, <2>2 DEF Changes
<1> QED  BY <1>1, <1>2, <1>3 DEF CopiesStep

\* The server's operations and what they become, one a past of the other.
LEMMA PromisedTypes ==
  ASSUME ServerTyped
  PROVE  /\ history \in Seq(Ops) /\ Promised \in Seq(Ops)
         /\ Len(history) \in Nat /\ Len(Promised) \in Nat
         /\ Past(history, Promised)
<1>1. history \in Seq(Ops) /\ Len(history) \in Nat
  BY LenProperties DEF ServerTyped
<1>2. CASE pending \in Ops \ Invalid
  BY <1>1, <1>2, AppendProperties DEF Promised, Past
<1>3. CASE pending \notin Ops \ Invalid
  BY <1>1, <1>3 DEF Promised, Past
<1> QED  BY <1>2, <1>3

\* The first part of a sequence.
LEMMA FirstPart ==
  ASSUME NEW p \in Seq(Ops), NEW n \in 0..Len(p)
  PROVE  /\ SubSeq(p, 1, n) \in Seq(Ops) /\ Len(SubSeq(p, 1, n)) = n
         /\ \A i \in 1..n : SubSeq(p, 1, n)[i] = p[i]
<1>1. Len(p) \in Nat /\ n \in Nat
  BY LenProperties
<1>2. CASE n = 0
  BY <1>1, <1>2, EmptySeq, SubSeqProperties
<1>3. CASE n # 0
  BY <1>1, <1>3, SubSeqProperties
<1> QED  BY <1>2, <1>3

\* What was served of a past may be served later.
LEMMA ServedStays ==
  ASSUME NEW p \in Seq(Ops), NEW q \in Seq(Ops), Past(p, q), NEW o, Served(o, p)
  PROVE  Served(o, q) /\ o \in Objects
<1>1. PICK n \in 0..Len(p) :
         \E v \in 0..n : o = [ver |-> v, data |-> SubSeq(p, 1, n)]
  BY DEF Served
<1>2. /\ Len(p) \in Nat /\ Len(q) \in Nat /\ Len(p) <= Len(q) /\ n \in Nat
      /\ \A i \in 1..Len(p) : p[i] = q[i]
  BY LenProperties DEF Past
<1>3. /\ SubSeq(p, 1, n) \in Seq(Ops) /\ Len(SubSeq(p, 1, n)) = n
      /\ \A i \in 1..n : SubSeq(p, 1, n)[i] = p[i]
  BY <1>1, <1>2, FirstPart
<1>4. /\ SubSeq(q, 1, n) \in Seq(Ops) /\ Len(SubSeq(q, 1, n)) = n
      /\ \A i \in 1..n : SubSeq(q, 1, n)[i] = q[i]
  BY <1>1, <1>2, FirstPart
<1>5. SubSeq(p, 1, n) = SubSeq(q, 1, n)
  <2> DEFINE x == SubSeq(p, 1, n)
             y == SubSeq(q, 1, n)
  <2>1. /\ x \in Seq(Ops) /\ y \in Seq(Ops) /\ Len(x) = Len(y)
        /\ \A i \in 1..Len(x) : x[i] = y[i]
    BY <1>1, <1>2, <1>3, <1>4
  <2> HIDE DEF x, y
  <2>2. x = y
    BY <2>1, SeqEqual
  <2> QED  BY <2>2 DEF x, y
<1>6. n \in 0..Len(q)
  BY <1>1, <1>2
<1>7. Served(o, q)
  BY <1>1, <1>5, <1>6 DEF Served
<1>8. o \in Objects
  BY <1>1, <1>2, <1>3 DEF Objects
<1> QED  BY <1>7, <1>8

\* What is true of a message and of the reactor stays true when the server's
\* operations and what they become grow.
LEMMA SoundStays ==
  ASSUME NEW h \in Seq(Ops), NEW p \in Seq(Ops), NEW g \in Seq(Ops), NEW q \in Seq(Ops),
         Past(h, g), Past(p, q), NEW m, Sound(m, h, p)
  PROVE  Sound(m, g, q)
<1>1. /\ Len(h) \in Nat /\ Len(p) \in Nat /\ Len(g) \in Nat /\ Len(q) \in Nat
      /\ m.ver \in Nat
  BY LenProperties DEF Sound, Messages
<1> QED  BY <1>1 DEF Past, Sound

LEMMA ReactorStays ==
  ASSUME NEW h \in Seq(Ops), NEW p \in Seq(Ops), NEW g \in Seq(Ops), NEW q \in Seq(Ops),
         Past(h, g), Past(p, q), NEW l, NEW f, NEW b, AtReactor(l, f, b, h, p)
  PROVE  AtReactor(l, f, b, g, q)
<1>1. Fitting(b, h, p) => Fitting(b, g, q)
  BY SoundStays DEF Fitting
<1>2. Sound(f.msg, h, p) => Sound(f.msg, g, q)
  BY SoundStays
<1>3. Served(f.obj, h) => Served(f.obj, g)
  BY ServedStays
<1> QED  BY <1>1, <1>2, <1>3 DEF AtReactor

\* The copies are the objects of the clients' only bundles.
LEMMA CopyIs ==
  ASSUME \A c \in Clients : Copied(c)
  PROVE  Copy = [c \in Clients |-> bundles[c][1].obj]
  BY DEF Copy, LocalObject, Copied

\* A step of the server maps to an operation accepted, or to none.
LEMMA ServerMoves ==
  ASSUME IInv, Kept, NoCalls', UNCHANGED <<table, bundles, pc, frame, inbox>>,
         (\E op \in Ops : VOPublish(op)) \/ VOApply \/ VOFail
  PROVE  Kept' /\ CopiesStep
<1> DEFINE h == history
           p == Promised
           g == history'
           q == Promised'
<1>0. /\ h \in Seq(Ops) /\ p \in Seq(Ops) /\ Len(h) \in Nat /\ Len(p) \in Nat
      /\ published \in Seq(Messages) /\ Len(published) \in Nat
      /\ g \in Seq(Ops) /\ q \in Seq(Ops)
  <2>1. ServerTyped'
    BY ServerSteps DEF IInv
  <2>2. history' \in Seq(Ops) /\ Promised' \in Seq(Ops)
    BY <2>1, AppendProperties DEF ServerTyped, Promised
  <2> QED  BY <2>2, PromisedTypes, LenProperties DEF IInv, ServerTyped
<1> DEFINE Grows ==
             /\ Past(h, g) /\ Past(p, q)
             /\ (\E op \in Ops : q = Append(p, op)) \/ q = p
             /\ \A i \in 1..Len(published') :
                   \/ i \in 1..Len(published) /\ published'[i] = published[i]
                   \/ Sound(published'[i], g, q)
<1>1. Grows
  <2>1. ASSUME NEW op \in Ops, VOPublish(op)
        PROVE  Grows
    <3> DEFINE m == Message(op, Len(h) + 1)
    <3>1. g = h /\ p = h /\ pending' = op /\ published' = Append(published, m)
      BY <2>1, NoOpAssumption DEF VOPublish, Promised
    <3>2. q = IF op \in Invalid THEN h ELSE Append(h, op)
      BY <2>1, <3>1 DEF Promised
    <3>3. m \in Messages /\ m.op = op /\ m.ver = Len(h) + 1
      BY <1>0 DEF Message, Messages
    <3> HIDE DEF m
    <3>4. op \notin Invalid => Len(q) = Len(h) + 1 /\ q[Len(h) + 1] = op
                               /\ \A i \in 1..Len(h) : q[i] = h[i]
      BY <1>0, <3>2, AppendProperties
    <3>5. Sound(m, g, q)
      BY <1>0, <3>1, <3>3, <3>4 DEF Sound
    <3>6. Past(p, q) /\ Past(h, g)
      BY <1>0, <3>1, <3>2, <3>4 DEF Past
    <3>7. /\ Len(published') = Len(published) + 1 /\ published'[Len(published) + 1] = m
          /\ \A i \in 1..Len(published) : published'[i] = published[i]
      BY <1>0, <3>1, <3>3, AppendProperties
    <3> QED  BY <1>0, <3>1, <3>2, <3>5, <3>6, <3>7
  <2>2. CASE VOApply
    <3>1. /\ p = Append(h, pending) /\ g = p /\ published' = published
          /\ pending \in Ops /\ pending' = NoOp
      BY <2>2 DEF VOApply, Promised
    <3>2. q = g
      BY <3>1, NoOpAssumption DEF Promised
    <3>3. Past(h, g) /\ Past(p, q)
      BY <1>0, <3>1, <3>2, PromisedTypes DEF Past, IInv
    <3> QED  BY <3>1, <3>2, <3>3
  <2>3. CASE VOFail
    <3>1. g = h /\ p = h /\ published' = published /\ pending' = NoOp
      BY <2>3, OperationsAssumption DEF VOFail, Promised
    <3>2. q = h
      BY <3>1, NoOpAssumption DEF Promised
    <3>3. Past(h, g) /\ Past(p, q) /\ q = p
      BY <1>0, <3>1, <3>2 DEF Past
    <3> QED  BY <3>1, <3>3
  <2> QED  BY <2>1, <2>2, <2>3
<1> HIDE DEF h, p, g, q
<1>2. \A m : Sound(m, h, p) => Sound(m, g, q)
  BY <1>0, <1>1, SoundStays
<1>3. Sounds'
  BY <1>1, <1>2 DEF Kept, Sounds, h, p, g, q
<1>4. ASSUME NEW c \in Clients  PROVE Copied(c)'
  <2>1. AtReactor(pc[Reactor(c)], frame[Reactor(c)], bundles[c][1], h, p)
    BY DEF Kept, Copied, h, p
  <2>2. AtReactor(pc[Reactor(c)], frame[Reactor(c)], bundles[c][1], g, q)
    BY <1>0, <1>1, <2>1, ReactorStays
  <2> QED  BY <2>2 DEF Kept, Copied, g, q
<1>5. Copy' = Copy
  BY DEF Copy, LocalObject
<1> QED  BY <1>1, <1>3, <1>4, <1>5 DEF Kept, CopiesStep, p, q

\* The reactor of one client goes on, with its bundle or without.
LEMMA ReactorMoves ==
  ASSUME IInv, Kept, NoCalls', Sounds', NEW c \in Clients, NEW l, NEW f, NEW b,
         pc' = [pc EXCEPT ![Reactor(c)] = l], frame' = [frame EXCEPT ![Reactor(c)] = f],
         BundleSet(c, 1, b), table' = table, UNCHANGED vvars,
         AtReactor(l, f, b, history, Promised),
         b.obj = bundles[c][1].obj \/ Changes(bundles[c][1].obj, b.obj)
  PROVE  Kept' /\ CopiesStep
<1>1. history' = history /\ Promised' = Promised
  BY DEF vvars, Promised
<1>2. /\ pc'[Reactor(c)] = l /\ frame'[Reactor(c)] = f
      /\ \A t \in Threads : t # Reactor(c) => pc'[t] = pc[t] /\ frame'[t] = frame[t]
  BY ClientThreads DEF IInv, Local, ThreadTyped
<1>3. \A d \in Clients : App(d) # Reactor(c) /\ (d # c => Reactor(d) # Reactor(c))
  BY DEF App, Reactor
<1>4. \A d \in Clients : App(d) \in Threads /\ Reactor(d) \in Threads
  BY ClientThreads
<1>5. ASSUME NEW d \in Clients  PROVE Copied(d)'
  <2>1. CASE d = c
    BY <1>1, <1>2, <1>3, <1>4, <2>1 DEF BundleSet, Kept, Copied
  <2>2. CASE d # c
    BY <1>1, <1>2, <1>3, <1>4, <2>2 DEF BundleSet, Kept, Copied
  <2> QED  BY <2>1, <2>2
<1>6. /\ Copy = [d \in Clients |-> bundles[d][1].obj]
      /\ Copy' = [d \in Clients |-> bundles'[d][1].obj]
  <2>1. Copy' = [d \in Clients |-> IF table'[d] = 0 THEN NoObject ELSE bundles'[d][table'[d]].obj]
    BY DEF Copy, LocalObject
  <2>2. \A d \in Clients : table'[d] = 1
    BY <1>5 DEF Copied
  <2> QED  BY <2>1, <2>2, CopyIs DEF Kept
<1>7. Copy' = [Copy EXCEPT ![c] = b.obj]
  BY <1>6 DEF BundleSet
<1>8. ASSUME b.obj = bundles[c][1].obj  PROVE CopiesStep
  <2>1. Copy' = Copy
    BY <1>6, <1>7, <1>8
  <2> QED  BY <1>1, <2>1 DEF CopiesStep
<1>9. ASSUME Changes(bundles[c][1].obj, b.obj)  PROVE CopiesStep
  <2>1. Copy[c] = bundles[c][1].obj
    BY <1>6
  <2> QED  BY <1>1, <1>7, <1>9, <2>1 DEF CopiesStep
<1> QED  BY <1>5, <1>8, <1>9 DEF Kept

\* No step but a call spends what is left of the calls.
LEMMA NoCallsStay ==
  ASSUME NoCalls, NEW what, what \notin {"gets", "performs"}, NEW n,
         left' = left \/ left' = [left EXCEPT ![what] = n]
  PROVE  NoCalls'
  BY DEF NoCalls

\* Messages stay sound while the server and the inboxes are left alone.
LEMMA SoundsStay ==
  ASSUME Sounds, UNCHANGED <<vvars, inbox>>
  PROVE  Sounds'
<1>1. history' = history /\ Promised' = Promised /\ published' = published
  BY DEF vvars, Promised
<1> QED  BY <1>1 DEF Sounds

\* A bundle that is left alone is set to what it is.
LEMMA BundleStays ==
  ASSUME ClientTyped, NEW c \in Clients, bundles' = bundles
  PROVE  BundleSet(c, 1, bundles[c][1])
  BY DEF ClientTyped, BundleSet

\* The bundle the reactor works on is the only one.
LEMMA OnlyBundle ==
  ASSUME IInv, Kept, NEW c \in Clients
  PROVE  LET b == bundles[c][1]
         IN /\ b \in Bundles /\ b.obj \in Objects /\ b.obj # NoObject
            /\ b.obj.ver \in Nat /\ b.obj.data \in Seq(Ops)
            /\ b.methods \in Seq(Messages) /\ Len(b.methods) \in Nat
            /\ AtReactor(pc[Reactor(c)], frame[Reactor(c)], b, history, Promised)
            /\ frame[Reactor(c)].ref = 1 => Ref(Reactor(c)) = b
<1> DEFINE b == bundles[c][1]
<1>1. b \in Bundles /\ Len(bundles[c]) = 1
  BY BundleTypes DEF IInv, Local, Kept, Copied
<1>2. AtReactor(pc[Reactor(c)], frame[Reactor(c)], b, history, Promised)
  BY DEF Kept, Copied
<1>3. b.obj \in Objects /\ b.obj # NoObject
  BY <1>2, NullAssumption DEF AtReactor
<1>4. frame[Reactor(c)].ref = 1 => Ref(Reactor(c)) = b
  BY ClientThreads DEF Ref
<1> QED  BY <1>1, <1>2, <1>3, <1>4, LenProperties DEF Bundles, Objects

\* What the reactor does with an operation received: it is queued if it is the next,
\* ignored if it is old, and missed otherwise.
LEMMA QueueRefines ==
  ASSUME IInv, Kept, NEW c \in Clients, QueueOperation(Reactor(c))
  PROVE  Kept' /\ CopiesStep
<1> DEFINE t == Reactor(c)
           b == bundles[c][1]
           m == frame[t].msg
           q == Queue(b, m)
           l == IF QueueReturns(b, m) THEN "queued" ELSE "missed"
<1>0. t \in Threads /\ t[1] = c
  BY ClientThreads
<1>1. pc[t] = "queue"
  BY DEF QueueOperation
<1>2. /\ b \in Bundles /\ b.obj \in Objects /\ b.obj # NoObject /\ b.obj.ver \in Nat
      /\ frame[t].ref = 1 /\ Ref(t) = b /\ b.methods = <<>>
      /\ Sound(m, history, Promised)
  BY <1>1, OnlyBundle DEF AtReactor
<1>3. m \in Messages /\ m.ver \in Nat /\ m.ver <= Len(history) + 1 /\ Len(history) \in Nat
  BY <1>2, PromisedTypes DEF Sound, Messages, IInv
<1>4. Contiguous(b)
  BY <1>2, EmptySeq DEF Contiguous
<1>5. q \in Bundles /\ q.obj = b.obj
  BY <1>2, <1>3, <1>4, QueueKeeps
<1>6. /\ pc' = [pc EXCEPT ![t] = l] /\ frame' = [frame EXCEPT ![t] = frame[t]]
      /\ SetRef(t, q) /\ UNCHANGED <<vvars, table, inbox, left>>
  BY <1>2 DEF QueueOperation, Goto, channelVars, IInv, Local, ThreadTyped
<1>7. BundleSet(c, 1, q)
  BY <1>0, <1>2, <1>5, <1>6, RefIsSet DEF IInv, Local
<1>8. AtReactor(l, frame[t], q, history, Promised)
  <2>1. HasBasis(b) /\ Basis(b) = b.obj.ver
    BY <1>2 DEF HasBasis, Basis, Version
  <2>2. CASE m.ver = b.obj.ver + 1
    <3>1. Accepts(b, m)
      BY <2>1, <2>2 DEF Accepts
    <3>2. q.methods = <<m>> /\ l = "queued"
      BY <1>2, <3>1 DEF Queue, QueueReturns, Bundles
    <3>3. Fitting(q, history, Promised)
      BY <1>2, <1>5, <2>2, <3>2 DEF Fitting
    <3> QED  BY <1>2, <1>5, <3>2, <3>3 DEF AtReactor
  <2>3. CASE m.ver <= b.obj.ver
    <3>1. ~Accepts(b, m) /\ ~Missed(b, m) /\ Ignores(b, m)
      BY <1>2, <1>3, <2>1, <2>3 DEF Accepts, Missed, Ignores
    <3>2. q.methods = <<>> /\ l = "queued"
      BY <1>2, <3>1 DEF Queue, QueueReturns, Bundles
    <3> QED  BY <1>2, <1>5, <3>2 DEF AtReactor
  <2>4. CASE m.ver > b.obj.ver + 1
    <3>1. ~Accepts(b, m) /\ Missed(b, m) /\ ~Ignores(b, m)
      BY <1>2, <1>3, <2>1, <2>4 DEF Accepts, Missed, Ignores
    <3>2. q.methods = <<>> /\ l = "missed"
      BY <1>2, <3>1 DEF Queue, QueueReturns, Bundles
    <3> QED  BY <1>2, <1>5, <3>2 DEF AtReactor
  <2> QED  BY <1>2, <1>3, <2>2, <2>3, <2>4
<1>9. NoCalls' /\ Sounds'
  BY <1>6, SoundsStay DEF Kept, NoCalls
<1> HIDE DEF b, q, l
<1> QED  BY <1>5, <1>6, <1>7, <1>8, <1>9, ReactorMoves DEF b

\* apply: the operation queued, if there is one, stays in the queue ...
LEMMA PrepareRefines ==
  ASSUME IInv, Kept, NEW c \in Clients, ApplyPrepare(Reactor(c))
  PROVE  Kept' /\ CopiesStep
<1> DEFINE t == Reactor(c)
           b == bundles[c][1]
<1>0. t \in Threads /\ t[1] = c
  BY ClientThreads
<1>1. pc[t] = "apply"
  BY DEF ApplyPrepare
<1>2. /\ b \in Bundles /\ b.obj \in Objects /\ b.obj # NoObject /\ b.obj.ver \in Nat
      /\ frame[t].ref = 1 /\ Ref(t) = b
      /\ b.methods = <<>> \/ Fitting(b, history, Promised)
  BY <1>1, OnlyBundle DEF AtReactor
<1> HIDE DEF b
<1>3. /\ UNCHANGED <<vvars, table, inbox, left>>
      /\ SetRef(t, IF b.methods = <<>> THEN b ELSE PrepareQueue(b))
      /\ Goto(t, "head") /\ frame' = frame
  BY <1>2 DEF ApplyPrepare, channelVars
<1>4. ASSUME Fitting(b, history, Promised)  PROVE PrepareQueue(b) = b
  <2>1. /\ b.methods \in Seq(Messages) /\ Len(b.methods) = 1
        /\ b.methods[1].ver = b.obj.ver + 1
    BY <1>2, <1>4 DEF Fitting, Bundles
  <2>2. Newer(b) = {1}
    BY <1>2, <2>1, LenProperties DEF Newer, Version
  <2> DEFINE first == CHOOSE i \in Newer(b) : \A j \in Newer(b) : i <= j
  <2>3. first = 1
    BY <2>2
  <2> HIDE DEF first
  <2>4. SubSeq(b.methods, 1, 1) = b.methods
    BY <2>1, SubSeqProperties, SeqEqual
  <2>5. PrepareQueue(b) = [b EXCEPT !.methods = SubSeq(b.methods, first, Len(b.methods))]
    BY <2>2 DEF PrepareQueue, first
  <2> QED  BY <1>2, <2>1, <2>3, <2>4, <2>5 DEF Bundles
<1>5. SetRef(t, b)
  BY <1>2, <1>3, <1>4
<1>6. BundleSet(c, 1, b)
  BY <1>0, <1>2, <1>5, RefIsSet DEF IInv, Local
<1>7. AtReactor("head", frame[t], b, history, Promised)
  BY <1>2 DEF AtReactor
<1>8. NoCalls' /\ Sounds'
  BY <1>3, SoundsStay DEF Kept, NoCalls
<1>9. frame' = [frame EXCEPT ![t] = frame[t]]
  BY <1>3 DEF IInv, Local, ThreadTyped
<1> QED  BY <1>3, <1>6, <1>7, <1>8, <1>9, ReactorMoves DEF Goto, b

\* ... and fits the object.
LEMMA TestRefines ==
  ASSUME IInv, Kept, NEW c \in Clients, ApplyTest(Reactor(c))
  PROVE  Kept' /\ CopiesStep
<1> DEFINE t == Reactor(c)
           b == bundles[c][1]
<1>1. pc[t] = "head"
  BY DEF ApplyTest
<1>2. /\ b \in Bundles /\ b.obj \in Objects
      /\ frame[t].ref = 1 /\ Ref(t) = b
      /\ b.methods = <<>> \/ Fitting(b, history, Promised)
  BY <1>1, OnlyBundle DEF AtReactor
<1>3. UNCHANGED <<vvars, table, inbox, left, bundles>>
  BY DEF ApplyTest, channelVars
<1>4. BundleSet(c, 1, b)
  BY <1>3, BundleStays DEF IInv, Local
<1>5. NoCalls' /\ Sounds'
  BY <1>3, SoundsStay DEF Kept, NoCalls
<1> HIDE DEF b
<1>6. CASE b.methods = <<>>
  <2>1. Return(t)
    BY <1>2, <1>6 DEF ApplyTest, HeadFits
  <2>2. AtReactor("idle", NoFrame, b, history, Promised)
    BY <1>2, <1>6 DEF AtReactor
  <2> QED  BY <1>3, <1>4, <1>5, <2>1, <2>2, ReactorMoves DEF Return, Goto, b
<1>7. CASE Fitting(b, history, Promised)
  <2>1. HeadFits(b)
    <3>1. b.methods \in Seq(Messages) /\ b.methods # <<>>
      BY <1>2, <1>7, EmptySeq DEF Fitting, Bundles
    <3> QED  BY <1>7, <3>1, HeadTailProperties DEF HeadFits, Fitting, Version
  <2>2. Goto(t, "loop") /\ frame' = frame
    BY <1>2, <2>1 DEF ApplyTest, HeadFits
  <2>3. frame' = [frame EXCEPT ![t] = frame[t]]
    BY <2>2 DEF IInv, Local, ThreadTyped
  <2>4. AtReactor("loop", frame[t], b, history, Promised)
    BY <1>2, <1>7 DEF AtReactor
  <2> QED  BY <1>3, <1>4, <1>5, <2>2, <2>3, <2>4, ReactorMoves DEF Goto, b
<1> QED  BY <1>2, <1>6, <1>7

\* The loop of apply: the operation accepted for the next version is applied.
LEMMA LoopRefines ==
  ASSUME IInv, Kept, NEW c \in Clients, ApplyNext(Reactor(c))
  PROVE  Kept' /\ CopiesStep
<1> DEFINE t == Reactor(c)
           b == bundles[c][1]
           m == b.methods[1]
           q == ApplyHead(b)
<1>0. t \in Threads /\ t[1] = c
  BY ClientThreads
<1>1. pc[t] = "loop"
  BY DEF ApplyNext
<1>2. /\ b \in Bundles /\ b.obj \in Objects /\ b.obj # NoObject /\ b.obj.ver \in Nat
      /\ b.obj.data \in Seq(Ops) /\ b.methods \in Seq(Messages)
      /\ frame[t].ref = 1 /\ Ref(t) = b
      /\ Fitting(b, history, Promised)
  BY <1>1, OnlyBundle DEF AtReactor
<1>3. /\ Len(b.methods) = 1 /\ b.methods # <<>> /\ Head(b.methods) = m
      /\ Tail(b.methods) = <<>> /\ Contiguous(b)
      /\ m \in Messages /\ m.ver = b.obj.ver + 1 /\ Sound(m, history, Promised)
  <2>1. Len(b.methods) = 1 /\ b.methods # <<>>
    BY <1>2, EmptySeq DEF Fitting
  <2>2. /\ Head(b.methods) = m /\ Tail(b.methods) \in Seq(Messages)
        /\ Len(Tail(b.methods)) = 0
    BY <1>2, <2>1, HeadTailProperties
  <2>3. Tail(b.methods) = <<>>
    BY <2>2, EmptySeq
  <2>4. Contiguous(b)
    BY <2>1 DEF Contiguous
  <2> QED  BY <1>2, <2>1, <2>2, <2>3, <2>4 DEF Fitting, Sound
<1>4. /\ q \in Bundles /\ q.methods = <<>>
      /\ q.obj = IF m.op \in Invalid THEN b.obj ELSE Updated(b.obj, m.op)
  BY <1>2, <1>3, HeadKeeps DEF ApplyHead, ApplyUpdate, Updated
<1>5. /\ SetRef(t, q) /\ Return(t) /\ UNCHANGED <<vvars, table, inbox, left>>
  BY <1>2, <1>4 DEF ApplyNext, channelVars
<1>6. BundleSet(c, 1, q)
  BY <1>0, <1>2, <1>4, <1>5, RefIsSet DEF IInv, Local
<1> HIDE DEF b, m, q
<1>7. /\ q.obj \in Objects
      /\ q.obj = b.obj \/ Changes(b.obj, q.obj)
  <2>1. CASE m.op \in Invalid
    BY <1>2, <1>4, <2>1
  <2>2. CASE m.op \notin Invalid
    <3>1. /\ m.op \in Ops /\ b.obj.ver + 1 <= Len(Promised) /\ Promised[b.obj.ver + 1] = m.op
          /\ Len(Promised) \in Nat
      BY <1>3, <2>2, PromisedTypes DEF Sound, Messages, IInv
    <3>2. q.obj = Updated(b.obj, m.op) /\ b.obj.ver < Len(Promised)
      BY <1>2, <1>4, <2>2, <3>1
    <3>3. q.obj \in Objects
      BY <1>2, <3>1, <3>2, AppendProperties DEF Updated, Objects
    <3> QED  BY <3>1, <3>2, <3>3 DEF Changes
  <2> QED  BY <2>1, <2>2
<1>8. AtReactor("idle", NoFrame, q, history, Promised)
  BY <1>4, <1>7 DEF AtReactor
<1>9. NoCalls' /\ Sounds'
  BY <1>5, SoundsStay DEF Kept, NoCalls
<1> QED  BY <1>5, <1>6, <1>7, <1>8, <1>9, ReactorMoves DEF Return, Goto, b

\* localPut: the object fetched replaces the copy.
LEMMA SetRefines ==
  ASSUME IInv, Kept, NEW c \in Clients, PutSet(Reactor(c))
  PROVE  Kept' /\ CopiesStep
<1> DEFINE t == Reactor(c)
           b == bundles[c][1]
           q == [b EXCEPT !.obj = frame[t].obj]
           s == [bundles[c] EXCEPT ![1] = q]
<1>0. t \in Threads /\ t[1] = c
  BY ClientThreads
<1>1. pc[t] = "set"
  BY DEF PutSet
<1>2. /\ b \in Bundles /\ b.methods = <<>> /\ frame[t].next = "idle"
      /\ Served(frame[t].obj, history)
  BY <1>1, OnlyBundle DEF AtReactor
<1>2a. Served(frame[t].obj, Promised) /\ frame[t].obj \in Objects
  BY <1>2, PromisedTypes, ServedStays DEF IInv
<1>3. /\ q \in Bundles /\ q.methods = <<>> /\ q.obj = frame[t].obj
  BY <1>2, <1>2a DEF Bundles
<1>4. q.obj \in Objects /\ Changes(b.obj, q.obj)
  BY <1>2a, <1>3 DEF Changes
<1>5. /\ bundles \in [Clients -> Seq(Bundles)] /\ Len(bundles[c]) = 1 /\ table[c] = 1
  BY DEF IInv, Local, ClientTyped, Kept, Copied
<1>6. /\ s \in Seq(Bundles) /\ Len(s) = 1 /\ s[1] = q
  <2> HIDE DEF q
  <2>1. bundles[c] \in Seq(Bundles) /\ 1 \in 1..Len(bundles[c]) /\ Len(bundles[c]) = 1
    BY <1>5
  <2>2. q \in Bundles
    BY <1>3
  <2> QED  BY <2>1, <2>2, ExceptSeq
<1>7. /\ bundles' = [bundles EXCEPT ![c] = s] /\ Return(t)
      /\ UNCHANGED <<vvars, table, inbox, left>>
  BY <1>0, <1>2, <1>5 DEF PutSet, AfterPut, channelVars
<1> HIDE DEF s, q
<1>8. BundleSet(c, 1, q)
  BY <1>5, <1>6, <1>7 DEF BundleSet
<1>9. AtReactor("idle", NoFrame, q, history, Promised)
  BY <1>3, <1>4 DEF AtReactor
<1>10. NoCalls' /\ Sounds'
  BY <1>7, SoundsStay DEF Kept, NoCalls
<1> HIDE DEF b
<1> QED  BY <1>7, <1>8, <1>9, <1>10, <1>4, ReactorMoves DEF Return, Goto, b

\* A step of a reactor inside a method.
LEMMA ReactorRefines ==
  ASSUME IInv, Kept, NEW c \in Clients, Step(Reactor(c)) \/ RemoteFailure(Reactor(c))
  PROVE  Kept' /\ CopiesStep
<1> DEFINE t == Reactor(c)
           b == bundles[c][1]
<1>0. /\ t \in Threads /\ t[1] = c /\ table[c] = 1
      /\ frame = [frame EXCEPT ![t] = frame[t]]
  BY ClientThreads DEF Kept, Copied, IInv, Local, ThreadTyped
<1>1. /\ AtReactor(pc[t], frame[t], b, history, Promised) /\ b.obj # NoObject
      /\ frame[t].ref = 1 => Ref(t) = b
  BY OnlyBundle
<1> HIDE DEF b
<1>2. pc[t] \in {"idle", "queue", "queued", "apply", "head", "loop", "missed", "put", "set"}
  BY <1>1 DEF AtReactor
\* The steps that leave the bundle as it is.
<1>3. ASSUME NEW l, NEW f, AtReactor(l, f, b, history, Promised),
             pc' = [pc EXCEPT ![t] = l], frame' = [frame EXCEPT ![t] = f],
             UNCHANGED <<vvars, table, bundles, inbox>>,
             left' = left \/ Spend("failed")
      PROVE  Kept' /\ CopiesStep
  <2>1. NoCalls' /\ Sounds'
    BY <1>3, NoCallsStay, SoundsStay DEF Kept, Spend
  <2>2. BundleSet(c, 1, b)
    BY <1>3, BundleStays DEF b, IInv, Local
  <2> QED  BY <1>3, <2>1, <2>2, ReactorMoves DEF b
<1>4. CASE RemoteFailure(t)
  <2>1. AtReactor("idle", NoFrame, b, history, Promised)
    BY <1>1, <1>2, <1>4 DEF RemoteFailure, AtReactor
  <2> QED  BY <1>3, <1>4, <2>1 DEF RemoteFailure, Return, Goto, clientVars, channelVars
<1>5. CASE PutTest(t)
  <2>1. AtReactor("set", frame[t], b, history, Promised)
    BY <1>1, <1>5 DEF PutTest, AtReactor
  <2>2. /\ pc' = [pc EXCEPT ![t] = "set"] /\ frame' = frame
        /\ UNCHANGED <<vvars, table, bundles, inbox, left>>
    <3>1. table[t[1]] # 0
      BY <1>0
    <3> QED  BY <1>5, <3>1 DEF PutTest, Goto, clientVars, channelVars
  <2>3. frame' = [frame EXCEPT ![t] = frame[t]]
    BY <1>0, <2>2
  <2> QED  BY <1>3, <2>1, <2>2, <2>3
<1>6. CASE PutSet(t)
  BY <1>6, SetRefines
<1>7. CASE ApplyPrepare(t) \/ ApplyTest(t)
  BY <1>7, PrepareRefines, TestRefines
<1>8. CASE ApplyNext(t)
  BY <1>8, LoopRefines
<1>9. CASE QueueOperation(t)
  BY <1>9, QueueRefines
<1>10. CASE Queued(t)
  <2>1. AtReactor("apply", frame[t], b, history, Promised) /\ Ref(t) = b
    BY <1>1, <1>10 DEF Queued, AtReactor
  <2> QED  BY <1>0, <1>1, <1>3, <1>10, <2>1 DEF Queued, Goto, clientVars, channelVars
<1>11. CASE MissedOperation(t)
  <2>1. Ref(t) = b /\ b.methods = <<>> /\ b.obj \in Objects
    BY <1>1, <1>11 DEF MissedOperation, AtReactor
  <2>2. UNCHANGED <<vvars, table, bundles, inbox, left>>
    BY <1>11 DEF MissedOperation, clientVars, channelVars
  <2>3. CASE Return(t)
    <3>1. AtReactor("idle", NoFrame, b, history, Promised)
      BY <2>1 DEF AtReactor
    <3> QED  BY <1>3, <2>2, <2>3, <3>1 DEF Return, Goto
  <2>4. ASSUME NEW o \in Answers \ {NoObject}, Goto(t, "put"),
               frame' = [frame EXCEPT ![t].obj = o, ![t].next = "idle"]
        PROVE  Kept' /\ CopiesStep
    <3> DEFINE f == [frame[t] EXCEPT !.obj = o, !.next = "idle"]
    <3>1. f.obj = o /\ f.next = "idle"
      BY <1>0 DEF IInv, Local, ThreadTyped, Frames
    <3>2. Served(o, history)
      BY <2>4 DEF Answers, Served
    <3>3. pc' = [pc EXCEPT ![t] = "put"] /\ frame' = [frame EXCEPT ![t] = f]
      BY <2>4 DEF Goto
    <3> HIDE DEF f
    <3>4. AtReactor("put", f, b, history, Promised)
      BY <2>1, <3>1, <3>2 DEF AtReactor
    <3> QED  BY <1>3, <2>2, <3>3, <3>4
  <2> QED  BY <1>1, <1>11, <2>1, <2>3, <2>4 DEF MissedOperation
<1>12. CASE \/ TestSubscription(t) \/ RequestSubscription(t) \/ PerformRefused(t)
            \/ PerformPublished(t) \/ PerformAnswered(t) \/ Fetch(t) \/ PutNew(t) \/ GetBundle(t)
  BY <1>2, <1>12 DEF TestSubscription, RequestSubscription, PerformRefused, PerformPublished,
                     PerformAnswered, Fetch, PutNew, GetBundle
<1> QED  BY <1>4, <1>5, <1>6, <1>7, <1>8, <1>9, <1>10, <1>11, <1>12 DEF Step

\* An application that calls nothing has no step inside a method.
LEMMA ApplicationRests ==
  ASSUME Kept, NEW c \in Clients
  PROVE  ~Step(App(c)) /\ ~RemoteFailure(App(c))
<1>1. pc[App(c)] = "idle"
  BY DEF Kept, Copied
<1> QED
  BY <1>1 DEF Step, RemoteFailure, TestSubscription, RequestSubscription, PerformRefused,
              PerformPublished, PerformAnswered, Fetch, PutTest, PutSet, PutNew, GetBundle,
              ApplyPrepare, ApplyTest, ApplyNext, QueueOperation, Queued, MissedOperation

\* The reactor takes an operation from its inbox.
LEMMA ReceiveRefines ==
  ASSUME IInv, Kept, NEW c \in Clients, OperationReceived(c)
  PROVE  Kept' /\ CopiesStep
<1> DEFINE t == Reactor(c)
           b == bundles[c][1]
           m == Head(inbox[c])
           f == [obj |-> NoObject, ref |-> 1, msg |-> m, next |-> "lookup"]
<1>1. /\ pc[t] = "idle" /\ inbox[c] # <<>> /\ inbox[c] \in Seq(Messages)
      /\ table[c] = 1 /\ inbox \in [Clients -> Seq(Messages)]
  BY DEF OperationReceived, IInv, ChannelTyped, Kept, Copied
<1>2. /\ m = inbox[c][1] /\ Len(inbox[c]) \in Nat /\ 1 \in 1..Len(inbox[c])
      /\ Tail(inbox[c]) \in Seq(Messages) /\ Len(Tail(inbox[c])) = Len(inbox[c]) - 1
      /\ \A i \in 1..Len(Tail(inbox[c])) : Tail(inbox[c])[i] = inbox[c][i + 1]
  BY <1>1, HeadTailProperties, LenProperties, EmptySeq
<1>3. Sound(m, history, Promised)
  BY <1>2 DEF Kept, Sounds
<1>4. /\ inbox' = [inbox EXCEPT ![c] = Tail(@)] /\ UNCHANGED <<vvars, table, bundles, left>>
      /\ pc' = [pc EXCEPT ![t] = "queue"] /\ frame' = [frame EXCEPT ![t] = f]
  BY <1>1 DEF OperationReceived, Goto, clientVars
<1> HIDE DEF m
<1>5. AtReactor("queue", f, b, history, Promised)
  <2>1. b.obj \in Objects /\ b.methods = <<>>
    BY <1>1, OnlyBundle DEF AtReactor
  <2> QED  BY <1>3, <2>1 DEF AtReactor
<1>6. Sounds'
  <2>1. history' = history /\ Promised' = Promised /\ published' = published
    BY <1>4 DEF vvars, Promised
  <2>2. ASSUME NEW d \in Clients, NEW i \in 1..Len(inbox'[d])
        PROVE  Sound(inbox'[d][i], history, Promised)
    <3>1. CASE d # c
      BY <1>1, <1>4, <3>1 DEF Kept, Sounds
    <3>2. CASE d = c
      <4>1. inbox'[d] = Tail(inbox[c])
        BY <1>1, <1>4, <3>2
      <4>2. inbox'[d][i] = inbox[c][i + 1] /\ i + 1 \in 1..Len(inbox[c])
        BY <1>2, <4>1
      <4> QED  BY <4>2 DEF Kept, Sounds
    <3> QED  BY <3>1, <3>2
  <2> QED  BY <2>1, <2>2 DEF Kept, Sounds
<1>7. NoCalls' /\ BundleSet(c, 1, b)
  BY <1>4, BundleStays DEF Kept, NoCalls, IInv, Local
<1> HIDE DEF b, f
<1> QED  BY <1>4, <1>5, <1>6, <1>7, ReactorMoves DEF b

\* Messages are delivered, and subscriptions requested and taken up, between the
\* steps that matter to a copy.
LEMMA ChannelRefines ==
  ASSUME IInv, Kept,
         \/ \E c \in Clients : Subscribe(c) \/ Unsubscribe(c) \/ Establish(c)
         \/ \E missed \in SUBSET Clients : Route(missed)
         \/ UNCHANGED cvars
  PROVE  Kept' /\ CopiesStep
<1>1. /\ UNCHANGED <<vvars, table, bundles, pc, frame>>
      /\ inbox' = inbox \/ \E missed \in SUBSET Clients : Route(missed)
  BY DEF Subscribe, Unsubscribe, Establish, Route, cvars, clientVars, channelVars, threadVars
<1>2. history' = history /\ Promised' = Promised /\ published' = published
  BY <1>1 DEF vvars, Promised
<1>3. Copy' = Copy
  BY <1>1 DEF Copy, LocalObject
<1>4. \A c \in Clients : Copied(c)'
  BY <1>1, <1>2 DEF Kept, Copied
<1>5. NoCalls'
  <2>1. ASSUME NEW c \in Clients, Unsubscribe(c)  PROVE NoCalls'
    <3>1. left' = [left EXCEPT !["unsubs"] = [left["unsubs"] EXCEPT ![c] = left["unsubs"][c] - 1]]
      BY <2>1 DEF Unsubscribe, SpendOf
    <3> QED  BY <3>1, NoCallsStay DEF Kept
  <2>2. ASSUME NEW missed, Route(missed)  PROVE NoCalls'
    <3>1. left' = [left EXCEPT !["lost"] = left["lost"] - Cardinality(missed)]
      BY <2>2 DEF Route
    <3> QED  BY <3>1, NoCallsStay DEF Kept
  <2>3. ASSUME left' = left  PROVE NoCalls'
    BY <2>3 DEF Kept, NoCalls
  <2> QED  BY <2>1, <2>2, <2>3 DEF Subscribe, Establish, cvars
<1>6. Sounds'
  <2>1. CASE inbox' = inbox
    BY <1>1, <2>1, SoundsStay DEF Kept
  <2>2. ASSUME NEW missed \in SUBSET Clients, Route(missed)  PROVE Sounds'
    <3> DEFINE m == published[routed + 1]
    <3>1. routed + 1 \in 1..Len(published) /\ m \in Messages
      <4>1. routed + 1 \in 1..Len(published) /\ published \in Seq(Messages)
        BY <2>2, LenProperties DEF Route, IInv, ServerTyped, ChannelTyped
      <4> QED  BY <4>1, ElementOfSeq
    <3>2. Sound(m, history, Promised)
      BY <3>1 DEF Kept, Sounds
    <3> HIDE DEF m
    <3>3. \A c \in Clients : inbox'[c] = inbox[c] \/ inbox'[c] = Append(inbox[c], m)
      BY <2>2 DEF Route, m
    <3>4. ASSUME NEW c \in Clients, NEW i \in 1..Len(inbox'[c])
          PROVE  Sound(inbox'[c][i], history, Promised)
      <4>1. inbox[c] \in Seq(Messages) /\ Len(inbox[c]) \in Nat
        BY LenProperties DEF IInv, ChannelTyped
      <4>2. CASE inbox'[c] = inbox[c]
        BY <4>2 DEF Kept, Sounds
      <4>3. CASE inbox'[c] = Append(inbox[c], m)
        <5>1. /\ Len(inbox'[c]) = Len(inbox[c]) + 1 /\ inbox'[c][Len(inbox[c]) + 1] = m
              /\ \A j \in 1..Len(inbox[c]) : inbox'[c][j] = inbox[c][j]
          BY <3>1, <4>1, <4>3, AppendProperties
        <5>2. CASE i \in 1..Len(inbox[c])
          BY <5>1, <5>2 DEF Kept, Sounds
        <5>3. CASE i = Len(inbox[c]) + 1
          BY <3>2, <5>1, <5>3
        <5> QED  BY <4>1, <5>1, <5>2, <5>3
      <4> QED  BY <3>3, <4>2, <4>3
    <3> QED  BY <1>2, <3>4 DEF Kept, Sounds
  <2> QED  BY <1>1, <2>1, <2>2
<1> QED  BY <1>2, <1>3, <1>4, <1>5, <1>6 DEF Kept, CopiesStep

\* Every step keeps the copies as they should be, and is a step of CachedCopies or none.
LEMMA KeptStep ==
  ASSUME IInv, Kept, [Next]_cvars
  PROVE  Kept' /\ CopiesStep
<1>1. ASSUME NEW t \in Threads, Step(t) \/ RemoteFailure(t)
      PROVE  Kept' /\ CopiesStep
  <2>1. PICK c \in Clients : t = App(c) \/ t = Reactor(c)
    BY DEF Threads, App, Reactor
  <2> QED  BY <1>1, <2>1, ApplicationRests, ReactorRefines
<1>2. ASSUME NEW c \in Clients, Application(c)
      PROVE  Kept' /\ CopiesStep
  <2>1. ~CallRemoteGet(c) /\ \A op \in Ops : ~CallRemotePerform(c, op)
    <3>1. left["gets"][c] = 0 /\ left["performs"][c] = 0
      BY DEF Kept, NoCalls
    <3> QED  BY <3>1 DEF CallRemoteGet, CallRemotePerform, SpendOf
  <2> QED  BY <1>2, <2>1, ChannelRefines DEF Application
<1>3. ASSUME NEW c \in Clients, OperationReceived(c) \/ Establish(c)
      PROVE  Kept' /\ CopiesStep
  BY <1>3, ReceiveRefines, ChannelRefines
<1>4. ASSUME NEW missed \in SUBSET Clients, Route(missed)
      PROVE  Kept' /\ CopiesStep
  BY <1>4, ChannelRefines
<1>5. ASSUME (\E op \in Ops : OtherPublish(op)) \/ OtherAnswered
      PROVE  Kept' /\ CopiesStep
  <2>1. /\ UNCHANGED <<table, bundles, pc, frame, inbox>>
        /\ (\E op \in Ops : VOPublish(op)) \/ VOApply \/ VOFail
        /\ left' = left \/ Spend("others")
    BY <1>5 DEF OtherPublish, OtherAnswered, clientVars, channelVars
  <2>2. NoCalls'
    BY <2>1, NoCallsStay DEF Spend, Kept
  <2> QED  BY <2>1, <2>2, ServerMoves
<1>6. CASE UNCHANGED cvars
  BY <1>6, ChannelRefines
<1> QED  BY <1>1, <1>2, <1>3, <1>4, <1>5, <1>6 DEF Next

\* At first every copy is the object nobody has performed an operation on.
LEMMA KeptInit ==
  ASSUME Init, OnlyReactors
  PROVE  Kept /\ Copies!CCInit
<1> USE DEF Init, OnlyReactors
<1>1. Promised = <<>> /\ history = <<>> /\ published = <<>>
  BY NoOpAssumption DEF VOInit, Promised
<1>2. NoCalls
  <2>1. /\ left["gets"] = [c \in Clients |-> 0] /\ left["performs"] = [c \in Clients |-> 0]
    OBVIOUS
  <2>2. "gets" \in DOMAIN left /\ "performs" \in DOMAIN left
    OBVIOUS
  <2> QED  BY <2>1, <2>2 DEF NoCalls
<1>3. Sounds
  BY <1>1, EmptySeq DEF Sounds
<1>4. ASSUME NEW c \in Clients
      PROVE  Copied(c) /\ LocalObject(c) = Whole(<<>>)
  <2>1. /\ bundles[c] = <<NewBundle(Whole(<<>>))>> /\ table[c] = 1
        /\ pc[App(c)] = "idle" /\ pc[Reactor(c)] = "idle"
    BY ClientThreads
  <2>2. /\ Len(bundles[c]) = 1 /\ bundles[c][1].obj = Whole(<<>>) /\ bundles[c][1].methods = <<>>
    BY <2>1 DEF NewBundle
  <2>3. Whole(<<>>) \in Objects
    BY EmptySeq DEF Whole, Objects
  <2> QED  BY <2>1, <2>2, <2>3 DEF Copied, AtReactor, LocalObject
<1>5. Copies!CCInit
  BY <1>1, <1>4, CopiesAre DEF Copy
<1> QED  BY <1>2, <1>3, <1>4, <1>5 DEF Kept

\* While nobody calls the cache (CacheClient.remoteGet, remotePerform) and the reactor
\* alone touches a client's copy, an operation is applied to the copy only if it is the
\* one accepted for the copy's next version, and otherwise the copy is replaced only by
\* one the server's object can have been serialized to, whatever operations fail,
\* whatever messages are lost, whatever calls for a copy fail and however old the bytes
\* they return (CacheClient.operationReceived, localPut; ObjectBundle).
THEOREM ReactorKeepsCopies == OnlyReactors => (Spec => ImplementsCachedCopies)
<1> SUFFICES ASSUME OnlyReactors PROVE Spec => ImplementsCachedCopies
  OBVIOUS
<1>1. Init => IInv /\ Kept /\ Copies!CCInit
  BY IInvInit, KeptInit
<1>2. IInv /\ Kept /\ [Next]_cvars
         => IInv' /\ Kept' /\ [Copies!CCNext]_<<Promised, Copy>>
  BY IInvStep, KeptStep, CopiesAre
<1>3. Copies!CCSpec <=> Copies!CCInit /\ [][Copies!CCNext]_<<Promised, Copy>>
  BY DEF Copies!CCSpec, Copy
<1> QED  BY <1>1, <1>2, <1>3, PTL DEF Spec, ImplementsCachedCopies
=============================================================================
