-------------------------- MODULE CacheServer_proofs --------------------------
(***************************************************************************)
(* Proofs about CacheServer, for any keys, threads, operations and bounds. *)
(***************************************************************************)
EXTENDS CacheServer, SequenceTheorems, WellFoundedInduction, TLAPS

\* The thread has invoked the method, and not answered yet, on object s.
Answering(t, s) == pc[t] \in {"inc", "discard"} /\ frame[t].s = s

\* The locals a thread needs have been set.
FramesSet ==
  \A t \in Threads :
     /\ frame[t].s <= Len(subject)
     /\ pc[t] \notin {"idle", "enter"} => frame[t].s # 0
     /\ pc[t] \in {"enter"} \cup Updating => frame[t].op \in Ops

\* Between two updates an object is at the version its answers make.
AtRest ==
  \A s \in 1..Len(subject) :
     (\A t \in Threads : ~Answering(t, s)) =>
        /\ Len(subject[s].data) = Len(acked[s])
        /\ subject[s].ver = subject[s].base + Len(acked[s])

\* During an update by t, its object gets one operation ahead of the answers:
\* first in content, then in version.
Ahead(t, s, n) ==
  /\ frame[t].ver = subject[s].base + n + 1
  /\ pc[t] \in {"inc", "discard"} =>
        Len(subject[s].data) = n + 1 /\ subject[s].data[n + 1] = frame[t].op
  /\ pc[t] = "inc" => subject[s].ver = subject[s].base + n
  /\ pc[t] = "discard" => subject[s].ver = subject[s].base + n + 1

InUpdate ==
  \A t \in Threads :
     pc[t] \in Updating => Ahead(t, frame[t].s, Len(acked[frame[t].s]))

\* The answers agree with the contents.
AnswersMatch ==
  \A s \in 1..Len(subject) : \A i \in 1..Len(acked[s]) :
     /\ Len(acked[s]) <= Len(subject[s].data)
     /\ acked[s][i] = [op |-> subject[s].data[i], ver |-> subject[s].base + i]

\* The inductive invariant: AcceptedExactlyOnce does not say where the version
\* stands while an operation is being applied, which the next one depends on.
IInv ==
  /\ WellTyped /\ UpdatesInMonitor /\ FramesSet
  /\ AtRest /\ InUpdate /\ AnswersMatch
-----------------------------------------------------------------------------
\* A thread that moves on has a label and locals of the right type, and no
\* other thread is moved.
LEMMA ThreadMoves ==
  ASSUME WellTyped, NEW t \in Threads, NEW l \in Labels, NEW f \in Frames,
         pc' = [pc EXCEPT ![t] = l], frame' = [frame EXCEPT ![t] = f]
  PROVE  /\ pc' \in [Threads -> Labels] /\ frame' \in [Threads -> Frames]
         /\ pc'[t] = l /\ frame'[t] = f
         /\ \A u \in Threads : u # t => pc'[u] = pc[u] /\ frame'[u] = frame[u]
  BY DEF WellTyped

\* The same for a thread that keeps its locals.
LEMMA ThreadGoes ==
  ASSUME WellTyped, NEW t \in Threads, NEW l \in Labels,
         pc' = [pc EXCEPT ![t] = l], frame' = frame
  PROVE  /\ pc' \in [Threads -> Labels] /\ frame' \in [Threads -> Frames]
         /\ pc'[t] = l /\ frame'[t] = frame[t]
         /\ \A u \in Threads : u # t => pc'[u] = pc[u] /\ frame'[u] = frame[u]
  BY DEF WellTyped

\* Replacing one object by another leaves the others as they are.
LEMMA ObjectChanges ==
  ASSUME WellTyped, NEW s \in 1..Len(subject), NEW r \in Subjects,
         subject' = [subject EXCEPT ![s] = r]
  PROVE  /\ subject' \in Seq(Subjects)
         /\ Len(subject') = Len(subject)
         /\ subject'[s] = r
         /\ \A i \in 1..Len(subject) : i # s => subject'[i] = subject[i]
  BY ExceptSeq DEF WellTyped

\* What WellTyped says of the lengths, of one object and of one thread.
LEMMA Types ==
  ASSUME WellTyped
  PROVE  /\ Len(subject) \in Nat /\ Len(acked) = Len(subject)
         /\ \A s \in 1..Len(subject) :
               subject[s] \in Subjects /\ acked[s] \in Seq([op : Ops, ver : Nat])
         /\ \A t \in Threads : frame[t] \in Frames /\ pc[t] \in Labels
  BY LenProperties, ElementOfSeq DEF WellTyped

\* A thread past its lookup works on an object that exists.
LEMMA HasObject ==
  ASSUME WellTyped, FramesSet, NEW t \in Threads, frame[t].s # 0
  PROVE  /\ frame[t].s \in 1..Len(subject)
         /\ Subj(t) \in Subjects
  BY Types DEF FramesSet, Frames, Subj

\* An idle thread's locals are typed.
LEMMA NoFrameTyped == NoFrame \in Frames
  BY DEF NoFrame, Frames
-----------------------------------------------------------------------------
\* The type invariant is preserved by every step, given that the locals a step
\* uses have been set.
LEMMA TypeOKStep ==
  ASSUME WellTyped, FramesSet, [Next]_svars
  PROVE  WellTyped'
<1> USE DEF Goto, Return
<1> DEFINE M == [op : Ops, ver : Nat]
<1> DEFINE P == [op : Ops, ver : Nat, src : Nat]
<1>0. /\ {"idle", "enter", "call", "inc", "discard"} \subseteq Labels
      /\ {"test", "sver", "sdata", "store", "return", "answer"} \subseteq Labels
  BY DEF Labels, Updating
<1>1. ASSUME NEW t \in Threads, NEW k \in Keys, NEW v \in LoadVersions,
             LoadObj(t, k, v)
      PROVE  WellTyped'
  <2>1. NewSubject(k, v) \in Subjects
    BY EmptySeq, ServerAssumption DEF NewSubject, Subjects, Bytes
  <2>2. /\ subject' \in Seq(Subjects)
        /\ Len(subject') = Len(subject) + 1
    BY <1>1, <2>1, AppendProperties DEF LoadObj, WellTyped
  <2>3. /\ acked' \in Seq(Seq(M))
        /\ Len(acked') = Len(acked) + 1
    BY <1>1, EmptySeq, AppendProperties DEF LoadObj, WellTyped
  <2>4. table' \in [Keys -> 0..Len(subject')]
    BY <1>1, <2>2, Types DEF LoadObj, WellTyped
  <2> QED  BY <1>1, <2>2, <2>3, <2>4 DEF LoadObj, WellTyped
<1>2. ASSUME NEW t \in Threads, NEW k \in Keys, NEW op \in Ops,
             NEW v \in 0..MaxVersion, PerformLookup(t, k, op, v)
      PROVE  WellTyped'
  <2>1. [s |-> table[k], op |-> op, ver |-> v, snap |-> NoBytes] \in Frames
    BY Types, ServerAssumption DEF WellTyped, Frames
  <2> QED  BY <1>0, <1>2, <2>1, ThreadMoves DEF PerformLookup, WellTyped
<1>3. ASSUME NEW t \in Threads, NEW k \in Keys, GetLookup(t, k)
      PROVE  WellTyped'
  <2>0. table[k] \in Nat
    BY Types DEF WellTyped
  <2>1. [frame[t] EXCEPT !.s = table[k]] \in Frames
    BY <2>0, Types DEF Frames
  <2> QED  BY <1>0, <1>3, <2>1, ThreadMoves DEF GetLookup, WellTyped
<1>4. ASSUME NEW t \in Threads, PerformReject(t)
      PROVE  WellTyped'
  BY <1>0, <1>4, NoFrameTyped, ThreadMoves DEF PerformReject, WellTyped
<1>5. ASSUME NEW t \in Threads, PerformPublish(t)
      PROVE  WellTyped'
  <2> DEFINE m == [op |-> frame[t].op, ver |-> frame[t].ver, src |-> frame[t].s]
  <2>1. m \in P
    BY <1>5, Types DEF PerformPublish, FramesSet, Frames
  <2>2. Subj(t).key \in Keys
    BY <1>5, HasObject DEF PerformPublish, IsNext, Subjects
  <2>3. Append(published[Subj(t).key], m) \in Seq(P)
    BY <2>1, <2>2, AppendProperties DEF WellTyped
  <2>4. published' \in [Keys -> Seq(P)]
    BY <1>5, <2>2, <2>3 DEF PerformPublish, WellTyped
  <2> QED  BY <1>0, <1>5, <2>4, ThreadGoes DEF PerformPublish, WellTyped
<1>6. ASSUME NEW t \in Threads, CallFail(t)
      PROVE  WellTyped'
  BY <1>0, <1>6, NoFrameTyped, ThreadMoves DEF CallFail, WellTyped
<1>7. ASSUME NEW t \in Threads, CallInvoke(t)
      PROVE  WellTyped'
  <2>1. frame[t].s \in 1..Len(subject) /\ Subj(t) \in Subjects /\ frame[t].op \in Ops
    BY <1>7, HasObject DEF CallInvoke, FramesSet, Updating
  <2>2. Append(Subj(t).data, frame[t].op) \in Seq(Ops)
    BY <2>1, AppendProperties DEF Subjects
  <2>3. [Subj(t) EXCEPT !.data = Append(@, frame[t].op)] \in Subjects
    BY <2>1, <2>2 DEF Subjects
  <2>4. subject' \in Seq(Subjects) /\ Len(subject') = Len(subject)
    BY <1>7, <2>1, <2>3, ObjectChanges DEF CallInvoke, Subj
  <2> QED  BY <1>0, <1>7, <2>4, ThreadGoes DEF CallInvoke, WellTyped
<1>8. ASSUME NEW t \in Threads, IncVersion(t)
      PROVE  WellTyped'
  <2>1. frame[t].s \in 1..Len(subject) /\ Subj(t) \in Subjects
    BY <1>8, HasObject DEF IncVersion, FramesSet
  <2>2. [Subj(t) EXCEPT !.ver = @ + 1] \in Subjects
    BY <2>1 DEF Subjects
  <2>3. subject' \in Seq(Subjects) /\ Len(subject') = Len(subject)
    BY <1>8, <2>1, <2>2, ObjectChanges DEF IncVersion, Subj
  <2> QED  BY <1>0, <1>8, <2>3, ThreadGoes DEF IncVersion, WellTyped
<1>9. ASSUME NEW t \in Threads, Discard(t)
      PROVE  WellTyped'
  <2>1. /\ frame[t].s \in 1..Len(subject) /\ Subj(t) \in Subjects
        /\ frame[t].op \in Ops /\ frame[t].ver \in Nat
    BY <1>9, HasObject, Types DEF Discard, FramesSet, Updating, Frames
  <2>2. [Subj(t) EXCEPT !.ser = NoBytes] \in Subjects
    BY <2>1 DEF Subjects
  <2>3. subject' \in Seq(Subjects) /\ Len(subject') = Len(subject)
    BY <1>9, <2>1, <2>2, ObjectChanges DEF Discard, Subj
  <2>4. Message(frame[t].op, frame[t].ver) \in M
    BY <2>1 DEF Message
  <2>5. Append(acked[frame[t].s], Message(frame[t].op, frame[t].ver)) \in Seq(M)
    BY <2>1, <2>4, Types, AppendProperties
  <2>6. acked' \in Seq(Seq(M)) /\ Len(acked') = Len(acked)
    BY <1>9, <2>1, <2>5, Types, ExceptSeq DEF Discard, WellTyped
  <2> QED
    BY <1>0, <1>9, <2>3, <2>6, NoFrameTyped, ThreadMoves DEF Discard, WellTyped
<1>10. ASSUME NEW t \in Threads, GetTest(t)
      PROVE  WellTyped'
  BY <1>0, <1>10, ThreadGoes DEF GetTest, WellTyped
<1>11. ASSUME NEW t \in Threads, SerializeVersion(t)
      PROVE  WellTyped'
  <2>1. Subj(t).ver \in Nat
    BY <1>11, HasObject DEF SerializeVersion, FramesSet, Subjects
  <2>2. [frame[t] EXCEPT !.ver = Subj(t).ver] \in Frames
    BY <2>1, Types DEF Frames
  <2> QED  BY <1>0, <1>11, <2>2, ThreadMoves DEF SerializeVersion, WellTyped
<1>12. ASSUME NEW t \in Threads, SerializeData(t)
      PROVE  WellTyped'
  <2>1. Subj(t).data \in Seq(Ops)
    BY <1>12, HasObject DEF SerializeData, FramesSet, Subjects
  <2>2. [ver |-> frame[t].ver, data |-> Subj(t).data] \in Bytes
    BY <2>1, Types DEF Frames, Bytes
  <2>3. [frame[t] EXCEPT !.snap =
           [ver |-> frame[t].ver, data |-> Subj(t).data]] \in Frames
    BY <2>2, Types DEF Frames
  <2> QED  BY <1>0, <1>12, <2>3, ThreadMoves DEF SerializeData, WellTyped
<1>13. ASSUME NEW t \in Threads, SerializeStore(t)
      PROVE  WellTyped'
  <2>1. frame[t].s \in 1..Len(subject) /\ Subj(t) \in Subjects
    BY <1>13, HasObject DEF SerializeStore, FramesSet
  <2>2. [Subj(t) EXCEPT !.ser = frame[t].snap] \in Subjects
    BY <2>1, Types DEF Subjects, Frames
  <2>3. subject' \in Seq(Subjects) /\ Len(subject') = Len(subject)
    BY <1>13, <2>1, <2>2, ObjectChanges DEF SerializeStore, Subj
  <2> QED  BY <1>0, <1>13, <2>3, ThreadGoes DEF SerializeStore, WellTyped
<1>14. ASSUME NEW t \in Threads, GetReturn(t)
      PROVE  WellTyped'
  <2>1. Subj(t).ser \in Bytes \cup {NoBytes}
    BY <1>14, HasObject DEF GetReturn, FramesSet, Subjects
  <2>2. [frame[t] EXCEPT !.snap = Subj(t).ser] \in Frames
    BY <2>1, Types DEF Frames
  <2> QED  BY <1>0, <1>14, <2>2, ThreadMoves DEF GetReturn, WellTyped
<1>15. ASSUME NEW t \in Threads, GetAnswer(t)
      PROVE  WellTyped'
  BY <1>0, <1>15, NoFrameTyped, ThreadMoves DEF GetAnswer, WellTyped
<1>16. CASE UNCHANGED svars
  BY <1>16 DEF svars, WellTyped
<1> QED
  BY <1>1, <1>2, <1>3, <1>4, <1>5, <1>6, <1>7, <1>8, <1>9, <1>10, <1>11,
     <1>12, <1>13, <1>14, <1>15, <1>16 DEF Next, Call, Step
-----------------------------------------------------------------------------
\* Locals stay set when the thread that moves has the locals its next label
\* needs, and no object goes away.
LEMMA LocalsStep ==
  ASSUME FramesSet, NEW t \in Threads,
         Len(subject') = Len(subject),
         \A u \in Threads : u # t => pc'[u] = pc[u] /\ frame'[u] = frame[u],
         frame'[t].s <= Len(subject),
         pc'[t] \notin {"idle", "enter"} => frame'[t].s # 0,
         pc'[t] \in {"enter"} \cup Updating => frame'[t].op \in Ops
  PROVE  FramesSet'
  BY DEF FramesSet

\* The locals of every thread stay set.
LEMMA FramesSetStep ==
  ASSUME WellTyped, WellTyped', FramesSet, [Next]_svars
  PROVE  FramesSet'
<1> USE DEF Goto, Return
<1> DEFINE n == Len(subject)
<1>a. n \in Nat
  BY LenProperties DEF WellTyped
<1>b. \A t \in Threads : frame[t] \in Frames /\ frame[t].s \in Nat /\ frame[t].s <= n
  BY Types DEF FramesSet, Frames
<1>c. ASSUME NEW t \in Threads, Step(t) \/ \E k \in Keys : GetLookup(t, k)
                \/ \E op \in Ops, v \in 0..MaxVersion : PerformLookup(t, k, op, v)
      PROVE  /\ Len(subject') = n
             /\ \A u \in Threads : u # t => pc'[u] = pc[u] /\ frame'[u] = frame[u]
  <2>1. Len(subject') = n
    <3>1. CASE Discard(t)
      <4>1. frame[t].s \in 1..n /\ Subj(t) \in Subjects
        BY <3>1, HasObject DEF Discard, FramesSet
      <4>2. [Subj(t) EXCEPT !.ser = NoBytes] \in Subjects
        BY <4>1 DEF Subjects
      <4> QED  BY <3>1, <4>1, <4>2, ObjectChanges DEF Discard, Subj
    <3>2. CASE ~Discard(t)
      <4>1. acked' = acked
        BY <1>c, <3>2 DEF Step, PerformReject, PerformPublish, CallFail,
           CallInvoke, IncVersion, GetTest, SerializeVersion, SerializeData,
           SerializeStore, GetReturn, GetAnswer, PerformLookup, GetLookup
      <4> QED  BY <4>1 DEF WellTyped
    <3> QED  BY <3>1, <3>2
  <2>2. \A u \in Threads : u # t => pc'[u] = pc[u] /\ frame'[u] = frame[u]
    BY <1>c DEF WellTyped, Step, PerformReject, PerformPublish,
       CallFail, CallInvoke, IncVersion, Discard, GetTest, SerializeVersion,
       SerializeData, SerializeStore, GetReturn, GetAnswer, PerformLookup, GetLookup
  <2> QED  BY <2>1, <2>2
<1>1. ASSUME NEW t \in Threads, NEW k \in Keys, NEW v \in LoadVersions,
             LoadObj(t, k, v)
      PROVE  FramesSet'
  <2>1. Len(subject') = n + 1
    BY <1>1, Types DEF LoadObj, WellTyped
  <2> QED  BY <1>1, <2>1, <1>a, <1>b DEF LoadObj, FramesSet
<1>2. ASSUME NEW t \in Threads, NEW k \in Keys, NEW op \in Ops,
             NEW v \in 0..MaxVersion, PerformLookup(t, k, op, v)
      PROVE  FramesSet'
  <2>1. table[k] \in 0..n
    BY DEF WellTyped
  <2>2. pc'[t] = "enter" /\ frame'[t].s = table[k] /\ frame'[t].op = op
    BY <1>2 DEF PerformLookup, WellTyped
  <2> QED  BY <1>2, <1>a, <1>c, <2>1, <2>2, LocalsStep
<1>3. ASSUME NEW t \in Threads, NEW k \in Keys, GetLookup(t, k)
      PROVE  FramesSet'
  <2>1. table[k] \in 0..n /\ table[k] # 0
    BY <1>3 DEF WellTyped, GetLookup
  <2>2. pc'[t] = "test" /\ frame'[t].s = table[k]
    BY <1>3, <1>b DEF GetLookup, WellTyped, Frames
  <2> QED  BY <1>3, <1>a, <1>c, <2>1, <2>2, LocalsStep DEF Updating
<1>4. ASSUME NEW t \in Threads,
             PerformReject(t) \/ CallFail(t) \/ GetAnswer(t) \/ Discard(t)
      PROVE  FramesSet'
  <2>1. pc'[t] = "idle" /\ frame'[t].s = 0
    BY <1>4 DEF PerformReject, CallFail, GetAnswer, Discard, WellTyped, NoFrame
  <2> QED  BY <1>4, <1>a, <1>c, <2>1, LocalsStep DEF Updating, Step
<1>5. ASSUME NEW t \in Threads, PerformPublish(t) \/ CallInvoke(t) \/ IncVersion(t)
      PROVE  FramesSet'
  <2>1. frame[t].s # 0 /\ frame[t].op \in Ops
    BY <1>5 DEF PerformPublish, CallInvoke, IncVersion, IsNext, FramesSet, Updating
  <2>2. frame'[t] = frame[t]
    BY <1>5 DEF PerformPublish, CallInvoke, IncVersion
  <2> QED  BY <1>5, <1>b, <1>c, <2>1, <2>2, LocalsStep DEF Step
<1>6. ASSUME NEW t \in Threads,
             \/ GetTest(t) \/ SerializeVersion(t) \/ SerializeData(t)
             \/ SerializeStore(t) \/ GetReturn(t)
      PROVE  FramesSet'
  <2>1. frame[t].s # 0
    BY <1>6 DEF GetTest, SerializeVersion, SerializeData, SerializeStore,
       GetReturn, FramesSet
  <2>2. pc'[t] \in {"sver", "sdata", "store", "return", "answer"}
    BY <1>6 DEF GetTest, SerializeVersion, SerializeData, SerializeStore,
       GetReturn, WellTyped
  <2>3. frame'[t].s = frame[t].s
    BY <1>6, <1>b DEF GetTest, SerializeVersion, SerializeData, SerializeStore,
       GetReturn, WellTyped, Frames
  <2> QED  BY <1>6, <1>b, <1>c, <2>1, <2>2, <2>3, LocalsStep DEF Step, Updating
<1>7. CASE UNCHANGED svars
  BY <1>7 DEF svars, FramesSet
<1> QED
  BY <1>1, <1>2, <1>3, <1>4, <1>5, <1>6, <1>7 DEF Next, Call, Step
-----------------------------------------------------------------------------
\* The version, the content and the answers of every object are kept.
ObjectsKept ==
  /\ Len(subject') = Len(subject) /\ acked' = acked
  /\ \A s \in 1..Len(subject) :
        /\ subject'[s].base = subject[s].base
        /\ subject'[s].ver = subject[s].ver
        /\ subject'[s].data = subject[s].data

\* The invariant's parts about objects, which WellTyped and FramesSet serve.
ObjectsOK == UpdatesInMonitor /\ AtRest /\ InUpdate /\ AnswersMatch

\* A thread that is not updating, and does not start to, disturbs no update.
LEMMA QuietStep ==
  ASSUME WellTyped, FramesSet, ObjectsOK, ObjectsKept, NEW t \in Threads,
         pc[t] \notin Updating, pc'[t] \notin Updating, lock' = lock,
         \A u \in Threads : u # t => pc'[u] = pc[u] /\ frame'[u] = frame[u]
  PROVE  ObjectsOK'
<1> USE DEF ObjectsKept
<1>1. UpdatesInMonitor'
  BY DEF ObjectsOK, UpdatesInMonitor
<1>2. \A u \in Threads, s \in 1..Len(subject) :
        Answering(u, s) <=> Answering(u, s)'
  BY DEF Answering, Updating
<1>3. AtRest'
  BY <1>2 DEF ObjectsOK, AtRest
<1>4. \A u \in Threads : pc[u] \in Updating => frame[u].s \in 1..Len(subject)
  BY HasObject DEF FramesSet, Updating
<1>5. InUpdate'
  <2> SUFFICES ASSUME NEW u \in Threads, pc'[u] \in Updating
               PROVE  Ahead(u, frame[u].s, Len(acked[frame[u].s]))'
    BY DEF InUpdate
  <2>1. u # t /\ pc[u] \in Updating /\ frame[u].s \in 1..Len(subject)
    BY <1>4
  <2>2. Ahead(u, frame[u].s, Len(acked[frame[u].s]))
    BY <2>1 DEF ObjectsOK, InUpdate
  <2> QED  BY <2>1, <2>2 DEF Ahead
<1>6. AnswersMatch'
  BY DEF ObjectsOK, AnswersMatch
<1> QED  BY <1>1, <1>3, <1>5, <1>6 DEF ObjectsOK

\* Bytes are kept for an object, or discarded, beside its version and content.
LEMMA BytesBeside ==
  ASSUME WellTyped, NEW s \in 1..Len(subject), NEW b \in Bytes \cup {NoBytes},
         subject' = [subject EXCEPT ![s].ser = b]
  PROVE  /\ Len(subject') = Len(subject)
         /\ \A i \in 1..Len(subject) :
               /\ subject'[i].base = subject[i].base
               /\ subject'[i].ver = subject[i].ver
               /\ subject'[i].data = subject[i].data
<1> DEFINE r == [subject[s] EXCEPT !.ser = b]
<1>1. /\ r \in Subjects
      /\ r.base = subject[s].base /\ r.ver = subject[s].ver /\ r.data = subject[s].data
  BY Types DEF Subjects
<1>2. subject' = [subject EXCEPT ![s] = r]
  OBVIOUS
<1> HIDE DEF r
<1> QED  BY <1>1, <1>2, ObjectChanges

\* The thread inside the monitor is the only one to update; before it has
\* invoked the method its object is at rest.
LEMMA OnlyUpdate ==
  ASSUME WellTyped, FramesSet, ObjectsOK, NEW t \in Threads,
         lock = t \/ lock = NoThread,
         pc[t] \notin {"inc", "discard"}, frame[t].s # 0
  PROVE  /\ \A u \in Threads : u # t => pc[u] \notin Updating
         /\ Len(Subj(t).data) = Len(acked[frame[t].s])
         /\ Subj(t).ver = Subj(t).base + Len(acked[frame[t].s])
<1>1. \A u \in Threads : u # t => pc[u] \notin Updating
  BY ServerAssumption DEF ObjectsOK, UpdatesInMonitor
<1>2. \A u \in Threads : ~Answering(u, frame[t].s)
  BY <1>1 DEF Answering, Updating
<1>3. frame[t].s \in 1..Len(subject)
  BY HasObject
<1> QED  BY <1>1, <1>2, <1>3 DEF ObjectsOK, AtRest, Subj

\* While a thread updates, no other does.
LEMMA Alone ==
  ASSUME ObjectsOK, NEW t \in Threads, pc[t] \in Updating
  PROVE  lock = t /\ \A u \in Threads : u # t => pc[u] \notin Updating
  BY DEF ObjectsOK, UpdatesInMonitor
-----------------------------------------------------------------------------
\* A loaded object is at rest, with no operation and no answer.
LEMMA LoadObjStep ==
  ASSUME WellTyped, FramesSet, ObjectsOK, NEW t \in Threads, NEW k \in Keys,
         NEW v \in LoadVersions, LoadObj(t, k, v)
  PROVE  ObjectsOK'
<1> DEFINE n == Len(subject)
<1>1. NewSubject(k, v) \in Subjects
  BY EmptySeq, ServerAssumption DEF NewSubject, Subjects, Bytes
<1>2. /\ n \in Nat /\ Len(subject') = n + 1
      /\ subject'[n + 1] = NewSubject(k, v)
      /\ \A i \in 1..n : subject'[i] = subject[i]
  BY <1>1, Types, AppendProperties DEF LoadObj, WellTyped
<1>3. /\ acked'[n + 1] = <<>>
      /\ \A i \in 1..n : acked'[i] = acked[i]
  BY EmptySeq, Types, AppendProperties DEF LoadObj, WellTyped
<1>4. pc' = pc /\ frame' = frame /\ lock' = lock
  BY DEF LoadObj
<1>5. \A u \in Threads : frame[u].s \in Nat /\ frame[u].s <= n
  BY Types DEF FramesSet, Frames
<1>6. UpdatesInMonitor'
  BY <1>4 DEF ObjectsOK, UpdatesInMonitor
<1>7. AtRest'
  <2> SUFFICES ASSUME NEW s \in 1..(n + 1),
                      \A u \in Threads : ~Answering(u, s)'
               PROVE  /\ Len(subject'[s].data) = Len(acked'[s])
                      /\ subject'[s].ver = subject'[s].base + Len(acked'[s])
    BY <1>2 DEF AtRest
  <2>1. CASE s = n + 1
    BY <2>1, <1>1, <1>2, <1>3, EmptySeq DEF NewSubject, Subjects
  <2>2. CASE s \in 1..n
    <3>1. \A u \in Threads : ~Answering(u, s)
      BY <1>4 DEF Answering
    <3> QED  BY <2>2, <3>1, <1>2, <1>3 DEF ObjectsOK, AtRest
  <2> QED  BY <1>2, <2>1, <2>2
<1>8. InUpdate'
  <2> SUFFICES ASSUME NEW u \in Threads, pc[u] \in Updating
               PROVE  Ahead(u, frame[u].s, Len(acked[frame[u].s]))'
    BY <1>4 DEF InUpdate
  <2>1. frame[u].s \in 1..n
    BY HasObject DEF FramesSet, Updating
  <2>2. Ahead(u, frame[u].s, Len(acked[frame[u].s]))
    BY DEF ObjectsOK, InUpdate
  <2> QED  BY <1>2, <1>3, <1>4, <2>1, <2>2 DEF Ahead
<1>9. AnswersMatch'
  <2> SUFFICES ASSUME NEW s \in 1..(n + 1), NEW i \in 1..Len(acked'[s])
               PROVE  /\ Len(acked'[s]) <= Len(subject'[s].data)
                      /\ acked'[s][i] =
                           [op |-> subject'[s].data[i], ver |-> subject'[s].base + i]
    BY <1>2 DEF AnswersMatch
  <2>1. s \in 1..n
    BY <1>2, <1>3, EmptySeq
  <2>2. subject'[s] = subject[s] /\ acked'[s] = acked[s]
    BY <1>2, <1>3, <2>1
  <2> QED  BY <2>1, <2>2 DEF ObjectsOK, AnswersMatch
<1> QED  BY <1>6, <1>7, <1>8, <1>9 DEF ObjectsOK

\* A thread enters the monitor with the version after its object's.
LEMMA PerformPublishStep ==
  ASSUME WellTyped, FramesSet, ObjectsOK, NEW t \in Threads, PerformPublish(t)
  PROVE  ObjectsOK'
<1> DEFINE s == frame[t].s
<1>1. /\ pc'[t] = "call" /\ \A u \in Threads : u # t => pc'[u] = pc[u]
      /\ lock' = t /\ UNCHANGED <<subject, frame, acked>>
  BY DEF PerformPublish, Goto, WellTyped
<1>2. pc[t] = "enter" /\ lock = NoThread /\ s # 0 /\ frame[t].ver = Subj(t).ver + 1
  BY DEF PerformPublish, IsNext
<1>3. /\ \A u \in Threads : u # t => pc[u] \notin Updating
      /\ Subj(t).ver = Subj(t).base + Len(acked[s])
  BY <1>2, OnlyUpdate
<1>4. UpdatesInMonitor'
  BY <1>1, <1>3 DEF UpdatesInMonitor, Updating
<1>5. \A u \in Threads, i \in 1..Len(subject) : Answering(u, i)' => Answering(u, i)
  BY <1>1 DEF Answering
<1>6. AtRest'
  <2> SUFFICES ASSUME NEW i \in 1..Len(subject),
                      \A u \in Threads : ~Answering(u, i)'
               PROVE  /\ Len(subject[i].data) = Len(acked[i])
                      /\ subject[i].ver = subject[i].base + Len(acked[i])
    BY <1>1 DEF AtRest
  <2>1. \A u \in Threads : ~Answering(u, i)
    BY <1>1, <1>2, <1>3 DEF Answering, Updating
  <2> QED  BY <2>1 DEF ObjectsOK, AtRest
<1>7. InUpdate'
  <2> SUFFICES Ahead(t, s, Len(acked[s]))'
    BY <1>1, <1>3 DEF InUpdate
  <2> QED  BY <1>1, <1>2, <1>3 DEF Ahead, Subj
<1>8. AnswersMatch'
  BY <1>1 DEF ObjectsOK, AnswersMatch
<1> QED  BY <1>4, <1>6, <1>7, <1>8 DEF ObjectsOK

\* A thread whose method cannot be called leaves the object as it is.
LEMMA CallFailStep ==
  ASSUME WellTyped, FramesSet, ObjectsOK, NEW t \in Threads, CallFail(t)
  PROVE  ObjectsOK'
<1>1. /\ pc[t] = "call" /\ pc'[t] = "idle" /\ lock' = NoThread
      /\ \A u \in Threads : u # t => pc'[u] = pc[u] /\ frame'[u] = frame[u]
      /\ subject' = subject /\ acked' = acked
  BY DEF CallFail, Return, Goto, WellTyped
<1>2. \A u \in Threads : u # t => pc[u] \notin Updating
  BY <1>1, Alone DEF Updating
<1>3. UpdatesInMonitor'
  BY <1>1, <1>2, ServerAssumption DEF UpdatesInMonitor, Updating
<1>4. \A u \in Threads, i \in 1..Len(subject) : ~Answering(u, i)
  BY <1>1, <1>2 DEF Answering, Updating
<1>5. AtRest'
  BY <1>1, <1>4 DEF ObjectsOK, AtRest
<1>6. InUpdate'
  BY <1>1, <1>2 DEF InUpdate, Updating
<1>7. AnswersMatch'
  BY <1>1 DEF ObjectsOK, AnswersMatch
<1> QED  BY <1>3, <1>5, <1>6, <1>7 DEF ObjectsOK

\* The method changes the content, one operation ahead of answer and version.
LEMMA CallInvokeStep ==
  ASSUME WellTyped, FramesSet, ObjectsOK, NEW t \in Threads, CallInvoke(t)
  PROVE  ObjectsOK'
<1> DEFINE s == frame[t].s
<1> DEFINE n == Len(acked[s])
<1> DEFINE r == [Subj(t) EXCEPT !.data = Append(@, frame[t].op)]
<1>1. /\ pc[t] = "call" /\ pc'[t] = "inc"
      /\ \A u \in Threads : u # t => pc'[u] = pc[u]
      /\ UNCHANGED <<lock, frame, acked>>
  BY DEF CallInvoke, Goto, WellTyped
<1>2. lock = t /\ \A u \in Threads : u # t => pc[u] \notin Updating
  BY <1>1, Alone DEF Updating
<1>3. s \in 1..Len(subject) /\ s # 0 /\ frame[t].op \in Ops /\ Subj(t) \in Subjects
  BY <1>1, HasObject DEF FramesSet, Updating
<1>4. n \in Nat /\ Len(Subj(t).data) = n /\ Subj(t).ver = Subj(t).base + n
  BY <1>1, <1>2, <1>3, OnlyUpdate, Types, LenProperties
<1>5. /\ r \in Subjects /\ r.base = Subj(t).base /\ r.ver = Subj(t).ver
      /\ r.data = Append(Subj(t).data, frame[t].op)
  BY <1>3, AppendProperties DEF Subjects
<1>6. /\ Len(r.data) = n + 1 /\ r.data[n + 1] = frame[t].op
      /\ \A i \in 1..n : r.data[i] = Subj(t).data[i]
  <2>1. Subj(t).data \in Seq(Ops) /\ frame[t].op \in Ops
    BY <1>3 DEF Subjects
  <2>2. QED
    BY <1>4, <1>5, <2>1, AppendProperties
<1>7. subject' = [subject EXCEPT ![s] = r]
  BY DEF CallInvoke, Subj
<1> HIDE DEF r
<1>8. /\ Len(subject') = Len(subject) /\ subject'[s] = r
      /\ \A i \in 1..Len(subject) : i # s => subject'[i] = subject[i]
  BY <1>3, <1>5, <1>7, ObjectChanges
<1>9. UpdatesInMonitor'
  BY <1>1, <1>2 DEF UpdatesInMonitor, Updating
<1>10. AtRest'
  <2> SUFFICES ASSUME NEW i \in 1..Len(subject),
                      \A u \in Threads : ~Answering(u, i)'
               PROVE  /\ Len(subject'[i].data) = Len(acked[i])
                      /\ subject'[i].ver = subject'[i].base + Len(acked[i])
    BY <1>1, <1>8 DEF AtRest
  <2>1. i # s
    BY <1>1 DEF Answering
  <2>2. \A u \in Threads : ~Answering(u, i)
    BY <1>1, <1>2, <2>1 DEF Answering, Updating
  <2> QED  BY <1>8, <2>1, <2>2 DEF ObjectsOK, AtRest
<1>11. InUpdate'
  <2>1. Ahead(t, s, n)
    BY <1>1 DEF ObjectsOK, InUpdate, Updating
  <2>2. Ahead(t, s, n)'
    BY <1>1, <1>4, <1>5, <1>6, <1>8, <2>1 DEF Ahead, Subj
  <2> QED  BY <1>1, <1>2, <2>2 DEF InUpdate
<1>12. AnswersMatch'
  <2> SUFFICES ASSUME NEW i \in 1..Len(subject), NEW j \in 1..Len(acked[i])
               PROVE  /\ Len(acked[i]) <= Len(subject'[i].data)
                      /\ acked[i][j] =
                           [op |-> subject'[i].data[j], ver |-> subject'[i].base + j]
    BY <1>1, <1>8 DEF AnswersMatch
  <2>1. /\ Len(acked[i]) <= Len(subject[i].data)
        /\ acked[i][j] = [op |-> subject[i].data[j], ver |-> subject[i].base + j]
    BY DEF ObjectsOK, AnswersMatch
  <2>2. CASE i = s
    <3>1. subject'[i] = r /\ subject[i] = Subj(t) /\ j \in 1..n /\ Len(acked[i]) = n
      BY <1>8, <2>2 DEF Subj
    <3>2. Len(r.data) = n + 1 /\ r.data[j] = Subj(t).data[j] /\ r.base = Subj(t).base
      BY <1>5, <1>6, <3>1
    <3> HIDE DEF n, s
    <3> QED  BY <1>4, <2>1, <3>1, <3>2
  <2>3. CASE i # s
    BY <1>8, <2>1, <2>3
  <2> QED  BY <2>2, <2>3
<1> QED  BY <1>9, <1>10, <1>11, <1>12 DEF ObjectsOK

\* The version catches up with the content.
LEMMA IncVersionStep ==
  ASSUME WellTyped, FramesSet, ObjectsOK, NEW t \in Threads, IncVersion(t)
  PROVE  ObjectsOK'
<1> DEFINE s == frame[t].s
<1> DEFINE n == Len(acked[s])
<1> DEFINE r == [Subj(t) EXCEPT !.ver = @ + 1]
<1>1. /\ pc[t] = "inc" /\ pc'[t] = "discard"
      /\ \A u \in Threads : u # t => pc'[u] = pc[u]
      /\ UNCHANGED <<lock, frame, acked>>
  BY DEF IncVersion, Goto, WellTyped
<1>2. lock = t /\ \A u \in Threads : u # t => pc[u] \notin Updating
  BY <1>1, Alone DEF Updating
<1>3. s \in 1..Len(subject) /\ Subj(t) \in Subjects /\ n \in Nat
  BY <1>1, HasObject, Types, LenProperties DEF FramesSet
<1>4. Ahead(t, s, n)
  BY <1>1 DEF ObjectsOK, InUpdate, Updating
<1>5. /\ r \in Subjects /\ r.base = Subj(t).base /\ r.data = Subj(t).data
      /\ r.ver = Subj(t).base + n + 1
  <2>1. Subj(t).ver = Subj(t).base + n /\ Subj(t).base \in Nat /\ Subj(t).ver \in Nat
    BY <1>1, <1>3, <1>4 DEF Subjects, Ahead, Subj
  <2>2. r \in Subjects
    BY <1>3 DEF Subjects
  <2>3. r.base = Subj(t).base /\ r.data = Subj(t).data /\ r.ver = Subj(t).ver + 1
    BY <1>3 DEF Subjects
  <2> HIDE DEF r, n
  <2> QED  BY <1>3, <2>1, <2>2, <2>3
<1>6. subject' = [subject EXCEPT ![s] = r]
  BY DEF IncVersion, Subj
<1> HIDE DEF r
<1>7. /\ Len(subject') = Len(subject) /\ subject'[s] = r
      /\ \A i \in 1..Len(subject) : i # s => subject'[i] = subject[i]
  BY <1>3, <1>5, <1>6, ObjectChanges
<1>8. UpdatesInMonitor'
  BY <1>1, <1>2 DEF UpdatesInMonitor, Updating
<1>9. AtRest'
  <2> SUFFICES ASSUME NEW i \in 1..Len(subject),
                      \A u \in Threads : ~Answering(u, i)'
               PROVE  /\ Len(subject'[i].data) = Len(acked[i])
                      /\ subject'[i].ver = subject'[i].base + Len(acked[i])
    BY <1>1, <1>7 DEF AtRest
  <2>1. i # s
    BY <1>1 DEF Answering
  <2>2. \A u \in Threads : ~Answering(u, i)
    BY <1>1, <1>2, <2>1 DEF Answering, Updating
  <2> QED  BY <1>7, <2>1, <2>2 DEF ObjectsOK, AtRest
<1>10. InUpdate'
  <2>1. Ahead(t, s, n)'
    BY <1>1, <1>3, <1>4, <1>5, <1>7 DEF Ahead, Subj
  <2> QED  BY <1>1, <1>2, <2>1 DEF InUpdate
<1>11. AnswersMatch'
  <2> SUFFICES ASSUME NEW i \in 1..Len(subject), NEW j \in 1..Len(acked[i])
               PROVE  /\ Len(acked[i]) <= Len(subject'[i].data)
                      /\ acked[i][j] =
                           [op |-> subject'[i].data[j], ver |-> subject'[i].base + j]
    BY <1>1, <1>7 DEF AnswersMatch
  <2>1. /\ Len(acked[i]) <= Len(subject[i].data)
        /\ acked[i][j] = [op |-> subject[i].data[j], ver |-> subject[i].base + j]
    BY DEF ObjectsOK, AnswersMatch
  <2> QED  BY <1>5, <1>7, <2>1 DEF Subj
<1> QED  BY <1>8, <1>9, <1>10, <1>11 DEF ObjectsOK

\* The operation is answered, and its object is at rest again.
LEMMA DiscardStep ==
  ASSUME WellTyped, FramesSet, ObjectsOK, NEW t \in Threads, Discard(t)
  PROVE  ObjectsOK'
<1> DEFINE s == frame[t].s
<1> DEFINE n == Len(acked[s])
<1> DEFINE m == Message(frame[t].op, frame[t].ver)
<1>1. /\ pc[t] = "discard" /\ pc'[t] = "idle" /\ lock' = NoThread
      /\ \A u \in Threads : u # t => pc'[u] = pc[u] /\ frame'[u] = frame[u]
  BY DEF Discard, Return, Goto, WellTyped
<1>2. lock = t /\ \A u \in Threads : u # t => pc[u] \notin Updating
  BY <1>1, Alone DEF Updating
<1>3. /\ s \in 1..Len(subject) /\ n \in Nat /\ m \in [op : Ops, ver : Nat]
      /\ subject[s] \in Subjects
  BY <1>1, HasObject, Types, LenProperties
  DEF FramesSet, Updating, Frames, Message
<1>4. Ahead(t, s, n)
  BY <1>1 DEF ObjectsOK, InUpdate, Updating
<1>5. /\ Len(subject') = Len(subject)
      /\ \A i \in 1..Len(subject) :
            /\ subject'[i].base = subject[i].base
            /\ subject'[i].ver = subject[i].ver
            /\ subject'[i].data = subject[i].data
  BY <1>3, BytesBeside DEF Discard
<1>6. /\ Len(Append(acked[s], m)) = n + 1 /\ Append(acked[s], m)[n + 1] = m
      /\ \A j \in 1..n : Append(acked[s], m)[j] = acked[s][j]
      /\ Append(acked[s], m) \in Seq([op : Ops, ver : Nat])
  <2> DEFINE M == [op : Ops, ver : Nat]
  <2>1. acked[s] \in Seq(M) /\ m \in M
    BY <1>3, Types
  <2> HIDE DEF m, M
  <2>2. /\ Len(Append(acked[s], m)) = n + 1 /\ Append(acked[s], m)[n + 1] = m
        /\ \A j \in 1..n : Append(acked[s], m)[j] = acked[s][j]
        /\ Append(acked[s], m) \in Seq(M)
    BY <2>1, AppendProperties
  <2> QED  BY <2>2 DEF M
<1>7. /\ acked'[s] = Append(acked[s], m)
      /\ \A i \in 1..Len(subject) : i # s => acked'[i] = acked[i]
  <2> DEFINE a == Append(acked[s], m)
  <2>1. acked' = [acked EXCEPT ![s] = a]
    BY DEF Discard
  <2>2. Len(acked) = Len(subject) /\ acked \in Seq(Seq([op : Ops, ver : Nat]))
    BY DEF WellTyped
  <2>3. a \in Seq([op : Ops, ver : Nat])
    BY <1>6
  <2> HIDE DEF a
  <2>4. acked'[s] = a /\ \A i \in 1..Len(subject) : i # s => acked'[i] = acked[i]
    BY <1>3, <2>1, <2>2, <2>3, ExceptSeq
  <2> QED  BY <2>4 DEF a
<1>8. UpdatesInMonitor'
  BY <1>1, <1>2, ServerAssumption DEF UpdatesInMonitor, Updating
<1>9. /\ Len(subject[s].data) = n + 1
      /\ subject[s].ver = subject[s].base + n + 1
      /\ m = [op |-> subject[s].data[n + 1], ver |-> subject[s].base + n + 1]
  BY <1>1, <1>4 DEF Ahead, Message
<1> HIDE DEF m
<1>10. AtRest'
  <2> SUFFICES ASSUME NEW i \in 1..Len(subject)
               PROVE  /\ Len(subject'[i].data) = Len(acked'[i])
                      /\ subject'[i].ver = subject'[i].base + Len(acked'[i])
    BY <1>5 DEF AtRest
  <2>1. CASE i = s
    <3>1. Len(acked'[s]) = n + 1
      BY <1>6, <1>7
    <3>2. /\ Len(subject'[s].data) = n + 1
          /\ subject'[s].ver = subject'[s].base + n + 1
          /\ subject'[s].base \in Nat
      BY <1>3, <1>5, <1>9 DEF Subjects
    <3> HIDE DEF n, s
    <3> QED  BY <1>3, <2>1, <3>1, <3>2
  <2>2. CASE i # s
    <3>1. \A u \in Threads : ~Answering(u, i)
      BY <1>2, <2>2 DEF Answering, Updating
    <3> QED  BY <1>5, <1>7, <2>2, <3>1 DEF ObjectsOK, AtRest
  <2> QED  BY <2>1, <2>2
<1>11. InUpdate'
  BY <1>1, <1>2 DEF InUpdate, Updating
<1>12. AnswersMatch'
  <2> SUFFICES ASSUME NEW i \in 1..Len(subject), NEW j \in 1..Len(acked'[i])
               PROVE  /\ Len(acked'[i]) <= Len(subject[i].data)
                      /\ acked'[i][j] =
                           [op |-> subject[i].data[j], ver |-> subject[i].base + j]
    BY <1>5 DEF AnswersMatch
  <2>1. CASE i = s /\ j = n + 1
    <3>1. Len(acked'[i]) = n + 1 /\ acked'[i][j] = m
      BY <2>1, <1>6, <1>7
    <3>2. subject[s].base \in Nat /\ n \in Nat
      BY <1>3 DEF Subjects
    <3>3. subject[s].base + n + 1 = subject[s].base + (n + 1)
      <4>1. \A a, b \in Nat : a + b + 1 = a + (b + 1)
        OBVIOUS
      <4> QED  BY <3>2, <4>1, Zenon
    <3> HIDE DEF n, s
    <3>4. m = [op |-> subject[s].data[n + 1], ver |-> subject[s].base + (n + 1)]
      BY <1>9, <3>3
    <3>5. Len(acked'[i]) <= Len(subject[i].data)
      BY <2>1, <1>3, <1>9, <3>1
    <3> QED  BY <2>1, <3>1, <3>4, <3>5
  <2>2. CASE i = s /\ j # n + 1
    <3>1. j \in 1..n /\ Len(acked'[i]) = n + 1 /\ acked'[i][j] = acked[s][j]
      BY <2>2, <1>3, <1>6, <1>7
    <3>2. acked[s][j] = [op |-> subject[s].data[j], ver |-> subject[s].base + j]
      BY <1>3, <3>1 DEF ObjectsOK, AnswersMatch
    <3> HIDE DEF n, s
    <3>3. Len(acked'[i]) <= Len(subject[i].data)
      BY <2>2, <1>3, <1>9, <3>1
    <3> QED  BY <2>2, <3>1, <3>2, <3>3
  <2>3. CASE i # s
    BY <1>7, <2>3 DEF ObjectsOK, AnswersMatch
  <2> QED  BY <2>1, <2>2, <2>3
<1> QED  BY <1>8, <1>10, <1>11, <1>12 DEF ObjectsOK
-----------------------------------------------------------------------------
\* The parts about objects are preserved by every step.
LEMMA ObjectsOKStep ==
  ASSUME WellTyped, WellTyped', FramesSet, ObjectsOK, [Next]_svars
  PROVE  ObjectsOK'
<1>1. ASSUME NEW t \in Threads, NEW k \in Keys,
             \/ \E op \in Ops, v \in 0..MaxVersion : PerformLookup(t, k, op, v)
             \/ GetLookup(t, k)
      PROVE  ObjectsOK'
  <2>1. ObjectsKept /\ lock' = lock
    BY <1>1 DEF PerformLookup, GetLookup, ObjectsKept
  <2>2. /\ pc[t] \notin Updating /\ pc'[t] \notin Updating
        /\ \A u \in Threads : u # t => pc'[u] = pc[u] /\ frame'[u] = frame[u]
    BY <1>1 DEF PerformLookup, GetLookup, Goto, WellTyped, Updating
  <2> QED  BY <2>1, <2>2, QuietStep
<1>2. ASSUME NEW t \in Threads,
             \/ PerformReject(t) \/ GetTest(t) \/ SerializeVersion(t)
             \/ SerializeData(t) \/ GetReturn(t) \/ GetAnswer(t)
      PROVE  ObjectsOK'
  <2>1. ObjectsKept /\ lock' = lock
    BY <1>2 DEF PerformReject, GetTest, SerializeVersion, SerializeData,
       GetReturn, GetAnswer, ObjectsKept
  <2>2. /\ pc[t] \notin Updating /\ pc'[t] \notin Updating
        /\ \A u \in Threads : u # t => pc'[u] = pc[u] /\ frame'[u] = frame[u]
    BY <1>2 DEF PerformReject, GetTest, SerializeVersion, SerializeData,
       GetReturn, GetAnswer, Return, Goto, WellTyped, Updating
  <2> QED  BY <2>1, <2>2, QuietStep
<1>3. ASSUME NEW t \in Threads, SerializeStore(t)
      PROVE  ObjectsOK'
  <2>1. frame[t].s \in 1..Len(subject) /\ frame[t].snap \in Bytes \cup {NoBytes}
    BY <1>3, HasObject, Types DEF SerializeStore, FramesSet, Frames
  <2>2. ObjectsKept /\ lock' = lock
    BY <1>3, <2>1, BytesBeside DEF SerializeStore, ObjectsKept
  <2>3. /\ pc[t] \notin Updating /\ pc'[t] \notin Updating
        /\ \A u \in Threads : u # t => pc'[u] = pc[u] /\ frame'[u] = frame[u]
    BY <1>3 DEF SerializeStore, Goto, WellTyped, Updating
  <2> QED  BY <2>2, <2>3, QuietStep
<1>4. CASE UNCHANGED svars
  BY <1>4 DEF svars, ObjectsOK, UpdatesInMonitor, AtRest, Answering, InUpdate,
     Ahead, AnswersMatch
<1> QED
  BY <1>1, <1>2, <1>3, <1>4, LoadObjStep, PerformPublishStep, CallFailStep,
     CallInvokeStep, IncVersionStep, DiscardStep DEF Next, Call, Step

\* The initial state, with no object and every thread idle, satisfies it.
LEMMA IInvInit == Init => IInv
<1> SUFFICES ASSUME Init PROVE IInv
  OBVIOUS
<1>1. subject = <<>> /\ acked = <<>> /\ Len(subject) = 0 /\ Len(acked) = 0
  BY EmptySeq DEF Init
<1>2. WellTyped
  BY <1>1, NoFrameTyped, EmptySeq DEF Init, WellTyped, Labels
<1>3. UpdatesInMonitor
  BY ServerAssumption DEF Init, UpdatesInMonitor, Updating
<1>4. FramesSet
  BY <1>1 DEF Init, FramesSet, NoFrame, Updating
<1>5. AtRest /\ InUpdate /\ AnswersMatch
  BY <1>1 DEF Init, AtRest, InUpdate, AnswersMatch, Updating
<1> QED  BY <1>2, <1>3, <1>4, <1>5 DEF IInv

\* Every step preserves the inductive invariant.
LEMMA IInvStep == IInv /\ [Next]_svars => IInv'
<1> SUFFICES ASSUME IInv, [Next]_svars PROVE IInv'
  OBVIOUS
<1>1. WellTyped /\ FramesSet /\ ObjectsOK
  BY DEF IInv, ObjectsOK
<1>2. WellTyped'
  BY <1>1, TypeOKStep
<1>3. FramesSet'
  BY <1>1, <1>2, FramesSetStep
<1>4. ObjectsOK'
  BY <1>1, <1>2, ObjectsOKStep
<1> QED  BY <1>2, <1>3, <1>4 DEF IInv, ObjectsOK

\* The inductive invariant implies the property it strengthens.
LEMMA IInvImplies == IInv => AcceptedExactlyOnce
<1> SUFFICES ASSUME IInv, NEW s \in DOMAIN subject
             PROVE  LET a == acked[s]
                        d == subject[s].data
                    IN /\ Len(d) \in {Len(a), Len(a) + 1}
                       /\ \A i \in 1..Len(a) :
                             a[i] = [op |-> d[i], ver |-> subject[s].base + i]
                       /\ Len(d) = Len(a) + 1 =>
                             \E t \in Threads : /\ lock = t
                                                /\ pc[t] \in {"inc", "discard"}
                                                /\ frame[t].s = s
  BY DEF AcceptedExactlyOnce
<1>1. s \in 1..Len(subject) /\ Len(acked[s]) \in Nat
  BY Types, LenProperties DEF IInv, WellTyped
<1>2. CASE \E t \in Threads : Answering(t, s)
  <2>1. PICK t \in Threads : Answering(t, s)
    BY <1>2
  <2>2. lock = t /\ Ahead(t, s, Len(acked[s]))
    BY <2>1 DEF IInv, UpdatesInMonitor, InUpdate, Answering, Updating
  <2> QED  BY <1>1, <2>1, <2>2 DEF IInv, AnswersMatch, Answering, Ahead
<1>3. CASE \A t \in Threads : ~Answering(t, s)
  <2>1. Len(subject[s].data) = Len(acked[s])
    BY <1>1, <1>3 DEF IInv, AtRest
  <2>2. \A i \in 1..Len(acked[s]) :
           acked[s][i] = [op |-> subject[s].data[i], ver |-> subject[s].base + i]
    BY <1>1 DEF IInv, AnswersMatch
  <2> QED  BY <1>1, <2>1, <2>2
<1> QED  BY <1>2, <1>3

\* The server's state is always well-typed: the table never leads to an object
\* that does not exist, and every object has its record of answers; and only
\* the thread in the monitor of the hashtable is updating one
\* (CacheServer.performOperation).
THEOREM TypeCorrect == Spec => []TypeOK
<1>1. IInv => TypeOK
  BY DEF IInv, TypeOK
<1> QED  BY <1>1, IInvInit, IInvStep, PTL DEF Spec

\* However calls interleave (CacheServer.performOperation), every object is
\* what the operations answered with true make of it: no accepted operation is
\* lost, applied twice or out of order, and no two accepted ones asked for the
\* same version.
THEOREM Accepted == Spec => []AcceptedExactlyOnce
  BY IInvInit, IInvStep, IInvImplies, PTL DEF Spec

-----------------------------------------------------------------------------
(* The bytes the server answers with. *)

\* The bytes b describe a past of the object o, element by element.
PastIn(b, o) ==
  /\ b.ver <= o.base + Len(b.data)
  /\ Len(b.data) <= Len(o.data)
  /\ \A i \in 1..Len(b.data) : b.data[i] = o.data[i]

\* The object o has become p by operations.
Grown(o, p) ==
  /\ p.base = o.base
  /\ Len(o.data) <= Len(p.data)
  /\ \A i \in 1..Len(o.data) : p.data[i] = o.data[i]

\* Bytes kept for an object, bytes about to be kept or answered, and a version
\* that was read for bytes whose content is still to be read.
Kept == \A s \in 1..Len(subject) :
  subject[s].ser # NoBytes => PastIn(subject[s].ser, subject[s])
Held == \A t \in Threads :
  pc[t] \in {"store", "answer"} /\ frame[t].snap # NoBytes => PastIn(frame[t].snap, Subj(t))
Begun == \A t \in Threads :
  pc[t] = "sdata" => frame[t].ver <= Subj(t).base + Len(Subj(t).data)

\* SnapshotsArePast says nothing of a thread between its two reads.
Snapshots == IInv /\ Kept /\ Held /\ Begun
-----------------------------------------------------------------------------
\* A prefix is the same elements up to its length.
LEMMA PrefixByElements ==
  ASSUME NEW S, NEW d \in Seq(S), NEW e \in Seq(S), Len(d) <= Len(e)
  PROVE  d = SubSeq(e, 1, Len(d)) <=> \A i \in 1..Len(d) : d[i] = e[i]
<1>1. Len(d) \in Nat /\ Len(e) \in Nat
  BY LenProperties
<1> DEFINE f == SubSeq(e, 1, Len(d))
<1>2. f \in Seq(S) /\ Len(f) = Len(d) /\ \A i \in 1..Len(d) : f[i] = e[i]
  BY <1>1, SubSeqProperties
<1> HIDE DEF f
<1>3. d = f <=> \A i \in 1..Len(d) : d[i] = f[i]
  BY <1>1, <1>2, SeqEqual
<1> QED  BY <1>2, <1>3 DEF f

(* Whether bytes are a past content of an object depends on that object     *)
(* alone.                                                                   *)
LEMMA PastByElements ==
  ASSUME WellTyped, NEW s \in 1..Len(subject), NEW b \in Bytes
  PROVE  PastOf(b, s) <=> PastIn(b, subject[s])
<1>1. b.data \in Seq(Ops) /\ subject[s].data \in Seq(Ops)
  BY Types DEF Bytes, Subjects
<1> QED  BY <1>1, PrefixByElements DEF PastOf, PastIn

\* What is past stays past.
LEMMA PastStays ==
  ASSUME NEW b \in Bytes, NEW o \in Subjects, NEW p \in Subjects,
         PastIn(b, o), Grown(o, p)
  PROVE  PastIn(b, p)
<1>1. Len(b.data) \in Nat /\ Len(o.data) \in Nat /\ Len(p.data) \in Nat
  BY LenProperties DEF Bytes, Subjects
<1> QED  BY <1>1 DEF PastIn, Grown

\* The version of an object is not ahead of its content.
LEMMA VersionBehind ==
  ASSUME IInv, NEW s \in 1..Len(subject)
  PROVE  subject[s].ver <= subject[s].base + Len(subject[s].data)
<1>1. /\ subject[s].base \in Nat /\ subject[s].ver \in Nat
      /\ Len(subject[s].data) \in Nat /\ Len(acked[s]) \in Nat
  BY Types, LenProperties DEF IInv, Subjects
<1>2. CASE \E t \in Threads : Answering(t, s)
  <2>1. PICK t \in Threads : Answering(t, s)
    BY <1>2
  <2>2. Ahead(t, s, Len(acked[s]))
    BY <2>1 DEF IInv, InUpdate, Answering, Updating
  <2> QED  BY <1>1, <2>1, <2>2 DEF Answering, Ahead
<1>3. CASE \A t \in Threads : ~Answering(t, s)
  BY <1>1, <1>3 DEF IInv, AtRest
<1> QED  BY <1>2, <1>3
-----------------------------------------------------------------------------
\* What a step makes of an object that is there: it grows, and its bytes are
\* the same, none, or those a thread was about to keep.
Follows(s) ==
  /\ Grown(subject[s], subject'[s])
  /\ \/ subject'[s].ser = subject[s].ser
     \/ subject'[s].ser = NoBytes
     \/ \E t \in Threads : /\ pc[t] = "store" /\ frame[t].s = s
                           /\ subject'[s].ser = frame[t].snap

\* An object that is left as it is.
LEMMA SameFollows ==
  ASSUME WellTyped, NEW s \in 1..Len(subject), subject'[s] = subject[s]
  PROVE  Follows(s)
<1>1. Len(subject[s].data) \in Nat
  BY Types, LenProperties DEF Subjects
<1> QED  BY <1>1 DEF Follows, Grown

\* The one object a thread of a call changes; the others stay.
LEMMA ChangeFollows ==
  ASSUME WellTyped, FramesSet, NEW t \in Threads, frame[t].s # 0, NEW r \in Subjects,
         subject' = [subject EXCEPT ![frame[t].s] = r],
         Grown(Subj(t), r),
         r.ser \in {Subj(t).ser, NoBytes} \/ (pc[t] = "store" /\ r.ser = frame[t].snap)
  PROVE  Len(subject') = Len(subject) /\ \A s \in 1..Len(subject) : Follows(s)
<1>1. frame[t].s \in 1..Len(subject)
  BY HasObject
<1>2. /\ Len(subject') = Len(subject) /\ subject'[frame[t].s] = r
      /\ \A s \in 1..Len(subject) : s # frame[t].s => subject'[s] = subject[s]
  BY <1>1, ObjectChanges
<1>3. Follows(frame[t].s)
  BY <1>2 DEF Follows, Subj
<1> QED  BY <1>2, <1>3, SameFollows

\* Objects grow, new ones are loaded with bytes of their own.
LEMMA ObjectsFollow ==
  ASSUME IInv, [Next]_svars
  PROVE  /\ Len(subject) <= Len(subject')
         /\ \A s \in 1..Len(subject) : Follows(s)
         /\ \A s \in 1..Len(subject') : s > Len(subject) => PastIn(subject'[s].ser, subject'[s])
<1>0. WellTyped /\ FramesSet /\ Len(subject) \in Nat
  BY Types DEF IInv
<1>1. ASSUME NEW t \in Threads, NEW k \in Keys, NEW v \in LoadVersions, LoadObj(t, k, v)
      PROVE  /\ Len(subject') = Len(subject) + 1
             /\ \A s \in 1..Len(subject) : subject'[s] = subject[s]
             /\ PastIn(subject'[Len(subject')].ser, subject'[Len(subject')])
  <2>1. NewSubject(k, v) \in Subjects /\ v \in Nat
    BY EmptySeq, ServerAssumption DEF NewSubject, Subjects, Bytes
  <2>2. /\ Len(subject') = Len(subject) + 1
        /\ subject'[Len(subject) + 1] = NewSubject(k, v)
        /\ \A i \in 1..Len(subject) : subject'[i] = subject[i]
    BY <1>0, <1>1, <2>1, AppendProperties DEF LoadObj, WellTyped
  <2>3. PastIn(NewSubject(k, v).ser, NewSubject(k, v))
    BY <2>1, EmptySeq DEF NewSubject, PastIn
  <2> QED  BY <2>2, <2>3
<1>2. ASSUME NEW t \in Threads, CallInvoke(t)
      PROVE  Len(subject') = Len(subject) /\ \A s \in 1..Len(subject) : Follows(s)
  <2> DEFINE r == [Subj(t) EXCEPT !.data = Append(@, frame[t].op)]
  <2>1. frame[t].s # 0 /\ frame[t].op \in Ops /\ Subj(t) \in Subjects
    BY <1>0, <1>2, HasObject DEF CallInvoke, FramesSet, Updating
  <2>2. /\ r \in Subjects /\ r.base = Subj(t).base /\ r.ser = Subj(t).ser
        /\ r.data = Append(Subj(t).data, frame[t].op)
    BY <2>1, AppendProperties DEF Subjects
  <2>3. subject' = [subject EXCEPT ![frame[t].s] = r]
    BY <1>2 DEF CallInvoke, Subj
  <2> HIDE DEF r
  <2>4. Subj(t).data \in Seq(Ops) /\ Len(Subj(t).data) \in Nat
    BY <2>1, LenProperties DEF Subjects
  <2>5. Grown(Subj(t), r)
    BY <2>1, <2>2, <2>4, AppendProperties DEF Grown
  <2> QED  BY <1>0, <2>1, <2>2, <2>3, <2>5, ChangeFollows
<1>3. ASSUME NEW t \in Threads, IncVersion(t) \/ Discard(t) \/ SerializeStore(t)
      PROVE  Len(subject') = Len(subject) /\ \A s \in 1..Len(subject) : Follows(s)
  <2>1. frame[t].s # 0 /\ Subj(t) \in Subjects /\ frame[t].snap \in Bytes \cup {NoBytes}
    BY <1>0, <1>3, HasObject, Types DEF IncVersion, Discard, SerializeStore, FramesSet, Frames
  <2>2. PICK r \in Subjects : /\ subject' = [subject EXCEPT ![frame[t].s] = r]
                              /\ r.base = Subj(t).base /\ r.data = Subj(t).data
                              /\ \/ r.ser \in {Subj(t).ser, NoBytes}
                                 \/ pc[t] = "store" /\ r.ser = frame[t].snap
    <3>1. CASE IncVersion(t)
      <4>1. [Subj(t) EXCEPT !.ver = @ + 1] \in Subjects
        BY <2>1 DEF Subjects
      <4> QED  BY <2>1, <3>1, <4>1 DEF IncVersion, Subj, Subjects
    <3>2. CASE Discard(t)
      <4>1. [Subj(t) EXCEPT !.ser = NoBytes] \in Subjects
        BY <2>1 DEF Subjects
      <4> QED  BY <2>1, <3>2, <4>1 DEF Discard, Subj, Subjects
    <3>3. CASE SerializeStore(t)
      <4>1. [Subj(t) EXCEPT !.ser = frame[t].snap] \in Subjects
        BY <2>1 DEF Subjects
      <4> QED  BY <2>1, <3>3, <4>1 DEF SerializeStore, Subj, Subjects
    <3> QED  BY <1>3, <3>1, <3>2, <3>3
  <2>3. Len(Subj(t).data) \in Nat
    BY <2>1, LenProperties DEF Subjects
  <2>4. Grown(Subj(t), r)
    BY <2>2, <2>3 DEF Grown
  <2> QED  BY <1>0, <2>1, <2>2, <2>4, ChangeFollows
<1>4. CASE subject' = subject
  BY <1>0, <1>4, SameFollows
<1>5. \/ subject' = subject
      \/ \E t \in Threads, k \in Keys, v \in LoadVersions : LoadObj(t, k, v)
      \/ \E t \in Threads : CallInvoke(t)
      \/ \E t \in Threads : IncVersion(t) \/ Discard(t) \/ SerializeStore(t)
  BY DEF Next, Call, Step, svars, PerformLookup, GetLookup, PerformReject, PerformPublish,
         CallFail, GetTest, SerializeVersion, SerializeData, GetReturn, GetAnswer
<1> QED  BY <1>0, <1>1, <1>2, <1>3, <1>4, <1>5, SameFollows
-----------------------------------------------------------------------------
\* What a step makes of a thread: it reads a version, or a content, or the
\* bytes kept for its object, while the objects stand still; or it is as it
\* was; or it is where nothing is claimed of it.
Reads(t) ==
  /\ subject' = subject /\ frame[t].s # 0 /\ frame'[t].s = frame[t].s
  /\ \/ pc'[t] = "sdata" /\ frame'[t].ver = Subj(t).ver
     \/ /\ pc[t] = "sdata" /\ pc'[t] = "store"
        /\ frame'[t].snap = [ver |-> frame[t].ver, data |-> Subj(t).data]
     \/ pc'[t] = "answer" /\ frame'[t].snap = Subj(t).ser

(* A thread about to read or to answer got its locals by a read, or keeps   *)
(* them.                                                                    *)
LEMMA ThreadsFollow ==
  ASSUME IInv, [Next]_svars, NEW t \in Threads
  PROVE  \/ pc'[t] \notin {"sdata", "store", "answer"}
         \/ pc'[t] = pc[t] /\ frame'[t] = frame[t]
         \/ Reads(t)
<1>0. WellTyped /\ FramesSet /\ frame[t] \in Frames
  BY Types DEF IInv
<1>1. CASE SerializeVersion(t) \/ SerializeData(t) \/ GetReturn(t)
  <2>1. frame[t].s # 0 /\ subject' = subject
    BY <1>0, <1>1 DEF SerializeVersion, SerializeData, GetReturn, FramesSet
  <2>2. Reads(t)
    BY <1>0, <1>1, <2>1 DEF SerializeVersion, SerializeData, GetReturn, Goto, WellTyped, Frames, Reads
  <2> QED  BY <2>2
<1>2. ASSUME NEW u \in Threads, Call(u) \/ Step(u), u # t
      PROVE  pc'[t] = pc[t] /\ frame'[t] = frame[t]
  BY <1>0, <1>2
  DEF Call, Step, WellTyped, Goto, Return, LoadObj, PerformLookup, GetLookup,
      PerformReject, PerformPublish, CallFail, CallInvoke, IncVersion, Discard, GetTest,
      SerializeVersion, SerializeData, SerializeStore, GetReturn, GetAnswer
<1>3. ASSUME Call(t)
      PROVE  pc'[t] \notin {"sdata", "store", "answer"}
  BY <1>0, <1>3 DEF Call, WellTyped, Goto, LoadObj, PerformLookup, GetLookup
<1>4. ASSUME Step(t), ~(SerializeVersion(t) \/ SerializeData(t) \/ GetReturn(t))
      PROVE  pc'[t] \notin {"sdata", "store", "answer"}
  BY <1>0, <1>4
  DEF Step, WellTyped, Goto, Return, PerformReject, PerformPublish, CallFail, CallInvoke,
      IncVersion, Discard, GetTest, SerializeStore, GetAnswer
<1>5. CASE UNCHANGED svars
  BY <1>5 DEF svars
<1> QED  BY <1>1, <1>2, <1>3, <1>4, <1>5 DEF Next
-----------------------------------------------------------------------------
(* Nothing is serialized at the start.                                      *)
LEMMA SnapshotsInit == Init => Snapshots
<1> SUFFICES ASSUME Init PROVE Snapshots
  OBVIOUS
<1>1. Len(subject) = 0
  BY EmptySeq DEF Init
<1> QED  BY <1>1, IInvInit DEF Init, Snapshots, Kept, Held, Begun

(* Every step keeps what is known of serialized bytes.                      *)
LEMMA SnapshotsStep == Snapshots /\ [Next]_svars => Snapshots'
<1> SUFFICES ASSUME Snapshots, [Next]_svars PROVE Snapshots'
  OBVIOUS
<1>1. IInv /\ IInv' /\ Kept /\ Held /\ Begun
  BY IInvStep DEF Snapshots
<1>2. /\ WellTyped /\ WellTyped' /\ FramesSet
      /\ Len(subject) \in Nat /\ Len(subject') \in Nat /\ Len(subject) <= Len(subject')
      /\ \A s \in 1..Len(subject) : subject[s] \in Subjects
      /\ \A s \in 1..Len(subject') : subject'[s] \in Subjects
  BY <1>1, ObjectsFollow, Types, LenProperties, ElementOfSeq DEF IInv, WellTyped
<1>3. \A t \in Threads : frame[t].s # 0 => frame[t].s \in 1..Len(subject)
  BY <1>2, HasObject
<1>4. \A t \in Threads : /\ pc[t] \notin {"idle", "enter"} => frame[t].s # 0
                         /\ frame[t] \in Frames
  BY <1>2, Types DEF FramesSet
<1>5. Kept'
  <2> SUFFICES ASSUME NEW s \in 1..Len(subject'), subject'[s].ser # NoBytes
               PROVE  PastIn(subject'[s].ser, subject'[s])
    BY DEF Kept
  <2>1. CASE s > Len(subject)
    BY <1>1, <2>1, ObjectsFollow
  <2>2. CASE s \in 1..Len(subject)
    <3>1. Follows(s)
      BY <1>1, <2>2, ObjectsFollow
    <3>2. subject'[s].ser \in Bytes
      BY <1>2 DEF Subjects
    <3>3. PastIn(subject'[s].ser, subject[s])
      <4>1. CASE subject'[s].ser = subject[s].ser
        BY <1>1, <2>2, <4>1 DEF Kept
      <4>2. CASE \E t \in Threads : /\ pc[t] = "store" /\ frame[t].s = s
                                    /\ subject'[s].ser = frame[t].snap
        BY <1>1, <4>2 DEF Held, Subj
      <4> QED  BY <3>1, <4>1, <4>2 DEF Follows
    <3> QED  BY <1>2, <2>2, <3>1, <3>2, <3>3, PastStays DEF Follows
  <2> QED  BY <1>2, <2>1, <2>2
<1>6. ASSUME NEW t \in Threads, pc[t] \notin {"idle", "enter"}
      PROVE  /\ Grown(Subj(t), subject'[frame[t].s])
             /\ Subj(t) \in Subjects /\ subject'[frame[t].s] \in Subjects
  <2>1. frame[t].s \in 1..Len(subject)
    BY <1>3, <1>4, <1>6
  <2> QED  BY <1>1, <1>2, <2>1, ObjectsFollow DEF Follows, Subj
<1>7. Held'
  <2> SUFFICES ASSUME NEW t \in Threads, pc'[t] \in {"store", "answer"}, frame'[t].snap # NoBytes
               PROVE  PastIn(frame'[t].snap, subject'[frame'[t].s])
    BY DEF Held, Subj
  <2>1. CASE pc'[t] = pc[t] /\ frame'[t] = frame[t]
    <3>1. frame[t].snap \in Bytes /\ PastIn(frame[t].snap, Subj(t))
      BY <1>1, <1>4, <2>1 DEF Held, Frames
    <3> QED  BY <1>6, <2>1, <3>1, PastStays
  <2>2. CASE Reads(t)
    <3>1. frame[t].s \in 1..Len(subject) /\ Subj(t) = subject'[frame'[t].s]
      BY <1>3, <2>2 DEF Reads, Subj
    <3>2. CASE pc'[t] = "store"
      <4>1. /\ pc[t] = "sdata"
            /\ frame'[t].snap = [ver |-> frame[t].ver, data |-> Subj(t).data]
        BY <2>2, <3>2 DEF Reads
      <4>2. frame[t].ver <= Subj(t).base + Len(Subj(t).data)
        BY <1>1, <4>1 DEF Begun
      <4>3. Len(Subj(t).data) \in Nat
        BY <1>2, <3>1, LenProperties DEF Subjects, Subj
      <4>4. PastIn(frame'[t].snap, Subj(t))
        BY <4>1, <4>2, <4>3 DEF PastIn
      <4> QED  BY <3>1, <4>4
    <3>3. CASE pc'[t] = "answer"
      <4>1. frame'[t].snap = Subj(t).ser
        BY <2>2, <3>3 DEF Reads
      <4> QED  BY <1>1, <3>1, <4>1 DEF Kept, Subj
    <3> QED  BY <3>2, <3>3
  <2> QED  BY <1>1, <2>1, <2>2, ThreadsFollow
<1>8. Begun'
  <2> SUFFICES ASSUME NEW t \in Threads, pc'[t] = "sdata"
               PROVE  frame'[t].ver <= subject'[frame'[t].s].base + Len(subject'[frame'[t].s].data)
    BY DEF Begun, Subj
  <2>1. CASE pc'[t] = pc[t] /\ frame'[t] = frame[t]
    <3> DEFINE o == Subj(t)
    <3> DEFINE p == subject'[frame[t].s]
    <3>1. Grown(o, p) /\ o \in Subjects /\ p \in Subjects /\ frame[t].ver <= o.base + Len(o.data)
      BY <1>1, <1>6, <2>1 DEF Begun
    <3>2. frame[t].ver \in Nat
      BY <1>4 DEF Frames
    <3> HIDE DEF o, p
    <3>3. Len(o.data) \in Nat /\ Len(p.data) \in Nat /\ o.base \in Nat /\ p.base \in Nat
      BY <3>1, LenProperties DEF Subjects
    <3>4. frame[t].ver <= p.base + Len(p.data)
      BY <3>1, <3>2, <3>3 DEF Grown
    <3> QED  BY <2>1, <3>4 DEF p
  <2>2. CASE Reads(t)
    <3>1. /\ frame[t].s \in 1..Len(subject) /\ frame'[t].ver = Subj(t).ver
          /\ Subj(t) = subject'[frame'[t].s]
      BY <1>3, <2>2 DEF Reads, Subj
    <3> QED  BY <1>1, <3>1, VersionBehind DEF Subj
  <2> QED  BY <1>1, <2>1, <2>2, ThreadsFollow
<1> QED  BY <1>1, <1>5, <1>7, <1>8 DEF Snapshots

(* The invariant implies the property.                                      *)
LEMMA SnapshotsImply == Snapshots => SnapshotsArePast
<1> SUFFICES ASSUME Snapshots PROVE SnapshotsArePast
  OBVIOUS
<1>1. WellTyped /\ FramesSet /\ DOMAIN subject = 1..Len(subject)
  BY LenProperties DEF Snapshots, IInv, WellTyped
<1>2. ASSUME NEW s \in DOMAIN subject, subject[s].ser # NoBytes
      PROVE  PastOf(subject[s].ser, s)
  <2>1. s \in 1..Len(subject) /\ subject[s].ser \in Bytes
    BY <1>1, <1>2, Types DEF Subjects
  <2> QED  BY <1>1, <1>2, <2>1, PastByElements DEF Snapshots, Kept
<1>3. ASSUME NEW t \in Threads, pc[t] \in {"store", "answer"}, frame[t].snap # NoBytes
      PROVE  PastOf(frame[t].snap, frame[t].s)
  <2>1. frame[t].s \in 1..Len(subject) /\ frame[t].snap \in Bytes
    BY <1>1, <1>3, HasObject, Types DEF FramesSet, Frames
  <2> QED  BY <1>1, <1>3, <2>1, PastByElements DEF Snapshots, Held, Subj
<1> QED  BY <1>2, <1>3 DEF SnapshotsArePast

\* Whatever getSerialized reads while an update is under way, the bytes it
\* keeps and getObj answers with are a past of their object, labelled with a
\* version no newer than their content.  (SubjectPlus.java:19-45)
THEOREM SnapshotsPast == Spec => []SnapshotsArePast
  BY SnapshotsInit, SnapshotsStep, SnapshotsImply, PTL DEF Spec
-----------------------------------------------------------------------------
(* The refinement of VersionedObject.  What is published of the first object *)
(* is the value of a recursive function: first what it computes, by          *)
(* induction over a set of numbers, then one lemma for each kind of step.    *)

\* A set of naturals that is not empty has a least element.
LEMMA LeastNatural ==
  ASSUME NEW S, S \subseteq Nat, S # {}
  PROVE  \E n \in S : \A m \in S : n <= m
<1>1. PICK n \in S : \A m \in S : ~(<<m, n>> \in OpToRel(<, Nat))
  BY NatLessThanWellFounded, WFMin
<1>2. OpToRel(<, Nat) = {p \in Nat \X Nat : p[1] < p[2]}
  BY Zenon DEF OpToRel
<1>3. \A m \in S : m < n => <<m, n>> \in {p \in Nat \X Nat : p[1] < p[2]}
  OBVIOUS
<1>4. \A m \in S : ~(m < n)
  BY <1>1, <1>2, <1>3, Zenon
<1> QED  BY <1>4

\* Induction over the naturals, for a set in the place of a predicate.
LEMMA Induction ==
  ASSUME NEW P, P \subseteq Nat, 0 \in P, \A n \in P : n + 1 \in P
  PROVE  P = Nat
<1> SUFFICES ASSUME P # Nat PROVE FALSE
  OBVIOUS
<1>1. PICK n \in Nat \ P : \A m \in Nat \ P : n <= m
  BY LeastNatural
<1>2. n # 0 /\ n - 1 \in P /\ (n - 1) + 1 = n
  BY <1>1
<1> QED  BY <1>1, <1>2

\* The messages of a channel.
Sent == [op : Ops, ver : Nat, src : Nat]

\* The messages that those[i - 1] becomes with the i-th of the channel.
Picked(s, base, m, those) ==
  IF m.src = s THEN Append(those, Message(m.op, m.ver - base)) ELSE those

\* The recursive function in MessagesFor.
Selection(s, base, all, n, f) ==
  f = [i \in 0..n |-> IF i = 0 THEN <<>> ELSE Picked(s, base, all[i], f[i - 1])]

\* There is such a function: it is built one message at a time.
LEMMA SelectionExists ==
  ASSUME NEW s, NEW base, NEW all, NEW n \in Nat
  PROVE  \E f : Selection(s, base, all, n, f)
<1> DEFINE P == {k \in Nat : \E f : Selection(s, base, all, k, f)}
<1>1. 0 \in P
  <2>1. Selection(s, base, all, 0, [i \in 0..0 |-> <<>>])
    BY DEF Selection
  <2> QED  BY <2>1
<1>2. ASSUME NEW k \in P  PROVE k + 1 \in P
  <2>1. PICK f : Selection(s, base, all, k, f)
    OBVIOUS
  <2> DEFINE g == [i \in 0..k + 1 |->
                     IF i <= k THEN f[i] ELSE Picked(s, base, all[k + 1], f[k])]
  <2>2. \A i \in 0..k : f[i] = IF i = 0 THEN <<>> ELSE Picked(s, base, all[i], f[i - 1])
    BY <2>1 DEF Selection
  <2>3. ASSUME NEW i \in 0..k + 1
        PROVE  g[i] = IF i = 0 THEN <<>> ELSE Picked(s, base, all[i], g[i - 1])
    <3>1. CASE i = 0
      BY <2>2, <3>1
    <3>2. CASE i # 0 /\ i <= k
      <4>1. g[i] = f[i] /\ g[i - 1] = f[i - 1]
        BY <3>2
      <4>2. f[i] = Picked(s, base, all[i], f[i - 1])
        BY <2>2, <3>2
      <4> QED  BY <3>2, <4>1, <4>2
    <3>3. CASE i = k + 1
      <4>1. g[i] = Picked(s, base, all[k + 1], f[k]) /\ g[i - 1] = f[k]
        BY <3>3
      <4> QED  BY <3>3, <4>1
    <3> QED  BY <3>1, <3>2, <3>3
  <2>4. DOMAIN g = 0..k + 1 /\ g = [i \in DOMAIN g |-> g[i]]
    OBVIOUS
  <2> HIDE DEF g
  <2>5. Selection(s, base, all, k + 1, g)
    BY <2>3, <2>4 DEF Selection
  <2> QED  BY <2>5
<1>3. P = Nat
  BY <1>1, <1>2, Induction
<1> QED  BY <1>3

\* MessagesFor is the last value of such a function.
LEMMA MessagesAre ==
  ASSUME NEW s, NEW base, NEW all \in Seq(Sent)
  PROVE  \E f : /\ Selection(s, base, all, Len(all), f)
                /\ MessagesFor(s, base, all) = f[Len(all)]
<1> DEFINE f == CHOOSE g : Selection(s, base, all, Len(all), g)
<1>1. MessagesFor(s, base, all) = f[Len(all)]
  BY DEF MessagesFor, Selection, Picked
<1>2. Selection(s, base, all, Len(all), f)
  BY LenProperties, SelectionExists
<1> QED  BY <1>1, <1>2

\* On channels that begin alike such functions agree.
LEMMA SelectionsAgree ==
  ASSUME NEW s, NEW base, NEW all, NEW more, NEW n \in Nat, NEW k \in Nat, n <= k,
         \A i \in 1..n : all[i] = more[i],
         NEW f, Selection(s, base, all, n, f), NEW g, Selection(s, base, more, k, g)
  PROVE  f[n] = g[n]
<1> DEFINE P == {i \in Nat : i <= n => f[i] = g[i]}
<1>1. /\ \A i \in 0..n : f[i] = IF i = 0 THEN <<>> ELSE Picked(s, base, all[i], f[i - 1])
      /\ \A i \in 0..k : g[i] = IF i = 0 THEN <<>> ELSE Picked(s, base, more[i], g[i - 1])
  BY DEF Selection
<1>2. 0 \in P
  BY <1>1
<1>3. ASSUME NEW i \in P  PROVE i + 1 \in P
  <2>1. CASE i + 1 <= n
    <3>1. /\ f[i] = g[i] /\ all[i + 1] = more[i + 1]
          /\ i + 1 \in 0..n /\ i + 1 \in 0..k /\ i + 1 # 0 /\ (i + 1) - 1 = i
      BY <2>1
    <3>2. /\ f[i + 1] = Picked(s, base, all[i + 1], f[(i + 1) - 1])
          /\ g[i + 1] = Picked(s, base, more[i + 1], g[(i + 1) - 1])
      BY <1>1, <3>1
    <3>3. f[i + 1] = g[i + 1]
      BY <3>1, <3>2
    <3> QED  BY <3>3
  <2> QED  BY <2>1
<1>4. P = Nat
  BY <1>2, <1>3, Induction
<1> QED  BY <1>4

\* No message of the object, no abstract message.
LEMMA MessagesOfNone ==
  ASSUME NEW s, NEW base, NEW all \in Seq(Sent), \A i \in 1..Len(all) : all[i].src # s
  PROVE  MessagesFor(s, base, all) = <<>>
<1> DEFINE n == Len(all)
<1>1. n \in Nat
  BY LenProperties
<1>2. PICK f : Selection(s, base, all, n, f) /\ MessagesFor(s, base, all) = f[n]
  BY MessagesAre
<1> HIDE DEF n
<1>3. \A i \in 0..n : f[i] = IF i = 0 THEN <<>> ELSE Picked(s, base, all[i], f[i - 1])
  BY <1>2 DEF Selection
<1> DEFINE P == {i \in Nat : i <= n => f[i] = <<>>}
<1>4. 0 \in P
  BY <1>1, <1>3
<1>5. ASSUME NEW i \in P  PROVE i + 1 \in P
  <2>1. CASE i + 1 <= n
    <3>1. f[i] = <<>> /\ i + 1 \in 0..n /\ i + 1 # 0 /\ (i + 1) - 1 = i /\ all[i + 1].src # s
      BY <1>1, <2>1 DEF n
    <3>2. f[i + 1] = Picked(s, base, all[i + 1], f[(i + 1) - 1])
      BY <1>3, <3>1
    <3>3. f[i + 1] = <<>>
      BY <3>1, <3>2 DEF Picked
    <3> QED  BY <3>3
  <2> QED  BY <2>1
<1>6. P = Nat
  BY <1>4, <1>5, Induction
<1> QED  BY <1>1, <1>2, <1>6

\* One message more on the channel is one more for its object, and none for others.
LEMMA MessagesGoOn ==
  ASSUME NEW s, NEW base, NEW all \in Seq(Sent), NEW m \in Sent
  PROVE  MessagesFor(s, base, Append(all, m)) = Picked(s, base, m, MessagesFor(s, base, all))
<1> DEFINE n == Len(all)
           more == Append(all, m)
<1>1. /\ n \in Nat /\ more \in Seq(Sent) /\ Len(more) = n + 1
      /\ more[n + 1] = m /\ \A i \in 1..n : all[i] = more[i]
  BY LenProperties, AppendProperties
<1> HIDE DEF more
<1>2. PICK f : Selection(s, base, all, n, f) /\ MessagesFor(s, base, all) = f[n]
  BY MessagesAre
<1>3. PICK g : Selection(s, base, more, n + 1, g) /\ MessagesFor(s, base, more) = g[n + 1]
  BY <1>1, MessagesAre
<1> HIDE DEF n
<1>4. f[n] = g[n]
  <2>1. n + 1 \in Nat /\ n <= n + 1
    BY <1>1
  <2> QED  BY <1>1, <1>2, <1>3, <2>1, SelectionsAgree
<1>5. g[n + 1] = Picked(s, base, more[n + 1], g[(n + 1) - 1]) /\ (n + 1) - 1 = n
  BY <1>1, <1>3 DEF Selection
<1> QED  BY <1>1, <1>2, <1>3, <1>4, <1>5 DEF more

-----------------------------------------------------------------------------
(* The server as a VersionedObject: what FirstObject puts for its variables. *)

HistoryOf(sub) == IF sub = <<>> THEN <<>> ELSE sub[1].data

Calls(l, p, f, t) == l = t /\ p[t] = "call" /\ f[t].s = 1

PendingOf(l, p, f) ==
  IF {t \in Threads : Calls(l, p, f, t)} = {} THEN NoThread
  ELSE f[CHOOSE t \in {t \in Threads : Calls(l, p, f, t)} : TRUE].op

PublishedOf(sub, pub) ==
  IF sub = <<>> THEN <<>> ELSE MessagesFor(1, sub[1].base, pub[sub[1].key])

\* Every message is about an object there is.
Sourced ==
  \A k \in Keys : \A i \in 1..Len(published[k]) : published[k][i].src \in 1..Len(subject)

\* These are the substitutions.
LEMMA Substitutions ==
  /\ FirstObject!VOInit <=> /\ HistoryOf(subject) = <<>>
                            /\ PendingOf(lock, pc, frame) = NoThread
                            /\ PublishedOf(subject, published) = <<>>
  /\ FirstObject!VONext <=>
       \/ \E op \in Ops :
            /\ PendingOf(lock, pc, frame) = NoThread
            /\ PendingOf(lock, pc, frame)' = op
            /\ PublishedOf(subject, published)' =
                 Append(PublishedOf(subject, published),
                        Message(op, Len(HistoryOf(subject)) + 1))
            /\ HistoryOf(subject)' = HistoryOf(subject)
       \/ /\ PendingOf(lock, pc, frame) \in Ops \ Invalid
          /\ HistoryOf(subject)' = Append(HistoryOf(subject), PendingOf(lock, pc, frame))
          /\ PendingOf(lock, pc, frame)' = NoThread
          /\ PublishedOf(subject, published)' = PublishedOf(subject, published)
       \/ /\ PendingOf(lock, pc, frame) \in Invalid
          /\ PendingOf(lock, pc, frame)' = NoThread
          /\ HistoryOf(subject)' = HistoryOf(subject)
          /\ PublishedOf(subject, published)' = PublishedOf(subject, published)
  /\ (FirstObject!vvars)' = FirstObject!vvars <=>
       /\ HistoryOf(subject)' = HistoryOf(subject)
       /\ PendingOf(lock, pc, frame)' = PendingOf(lock, pc, frame)
       /\ PublishedOf(subject, published)' = PublishedOf(subject, published)
  BY DEF FirstObject!VOInit, FirstObject!VONext, FirstObject!VOPublish, FirstObject!VOApply,
     FirstObject!VOFail, FirstObject!vvars, FirstObject!Message, Message,
     HistoryOf, PendingOf, PublishedOf, Calls, CalledOn

\* One thread at most has the monitor: it is the one chosen.
LEMMA PendingOne ==
  ASSUME NEW l, NEW p, NEW f, NEW t \in Threads, Calls(l, p, f, t)
  PROVE  PendingOf(l, p, f) = f[t].op
<1>1. {u \in Threads : Calls(l, p, f, u)} = {t}
  BY DEF Calls
<1>2. (CHOOSE u \in {t} : TRUE) = t
  OBVIOUS
<1> QED  BY <1>1, <1>2 DEF PendingOf

\* While nobody has the monitor nothing is pending.
LEMMA PendingNone ==
  ASSUME NEW l, NEW p, NEW f, \A t \in Threads : ~Calls(l, p, f, t)
  PROVE  PendingOf(l, p, f) = NoThread
  BY DEF PendingOf

\* What is pending depends only on the monitor and on the thread that has it.
LEMMA PendingKept ==
  ASSUME NEW l, NEW p, NEW f, NEW m, NEW q, NEW g,
         \A t \in Threads : Calls(l, p, f, t) <=> Calls(m, q, g, t),
         \A t \in Threads : Calls(l, p, f, t) => g[t].op = f[t].op
  PROVE  PendingOf(m, q, g) = PendingOf(l, p, f)
<1>1. CASE \E t \in Threads : Calls(l, p, f, t)
  BY <1>1, PendingOne
<1>2. CASE \A t \in Threads : ~Calls(l, p, f, t)
  BY <1>2, PendingNone
<1> QED  BY <1>1, <1>2

\* A step that leaves the first object's content and messages alone, and the
\* call on it, changes nothing of the abstract object.
LEMMA Stutters ==
  ASSUME WellTyped, WellTyped', Len(subject') = Len(subject), published' = published,
         subject # <<>> => /\ subject'[1].key = subject[1].key
                           /\ subject'[1].base = subject[1].base
                           /\ subject'[1].data = subject[1].data,
         PendingOf(lock', pc', frame') = PendingOf(lock, pc, frame)
  PROVE  UNCHANGED FirstObject!vvars
<1>1. subject' = <<>> <=> subject = <<>>
  BY EmptySeq DEF WellTyped
<1>2. HistoryOf(subject') = HistoryOf(subject)
  BY <1>1 DEF HistoryOf
<1>3. PublishedOf(subject', published') = PublishedOf(subject, published)
  BY <1>1 DEF PublishedOf
<1> QED  BY <1>2, <1>3, Substitutions

\* There is no object at first.
LEMMA InitRefines == Init => FirstObject!VOInit /\ Sourced
<1> SUFFICES ASSUME Init PROVE FirstObject!VOInit /\ Sourced
  OBVIOUS
<1>1. HistoryOf(subject) = <<>> /\ PublishedOf(subject, published) = <<>>
  BY DEF Init, HistoryOf, PublishedOf
<1>2. PendingOf(lock, pc, frame) = NoThread
  BY PendingNone, ServerAssumption DEF Init, Calls
<1>3. Sourced
  BY EmptySeq DEF Init, Sourced
<1> QED  BY <1>1, <1>2, <1>3, Substitutions

\* The first object loaded has no operation and no message yet; a later one
\* leaves it as it is.
LEMMA LoadObjRefines ==
  ASSUME IInv, IInv', Sourced, NEW t \in Threads, NEW k \in Keys, NEW v \in LoadVersions,
         LoadObj(t, k, v)
  PROVE  UNCHANGED FirstObject!vvars /\ Sourced'
<1> DEFINE n == Len(subject)
           o == NewSubject(k, v)
<1>1. o \in Subjects /\ o.key = k /\ o.data = <<>>
  BY EmptySeq, ServerAssumption DEF NewSubject, Subjects, Bytes
<1> HIDE DEF o
<1>2. /\ n \in Nat /\ subject \in Seq(Subjects) /\ Len(subject') = n + 1
      /\ subject'[n + 1] = o
      /\ \A i \in 1..n : subject'[i] = subject[i]
      /\ subject' # <<>>
  <2>1. n \in Nat /\ subject \in Seq(Subjects) /\ subject' = Append(subject, o)
    BY Types DEF LoadObj, IInv, WellTyped, o
  <2>2. /\ subject' \in Seq(Subjects) /\ Len(subject') = n + 1 /\ subject'[n + 1] = o
        /\ \A i \in 1..n : subject'[i] = subject[i]
    BY <1>1, <2>1, AppendProperties
  <2>3. subject' # <<>>
    BY <2>1, <2>2, EmptySeq
  <2> QED  BY <2>1, <2>2, <2>3
<1>3. published' = published /\ UNCHANGED <<lock, pc, frame>>
  BY DEF LoadObj
<1>4. Sourced'
  BY <1>2, <1>3 DEF Sourced
<1>5. CASE subject = <<>>
  <2>1. n = 0 /\ subject'[1] = o
    BY <1>2, <1>5, EmptySeq
  <2>2. published[k] \in Seq(Sent)
    BY DEF IInv, WellTyped, Sent
  <2>3. \A i \in 1..Len(published[k]) : published[k][i].src # 1
    BY <2>1 DEF Sourced
  <2>4. MessagesFor(1, o.base, published[k]) = <<>>
    BY <2>2, <2>3, MessagesOfNone
  <2>5. HistoryOf(subject') = <<>> /\ PublishedOf(subject', published') = <<>>
    BY <1>1, <1>2, <1>3, <2>1, <2>4 DEF HistoryOf, PublishedOf
  <2>6. HistoryOf(subject) = <<>> /\ PublishedOf(subject, published) = <<>>
    BY <1>5 DEF HistoryOf, PublishedOf
  <2> QED  BY <1>3, <1>4, <2>5, <2>6, Substitutions
<1>6. CASE subject # <<>>
  <2>1. 1 \in 1..n
    BY <1>2, <1>6, EmptySeq
  <2>2. subject'[1] = subject[1]
    BY <1>2, <2>1
  <2>3. /\ HistoryOf(subject') = HistoryOf(subject)
        /\ PublishedOf(subject', published') = PublishedOf(subject, published)
    BY <1>2, <1>3, <1>6, <2>2 DEF HistoryOf, PublishedOf
  <2> QED  BY <1>3, <1>4, <2>3, Substitutions
<1> QED  BY <1>5, <1>6

\* A message is published for the object of the call, and its operation is pending.
LEMMA PublishRefines ==
  ASSUME IInv, IInv', Sourced, NEW t \in Threads, PerformPublish(t)
  PROVE  [FirstObject!VONext]_(FirstObject!vvars) /\ Sourced'
<1> DEFINE s == frame[t].s
           k == Subj(t).key
           m == [op |-> frame[t].op, ver |-> frame[t].ver, src |-> s]
           op == frame[t].op
<1>1. /\ pc[t] = "enter" /\ lock = NoThread /\ s # 0
      /\ frame[t].ver = Subj(t).ver + 1
      /\ lock' = t /\ UNCHANGED <<subject, frame>>
      /\ published' = [published EXCEPT ![k] = Append(@, m)]
  BY DEF PerformPublish, IsNext
<1>2. pc'[t] = "call"
  BY DEF PerformPublish, Goto, IInv, WellTyped
<1>3. /\ s \in 1..Len(subject) /\ Subj(t) \in Subjects /\ frame[t] \in Frames
      /\ op \in Ops /\ Len(subject) \in Nat
  BY <1>1, HasObject, Types DEF IInv, FramesSet
<1>4. /\ Len(Subj(t).data) \in Nat
      /\ frame[t].ver = Subj(t).base + Len(Subj(t).data) + 1
  <2>1. /\ Len(Subj(t).data) = Len(acked[s])
        /\ Subj(t).ver = Subj(t).base + Len(acked[s])
    BY <1>1, OnlyUpdate DEF IInv, ObjectsOK
  <2>2. Len(Subj(t).data) \in Nat
    BY <1>3, LenProperties DEF Subjects
  <2> QED  BY <1>1, <2>1, <2>2
<1>5. m \in Sent /\ k \in Keys /\ \A j \in Keys : published[j] \in Seq(Sent)
  BY <1>3 DEF IInv, WellTyped, Sent, Subjects, Frames
<1>6. /\ published'[k] = Append(published[k], m)
      /\ \A j \in Keys : j # k => published'[j] = published[j]
  BY <1>1, <1>5 DEF IInv, WellTyped
<1> HIDE DEF m
<1>7. Sourced'
  <2>1. m.src = s
    BY DEF m
  <2>2. /\ Len(published'[k]) = Len(published[k]) + 1 /\ Len(published[k]) \in Nat
        /\ published'[k][Len(published[k]) + 1] = m
        /\ \A i \in 1..Len(published[k]) : published'[k][i] = published[k][i]
    BY <1>5, <1>6, AppendProperties, LenProperties
  <2> QED  BY <1>1, <1>3, <1>5, <1>6, <2>1, <2>2 DEF Sourced
<1>8. PendingOf(lock, pc, frame) = NoThread
  BY <1>1, PendingNone, ServerAssumption DEF Calls
<1>9. subject # <<>> /\ 1 \in 1..Len(subject)
  BY <1>3, EmptySeq
<1>10. subject[1] \in Subjects
  BY <1>9, Types DEF IInv
<1> DEFINE base == subject[1].base
           old == MessagesFor(1, base, published[subject[1].key])
           new == MessagesFor(1, base, published'[subject[1].key])
<1>11. /\ HistoryOf(subject') = HistoryOf(subject)
       /\ PublishedOf(subject, published) = old /\ PublishedOf(subject', published') = new
  BY <1>1, <1>9 DEF HistoryOf, PublishedOf
<1>12. CASE s = 1
  <2>1. Subj(t) = subject[1] /\ HistoryOf(subject) = subject[1].data
    BY <1>9, <1>12 DEF Subj, HistoryOf
  <2>2. new = Picked(1, base, m, old)
    <3>1. /\ old = MessagesFor(1, base, published[k])
          /\ new = MessagesFor(1, base, Append(published[k], m))
      BY <1>6, <2>1
    <3> HIDE DEF base, k
    <3> QED  BY <1>5, <3>1, MessagesGoOn
  <2>3. m.ver - base = Len(HistoryOf(subject)) + 1 /\ m.src = 1 /\ m.op = op
    BY <1>4, <1>10, <1>12, <2>1 DEF m, Subjects
  <2>4. new = Append(old, Message(op, Len(HistoryOf(subject)) + 1))
    BY <2>2, <2>3 DEF Picked
  <2>5. PendingOf(lock', pc', frame') = op
    BY <1>1, <1>2, <1>12, PendingOne DEF Calls
  <2> QED  BY <1>3, <1>7, <1>8, <1>11, <2>4, <2>5, Substitutions
<1>13. CASE s # 1
  <2>1. new = old
    <3>1. CASE subject[1].key = k
      <4>1. new = Picked(1, base, m, old)
        <5>1. /\ old = MessagesFor(1, base, published[k])
              /\ new = MessagesFor(1, base, Append(published[k], m))
          BY <1>6, <3>1
        <5> HIDE DEF base, k
        <5> QED  BY <1>5, <5>1, MessagesGoOn
      <4> QED  BY <1>13, <4>1 DEF Picked, m
    <3>2. CASE subject[1].key # k
      BY <1>6, <1>10, <3>2 DEF Subjects
    <3> QED  BY <3>1, <3>2
  <2>2. PendingOf(lock', pc', frame') = NoThread
    BY <1>1, <1>13, PendingNone DEF Calls
  <2> QED  BY <1>7, <1>8, <1>11, <2>1, <2>2, Substitutions
<1> QED  BY <1>12, <1>13

\* A call that fails ends what was pending; the object is as before.
LEMMA CallFailRefines ==
  ASSUME IInv, IInv', Sourced, NEW t \in Threads, CallFail(t)
  PROVE  [FirstObject!VONext]_(FirstObject!vvars) /\ Sourced'
<1>1. /\ pc[t] = "call" /\ frame[t].op \in Invalid /\ lock' = NoThread
      /\ UNCHANGED <<subject, published>>
  BY DEF CallFail
<1>2. lock = t
  BY <1>1, Alone DEF IInv, ObjectsOK, Updating
<1>3. Sourced'
  BY <1>1 DEF Sourced
<1>4. PendingOf(lock', pc', frame') = NoThread
  BY <1>1, PendingNone, ServerAssumption DEF Calls
<1>5. /\ HistoryOf(subject') = HistoryOf(subject)
      /\ PublishedOf(subject', published') = PublishedOf(subject, published)
  BY <1>1
<1>6. CASE frame[t].s = 1
  <2>1. PendingOf(lock, pc, frame) = frame[t].op
    BY <1>1, <1>2, <1>6, PendingOne DEF Calls
  <2> QED  BY <1>1, <1>3, <1>4, <1>5, <2>1, Substitutions
<1>7. CASE frame[t].s # 1
  <2>1. PendingOf(lock, pc, frame) = NoThread
    BY <1>2, <1>7, PendingNone DEF Calls
  <2> QED  BY <1>3, <1>4, <1>5, <2>1, Substitutions
<1> QED  BY <1>6, <1>7

\* The method is invoked: what was pending is applied.
LEMMA CallInvokeRefines ==
  ASSUME IInv, IInv', Sourced, NEW t \in Threads, CallInvoke(t)
  PROVE  [FirstObject!VONext]_(FirstObject!vvars) /\ Sourced'
<1> DEFINE s == frame[t].s
           r == [Subj(t) EXCEPT !.data = Append(@, frame[t].op)]
<1>1. /\ pc[t] = "call" /\ frame[t].op \notin Invalid
      /\ UNCHANGED <<lock, published, frame>>
  BY DEF CallInvoke
<1>2. lock = t /\ pc'[t] = "inc"
  BY <1>1, Alone DEF IInv, ObjectsOK, Updating, CallInvoke, Goto, WellTyped
<1>3. s \in 1..Len(subject) /\ frame[t].op \in Ops /\ Subj(t) \in Subjects
  BY <1>1, HasObject DEF IInv, FramesSet, Updating
<1>4. /\ r \in Subjects /\ r.base = Subj(t).base /\ r.key = Subj(t).key
      /\ r.data = Append(Subj(t).data, frame[t].op)
  <2>1. Append(Subj(t).data, frame[t].op) \in Seq(Ops)
    BY <1>3, AppendProperties DEF Subjects
  <2> QED  BY <1>3, <2>1 DEF Subjects
<1>5. subject' = [subject EXCEPT ![s] = r]
  BY DEF CallInvoke, Subj
<1> HIDE DEF r
<1>6. /\ Len(subject') = Len(subject) /\ subject'[s] = r
      /\ \A i \in 1..Len(subject) : i # s => subject'[i] = subject[i]
  BY <1>3, <1>4, <1>5, ObjectChanges DEF IInv
<1>7. Sourced'
  BY <1>1, <1>6 DEF Sourced
<1>8. PendingOf(lock', pc', frame') = NoThread
  BY <1>1, <1>2, PendingNone DEF Calls
<1>9. subject # <<>> /\ subject' # <<>> /\ 1 \in 1..Len(subject)
  BY <1>3, <1>6, EmptySeq, Types DEF IInv, WellTyped
<1>10. CASE s = 1
  <2>1. PendingOf(lock, pc, frame) = frame[t].op
    BY <1>1, <1>2, <1>10, PendingOne DEF Calls
  <2>2. Subj(t) = subject[1] /\ subject'[1] = r
    BY <1>6, <1>10 DEF Subj
  <2>3. HistoryOf(subject') = Append(HistoryOf(subject), frame[t].op)
    BY <1>4, <1>9, <2>2 DEF HistoryOf
  <2>4. PublishedOf(subject', published') = PublishedOf(subject, published)
    BY <1>1, <1>4, <1>9, <2>2 DEF PublishedOf
  <2> QED  BY <1>1, <1>3, <1>7, <1>8, <2>1, <2>3, <2>4, Substitutions
<1>11. CASE s # 1
  <2>1. PendingOf(lock, pc, frame) = NoThread
    BY <1>2, <1>11, PendingNone DEF Calls
  <2>2. subject'[1] = subject[1]
    BY <1>6, <1>9, <1>11
  <2>3. /\ HistoryOf(subject') = HistoryOf(subject)
        /\ PublishedOf(subject', published') = PublishedOf(subject, published)
    BY <1>1, <1>9, <2>2 DEF HistoryOf, PublishedOf
  <2> QED  BY <1>7, <1>8, <2>1, <2>3, Substitutions
<1> QED  BY <1>10, <1>11

\* All other steps move a thread, or change what is kept beside the content.
LEMMA OthersRefine ==
  ASSUME IInv, IInv', Sourced, NEW t \in Threads,
         \/ \E k \in Keys : GetLookup(t, k)
         \/ \E k \in Keys, op \in Ops, v \in 0..MaxVersion : PerformLookup(t, k, op, v)
         \/ PerformReject(t) \/ IncVersion(t) \/ Discard(t)
         \/ GetTest(t) \/ SerializeVersion(t) \/ SerializeData(t)
         \/ SerializeStore(t) \/ GetReturn(t) \/ GetAnswer(t)
  PROVE  UNCHANGED FirstObject!vvars /\ Sourced'
<1> USE DEF Goto, Return
<1>1. published' = published
  BY DEF GetLookup, PerformLookup, PerformReject, IncVersion, Discard, GetTest,
     SerializeVersion, SerializeData, SerializeStore, GetReturn, GetAnswer
<1>2. /\ Len(subject') = Len(subject)
      /\ \A i \in 1..Len(subject) : /\ subject'[i].key = subject[i].key
                                    /\ subject'[i].base = subject[i].base
                                    /\ subject'[i].data = subject[i].data
  <2>1. CASE IncVersion(t) \/ Discard(t) \/ SerializeStore(t)
    <3>1. PICK r : /\ subject' = [subject EXCEPT ![frame[t].s] = r]
                   /\ \/ IncVersion(t) /\ r = [Subj(t) EXCEPT !.ver = @ + 1]
                      \/ Discard(t) /\ r = [Subj(t) EXCEPT !.ser = NoBytes]
                      \/ SerializeStore(t) /\ r = [Subj(t) EXCEPT !.ser = frame[t].snap]
      BY <2>1 DEF IncVersion, Discard, SerializeStore, Subj
    <3>2. frame[t].s \in 1..Len(subject) /\ Subj(t) \in Subjects /\ frame[t] \in Frames
      BY <2>1, HasObject, Types DEF IncVersion, Discard, SerializeStore, IInv, FramesSet
    <3>3. /\ r \in Subjects /\ r.key = Subj(t).key
          /\ r.base = Subj(t).base /\ r.data = Subj(t).data
      BY <3>1, <3>2 DEF Subjects, Frames
    <3> QED  BY <3>1, <3>2, <3>3, ObjectChanges DEF IInv, Subj
  <2>2. CASE ~(IncVersion(t) \/ Discard(t) \/ SerializeStore(t))
    <3>1. subject' = subject
      BY <2>2 DEF GetLookup, PerformLookup, PerformReject, GetTest,
         SerializeVersion, SerializeData, GetReturn, GetAnswer
    <3> QED  BY <3>1
  <2> QED  BY <2>1, <2>2
<1>3. PendingOf(lock', pc', frame') = PendingOf(lock, pc, frame)
  <2>1. CASE IncVersion(t) \/ Discard(t)
    <3>1. pc[t] \in {"inc", "discard"} /\ lock = t
      BY <2>1, Alone DEF IncVersion, Discard, IInv, ObjectsOK, Updating
    <3>2. lock' \in {t, NoThread} /\ pc'[t] # "call"
      BY <2>1, <3>1 DEF IncVersion, Discard, IInv, WellTyped
    <3>3. PendingOf(lock, pc, frame) = NoThread
      BY <3>1, PendingNone DEF Calls
    <3>4. PendingOf(lock', pc', frame') = NoThread
      BY <3>2, PendingNone, ServerAssumption DEF Calls
    <3> QED  BY <3>3, <3>4
  <2>2. CASE ~(IncVersion(t) \/ Discard(t))
    <3>1. /\ lock' = lock /\ pc[t] # "call" /\ pc'[t] # "call"
          /\ \A u \in Threads : u # t => pc'[u] = pc[u] /\ frame'[u] = frame[u]
      BY <2>2 DEF GetLookup, PerformLookup, PerformReject, GetTest, SerializeVersion,
         SerializeData, SerializeStore, GetReturn, GetAnswer, IInv, WellTyped
    <3> QED  BY <3>1, PendingKept DEF Calls
  <2> QED  BY <2>1, <2>2
<1>4. subject # <<>> => 1 \in 1..Len(subject)
  BY EmptySeq, Types DEF IInv, WellTyped
<1>5. UNCHANGED FirstObject!vvars
  BY <1>1, <1>2, <1>3, <1>4, Stutters DEF IInv
<1>6. Sourced'
  BY <1>1, <1>2 DEF Sourced
<1> QED  BY <1>5, <1>6

\* Every step is a step of the abstract object, or none.
LEMMA StepRefines ==
  IInv /\ IInv' /\ Sourced /\ [Next]_svars => [FirstObject!VONext]_(FirstObject!vvars) /\ Sourced'
<1> SUFFICES ASSUME IInv, IInv', Sourced, [Next]_svars
             PROVE  [FirstObject!VONext]_(FirstObject!vvars) /\ Sourced'
  OBVIOUS
<1>1. CASE UNCHANGED svars
  <2>1. UNCHANGED FirstObject!vvars
    BY <1>1, Substitutions DEF svars
  <2>2. Sourced'
    BY <1>1 DEF svars, Sourced
  <2> QED  BY <2>1, <2>2
<1>2. CASE Next
  <2>1. PICK t \in Threads : Call(t) \/ Step(t)
    BY <1>2 DEF Next
  <2> QED
    BY <2>1, LoadObjRefines, PublishRefines, CallFailRefines, CallInvokeRefines, OthersRefine
    DEF Call, Step
<1> QED  BY <1>1, <1>2

\* However the threads of the server interleave (CacheServer.performOperation,
\* loadObj, getObj), the operations on its first object are published and applied as
\* VersionedObject says: one at a time, each for the next version, published before it
\* is applied, and applied or failed before the next one is published.
THEOREM Refines == Spec => ImplementsVersionedObject
  BY IInvInit, IInvStep, InitRefines, StepRefines, PTL
  DEF Spec, ImplementsVersionedObject, FirstObject!VOSpec
=============================================================================
