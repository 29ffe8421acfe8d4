----------------------------- MODULE ObjectBundle -----------------------------
(***************************************************************************)
(* A client's copy of an object and the operations received for it and not *)
(* yet applied (CacheWise/ObjectBundle.java).  queue and apply are         *)
(* synchronized; setObj is not, so a caller that applies the queue reads   *)
(* the object again for every operation (ApplyHead).                       *)
(*                                                                         *)
(* An object has a version, a field of BaseObject, and a content: the      *)
(* sequence of the operations applied to it.  The two agree (Whole) unless *)
(* the object was serialized while an operation was applied to it          *)
(* (CacheServer).  NoObject is null.                                       *)
(***************************************************************************)
EXTENDS Operations, Sequences

CONSTANT NoObject   \* null

Objects == [ver : Nat, data : Seq(Ops)]
Whole(operations) == [ver |-> Len(operations), data |-> operations]
Messages == [op : Ops, ver : Nat]

\* obj is the field obj, methods the field methods.
Bundles == [obj : Objects \cup {NoObject}, methods : Seq(Messages)]
NewBundle(o) == [obj |-> o, methods |-> <<>>]

Version(o) == o.ver

\* BaseObject.applyUpdate: an operation that cannot be called leaves the
\* object and its version alone.
ApplyUpdate(o, m) ==
  IF m.op \in Invalid THEN o
  ELSE [ver |-> o.ver + 1, data |-> Append(o.data, m.op)]
-----------------------------------------------------------------------------
LastVersion(b) == b.methods[Len(b.methods)].ver

\* What queue compares the version of an operation with: the last queued one,
\* or the object's, or nothing when there is neither.
HasBasis(b) == b.methods # <<>> \/ b.obj # NoObject
Basis(b) == IF b.methods # <<>> THEN LastVersion(b) ELSE Version(b.obj)

\* (Bug variant of Accepts: a hole is not noticed.)
AcceptsNewer(b, m) == HasBasis(b) => m.ver > Basis(b)

Accepts(b, m) == HasBasis(b) => m.ver = Basis(b) + 1
Missed(b, m)  == HasBasis(b) /\ m.ver > Basis(b) + 1

\* An old operation is ignored if the queue is empty, and an error if not.
Ignores(b, m) == b.methods = <<>> /\ b.obj # NoObject /\ m.ver <= Basis(b)

\* The queue after queue(m): a missed update clears it.
Queue(b, m) ==
  [b EXCEPT !.methods = IF Accepts(b, m) THEN Append(@, m)
                        ELSE IF Missed(b, m) THEN <<>> ELSE @]

\* What queue(m) returns.
QueueReturns(b, m) == Accepts(b, m) \/ Ignores(b, m)
-----------------------------------------------------------------------------
\* prepareQueue drops the operations the object already contains, up to the
\* first one it does not.
Newer(b) == {i \in DOMAIN b.methods : b.methods[i].ver > Version(b.obj)}

PrepareQueue(b) ==
  [b EXCEPT !.methods =
     IF Newer(b) = {} THEN <<>>
     ELSE LET first == CHOOSE i \in Newer(b) : \A j \in Newer(b) : i <= j
          IN SubSeq(@, first, Len(@))]

\* apply goes on only if the first operation left fits the object.
HeadFits(b) == b.methods # <<>> /\ Head(b.methods).ver = Version(b.obj) + 1

\* (Bug variant of ApplyHead: peek instead of remove.)
ApplyPeeked(b) ==
  [obj |-> ApplyUpdate(b.obj, Head(b.methods)), methods |-> b.methods]

\* One turn of the loop of apply: the version is not compared again.
ApplyHead(b) ==
  [obj |-> ApplyUpdate(b.obj, Head(b.methods)), methods |-> Tail(b.methods)]
-----------------------------------------------------------------------------
\* The operations in the queue have consecutive versions.
Contiguous(b) ==
  \A i \in 1..(Len(b.methods) - 1) :
     b.methods[i + 1].ver = b.methods[i].ver + 1
=============================================================================
