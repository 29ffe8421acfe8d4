--------------------------- MODULE VersionedObject ---------------------------
(***************************************************************************)
(* What the cache server promises for one key: an object whose n-th        *)
(* accepted operation produces version n.  An operation carries the        *)
(* version it wants to produce and is accepted only if that is the next    *)
(* one; an accepted operation is published to the subscribers first and    *)
(* applied afterwards (CacheServer.performOperation).  An operation whose  *)
(* call fails (Invocation.validate refuses it, or its method throws) has   *)
(* been published all the same, and leaves the object and its version as   *)
(* they were.                                                              *)
(*                                                                         *)
(* CacheServer, the thread-level model, implements this specification;     *)
(* CacheClient is composed with it.                                        *)
(***************************************************************************)
EXTENDS Operations, Sequences

CONSTANT NoOp   \* no operation is being performed

ASSUME NoOpAssumption == NoOp \notin Ops

VARIABLES
  history,    \* the operations applied to the object, in order
  pending,    \* the operation published and not yet applied or refused
  published   \* the messages sent on the key's channel, in order

vvars == <<history, pending, published>>

VOInit ==
  /\ history = <<>>
  /\ pending = NoOp
  /\ published = <<>>

\* An operation that asks for the next version is published, before it is
\* applied; any other is refused and changes nothing.
VOPublish(op) ==
  /\ pending = NoOp
  /\ pending' = op
  /\ published' = Append(published, Message(op, Len(history) + 1))
  /\ UNCHANGED history

\* The operation is applied to the object.
VOApply ==
  /\ pending \in Ops \ Invalid
  /\ history' = Append(history, pending)
  /\ pending' = NoOp
  /\ UNCHANGED published

\* The operation could not be called: the object keeps its version.
VOFail ==
  /\ pending \in Invalid
  /\ pending' = NoOp
  /\ UNCHANGED <<history, published>>

VONext == (\E op \in Ops : VOPublish(op)) \/ VOApply \/ VOFail

VOSpec == VOInit /\ [][VONext]_vvars
=============================================================================
