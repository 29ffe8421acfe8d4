----------------------------- MODULE CachedCopies -----------------------------
(***************************************************************************)
(* What the cache promises its clients for one object: the operations      *)
(* accepted are in one order; a client's copy is brought up to date by the *)
(* next of them, or replaced by a copy that was serialized at some moment, *)
(* perhaps an old one.  What a copy's version says it contains, it does    *)
(* contain.                                                                *)
(***************************************************************************)
EXTENDS Operations, Sequences

CONSTANT Clients

VARIABLES
  accepted,   \* the operations accepted, in order
  copy        \* client -> the version of its copy, and the operations it
              \* results from

\* The copies that can have been serialized: the version was read first, the
\* content then or later.
Serialized ==
  UNION {{[ver |-> v, data |-> SubSeq(accepted, 1, n)] : v \in 0..n} :
            n \in 0..Len(accepted)}

CCInit ==
  /\ accepted = <<>>
  /\ copy = [c \in Clients |-> [ver |-> 0, data |-> <<>>]]

CCAccept(op) ==
  /\ accepted' = Append(accepted, op)
  /\ UNCHANGED copy

\* The next operation is applied.
CCUpdate(c) ==
  /\ copy[c].ver < Len(accepted)
  /\ copy' = [copy EXCEPT ![c] =
                [ver |-> @.ver + 1,
                 data |-> Append(@.data, accepted[copy[c].ver + 1])]]
  /\ UNCHANGED accepted

\* The copy is replaced.
CCReplace(c) ==
  /\ \E o \in Serialized : copy' = [copy EXCEPT ![c] = o]
  /\ UNCHANGED accepted

CCNext ==
  \/ \E op \in Ops : CCAccept(op)
  \/ \E c \in Clients : CCUpdate(c) \/ CCReplace(c)

CCSpec == CCInit /\ [][CCNext]_<<accepted, copy>>
=============================================================================
