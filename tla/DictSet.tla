------------------------------ MODULE DictSet -------------------------------
(***************************************************************************)
(* What a dictionary of dict.c promises its callers: it answers as a set   *)
(* of keys does, and a safe iteration returns no key twice and, before it  *)
(* ends, every key that was there when it began and has not been removed.  *)
(***************************************************************************)
CONSTANTS Keys, Nobody

VARIABLES members, answer,
          iterating,    \* a safe iteration is on
          seen,         \* the keys it has returned
          owed          \* the keys it has still to return

vars == <<members, answer, iterating, seen, owed>>
iteration == <<iterating, seen, owed>>

Is(fact) == IF fact THEN "yes" ELSE "no"

Init ==
    /\ members = {}
    /\ answer = Nobody
    /\ iterating = FALSE
    /\ seen = {}
    /\ owed = {}

Add(k) ==
    /\ members' = members \cup {k}
    /\ answer' = Is(k \notin members)
    /\ UNCHANGED iteration

Find(k) ==
    /\ answer' = Is(k \in members)
    /\ UNCHANGED <<members, iteration>>

Delete(k) ==
    /\ members' = members \ {k}
    /\ answer' = Is(k \in members)
    /\ seen' = seen \ {k}      \* should it be added again, it is another entry
    /\ owed' = owed \ {k}
    /\ UNCHANGED iterating

Draw ==
    /\ \E k \in members \cup {Nobody} :
           /\ k = Nobody <=> members = {}
           /\ answer' = k
    /\ UNCHANGED <<members, iteration>>

Clear ==
    /\ members' = {}
    /\ answer' = Nobody
    /\ UNCHANGED iteration

Give(k) ==
    /\ k \in members \ seen
    /\ iterating' = TRUE
    /\ seen' = seen \cup {k}
    /\ owed' = (IF iterating THEN owed ELSE members) \ {k}
    /\ answer' = Nobody
    /\ UNCHANGED members

End ==
    /\ (IF iterating THEN owed ELSE members) = {}
    /\ answer' = Nobody
    /\ iterating' = FALSE
    /\ seen' = {}
    /\ owed' = {}
    /\ UNCHANGED members

GiveUp ==
    /\ iterating
    /\ answer' = Nobody
    /\ iterating' = FALSE
    /\ seen' = {}
    /\ owed' = {}
    /\ UNCHANGED members

Next ==
    \/ \E k \in Keys : Add(k) \/ Find(k) \/ Delete(k) \/ Give(k)
    \/ Draw \/ Clear \/ End \/ GiveUp

Spec == Init /\ [][Next]_vars
=============================================================================
