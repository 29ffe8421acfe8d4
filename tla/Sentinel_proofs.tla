--------------------------- MODULE Sentinel_proofs ---------------------------
(***************************************************************************)
(* Proofs about Sentinel, for any sentinels, servers, quorum, priorities   *)
(* and bounds.  First what one run of the timer and one INFO reply make of *)
(* a view, one lemma per operator, then one lemma per action.              *)
(***************************************************************************)
EXTENDS Sentinel, FiniteSetTheorems, WellFoundedInduction, TLAPS

\* What a server replicates, or is told to: another server, or nothing.
Masters == Servers \cup {None}
\* The states that follow the promoted pointer.
Following == {"send_slaveof_noone", "wait_promotion", "reconf_slaves", "detect_end"}

\* An entry of the table of slaves.
Entries == [reconf : {"none", "sent", "inprog", "done"}, demote : BOOLEAN, seen : Nat]

\* The table of slaves of a master.
IsTable(t) == DOMAIN t \subseteq Servers /\ \A r \in DOMAIN t : t[r] \in Entries

\* The fields a sentinel's view has.
Fields == {"addr", "slaves", "peers", "odown", "inProgress", "leads", "forced", "state",
           "promoted", "tilt", "fresh"}

\* The view of sentinel s is well formed, in whatever state.
IsView(s, v) ==
  /\ Fields \subseteq DOMAIN v
  /\ v.addr \in Servers /\ v.state \in States
  /\ IsTable(v.slaves)
  /\ DOMAIN v.peers \subseteq Sentinels \ {s}

\* The promoted pointer and the failover state fit each other.  The code
\* follows the pointer in states that other functions set, in other runs of
\* the timer or in an INFO callback: each of them has to keep this.  Only a
\* sentinel that leads waits, selects or promotes; one that observes somebody
\* else's failover goes straight to its end.
Pointed(v) ==
  /\ v.promoted \in DOMAIN v.slaves \cup {None}
  /\ v.state \in Following \cup {"update_config"} => v.promoted \in DOMAIN v.slaves
  /\ ~v.inProgress => v.state = "none" /\ v.promoted = None
  /\ v.inProgress /\ ~v.leads => v.state \in {"detect_end", "update_config"}
  /\ \A r \in DOMAIN v.slaves : v.slaves[r].reconf \in {"sent", "inprog"}
        => v.state \in {"reconf_slaves", "detect_end", "update_config"}

\* What a run of the timer or a reply leaves behind: a view of s and commands.
IsOutcome(s, o) ==
  /\ o = [v |-> o.v, cmd |-> o.cmd]
  /\ IsView(s, o.v) /\ Pointed(o.v)
  /\ o.cmd \in [Servers -> Seq(Masters)]

\* Within one run of the timer the master and the other sentinels stay who
\* they are, and no state leads to wait_start: only sentinelStartFailover sets it.
Step(v, w) ==
  /\ w.addr = v.addr /\ w.peers = v.peers
  /\ w.state = "wait_start" => v.state = "wait_start"

\* Leaving a view alone and sending nothing is an outcome.
LEMMA QuietIs ==
  ASSUME NEW s, NEW v, IsView(s, v), Pointed(v)
  PROVE  IsOutcome(s, Quiet(v)) /\ Quiet(v).v = v
BY DEF IsOutcome, Quiet, Masters

\* Queueing a SLAVEOF for some servers keeps an outcome, and the view with it.
LEMMA SendIs ==
  ASSUME NEW s, NEW o, IsOutcome(s, o), NEW R, NEW m \in Masters
  PROVE  IsOutcome(s, Send(o, R, m)) /\ Send(o, R, m).v = o.v
<1> DEFINE c == [r \in Servers |-> IF r \in R THEN Append(o.cmd[r], m) ELSE o.cmd[r]]
<1>1. c \in [Servers -> Seq(Masters)]
  BY DEF IsOutcome
<1>2. Send(o, R, m) = [o EXCEPT !.cmd = c]
  BY DEF Send
<1> HIDE DEF c
<1>3. Send(o, R, m) = [v |-> o.v, cmd |-> c]
  BY <1>2 DEF IsOutcome
<1>4. QED
  BY <1>1, <1>3 DEF IsOutcome

\* sentinelAbortFailover forgets the pointer, the state and every
\* reconfiguration at once, so the view it leaves is consistent.
LEMMA AbortIs ==
  ASSUME NEW s, NEW o, IsOutcome(s, o), NEW gone
  PROVE  /\ IsOutcome(s, Abort(o, gone)) /\ Step(o.v, Abort(o, gone).v)
         /\ DOMAIN Abort(o, gone).v.slaves = DOMAIN o.v.slaves
<1> DEFINE v == o.v
           t == [r \in DOMAIN v.slaves |-> [v.slaves[r] EXCEPT !.reconf = "none"]]
           w == [v EXCEPT !.slaves = t,
              !.inProgress = FALSE, !.leads = FALSE, !.forced = FALSE,
              !.state = "none", !.promoted = None]
           undo == IF v.leads THEN {r \in DOMAIN v.slaves \ gone :
                                 r = v.promoted \/ v.slaves[r].reconf # "none"} ELSE {}
<1>1. IsTable(t) /\ DOMAIN t = DOMAIN o.v.slaves /\ \A r \in DOMAIN t : t[r].reconf = "none"
  BY DEF IsOutcome, IsView, IsTable, Entries
<1>2. IsView(s, v) /\ Pointed(v) /\ o = [v |-> v, cmd |-> o.cmd] /\ o.cmd \in [Servers -> Seq(Masters)]
  BY DEF IsOutcome
<1>3. Abort(o, gone) = Send([o EXCEPT !.v = w], undo, v.addr)
  BY DEF Abort
<1> HIDE DEF t, v, undo
<1>4. /\ w.addr = v.addr /\ w.peers = v.peers /\ w.slaves = t /\ w.state = "none" /\ w.promoted = None
      /\ w.inProgress = FALSE /\ w.leads = FALSE
  BY <1>2 DEF IsView, Fields
<1>5. IsView(s, w)
  BY <1>1, <1>2 DEF IsView, Fields, States
<1> HIDE DEF w
<1>6. Pointed(w)
  BY <1>1, <1>4 DEF Pointed, Following
<1>7. [o EXCEPT !.v = w] = [v |-> w, cmd |-> o.cmd]
  BY <1>2
<1>8. IsOutcome(s, [o EXCEPT !.v = w]) /\ [o EXCEPT !.v = w].v = w
  BY <1>2, <1>5, <1>6, <1>7 DEF IsOutcome
<1>9. v.addr \in Masters
  BY <1>2 DEF IsView, Masters
<1> DEFINE p == [o EXCEPT !.v = w]
<1>10. IsOutcome(s, p) /\ p.v = w /\ Abort(o, gone) = Send(p, undo, v.addr)
  BY <1>3, <1>8
<1> HIDE DEF p
<1>11. IsOutcome(s, Abort(o, gone)) /\ Abort(o, gone).v = w
  BY <1>9, <1>10, SendIs
<1>12. Step(v, Abort(o, gone).v)
  BY <1>4, <1>11 DEF Step
<1>13. QED
  BY <1>1, <1>4, <1>11, <1>12 DEF v

\* Replacing the view of an outcome by a consistent one.
LEMMA ReplacedIs ==
  ASSUME NEW s, NEW o, IsOutcome(s, o), NEW w, IsView(s, w), Pointed(w)
  PROVE  IsOutcome(s, [o EXCEPT !.v = w]) /\ [o EXCEPT !.v = w].v = w
BY DEF IsOutcome

\* Every non-empty set of natural numbers has a least element.
LEMMA LeastNatural ==
  ASSUME NEW S, S \subseteq Nat, S # {}
  PROVE  \E n \in S : \A m \in S : n <= m
<1>1. PICK n \in S : \A m \in S : ~(<<m, n>> \in OpToRel(<, Nat))
  BY NatLessThanWellFounded, WFMin
<1>2. OpToRel(<, Nat) = {p \in Nat \X Nat : p[1] < p[2]}
  BY Zenon DEF OpToRel
<1>3. \A m \in S : m < n => <<m, n>> \in {p \in Nat \X Nat : p[1] < p[2]}
  OBVIOUS
<1>4. \A m \in S : ~(m < n)
  BY <1>1, <1>2, <1>3, Zenon
<1>5. QED
  BY <1>4

\* sentinelSelectSlave returns a slave of the table or nothing: the order by
\* priority and run id has a minimum among the slaves that are good enough.
LEMMA SelectSlaveKnown ==
  ASSUME NEW s, NEW v, IsView(s, v), NEW gone
  PROVE  SelectSlave(s, v, gone) \in DOMAIN v.slaves \cup {None}
<1> DEFINE good == {r \in DOMAIN v.slaves : /\ health[s][r] = "ok" /\ r \notin gone
                                            /\ ~v.slaves[r].demote
                                            /\ v.slaves[r].seen # Unknown
                                            /\ Priority[r] # 0}
           Before(q, r) == Priority[q] < Priority[r] \/ (Priority[q] = Priority[r] /\ q <= r)
<1>1. SelectSlave(s, v, gone) = IF good = {} THEN None ELSE CHOOSE r \in good : \A q \in good : Before(r, q)
  BY DEF SelectSlave
<1>2. good \subseteq DOMAIN v.slaves /\ \A r \in good : r \in Nat /\ Priority[r] \in Nat
  BY SentinelAssumption DEF IsView, IsTable
<1> HIDE DEF good
<1>3. CASE good = {}
  BY <1>1, <1>3
<1>4. CASE good # {}
  <2>1. PICK p \in {Priority[r] : r \in good} : \A q \in {Priority[r] : r \in good} : p <= q
    BY <1>2, <1>4, LeastNatural
  <2>2. PICK r \in {q \in good : Priority[q] = p} : \A q \in {x \in good : Priority[x] = p} : r <= q
    BY <1>2, <2>1, LeastNatural
  <2>3. \A q \in good : Before(r, q)
    BY <1>2, <2>1, <2>2
  <2> HIDE DEF Before
  <2>4. r \in good
    BY <2>2
  <2>5. (CHOOSE x \in good : \A q \in good : Before(x, q)) \in good
    BY <2>3, <2>4
  <2>6. QED
    BY <1>1, <1>2, <1>4, <2>5
<1>5. QED
  BY <1>3, <1>4

\* sentinelStartFailoverIfNeeded starts waiting only when the master is
\* objectively down, and takes over a failover it observed only from
\* detect_end, where the promoted slave is known.
LEMMA StartFailoverIs ==
  ASSUME NEW s, NEW v, IsView(s, v), Pointed(v), v.state # "update_config", NEW age, NEW gone
  PROVE  LET w == StartFailoverIfNeeded(s, v, age, gone)
         IN  /\ IsView(s, w) /\ Pointed(w) /\ w.state # "update_config"
             /\ w.addr = v.addr /\ w.peers = v.peers
             /\ w.state = "wait_start" => v.state = "wait_start" \/ v.odown
<1> DEFINE w == StartFailoverIfNeeded(s, v, age, gone)
           t == [r \in DOMAIN v.slaves |->
                  [v.slaves[r] EXCEPT !.reconf = IF @ = "sent" THEN "none" ELSE @]]
           taken == [StartFailover(v, "reconf_slaves") EXCEPT !.slaves = t]
           begun == StartFailover(v, "wait_start")
<1>1. IsTable(t) /\ DOMAIN t = DOMAIN v.slaves
  BY DEF IsView, IsTable, Entries
<1>2. \/ w = v
      \/ v.inProgress /\ ~v.leads /\ w = taken
      \/ ~v.inProgress /\ v.odown /\ w = begun
  BY DEF StartFailoverIfNeeded
<1> HIDE DEF w, t
<1>3. CASE w = v
  BY <1>3 DEF w
<1>4. CASE v.inProgress /\ ~v.leads /\ w = taken
  <2>1. /\ w.addr = v.addr /\ w.peers = v.peers /\ w.slaves = t /\ w.state = "reconf_slaves"
        /\ w.promoted = v.promoted /\ w.inProgress = TRUE /\ w.leads = TRUE
    BY <1>4 DEF StartFailover, IsView, Fields
  <2>2. IsView(s, w)
    BY <1>1, <1>4 DEF StartFailover, IsView, Fields, States
  <2>3. v.promoted \in DOMAIN v.slaves
    BY <1>4 DEF Pointed, Following
  <2> HIDE DEF taken
  <2>4. Pointed(w)
    BY <1>1, <2>1, <2>3 DEF Pointed
  <2>5. QED
    BY <2>1, <2>2, <2>4 DEF w
<1>5. CASE ~v.inProgress /\ v.odown /\ w = begun
  <2>1. /\ w.addr = v.addr /\ w.peers = v.peers /\ w.slaves = v.slaves /\ w.state = "wait_start"
        /\ w.promoted = v.promoted /\ w.inProgress = TRUE /\ w.leads = TRUE
    BY <1>5 DEF StartFailover, IsView, Fields
  <2>2. IsView(s, w)
    BY <1>5 DEF StartFailover, IsView, Fields, States
  <2>3. v.state = "none" /\ v.promoted = None
    BY <1>5 DEF Pointed
  <2> HIDE DEF begun
  <2>4. Pointed(w)
    BY <2>1, <2>3 DEF Pointed, Following
  <2>5. QED
    BY <1>5, <2>1, <2>2, <2>4 DEF w
<1>6. QED
  BY <1>2, <1>3, <1>4, <1>5 DEF w

\* A step of the state machine leads from view v to outcome p.
Goes(s, v, p) == IsOutcome(s, p) /\ Step(v, p.v)

\* w is v in another state, with another promoted slave.
Moved(v, w, state, promoted) ==
  /\ w.state = state /\ w.promoted = promoted
  /\ w.addr = v.addr /\ w.peers = v.peers /\ w.slaves = v.slaves
  /\ w.inProgress = v.inProgress /\ w.leads = v.leads

\* A change of the state and of the pointer keeps a view consistent when the
\* new state may follow the new pointer.
LEMMA MovedIs ==
  ASSUME NEW s, NEW o, IsOutcome(s, o), NEW w, NEW state \in States, NEW promoted,
         IsView(s, w), Moved(o.v, w, state, promoted),
         o.v.inProgress, o.v.leads \/ state \in {"detect_end", "update_config"},
         promoted \in DOMAIN o.v.slaves \cup {None},
         state \in Following \cup {"update_config"} => promoted \in DOMAIN o.v.slaves,
         state # "wait_start",
         \A r \in DOMAIN o.v.slaves : o.v.slaves[r].reconf \in {"sent", "inprog"}
            => state \in {"reconf_slaves", "detect_end", "update_config"}
  PROVE  IsOutcome(s, [o EXCEPT !.v = w]) /\ [o EXCEPT !.v = w].v = w /\ Step(o.v, w)
<1>1. Pointed(w)
  BY DEF Moved, Pointed
<1>2. Step(o.v, w)
  BY DEF Moved, Step
<1>3. QED
  BY <1>1, <1>2, ReplacedIs

\* sentinelFailoverWaitStart aborts, waits or goes on to select.
LEMMA WaitStartIs ==
  ASSUME NEW s, NEW o, IsOutcome(s, o), o.v.state = "wait_start", NEW age, NEW gone
  PROVE  Goes(s, o.v, WaitStart(s, o, age, gone))
<1> DEFINE w == [o.v EXCEPT !.state = "select_slave"]
<1>1. [o EXCEPT !.v.state = "select_slave"] = [o EXCEPT !.v = w]
  OBVIOUS
<1>2. Moved(o.v, w, "select_slave", o.v.promoted) /\ IsView(s, w)
  BY DEF IsOutcome, IsView, Moved, Fields, States
<1> HIDE DEF w
<1>3. /\ o.v.inProgress /\ o.v.leads /\ o.v.promoted \in DOMAIN o.v.slaves \cup {None}
      /\ \A r \in DOMAIN o.v.slaves : o.v.slaves[r].reconf \notin {"sent", "inprog"}
  BY DEF IsOutcome, Pointed
<1>4. Goes(s, o.v, [o EXCEPT !.v = w])
  BY <1>2, <1>3, MovedIs DEF Goes, States, Following
<1>5. Goes(s, o.v, o)
  BY DEF Goes, Step
<1>6. Goes(s, o.v, Abort(o, gone))
  BY AbortIs DEF Goes
<1>7. QED
  BY <1>1, <1>4, <1>5, <1>6 DEF WaitStart

\* sentinelFailoverSelectSlave points to a slave of the table, or aborts.
LEMMA SelectOrAbortIs ==
  ASSUME NEW s, NEW o, IsOutcome(s, o), o.v.state = "select_slave", NEW age, NEW gone
  PROVE  Goes(s, o.v, SelectOrAbort(s, o, gone))
<1> DEFINE r == SelectSlave(s, o.v, gone)
           w == [o.v EXCEPT !.promoted = r, !.state = "send_slaveof_noone"]
<1>1. r \in DOMAIN o.v.slaves \cup {None}
  BY SelectSlaveKnown DEF IsOutcome
<1>2. SelectOrAbort(s, o, gone) = IF r = None THEN Abort(o, gone) ELSE [o EXCEPT !.v = w]
  BY DEF SelectOrAbort
<1> HIDE DEF r
<1>3. Moved(o.v, w, "send_slaveof_noone", r) /\ IsView(s, w)
  BY DEF IsOutcome, IsView, Moved, Fields, States
<1> HIDE DEF w
<1>4. /\ o.v.inProgress /\ o.v.leads
      /\ \A q \in DOMAIN o.v.slaves : o.v.slaves[q].reconf \notin {"sent", "inprog"}
  BY DEF IsOutcome, Pointed
<1>5. ASSUME r # None
      PROVE  Goes(s, o.v, [o EXCEPT !.v = w])
  BY <1>1, <1>3, <1>4, <1>5, MovedIs DEF Goes, States, Following
<1>6. Goes(s, o.v, Abort(o, gone))
  BY AbortIs DEF Goes
<1>7. QED
  BY <1>2, <1>5, <1>6

\* sentinelFailoverSendSlaveOfNoOne sends to a slave that is still in the table.
LEMMA SendSlaveOfNoOneIs ==
  ASSUME NEW s, NEW o, IsOutcome(s, o), o.v.state = "send_slaveof_noone", NEW gone
  PROVE  Goes(s, o.v, SendSlaveOfNoOne(o, gone))
<1> DEFINE w == [o.v EXCEPT !.state = "wait_promotion"]
           p == [o EXCEPT !.v = w]
<1>1. SendSlaveOfNoOne(o, gone) = IF o.v.promoted \in gone THEN o ELSE Send(p, {o.v.promoted}, None)
  BY DEF SendSlaveOfNoOne
<1>2. Moved(o.v, w, "wait_promotion", o.v.promoted) /\ IsView(s, w)
  BY DEF IsOutcome, IsView, Moved, Fields, States
<1> HIDE DEF w
<1>3. /\ o.v.inProgress /\ o.v.leads /\ o.v.promoted \in DOMAIN o.v.slaves
      /\ \A r \in DOMAIN o.v.slaves : o.v.slaves[r].reconf \notin {"sent", "inprog"}
  BY DEF IsOutcome, Pointed, Following
<1>4. IsOutcome(s, p) /\ p.v = w /\ Step(o.v, w)
  BY <1>2, <1>3, MovedIs DEF States, Following
<1> HIDE DEF p
<1>5. Goes(s, o.v, Send(p, {o.v.promoted}, None))
  BY <1>4, SendIs DEF Goes, Masters
<1>6. Goes(s, o.v, o)
  BY DEF Goes, Step
<1>7. QED
  BY <1>1, <1>5, <1>6

\* sentinelFailoverWaitPromotion, on its time-out, forgets the slave and goes
\* back to the one state that needs none.
LEMMA WaitPromotionIs ==
  ASSUME NEW s, NEW o, IsOutcome(s, o), o.v.state = "wait_promotion", NEW age
  PROVE  Goes(s, o.v, WaitPromotion(o, age))
<1> DEFINE w == [o.v EXCEPT !.state = "select_slave", !.promoted = None]
<1>1. WaitPromotion(o, age) = IF age = "now" THEN o ELSE [o EXCEPT !.v = w]
  BY DEF WaitPromotion
<1>2. Moved(o.v, w, "select_slave", None) /\ IsView(s, w)
  BY DEF IsOutcome, IsView, Moved, Fields, States
<1> HIDE DEF w
<1>3. /\ o.v.inProgress /\ o.v.leads
      /\ \A r \in DOMAIN o.v.slaves : o.v.slaves[r].reconf \notin {"sent", "inprog"}
  BY DEF IsOutcome, Pointed
<1>4. Goes(s, o.v, [o EXCEPT !.v = w])
  BY <1>2, <1>3, MovedIs DEF Goes, States, Following
<1>5. Goes(s, o.v, o)
  BY DEF Goes, Step
<1>6. QED
  BY <1>1, <1>4, <1>5

\* The states after the promotion.
Late == {"reconf_slaves", "detect_end"}

\* w is v with the table t, in the given state.
Tabled(v, w, t, state) ==
  /\ w.state = state /\ w.slaves = t
  /\ w.addr = v.addr /\ w.peers = v.peers /\ w.promoted = v.promoted
  /\ w.inProgress = v.inProgress /\ w.leads = v.leads

\* After the promotion the table may change, and the switch be decided,
\* without the pointer being lost.
LEMMA TabledIs ==
  ASSUME NEW s, NEW o, IsOutcome(s, o), o.v.state \in Late,
         NEW t, IsTable(t), DOMAIN t = DOMAIN o.v.slaves, NEW state \in {o.v.state, "update_config"},
         NEW w, IsView(s, w), Tabled(o.v, w, t, state)
  PROVE  IsOutcome(s, [o EXCEPT !.v = w]) /\ [o EXCEPT !.v = w].v = w /\ Step(o.v, w)
<1>1. /\ o.v.inProgress /\ o.v.promoted \in DOMAIN o.v.slaves
      /\ o.v.leads \/ o.v.state = "detect_end"
  BY DEF IsOutcome, Pointed, Following, Late
<1>2. Pointed(w)
  BY <1>1 DEF Tabled, Pointed, Late
<1>3. Step(o.v, w)
  BY DEF Tabled, Step
<1>4. QED
  BY <1>2, <1>3, ReplacedIs

\* sentinelFailoverDetectEnd decides on the switch only with a promoted slave
\* in the table, and the best effort SLAVEOF names a server.
LEMMA DetectEndIs ==
  ASSUME NEW s, NEW o, IsOutcome(s, o), o.v.state \in Late, NEW age, NEW gone
  PROVE  Goes(s, o.v, DetectEnd(s, o, age, gone))
<1> DEFINE v       == o.v
           lagging == {r \in DOMAIN v.slaves \ {v.promoted} : v.slaves[r].reconf # "done" /\ ~Down(s, r)}
           timeout == age = "expired"
           best    == IF timeout /\ v.leads
                      THEN {r \in DOMAIN v.slaves \ gone : v.slaves[r].reconf \notin {"done", "sent"}} ELSE {}
           marked  == [r \in DOMAIN v.slaves |->
                         [v.slaves[r] EXCEPT !.reconf = IF r \in best THEN "sent" ELSE @]]
           w       == [v EXCEPT !.state = "update_config", !.slaves = marked]
           p       == [o EXCEPT !.v = w]
<1>1. DetectEnd(s, o, age, gone) =
        IF v.promoted = None \/ Down(s, v.promoted) \/ ~(lagging = {} \/ timeout) THEN o
        ELSE Send(p, best, v.promoted)
  BY DEF DetectEnd
<1> HIDE DEF lagging, timeout, best
<1>2. IsTable(marked) /\ DOMAIN marked = DOMAIN o.v.slaves
  BY DEF IsOutcome, IsView, IsTable, Entries
<1> HIDE DEF marked
<1>3. Tabled(o.v, w, marked, "update_config") /\ IsView(s, w)
  BY <1>2 DEF IsOutcome, IsView, Tabled, Fields, States
<1> HIDE DEF w
<1>4. IsOutcome(s, p) /\ p.v = w /\ Step(o.v, w)
  BY <1>2, <1>3, TabledIs
<1> HIDE DEF p
<1>5. v.promoted \in Masters
  BY DEF IsOutcome, IsView, IsTable, Pointed, Masters
<1>6. Goes(s, o.v, Send(p, best, v.promoted))
  BY <1>4, <1>5, SendIs DEF Goes
<1>7. Goes(s, o.v, o)
  BY DEF Goes, Step
<1>8. QED
  BY <1>1, <1>6, <1>7

\* sentinelFailoverReconfNextSlave marks slaves as told only while the
\* promoted slave is known.
LEMMA ReconfNextSlaveIs ==
  ASSUME NEW s, NEW o, IsOutcome(s, o), o.v.state = "reconf_slaves", NEW age, NEW gone
  PROVE  Goes(s, o.v, ReconfNextSlave(s, o, age, gone))
<1> DEFINE v     == o.v
           busy  == {r \in DOMAIN v.slaves : v.slaves[r].reconf \in {"sent", "inprog"}}
           free  == ParallelSyncs - Cardinality(busy)
           again == IF free > 0 /\ age # "now" THEN {r \in busy : v.slaves[r].reconf = "sent"} ELSE {}
           ready == {r \in DOMAIN v.slaves \ {v.promoted} :
                       v.slaves[r].reconf = "none" \/ r \in again} \ gone
           next  == {r \in ready : Cardinality({q \in ready : q < r}) < free}
           slaves == [r \in DOMAIN v.slaves |-> [v.slaves[r] EXCEPT
                        !.reconf = IF r \in next THEN "sent" ELSE IF r \in again THEN "none" ELSE @]]
           w     == [v EXCEPT !.slaves = slaves]
           p     == [o EXCEPT !.v = w]
           q     == Send(p, next, v.promoted)
<1>1. ReconfNextSlave(s, o, age, gone) = DetectEnd(s, Send([o EXCEPT !.v.slaves = slaves], next, v.promoted), age, gone)
  BY DEF ReconfNextSlave
<1> HIDE DEF next, again
<1>2. IsTable(slaves) /\ DOMAIN slaves = DOMAIN o.v.slaves
  BY DEF IsOutcome, IsView, IsTable, Entries
<1> HIDE DEF slaves
<1>3. [o EXCEPT !.v.slaves = slaves] = p
  OBVIOUS
<1>4. Tabled(o.v, w, slaves, o.v.state) /\ IsView(s, w)
  BY <1>2 DEF IsOutcome, IsView, Tabled, Fields, States
<1> HIDE DEF w
<1>5. IsOutcome(s, p) /\ p.v = w /\ Step(o.v, w) /\ w.state = o.v.state
  BY <1>2, <1>4, TabledIs DEF Late, Tabled
<1> HIDE DEF p
<1>6. v.promoted \in Masters
  BY DEF IsOutcome, IsView, IsTable, Pointed, Masters
<1>7. IsOutcome(s, q) /\ q.v = w
  BY <1>5, <1>6, SendIs
<1>8. ReconfNextSlave(s, o, age, gone) = DetectEnd(s, q, age, gone)
  BY <1>1, <1>3
<1> HIDE DEF q
<1>9. Goes(s, q.v, DetectEnd(s, q, age, gone))
  BY <1>5, <1>7, DetectEndIs DEF Late
<1>10. QED
  BY <1>5, <1>7, <1>8, <1>9 DEF Goes, Step

\* One step of sentinelFailoverStateMachine, in any state.
LEMMA StateMachineIs ==
  ASSUME NEW s, NEW o, IsOutcome(s, o), NEW age, NEW gone
  PROVE  Goes(s, o.v, StateMachine(s, o, age, gone))
<1>1. Goes(s, o.v, o)
  BY DEF Goes, Step
<1>2. QED
  BY <1>1, WaitStartIs, SelectOrAbortIs, SendSlaveOfNoOneIs, WaitPromotionIs, ReconfNextSlaveIs,
     DetectEndIs DEF StateMachine, Late

\* sentinelAbortFailoverIfNeeded after a step of the state machine.
LEMMA AbortIfNeededIs ==
  ASSUME NEW s, NEW v, NEW o, Goes(s, v, o), NEW age, NEW gone
  PROVE  Goes(s, v, AbortIfNeeded(s, o, age, gone))
<1>1. IsOutcome(s, Abort(o, gone)) /\ Step(o.v, Abort(o, gone).v)
  BY AbortIs DEF Goes
<1>2. QED
  BY <1>1 DEF AbortIfNeeded, Goes, Step

\* Whoever is said in w to find the master down was said so in v, of the same
\* master: a view never carries an opinion over to another master.
Trusts(v, w) ==
  \A p \in DOMAIN w.peers : w.peers[p].down =>
    w.addr = v.addr /\ p \in DOMAIN v.peers /\ v.peers[p].down

\* w is the view v after sentinelResetMaster for the master x.
Blank(s, v, w, x) ==
  /\ IsView(s, w) /\ Pointed(w) /\ Trusts(v, w)
  /\ w.addr = x /\ w.peers = <<>>
  /\ w.state = "none" /\ w.promoted = None /\ w.inProgress = FALSE /\ w.leads = FALSE

\* sentinelResetMaster leaves a consistent view without any opinions.
LEMMA ResetIs ==
  ASSUME NEW s, NEW v, IsView(s, v), NEW x \in Servers
  PROVE  Blank(s, v, Reset(v, x), x)
<1> DEFINE w == Reset(v, x)
<1>1. /\ w.state = "none" /\ w.promoted = None /\ w.inProgress = FALSE /\ w.addr = x /\ w.peers = <<>>
      /\ w.slaves = <<>> /\ w.leads = FALSE /\ Fields \subseteq DOMAIN w
  BY DEF Reset, IsView, Fields
<1> HIDE DEF w
<1>2. DOMAIN <<>> = {}
  OBVIOUS
<1>3. IsView(s, w)
  BY <1>1, <1>2 DEF IsView, IsTable, States
<1>4. Pointed(w)
  BY <1>1, <1>2 DEF Pointed, Following
<1>5. Trusts(v, w)
  BY <1>1, <1>2 DEF Trusts
<1>6. QED
  BY <1>1, <1>3, <1>4, <1>5 DEF Blank, w

\* sentinelFailoverSwitchToPromotedSlave: the promoted slave is a server, and
\* what was said of the old master is forgotten with it.
LEMMA SwitchIs ==
  ASSUME NEW s, NEW o, IsOutcome(s, o), o.v.state = "update_config"
  PROVE  LET p == SwitchToPromoted(o)
         IN  IsOutcome(s, p) /\ p.v.state = "none" /\ Trusts(o.v, p.v)
<1> DEFINE old == o.v.addr
           v   == Reset(o.v, o.v.promoted)
           t   == [r \in {old} |-> NewSlave(TRUE)]
           w   == [v EXCEPT !.slaves = t]
<1>1. SwitchToPromoted(o) = Quiet(w)
  BY DEF SwitchToPromoted
<1>2. o.v.promoted \in Servers /\ old \in Servers /\ IsView(s, o.v)
  BY DEF IsOutcome, IsView, IsTable, Pointed, Following
<1>3. IsTable(t) /\ \A r \in DOMAIN t : t[r].reconf = "none"
  BY <1>2 DEF IsTable, Entries, NewSlave, Unknown
<1>4. /\ IsView(s, v) /\ v.state = "none" /\ v.promoted = None /\ v.inProgress = FALSE
      /\ v.peers = <<>>
  <2>1. Blank(s, o.v, v, o.v.promoted)
    BY <1>2, ResetIs
  <2> HIDE DEF v
  <2>2. QED
    BY <2>1 DEF Blank
<1> HIDE DEF t, v
<1>5. IsView(s, w) /\ w.slaves = t /\ w.state = "none" /\ w.promoted = None /\ w.inProgress = FALSE /\ w.peers = <<>>
  BY <1>3, <1>4 DEF IsView, Fields
<1> HIDE DEF w
<1>6. Pointed(w)
  BY <1>3, <1>5 DEF Pointed, Following
<1>7. Trusts(o.v, w)
  BY <1>5 DEF Trusts
<1>8. QED
  BY <1>1, <1>5, <1>6, <1>7, QuietIs

\* Forgetting opinions that are too old adds none.
LEMMA AskOthersIs ==
  ASSUME NEW s, NEW v, IsView(s, v), Pointed(v), NEW age
  PROVE  LET w == AskOthers(s, v, age)
         IN  /\ IsView(s, w) /\ Pointed(w) /\ Trusts(v, w)
             /\ w.state = v.state /\ w.addr = v.addr /\ w.inProgress = v.inProgress /\ w.leads = v.leads
<1> DEFINE w == AskOthers(s, v, age)
           asking == Down(s, v.addr) \/ v.inProgress
           Old(p) == health[s][p] # "ok" \/ (age # "now" /\ ~asking)
           peers == [p \in DOMAIN v.peers |-> IF Old(p) THEN NewPeer ELSE v.peers[p]]
<1>1. w = [v EXCEPT !.peers = peers]
  BY DEF AskOthers
<1>2. \A p \in DOMAIN peers : p \in DOMAIN v.peers /\ (peers[p].down => v.peers[p].down)
  BY DEF NewPeer
<1>3. DOMAIN peers = DOMAIN v.peers
  OBVIOUS
<1> HIDE DEF peers, w
<1>4. /\ w.state = v.state /\ w.addr = v.addr /\ w.inProgress = v.inProgress /\ w.leads = v.leads
      /\ w.slaves = v.slaves /\ w.promoted = v.promoted /\ w.peers = peers /\ Fields \subseteq DOMAIN w
  BY <1>1 DEF IsView, Fields
<1>5. IsView(s, w)
  BY <1>3, <1>4 DEF IsView
<1>6. Pointed(w)
  BY <1>4 DEF Pointed
<1>7. Trusts(v, w)
  BY <1>2, <1>4 DEF Trusts
<1>8. QED
  BY <1>4, <1>5, <1>6, <1>7 DEF w

\* The whole run of the timer outside tilt mode: it never ends in
\* update_config, and it comes to wait_start only when a quorum said so.
LEMMA ActIs ==
  ASSUME NEW s, NEW v, IsView(s, v), Pointed(v), v.state # "update_config", NEW age, NEW gone
  PROVE  LET o == Act(s, v, age, gone)
         IN  /\ IsOutcome(s, o) /\ o.v.state # "update_config" /\ Trusts(v, o.v)
             /\ o.v.state = "wait_start" => v.state = "wait_start" \/ ObjectivelyDown(s, v)
<1> DEFINE v1 == [v EXCEPT !.tilt = FALSE, !.odown = ObjectivelyDown(s, v)]
           v2 == StartFailoverIfNeeded(s, v1, age, gone)
           o  == AbortIfNeeded(s, StateMachine(s, Quiet(v2), age, gone), age, gone)
<1>1. Act(s, v, age, gone) = IF o.v.state = "update_config" THEN SwitchToPromoted(o) ELSE o
  BY DEF Act
<1>2. /\ v1.state = v.state /\ v1.addr = v.addr /\ v1.inProgress = v.inProgress /\ v1.leads = v.leads
      /\ v1.slaves = v.slaves /\ v1.promoted = v.promoted /\ v1.peers = v.peers /\ Fields \subseteq DOMAIN v1
      /\ v1.odown = ObjectivelyDown(s, v)
  BY DEF IsView, Fields
<1> HIDE DEF v1
<1>3. IsView(s, v1)
  BY <1>2 DEF IsView
<1>4. Pointed(v1)
  BY <1>2 DEF Pointed
<1>5. /\ IsView(s, v2) /\ Pointed(v2) /\ v2.state # "update_config" /\ v2.addr = v.addr /\ v2.peers = v.peers
      /\ v2.state = "wait_start" => v.state = "wait_start" \/ ObjectivelyDown(s, v)
  BY <1>2, <1>3, <1>4, StartFailoverIs
<1> HIDE DEF v2
<1>6. IsOutcome(s, Quiet(v2)) /\ Quiet(v2).v = v2
  BY <1>5, QuietIs
<1>7. Goes(s, v2, StateMachine(s, Quiet(v2), age, gone))
  BY <1>6, StateMachineIs
<1>8. Goes(s, v2, o)
  BY <1>7, AbortIfNeededIs
<1> HIDE DEF o
<1>9. /\ IsOutcome(s, o) /\ o.v.addr = v.addr /\ o.v.peers = v.peers
      /\ o.v.state = "wait_start" => v.state = "wait_start" \/ ObjectivelyDown(s, v)
  BY <1>5, <1>8 DEF Goes, Step
<1>10. CASE o.v.state = "update_config"
  <2>1. LET p == SwitchToPromoted(o) IN IsOutcome(s, p) /\ p.v.state = "none" /\ Trusts(o.v, p.v)
    BY <1>9, <1>10, SwitchIs
  <2>2. Trusts(v, SwitchToPromoted(o).v)
    BY <1>9, <2>1 DEF Trusts
  <2>3. QED
    BY <1>1, <1>10, <2>1, <2>2
<1>11. CASE o.v.state # "update_config"
  <2>1. Trusts(v, o.v)
    BY <1>9 DEF Trusts
  <2>2. QED
    BY <1>1, <1>9, <1>11, <2>1
<1>12. QED
  BY <1>10, <1>11

\* The run of the timer on the sentinel's own view, tilt mode included.
LEMMA AfterTimerIs ==
  ASSUME NEW s, IsView(s, view[s]), Pointed(view[s]), view[s].state # "update_config", NEW age, NEW gone
  PROVE  LET o == AfterTimer(s, age, gone)
             v == AskOthers(s, view[s], age)
         IN  /\ IsOutcome(s, o) /\ o.v.state # "update_config" /\ Trusts(view[s], o.v)
             /\ o.v.state = "wait_start" => view[s].state = "wait_start" \/ ObjectivelyDown(s, v)
             /\ v.addr = view[s].addr /\ Trusts(view[s], v) /\ IsView(s, v)
<1> DEFINE v == AskOthers(s, view[s], age)
<1>1. AfterTimer(s, age, gone) = IF v.tilt /\ age = "now" THEN Quiet(v) ELSE Act(s, v, age, gone)
  BY DEF AfterTimer
<1>2. IsView(s, v) /\ Pointed(v) /\ Trusts(view[s], v) /\ v.state = view[s].state /\ v.addr = view[s].addr
  BY AskOthersIs
<1>3. IsOutcome(s, Quiet(v)) /\ Quiet(v).v = v
  BY <1>2, QuietIs
<1> HIDE DEF v
<1>4. LET o == Act(s, v, age, gone)
      IN  /\ IsOutcome(s, o) /\ o.v.state # "update_config" /\ Trusts(v, o.v)
          /\ o.v.state = "wait_start" => v.state = "wait_start" \/ ObjectivelyDown(s, v)
  BY <1>2, ActIs
<1>5. Trusts(view[s], Act(s, v, age, gone).v)
  BY <1>2, <1>4 DEF Trusts
<1>6. CASE v.tilt /\ age = "now"
  BY <1>1, <1>2, <1>3, <1>6 DEF v
<1>7. CASE ~(v.tilt /\ age = "now")
  BY <1>1, <1>2, <1>4, <1>5, <1>7 DEF v
<1>8. QED
  BY <1>6, <1>7

\* An INFO reply as a server writes it.
IsInfo(m) ==
  /\ m.from \in Servers /\ m.run \in Nat /\ m.slaves \subseteq Servers
  /\ m.role = "slave" => m.master \in Servers

\* What processing an INFO reply may make of a view: the master changes only
\* when it says itself that it is a slave, and no failover starts.
Refreshes(s, v, m, o) ==
  /\ IsOutcome(s, o) /\ o.v.state # "update_config" /\ Trusts(v, o.v)
  /\ o.v.addr = v.addr \/ (m.from = v.addr /\ m.role = "slave")
  /\ o.v.state = "wait_start" => v.state = "wait_start"

\* w is v with the table t and nothing else of importance changed.
Kept(s, v, w, t) == IsView(s, w) /\ Pointed(w) /\ Tabled(v, w, t, v.state) /\ Step(v, w)

\* A table may grow, and entries may stop being reconfigured, in any state.
LEMMA RetabledIs ==
  ASSUME NEW s, NEW v, IsView(s, v), Pointed(v),
         NEW t, IsTable(t), DOMAIN v.slaves \subseteq DOMAIN t,
         \A r \in DOMAIN t : t[r].reconf \in {"sent", "inprog"} =>
            r \in DOMAIN v.slaves /\ v.slaves[r].reconf \in {"sent", "inprog"},
         NEW w, IsView(s, w), Tabled(v, w, t, v.state)
  PROVE  Kept(s, v, w, t)
<1>1. Step(v, w)
  BY DEF Tabled, Step
<1>2. Pointed(w)
  BY DEF Tabled, Pointed
<1>3. QED
  BY <1>1, <1>2 DEF Kept

\* A step that stays with its master is an allowed effect of an INFO reply.
LEMMA SameIsRefreshed ==
  ASSUME NEW s, NEW v, NEW m, NEW o, IsOutcome(s, o), Step(v, o.v), o.v.state # "update_config"
  PROVE  Refreshes(s, v, m, o)
BY DEF Refreshes, Step, Trusts

\* Observing a failover points at a slave of the table, whether or not a
\* failover of one's own was just aborted.
LEMMA ObserveIs ==
  ASSUME NEW s, NEW o, IsOutcome(s, o), NEW x \in DOMAIN o.v.slaves
  PROVE  IsOutcome(s, Observe(o, x)) /\ Step(o.v, Observe(o, x).v) /\ Observe(o, x).v.state = "detect_end"
<1> DEFINE v == o.v
           t == [r \in DOMAIN v.slaves |->
                   [v.slaves[r] EXCEPT !.reconf = "sent", !.demote = IF r = x THEN FALSE ELSE @]]
           w == [v EXCEPT !.inProgress = TRUE, !.state = "detect_end", !.promoted = x, !.slaves = t]
<1>1. Observe(o, x) = [o EXCEPT !.v = w]
  BY DEF Observe
<1>2. IsTable(t) /\ DOMAIN t = DOMAIN v.slaves
  BY DEF IsOutcome, IsView, IsTable, Entries
<1> HIDE DEF t
<1>3. /\ w.slaves = t /\ w.state = "detect_end" /\ w.promoted = x /\ w.inProgress = TRUE
      /\ w.addr = v.addr /\ w.peers = v.peers /\ IsView(s, w)
  BY <1>2 DEF IsOutcome, IsView, Fields, States
<1> HIDE DEF w
<1>4. Pointed(w)
  BY <1>2, <1>3 DEF Pointed
<1>5. Step(v, w)
  BY <1>3 DEF Step
<1>6. QED
  BY <1>1, <1>3, <1>4, <1>5, ReplacedIs

\* An INFO reply of the master: new slaves, or another master.
LEMMA MasterSaysIs ==
  ASSUME NEW s, NEW v, IsView(s, v), Pointed(v), v.state # "update_config",
         NEW m, IsInfo(m), m.from = v.addr
  PROVE  Refreshes(s, v, m, Quiet(MasterSays(v, m)))
<1> DEFINE fresh == [v EXCEPT !.fresh = TRUE]
           known == DOMAIN v.slaves \cup m.slaves
           t == [r \in known |-> IF r \in DOMAIN v.slaves THEN v.slaves[r] ELSE NewSlave(FALSE)]
           w == [v EXCEPT !.fresh = TRUE, !.slaves = t]
<1>1. MasterSays(v, m) = IF m.role = "slave" THEN Reset(fresh, m.master) ELSE w
  BY DEF MasterSays
<1>2. IsView(s, fresh) /\ fresh.addr = v.addr /\ fresh.peers = v.peers
  BY DEF IsView, Fields
<1>3. IsTable(t)
  BY DEF IsView, IsTable, Entries, NewSlave, Unknown, IsInfo
<1>4. /\ DOMAIN v.slaves \subseteq DOMAIN t
      /\ \A r \in DOMAIN t : t[r].reconf \in {"sent", "inprog"} =>
            r \in DOMAIN v.slaves /\ v.slaves[r].reconf \in {"sent", "inprog"}
  BY DEF NewSlave
<1> HIDE DEF fresh, t
<1>5. CASE m.role = "slave"
  <2>1. Blank(s, fresh, Reset(fresh, m.master), m.master)
    BY <1>2, <1>5, ResetIs DEF IsInfo
  <2>2. MasterSays(v, m) = Reset(fresh, m.master)
    BY <1>1, <1>5
  <2> DEFINE r == Reset(fresh, m.master)
  <2> HIDE DEF r
  <2>3. IsView(s, r) /\ Pointed(r) /\ Trusts(v, r) /\ r.state = "none"
    BY <1>2, <2>1 DEF Blank, Trusts, r
  <2>4. IsOutcome(s, Quiet(r)) /\ Quiet(r).v = r
    BY <2>3, QuietIs
  <2>5. QED
    BY <1>5, <2>2, <2>3, <2>4 DEF Refreshes, r
<1>6. CASE m.role # "slave"
  <2>1. Tabled(v, w, t, v.state) /\ IsView(s, w)
    BY <1>3 DEF IsView, Fields, Tabled
  <2>2. MasterSays(v, m) = w
    BY <1>1, <1>6
  <2> HIDE DEF w
  <2>3. Kept(s, v, w, t)
    BY <1>3, <1>4, <2>1, RetabledIs
  <2>4. IsOutcome(s, Quiet(w)) /\ Quiet(w).v = w
    BY <2>3, QuietIs DEF Kept
  <2>5. QED
    BY <2>2, <2>3, <2>4, SameIsRefreshed DEF Kept, Tabled
<1>7. QED
  BY <1>5, <1>6

\* An INFO reply of a slave that is a slave: its reconfiguration advances, and
\* never starts.
LEMMA SlaveSaysSlaveIs ==
  ASSUME NEW s, NEW v, IsView(s, v), Pointed(v), v.state # "update_config",
         NEW m, IsInfo(m), m.from \in DOMAIN v.slaves
  PROVE  Refreshes(s, v, m, Quiet(SlaveSaysSlave(v, m)))
<1> DEFINE x == m.from
           t == [v.slaves EXCEPT ![x].seen = m.run]
           w == [v EXCEPT !.slaves = t]
           e == t[x]
           step == IF e.reconf = "sent" /\ m.master = w.promoted THEN "inprog" ELSE e.reconf
           last == IF step = "inprog" /\ m.link THEN "done" ELSE step
           u == [t EXCEPT ![x] = [e EXCEPT !.reconf = last, !.demote = FALSE]]
           w2 == [w EXCEPT !.slaves = u]
<1>1. [v EXCEPT !.slaves[m.from].seen = m.run] = w
  OBVIOUS
<1>2. IsTable(t) /\ DOMAIN t = DOMAIN v.slaves /\ \A r \in DOMAIN t : t[r].reconf = v.slaves[r].reconf
  BY DEF IsView, IsTable, Entries, IsInfo
<1> HIDE DEF t
<1>3. Tabled(v, w, t, v.state) /\ IsView(s, w)
  BY <1>2 DEF IsView, Fields, Tabled
<1>4. SlaveSaysSlave(v, m) = IF v.tilt THEN w ELSE Reconfigured(w, m)
  BY <1>1 DEF SlaveSaysSlave
<1> HIDE DEF w
<1>5. w.slaves = t
  BY <1>3 DEF Tabled
<1>6. Reconfigured(w, m) = w2
  BY <1>5 DEF Reconfigured
<1>7. e \in Entries /\ x \in DOMAIN t
  BY <1>2 DEF IsTable
<1>8. /\ last \in {"none", "sent", "inprog", "done"}
      /\ last \in {"sent", "inprog"} => e.reconf \in {"sent", "inprog"}
  BY <1>7 DEF Entries
<1> HIDE DEF last, e
<1>9. [e EXCEPT !.reconf = last, !.demote = FALSE] \in Entries
      /\ [e EXCEPT !.reconf = last, !.demote = FALSE].reconf = last
  BY <1>7, <1>8 DEF Entries
<1>10. /\ IsTable(u) /\ DOMAIN u = DOMAIN v.slaves
       /\ \A r \in DOMAIN u : u[r].reconf \in {"sent", "inprog"} =>
            r \in DOMAIN v.slaves /\ v.slaves[r].reconf \in {"sent", "inprog"}
  BY <1>2, <1>7, <1>8, <1>9 DEF IsTable, e
<1> HIDE DEF u
<1>11. Kept(s, v, w, t)
  BY <1>2, <1>3, RetabledIs
<1>12. Tabled(v, w2, u, v.state) /\ IsView(s, w2)
  BY <1>3, <1>10 DEF IsView, Fields, Tabled
<1> HIDE DEF w2
<1>13. Kept(s, v, w2, u)
  BY <1>10, <1>12, RetabledIs
<1> DEFINE z == SlaveSaysSlave(v, m)
<1>14. z \in {w, w2}
  BY <1>4, <1>6
<1> HIDE DEF z
<1>15. IsView(s, z) /\ Pointed(z) /\ Step(v, z) /\ z.state = v.state
  BY <1>11, <1>13, <1>14 DEF Kept, Tabled
<1>16. IsOutcome(s, Quiet(z)) /\ Quiet(z).v = z
  BY <1>15, QuietIs
<1>17. QED
  BY <1>15, <1>16, SameIsRefreshed DEF z

\* An INFO reply of a slave that is a master, in each of the cases of
\* sentinelRefreshInstanceInfo: an old master that returns, a restarted slave
\* that is dropped, the promotion that was waited for, and a failover of
\* somebody else.  A dropped slave is never the promoted one.
LEMMA SlaveSaysMasterIs ==
  ASSUME NEW s, NEW v, IsView(s, v), Pointed(v), v.state # "update_config",
         NEW m, IsInfo(m), m.from \in DOMAIN v.slaves, NEW long
  PROVE  Refreshes(s, v, m, SlaveSaysMaster(s, v, m, long))
<1> DEFINE x == m.from
           t == [v.slaves EXCEPT ![x].seen = m.run]
           w == [v EXCEPT !.slaves = t]
           o == Quiet(w)
           u == [t EXCEPT ![x].demote = FALSE]
           w2 == [w EXCEPT !.slaves = u]
           fewer == [r \in DOMAIN v.slaves \ {x} |-> v.slaves[r]]
           w3 == [v EXCEPT !.slaves = fewer]
           w4 == [w EXCEPT !.state = "reconf_slaves"]
           z == SlaveSaysMaster(s, v, m, long)
<1>1. /\ [v EXCEPT !.slaves[x].seen = m.run] = w
      /\ [v EXCEPT !.slaves = [r \in DOMAIN @ \ {x} |-> @[r]]] = w3
  OBVIOUS
<1>2. /\ IsTable(t) /\ DOMAIN t = DOMAIN v.slaves /\ \A r \in DOMAIN t : t[r].reconf = v.slaves[r].reconf
      /\ IsTable(fewer)
  BY DEF IsView, IsTable, Entries, IsInfo
<1>3. DOMAIN fewer = DOMAIN v.slaves \ {x} /\ \A r \in DOMAIN fewer : fewer[r] = v.slaves[r]
  OBVIOUS
<1> HIDE DEF t, fewer
<1>4. Tabled(v, w, t, v.state) /\ IsView(s, w)
  BY <1>2 DEF IsView, Fields, Tabled
<1>5. Tabled(v, w3, fewer, v.state) /\ IsView(s, w3)
  BY <1>2 DEF IsView, Fields, Tabled
<1> HIDE DEF w, w3
<1>6. w.slaves = t
  BY <1>4 DEF Tabled
<1>7. [w EXCEPT !.slaves[x].demote = FALSE] = w2
  BY <1>6
<1>8. IsTable(u) /\ DOMAIN u = DOMAIN v.slaves /\ \A r \in DOMAIN u : u[r].reconf = v.slaves[r].reconf
  BY <1>2 DEF IsTable, Entries
<1> HIDE DEF u
<1>9. Tabled(v, w2, u, v.state) /\ IsView(s, w2)
  BY <1>4, <1>8 DEF IsView, Fields, Tabled
<1>10. Moved(w, w4, "reconf_slaves", w.promoted) /\ IsView(s, w4)
  BY <1>4 DEF IsView, Moved, Fields, States
<1> HIDE DEF w2, w4
<1>11. Kept(s, v, w, t)
  BY <1>2, <1>4, RetabledIs
<1>12. Kept(s, v, w2, u)
  BY <1>8, <1>9, RetabledIs
<1>13. IsOutcome(s, o) /\ o.v = w
  BY <1>11, QuietIs DEF Kept
<1>14. Refreshes(s, v, m, o)
  BY <1>11, <1>13, SameIsRefreshed DEF Kept, Tabled
<1>15. Refreshes(s, v, m, Quiet(w2))
  <2>1. IsOutcome(s, Quiet(w2)) /\ Quiet(w2).v = w2
    BY <1>12, QuietIs DEF Kept
  <2>2. QED
    BY <1>12, <2>1, SameIsRefreshed DEF Kept, Tabled
<1>16. Refreshes(s, v, m, Send(o, {x}, v.addr))
  <2>1. IsOutcome(s, Send(o, {x}, v.addr)) /\ Send(o, {x}, v.addr).v = w
    BY <1>13, SendIs DEF IsView, Masters
  <2>2. QED
    BY <1>11, <2>1, SameIsRefreshed DEF Kept, Tabled
<1>17. ASSUME ~v.inProgress
       PROVE  Refreshes(s, v, m, Quiet(w3))
  <2>1. v.state = "none" /\ v.promoted = None
    BY <1>17 DEF Pointed
  <2>2. Pointed(w3)
    BY <1>3, <1>5, <1>17, <2>1 DEF Pointed, Tabled, Following
  <2>3. IsOutcome(s, Quiet(w3)) /\ Quiet(w3).v = w3
    BY <1>5, <2>2, QuietIs
  <2>4. Step(v, w3) /\ w3.state = "none"
    BY <1>5, <2>1 DEF Tabled, Step
  <2>5. QED
    BY <2>3, <2>4, SameIsRefreshed
<1>18. ASSUME v.inProgress, v.leads, v.state = "wait_promotion"
       PROVE  Refreshes(s, v, m, [o EXCEPT !.v.state = "reconf_slaves"])
  <2>1. [o EXCEPT !.v.state = "reconf_slaves"] = [o EXCEPT !.v = w4]
    BY <1>13 DEF w4
  <2>2. w.promoted \in DOMAIN w.slaves /\ w.inProgress /\ w.leads
    BY <1>11, <1>18 DEF Kept, Pointed, Tabled, Following
  <2>3. w4.state = "reconf_slaves" /\ Pointed(w4)
    BY <1>10, <2>2 DEF Moved, Pointed
  <2>4. IsOutcome(s, [o EXCEPT !.v = w4]) /\ [o EXCEPT !.v = w4].v = w4
    BY <1>10, <1>13, <2>3, ReplacedIs
  <2>5. Step(v, w4)
    BY <1>4, <1>10, <2>3 DEF Moved, Tabled, Step
  <2>6. QED
    BY <2>1, <2>3, <2>4, <2>5, SameIsRefreshed
<1>19. Refreshes(s, v, m, Observe(o, x))
  <2>1. x \in DOMAIN o.v.slaves
    BY <1>2, <1>6, <1>13
  <2>2. IsOutcome(s, Observe(o, x)) /\ Step(w, Observe(o, x).v) /\ Observe(o, x).v.state = "detect_end"
    BY <1>13, <2>1, ObserveIs
  <2>3. Step(v, Observe(o, x).v)
    BY <1>11, <2>2 DEF Kept, Step
  <2>4. QED
    BY <2>2, <2>3, SameIsRefreshed
<1>20. Refreshes(s, v, m, Observe(Abort(o, {}), x))
  <2> DEFINE a == Abort(o, {})
  <2>1. IsOutcome(s, a) /\ Step(w, a.v) /\ x \in DOMAIN a.v.slaves
    BY <1>2, <1>6, <1>13, AbortIs
  <2> HIDE DEF a
  <2>2. IsOutcome(s, Observe(a, x)) /\ Step(a.v, Observe(a, x).v) /\ Observe(a, x).v.state = "detect_end"
    BY <2>1, ObserveIs
  <2>3. Step(v, Observe(a, x).v)
    BY <1>11, <2>1, <2>2 DEF Kept, Step
  <2>4. QED
    BY <2>2, <2>3, SameIsRefreshed DEF a
<1>21. \/ z \in {o, Quiet(w2), Send(o, {x}, v.addr), Observe(o, x), Observe(Abort(o, {}), x)}
       \/ ~v.inProgress /\ z = Quiet(w3)
       \/ v.inProgress /\ v.leads /\ v.state = "wait_promotion" /\ z = [o EXCEPT !.v.state = "reconf_slaves"]
  BY <1>1, <1>7 DEF SlaveSaysMaster
<1> HIDE DEF z, o
<1>22. QED
  BY <1>14, <1>15, <1>16, <1>17, <1>18, <1>19, <1>20, <1>21 DEF z

\* Any INFO reply, of any instance, in any state.
LEMMA RefreshedIs ==
  ASSUME NEW s, NEW v, IsView(s, v), Pointed(v), v.state # "update_config",
         NEW m, IsInfo(m), NEW long
  PROVE  Refreshes(s, v, m, Refreshed(s, v, m, long))
<1>1. Refreshes(s, v, m, Quiet(v))
  BY QuietIs, SameIsRefreshed DEF Step
<1>2. QED
  BY <1>1, MasterSaysIs, SlaveSaysMasterIs, SlaveSaysSlaveIs DEF Refreshed

------------------------------------------------------------------------------
\* The servers.
ProcessesOK ==
  /\ up \subseteq Sentinels \cup Servers
  /\ of \in [Servers -> Masters]
  /\ run \in [Servers -> Nat]

\* Commands in transit name servers or nothing.
OrdersOK == orders \in [Sentinels -> [Servers -> Seq(Masters)]]

\* The age of answers.
HealthOK == health \in [Sentinels -> [Sentinels \cup Servers -> {"ok", "late", "down"}]]

\* Between two events every view is consistent and no switch is left undone.
ViewsOK ==
  /\ DOMAIN view = Sentinels
  /\ \A s \in Sentinels : IsView(s, view[s]) /\ Pointed(view[s]) /\ view[s].state # "update_config"

\* Replies in transit go to sentinels, and tell what a server can tell.
RepliesOK == \A m \in replies : m.to \in Sentinels /\ (m.kind = "info" => IsInfo(m))

\* Those who ever suspected a server are finitely many sentinels.
SuspectsOK == suspects \in [Servers -> SUBSET Sentinels] /\ \A x \in Servers : IsFiniteSet(suspects[x])

\* A sentinel that has a server flagged down is one of those who suspected it.
OwnDown == \A s \in Sentinels, x \in Servers : Down(s, x) => s \in suspects[x]

\* So is everyone recorded as finding the present master down.
PeersDown ==
  \A s \in Sentinels : \A p \in DOMAIN view[s].peers : view[s].peers[p].down => p \in suspects[view[s].addr]

\* So is everyone who says so in an answer still in transit: the answer says
\* nothing of which master it is about, so the switch has to drop it.
RepliesDown ==
  \A m \in replies : m.kind = "down" /\ m.down => m.from \in suspects[view[m.to].addr]

\* The inductive invariant.  PromotedIsKnown alone is not inductive (it does
\* not exclude waiting for a promotion in a view that forgot the slave), and
\* the quorum says nothing without where the opinions came from.
IInv ==
  /\ ProcessesOK /\ OrdersOK /\ HealthOK /\ ViewsOK /\ RepliesOK
  /\ SuspectsOK /\ OwnDown /\ PeersDown /\ RepliesDown

\* A sentinel comes to wait_start by an administrator's command or on a
\* quorum of what it believes and was told.
Starts ==
  \A s \in Sentinels : view'[s].state = "wait_start" =>
    \/ view[s].state = "wait_start"
    \/ view'[s].forced
    \/ \E age \in Ages : ObjectivelyDown(s, AskOthers(s, view[s], age))

\* A step that replaces the view of one sentinel by a consistent one that
\* trusts nobody new, and drops its replies when its master changes.
LEMMA ViewChanges ==
  ASSUME IInv, NEW s \in Sentinels, NEW w, IsView(s, w), Pointed(w), w.state # "update_config",
         Trusts(view[s], w), view' = [view EXCEPT ![s] = w],
         UNCHANGED suspects, replies' \subseteq replies,
         w.addr = view[s].addr \/ \A m \in replies' : m.to # s
  PROVE  ViewsOK' /\ RepliesOK' /\ SuspectsOK' /\ PeersDown' /\ RepliesDown'
<1>1. ViewsOK'
  BY DEF IInv, ViewsOK
<1>2. RepliesOK' /\ SuspectsOK'
  BY DEF IInv, RepliesOK, SuspectsOK
<1>3. view'[s] = w /\ \A p \in Sentinels \ {s} : view'[p] = view[p]
  BY DEF IInv, ViewsOK
<1>4. PeersDown'
  BY <1>3 DEF IInv, PeersDown, Trusts
<1>5. RepliesDown'
  BY <1>3 DEF IInv, RepliesDown, RepliesOK
<1>6. QED
  BY <1>1, <1>2, <1>4, <1>5

\* A step that changes no view and suspects nobody.
LEMMA ViewKept ==
  ASSUME IInv, UNCHANGED <<view, suspects>>, replies' \subseteq replies
  PROVE  ViewsOK' /\ RepliesOK' /\ SuspectsOK' /\ PeersDown' /\ RepliesDown' /\ Starts
<1>1. ViewsOK' /\ RepliesOK' /\ SuspectsOK' /\ Starts
  BY DEF IInv, ViewsOK, RepliesOK, SuspectsOK, Starts
<1>2. PeersDown' /\ RepliesDown'
  BY DEF IInv, PeersDown, RepliesDown
<1>3. QED
  BY <1>1, <1>2

\* Links that are kept, or replaced by new ones, make nobody suspected.
LEMMA HealthKept ==
  ASSUME IInv, NEW s \in Sentinels, UNCHANGED suspects, health' \in {health, [health EXCEPT ![s] = AllWell]}
  PROVE  HealthOK' /\ OwnDown'
<1>1. AllWell \in [Sentinels \cup Servers -> {"ok", "late", "down"}] /\ \A x \in Servers : AllWell[x] # "down"
  BY DEF AllWell
<1> USE DEF IInv, HealthOK, OwnDown, Down
<1>2. CASE health' = health
  BY <1>2
<1>3. CASE health' = [health EXCEPT ![s] = AllWell]
  BY <1>1, <1>3
<1>4. QED
  BY <1>2, <1>3

\* Commands are queued behind those in transit.
LEMMA PostIs ==
  ASSUME OrdersOK, NEW s \in Sentinels, NEW cmd \in [Servers -> Seq(Masters)], Post(s, cmd)
  PROVE  OrdersOK'
<1> DEFINE sent == Deliverable(s, cmd)
           queue == [r \in Servers |->
                       IF IsSuffix(sent[r], orders[s][r]) THEN orders[s][r] ELSE orders[s][r] \o sent[r]]
<1>1. orders' = [orders EXCEPT ![s] = queue]
  BY DEF Post
<1>2. \A r \in Servers : sent[r] \in Seq(Masters) /\ orders[s][r] \in Seq(Masters)
  BY DEF Deliverable, OrdersOK
<1> HIDE DEF sent
<1>3. queue \in [Servers -> Seq(Masters)]
  BY <1>2
<1> HIDE DEF queue
<1>4. QED
  BY <1>1, <1>3 DEF OrdersOK

\* A run of a sentinel's timer.
LEMMA TimerStep ==
  ASSUME IInv, NEW s \in Sentinels, TimerRuns(s, Elapsed(s)) \/ TimesOutEarly(s)
  PROVE  IInv' /\ Starts
<1>1. PICK age \in Ages, gone \in {{}, {x \in Watched(s) : ~Reach(s, x)}} : Timer(s, age, gone)
  BY DEF TimerRuns, TimesOutEarly, Elapsed, Ages
<1>2. age \in Ages
  BY <1>1
<1> DEFINE o == AfterTimer(s, age, gone)
<1>3. /\ view' = [view EXCEPT ![s] = o.v] /\ Post(s, o.cmd) /\ Relink(s, o.v.addr # view[s].addr)
      /\ UNCHANGED <<up, of, run, suspects>>
  BY <1>1 DEF Timer, TimerRuns, TimesOutEarly
<1>4. /\ IsOutcome(s, o) /\ o.v.state # "update_config" /\ Trusts(view[s], o.v)
      /\ o.v.state = "wait_start" =>
           view[s].state = "wait_start" \/ ObjectivelyDown(s, AskOthers(s, view[s], age))
  BY AfterTimerIs DEF IInv, ViewsOK
<1> HIDE DEF o
<1>5. /\ replies' \subseteq replies /\ health' \in {health, [health EXCEPT ![s] = AllWell]}
      /\ o.v.addr = view[s].addr \/ \A m \in replies' : m.to # s
  BY <1>3 DEF Relink
<1>6. ViewsOK' /\ RepliesOK' /\ SuspectsOK' /\ PeersDown' /\ RepliesDown'
  BY <1>3, <1>4, <1>5, ViewChanges DEF IsOutcome
<1>7. HealthOK' /\ OwnDown'
  BY <1>3, <1>5, HealthKept
<1>8. OrdersOK'
  BY <1>3, <1>4, PostIs DEF IInv, IsOutcome
<1>9. ProcessesOK'
  BY <1>3 DEF IInv, ProcessesOK
<1>10. Starts
  BY <1>2, <1>3, <1>4 DEF IInv, ViewsOK, Starts
<1>11. QED
  BY <1>6, <1>7, <1>8, <1>9, <1>10 DEF IInv

\* An INFO reply is processed.
LEMMA RefreshStep ==
  ASSUME IInv, NEW m, m.to \in Sentinels, IsInfo(m), NEW long, RefreshInstanceInfo(m, long)
  PROVE  IInv' /\ Starts
<1> DEFINE s == m.to
           o == Refreshed(s, view[s], m, long)
           reset == m.from = view[s].addr /\ m.role = "slave"
<1>1. /\ view' = [view EXCEPT ![s] = o.v] /\ Post(s, o.cmd) /\ UNCHANGED <<up, of, run, suspects>>
      /\ replies' = {n \in replies : n # m /\ (reset => n.to # s)}
      /\ health' = IF reset THEN [health EXCEPT ![s] = AllWell] ELSE health
  BY DEF RefreshInstanceInfo
<1>2. Refreshes(s, view[s], m, o)
  BY RefreshedIs DEF IInv, ViewsOK
<1> HIDE DEF o
<1>3. /\ replies' \subseteq replies /\ health' \in {health, [health EXCEPT ![s] = AllWell]}
      /\ o.v.addr = view[s].addr \/ \A n \in replies' : n.to # s
  BY <1>1, <1>2 DEF Refreshes
<1>4. ViewsOK' /\ RepliesOK' /\ SuspectsOK' /\ PeersDown' /\ RepliesDown'
  BY <1>1, <1>2, <1>3, ViewChanges DEF IsOutcome, Refreshes
<1>5. HealthOK' /\ OwnDown'
  BY <1>1, <1>3, HealthKept
<1>6. OrdersOK'
  BY <1>1, <1>2, PostIs DEF IInv, IsOutcome, Refreshes
<1>7. ProcessesOK'
  BY <1>1 DEF IInv, ProcessesOK
<1>8. Starts
  BY <1>1, <1>2 DEF IInv, ViewsOK, Starts, Refreshes
<1>9. QED
  BY <1>4, <1>5, <1>6, <1>7, <1>8 DEF IInv

\* What a server answers to INFO is an INFO reply.
LEMMA InfoOfIs ==
  ASSUME IInv, NEW s \in Sentinels, NEW x \in Servers, NEW link
  PROVE  LET m == InfoOf(s, x, link) IN IsInfo(m) /\ m.to = s /\ m.from = x /\ m.kind = "info"
BY DEF InfoOf, IsInfo, IInv, ProcessesOK, Masters

\* Who answers that the asked master is down has suspected it.
LEMMA IsMasterDownIs ==
  ASSUME IInv, NEW s \in Sentinels, NEW p \in Sentinels
  PROVE  LET m == IsMasterDown(s, p)
         IN  /\ m.to = s /\ m.from = p /\ m.kind = "down"
             /\ m.down => p \in suspects[view[s].addr]
<1> DEFINE m == IsMasterDown(s, p)
<1>1. m.to = s /\ m.from = p /\ m.kind = "down"
  BY DEF IsMasterDown
<1>2. m.down => view[p].addr = view[s].addr /\ Down(p, view[p].addr)
  BY DEF IsMasterDown
<1> HIDE DEF m
<1>3. view[p].addr \in Servers
  BY DEF IInv, ViewsOK, IsView
<1>4. QED
  BY <1>1, <1>2, <1>3 DEF IInv, OwnDown, m

\* An answer of another sentinel is recorded.
LEMMA ReceiveStep ==
  ASSUME IInv, NEW m, m.to \in Sentinels, m.down => m.from \in suspects[view[m.to].addr],
         ReceiveIsMasterDownReply(m)
  PROVE  IInv' /\ Starts
<1> DEFINE s == m.to
           v == view[s]
           peers == [v.peers EXCEPT ![m.from] = [down |-> m.down, vote |-> m.vote]]
           w == [v EXCEPT !.peers = peers]
<1>1. /\ view' = [view EXCEPT ![s] = w]
      /\ replies' \subseteq replies /\ UNCHANGED <<up, of, run, orders, health, suspects>>
  BY DEF ReceiveIsMasterDownReply
<1>2. DOMAIN peers = DOMAIN v.peers
      /\ \A p \in DOMAIN peers : peers[p].down => v.peers[p].down \/ (p = m.from /\ m.down)
  OBVIOUS
<1>3. IsView(s, v) /\ Pointed(v) /\ v.state # "update_config" /\ s \in Sentinels
  BY DEF IInv, ViewsOK
<1> HIDE DEF peers
<1>4. /\ w.addr = v.addr /\ w.state = v.state /\ w.promoted = v.promoted /\ w.slaves = v.slaves
      /\ w.inProgress = v.inProgress /\ w.leads = v.leads /\ w.peers = peers /\ Fields \subseteq DOMAIN w
  BY <1>3 DEF IsView, Fields
<1> HIDE DEF w
<1>5. IsView(s, w)
  BY <1>2, <1>3, <1>4 DEF IsView
<1>6. Pointed(w)
  BY <1>3, <1>4 DEF Pointed
<1>7. view'[s] = w /\ \A p \in Sentinels \ {s} : view'[p] = view[p]
  BY <1>1, <1>3 DEF IInv, ViewsOK
<1>8. ViewsOK'
  BY <1>1, <1>3, <1>4, <1>5, <1>6 DEF IInv, ViewsOK
<1>9. PeersDown'
  BY <1>1, <1>2, <1>3, <1>4, <1>7 DEF IInv, PeersDown
<1>10. RepliesOK' /\ RepliesDown'
  BY <1>1, <1>3, <1>4, <1>7 DEF IInv, RepliesOK, RepliesDown
<1>11. Starts
  BY <1>3, <1>4, <1>7 DEF Starts
<1>12. ProcessesOK' /\ OrdersOK' /\ HealthOK' /\ SuspectsOK' /\ OwnDown'
  BY <1>1 DEF IInv, ProcessesOK, OrdersOK, HealthOK, SuspectsOK, OwnDown, Down
<1>13. QED
  BY <1>8, <1>9, <1>10, <1>11, <1>12 DEF IInv

\* A reply is delayed.
LEMMA DelayStep ==
  ASSUME IInv, NEW m, m.to \in Sentinels, m.kind = "info" => IsInfo(m),
         m.kind = "down" /\ m.down => m.from \in suspects[view[m.to].addr],
         Delay(m)
  PROVE  IInv' /\ Starts
<1>1. replies' = replies \cup {m} /\ UNCHANGED <<up, of, run, orders, view, health, suspects>>
  BY DEF Delay
<1>2. RepliesOK'
  BY <1>1 DEF IInv, RepliesOK
<1>3. RepliesDown'
  BY <1>1 DEF IInv, RepliesDown
<1>4. ProcessesOK' /\ OrdersOK' /\ HealthOK' /\ SuspectsOK' /\ OwnDown'
  BY <1>1 DEF IInv, ProcessesOK, OrdersOK, HealthOK, SuspectsOK, OwnDown, Down
<1>5. ViewsOK' /\ PeersDown' /\ Starts
  BY <1>1 DEF IInv, ViewsOK, PeersDown, Starts
<1>6. QED
  BY <1>2, <1>3, <1>4, <1>5 DEF IInv

\* A hello message makes another sentinel known, without an opinion.
LEMMA HelloStep ==
  ASSUME IInv, NEW s \in Sentinels, NEW p \in Sentinels, ReceiveHello(s, p)
  PROVE  IInv' /\ Starts
<1> DEFINE v == view[s]
           peers == [q \in DOMAIN v.peers \cup {p} |-> IF q = p THEN NewPeer ELSE v.peers[q]]
           w == [v EXCEPT !.peers = peers]
<1>1. /\ view' = [view EXCEPT ![s] = w]
      /\ UNCHANGED <<up, of, run, orders, replies, health, suspects>> /\ p # s
  BY DEF ReceiveHello
<1>2. \A q \in DOMAIN peers : peers[q].down => q \in DOMAIN v.peers /\ v.peers[q].down
  BY DEF NewPeer
<1>3. IsView(s, v) /\ Pointed(v) /\ v.state # "update_config"
  BY DEF IInv, ViewsOK
<1>4. DOMAIN peers \subseteq Sentinels \ {s}
  BY <1>1, <1>3 DEF IsView
<1> HIDE DEF peers
<1>5. /\ w.addr = v.addr /\ w.state = v.state /\ w.promoted = v.promoted /\ w.slaves = v.slaves
      /\ w.inProgress = v.inProgress /\ w.leads = v.leads /\ w.peers = peers /\ Fields \subseteq DOMAIN w
  BY <1>3 DEF IsView, Fields
<1> HIDE DEF w
<1>6. IsView(s, w)
  BY <1>3, <1>4, <1>5 DEF IsView
<1>7. Pointed(w)
  BY <1>3, <1>5 DEF Pointed
<1>8. Trusts(v, w)
  BY <1>2, <1>5 DEF Trusts
<1>9. ViewsOK' /\ RepliesOK' /\ SuspectsOK' /\ PeersDown' /\ RepliesDown'
  BY <1>1, <1>3, <1>5, <1>6, <1>7, <1>8, ViewChanges
<1>10. Starts
  BY <1>1, <1>5 DEF IInv, ViewsOK, Starts
<1>11. ProcessesOK' /\ OrdersOK' /\ HealthOK' /\ OwnDown'
  BY <1>1 DEF IInv, ProcessesOK, OrdersOK, HealthOK, OwnDown, Down
<1>12. QED
  BY <1>9, <1>10, <1>11 DEF IInv

\* An instance answers again.
LEMMA HearStep ==
  ASSUME IInv, NEW s \in Sentinels, NEW x \in Sentinels \cup Servers, Hear(s, x)
  PROVE  IInv' /\ Starts
<1>1. health' = [health EXCEPT ![s][x] = "ok"] /\ UNCHANGED <<up, of, run, orders, replies, view, suspects>>
  BY DEF Hear
<1>2. HealthOK' /\ OwnDown'
  BY <1>1 DEF IInv, HealthOK, OwnDown, Down
<1>3. ProcessesOK' /\ OrdersOK'
  BY <1>1 DEF IInv, ProcessesOK, OrdersOK
<1>4. QED
  BY <1>1, <1>2, <1>3, ViewKept DEF IInv

\* An instance is silent for longer, and may be flagged down.
LEMMA SilenceStep ==
  ASSUME IInv, NEW s \in Sentinels, NEW x \in Sentinels \cup Servers, Silence(s, x)
  PROVE  IInv' /\ Starts
<1> DEFINE next == IF health[s][x] = "ok" THEN "late" ELSE "down"
           v == view[s]
           w == [v EXCEPT !.fresh = @ /\ x # view[s].addr]
<1>1. /\ health' = [health EXCEPT ![s][x] = next] /\ replies' \subseteq replies
      /\ UNCHANGED <<up, of, run, orders>>
  BY DEF Silence
<1>2. HealthOK'
  BY <1>1 DEF IInv, HealthOK
<1>3. ProcessesOK' /\ OrdersOK'
  BY <1>1 DEF IInv, ProcessesOK, OrdersOK
<1>4. CASE next = "down" /\ x \in Servers
  <2>1. suspects' = [suspects EXCEPT ![x] = @ \cup {s}] /\ view' = [view EXCEPT ![s] = w]
    BY <1>4 DEF Silence
  <2>2. SuspectsOK' /\ \A y \in Servers : suspects[y] \subseteq suspects'[y]
    BY <1>4, <2>1, FS_AddElement DEF IInv, SuspectsOK
  <2>3. OwnDown'
    BY <1>1, <1>4, <2>1, <2>2 DEF IInv, HealthOK, SuspectsOK, OwnDown, Down
  <2>4. IsView(s, v) /\ Pointed(v) /\ v.state # "update_config"
    BY DEF IInv, ViewsOK
  <2>5. /\ w.addr = v.addr /\ w.state = v.state /\ w.promoted = v.promoted /\ w.slaves = v.slaves
        /\ w.inProgress = v.inProgress /\ w.leads = v.leads /\ w.peers = v.peers /\ Fields \subseteq DOMAIN w
    BY <2>4 DEF IsView, Fields
  <2> HIDE DEF w
  <2>6. IsView(s, w) /\ Pointed(w)
    BY <2>4, <2>5 DEF IsView, Pointed
  <2>7. view'[s] = w /\ \A p \in Sentinels \ {s} : view'[p] = view[p]
    BY <2>1 DEF IInv, ViewsOK
  <2>8. ViewsOK'
    BY <2>1, <2>4, <2>5, <2>6 DEF IInv, ViewsOK
  <2>9. \A p \in Sentinels : /\ view'[p].addr = view[p].addr /\ view'[p].peers = view[p].peers
                             /\ view'[p].state = view[p].state /\ view[p].addr \in Servers
    BY <2>5, <2>7 DEF IInv, ViewsOK, IsView
  <2>10. PeersDown'
    BY <2>2, <2>9 DEF IInv, PeersDown
  <2>11. RepliesOK' /\ RepliesDown'
    BY <1>1, <2>2, <2>9 DEF IInv, RepliesOK, RepliesDown
  <2>12. Starts
    BY <2>9 DEF Starts
  <2>13. QED
    BY <1>2, <1>3, <2>2, <2>3, <2>8, <2>10, <2>11, <2>12 DEF IInv
<1>5. CASE ~(next = "down" /\ x \in Servers)
  <2>1. UNCHANGED <<view, suspects>>
    BY <1>5 DEF Silence
  <2>2. OwnDown'
    BY <1>1, <1>5, <2>1 DEF IInv, HealthOK, OwnDown, Down
  <2>3. QED
    BY <1>1, <1>2, <1>3, <2>1, <2>2, ViewKept DEF IInv
<1>6. QED
  BY <1>4, <1>5

\* A sentinel enters tilt mode.
LEMMA TiltStep ==
  ASSUME IInv, NEW s \in Sentinels, Tilt(s)
  PROVE  IInv' /\ Starts
<1> DEFINE v == view[s]
           w == [v EXCEPT !.tilt = TRUE]
<1>1. view' = [view EXCEPT ![s] = w] /\ UNCHANGED <<up, of, run, orders, replies, health, suspects>>
  BY DEF Tilt
<1>2. IsView(s, v) /\ Pointed(v) /\ v.state # "update_config"
  BY DEF IInv, ViewsOK
<1>3. /\ w.addr = v.addr /\ w.state = v.state /\ w.promoted = v.promoted /\ w.slaves = v.slaves
      /\ w.inProgress = v.inProgress /\ w.leads = v.leads /\ w.peers = v.peers /\ Fields \subseteq DOMAIN w
  BY <1>2 DEF IsView, Fields
<1> HIDE DEF w
<1>4. IsView(s, w) /\ Pointed(w) /\ Trusts(v, w)
  BY <1>2, <1>3 DEF IsView, Pointed, Trusts
<1>5. ViewsOK' /\ RepliesOK' /\ SuspectsOK' /\ PeersDown' /\ RepliesDown'
  BY <1>1, <1>2, <1>3, <1>4, ViewChanges
<1>6. Starts
  BY <1>1, <1>3 DEF IInv, ViewsOK, Starts
<1>7. ProcessesOK' /\ OrdersOK' /\ HealthOK' /\ OwnDown'
  BY <1>1 DEF IInv, ProcessesOK, OrdersOK, HealthOK, OwnDown, Down
<1>8. QED
  BY <1>5, <1>6, <1>7 DEF IInv

\* SENTINEL RESET.
LEMMA ResetStep ==
  ASSUME IInv, NEW s \in Sentinels, ResetMaster(s)
  PROVE  IInv' /\ Starts
<1> DEFINE v == view[s]
           w == Reset(v, v.addr)
<1>1. view' = [view EXCEPT ![s] = w] /\ UNCHANGED <<orders, suspects>>
  BY DEF ResetMaster
<1>2. UNCHANGED <<up, of, run>> /\ replies' \subseteq replies /\ health' = [health EXCEPT ![s] = AllWell]
  BY DEF ResetMaster, Relink
<1>3. IsView(s, v) /\ v.addr \in Servers
  BY DEF IInv, ViewsOK, IsView
<1>4. Blank(s, v, w, v.addr)
  BY <1>3, ResetIs
<1> HIDE DEF w
<1>5. ViewsOK' /\ RepliesOK' /\ SuspectsOK' /\ PeersDown' /\ RepliesDown'
  BY <1>1, <1>2, <1>4, ViewChanges DEF Blank
<1>6. Starts
  BY <1>1, <1>4 DEF IInv, ViewsOK, Starts, Blank
<1>7. HealthOK' /\ OwnDown'
  BY <1>1, <1>2, HealthKept
<1>8. ProcessesOK' /\ OrdersOK'
  BY <1>1, <1>2 DEF IInv, ProcessesOK, OrdersOK
<1>9. QED
  BY <1>5, <1>6, <1>7, <1>8 DEF IInv

\* SENTINEL FAILOVER.
LEMMA ForceStep ==
  ASSUME IInv, NEW s \in Sentinels, ForceFailover(s)
  PROVE  IInv' /\ Starts
<1> DEFINE v == view[s]
           w == [StartFailover(v, "wait_start") EXCEPT !.forced = TRUE]
<1>1. /\ view' = [view EXCEPT ![s] = w] /\ UNCHANGED <<up, of, run, orders, replies, health, suspects>>
      /\ ~v.inProgress
  BY DEF ForceFailover
<1>2. IsView(s, v) /\ Pointed(v) /\ v.state = "none" /\ v.promoted = None
  BY <1>1 DEF IInv, ViewsOK, Pointed
<1>3. /\ w.addr = v.addr /\ w.state = "wait_start" /\ w.promoted = None /\ w.slaves = v.slaves
      /\ w.inProgress = TRUE /\ w.leads = TRUE /\ w.peers = v.peers /\ w.forced = TRUE
      /\ Fields \subseteq DOMAIN w
  BY <1>2 DEF IsView, Fields, StartFailover
<1> HIDE DEF w
<1>4. IsView(s, w) /\ Trusts(v, w)
  BY <1>2, <1>3 DEF IsView, Trusts, States
<1>5. Pointed(w)
  BY <1>2, <1>3 DEF Pointed, Following
<1>6. ViewsOK' /\ RepliesOK' /\ SuspectsOK' /\ PeersDown' /\ RepliesDown'
  BY <1>1, <1>3, <1>4, <1>5, ViewChanges
<1>7. Starts
  BY <1>1, <1>3 DEF IInv, ViewsOK, Starts
<1>8. ProcessesOK' /\ OrdersOK' /\ HealthOK' /\ OwnDown'
  BY <1>1 DEF IInv, ProcessesOK, OrdersOK, HealthOK, OwnDown, Down
<1>9. QED
  BY <1>6, <1>7, <1>8 DEF IInv

\* A server executes a SLAVEOF command.
LEMMA ExecuteStep ==
  ASSUME IInv, NEW s \in Sentinels, NEW r \in Servers, Execute(s, r)
  PROVE  IInv' /\ Starts
<1>1. /\ of' = [of EXCEPT ![r] = Head(orders[s][r])] /\ orders' = [orders EXCEPT ![s][r] = Tail(@)]
      /\ orders[s][r] # <<>> /\ UNCHANGED <<up, run, replies, view, health, suspects>>
  BY DEF Execute
<1>2. orders[s][r] \in Seq(Masters)
  BY DEF IInv, OrdersOK
<1>3. Head(orders[s][r]) \in Masters /\ Tail(orders[s][r]) \in Seq(Masters)
  BY <1>1, <1>2
<1>4. ProcessesOK' /\ OrdersOK'
  BY <1>1, <1>3 DEF IInv, ProcessesOK, OrdersOK
<1>5. HealthOK' /\ OwnDown'
  BY <1>1 DEF IInv, HealthOK, OwnDown, Down
<1>6. QED
  BY <1>1, <1>4, <1>5, ViewKept DEF IInv

\* A process crashes.
LEMMA CrashStep ==
  ASSUME IInv, NEW x \in Sentinels \cup Servers, Crash(x)
  PROVE  IInv' /\ Starts
<1>1. /\ up' = up \ {x} /\ replies' \subseteq replies
      /\ orders' = [s \in Sentinels |-> [r \in Servers |-> IF r = x THEN <<>> ELSE orders[s][r]]]
      /\ UNCHANGED <<of, run, view, health, suspects>>
  BY DEF Crash
<1>2. OrdersOK'
  BY <1>1 DEF IInv, OrdersOK
<1>3. ProcessesOK' /\ HealthOK' /\ OwnDown'
  BY <1>1 DEF IInv, ProcessesOK, HealthOK, OwnDown, Down
<1>4. QED
  BY <1>1, <1>2, <1>3, ViewKept DEF IInv

\* A server starts again.
LEMMA RestartStep ==
  ASSUME IInv, NEW r \in Servers, Restart(r)
  PROVE  IInv' /\ Starts
<1>1. /\ up' = up \cup {r} /\ of' = [of EXCEPT ![r] = IF r = First THEN None ELSE First]
      /\ run' = [run EXCEPT ![r] = @ + 1] /\ UNCHANGED <<orders, replies, view, health, suspects>>
  BY DEF Restart
<1>2. ProcessesOK'
  BY <1>1, SentinelAssumption DEF IInv, ProcessesOK, Masters
<1>3. OrdersOK' /\ HealthOK' /\ OwnDown'
  BY <1>1 DEF IInv, OrdersOK, HealthOK, OwnDown, Down
<1>4. QED
  BY <1>1, <1>2, <1>3, ViewKept DEF IInv

\* A step that changes only what the invariant does not speak of.
LEMMA OtherStep ==
  ASSUME IInv, UNCHANGED <<up, of, run, orders, replies, view, health, suspects>>
  PROVE  IInv' /\ Starts
<1>1. ProcessesOK' /\ OrdersOK' /\ HealthOK' /\ OwnDown'
  BY DEF IInv, ProcessesOK, OrdersOK, HealthOK, OwnDown, Down
<1>2. QED
  BY <1>1, ViewKept DEF IInv

\* A delayed reply arrives.
LEMMA DeliverStep ==
  ASSUME IInv, NEW m \in replies, Deliver(m)
  PROVE  IInv' /\ Starts
<1>1. /\ m.to \in Sentinels
      /\ m.kind = "info" => IsInfo(m)
      /\ m.kind = "down" /\ m.down => m.from \in suspects[view[m.to].addr]
  BY DEF IInv, RepliesOK, RepliesDown
<1>2. CASE m.kind = "info" /\ \E long \in Waits(m.to) : RefreshInstanceInfo(m, long)
  BY <1>1, <1>2, RefreshStep
<1>3. CASE m.kind = "down" /\ ReceiveIsMasterDownReply(m)
  BY <1>1, <1>3, ReceiveStep
<1>4. QED
  BY <1>2, <1>3 DEF Deliver

\* The configuration the sentinels start with.
LEMMA InitIs == Init => IInv
<1> SUFFICES ASSUME Init PROVE IInv
  OBVIOUS
<1>1. ProcessesOK /\ OrdersOK
  BY SentinelAssumption DEF Init, ProcessesOK, OrdersOK, Masters
<1>2. HealthOK /\ OwnDown
  BY DEF Init, HealthOK, OwnDown, Down, AllWell
<1>3. SuspectsOK
  BY FS_EmptySet DEF Init, SuspectsOK
<1>4. RepliesOK /\ RepliesDown
  BY DEF Init, RepliesOK, RepliesDown
<1>5. ASSUME NEW s \in Sentinels
      PROVE  /\ IsView(s, view[s]) /\ Pointed(view[s]) /\ view[s].state # "update_config"
             /\ \A p \in DOMAIN view[s].peers : ~view[s].peers[p].down
  <2> DEFINE t == [r \in Servers \ {First} |-> [NewSlave(FALSE) EXCEPT !.seen = 1]]
             peers == [p \in Sentinels \ {s} |-> NewPeer]
  <2>1. view[s] = [addr |-> First, slaves |-> t, peers |-> peers,
                   odown |-> FALSE, inProgress |-> FALSE, leads |-> FALSE, forced |-> FALSE,
                   state |-> "none", promoted |-> None, tilt |-> FALSE, fresh |-> TRUE]
    BY DEF Init
  <2>2. IsTable(t) /\ \A r \in DOMAIN t : t[r].reconf = "none"
    BY DEF IsTable, Entries, NewSlave, Unknown
  <2>3. DOMAIN peers = Sentinels \ {s} /\ \A p \in DOMAIN peers : peers[p].down = FALSE
    BY DEF NewPeer
  <2> HIDE DEF t, peers
  <2>4. /\ view[s].addr = First /\ view[s].slaves = t /\ view[s].peers = peers /\ view[s].state = "none"
        /\ view[s].promoted = None /\ view[s].inProgress = FALSE /\ Fields \subseteq DOMAIN view[s]
    BY <2>1 DEF Fields
  <2>5. IsView(s, view[s])
    BY <2>2, <2>3, <2>4, SentinelAssumption DEF IsView, States
  <2>6. Pointed(view[s])
    BY <2>2, <2>4 DEF Pointed, Following
  <2>7. QED
    BY <2>3, <2>4, <2>5, <2>6
<1>6. ViewsOK
  BY <1>5 DEF Init, ViewsOK
<1>7. PeersDown
  BY <1>5 DEF PeersDown
<1>8. QED
  BY <1>1, <1>2, <1>3, <1>4, <1>6, <1>7 DEF IInv

\* Every step keeps the invariant and starts a failover only as Starts says.
LEMMA NextStep ==
  ASSUME IInv, [Next]_vars
  PROVE  IInv' /\ Starts
<1>1. ASSUME NEW s \in Sentinels, TimerRuns(s, Elapsed(s)) \/ TimesOutEarly(s)
      PROVE  IInv' /\ Starts
  BY <1>1, TimerStep
<1>2. ASSUME NEW s \in Sentinels, NEW x \in Servers, NEW link, Info(s, x, link)
      PROVE  IInv' /\ Starts
  <2>1. PICK long \in Waits(s) : RefreshInstanceInfo(InfoOf(s, x, link), long)
    BY <1>2 DEF Info
  <2>2. QED
    BY <2>1, InfoOfIs, RefreshStep
<1>3. ASSUME NEW s \in Sentinels, NEW x \in Servers, NEW link, DelayInfo(s, x, link)
      PROVE  IInv' /\ Starts
  <2>1. Delay(InfoOf(s, x, link))
    BY <1>3 DEF DelayInfo
  <2>2. QED
    BY <2>1, InfoOfIs, DelayStep
<1>4. ASSUME NEW s \in Sentinels, NEW p \in Sentinels, Ask(s, p)
      PROVE  IInv' /\ Starts
  <2>1. ReceiveIsMasterDownReply(IsMasterDown(s, p))
    BY <1>4 DEF Ask
  <2>2. QED
    BY <2>1, IsMasterDownIs, ReceiveStep
<1>5. ASSUME NEW s \in Sentinels, NEW p \in Sentinels, DelayAnswer(s, p)
      PROVE  IInv' /\ Starts
  <2>1. Delay(IsMasterDown(s, p))
    BY <1>5 DEF DelayAnswer
  <2>2. QED
    BY <2>1, IsMasterDownIs, DelayStep
<1>6. ASSUME NEW s \in Sentinels, NEW p \in Sentinels, ReceiveHello(s, p)
      PROVE  IInv' /\ Starts
  BY <1>6, HelloStep
<1>7. ASSUME NEW s \in Sentinels, NEW x \in Sentinels \cup Servers, Hear(s, x) \/ Silence(s, x)
      PROVE  IInv' /\ Starts
  BY <1>7, HearStep, SilenceStep
<1>8. ASSUME NEW s \in Sentinels, NEW x \in Sentinels \cup Servers, Cut(s, x) \/ Heal(s, x)
      PROVE  IInv' /\ Starts
  BY <1>8, OtherStep DEF Cut, Heal
<1>9. ASSUME NEW s \in Sentinels, NEW r \in Servers, Execute(s, r)
      PROVE  IInv' /\ Starts
  BY <1>9, ExecuteStep
<1>10. ASSUME NEW s \in Sentinels, Tilt(s) \/ ResetMaster(s) \/ ForceFailover(s)
       PROVE  IInv' /\ Starts
  BY <1>10, TiltStep, ResetStep, ForceStep
<1>11. ASSUME NEW m \in replies, Deliver(m)
       PROVE  IInv' /\ Starts
  BY <1>11, DeliverStep
<1>12. ASSUME NEW x \in Sentinels \cup Servers, Crash(x)
       PROVE  IInv' /\ Starts
  BY <1>12, CrashStep
<1>13. ASSUME NEW r \in Servers, Restart(r)
       PROVE  IInv' /\ Starts
  BY <1>13, RestartStep
<1>14. CASE UNCHANGED vars
  BY <1>14, OtherStep DEF vars
<1>15. QED
  BY <1>1, <1>2, <1>3, <1>4, <1>5, <1>6, <1>7, <1>8, <1>9, <1>10, <1>11, <1>12, <1>13, <1>14 DEF Next

\* The invariant holds in every reachable state, for any sentinels, servers,
\* quorum, priorities and bounds.
THEOREM Invariance == Spec => []IInv
<1>1. QED
  BY InitIs, NextStep, PTL DEF Spec

\* The invariant implies the property the runs check.
LEMMA KnownIs == IInv => PromotedIsKnown
<1> SUFFICES ASSUME IInv PROVE PromotedIsKnown
  OBVIOUS
<1>1. TypeOK
  BY DEF TypeOK, IInv, ProcessesOK, ViewsOK, IsView, IsTable, Entries, Pointed, Masters
<1>2. ASSUME NEW s \in Sentinels,
             \/ view[s].state \in Following
             \/ \E r \in DOMAIN view[s].slaves : view[s].slaves[r].reconf \in {"sent", "inprog"}
      PROVE  view[s].promoted \in DOMAIN view[s].slaves
  BY <1>2 DEF IInv, ViewsOK, Pointed, Following
<1>3. QED
  BY <1>1, <1>2 DEF PromotedIsKnown, Following

\* Whatever crashes, is cut off, delayed or commanded, no sentinel of
\* sentinel.c follows its promoted pointer while it points nowhere, and the
\* tables of all sentinels stay well formed.
THEOREM PromotedIsAlwaysKnown == Spec => []PromotedIsKnown
<1>1. QED
  BY Invariance, KnownIs, PTL

\* The sentinels that make a master objectively down, the one that counts
\* included, are as many as the quorum asks and have all suspected this master.
LEMMA QuorumSuspects ==
  ASSUME IInv, NEW s \in Sentinels, NEW age, ObjectivelyDown(s, AskOthers(s, view[s], age))
  PROVE  Cardinality(suspects[view[s].addr]) >= Quorum
<1> DEFINE v == AskOthers(s, view[s], age)
           down == {p \in DOMAIN v.peers : v.peers[p].down}
           all == suspects[view[s].addr]
<1>1. IsView(s, v) /\ Trusts(view[s], v) /\ v.addr = view[s].addr
  BY AskOthersIs DEF IInv, ViewsOK
<1>2. Down(s, v.addr) /\ 1 + Cardinality(down) >= Quorum
  BY DEF ObjectivelyDown
<1> HIDE DEF v
<1>3. s \in all /\ v.addr \in Servers
  BY <1>1, <1>2 DEF IInv, OwnDown, IsView
<1>4. down \subseteq all /\ s \notin down
  BY <1>1 DEF Trusts, IInv, PeersDown, IsView
<1>5. IsFiniteSet(all)
  BY <1>1, <1>3 DEF IInv, SuspectsOK
<1> HIDE DEF down, all
<1>6. IsFiniteSet(down)
  BY <1>4, <1>5, FS_Subset
<1>7. Cardinality(down \cup {s}) = Cardinality(down) + 1 /\ IsFiniteSet(down \cup {s})
  BY <1>4, <1>6, FS_AddElement
<1>8. Cardinality(down \cup {s}) <= Cardinality(all)
  BY <1>3, <1>4, <1>5, FS_Subset
<1>9. Cardinality(down) \in Nat /\ Cardinality(all) \in Nat
  BY <1>5, <1>6, FS_CardinalityType
<1>10. QED
  BY <1>2, <1>7, <1>8, <1>9, SentinelAssumption DEF all

\* A failover that no administrator forced starts only for a master that as
\* many sentinels as the quorum asks have, at some time, themselves found
\* down, however old, delayed or misdirected the answers that are counted.
THEOREM FailoverAlwaysNeedsQuorum == Spec => FailoverNeedsQuorum
<1>1. ASSUME IInv, Starts, NEW s \in Sentinels,
             ~view[s].leads, view'[s].state = "wait_start", ~view'[s].forced
      PROVE  Cardinality(suspects[view[s].addr]) >= Quorum
  <2>1. view[s].state # "wait_start"
    BY <1>1 DEF IInv, ViewsOK, Pointed
  <2>2. PICK age \in Ages : ObjectivelyDown(s, AskOthers(s, view[s], age))
    BY <1>1, <2>1 DEF Starts
  <2>3. QED
    BY <1>1, <2>2, QuorumSuspects
<1>2. IInv /\ [Next]_vars => [\A s \in Sentinels :
        (~view[s].leads /\ view'[s].state = "wait_start" /\ ~view'[s].forced)
          => Cardinality(suspects[view[s].addr]) >= Quorum]_vars
  BY <1>1, NextStep
<1>3. QED
  BY <1>2, Invariance, PTL DEF Spec, FailoverNeedsQuorum
=============================================================================
