------------------------------ MODULE Sentinel ------------------------------
(***************************************************************************)
(* The failover of Redis Sentinel 2.6.17 (src/redis-2.6.17/src/sentinel.c) *)
(* for one monitored master: sentinels suspect, vote, elect a leader,      *)
(* promote a slave, reconfigure the others and switch to the new master.   *)
(*                                                                         *)
(* Time is abstracted: `health` says how old the last answer of an         *)
(* instance is, and a run of the timer is told how much time has passed    *)
(* since the failover last moved.  The Redis servers themselves are        *)
(* external: SLAVEOF, INFO, crash and restart.                             *)
(***************************************************************************)
EXTENDS Integers, SequencesExt

CONSTANTS
  Sentinels,     \* natural numbers, in the order of their run ids
  Servers,       \* natural numbers, in the order of their run ids
  First,         \* the server the configuration names as the master
  Quorum,        \* sentinels that must agree that the master is down
  MayFailOver,   \* the sentinels configured with can-failover yes
  Priority,      \* slave-priority of every server, 0: never promote
  ParallelSyncs, \* slaves reconfigured at the same time
  None,
  Faulty,        \* bound: the processes that may crash or be cut off
  Budget,        \* bounds on each kind of fault, delay and administrator command, and on any
  MaxOrders      \* bound: SLAVEOF commands in transit on one connection

ASSUME SentinelAssumption ==
  /\ Sentinels \cup Servers \subseteq Nat \ {0}
  /\ Sentinels \cap Servers = {}
  /\ First \in Servers
  /\ Quorum \in Nat \ {0}
  /\ MayFailOver \subseteq Sentinels
  /\ Priority \in [Servers -> Nat]
  /\ ParallelSyncs \in Nat
  /\ MaxOrders \in Nat

Ages == {"now", "retry", "expired"} \* less than the retry periods, more, more than failover-timeout
Unknown == 0                        \* the leader "?" of a reply, the run id of an instance never heard

VARIABLES
  up,      \* the processes that run
  of,      \* the master a server replicates, or None
  run,     \* how many times a server was started: its run id
  cut,     \* pairs of a sentinel and an instance it is cut from
  orders,  \* SLAVEOF commands a sentinel sent and a server did not execute yet
  replies, \* delayed replies, in transit to a sentinel
  view,    \* what a sentinel knows of the master, its slaves and the other sentinels
  health,  \* age of the last valid answer of an instance to a sentinel
  suspects,\* history: the sentinels that ever believed a server down
  left     \* faults and administrator commands that may still happen

vars == <<up, of, run, cut, orders, replies, view, health, suspects, left>>

------------------------------------------------------------------------------
Reach(s, x) == x \in up /\ <<s, x>> \notin cut

Down(s, x) == health[s][x] = "down"        \* SRI_S_DOWN

Watched(s) == {view[s].addr} \cup DOMAIN view[s].slaves \cup DOMAIN view[s].peers

NewSlave(demote) == [reconf |-> "none", demote |-> demote, seen |-> Unknown]

NewPeer == [down |-> FALSE, vote |-> None]

(* Mutant: the other sentinels keep what they said of the old master. *)
ResetKeepsPeers(v, addr) ==
  [v EXCEPT !.addr = addr, !.slaves = <<>>, !.odown = FALSE,
            !.inProgress = FALSE, !.leads = FALSE, !.forced = FALSE,
            !.state = "none", !.promoted = None]

Reset(v, addr) ==
  [v EXCEPT !.addr = addr, !.slaves = <<>>, !.peers = <<>>, !.odown = FALSE,
            !.inProgress = FALSE, !.leads = FALSE, !.forced = FALSE,
            !.state = "none", !.promoted = None]

Linked(x) == of[x] \in up

InfoOf(s, x, link) ==
  [to |-> s, from |-> x, kind |-> "info", role |-> IF of[x] = None THEN "master" ELSE "slave",
   master |-> of[x], link |-> link, run |-> run[x],
   slaves |-> {r \in Servers \cap up : of[r] = x}]

AllWell == [x \in Sentinels \cup Servers |-> "ok"]

------------------------------------------------------------------------------
(* Votes.  `gone` is the set of instances whose link is being reconnected. *)

SubjectiveLeader(s, v, gone) ==
  LET candidates == ({s} \cap MayFailOver) \cup
        {p \in DOMAIN v.peers \cap MayFailOver : health[s][p] = "ok" /\ p \notin gone}
  IN  IF candidates = {} THEN None ELSE Min(candidates)

ObjectiveLeader(s, v, gone) ==
  LET own     == SubjectiveLeader(s, v, gone)
      counted == {p \in DOMAIN v.peers : v.peers[p].vote # None /\ (v.inProgress \/ v.peers[p].down)}
      Votes(c) == Cardinality({p \in counted : v.peers[p].vote = c}) + (IF own = c THEN 1 ELSE 0)
      voters  == Cardinality(counted) + (IF own = None THEN 0 ELSE 1)
      winners == {c \in Sentinels : Votes(c) >= voters \div 2 + 1 /\ Votes(c) >= Quorum}
  IN  IF winners = {} THEN None ELSE CHOOSE c \in winners : TRUE

ObjectivelyDown(s, v) ==
  /\ Down(s, v.addr)
  /\ 1 + Cardinality({p \in DOMAIN v.peers : v.peers[p].down}) >= Quorum

(* The slave to promote: lowest priority, then lowest run id. *)
SelectSlave(s, v, gone) ==
  LET good == {r \in DOMAIN v.slaves : /\ health[s][r] = "ok" /\ r \notin gone
                                       /\ ~v.slaves[r].demote
                                       /\ v.slaves[r].seen # Unknown
                                       /\ Priority[r] # 0}
      Before(q, r) == Priority[q] < Priority[r] \/ (Priority[q] = Priority[r] /\ q <= r)
  IN  IF good = {} THEN None ELSE CHOOSE r \in good : \A q \in good : Before(r, q)

------------------------------------------------------------------------------
(* The steps of one run of the timer work on a pair of the sentinel's view *)
(* and the commands it queues for the servers.                             *)

Quiet(v) == [v |-> v, cmd |-> [r \in Servers |-> <<>>]]

Send(o, R, master) ==
  [o EXCEPT !.cmd = [r \in Servers |-> IF r \in R THEN Append(o.cmd[r], master) ELSE o.cmd[r]]]

Abort(o, gone) ==
  LET v    == o.v
      undo == IF v.leads THEN {r \in DOMAIN v.slaves \ gone :
                                 r = v.promoted \/ v.slaves[r].reconf # "none"} ELSE {}
  IN  Send([o EXCEPT !.v = [v EXCEPT
              !.slaves = [r \in DOMAIN v.slaves |-> [v.slaves[r] EXCEPT !.reconf = "none"]],
              !.inProgress = FALSE, !.leads = FALSE, !.forced = FALSE,
              !.state = "none", !.promoted = None]],
           undo, v.addr)

StartFailover(v, state) == [v EXCEPT !.state = state, !.inProgress = TRUE, !.leads = TRUE]

StartFailoverIfNeeded(s, v, age, gone) ==
  IF \/ s \notin MayFailOver
     \/ ~(v.odown \/ v.inProgress)
     \/ ObjectiveLeader(s, v, gone) # s
  THEN v
  ELSE IF v.inProgress
       THEN IF v.leads \/ age = "now" THEN v
            ELSE [StartFailover(v, "reconf_slaves") EXCEPT    \* takedown of a failover of another leader
                    !.slaves = [r \in DOMAIN v.slaves |->
                      [v.slaves[r] EXCEPT !.reconf = IF @ = "sent" THEN "none" ELSE @]]]
       ELSE IF SelectSlave(s, v, gone) = None THEN v
            ELSE StartFailover(v, "wait_start")

WaitStart(s, o, age, gone) ==
  IF ~(Down(s, o.v.addr) \/ o.v.odown \/ o.v.forced) THEN Abort(o, gone)
  ELSE IF age = "now" THEN o ELSE [o EXCEPT !.v.state = "select_slave"]

SelectOrAbort(s, o, gone) ==
  LET r == SelectSlave(s, o.v, gone)
  IN  IF r = None THEN Abort(o, gone)
      ELSE [o EXCEPT !.v = [@ EXCEPT !.promoted = r, !.state = "send_slaveof_noone"]]

SendSlaveOfNoOne(o, gone) ==
  IF o.v.promoted \in gone THEN o
  ELSE Send([o EXCEPT !.v.state = "wait_promotion"], {o.v.promoted}, None)

(* Mutant: the retry forgets the slave but stays in the same state. *)
WaitPromotionStays(o, age) == IF age = "now" THEN o ELSE [o EXCEPT !.v.promoted = None]

WaitPromotion(o, age) ==
  IF age = "now" THEN o
  ELSE [o EXCEPT !.v = [@ EXCEPT !.state = "select_slave", !.promoted = None]]

(* The end of the failover; on its timeout the leader also queues a best   *)
(* effort SLAVEOF for the slaves that were not reconfigured.               *)
DetectEnd(s, o, age, gone) ==
  LET v       == o.v
      lagging == {r \in DOMAIN v.slaves \ {v.promoted} : v.slaves[r].reconf # "done" /\ ~Down(s, r)}
      timeout == age = "expired"
      best    == IF timeout /\ v.leads
                 THEN {r \in DOMAIN v.slaves \ gone : v.slaves[r].reconf \notin {"done", "sent"}} ELSE {}
      marked  == [r \in DOMAIN v.slaves |->
                    [v.slaves[r] EXCEPT !.reconf = IF r \in best THEN "sent" ELSE @]]
  IN  IF v.promoted = None \/ Down(s, v.promoted) \/ ~(lagging = {} \/ timeout) THEN o
      ELSE Send([o EXCEPT !.v = [v EXCEPT !.state = "update_config", !.slaves = marked]],
                best, v.promoted)

(* Mutant: the slaves are not told. *)
ReconfNobody(s, o, age, gone) == DetectEnd(s, o, age, gone)

(* SLAVEOF to the next slaves: those already under way are counted before  *)
(* the retry period of any of them is looked at.                           *)
ReconfNextSlave(s, o, age, gone) ==
  LET v     == o.v
      busy  == {r \in DOMAIN v.slaves : v.slaves[r].reconf \in {"sent", "inprog"}}
      free  == ParallelSyncs - Cardinality(busy)
      again == IF free > 0 /\ age # "now" THEN {r \in busy : v.slaves[r].reconf = "sent"} ELSE {}
      ready == {r \in DOMAIN v.slaves \ {v.promoted} :
                  v.slaves[r].reconf = "none" \/ r \in again} \ gone
      next  == {r \in ready : Cardinality({q \in ready : q < r}) < free}
      slaves == [r \in DOMAIN v.slaves |-> [v.slaves[r] EXCEPT
                   !.reconf = IF r \in next THEN "sent" ELSE IF r \in again THEN "none" ELSE @]]
  IN  DetectEnd(s, Send([o EXCEPT !.v.slaves = slaves], next, v.promoted), age, gone)

StateMachine(s, o, age, gone) ==
  CASE o.v.state = "wait_start"         -> WaitStart(s, o, age, gone)
    [] o.v.state = "select_slave"       -> SelectOrAbort(s, o, gone)
    [] o.v.state = "send_slaveof_noone" -> SendSlaveOfNoOne(o, gone)
    [] o.v.state = "wait_promotion"     -> WaitPromotion(o, age)
    [] o.v.state = "reconf_slaves"      -> ReconfNextSlave(s, o, age, gone)
    [] o.v.state = "detect_end"         -> DetectEnd(s, o, age, gone)
    [] OTHER                            -> o

AbortIfNeeded(s, o, age, gone) ==
  IF o.v.inProgress /\ o.v.promoted # None /\ age = "expired" /\ Down(s, o.v.promoted)
  THEN Abort(o, gone) ELSE o

(* The switch releases every link of the old configuration, and with them  *)
(* the commands this run of the timer queued but no event loop wrote yet.  *)
SwitchToPromoted(o) ==
  LET old == o.v.addr
      v   == Reset(o.v, o.v.promoted)
  IN  Quiet([v EXCEPT !.slaves = [r \in {old} |-> NewSlave(TRUE)]])

AskOthers(s, v, age) ==
  LET asking == Down(s, v.addr) \/ v.inProgress
      Old(p) == health[s][p] # "ok" \/ (age # "now" /\ ~asking)
  IN  [v EXCEPT !.peers = [p \in DOMAIN v.peers |-> IF Old(p) THEN NewPeer ELSE v.peers[p]]]

Act(s, v, age, gone) ==
  LET v1 == [v EXCEPT !.tilt = FALSE, !.odown = ObjectivelyDown(s, v)]
      v2 == StartFailoverIfNeeded(s, v1, age, gone)
      o  == AbortIfNeeded(s, StateMachine(s, Quiet(v2), age, gone), age, gone)
  IN  IF o.v.state = "update_config" THEN SwitchToPromoted(o) ELSE o

------------------------------------------------------------------------------
Init ==
  /\ up = Sentinels \cup Servers
  /\ of = [r \in Servers |-> IF r = First THEN None ELSE First]
  /\ run = [r \in Servers |-> 1]
  /\ cut = {}
  /\ orders = [s \in Sentinels |-> [r \in Servers |-> <<>>]]
  /\ replies = {}
  /\ view = [s \in Sentinels |->
       [addr |-> First,
        slaves |-> [r \in Servers \ {First} |-> [NewSlave(FALSE) EXCEPT !.seen = 1]],
        peers |-> [p \in Sentinels \ {s} |-> NewPeer],
        odown |-> FALSE, inProgress |-> FALSE, leads |-> FALSE, forced |-> FALSE,
        state |-> "none", promoted |-> None, tilt |-> FALSE, fresh |-> TRUE]]
  /\ health = [s \in Sentinels |-> AllWell]
  /\ suspects = [r \in Servers |-> {}]
  /\ left = Budget

Deliverable(s, cmd) == [r \in Servers |-> IF Reach(s, r) THEN cmd[r] ELSE <<>>]

(* A command that repeats the last one in transit has no effect of its own. *)
Post(s, cmd) ==
  LET sent == Deliverable(s, cmd)
      queue == [r \in Servers |->
                  IF IsSuffix(sent[r], orders[s][r]) THEN orders[s][r] ELSE orders[s][r] \o sent[r]]
  IN  /\ \A r \in Servers : Len(queue[r]) <= MaxOrders
      /\ orders' = [orders EXCEPT ![s] = queue]

(* A reset loses the replies in transit and starts every link anew. *)
Relink(s, reset) ==
  /\ replies' = IF reset THEN {m \in replies : m.to # s} ELSE replies
  /\ health' = IF reset THEN [health EXCEPT ![s] = AllWell] ELSE health

(* What an INFO reply makes of a slave's own entry. *)
Reconfigured(v, m) ==
  LET e     == v.slaves[m.from]
      began == e.reconf = "sent" /\ m.master = v.promoted
      step  == IF began THEN "inprog" ELSE e.reconf
  IN  [v EXCEPT !.slaves[m.from] =
         [e EXCEPT !.reconf = IF step = "inprog" /\ m.link THEN "done" ELSE step,
                   !.demote = FALSE]]

(* A slave turned into a master by somebody else: observe its failover. *)
Observe(o, x) ==
  LET v == o.v
  IN  [o EXCEPT !.v = [v EXCEPT
         !.inProgress = TRUE, !.state = "detect_end", !.promoted = x,
         !.slaves = [r \in DOMAIN v.slaves |->
           [v.slaves[r] EXCEPT !.reconf = "sent", !.demote = IF r = x THEN FALSE ELSE @]]]]

SlaveSaysMaster(s, v, m, long) ==
  LET x       == m.from
      changed == v.slaves[x].seen # m.run
      w       == [v EXCEPT !.slaves[x].seen = m.run]
      o       == Quiet(w)
  IN  CASE ~v.tilt /\ v.slaves[x].demote ->
             IF ~long THEN o
             ELSE IF ~Down(s, v.addr) /\ ~v.odown /\ v.fresh THEN Send(o, {x}, v.addr)
             ELSE Quiet([w EXCEPT !.slaves[x].demote = FALSE])
        [] (v.tilt \/ ~v.slaves[x].demote) /\ ~v.inProgress /\ changed ->
             Quiet([v EXCEPT !.slaves = [r \in DOMAIN @ \ {x} |-> @[r]]])
        [] ~v.tilt /\ ~v.slaves[x].demote /\ ~(~v.inProgress /\ changed) /\ v.promoted = x ->
             IF v.inProgress /\ v.leads /\ v.state = "wait_promotion"
             THEN [o EXCEPT !.v.state = "reconf_slaves"] ELSE o
        [] ~v.tilt /\ ~v.slaves[x].demote /\ v.promoted # x /\ ~v.inProgress /\ ~changed -> Observe(o, x)
        [] ~v.tilt /\ ~v.slaves[x].demote /\ v.promoted # x
             /\ v.inProgress /\ v.leads /\ v.state = "wait_start" -> Observe(Abort(o, {}), x)
        [] OTHER -> o

SlaveSaysSlave(v, m) ==
  LET w == [v EXCEPT !.slaves[m.from].seen = m.run]
  IN  IF v.tilt THEN w ELSE Reconfigured(w, m)

MasterSays(v, m) ==
  LET known == DOMAIN v.slaves \cup m.slaves
  IN  IF m.role = "slave" THEN Reset([v EXCEPT !.fresh = TRUE], m.master)
      ELSE [v EXCEPT !.fresh = TRUE,
              !.slaves = [r \in known |-> IF r \in DOMAIN v.slaves THEN v.slaves[r] ELSE NewSlave(FALSE)]]

Refreshed(s, v, m, long) ==
  CASE m.from = v.addr -> Quiet(MasterSays(v, m))
    [] m.from # v.addr /\ m.from \in DOMAIN v.slaves /\ m.role = "master" -> SlaveSaysMaster(s, v, m, long)
    [] m.from # v.addr /\ m.from \in DOMAIN v.slaves /\ m.role = "slave"  -> Quiet(SlaveSaysSlave(v, m))
    [] OTHER -> Quiet(v)

------------------------------------------------------------------------------
AfterTimer(s, age, gone) ==
  LET v == AskOthers(s, view[s], age)
  IN  IF v.tilt /\ age = "now" THEN Quiet(v) ELSE Act(s, v, age, gone)

NothingNew(s, o) == o.v = view[s] /\ Deliverable(s, o.cmd) = Quiet(o.v).cmd

(* The retry periods are long against the period of the timer and the      *)
(* round of INFO (one second while the master is down): usually, when one  *)
(* is over, the timer has done what it can and every server the sentinel   *)
(* reaches has executed its commands and told its state.                   *)
Settled(s) ==
  /\ \A m \in replies : m.to # s
  /\ \A r \in Servers : Reach(s, r) => orders[s][r] = <<>>
  /\ NothingNew(s, AfterTimer(s, "now", {}))
  /\ \A x \in Watched(s) \cap Servers : Reach(s, x) =>
       \E link \in BOOLEAN : Refreshed(s, view[s], InfoOf(s, x, link), TRUE).v = view[s]

Timer(s, age, gone) ==
  LET o == AfterTimer(s, age, gone)
  IN  /\ view' = [view EXCEPT ![s] = o.v]
      /\ Post(s, o.cmd)
      /\ Relink(s, o.v.addr # view[s].addr)

(* How much time may have passed when the timer runs. *)
Elapsed(s) ==
  {"now"} \cup (IF ~Settled(s) THEN {} ELSE IF view[s].inProgress THEN Ages ELSE {"now", "retry"})

TimerRuns(s, ages) ==
  /\ s \in up /\ UNCHANGED <<up, of, run, cut, suspects, left>>
  /\ \E age \in ages, gone \in {{}, {x \in Watched(s) : ~Reach(s, x)}} : Timer(s, age, gone)

Spend(k) ==
  LET price == IF k = "admin" THEN 2 ELSE 1
  IN  /\ left[k] > 0 /\ left["any"] >= price
      /\ left' = [left EXCEPT ![k] = @ - 1, !["any"] = @ - price]

(* But they are periods of the wall clock: when the servers or the timer   *)
(* are slow, one is over whatever is under way.                            *)
TimesOutEarly(s) ==
  /\ s \in up /\ ~Settled(s) /\ Spend("early")
  /\ UNCHANGED <<up, of, run, cut, suspects>>
  /\ \E age \in Ages \ {"now"}, gone \in {{}, {x \in Watched(s) : ~Reach(s, x)}} : Timer(s, age, gone)

------------------------------------------------------------------------------

(* A server answers an INFO command: the reply is processed at once, or it *)
(* is delayed.                                                             *)
Answered(s, x, link) ==
  /\ s \in up /\ x \in Watched(s) \cap Servers /\ Reach(s, x)
  /\ link => Linked(x)

(* Whether the master has been well for long enough to trust its state. *)
Waits(s) == {TRUE, health[s][view[s].addr] = "ok" /\ ~view[s].tilt}

RefreshInstanceInfo(m, long) ==
  LET s == m.to
      o == Refreshed(s, view[s], m, long)
      reset == m.from = view[s].addr /\ m.role = "slave"
  IN  /\ UNCHANGED <<up, of, run, cut, suspects, left>>
      /\ view' = [view EXCEPT ![s] = o.v]
      /\ Post(s, o.cmd)
      /\ replies' = {n \in replies : n # m /\ (reset => n.to # s)}
      /\ health' = IF reset THEN [health EXCEPT ![s] = AllWell] ELSE health

Info(s, x, link) ==
  /\ Answered(s, x, link)
  /\ \E long \in Waits(s) : RefreshInstanceInfo(InfoOf(s, x, link), long)

(* Sentinel p answers SENTINEL is-master-down-by-addr. *)
IsMasterDown(s, p) ==
  LET same == view[p].addr = view[s].addr
      lead == SubjectiveLeader(p, view[p], {})
  IN  [to |-> s, from |-> p, kind |-> "down",
       down |-> ~view[p].tilt /\ same /\ Down(p, view[p].addr),
       vote |-> IF same /\ lead # None THEN lead ELSE Unknown]

Asked(s, p) ==
  /\ s \in up /\ p \in DOMAIN view[s].peers /\ Reach(s, p)
  /\ Down(s, view[s].addr) \/ view[s].inProgress

ReceiveIsMasterDownReply(m) ==
  /\ view' = [view EXCEPT ![m.to].peers[m.from] = [down |-> m.down, vote |-> m.vote]]
  /\ replies' = replies \ {m}
  /\ UNCHANGED <<up, of, run, cut, orders, health, suspects, left>>

Ask(s, p) == Asked(s, p) /\ ReceiveIsMasterDownReply(IsMasterDown(s, p))

Delay(m) ==
  /\ Spend("delay")
  /\ \A n \in replies : <<n.to, n.from>> # <<m.to, m.from>>
  /\ replies' = replies \cup {m}
  /\ UNCHANGED <<up, of, run, cut, orders, view, health, suspects>>

DelayInfo(s, x, link) == Answered(s, x, link) /\ Delay(InfoOf(s, x, link))

DelayAnswer(s, p) == Asked(s, p) /\ Delay(IsMasterDown(s, p))

Deliver(m) ==
  \/ m.kind = "info" /\ \E long \in Waits(m.to) : RefreshInstanceInfo(m, long)
  \/ m.kind = "down" /\ ReceiveIsMasterDownReply(m)

(* A hello message of p, published on the master that both watch. *)
ReceiveHello(s, p) ==
  LET a == view[s].addr
  IN  /\ {s, p} \subseteq up /\ p # s /\ view[p].addr = a
      /\ Reach(s, a) /\ Reach(p, a)
      /\ p \notin DOMAIN view[s].peers
      /\ view' = [view EXCEPT ![s].peers = [q \in DOMAIN @ \cup {p} |-> IF q = p THEN NewPeer ELSE @[q]]]
      /\ UNCHANGED <<up, of, run, cut, orders, replies, health, suspects, left>>

(* A valid PONG arrives again. *)
Hear(s, x) ==
  /\ s \in up /\ x \in Watched(s) /\ Reach(s, x)
  /\ health[s][x] # "ok" /\ ~(Down(s, x) /\ view[s].tilt)
  /\ health' = [health EXCEPT ![s][x] = "ok"]
  /\ UNCHANGED <<up, of, run, cut, orders, replies, view, suspects, left>>

(* SENTINEL GET-MASTER-ADDR-BY-NAME: the address given to clients. *)
MasterAddr(s) ==
  LET v == view[s]
  IN  IF v.inProgress /\ v.promoted # None /\ v.state \in {"reconf_slaves", "detect_end"}
      THEN v.promoted ELSE v.addr

(* No PONG within the validity time, then within down-after-milliseconds:  *)
(* the next run of the timer flags the instance, and its link was replaced. *)
Silence(s, x) ==
  LET next == IF health[s][x] = "ok" THEN "late" ELSE "down"
  IN  /\ s \in up /\ x \in Watched(s) /\ ~Reach(s, x)
      /\ health[s][x] # "down" /\ (next = "down" => ~view[s].tilt)
      /\ health' = [health EXCEPT ![s][x] = next]
      /\ replies' = {m \in replies : <<m.to, m.from>> # <<s, x>>}
      /\ IF next = "down" /\ x \in Servers
         THEN /\ suspects' = [suspects EXCEPT ![x] = @ \cup {s}]
              /\ view' = [view EXCEPT ![s].fresh = @ /\ x # view[s].addr]
         ELSE UNCHANGED <<suspects, view>>
      /\ UNCHANGED <<up, of, run, cut, orders, left>>

(* A server executes SLAVEOF. *)
Execute(s, r) ==
  /\ Reach(s, r) /\ orders[s][r] # <<>>
  /\ of' = [of EXCEPT ![r] = Head(orders[s][r])]
  /\ orders' = [orders EXCEPT ![s][r] = Tail(@)]
  /\ UNCHANGED <<up, run, cut, replies, view, health, suspects, left>>

------------------------------------------------------------------------------
(* Faults and administrator commands, each within its budget. *)

Crash(x) ==
  /\ x \in up \cap Faulty /\ Spend("crash")
  /\ up' = up \ {x}
  /\ orders' = [s \in Sentinels |-> [r \in Servers |-> IF r = x THEN <<>> ELSE orders[s][r]]]
  /\ replies' = {m \in replies : m.to # x}
  /\ UNCHANGED <<of, run, cut, view, health, suspects>>

(* A server starts again with the role its configuration file names.       *)
Restart(r) ==
  /\ r \notin up /\ Spend("restart")
  /\ up' = up \cup {r}
  /\ of' = [of EXCEPT ![r] = IF r = First THEN None ELSE First]
  /\ run' = [run EXCEPT ![r] = @ + 1]
  /\ UNCHANGED <<cut, orders, replies, view, health, suspects>>

Cut(s, x) ==
  /\ x \in Faulty \ {s} /\ <<s, x>> \notin cut /\ Spend("cut")
  /\ cut' = cut \cup {<<s, x>>}
  /\ UNCHANGED <<up, of, run, orders, replies, view, health, suspects>>

Heal(s, x) ==
  /\ <<s, x>> \in cut
  /\ cut' = cut \ {<<s, x>>}
  /\ UNCHANGED <<up, of, run, orders, replies, view, health, suspects, left>>

Tilt(s) ==
  /\ s \in up /\ ~view[s].tilt /\ Spend("tilt")
  /\ view' = [view EXCEPT ![s].tilt = TRUE]
  /\ UNCHANGED <<up, of, run, cut, orders, replies, health, suspects>>

(* SENTINEL RESET *)
ResetMaster(s) ==
  /\ s \in up /\ Spend("admin")
  /\ view' = [view EXCEPT ![s] = Reset(@, @.addr)]
  /\ Relink(s, TRUE)
  /\ UNCHANGED <<up, of, run, cut, orders, suspects>>

(* SENTINEL FAILOVER *)
ForceFailover(s) ==
  /\ s \in up /\ Spend("admin")
  /\ ~view[s].inProgress /\ SelectSlave(s, view[s], {}) # None
  /\ view' = [view EXCEPT ![s] = [StartFailover(@, "wait_start") EXCEPT !.forced = TRUE]]
  /\ UNCHANGED <<up, of, run, cut, orders, replies, health, suspects>>

Next ==
  \/ \E s \in Sentinels :
       \/ TimerRuns(s, Elapsed(s)) \/ TimesOutEarly(s)
       \/ \E x \in Servers : \E link \in {FALSE, Linked(x)} : Info(s, x, link) \/ DelayInfo(s, x, link)
       \/ \E p \in Sentinels : Ask(s, p) \/ DelayAnswer(s, p) \/ ReceiveHello(s, p)
       \/ \E x \in Sentinels \cup Servers : Hear(s, x) \/ Silence(s, x) \/ Cut(s, x) \/ Heal(s, x)
       \/ \E r \in Servers : Execute(s, r)
       \/ Tilt(s) \/ ResetMaster(s) \/ ForceFailover(s)
  \/ \E m \in replies : Deliver(m)
  \/ \E x \in Sentinels \cup Servers : Crash(x)
  \/ \E r \in Servers : Restart(r)

(* The timer runs ten times a second, an instance that is reached answers, *)
(* and a written command is executed: weak fairness of each.  For the two  *)
(* actions whose ENABLED is costly the condition is spelled out: again and *)
(* again the action has nothing to change, or it happens.                  *)
TimerIdle(s, age) ==
  \/ s \notin up
  \/ age # "now" /\ ~Settled(s)
  \/ NothingNew(s, AfterTimer(s, age, {}))

InfoIdle(s) ==
  \A x \in Servers : Answered(s, x, Linked(x)) =>
    NothingNew(s, Refreshed(s, view[s], InfoOf(s, x, Linked(x)), TRUE))

Fairness ==
  \A s \in Sentinels :
    LET own == <<view[s], orders[s]>>   \* what a sentinel's timer and INFO replies change
    IN  /\ \A age \in {"now", "retry"} :
             []<>TimerIdle(s, age) \/ []<><<TimerRuns(s, {age} \cap Elapsed(s))>>_own
        /\ []<>InfoIdle(s) \/ []<><<\E x \in Servers : Info(s, x, Linked(x))>>_own
        /\ WF_<<health[s]>>(\E x \in Sentinels \cup Servers : Hear(s, x) \/ Silence(s, x))
        /\ WF_own(\E p \in Sentinels : Ask(s, p) \/ ReceiveHello(s, p))
        /\ WF_own(\E r \in Servers : Execute(s, r))

Spec == Init /\ [][Next]_vars /\ Fairness

------------------------------------------------------------------------------
States == {"none", "wait_start", "select_slave", "send_slaveof_noone", "wait_promotion",
           "reconf_slaves", "detect_end", "update_config"}

(* Every sentinel's table is well formed: it monitors servers, its slaves  *)
(* and the promoted one are servers, and its peers are other sentinels.    *)
TypeOK ==
  /\ up \subseteq Sentinels \cup Servers
  /\ of \in [Servers -> Servers \cup {None}]
  /\ \A s \in Sentinels :
       LET v == view[s]
       IN  /\ v.addr \in Servers /\ v.state \in States \ {"update_config"}
           /\ DOMAIN v.slaves \subseteq Servers /\ DOMAIN v.peers \subseteq Sentinels \ {s}
           /\ v.promoted \in DOMAIN v.slaves \cup {None}
           /\ \A r \in DOMAIN v.slaves :
                v.slaves[r].reconf \in {"none", "sent", "inprog", "done"}

(* The promoted slave is there wherever the code follows the pointer: in   *)
(* the states that send to it or wait for it, and while any slave is being *)
(* reconfigured, when an INFO reply is compared with its address.  (With    *)
(* the tables well formed, TypeOK.)                                        *)
PromotedIsKnown ==
  TypeOK /\ \A s \in Sentinels :
    LET v == view[s]
    IN  \/ v.state \in {"send_slaveof_noone", "wait_promotion", "reconf_slaves", "detect_end"}
        \/ \E r \in DOMAIN v.slaves : v.slaves[r].reconf \in {"sent", "inprog"}
        => v.promoted \in DOMAIN v.slaves

(* Refuted with three sentinels and a quorum of two: no two sentinels lead *)
(* an unforced failover of the same master at once.  One that changed its  *)
(* mind is counted for both.  (sentinel.c:2400-2435, 2449-2512, 2578-2582) *)
OneLeader ==
  \A s, p \in Sentinels \cap up :
    /\ s # p /\ view[s].leads /\ view[p].leads
    /\ view[s].addr = view[p].addr
    => view[s].forced \/ view[p].forced

(* A sentinel starts a failover on its own only for a master that, at some *)
(* time or other, as many sentinels as the quorum asks believed down, each *)
(* by itself: an answer given about another master never counts for this   *)
(* one.  (One that was withdrawn counts until the next, for five seconds.) *)
(* (sentinel.c:2272-2305, 2309-2336, 2339-2392, 2559-2612)                 *)
FailoverNeedsQuorum ==
  [][\A s \in Sentinels :
       (~view[s].leads /\ view'[s].state = "wait_start" /\ ~view'[s].forced)
         => Cardinality(suspects[view[s].addr]) >= Quorum]_vars

OnlyACrash == \A k \in DOMAIN left : k \notin {"crash", "any"} => left[k] = Budget[k]

Agreed ==
  \E m \in Servers \cap up :
    /\ of[m] = None
    /\ \A s \in Sentinels \cap up : MasterAddr(s) = m /\ view[s].state = "none"
    /\ \A r \in (Servers \cap up) \ {m} : of[r] = m

(* When the only fault is one crash, the sentinels that run end up with    *)
(* the same live master and every live slave replicates it.  (With time    *)
(* for what is under way: no period is over early.)                        *)
Converges == []OnlyACrash => <>[]Agreed
=============================================================================
