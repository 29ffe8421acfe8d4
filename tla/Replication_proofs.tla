-------------------------- MODULE Replication_proofs --------------------------
(* Proofs about Replication, for any servers, deployments and budgets:      *)
(* first that a server that resynchronizes has no clients, then what replay *)
(* means, what each step does to the clients, that links keep numbers of    *)
(* their own, and with all that that every client is promised, or has had   *)
(* delivered, the dataset of its master.                                    *)
EXTENDS Replication, FiniteSetTheorems, SequenceTheorems, WellFoundedInduction, TLAPS

(* The types of what the proof is about.                                    *)
LinksTyped ==
    /\ shape \in Shapes
    /\ masterhost \in [Servers -> Servers \cup {None}]
    /\ replstate \in [Servers -> Roles]
    /\ slaves = [s \in Servers |-> slaves[s]]

(* A server has a link to make exactly when it has a master.  A server that *)
(* gives its link up relies on it: it can only be one that has a master.    *)
LinksHaveMasters == \A s \in Servers : masterhost[s] = None <=> replstate[s] = "none"

(* The inductive invariant: NobodyFedWhileResyncing alone would not survive *)
(* the end of a link.                                                       *)
IInv == LinksTyped /\ LinksHaveMasters /\ NobodyFedWhileResyncing

-----------------------------------------------------------------------------
(* Nobody is fed by a server without clients, and nobody is told of the end *)
(* of a save.                                                               *)
LEMMA NoneFed ==
    ASSUME NEW db, NEW cmd
    PROVE  replicationFeedSlaves(<<>>, db, cmd) = <<>>
  BY DEF replicationFeedSlaves

(* A server with no clients tells nobody that a save ended.                 *)
LEMMA NoneTold ==
    ASSUME NEW ok, NEW file
    PROVE  updateSlavesWaitingBgsave(<<>>, ok, file) = <<>>
  BY DEF updateSlavesWaitingBgsave

(* The clients of a server that resynchronizes are none, so that a step that *)
(* changes the clients of servers that have some, or the links of none,     *)
(* preserves the invariant.                                                 *)
LEMMA ClientsChange ==
    ASSUME IInv, slaves' = [s \in Servers |-> slaves'[s]],
           UNCHANGED <<shape, masterhost, replstate>>,
           \A s \in Servers : slaves[s] = <<>> => \/ slaves'[s] = <<>>
                                                  \/ masterhost[s] = None
                                                  \/ replstate[s] = "connected"
    PROVE  IInv'
  BY DEF IInv, LinksTyped, LinksHaveMasters, NobodyFedWhileResyncing

(* A server s changes its link: to a master m, if any, with its clients.    *)
LEMMA LinkChange ==
    ASSUME IInv, UNCHANGED shape,
           NEW s \in Servers, NEW m \in Servers \cup {None}, NEW r \in Roles, NEW l,
           masterhost' = [masterhost EXCEPT ![s] = m],
           replstate' = [replstate EXCEPT ![s] = r],
           slaves' = [slaves EXCEPT ![s] = l],
           m = None <=> r = "none",
           m # None /\ r # "connected" => l = <<>>
    PROVE  IInv'
  BY DEF IInv, LinksTyped, LinksHaveMasters, NobodyFedWhileResyncing

-----------------------------------------------------------------------------
(* The invariant holds at the start.                                        *)
LEMMA IInvInit == Init => IInv
  BY ShapesAssumption
  DEF Init, IInv, LinksTyped, LinksHaveMasters, NobodyFedWhileResyncing, Roles

-----------------------------------------------------------------------------
(* A command feeds the clients of the server that executes it.              *)
LEMMA ExecuteStep ==
    ASSUME IInv, NEW s \in Servers, NEW db, NEW cmd, Execute(s, db, cmd),
           UNCHANGED <<shape, masterhost, replstate>>
    PROVE  IInv'
  <1>1. slaves' = [slaves EXCEPT ![s] = replicationFeedSlaves(@, db, cmd)]
    BY DEF Execute
  <1>2. slaves' = [t \in Servers |-> slaves'[t]]
    BY <1>1 DEF IInv, LinksTyped
  <1>3. \A t \in Servers : slaves[t] = <<>> => slaves'[t] = <<>>
    BY <1>1, NoneFed DEF IInv, LinksTyped
  <1> QED  BY <1>2, <1>3, ClientsChange

(* SYNC makes a client a slave: a server that is not in sync with its       *)
(* master refuses it.                                                       *)
LEMMA SyncStep ==
    ASSUME IInv, NEW m \in Servers, syncCommand(m)
    PROVE  IInv'
  <1>1. UNCHANGED <<shape, masterhost, replstate>>
    BY DEF syncCommand
  <1>2. /\ slaves' = [t \in Servers |-> slaves'[t]]
        /\ \A t \in Servers \ {m} : slaves'[t] = slaves[t]
        /\ slaves'[m] = slaves[m] \/ masterhost[m] = None \/ replstate[m] = "connected"
    BY DEF syncCommand, IInv, LinksTyped
  <1> QED  BY <1>1, <1>2, ClientsChange

(* The end of a save changes clients that are there, and so do the end of a *)
(* bulk and of a client.                                                    *)
LEMMA ClientStep ==
    ASSUME IInv, NEW m \in Servers,
           backgroundSaveDoneHandler(m) \/ sendBulkToSlave(m) \/ freeSlave(m)
    PROVE  IInv'
  <1>1. UNCHANGED <<shape, masterhost, replstate>>
    BY DEF backgroundSaveDoneHandler, sendBulkToSlave, freeSlave
  <1>2. /\ slaves' = [t \in Servers |-> slaves'[t]]
        /\ \A t \in Servers : slaves[t] = <<>> => slaves'[t] = <<>>
    <2>1. CASE backgroundSaveDoneHandler(m)
      BY <2>1, NoneTold DEF backgroundSaveDoneHandler, IInv, LinksTyped
    <2>2. CASE sendBulkToSlave(m)
      <3>1. PICK i \in DOMAIN slaves[m] : slaves' = [slaves EXCEPT ![m][i].state = "online"]
        BY <2>2 DEF sendBulkToSlave
      <3>2. slaves[m] # <<>>
        BY <3>1
      <3> QED  BY <3>1, <3>2 DEF IInv, LinksTyped
    <2>3. CASE freeSlave(m)
      <3>1. PICK i \in DOMAIN slaves[m] : slaves' = [slaves EXCEPT ![m] = RemoveAt(@, i)]
        BY <2>3 DEF freeSlave
      <3>2. slaves[m] # <<>>
        BY <3>1
      <3> QED  BY <3>1, <3>2 DEF IInv, LinksTyped
    <2> QED  BY <2>1, <2>2, <2>3
  <1> QED  BY <1>1, <1>2, ClientsChange

-----------------------------------------------------------------------------
(* A link is given up: only a server with a master has one.                 *)
LEMMA UnlinkStep ==
    ASSUME IInv, NEW s \in Servers, Unlink(s), replstate[s] # "none",
           UNCHANGED <<shape, masterhost>>
    PROVE  IInv'
  <1>1. slaves' = [slaves EXCEPT ![s] = <<>>]
    BY DEF Unlink, IInv, LinksTyped, LinksHaveMasters, NobodyFedWhileResyncing
  <1>2. /\ masterhost' = [masterhost EXCEPT ![s] = masterhost[s]]
        /\ masterhost[s] \in Servers \cup {None} /\ masterhost[s] # None
    BY DEF IInv, LinksTyped, LinksHaveMasters
  <1>3. replstate' = [replstate EXCEPT ![s] = "connect"]
    BY DEF Unlink
  <1> QED  BY <1>1, <1>2, <1>3, LinkChange DEF Roles

(* A link on its way to "connected" goes one state further, while the       *)
(* server has no clients.                                                   *)
LEMMA LinkStepKeeps ==
    ASSUME IInv, NEW s \in Servers,
           connectWithMaster(s) \/ syncWithMaster(s)
    PROVE  IInv'
  <1>1. PICK r \in Roles \ {"none", "connected"} : replstate' = [replstate EXCEPT ![s] = r]
    BY DEF connectWithMaster, syncWithMaster, Roles
  <1>2. replstate[s] \notin {"none", "connected"} /\ UNCHANGED <<shape, masterhost, slaves>>
    BY DEF connectWithMaster, syncWithMaster
  <1>3. /\ slaves' = [slaves EXCEPT ![s] = <<>>]
        /\ masterhost' = [masterhost EXCEPT ![s] = masterhost[s]]
        /\ masterhost[s] \in Servers \cup {None} /\ masterhost[s] # None
    BY <1>2 DEF IInv, LinksTyped, LinksHaveMasters, NobodyFedWhileResyncing
  <1> QED  BY <1>1, <1>2, <1>3, LinkChange

(* The dump of the master is loaded: the server is in sync, and its master  *)
(* has a client, so that it is in sync itself.                              *)
LEMMA LoadStep ==
    ASSUME IInv, NEW s \in Servers, readSyncBulkPayload(s)
    PROVE  IInv'
  <1>1. /\ UNCHANGED <<shape, masterhost>>
        /\ replstate[s] = "transfer"
        /\ replstate' = [replstate EXCEPT ![s] = "connected"]
    BY DEF readSyncBulkPayload
  <1>2. masterhost[s] \in Servers
    BY <1>1 DEF IInv, LinksTyped, LinksHaveMasters
  <1>3. /\ slaves' = [t \in Servers |-> slaves'[t]]
        /\ \A t \in Servers : slaves[t] = <<>> => slaves'[t] = <<>>
    <2>1. PICK i \in DOMAIN slaves[masterhost[s]] :
              slaves' = [slaves EXCEPT ![masterhost[s]][i].bulk = <<>>]
      BY DEF readSyncBulkPayload, Mine
    <2>2. slaves[masterhost[s]] # <<>>
      BY <2>1
    <2> QED  BY <1>2, <2>1, <2>2 DEF IInv, LinksTyped
  <1> QED
    BY <1>1, <1>2, <1>3
    DEF IInv, LinksTyped, LinksHaveMasters, NobodyFedWhileResyncing, Roles

(* A command of the master's stream takes it from the master's buffer, and  *)
(* feeds the server's own clients.                                          *)
LEMMA ReadStep ==
    ASSUME IInv, NEW s \in Servers, ReadCommand(s)
    PROVE  IInv'
  <1>1. UNCHANGED <<shape, masterhost, replstate>> /\ replstate[s] = "connected"
    BY DEF ReadCommand
  <1>2. masterhost[s] \in Servers
    BY <1>1 DEF IInv, LinksTyped, LinksHaveMasters
  <1>3. PICK i \in DOMAIN slaves[masterhost[s]] :
            LET m == masterhost[s]
                cmd == Head(slaves[m][i].out)
                read == [slaves EXCEPT ![m][i].out = Tail(@)]
            IN  \/ slaves' = read
                \/ slaves' = [read EXCEPT ![s] = replicationFeedSlaves(@, masterdb[s], cmd)]
    BY DEF ReadCommand, Mine
  <1>4. slaves' = [t \in Servers |-> slaves'[t]]
    BY <1>2, <1>3 DEF IInv, LinksTyped
  <1>5. \A t \in Servers : slaves[t] = <<>> => slaves'[t] = <<>> \/ replstate[t] = "connected"
    BY <1>1, <1>2, <1>3 DEF IInv, LinksTyped
  <1> QED  BY <1>1, <1>4, <1>5, ClientsChange

-----------------------------------------------------------------------------
(* The operator, and a crash.                                               *)
LEMMA SlaveofStep ==
    ASSUME IInv, NEW s \in Servers, slaveofCommand(s)
    PROVE  IInv'
  <1>1. PICK m : /\ m \in {pair[2] : pair \in {p \in shape.may : p[1] = s}}
                 /\ masterhost' = [masterhost EXCEPT ![s] = m]
                 /\ replstate' = [replstate EXCEPT ![s] = IF m = None THEN "none" ELSE "connect"]
                 /\ slaves' = [slaves EXCEPT ![s] = IF m = None THEN @ ELSE <<>>]
    BY DEF slaveofCommand
  <1>2. m \in Servers \cup {None}
    BY <1>1, ShapesAssumption DEF IInv, LinksTyped
  <1>3. UNCHANGED shape
    BY DEF slaveofCommand
  <1>4. CASE m = None
    BY <1>1, <1>2, <1>3, <1>4, LinkChange DEF Roles, IInv, LinksTyped
  <1>5. CASE m # None
    BY <1>1, <1>2, <1>3, <1>5, LinkChange DEF Roles
  <1> QED  BY <1>4, <1>5

(* A server that crashes comes back with no clients and all its links down. *)
LEMMA CrashStep ==
    ASSUME IInv, NEW s \in Servers, CrashAndRestart(s)
    PROVE  IInv'
  <1> DEFINE m == shape.masterhost[s]
  <1>1. m \in Servers \cup {None}
    BY ShapesAssumption DEF IInv, LinksTyped
  <1>2. /\ UNCHANGED shape
        /\ masterhost' = [masterhost EXCEPT ![s] = m]
        /\ replstate' = [replstate EXCEPT ![s] = IF m = None THEN "none" ELSE "connect"]
        /\ slaves' = [slaves EXCEPT ![s] = <<>>]
    BY DEF CrashAndRestart
  <1> HIDE DEF m
  <1>3. CASE m = None
    BY <1>1, <1>2, <1>3, LinkChange DEF Roles
  <1>4. CASE m # None
    BY <1>1, <1>2, <1>4, LinkChange DEF Roles
  <1> QED  BY <1>3, <1>4

-----------------------------------------------------------------------------
(* Every step keeps the invariant.                                          *)
LEMMA IInvStep == IInv /\ [Next]_vars => IInv'
  <1> SUFFICES ASSUME IInv, [Next]_vars PROVE IInv'
    OBVIOUS
  <1>1. CASE UNCHANGED vars
    BY <1>1 DEF vars, IInv, LinksTyped, LinksHaveMasters, NobodyFedWhileResyncing
  <1>2. ASSUME NEW s \in Servers, Write(s) PROVE IInv'
    BY <1>2, ExecuteStep DEF Write
  <1>3. ASSUME NEW s \in Servers, Flush(s) PROVE IInv'
    BY <1>3, ExecuteStep DEF Flush
  <1>4. ASSUME NEW s \in Servers, syncCommand(s) PROVE IInv'
    BY <1>4, SyncStep
  <1>5. ASSUME NEW s \in Servers, rdbSaveBackground(s) \/ ChildEnds(s) PROVE IInv'
    BY <1>5 DEF rdbSaveBackground, ChildEnds, IInv, LinksTyped, LinksHaveMasters,
                NobodyFedWhileResyncing
  <1>6. ASSUME NEW s \in Servers,
               backgroundSaveDoneHandler(s) \/ sendBulkToSlave(s) \/ freeSlave(s)
        PROVE  IInv'
    BY <1>6, ClientStep
  <1>7. ASSUME NEW s \in Servers, connectWithMaster(s) \/ syncWithMaster(s) PROVE IInv'
    BY <1>7, LinkStepKeeps
  <1>8. ASSUME NEW s \in Servers, readSyncBulkPayload(s) PROVE IInv'
    BY <1>8, LoadStep
  <1>9. ASSUME NEW s \in Servers, ReadCommand(s) PROVE IInv'
    BY <1>9, ReadStep
  <1>10. ASSUME NEW s \in Servers, LinkClosed(s) \/ LinkFails(s) PROVE IInv'
    BY <1>10, UnlinkStep DEF LinkClosed, LinkFails, Linked
  <1>11. ASSUME NEW s \in Servers, slaveofCommand(s) PROVE IInv'
    BY <1>11, SlaveofStep
  <1>12. ASSUME NEW s \in Servers, CrashAndRestart(s) PROVE IInv'
    BY <1>12, CrashStep
  <1> QED
    BY <1>1, <1>2, <1>3, <1>4, <1>5, <1>6, <1>7, <1>8, <1>9, <1>10, <1>11, <1>12 DEF Next

(* Nobody is fed by a server whose own dataset is about to be replaced,     *)
(* whatever is connected to what and whatever fails.  (networking.c:653-661,*)
(* replication.c:122-127, 728-765)                                          *)
THEOREM NobodyFed == Spec => []NobodyFedWhileResyncing
  <1>1. IInv => NobodyFedWhileResyncing
    BY DEF IInv
  <1> QED  BY IInvInit, IInvStep, <1>1, PTL DEF Spec

-----------------------------------------------------------------------------
(* Replaying commands                                                       *)

(* A set of naturals that is not empty has a least element ...              *)
LEMMA LeastOf ==
    ASSUME NEW S, S \subseteq Nat, S # {}
    PROVE  \E n \in S : \A k \in S : n <= k
  <1>1. PICK n \in S : \A k \in S : ~(<<k, n>> \in OpToRel(<, Nat))
    BY NatLessThanWellFounded, WFMin
  <1>2. \A k \in S : k < n => <<k, n>> \in OpToRel(<, Nat)
    <2>1. OpToRel(<, Nat) = {p \in Nat \X Nat : p[1] < p[2]}
      BY Zenon DEF OpToRel
    <2>2. \A k \in S : k < n => <<k, n>> \in {p \in Nat \X Nat : p[1] < p[2]}
      OBVIOUS
    <2> QED  BY <2>1, <2>2, Zenon
  <1>3. \A k \in S : ~(k < n)
    BY <1>1, <1>2, Zenon
  <1> QED  BY <1>3

(* ... which is the one Min chooses.                                        *)
LEMMA MinIs ==
    ASSUME NEW S, S \subseteq Nat, S # {}
    PROVE  Min(S) \in S
  BY LeastOf DEF Min

(* Induction over the naturals, for a set in the place of a predicate.      *)
LEMMA SetInduction ==
    ASSUME NEW P, P \subseteq Nat, 0 \in P, \A n \in P : n + 1 \in P
    PROVE  P = Nat
  <1> SUFFICES ASSUME P # Nat PROVE FALSE
    OBVIOUS
  <1>1. PICK n \in Nat \ P : \A k \in Nat \ P : n <= k
    BY LeastOf
  <1>2. n # 0 /\ n - 1 \in P /\ (n - 1) + 1 = n
    BY <1>1
  <1> QED  BY <1>1, <1>2

(* A state of a replay.                                                     *)
St(data_, db_) == [data |-> data_, db |-> db_]

(* The states of a replay, one after each command.                          *)
Replays(start, cmds, n, st) ==
    st = [i \in 0 .. n |-> IF i = 0 THEN start ELSE Step(st[i - 1], cmds[i])]

(* There is such a function, built one command at a time.                   *)
LEMMA ReplaysExist ==
    ASSUME NEW start, NEW cmds, NEW n \in Nat
    PROVE  \E st : Replays(start, cmds, n, st)
  <1> DEFINE P == {k \in Nat : \E st : Replays(start, cmds, k, st)}
  <1>1. 0 \in P
    <2>1. Replays(start, cmds, 0, [i \in 0 .. 0 |-> start])
      BY DEF Replays
    <2> QED  BY <2>1
  <1>2. ASSUME NEW k \in P PROVE k + 1 \in P
    <2>1. PICK st : Replays(start, cmds, k, st)
      OBVIOUS
    <2> DEFINE more == [i \in 0 .. k + 1 |-> IF i <= k THEN st[i] ELSE Step(st[k], cmds[k + 1])]
    <2>2. \A i \in 0 .. k : st[i] = IF i = 0 THEN start ELSE Step(st[i - 1], cmds[i])
      BY <2>1 DEF Replays
    <2>3. ASSUME NEW i \in 0 .. k + 1
          PROVE  more[i] = IF i = 0 THEN start ELSE Step(more[i - 1], cmds[i])
      <3>1. CASE i <= k
        <4>1. more[i] = st[i] /\ (i # 0 => more[i - 1] = st[i - 1])
          BY <3>1
        <4> QED  BY <2>2, <3>1, <4>1
      <3>2. CASE i = k + 1
        <4>1. more[i] = Step(st[k], cmds[k + 1]) /\ more[i - 1] = st[k] /\ i # 0
          BY <3>2
        <4> QED  BY <3>2, <4>1
      <3> QED  BY <3>1, <3>2
    <2>4. more = [i \in 0 .. k + 1 |-> more[i]]
      OBVIOUS
    <2> HIDE DEF more
    <2>5. Replays(start, cmds, k + 1, more)
      BY <2>3, <2>4 DEF Replays
    <2> QED  BY <2>5
  <1>3. P = Nat
    BY <1>1, <1>2, SetInduction
  <1> QED  BY <1>3

(* Replay gives the last of them.                                           *)
LEMMA ReplayIs ==
    ASSUME NEW from, NEW db, NEW cmds \in Seq(Commands)
    PROVE  \E st : /\ Replays(St(from, db), cmds, Len(cmds), st)
                   /\ Replay(from, db, cmds) = st[Len(cmds)]
  <1> DEFINE st == CHOOSE f : Replays(St(from, db), cmds, Len(cmds), f)
  <1>1. Replay(from, db, cmds) = st[Len(cmds)]
    BY DEF Replay, Replays, St
  <1>2. Len(cmds) \in Nat
    OBVIOUS
  <1>3. Replays(St(from, db), cmds, Len(cmds), st)
    BY <1>2, ReplaysExist
  <1> QED  BY <1>1, <1>3

(* Two replays that read the same commands, k apart, from the same state    *)
(* agree from there on.                                                     *)
LEMMA ReplaysAgree ==
    ASSUME NEW k \in Nat, NEW n \in Nat,
           NEW start, NEW cmds, NEW st, Replays(start, cmds, k + n, st),
           NEW begin, NEW more, NEW tt, NEW l \in Nat, n <= l, Replays(begin, more, l, tt),
           st[k] = begin, \A i \in 1 .. n : cmds[k + i] = more[i]
    PROVE  st[k + n] = tt[n]
  <1> DEFINE P == {i \in Nat : i <= n => st[k + i] = tt[i]}
  <1>1. /\ \A i \in 1 .. k + n : st[i] = Step(st[i - 1], cmds[i])
        /\ tt[0] = begin /\ \A i \in 1 .. l : tt[i] = Step(tt[i - 1], more[i])
    BY DEF Replays
  <1>2. 0 \in P
    BY <1>1
  <1>3. ASSUME NEW i \in P PROVE i + 1 \in P
    <2>1. CASE i + 1 <= n
      <3>1. st[k + i] = tt[i] /\ cmds[k + (i + 1)] = more[i + 1]
        BY <2>1
      <3>2. k + (i + 1) \in 1 .. k + n /\ i + 1 \in 1 .. l
        BY <2>1
      <3>3. (k + (i + 1)) - 1 = k + i /\ (i + 1) - 1 = i
        OBVIOUS
      <3>4. st[k + (i + 1)] = Step(st[k + i], cmds[k + (i + 1)]) /\ tt[i + 1] = Step(tt[i], more[i + 1])
        BY <1>1, <3>2, <3>3
      <3>5. st[k + (i + 1)] = tt[i + 1]
        BY <3>1, <3>4
      <3> QED  BY <3>5
    <2> QED  BY <2>1
  <1>4. P = Nat
    BY <1>2, <1>3, SetInduction
  <1> QED  BY <1>4

(* Nothing to replay.                                                       *)
LEMMA ReplayNothing ==
    ASSUME NEW from, NEW db
    PROVE  Replay(from, db, <<>>) = St(from, db)
  <1>1. <<>> \in Seq(Commands) /\ Len(<<>>) = 0
    OBVIOUS
  <1>2. PICK st : /\ Replays(St(from, db), <<>>, 0, st)
                  /\ Replay(from, db, <<>>) = st[0]
    BY <1>1, ReplayIs
  <1> QED  BY <1>2 DEF Replays

(* One command more is one step more.                                       *)
LEMMA ReplayAppend ==
    ASSUME NEW from, NEW db, NEW cmds \in Seq(Commands), NEW cmd \in Commands
    PROVE  Replay(from, db, Append(cmds, cmd)) = Step(Replay(from, db, cmds), cmd)
  <1> DEFINE n == Len(cmds)
             all == Append(cmds, cmd)
             start == St(from, db)
  <1>1. n \in Nat /\ all \in Seq(Commands) /\ Len(all) = n + 1 /\ all[n + 1] = cmd
        /\ \A i \in 1 .. n : all[i] = cmds[i]
    OBVIOUS
  <1> HIDE DEF n, all, start
  <1>2. PICK st : Replays(start, cmds, n, st) /\ Replay(from, db, cmds) = st[n]
    BY ReplayIs DEF n, start
  <1>3. PICK tt : Replays(start, all, n + 1, tt) /\ Replay(from, db, all) = tt[n + 1]
    BY <1>1, ReplayIs DEF start
  <1>4. st[0] = start
    BY <1>1, <1>2 DEF Replays
  <1>5. st[n] = tt[n]
    <2>1. Replays(start, cmds, 0 + n, st) /\ 0 + n = n /\ n <= n + 1 /\ n + 1 \in Nat
      BY <1>1, <1>2
    <2>2. \A i \in 1 .. n : cmds[0 + i] = all[i]
      BY <1>1
    <2> QED  BY <1>1, <1>3, <1>4, <2>1, <2>2, ReplaysAgree
  <1>6. tt[n + 1] = Step(tt[n], all[n + 1])
    <2>1. n + 1 \in 0 .. n + 1 /\ n + 1 # 0 /\ (n + 1) - 1 = n
      BY <1>1
    <2> QED  BY <1>3, <2>1 DEF Replays
  <1> QED  BY <1>1, <1>2, <1>3, <1>5, <1>6 DEF all

(* The first command executed, the rest replayed.                           *)
LEMMA ReplayTail ==
    ASSUME NEW from, NEW db, NEW cmds \in Seq(Commands), cmds # <<>>, NEW to, NEW next,
           Step(St(from, db), Head(cmds)) = St(to, next)
    PROVE  Replay(to, next, Tail(cmds)) = Replay(from, db, cmds)
  <1> DEFINE n == Len(Tail(cmds))
             rest == Tail(cmds)
             start == St(from, db)
             begin == St(to, next)
  <1>1. n \in Nat /\ rest \in Seq(Commands) /\ Len(cmds) = 1 + n /\ cmds[1] = Head(cmds)
        /\ \A i \in 1 .. n : cmds[1 + i] = rest[i]
    OBVIOUS
  <1>2. Step(start, cmds[1]) = begin
    BY <1>1
  <1> HIDE DEF n, rest, start, begin
  <1>3. PICK st : Replays(start, cmds, 1 + n, st) /\ Replay(from, db, cmds) = st[1 + n]
    BY <1>1, ReplayIs DEF start
  <1>4. PICK tt : Replays(begin, rest, n, tt) /\ Replay(to, next, rest) = tt[n]
    BY <1>1, ReplayIs DEF n, rest, begin
  <1>5. st[1] = begin
    <2>1. 0 \in 0 .. 1 + n /\ 1 \in 0 .. 1 + n /\ 1 - 1 = 0
      BY <1>1
    <2>2. st[0] = start /\ st[1] = Step(st[0], cmds[1])
      BY <1>3, <2>1 DEF Replays
    <2> QED  BY <1>2, <2>2
  <1>6. st[1 + n] = tt[n]
    BY <1>1, <1>3, <1>4, <1>5, ReplaysAgree
  <1> QED  BY <1>3, <1>4, <1>6 DEF rest

(* What a command does to a dataset and the database selected.              *)
LEMMA SelectIs ==
    ASSUME NEW x, NEW d, NEW cmd, cmd.op = "select"
    PROVE  Step(St(x, d), cmd) = St(x, cmd.n)
  BY DEF Step, St

(* A write is added to the dataset.                                         *)
LEMMA WriteIs ==
    ASSUME NEW x, NEW d, NEW cmd, cmd.op = "write"
    PROVE  Step(St(x, d), cmd) = St(Append(x, <<d, cmd.n>>), d)
  BY DEF Step, St

(* FLUSHALL empties it.                                                     *)
LEMMA FlushIs ==
    ASSUME NEW x, NEW d, NEW cmd, cmd.op = "flushall"
    PROVE  Step(St(x, d), cmd) = St(<<>>, d)
  BY DEF Step, St

(* Two states with the same database selected.                              *)
Alike(a, b) == \E x, y, d : a = St(x, d) /\ b = St(y, d)

(* They are, whatever the datasets.                                         *)
LEMMA AlikeAre ==
    ASSUME NEW x, NEW y, NEW d
    PROVE  Alike(St(x, d), St(y, d))
  BY Zenon DEF Alike

(* A command leaves them so.                                                *)
LEMMA StepsAlike ==
    ASSUME NEW a, NEW b, Alike(a, b), NEW cmd \in Commands
    PROVE  Alike(Step(a, cmd), Step(b, cmd))
  <1>1. PICK x, y, d : a = St(x, d) /\ b = St(y, d)
    BY Zenon DEF Alike
  <1>2. cmd.op \in {"select", "write", "flushall"}
    BY DEF Commands
  <1>3. CASE cmd.op = "select"
    <2>1. Step(a, cmd) = St(x, cmd.n) /\ Step(b, cmd) = St(y, cmd.n)
      BY <1>1, <1>3, SelectIs
    <2> QED  BY <2>1, AlikeAre
  <1>4. CASE cmd.op = "write"
    <2>1. /\ Step(a, cmd) = St(Append(x, <<d, cmd.n>>), d)
          /\ Step(b, cmd) = St(Append(y, <<d, cmd.n>>), d)
      BY <1>1, <1>4, WriteIs
    <2> QED  BY <2>1, AlikeAre
  <1>5. CASE cmd.op = "flushall"
    <2>1. Step(a, cmd) = St(<<>>, d) /\ Step(b, cmd) = St(<<>>, d)
      BY <1>1, <1>5, FlushIs
    <2> QED  BY <2>1, AlikeAre
  <1> QED  BY <1>2, <1>3, <1>4, <1>5

(* The database selected at the end does not depend on the dataset at the   *)
(* start.                                                                   *)
LEMMA ReplayElsewhere ==
    ASSUME NEW from, NEW other, NEW db, NEW cmds \in Seq(Commands)
    PROVE  Alike(Replay(from, db, cmds), Replay(other, db, cmds))
  <1> DEFINE n == Len(cmds)
  <1>1. PICK st : Replays(St(from, db), cmds, n, st) /\ Replay(from, db, cmds) = st[n]
    BY ReplayIs
  <1>2. PICK tt : Replays(St(other, db), cmds, n, tt) /\ Replay(other, db, cmds) = tt[n]
    BY ReplayIs
  <1>3. n \in Nat /\ \A i \in 1 .. n : cmds[i] \in Commands
    OBVIOUS
  <1> HIDE DEF n
  <1> DEFINE P == {i \in Nat : i <= n => Alike(st[i], tt[i])}
  <1>4. 0 \in P
    <2>1. st[0] = St(from, db) /\ tt[0] = St(other, db)
      BY <1>1, <1>2, <1>3 DEF Replays
    <2>2. Alike(st[0], tt[0])
      BY <2>1, Zenon DEF Alike
    <2> QED  BY <2>2
  <1>5. ASSUME NEW i \in P PROVE i + 1 \in P
    <2> SUFFICES ASSUME i + 1 <= n PROVE Alike(st[i + 1], tt[i + 1])
      OBVIOUS
    <2>1. i + 1 \in 0 .. n /\ i + 1 \in 1 .. n /\ (i + 1) - 1 = i /\ i + 1 # 0 /\ i <= n
      BY <1>3
    <2>2. st[i + 1] = Step(st[i], cmds[i + 1]) /\ tt[i + 1] = Step(tt[i], cmds[i + 1])
      BY <1>1, <1>2, <2>1 DEF Replays
    <2>3. Alike(st[i], tt[i]) /\ cmds[i + 1] \in Commands
      BY <1>3, <2>1
    <2> QED  BY <2>2, <2>3, StepsAlike
  <1>6. P = Nat
    BY <1>4, <1>5, SetInduction
  <1>7. Alike(st[n], tt[n])
    <2>1. n \in P
      BY <1>3, <1>6
    <2> QED  BY <1>3, <2>1
  <1> QED  BY <1>1, <1>2, <1>7

-----------------------------------------------------------------------------
(* What a client has been promised                                          *)

(* The commands a stream carries: it selects databases of the deployment.   *)
Stream(dbs) == {cmd \in Commands : cmd.op = "select" => cmd.n \in dbs}

(* The states of a client, in order.                                        *)
ClientStates == {"wait_bgsave_start", "wait_bgsave_end", "send_bulk", "online"}

(* A client that waits for a save has no dump yet; another has one at most. *)
Clients(dbs) ==
    {c \in [slave : Servers, try : Nat, state : ClientStates, db : dbs, out : Seq(Stream(dbs)),
           bulk : {<<>>} \cup {<<d>> : d \in Datasets}] :
        c.state \in {"wait_bgsave_start", "wait_bgsave_end"} => c.bulk = <<>>}

(* The saving child of a server: none, or one.                              *)
Children == {<<>>} \cup
    {<<k>> : k \in [status : {"running", "saved", "failed", "killed"}, snapshot : Datasets]}

(* What a client c is still to receive, replayed on a dataset, makes        *)
(* another, and leaves selected the database the master believes in.        *)
Reaches(from, db, c, to) == Replay(from, db, c.out) = St(to, c.db)

(* The dataset a command makes of another.                                  *)
After(to, db, cmd) == IF cmd.op = "write" THEN Append(to, <<db, cmd.n>>) ELSE <<>>

(* A command that is executed and fed to the clients.                       *)
Fedable(dbs) == {cmd \in Stream(dbs) : cmd.op \in {"write", "flushall"}}

(* The replays are over the same commands.                                  *)
LEMMA StreamCommands ==
    ASSUME NEW dbs, NEW cmds \in Seq(Stream(dbs))
    PROVE  cmds \in Seq(Commands)
  BY DEF Stream

(* A sequence with one element more.                                        *)
More(s, e) == Append(s, e)

(* Such a stream is one.                                                    *)
LEMMA MoreIs ==
    ASSUME NEW dbs, NEW cmds \in Seq(Stream(dbs)), NEW cmd \in Stream(dbs)
    PROVE  More(cmds, cmd) \in Seq(Stream(dbs))
  BY DEF More

(* It is replayed one command further.                                      *)
LEMMA ReplayMore ==
    ASSUME NEW dbs, NEW cmds \in Seq(Stream(dbs)), NEW cmd \in Stream(dbs), NEW from, NEW db
    PROVE  Replay(from, db, More(cmds, cmd)) = Step(Replay(from, db, cmds), cmd)
  <1>1. cmds \in Seq(Commands)
    BY StreamCommands
  <1>2. cmd \in Commands
    BY DEF Stream
  <1> QED  BY <1>1, <1>2, ReplayAppend DEF More

(* Two states of a client: only its buffer and database differ.            *)
Attached(f, c) == f.slave = c.slave /\ f.try = c.try /\ f.state = c.state /\ f.bulk = c.bulk

(* A client with another buffer and database.                               *)
Refed(c, db, out) == [c EXCEPT !.db = db, !.out = out]

(* Only they change.                                                        *)
LEMMA RefedIs ==
    ASSUME NEW dbs, NEW c \in Clients(dbs), NEW db \in dbs, NEW out \in Seq(Stream(dbs))
    PROVE  /\ Refed(c, db, out) \in Clients(dbs)
           /\ Refed(c, db, out).db = db /\ Refed(c, db, out).out = out
           /\ Attached(Refed(c, db, out), c)
  BY DEF Refed, Clients, Attached

(* A client that is fed gets the command, with a SELECT when it needs one.  *)
LEMMA FedIs ==
    ASSUME NEW dbs, NEW c \in Clients(dbs), NEW db, NEW cmd, c.state # "wait_bgsave_start"
    PROVE  /\ c.db = db => Fed(c, db, cmd) = Refed(c, db, More(c.out, cmd))
           /\ c.db # db => Fed(c, db, cmd)
                 = Refed(c, db, More(More(c.out, Command("select", db)), cmd))
  <1>1. c.out \in Seq(Stream(dbs))
    BY DEF Clients
  <1>2. ASSUME NEW s
        PROVE  /\ c.out \o <<>> \o <<cmd>> = More(c.out, cmd)
               /\ c.out \o <<s>> \o <<cmd>> = More(More(c.out, s), cmd)
    BY <1>1 DEF More
  <1>3. CASE c.db = db
    BY <1>2, <1>3 DEF Fed, Refed
  <1>4. CASE c.db # db
    BY <1>2, <1>4 DEF Fed, Refed
  <1> QED  BY <1>3, <1>4

(* It is still a client.                                                    *)
LEMMA FedKeeps ==
    ASSUME NEW dbs, dbs \subseteq Nat, NEW c \in Clients(dbs), NEW db \in dbs,
           NEW cmd \in Fedable(dbs)
    PROVE  /\ Fed(c, db, cmd) \in Clients(dbs)
           /\ c.state = "wait_bgsave_start" => Fed(c, db, cmd) = c
           /\ Attached(Fed(c, db, cmd), c)
  <1>1. Command("select", db) \in Stream(dbs) /\ cmd \in Stream(dbs)
    BY DEF Command, Stream, Commands, Fedable
  <1>2. More(c.out, cmd) \in Seq(Stream(dbs))
        /\ More(More(c.out, Command("select", db)), cmd) \in Seq(Stream(dbs))
    BY <1>1, MoreIs DEF Clients
  <1>3. CASE c.state = "wait_bgsave_start"
    BY <1>3 DEF Fed, Attached
  <1>4. CASE c.state # "wait_bgsave_start"
    <2>1. PICK out \in Seq(Stream(dbs)) : Fed(c, db, cmd) = Refed(c, db, out)
      BY <1>2, <1>4, FedIs
    <2> QED  BY <1>4, <2>1, RefedIs
  <1> QED  BY <1>3, <1>4

(* What a client reaches is what the command makes of the dataset of the    *)
(* master.                                                                  *)
LEMMA FedReaches ==
    ASSUME NEW dbs, dbs \subseteq Nat, NEW c \in Clients(dbs), NEW db \in dbs,
           NEW cmd \in Fedable(dbs), c.state # "wait_bgsave_start",
           NEW from, NEW first, NEW to, Reaches(from, first, c, to)
    PROVE  Reaches(from, first, Fed(c, db, cmd), After(to, db, cmd))
  <1> DEFINE sel == Command("select", db)
             out == c.out
  <1>1. cmd \in Stream(dbs) /\ sel \in Stream(dbs) /\ out \in Seq(Stream(dbs))
        /\ sel.op = "select" /\ sel.n = db
    BY DEF Clients, Command, Commands, Fedable, Stream
  <1>2. Replay(from, first, out) = St(to, c.db)
    BY DEF Reaches
  <1>3. Step(St(to, db), cmd) = St(After(to, db, cmd), db)
    BY WriteIs, FlushIs DEF After, Fedable
  <1>4. CASE c.db = db
    <2>1. Replay(from, first, More(out, cmd)) = St(After(to, db, cmd), db)
      <3> HIDE DEF out, sel
      <3> QED  BY <1>1, <1>2, <1>3, <1>4, ReplayMore
    <2>2. Fed(c, db, cmd) = Refed(c, db, More(out, cmd))
      BY <1>4, FedIs
    <2>3. Refed(c, db, More(out, cmd)).db = db /\ Refed(c, db, More(out, cmd)).out = More(out, cmd)
      <3> HIDE DEF out, sel
      <3> QED  BY <1>1, MoreIs, RefedIs
    <2> QED  BY <2>1, <2>2, <2>3 DEF Reaches
  <1>5. CASE c.db # db
    <2>1. Replay(from, first, More(out, sel)) = St(to, db)
      <3> HIDE DEF out, sel
      <3> QED  BY <1>1, <1>2, ReplayMore, SelectIs
    <2>2. Replay(from, first, More(More(out, sel), cmd)) = St(After(to, db, cmd), db)
      <3> HIDE DEF out, sel
      <3> QED  BY <1>1, <1>3, <2>1, ReplayMore, MoreIs
    <2>3. Fed(c, db, cmd) = Refed(c, db, More(More(out, sel), cmd))
      BY <1>5, FedIs
    <2>4. /\ Refed(c, db, More(More(out, sel), cmd)).db = db
          /\ Refed(c, db, More(More(out, sel), cmd)).out = More(More(out, sel), cmd)
      <3> HIDE DEF out, sel
      <3> QED  BY <1>1, MoreIs, RefedIs
    <2> QED  BY <2>2, <2>3, <2>4 DEF Reaches
  <1> QED  BY <1>4, <1>5

(* FLUSHALL makes the same of every dataset.                                *)
LEMMA FlushReaches ==
    ASSUME NEW dbs, dbs \subseteq Nat, NEW c \in Clients(dbs), NEW db \in dbs,
           NEW cmd \in Fedable(dbs), cmd.op = "flushall", c.state # "wait_bgsave_start",
           NEW from, NEW other, NEW first, NEW to, Reaches(from, first, c, to)
    PROVE  Reaches(other, first, Fed(c, db, cmd), <<>>)
  <1>1. c.out \in Seq(Commands)
    BY StreamCommands DEF Clients
  <1>2. PICK x, y, d : Replay(from, first, c.out) = St(x, d) /\ Replay(other, first, c.out) = St(y, d)
    <2>1. Alike(Replay(from, first, c.out), Replay(other, first, c.out))
      BY <1>1, ReplayElsewhere
    <2> QED  BY <2>1, Zenon DEF Alike
  <1>3. d = c.db
    BY <1>2 DEF Reaches, St
  <1>4. Reaches(other, first, c, y)
    BY <1>2, <1>3 DEF Reaches
  <1>5. Reaches(other, first, Fed(c, db, cmd), After(y, db, cmd))
    BY <1>4, FedReaches
  <1> QED  BY <1>5 DEF After

-----------------------------------------------------------------------------
(* Lists of clients                                                         *)

(* Every element of a list is one of another, and of no element twice.      *)
Picked(new, old) ==
    \E f \in [DOMAIN new -> DOMAIN old] :
        /\ \A i, j \in DOMAIN new : f[i] = f[j] => i = j
        /\ \A i \in DOMAIN new : new[i] = old[f[i]]

(* A list changed element by element.                                       *)
LEMMA ListMapped ==
    ASSUME NEW S, NEW l \in Seq(S), NEW T, NEW n,
           n = [i \in DOMAIN l |-> n[i]], \A i \in DOMAIN l : n[i] \in T
    PROVE  n \in Seq(T) /\ DOMAIN n = DOMAIN l /\ Len(n) = Len(l)
  <1>1. DOMAIN l = 1 .. Len(l) /\ Len(l) \in Nat
    OBVIOUS
  <1>2. n \in [1 .. Len(l) -> T]
    BY <1>1
  <1>3. n \in Seq(T)
    BY <1>1, <1>2, SeqDef
  <1> QED  BY <1>1, <1>2, <1>3

(* A list without one of its elements.                                      *)
LEMMA ListWithout ==
    ASSUME NEW S, NEW l \in Seq(S), NEW k \in DOMAIN l
    PROVE  RemoveAt(l, k) \in Seq(S) /\ Picked(RemoveAt(l, k), l)
  <1> DEFINE n == RemoveAt(l, k)
             f == [i \in 1 .. Len(l) - 1 |-> IF i < k THEN i ELSE i + 1]
  <1>1. /\ n \in Seq(S) /\ Len(n) = Len(l) - 1 /\ Len(l) - 1 \in Nat
        /\ \A i \in 1 .. Len(l) - 1 : n[i] = IF i < k THEN l[i] ELSE l[i + 1]
    <2> DEFINE a == SubSeq(l, 1, k - 1)
               b == SubSeq(l, k + 1, Len(l))
    <2>1. k \in 1 .. Len(l) /\ Len(l) \in Nat
      OBVIOUS
    <2>2. a \in Seq(S) /\ Len(a) = k - 1 /\ \A i \in 1 .. k - 1 : a[i] = l[i]
      BY <2>1
    <2>3. b \in Seq(S) /\ Len(b) = Len(l) - k /\ \A i \in 1 .. Len(l) - k : b[i] = l[k + i]
      BY <2>1
    <2>4. n = a \o b
      BY DEF RemoveAt
    <2> HIDE DEF a, b, n
    <2>5. n \in Seq(S) /\ Len(n) = Len(l) - 1
      BY <2>1, <2>2, <2>3, <2>4
    <2>6. ASSUME NEW i \in 1 .. Len(l) - 1 PROVE n[i] = IF i < k THEN l[i] ELSE l[i + 1]
      <3>1. CASE i < k
        BY <2>1, <2>2, <2>3, <2>4, <3>1
      <3>2. CASE ~(i < k)
        <4>1. i - (k - 1) \in 1 .. Len(l) - k /\ k + (i - (k - 1)) = i + 1
          BY <2>1, <3>2
        <4>2. n[i] = b[i - (k - 1)]
          <5>1. a \in Seq(S) /\ b \in Seq(S)
            BY <2>2, <2>3
          <5>2. i \in 1 .. Len(a) + Len(b) /\ ~(i <= Len(a))
            BY <2>1, <2>2, <2>3, <3>2
          <5>3. \A j \in 1 .. Len(a) + Len(b) :
                    (a \o b)[j] = IF j <= Len(a) THEN a[j] ELSE b[j - Len(a)]
            BY <5>1, ConcatProperties, Zenon
          <5> DEFINE ab == a \o b
          <5> HIDE DEF ab
          <5>4. ab[i] = b[i - Len(a)]
            BY <5>2, <5>3 DEF ab
          <5> QED  BY <2>2, <2>4, <5>4 DEF ab
        <4>3. b[i - (k - 1)] = l[k + (i - (k - 1))]
          BY <2>3, <4>1
        <4> QED  BY <3>2, <4>1, <4>2, <4>3
      <3> QED  BY <3>1, <3>2
    <2> QED  BY <2>1, <2>5, <2>6
  <1> HIDE DEF n
  <1>2. DOMAIN n = 1 .. Len(l) - 1 /\ DOMAIN l = 1 .. Len(l) /\ Len(l) \in Nat /\ k \in 1 .. Len(l)
    BY <1>1
  <1>3. f \in [DOMAIN n -> DOMAIN l]
    BY <1>2
  <1>4. \A i, j \in DOMAIN n : f[i] = f[j] => i = j
    BY <1>2
  <1>5. \A i \in DOMAIN n : n[i] = l[f[i]]
    BY <1>1, <1>2
  <1>6. Picked(n, l)
    <2> HIDE DEF f
    <2> QED  BY <1>3, <1>4, <1>5, Zenon DEF Picked
  <1> QED  BY <1>1, <1>6 DEF n

(* The lists that Spared builds, one for each prefix of list.               *)
Sparing(list, n, u) ==
    u = [i \in 0 .. n |-> IF i = 0 THEN <<>>
                          ELSE IF list[i].state = "wait_bgsave_end" THEN u[i - 1]
                          ELSE Append(u[i - 1], list[i])]

(* There are such lists.                                                    *)
LEMMA SparingExists ==
    ASSUME NEW list, NEW n \in Nat
    PROVE  \E u : Sparing(list, n, u)
  <1> DEFINE P == {k \in Nat : \E u : Sparing(list, k, u)}
             Next1(v, e) == IF e.state = "wait_bgsave_end" THEN v ELSE Append(v, e)
  <1>1. 0 \in P
    <2>1. Sparing(list, 0, [i \in 0 .. 0 |-> <<>>])
      BY DEF Sparing
    <2> QED  BY <2>1
  <1>2. ASSUME NEW k \in P PROVE k + 1 \in P
    <2>1. PICK u : Sparing(list, k, u)
      OBVIOUS
    <2> DEFINE more == [i \in 0 .. k + 1 |-> IF i <= k THEN u[i] ELSE Next1(u[k], list[k + 1])]
    <2>2. \A i \in 0 .. k : u[i] = IF i = 0 THEN <<>> ELSE Next1(u[i - 1], list[i])
      BY <2>1 DEF Sparing
    <2> HIDE DEF Next1
    <2>3. ASSUME NEW i \in 0 .. k + 1
          PROVE  more[i] = IF i = 0 THEN <<>> ELSE Next1(more[i - 1], list[i])
      <3>1. CASE i <= k
        <4>1. more[i] = u[i] /\ (i # 0 => more[i - 1] = u[i - 1])
          BY <3>1
        <4> QED  BY <2>2, <3>1, <4>1
      <3>2. CASE i = k + 1
        <4>1. more[i] = Next1(u[k], list[k + 1]) /\ more[i - 1] = u[k] /\ i # 0
          BY <3>2
        <4> QED  BY <3>2, <4>1
      <3> QED  BY <3>1, <3>2
    <2>4. more = [i \in 0 .. k + 1 |-> more[i]]
      OBVIOUS
    <2> HIDE DEF more
    <2>5. more = [i \in 0 .. k + 1 |-> IF i = 0 THEN <<>> ELSE Next1(more[i - 1], list[i])]
      BY <2>3, <2>4
    <2>6. Sparing(list, k + 1, more)
      BY <2>5 DEF Sparing, Next1
    <2> QED  BY <2>6
  <1>3. P = Nat
    BY <1>1, <1>2, SetInduction
  <1> QED  BY <1>3

(* Each holds elements of the prefix that do not wait for a save, in order. *)
SparedFrom(list, n, u, f) ==
    /\ f \in [DOMAIN u -> 1 .. n]
    /\ \A i, j \in DOMAIN u : f[i] = f[j] => i = j
    /\ \A i \in DOMAIN u : u[i] = list[f[i]] /\ u[i].state # "wait_bgsave_end"

(* So the clients that are spared are clients of the list, in order.        *)
LEMMA SparedIs ==
    ASSUME NEW S, NEW list \in Seq(S)
    PROVE  /\ Spared(list) \in Seq(S) /\ Picked(Spared(list), list)
           /\ \A i \in DOMAIN Spared(list) : Spared(list)[i].state # "wait_bgsave_end"
  <1> DEFINE len == Len(list)
             u == CHOOSE w : Sparing(list, len, w)
  <1>1. len \in Nat /\ DOMAIN list = 1 .. len /\ \A i \in 1 .. len : list[i] \in S
    OBVIOUS
  <1>2. Spared(list) = u[len]
    BY DEF Spared, Sparing
  <1>3. Sparing(list, len, u)
    BY <1>1, SparingExists
  <1> HIDE DEF len, u
  <1> DEFINE P == {n \in Nat : n <= len =>
                      u[n] \in Seq(S) /\ \E f : SparedFrom(list, n, u[n], f)}
  <1>4. 0 \in P
    <2>1. u[0] = <<>>
      BY <1>1, <1>3 DEF Sparing
    <2>2. SparedFrom(list, 0, <<>>, [i \in {} |-> i])
      BY DEF SparedFrom
    <2>3. <<>> \in Seq(S)
      OBVIOUS
    <2> QED  BY <2>1, <2>2, <2>3
  <1>5. ASSUME NEW n \in P PROVE n + 1 \in P
    <2> SUFFICES ASSUME n + 1 <= len
                 PROVE  u[n + 1] \in Seq(S) /\ \E f : SparedFrom(list, n + 1, u[n + 1], f)
      OBVIOUS
    <2> DEFINE e == list[n + 1]
    <2>1. n \in Nat /\ n + 1 \in 0 .. len /\ n + 1 \in 1 .. len /\ (n + 1) - 1 = n /\ n + 1 # 0 /\ n <= len
      BY <1>1
    <2>2. u[n + 1] = IF e.state = "wait_bgsave_end" THEN u[n] ELSE Append(u[n], e)
      BY <1>3, <2>1 DEF Sparing
    <2>3. u[n] \in Seq(S) /\ e \in S
      BY <1>1, <2>1
    <2>4. PICK f : SparedFrom(list, n, u[n], f)
      BY <2>1
    <2>5. CASE e.state = "wait_bgsave_end"
      <3>1. f \in [DOMAIN u[n] -> 1 .. n + 1]
        BY <2>1, <2>4 DEF SparedFrom
      <3>2. SparedFrom(list, n + 1, u[n], f)
        BY <2>4, <3>1, Zenon DEF SparedFrom
      <3> QED  BY <2>2, <2>3, <2>5, <3>2
    <2>6. CASE e.state # "wait_bgsave_end"
      <3> DEFINE len1 == Len(u[n])
                 v == Append(u[n], e)
                 g == [i \in 1 .. len1 + 1 |-> IF i <= len1 THEN f[i] ELSE n + 1]
      <3>1. /\ len1 \in Nat /\ DOMAIN u[n] = 1 .. len1 /\ v \in Seq(S) /\ DOMAIN v = 1 .. len1 + 1
            /\ v[len1 + 1] = e /\ \A i \in 1 .. len1 : v[i] = u[n][i]
        BY <2>3
      <3>2. /\ \A i \in 1 .. len1 : f[i] \in 1 .. n
            /\ \A i, j \in 1 .. len1 : f[i] = f[j] => i = j
            /\ \A i \in 1 .. len1 : u[n][i] = list[f[i]] /\ u[n][i].state # "wait_bgsave_end"
        BY <2>4, <3>1 DEF SparedFrom
      <3> HIDE DEF len1, v
      <3>3. g \in [1 .. len1 + 1 -> 1 .. n + 1]
        BY <2>1, <3>1, <3>2
      <3>4. \A i, j \in 1 .. len1 + 1 : g[i] = g[j] => i = j
        BY <2>1, <3>1, <3>2
      <3>5. ASSUME NEW i \in 1 .. len1 + 1
            PROVE  v[i] = list[g[i]] /\ v[i].state # "wait_bgsave_end"
        <4>1. CASE i <= len1
          BY <3>1, <3>2, <4>1
        <4>2. CASE i = len1 + 1
          <5>1. g[i] = n + 1
            BY <3>1, <4>2
          <5>2. v[i] = e
            BY <3>1, <4>2
          <5> QED  BY <2>6, <5>1, <5>2
        <4> QED  BY <3>1, <4>1, <4>2
      <3>6. SparedFrom(list, n + 1, v, g)
        <4> HIDE DEF g, e
        <4> QED  BY <3>1, <3>3, <3>4, <3>5, Zenon DEF SparedFrom
      <3>7. u[n + 1] = v
        BY <2>2, <2>6 DEF v
      <3> QED  BY <3>1, <3>6, <3>7
    <2> QED  BY <2>5, <2>6
  <1>6. P = Nat
    BY <1>4, <1>5, SetInduction
  <1>7. len \in P /\ len <= len
    BY <1>1, <1>6
  <1>8. u[len] \in Seq(S)
    BY <1>7
  <1>9. PICK f : SparedFrom(list, len, u[len], f)
    BY <1>7
  <1>10. f \in [DOMAIN u[len] -> DOMAIN list]
    BY <1>1, <1>9 DEF SparedFrom
  <1>11. /\ \A i, j \in DOMAIN u[len] : f[i] = f[j] => i = j
         /\ \A i \in DOMAIN u[len] : u[len][i] = list[f[i]] /\ u[len][i].state # "wait_bgsave_end"
    BY <1>9, Zenon DEF SparedFrom
  <1>12. Picked(u[len], list)
    BY <1>10, <1>11, Zenon DEF Picked
  <1> QED  BY <1>2, <1>8, <1>11, <1>12, Zenon

-----------------------------------------------------------------------------
(* The types of the servers                                                 *)

(* What the environment may do a number of times.                           *)
Budgets == {"writes", "flushes", "saves", "slaveofs", "mishaps"}

(* The types that the proofs need: TypeOK says the same more loosely.       *)
Typed ==
    /\ left \in [Budgets -> Nat]
    /\ try \in [Servers -> Nat]
    /\ asked \subseteq [slave : Servers, master : Servers, try : Nat]
    /\ masterdb \in [Servers -> shape.dbs]
    /\ data \in [Servers -> Datasets]
    /\ dump \in [Servers -> Datasets]
    /\ child \in [Servers -> Children]
    /\ slaves \in [Servers -> Seq(Clients(shape.dbs))]

(* What the steps do to a client.                                           *)
Sent(c) == [c EXCEPT !.state = "online"]
Loaded(c) == [c EXCEPT !.bulk = <<>>]
Popped(c) == [c EXCEPT !.out = Tail(@)]
Told(c, file) ==
    CASE c.state = "wait_bgsave_end" -> [c EXCEPT !.state = "send_bulk", !.bulk = <<file>>]
      [] c.state = "wait_bgsave_start" -> [c EXCEPT !.state = "wait_bgsave_end"]
      [] OTHER -> c
Joining(r, state, out) ==
    [slave |-> r.slave, try |-> r.try, state |-> state, db |-> 0, out |-> out, bulk |-> <<>>]

(* It stays a client.                                                       *)
LEMMA ClientsStay ==
    ASSUME NEW dbs, NEW c \in Clients(dbs)
    PROVE  /\ Sent(c) \in Clients(dbs) /\ Loaded(c) \in Clients(dbs)
           /\ c.out # <<>> => Popped(c) \in Clients(dbs)
           /\ \A file \in Datasets : Told(c, file) \in Clients(dbs)
  <1>1. Sent(c) \in Clients(dbs) /\ Loaded(c) \in Clients(dbs)
    BY DEF Sent, Loaded, Clients, ClientStates
  <1>2. ASSUME c.out # <<>> PROVE Popped(c) \in Clients(dbs)
    <2>1. c.out \in Seq(Stream(dbs))
      BY DEF Clients
    <2>2. Tail(c.out) \in Seq(Stream(dbs))
      BY <1>2, <2>1
    <2> QED  BY <2>2 DEF Popped, Clients
  <1>3. ASSUME NEW file \in Datasets PROVE Told(c, file) \in Clients(dbs)
    BY DEF Told, Clients, ClientStates
  <1> QED  BY <1>1, <1>2, <1>3

(* A list of which one client changes.                                      *)
LEMMA OneChanges ==
    ASSUME NEW S, NEW l \in Seq(S), NEW i \in DOMAIN l, NEW c \in S
    PROVE  /\ [l EXCEPT ![i] = c] \in Seq(S)
           /\ DOMAIN [l EXCEPT ![i] = c] = DOMAIN l
           /\ [l EXCEPT ![i] = c][i] = c
           /\ \A j \in DOMAIN l : j # i => [l EXCEPT ![i] = c][j] = l[j]
  <1>1. DOMAIN l = 1 .. Len(l) /\ \A j \in DOMAIN l : l[j] \in S
    OBVIOUS
  <1> DEFINE n == [l EXCEPT ![i] = c]
  <1>2. n = [j \in DOMAIN l |-> n[j]] /\ n[i] = c /\ \A j \in DOMAIN l : j # i => n[j] = l[j]
    OBVIOUS
  <1> HIDE DEF n
  <1>3. n \in Seq(S) /\ DOMAIN n = DOMAIN l
    BY <1>1, <1>2, ListMapped
  <1> QED  BY <1>2, <1>3 DEF n

(* A list that is fed.                                                      *)
LEMMA ListFed ==
    ASSUME NEW dbs, dbs \subseteq Nat, NEW l \in Seq(Clients(dbs)), NEW db \in dbs,
           NEW cmd \in Fedable(dbs)
    PROVE  /\ replicationFeedSlaves(l, db, cmd) \in Seq(Clients(dbs))
           /\ DOMAIN replicationFeedSlaves(l, db, cmd) = DOMAIN l
           /\ \A i \in DOMAIN l : replicationFeedSlaves(l, db, cmd)[i] = Fed(l[i], db, cmd)
  <1> DEFINE n == replicationFeedSlaves(l, db, cmd)
  <1>1. n = [i \in DOMAIN l |-> n[i]] /\ \A i \in DOMAIN l : n[i] = Fed(l[i], db, cmd)
    BY DEF replicationFeedSlaves
  <1>2. \A i \in DOMAIN l : l[i] \in Clients(dbs)
    OBVIOUS
  <1>3. \A i \in DOMAIN l : n[i] \in Clients(dbs)
    BY <1>1, <1>2, FedKeeps
  <1> HIDE DEF n
  <1>4. n \in Seq(Clients(dbs)) /\ DOMAIN n = DOMAIN l
    BY <1>1, <1>3, ListMapped
  <1> QED  BY <1>1, <1>4 DEF n

(* The clients that are told that a save ended so.                          *)
Kept(l, status) == IF l # <<>> /\ status = "failed" THEN Spared(l) ELSE l
ToldAll(l, file) == [i \in DOMAIN l |-> Told(l[i], file)]

(* The end of a save tells those that are kept.                             *)
LEMMA UpdateIs ==
    ASSUME NEW l, NEW status, NEW file
    PROVE  updateSlavesWaitingBgsave(l, status # "failed", file) = ToldAll(Kept(l, status), file)
  <1>1. CASE l = <<>>
    BY <1>1 DEF updateSlavesWaitingBgsave, ToldAll, Kept
  <1>2. CASE l # <<>> /\ status = "failed"
    BY <1>2 DEF updateSlavesWaitingBgsave, ToldAll, Kept, Told
  <1>3. CASE l # <<>> /\ status # "failed"
    BY <1>3 DEF updateSlavesWaitingBgsave, ToldAll, Kept, Told
  <1> QED  BY <1>1, <1>2, <1>3

(* A list is one of its own choices.                                        *)
LEMMA PickedAll ==
    ASSUME NEW l
    PROVE  Picked(l, l)
  <1> DEFINE f == [i \in DOMAIN l |-> i]
  <1>1. f \in [DOMAIN l -> DOMAIN l] /\ (\A i, j \in DOMAIN l : f[i] = f[j] => i = j)
        /\ \A i \in DOMAIN l : l[i] = l[f[i]]
    OBVIOUS
  <1> HIDE DEF f
  <1> QED  BY <1>1, Zenon DEF Picked

(* Those that are kept were in the list.                                    *)
LEMMA KeptIs ==
    ASSUME NEW S, NEW l \in Seq(S), NEW status
    PROVE  /\ Kept(l, status) \in Seq(S) /\ Picked(Kept(l, status), l)
           /\ status = "failed" =>
                 \A i \in DOMAIN Kept(l, status) : Kept(l, status)[i].state # "wait_bgsave_end"
  <1>1. CASE l # <<>> /\ status = "failed"
    BY <1>1, SparedIs, Zenon DEF Kept
  <1>2. CASE ~(l # <<>> /\ status = "failed")
    <2>1. Kept(l, status) = l
      BY <1>2 DEF Kept
    <2>2. status = "failed" => DOMAIN l = {}
      BY <1>2
    <2> QED  BY <2>1, <2>2, PickedAll
  <1> QED  BY <1>1, <1>2

(* They are told one by one.                                                *)
LEMMA ListTold ==
    ASSUME NEW dbs, NEW l \in Seq(Clients(dbs)), NEW file \in Datasets
    PROVE  /\ ToldAll(l, file) \in Seq(Clients(dbs))
           /\ DOMAIN ToldAll(l, file) = DOMAIN l
           /\ \A i \in DOMAIN l : ToldAll(l, file)[i] = Told(l[i], file)
  <1> DEFINE n == ToldAll(l, file)
  <1>1. n = [i \in DOMAIN l |-> n[i]] /\ \A i \in DOMAIN l : n[i] = Told(l[i], file)
    BY DEF ToldAll
  <1>2. \A i \in DOMAIN l : l[i] \in Clients(dbs)
    OBVIOUS
  <1>3. \A i \in DOMAIN l : n[i] \in Clients(dbs)
    BY <1>1, <1>2, ClientsStay
  <1> HIDE DEF n
  <1>4. n \in Seq(Clients(dbs)) /\ DOMAIN n = DOMAIN l
    BY <1>1, <1>3, ListMapped
  <1> QED  BY <1>1, <1>4 DEF n

(* The databases of the deployment.                                         *)
LEMMA DatabasesAre ==
    ASSUME IInv
    PROVE  shape.dbs \subseteq Nat /\ 0 \in shape.dbs
  BY ShapesAssumption DEF IInv, LinksTyped

-----------------------------------------------------------------------------
(* What the steps do to the clients and the children                        *)

(* A child that is killed, if it has not ended.                             *)
Killed(k) ==
    [i \in DOMAIN k |-> IF k[i].status = "running" THEN [k[i] EXCEPT !.status = "killed"] ELSE k[i]]

(* A child is none or one.                                                  *)
LEMMA ChildrenAre ==
    /\ <<>> \in Children /\ \A d \in Datasets : Child(d) \in Children /\ Child(d) # <<>>
    /\ \A k \in Children : k # <<>> =>
          /\ k[1] \in [status : {"running", "saved", "failed", "killed"}, snapshot : Datasets]
          /\ k = <<k[1]>>
  <1>1. <<>> \in Children
    BY DEF Children
  <1>2. ASSUME NEW d \in Datasets PROVE Child(d) \in Children /\ Child(d) # <<>>
    <2> DEFINE e == [status |-> "running", snapshot |-> d]
    <2>1. e \in [status : {"running", "saved", "failed", "killed"}, snapshot : Datasets]
      OBVIOUS
    <2>2. Child(d) = <<e>>
      BY DEF Child
    <2> HIDE DEF e
    <2>3. <<e>> # <<>> /\ <<e>> \in Children
      BY <2>1 DEF Children
    <2> QED  BY <2>2, <2>3
  <1>3. ASSUME NEW k \in Children, k # <<>>
        PROVE  /\ k[1] \in [status : {"running", "saved", "failed", "killed"}, snapshot : Datasets]
               /\ k = <<k[1]>>
    <2>1. PICK e \in [status : {"running", "saved", "failed", "killed"}, snapshot : Datasets] : k = <<e>>
      BY <1>3, Zenon DEF Children
    <2>2. k[1] = e
      BY <2>1
    <2> QED  BY <2>1, <2>2
  <1> QED  BY <1>1, <1>2, <1>3

(* So it stays when it is killed.                                           *)
LEMMA KilledIs ==
    ASSUME NEW k \in Children
    PROVE  /\ Killed(k) \in Children
           /\ Killed(k) = <<>> <=> k = <<>>
           /\ k # <<>> => Killed(k)[1].status = (IF k[1].status = "running" THEN "killed" ELSE k[1].status)
  <1>1. CASE k = <<>>
    BY <1>1, ChildrenAre DEF Killed
  <1>2. CASE k # <<>>
    <2> DEFINE e == k[1]
               f == IF e.status = "running" THEN [e EXCEPT !.status = "killed"] ELSE e
    <2>1. e \in [status : {"running", "saved", "failed", "killed"}, snapshot : Datasets]
          /\ k = <<e>>
      BY <1>2, ChildrenAre
    <2>2. Killed(k) = <<f>>
      <3> HIDE DEF e
      <3> QED  BY <2>1 DEF Killed
    <2>3. f \in [status : {"running", "saved", "failed", "killed"}, snapshot : Datasets]
          /\ f.status = IF e.status = "running" THEN "killed" ELSE e.status
      <3> HIDE DEF e
      <3> QED  BY <2>1
    <2> HIDE DEF f
    <2>4. <<f>> \in Children /\ <<f>> # <<>> /\ <<f>>[1] = f
      BY <2>3 DEF Children
    <2> QED  BY <1>2, <2>2, <2>3, <2>4
  <1> QED  BY <1>1, <1>2

(* What a command does to the server that executes it.                      *)
Effect(s, db, cmd) ==
    /\ data' = [data EXCEPT ![s] = After(data[s], db, cmd)]
    /\ cmd.op = "write" => UNCHANGED <<dump, child>>
    /\ cmd.op = "flushall" => /\ dump' = [dump EXCEPT ![s] = <<>>]
                              /\ child' = [child EXCEPT ![s] = Killed(child[s])]

(* It has it, and the clients of the server are fed.                        *)
LEMMA ExecuteIs ==
    ASSUME Typed, NEW s \in Servers, NEW db, NEW cmd, Execute(s, db, cmd)
    PROVE  /\ Effect(s, db, cmd)
           /\ slaves' = [slaves EXCEPT ![s] = replicationFeedSlaves(slaves[s], db, cmd)]
  <1>1. CASE cmd.op = "write"
    BY <1>1 DEF Execute, Effect, After
  <1>2. CASE cmd.op # "write"
    BY <1>2 DEF Execute, Effect, After, flushall, Killed
  <1> QED  BY <1>1, <1>2

(* A server that executes a command stays well typed.                       *)
LEMMA EffectTyped ==
    ASSUME IInv, Typed, NEW s \in Servers, NEW db \in shape.dbs, NEW cmd \in Fedable(shape.dbs),
           Effect(s, db, cmd)
    PROVE  /\ data' \in [Servers -> Datasets] /\ dump' \in [Servers -> Datasets]
           /\ child' \in [Servers -> Children]
  <1>1. cmd.op \in {"write", "flushall"} /\ cmd.n \in Nat /\ db \in Nat
    BY DatabasesAre DEF Fedable, Stream, Commands
  <1>2. After(data[s], db, cmd) \in Datasets /\ <<>> \in Datasets
    <2> DEFINE d == data[s]
               e == <<db, cmd.n>>
    <2>1. d \in Seq(Nat \X Nat) /\ e \in Nat \X Nat
      BY <1>1 DEF Typed, Datasets
    <2>2. After(d, db, cmd) = IF cmd.op = "write" THEN Append(d, e) ELSE <<>>
      BY DEF After
    <2> HIDE DEF d, e
    <2>3. Append(d, e) \in Seq(Nat \X Nat) /\ <<>> \in Seq(Nat \X Nat)
      BY <2>1
    <2> QED  BY <2>2, <2>3 DEF Datasets, d
  <1>3. Killed(child[s]) \in Children
    BY KilledIs DEF Typed
  <1> QED  BY <1>1, <1>2, <1>3 DEF Effect, Typed

(* What is written or emptied is a command that is fed.                     *)
LEMMA CommandsAre ==
    ASSUME IInv, Typed
    PROVE  /\ Command("write", left.writes) \in Fedable(shape.dbs)
           /\ Command("flushall", 0) \in Fedable(shape.dbs)
  BY DEF Command, Fedable, Stream, Commands, Typed, Budgets

-----------------------------------------------------------------------------
(* The types hold at the start.                                             *)
LEMMA TypedInit == Init => Typed
  <1> SUFFICES ASSUME Init PROVE Typed
    OBVIOUS
  <1>1. shape.left \in [Budgets -> Nat] /\ 0 \in shape.dbs
    BY ShapesAssumption DEF Init, Budgets
  <1>2. <<>> \in Datasets /\ <<>> \in Children /\ <<>> \in Seq(Clients(shape.dbs))
    BY ChildrenAre DEF Datasets
  <1> QED  BY <1>1, <1>2 DEF Init, Typed

(* A budget that is spent stays one.                                        *)
LEMMA SpendTyped ==
    ASSUME Typed, NEW b \in Budgets, Spend(b)
    PROVE  left' \in [Budgets -> Nat]
  BY DEF Spend, Typed

(* A mishap spends one.                                                     *)
LEMMA MishapTyped ==
    ASSUME Typed, NEW b, Mishap(b)
    PROVE  left' \in [Budgets -> Nat]
  BY SpendTyped DEF Mishap, Budgets

(* A server's list becomes another.                                         *)
LEMMA SlavesTyped ==
    ASSUME Typed, NEW m \in Servers, NEW l \in Seq(Clients(shape.dbs)), UNCHANGED shape,
           slaves' = [slaves EXCEPT ![m] = l]
    PROVE  slaves' \in [Servers -> Seq(Clients(shape.dbs))]'
  BY DEF Typed

(* A client writes or empties.                                              *)
LEMMA WriteTyped ==
    ASSUME IInv, Typed, NEW s \in Servers, Write(s) \/ Flush(s)
    PROVE  Typed'
  <1>1. left' \in [Budgets -> Nat] /\ UNCHANGED <<shape, masterhost, replstate, try, asked, masterdb>>
    BY SpendTyped DEF Write, Flush, Budgets
  <1>2. PICK db \in shape.dbs, cmd \in Fedable(shape.dbs) : Execute(s, db, cmd)
    BY CommandsAre DEF Write, Flush
  <1>3. Effect(s, db, cmd) /\ slaves' = [slaves EXCEPT ![s] = replicationFeedSlaves(slaves[s], db, cmd)]
    BY <1>2, ExecuteIs
  <1>4. replicationFeedSlaves(slaves[s], db, cmd) \in Seq(Clients(shape.dbs))
    BY ListFed, DatabasesAre DEF Typed
  <1>5. slaves' \in [Servers -> Seq(Clients(shape.dbs))]'
    BY <1>1, <1>3, <1>4, SlavesTyped
  <1>6. /\ data' \in [Servers -> Datasets] /\ dump' \in [Servers -> Datasets]
        /\ child' \in [Servers -> Children]
    BY <1>3, EffectTyped
  <1> QED  BY <1>1, <1>5, <1>6 DEF Typed

(* A client more.                                                           *)
LEMMA ListJoined ==
    ASSUME NEW S, NEW l \in Seq(S), NEW c \in S
    PROVE  /\ Append(l, c) \in Seq(S) /\ Len(Append(l, c)) = Len(l) + 1
           /\ DOMAIN Append(l, c) = DOMAIN l \cup {Len(l) + 1} /\ Len(l) + 1 \notin DOMAIN l
           /\ Append(l, c)[Len(l) + 1] = c
           /\ \A i \in DOMAIN l : Append(l, c)[i] = l[i]
  OBVIOUS

(* It is a client of the link of the request r, ...                         *)
LEMMA JoiningTyped ==
    ASSUME NEW dbs, 0 \in dbs, NEW r \in [slave : Servers, master : Servers, try : Nat],
           NEW state \in ClientStates, NEW out \in Seq(Stream(dbs))
    PROVE  Joining(r, state, out) \in Clients(dbs)
  BY DEF Joining, Clients

(* It has the fields it is made of.                                         *)
LEMMA JoiningIs ==
    ASSUME NEW r, NEW state, NEW out
    PROVE  /\ Joining(r, state, out).slave = r.slave /\ Joining(r, state, out).try = r.try
           /\ Joining(r, state, out).state = state /\ Joining(r, state, out).bulk = <<>>
           /\ Joining(r, state, out).db = 0 /\ Joining(r, state, out).out = out
  BY DEF Joining

(* ... which shares what another one registers, waits for the next save, or *)
(* starts one.                                                              *)
Joins(m, r, c) ==
    /\ slaves' = [slaves EXCEPT ![m] = Append(slaves[m], c)]
    /\ \/ /\ child[m] # <<>> /\ UNCHANGED child
          /\ Waiting(slaves[m], "wait_bgsave_end") # {}
          /\ c = Joining(r, "wait_bgsave_end", slaves[m][Min(Waiting(slaves[m], "wait_bgsave_end"))].out)
       \/ UNCHANGED child /\ c = Joining(r, "wait_bgsave_start", <<>>)
       \/ /\ child[m] = <<>> /\ child' = [child EXCEPT ![m] = Child(data[m])]
          /\ c = Joining(r, "wait_bgsave_end", <<>>)

(* What syncCommand does.                                                   *)
LEMMA SyncIs ==
    ASSUME NEW m, syncCommand(m)
    PROVE  /\ UNCHANGED <<shape, masterhost, replstate, try, masterdb, data, dump>>
           /\ left' = left \/ Mishap("syncfork")
           /\ \E r \in asked :
                 /\ r.master = m /\ asked' = asked \ {r}
                 /\ UNCHANGED <<slaves, child>> \/ \E c : Joins(m, r, c)
  <1>1. UNCHANGED <<shape, masterhost, replstate, try, masterdb, data, dump>>
        /\ (left' = left \/ Mishap("syncfork"))
    BY DEF syncCommand
  <1>2. \E r \in asked :
           /\ r.master = m /\ asked' = asked \ {r}
           /\ \/ UNCHANGED <<slaves, child>>
              \/ /\ child[m] # <<>> /\ UNCHANGED child
                 /\ Waiting(slaves[m], "wait_bgsave_end") # {}
                 /\ slaves' = [slaves EXCEPT ![m] = Append(slaves[m],
                        Joining(r, "wait_bgsave_end", slaves[m][Min(Waiting(slaves[m], "wait_bgsave_end"))].out))]
              \/ /\ UNCHANGED child
                 /\ slaves' = [slaves EXCEPT ![m] = Append(slaves[m], Joining(r, "wait_bgsave_start", <<>>))]
              \/ /\ child[m] = <<>> /\ child' = [child EXCEPT ![m] = Child(data[m])]
                 /\ slaves' = [slaves EXCEPT ![m] = Append(slaves[m], Joining(r, "wait_bgsave_end", <<>>))]
    BY Zenon DEF syncCommand, Joining
  <1> QED  BY <1>1, <1>2, Zenon DEF Joins

(* Those that wait are clients.                                             *)
LEMMA WaitingAre ==
    ASSUME NEW S, NEW l \in Seq(S), NEW state, Waiting(l, state) # {}
    PROVE  Min(Waiting(l, state)) \in DOMAIN l /\ l[Min(Waiting(l, state))].state = state
  <1>1. Waiting(l, state) \subseteq Nat
    BY DEF Waiting
  <1>2. Min(Waiting(l, state)) \in Waiting(l, state)
    BY <1>1, MinIs
  <1> QED  BY <1>2 DEF Waiting

(* The client is well typed.                                                *)
LEMMA JoinsTyped ==
    ASSUME IInv, Typed, NEW m \in Servers, NEW r \in asked, NEW c, Joins(m, r, c)
    PROVE  c \in Clients(shape.dbs) /\ child' \in [Servers -> Children]
  <1>1. r \in [slave : Servers, master : Servers, try : Nat]
    BY DEF Typed
  <1>2. <<>> \in Seq(Stream(shape.dbs))
    OBVIOUS
  <1>3. Waiting(slaves[m], "wait_bgsave_end") # {} =>
           slaves[m][Min(Waiting(slaves[m], "wait_bgsave_end"))].out \in Seq(Stream(shape.dbs))
    <2>1. slaves[m] \in Seq(Clients(shape.dbs))
      BY DEF Typed
    <2> SUFFICES ASSUME Waiting(slaves[m], "wait_bgsave_end") # {}
                 PROVE  slaves[m][Min(Waiting(slaves[m], "wait_bgsave_end"))].out \in Seq(Stream(shape.dbs))
      OBVIOUS
    <2> DEFINE i == Min(Waiting(slaves[m], "wait_bgsave_end"))
    <2>2. i \in DOMAIN slaves[m]
      BY <2>1, WaitingAre
    <2> HIDE DEF i
    <2>3. slaves[m][i] \in Clients(shape.dbs)
      BY <2>1, <2>2
    <2>4. slaves[m][i].out \in Seq(Stream(shape.dbs))
      BY <2>3 DEF Clients
    <2> QED  BY <2>4 DEF i
  <1>4. c \in Clients(shape.dbs)
    <2> DEFINE W == Waiting(slaves[m], "wait_bgsave_end")
               out == slaves[m][Min(W)].out
    <2>1. \/ W # {} /\ c = Joining(r, "wait_bgsave_end", out)
          \/ c = Joining(r, "wait_bgsave_start", <<>>)
          \/ c = Joining(r, "wait_bgsave_end", <<>>)
      BY Zenon DEF Joins
    <2>2. W # {} => out \in Seq(Stream(shape.dbs))
      BY <1>3
    <2> HIDE DEF W, out
    <2>3. "wait_bgsave_start" \in ClientStates /\ "wait_bgsave_end" \in ClientStates
      BY DEF ClientStates
    <2> QED  BY <1>1, <1>2, <2>1, <2>2, <2>3, JoiningTyped, DatabasesAre
  <1>5. Child(data[m]) \in Children
    BY ChildrenAre DEF Typed
  <1>6. child' = child \/ child' = [child EXCEPT ![m] = Child(data[m])]
    BY Zenon DEF Joins
  <1> QED  BY <1>4, <1>5, <1>6 DEF Typed

(* A SYNC is answered.                                                      *)
LEMMA SyncTyped ==
    ASSUME IInv, Typed, NEW m \in Servers, syncCommand(m)
    PROVE  Typed'
  <1>1. PICK r \in asked : /\ asked' = asked \ {r}
                           /\ UNCHANGED <<slaves, child>> \/ \E c : Joins(m, r, c)
    BY SyncIs
  <1>2. UNCHANGED <<shape, try, masterdb, data, dump>> /\ left' \in [Budgets -> Nat]
    BY SyncIs, MishapTyped DEF Typed
  <1>3. CASE UNCHANGED <<slaves, child>>
    BY <1>1, <1>2, <1>3 DEF Typed
  <1>4. ASSUME NEW c, Joins(m, r, c) PROVE Typed'
    <2>1. c \in Clients(shape.dbs) /\ child' \in [Servers -> Children]
      BY <1>4, JoinsTyped
    <2>2. slaves[m] \in Seq(Clients(shape.dbs))
      BY DEF Typed
    <2>3. Append(slaves[m], c) \in Seq(Clients(shape.dbs))
      BY <2>1, <2>2, ListJoined
    <2>4. slaves' = [slaves EXCEPT ![m] = Append(slaves[m], c)]
      BY <1>4 DEF Joins
    <2>5. slaves' \in [Servers -> Seq(Clients(shape.dbs))]'
      BY <1>2, <2>3, <2>4, SlavesTyped
    <2> QED  BY <1>1, <1>2, <2>1, <2>5 DEF Typed
  <1> QED  BY <1>1, <1>3, <1>4

(* A save begins, or a child ends.                                          *)
LEMMA SaveTyped ==
    ASSUME IInv, Typed, NEW m \in Servers, rdbSaveBackground(m)
    PROVE  Typed'
  <1>1. /\ UNCHANGED <<shape, try, asked, masterdb, data, dump, slaves>>
        /\ left' \in [Budgets -> Nat] /\ child' = [child EXCEPT ![m] = Child(data[m])]
    BY SpendTyped DEF rdbSaveBackground, Budgets
  <1>2. Child(data[m]) \in Children
    BY ChildrenAre DEF Typed
  <1> QED  BY <1>1, <1>2 DEF Typed

(* A child that has ended.                                                  *)
Ended(k, outcome) == <<[k[1] EXCEPT !.status = outcome]>>

(* It is one, with the outcome.                                             *)
LEMMA EndedIs ==
    ASSUME NEW k \in Children, k # <<>>, NEW outcome \in {"saved", "failed", "killed"}
    PROVE  /\ [k EXCEPT ![1].status = outcome] = Ended(k, outcome)
           /\ Ended(k, outcome) \in Children /\ Ended(k, outcome) # <<>>
           /\ Ended(k, outcome)[1].status = outcome
  <1> DEFINE e == k[1]
             f == [e EXCEPT !.status = outcome]
  <1>1. e \in [status : {"running", "saved", "failed", "killed"}, snapshot : Datasets] /\ k = <<e>>
    BY ChildrenAre
  <1>2. f \in [status : {"running", "saved", "failed", "killed"}, snapshot : Datasets]
        /\ f.status = outcome
    <2> HIDE DEF e
    <2> QED  BY <1>1
  <1>3. [k EXCEPT ![1] = f] = <<f>>
    <2> HIDE DEF e, f
    <2> QED  BY <1>1
  <1>4. [k EXCEPT ![1].status = outcome] = [k EXCEPT ![1] = f]
    OBVIOUS
  <1> HIDE DEF f
  <1>5. <<f>> \in Children /\ <<f>> # <<>> /\ <<f>>[1] = f
    BY <1>2 DEF Children
  <1>6. Ended(k, outcome) = <<f>>
    BY DEF Ended, f
  <1> QED  BY <1>2, <1>3, <1>4, <1>5, <1>6

(* What the end of a child does.                                            *)
LEMMA EndsIs ==
    ASSUME Typed, NEW m \in Servers, ChildEnds(m)
    PROVE  /\ child[m] # <<>> /\ child[m][1].status = "running"
           /\ UNCHANGED <<shape, masterhost, replstate, try, asked, masterdb, data, slaves>>
           /\ \E outcome \in {"saved", "failed", "killed"} :
                 /\ IF outcome = "saved" THEN UNCHANGED left ELSE Mishap(outcome)
                 /\ child' = [child EXCEPT ![m] = Ended(child[m], outcome)]
                 /\ dump' = [dump EXCEPT ![m] = IF outcome = "saved" THEN child[m][1].snapshot ELSE @]
  <1>1. child[m] \in Children /\ child[m] # <<>>
    BY DEF Typed, ChildEnds
  <1>2. PICK outcome \in {"saved", "failed", "killed"} :
           /\ IF outcome = "saved" THEN UNCHANGED left ELSE Mishap(outcome)
           /\ child' = [child EXCEPT ![m][1].status = outcome]
           /\ dump' = [dump EXCEPT ![m] = IF outcome = "saved" THEN child[m][1].snapshot ELSE @]
    BY Zenon DEF ChildEnds
  <1> DEFINE k == [child[m] EXCEPT ![1].status = outcome]
  <1>3. k = Ended(child[m], outcome)
    BY <1>1, EndedIs
  <1>4. child' = [child EXCEPT ![m] = k]
    BY <1>2
  <1> HIDE DEF k
  <1>5. child' = [child EXCEPT ![m] = Ended(child[m], outcome)]
    BY <1>3, <1>4
  <1> QED  BY <1>2, <1>5 DEF ChildEnds

(* A child ends.                                                            *)
LEMMA EndsTyped ==
    ASSUME IInv, Typed, NEW m \in Servers, ChildEnds(m)
    PROVE  Typed'
  <1>1. UNCHANGED <<shape, masterhost, replstate, try, asked, masterdb, data, slaves>>
    BY EndsIs
  <1>2. PICK outcome \in {"saved", "failed", "killed"} :
           /\ IF outcome = "saved" THEN UNCHANGED left ELSE Mishap(outcome)
           /\ child' = [child EXCEPT ![m] = Ended(child[m], outcome)]
           /\ dump' = [dump EXCEPT ![m] = IF outcome = "saved" THEN child[m][1].snapshot ELSE @]
    BY EndsIs
  <1>3. left' \in [Budgets -> Nat]
    BY <1>2, MishapTyped DEF Typed
  <1>4. child[m] \in Children /\ child[m] # <<>>
    BY EndsIs DEF Typed
  <1>5. Ended(child[m], outcome) \in Children /\ child[m][1].snapshot \in Datasets
    BY <1>4, EndedIs, ChildrenAre
  <1> QED  BY <1>1, <1>2, <1>3, <1>5 DEF Typed

(* What the end of a save does to the clients of m.                         *)
LEMMA DoneIs ==
    ASSUME Typed, NEW m \in Servers, backgroundSaveDoneHandler(m)
    PROVE  /\ child[m] # <<>> /\ child[m][1].status # "running"
           /\ UNCHANGED <<shape, masterhost, replstate, try, asked, masterdb, data, dump>>
           /\ slaves' = [slaves EXCEPT ![m] = ToldAll(Kept(slaves[m], child[m][1].status), dump[m])]
           /\ left' = left \/ Mishap("nextfork")
           /\ \/ child' = [child EXCEPT ![m] = Child(data[m])]
              \/ /\ child' = [child EXCEPT ![m] = <<>>]
                 /\ Waiting(slaves[m], "wait_bgsave_start") = {} \/ Mishap("nextfork")
  <1>1. /\ child[m] # <<>> /\ child[m][1].status # "running"
        /\ UNCHANGED <<shape, masterhost, replstate, try, asked, masterdb, data, dump>>
    BY DEF backgroundSaveDoneHandler
  <1>2. slaves' = [slaves EXCEPT ![m] =
            updateSlavesWaitingBgsave(slaves[m], child[m][1].status # "failed", dump[m])]
    BY DEF backgroundSaveDoneHandler
  <1>3. slaves' = [slaves EXCEPT ![m] = ToldAll(Kept(slaves[m], child[m][1].status), dump[m])]
    BY <1>2, UpdateIs, Zenon
  <1>4. /\ left' = left \/ Mishap("nextfork")
        /\ \/ child' = [child EXCEPT ![m] = Child(data[m])]
           \/ /\ child' = [child EXCEPT ![m] = <<>>]
              /\ Waiting(slaves[m], "wait_bgsave_start") = {} \/ Mishap("nextfork")
    <2> DEFINE W == Waiting(slaves[m], "wait_bgsave_start")
    <2>1. PICK forked \in {W # {}, FALSE} :
             /\ child' = [child EXCEPT ![m] = IF forked THEN Child(data[m]) ELSE <<>>]
             /\ IF forked = (W # {}) THEN UNCHANGED left ELSE Mishap("nextfork")
      BY Zenon DEF backgroundSaveDoneHandler
    <2> HIDE DEF W
    <2>2. CASE forked = TRUE
      BY <2>1, <2>2
    <2>3. CASE forked = FALSE
      BY <2>1, <2>3 DEF W
    <2> QED  BY <2>1, <2>2, <2>3
  <1> QED  BY <1>1, <1>3, <1>4

(* A save has ended.                                                        *)
LEMMA DoneTyped ==
    ASSUME IInv, Typed, NEW m \in Servers, backgroundSaveDoneHandler(m)
    PROVE  Typed'
  <1> DEFINE kept == Kept(slaves[m], child[m][1].status)
             l == ToldAll(kept, dump[m])
  <1>1. slaves[m] \in Seq(Clients(shape.dbs)) /\ dump[m] \in Datasets
    BY DEF Typed
  <1>2. kept \in Seq(Clients(shape.dbs))
    BY <1>1, KeptIs
  <1>3. l \in Seq(Clients(shape.dbs))
    BY <1>1, <1>2, ListTold
  <1>4. slaves' = [slaves EXCEPT ![m] = l] /\ UNCHANGED <<shape, try, asked, masterdb, data, dump>>
    BY DoneIs
  <1> HIDE DEF l
  <1>5. slaves' \in [Servers -> Seq(Clients(shape.dbs))]'
    BY <1>3, <1>4, SlavesTyped
  <1>6. Child(data[m]) \in Children /\ <<>> \in Children
    BY ChildrenAre DEF Typed
  <1>7. child' \in [Servers -> Children] /\ left' \in [Budgets -> Nat]
    BY <1>6, DoneIs, MishapTyped DEF Typed
  <1> QED  BY <1>4, <1>5, <1>7 DEF Typed

(* The last byte of a dump is sent, or a client is freed.                   *)
LEMMA SendIs ==
    ASSUME NEW m, sendBulkToSlave(m)
    PROVE  /\ UNCHANGED <<shape, left, masterhost, replstate, try, asked, masterdb, data, dump, child>>
           /\ \E i \in DOMAIN slaves[m] :
                 /\ slaves[m][i].state = "send_bulk"
                 /\ slaves' = [slaves EXCEPT ![m] = [slaves[m] EXCEPT ![i] = Sent(slaves[m][i])]]
  BY DEF sendBulkToSlave, Sent

(* The dump is sent.                                                        *)
LEMMA SendTyped ==
    ASSUME IInv, Typed, NEW m \in Servers, sendBulkToSlave(m)
    PROVE  Typed'
  <1>1. PICK i \in DOMAIN slaves[m] :
           slaves' = [slaves EXCEPT ![m] = [slaves[m] EXCEPT ![i] = Sent(slaves[m][i])]]
    BY SendIs
  <1> DEFINE l == [slaves[m] EXCEPT ![i] = Sent(slaves[m][i])]
  <1>2. slaves[m] \in Seq(Clients(shape.dbs))
    BY DEF Typed
  <1>3. Sent(slaves[m][i]) \in Clients(shape.dbs)
    BY <1>2, ClientsStay
  <1>4. l \in Seq(Clients(shape.dbs))
    BY <1>2, <1>3, OneChanges
  <1>5. slaves' = [slaves EXCEPT ![m] = l] /\ UNCHANGED <<shape, left, try, asked, masterdb, data, dump, child>>
    BY <1>1, SendIs
  <1> HIDE DEF l
  <1>6. slaves' \in [Servers -> Seq(Clients(shape.dbs))]'
    BY <1>4, <1>5, SlavesTyped
  <1> QED  BY <1>5, <1>6 DEF Typed

(* A client is freed.                                                       *)
LEMMA FreeTyped ==
    ASSUME IInv, Typed, NEW m \in Servers, freeSlave(m)
    PROVE  Typed'
  <1>1. PICK i \in DOMAIN slaves[m] : slaves' = [slaves EXCEPT ![m] = RemoveAt(slaves[m], i)]
    BY DEF freeSlave
  <1>2. slaves[m] \in Seq(Clients(shape.dbs))
    BY DEF Typed
  <1>3. RemoveAt(slaves[m], i) \in Seq(Clients(shape.dbs))
    BY <1>2, ListWithout
  <1>4. /\ UNCHANGED <<shape, try, asked, masterdb, data, dump, child>>
        /\ left' \in [Budgets -> Nat]
    BY MishapTyped DEF freeSlave, Typed
  <1>5. slaves' \in [Servers -> Seq(Clients(shape.dbs))]'
    BY <1>1, <1>3, <1>4, SlavesTyped
  <1> QED  BY <1>4, <1>5 DEF Typed

(* The numbers of the links in use have a bound, so that there is another.  *)
Bounded ==
    \E b \in Nat :
        /\ \A r \in asked : r.try <= b
        /\ \A m \in Servers : \A i \in DOMAIN slaves[m] : slaves[m][i].try <= b

(* It is the number of no link.                                             *)
LEMMA FreshIs ==
    ASSUME Typed, Bounded, NEW s \in Servers
    PROVE  /\ FreshTry(s) \in Nat
           /\ \A r \in asked : r.slave = s => r.try # FreshTry(s)
           /\ \A m \in Servers : \A i \in DOMAIN slaves[m] :
                 slaves[m][i].slave = s => slaves[m][i].try # FreshTry(s)
  <1> DEFINE U == UsedTries(s)
  <1>1. PICK b \in Nat : /\ \A r \in asked : r.try <= b
                         /\ \A m \in Servers : \A i \in DOMAIN slaves[m] : slaves[m][i].try <= b
    BY DEF Bounded
  <1>2. \A r \in asked : r.try \in 0 .. b
    BY <1>1 DEF Typed
  <1>3. \A m \in Servers : \A i \in DOMAIN slaves[m] : slaves[m][i].try \in 0 .. b
    <2> TAKE m \in Servers
    <2> TAKE i \in DOMAIN slaves[m]
    <2>1. slaves[m][i] \in Clients(shape.dbs)
      BY DEF Typed
    <2>2. slaves[m][i].try \in Nat
      BY <2>1 DEF Clients
    <2> QED  BY <1>1, <2>2
  <1>4. U \subseteq 0 .. b
    <2>1. \A m \in Servers : \A d \in ToSet(slaves[m]) : d.try \in 0 .. b
      BY <1>3 DEF ToSet
    <2>2. {r.try : r \in {q \in asked : q.slave = s}} \subseteq 0 .. b
      BY <1>2
    <2>3. \A m \in Servers : {c.try : c \in {d \in ToSet(slaves[m]) : d.slave = s}} \subseteq 0 .. b
      BY <2>1
    <2> QED  BY <2>2, <2>3 DEF UsedTries
  <1>5. IsFiniteSet(0 .. b)
    BY FS_Interval
  <1>6. IsFiniteSet(U)
    BY <1>4, <1>5, FS_Subset
  <1>7. Cardinality(U) \in Nat
    BY <1>6, FS_CardinalityType
  <1> DEFINE N == Cardinality(U) + 1
  <1>8. \E n \in 1 .. N : n \notin U
    <2> SUFFICES ASSUME 1 .. N \subseteq U PROVE FALSE
      OBVIOUS
    <2>1. Cardinality(1 .. N) <= Cardinality(U)
      BY <1>6, FS_Subset
    <2>2. Cardinality(1 .. N) = N
      BY <1>7, FS_Interval
    <2> QED  BY <1>7, <2>1, <2>2
  <1>9. FreshTry(s) \in 1 .. N /\ FreshTry(s) \notin U
    BY <1>8 DEF FreshTry
  <1>10. \A r \in asked : r.slave = s => r.try \in U
    BY DEF UsedTries
  <1>11. \A m \in Servers : \A i \in DOMAIN slaves[m] : slaves[m][i].slave = s => slaves[m][i].try \in U
    BY DEF UsedTries, ToSet
  <1> QED  BY <1>7, <1>9, <1>10, <1>11

(* A link is begun, or asked over.                                          *)
LEMMA ConnectTyped ==
    ASSUME IInv, Typed, Bounded, NEW s \in Servers, connectWithMaster(s) \/ syncWithMaster(s)
    PROVE  Typed'
  <1>1. UNCHANGED <<shape, left, masterdb, data, dump, child, slaves>>
    BY DEF connectWithMaster, syncWithMaster
  <1>2. try' \in [Servers -> Nat]
    BY FreshIs DEF connectWithMaster, syncWithMaster, Typed
  <1>3. asked' \subseteq [slave : Servers, master : Servers, try : Nat]
    <2>1. CASE UNCHANGED asked
      BY <2>1 DEF Typed
    <2>2. CASE /\ replstate[s] = "receive_pong"
               /\ asked' = asked \cup {[slave |-> s, master |-> masterhost[s], try |-> try[s]]}
      <3>1. masterhost[s] \in Servers
        BY <2>2 DEF IInv, LinksTyped, LinksHaveMasters
      <3> QED  BY <2>2, <3>1 DEF Typed
    <2> QED  BY <2>1, <2>2 DEF connectWithMaster, syncWithMaster
  <1> QED  BY <1>1, <1>2, <1>3 DEF Typed

(* The client of s for its master, and what the load of a dump does.        *)
LEMMA MineIs ==
    ASSUME IInv, Typed, NEW s \in Servers, Linked(s), NEW i \in Mine(s)
    PROVE  /\ masterhost[s] \in Servers /\ i \in DOMAIN slaves[masterhost[s]]
           /\ slaves[masterhost[s]][i] \in Clients(shape.dbs)
           /\ slaves[masterhost[s]][i].slave = s /\ slaves[masterhost[s]][i].try = try[s]
  <1>1. masterhost[s] \in Servers
    BY DEF IInv, LinksTyped, LinksHaveMasters, Linked
  <1>2. slaves[masterhost[s]] \in Seq(Clients(shape.dbs))
    BY <1>1 DEF Typed
  <1>3. i \in DOMAIN slaves[masterhost[s]] /\ slaves[masterhost[s]][i].slave = s
        /\ slaves[masterhost[s]][i].try = try[s]
    BY DEF Mine
  <1> QED  BY <1>1, <1>2, <1>3

(* A child that ends while its server loads a dump.                         *)
Overtaken(k) == [j \in DOMAIN k |-> [k[j] EXCEPT !.status = "saved"]]

(* The load of a dump: the dataset is the dump, unless a child overtakes    *)
(* it.                                                                      *)
LEMMA LoadIs ==
    ASSUME Typed, NEW s \in Servers, readSyncBulkPayload(s)
    PROVE  /\ replstate[s] = "transfer" /\ UNCHANGED <<shape, masterhost, try, asked>>
           /\ replstate' = [replstate EXCEPT ![s] = "connected"]
           /\ masterdb' = [masterdb EXCEPT ![s] = 0]
           /\ \E i \in Mine(s) :
                 LET m == masterhost[s]
                     c == slaves[m][i]
                 IN  /\ c.state = "online" /\ c.bulk # <<>>
                     /\ slaves' = [slaves EXCEPT ![m] = [slaves[m] EXCEPT ![i] = Loaded(c)]]
                     /\ \/ /\ UNCHANGED left
                           /\ data' = [data EXCEPT ![s] = c.bulk[1]]
                           /\ dump' = [dump EXCEPT ![s] = c.bulk[1]]
                           /\ child' = [child EXCEPT ![s] = [j \in DOMAIN @ |-> @[j]]]
                        \/ /\ Mishap("overtake") /\ child[s] # <<>>
                           /\ data' = [data EXCEPT ![s] = child[s][1].snapshot]
                           /\ dump' = [dump EXCEPT ![s] = child[s][1].snapshot]
                           /\ child' = [child EXCEPT ![s] = Overtaken(@)]
  <1>1. /\ replstate[s] = "transfer" /\ UNCHANGED <<shape, masterhost, try, asked>>
        /\ replstate' = [replstate EXCEPT ![s] = "connected"]
        /\ masterdb' = [masterdb EXCEPT ![s] = 0]
    BY DEF readSyncBulkPayload
  <1> DEFINE m == masterhost[s]
  <1>2. PICK i \in Mine(s) :
           /\ slaves[m][i].state = "online" /\ slaves[m][i].bulk # <<>>
           /\ slaves' = [slaves EXCEPT ![m][i].bulk = <<>>]
           /\ \E overtaken \in BOOLEAN :
                 /\ overtaken => child[s] # <<>> /\ child[s][1].status = "running"
                 /\ IF overtaken THEN Mishap("overtake") ELSE UNCHANGED left
                 /\ data' = [data EXCEPT ![s] =
                                 IF overtaken THEN child[s][1].snapshot ELSE slaves[m][i].bulk[1]]
                 /\ child' = [child EXCEPT ![s] = [j \in DOMAIN @ |->
                                 IF overtaken THEN [@[j] EXCEPT !.status = "saved"] ELSE @[j]]]
           /\ dump' = [dump EXCEPT ![s] = data'[s]]
    BY DEF readSyncBulkPayload
  <1>3. slaves' = [slaves EXCEPT ![m] = [slaves[m] EXCEPT ![i] = Loaded(slaves[m][i])]]
    BY <1>2 DEF Loaded
  <1>4. data \in [Servers -> Datasets]
    BY DEF Typed
  <1> HIDE DEF m
  <1>5. \/ /\ UNCHANGED left
           /\ data' = [data EXCEPT ![s] = slaves[m][i].bulk[1]]
           /\ dump' = [dump EXCEPT ![s] = slaves[m][i].bulk[1]]
           /\ child' = [child EXCEPT ![s] = [j \in DOMAIN @ |-> @[j]]]
        \/ /\ Mishap("overtake") /\ child[s] # <<>>
           /\ data' = [data EXCEPT ![s] = child[s][1].snapshot]
           /\ dump' = [dump EXCEPT ![s] = child[s][1].snapshot]
           /\ child' = [child EXCEPT ![s] = Overtaken(@)]
    <2>1. PICK overtaken \in BOOLEAN :
             /\ overtaken => child[s] # <<>>
             /\ IF overtaken THEN Mishap("overtake") ELSE UNCHANGED left
             /\ data' = [data EXCEPT ![s] =
                             IF overtaken THEN child[s][1].snapshot ELSE slaves[m][i].bulk[1]]
             /\ child' = [child EXCEPT ![s] = [j \in DOMAIN @ |->
                             IF overtaken THEN [@[j] EXCEPT !.status = "saved"] ELSE @[j]]]
      BY <1>2
    <2>2. dump' = [dump EXCEPT ![s] = data'[s]]
      BY <1>2
    <2>3. CASE overtaken = TRUE
      <3>1. data' = [data EXCEPT ![s] = child[s][1].snapshot]
        BY <2>1, <2>3
      <3>2. dump' = [dump EXCEPT ![s] = child[s][1].snapshot]
        BY <1>4, <2>2, <3>1
      <3>3. child' = [child EXCEPT ![s] = Overtaken(@)]
        BY <2>1, <2>3 DEF Overtaken
      <3> QED  BY <2>1, <2>3, <3>1, <3>2, <3>3
    <2>4. CASE overtaken = FALSE
      <3>1. data' = [data EXCEPT ![s] = slaves[m][i].bulk[1]]
        BY <2>1, <2>4
      <3>2. dump' = [dump EXCEPT ![s] = slaves[m][i].bulk[1]]
        BY <1>4, <2>2, <3>1
      <3>3. child' = [child EXCEPT ![s] = [j \in DOMAIN @ |-> @[j]]]
        BY <2>1, <2>4
      <3> QED  BY <2>1, <2>4, <3>1, <3>2, <3>3
    <2> QED  BY <2>1, <2>3, <2>4
  <1> QED  BY <1>1, <1>2, <1>3, <1>5, Zenon DEF m

(* It is still a child; and a child that is copied is the same.             *)
LEMMA OvertakenIs ==
    ASSUME NEW k \in Children
    PROVE  Overtaken(k) \in Children /\ [j \in DOMAIN k |-> k[j]] = k
  <1>1. CASE k = <<>>
    BY <1>1, ChildrenAre DEF Overtaken
  <1>2. CASE k # <<>>
    <2> DEFINE e == k[1]
               f == [e EXCEPT !.status = "saved"]
    <2>1. e \in [status : {"running", "saved", "failed", "killed"}, snapshot : Datasets]
          /\ k = <<e>>
      BY <1>2, ChildrenAre
    <2> HIDE DEF e
    <2>2. Overtaken(k) = <<f>> /\ [j \in DOMAIN k |-> k[j]] = <<e>>
      BY <2>1 DEF Overtaken
    <2>3. f \in [status : {"running", "saved", "failed", "killed"}, snapshot : Datasets]
      BY <2>1
    <2> HIDE DEF f
    <2>4. <<f>> \in Children
      BY <2>3 DEF Children
    <2> QED  BY <2>1, <2>2, <2>4
  <1> QED  BY <1>1, <1>2

(* The dump of a client.                                                    *)
LEMMA BulkIs ==
    ASSUME NEW dbs, NEW c \in Clients(dbs), c.bulk # <<>>
    PROVE  c.bulk[1] \in Datasets
  <1>1. c.bulk \in {<<d>> : d \in Datasets}
    BY DEF Clients
  <1> DEFINE b == c.bulk
  <1> HIDE DEF b
  <1>2. b \in {<<d>> : d \in Datasets}
    BY <1>1 DEF b
  <1>3. b[1] \in Datasets
    BY <1>2
  <1> QED  BY <1>3 DEF b

(* A dump is loaded.                                                        *)
LEMMA LoadTyped ==
    ASSUME IInv, Typed, NEW s \in Servers, readSyncBulkPayload(s)
    PROVE  Typed'
  <1> DEFINE m == masterhost[s]
  <1>1. /\ Linked(s) /\ UNCHANGED <<shape, masterhost, try, asked>>
        /\ masterdb' = [masterdb EXCEPT ![s] = 0]
    BY LoadIs DEF Linked
  <1>2. PICK i \in Mine(s) :
           /\ slaves[m][i].bulk # <<>>
           /\ slaves' = [slaves EXCEPT ![m] = [slaves[m] EXCEPT ![i] = Loaded(slaves[m][i])]]
           /\ \/ /\ UNCHANGED left
                 /\ data' = [data EXCEPT ![s] = slaves[m][i].bulk[1]]
                 /\ dump' = [dump EXCEPT ![s] = slaves[m][i].bulk[1]]
                 /\ child' = [child EXCEPT ![s] = [j \in DOMAIN @ |-> @[j]]]
              \/ /\ Mishap("overtake") /\ child[s] # <<>>
                 /\ data' = [data EXCEPT ![s] = child[s][1].snapshot]
                 /\ dump' = [dump EXCEPT ![s] = child[s][1].snapshot]
                 /\ child' = [child EXCEPT ![s] = Overtaken(@)]
    BY LoadIs
  <1>3. /\ m \in Servers /\ i \in DOMAIN slaves[m] /\ slaves[m][i] \in Clients(shape.dbs)
    BY <1>1, MineIs
  <1> HIDE DEF m
  <1> DEFINE l == [slaves[m] EXCEPT ![i] = Loaded(slaves[m][i])]
  <1>4. l \in Seq(Clients(shape.dbs))
    <2>1. slaves[m] \in Seq(Clients(shape.dbs)) /\ Loaded(slaves[m][i]) \in Clients(shape.dbs)
      BY <1>3, ClientsStay DEF Typed
    <2> QED  BY <1>3, <2>1, OneChanges
  <1>5. slaves' = [slaves EXCEPT ![m] = l]
    BY <1>2
  <1> HIDE DEF l
  <1>6. slaves' \in [Servers -> Seq(Clients(shape.dbs))]'
    BY <1>1, <1>3, <1>4, <1>5, SlavesTyped
  <1>7. slaves[m][i].bulk[1] \in Datasets
    BY <1>2, <1>3, BulkIs
  <1>8. child[s] # <<>> => child[s][1].snapshot \in Datasets
    BY ChildrenAre DEF Typed
  <1>9. Overtaken(child[s]) \in Children /\ [j \in DOMAIN child[s] |-> child[s][j]] = child[s]
    BY OvertakenIs DEF Typed
  <1>10. /\ data' \in [Servers -> Datasets] /\ dump' \in [Servers -> Datasets]
    BY <1>2, <1>7, <1>8 DEF Typed
  <1>11. child' \in [Servers -> Children]
    BY <1>2, <1>9 DEF Typed
  <1>12. left' \in [Budgets -> Nat]
    BY <1>2, MishapTyped DEF Typed
  <1>13. masterdb' \in [Servers -> shape.dbs]
    BY <1>1, DatabasesAre DEF Typed
  <1> QED  BY <1>1, <1>6, <1>10, <1>11, <1>12, <1>13 DEF Typed

(* What a command of the master's stream does.                              *)
LEMMA ReadIs ==
    ASSUME NEW s, ReadCommand(s)
    PROVE  /\ replstate[s] = "connected" /\ UNCHANGED <<shape, left, masterhost, replstate, try, asked>>
           /\ \E i \in Mine(s) :
                 LET m == masterhost[s]
                     c == slaves[m][i]
                     cmd == Head(c.out)
                     read == [slaves EXCEPT ![m] = [slaves[m] EXCEPT ![i] = Popped(c)]]
                 IN  /\ c.state = "online" /\ c.out # <<>>
                     /\ \/ /\ cmd.op = "select" /\ slaves' = read
                           /\ masterdb' = [masterdb EXCEPT ![s] = cmd.n]
                           /\ UNCHANGED <<data, dump, child>>
                        \/ /\ cmd.op \in {"write", "flushall"} /\ UNCHANGED masterdb
                           /\ slaves' = [read EXCEPT ![s] =
                                            replicationFeedSlaves(read[s], masterdb[s], cmd)]
                           /\ Effect(s, masterdb[s], cmd)
  <1>1. replstate[s] = "connected" /\ UNCHANGED <<shape, left, masterhost, replstate, try, asked>>
    BY DEF ReadCommand
  <1> DEFINE m == masterhost[s]
  <1>2. PICK i \in Mine(s) :
           LET cmd == Head(slaves[m][i].out)
               read == [slaves EXCEPT ![m][i].out = Tail(@)]
           IN  /\ slaves[m][i].state = "online" /\ slaves[m][i].out # <<>>
               /\ \/ /\ cmd.op = "select" /\ slaves' = read
                     /\ masterdb' = [masterdb EXCEPT ![s] = cmd.n]
                     /\ UNCHANGED <<data, dump, child>>
                  \/ /\ cmd.op = "write"
                     /\ data' = [data EXCEPT ![s] = Append(@, <<masterdb[s], cmd.n>>)]
                     /\ slaves' = [read EXCEPT ![s] = replicationFeedSlaves(@, masterdb[s], cmd)]
                     /\ UNCHANGED <<masterdb, dump, child>>
                  \/ /\ cmd.op = "flushall"
                     /\ flushall(s)
                     /\ slaves' = [read EXCEPT ![s] = replicationFeedSlaves(@, masterdb[s], cmd)]
                     /\ UNCHANGED masterdb
    BY Zenon DEF ReadCommand
  <1> DEFINE cmd == Head(slaves[m][i].out)
             read == [slaves EXCEPT ![m] = [slaves[m] EXCEPT ![i] = Popped(slaves[m][i])]]
             was == [slaves EXCEPT ![m][i].out = Tail(@)]
  <1>3. was = read
    BY DEF Popped
  <1>4. cmd.op = "write" /\ data' = [data EXCEPT ![s] = Append(@, <<masterdb[s], cmd.n>>)]
           /\ UNCHANGED <<dump, child>>
        => Effect(s, masterdb[s], cmd)
    <2> HIDE DEF cmd
    <2> QED  BY DEF Effect, After
  <1>5. cmd.op = "flushall" /\ flushall(s) => Effect(s, masterdb[s], cmd)
    <2> HIDE DEF cmd
    <2> QED  BY DEF Effect, After, flushall, Killed
  <1>6. /\ slaves[m][i].state = "online" /\ slaves[m][i].out # <<>>
        /\ \/ /\ cmd.op = "select" /\ slaves' = was
              /\ masterdb' = [masterdb EXCEPT ![s] = cmd.n]
              /\ UNCHANGED <<data, dump, child>>
           \/ /\ cmd.op = "write"
              /\ data' = [data EXCEPT ![s] = Append(@, <<masterdb[s], cmd.n>>)]
              /\ slaves' = [was EXCEPT ![s] = replicationFeedSlaves(was[s], masterdb[s], cmd)]
              /\ UNCHANGED <<masterdb, dump, child>>
           \/ /\ cmd.op = "flushall"
              /\ flushall(s)
              /\ slaves' = [was EXCEPT ![s] = replicationFeedSlaves(was[s], masterdb[s], cmd)]
              /\ UNCHANGED masterdb
    BY <1>2, Zenon
  <1> HIDE DEF cmd, read, was
  <1>7. /\ slaves[m][i].state = "online" /\ slaves[m][i].out # <<>>
        /\ \/ /\ cmd.op = "select" /\ slaves' = read
              /\ masterdb' = [masterdb EXCEPT ![s] = cmd.n]
              /\ UNCHANGED <<data, dump, child>>
           \/ /\ cmd.op \in {"write", "flushall"} /\ UNCHANGED masterdb
              /\ slaves' = [read EXCEPT ![s] = replicationFeedSlaves(read[s], masterdb[s], cmd)]
              /\ Effect(s, masterdb[s], cmd)
    BY <1>3, <1>4, <1>5, <1>6
  <1> QED  BY <1>1, <1>7, Zenon DEF cmd, read

(* A command that is read is one of the stream.                             *)
LEMMA HeadIs ==
    ASSUME NEW dbs, NEW c \in Clients(dbs), c.out # <<>>
    PROVE  Head(c.out) \in Stream(dbs)
  <1> DEFINE q == c.out
  <1>1. q \in Seq(Stream(dbs)) /\ q # <<>>
    BY DEF Clients
  <1> HIDE DEF q
  <1>2. Head(q) \in Stream(dbs)
    BY <1>1
  <1> QED  BY <1>2 DEF q

(* A command of the stream is executed.                                     *)
LEMMA ReadTyped ==
    ASSUME IInv, Typed, NEW s \in Servers, ReadCommand(s)
    PROVE  Typed'
  <1> DEFINE m == masterhost[s]
             D == shape.dbs
  <1>1. Linked(s) /\ UNCHANGED <<shape, left, try, asked>>
    BY ReadIs DEF Linked
  <1>2. PICK i \in Mine(s) :
           LET c == slaves[m][i]
               cmd == Head(c.out)
               read == [slaves EXCEPT ![m] = [slaves[m] EXCEPT ![i] = Popped(c)]]
           IN  /\ c.state = "online" /\ c.out # <<>>
               /\ \/ /\ cmd.op = "select" /\ slaves' = read
                     /\ masterdb' = [masterdb EXCEPT ![s] = cmd.n]
                     /\ UNCHANGED <<data, dump, child>>
                  \/ /\ cmd.op \in {"write", "flushall"} /\ UNCHANGED masterdb
                     /\ slaves' = [read EXCEPT ![s] =
                                      replicationFeedSlaves(read[s], masterdb[s], cmd)]
                     /\ Effect(s, masterdb[s], cmd)
    BY ReadIs, Zenon
  <1> DEFINE c == slaves[m][i]
             cmd == Head(c.out)
             l == [slaves[m] EXCEPT ![i] = Popped(c)]
             read == [slaves EXCEPT ![m] = l]
             fed == replicationFeedSlaves(read[s], masterdb[s], cmd)
  <1>3. /\ c.out # <<>>
        /\ \/ /\ cmd.op = "select" /\ slaves' = read
              /\ masterdb' = [masterdb EXCEPT ![s] = cmd.n]
              /\ UNCHANGED <<data, dump, child>>
           \/ /\ cmd.op \in {"write", "flushall"} /\ UNCHANGED masterdb
              /\ slaves' = [read EXCEPT ![s] = fed]
              /\ Effect(s, masterdb[s], cmd)
    BY <1>2, Zenon
  <1>4. m \in Servers /\ i \in DOMAIN slaves[m] /\ c \in Clients(D)
    BY <1>1, MineIs
  <1>5. cmd \in Stream(D)
    BY <1>3, <1>4, HeadIs
  <1>6. slaves \in [Servers -> Seq(Clients(D))] /\ masterdb[s] \in D
    BY DEF Typed
  <1>7. l \in Seq(Clients(D))
    <2>1. Popped(c) \in Clients(D)
      BY <1>3, <1>4, ClientsStay
    <2> HIDE DEF c, D
    <2> QED  BY <1>4, <1>6, <2>1, OneChanges
  <1> HIDE DEF l, cmd, c, D, m
  <1>8. read \in [Servers -> Seq(Clients(D))]
    BY <1>4, <1>6, <1>7
  <1> HIDE DEF read
  <1>9. cmd \in Fedable(D) => fed \in Seq(Clients(D))
    BY <1>6, <1>8, ListFed, DatabasesAre DEF D
  <1> HIDE DEF fed
  <1>10. CASE cmd.op = "select"
    <2>1. slaves' = read /\ masterdb' = [masterdb EXCEPT ![s] = cmd.n] /\ UNCHANGED <<data, dump, child>>
      BY <1>3, <1>10
    <2>2. cmd.n \in D
      BY <1>5, <1>10 DEF Stream
    <2>3. masterdb' \in [Servers -> D]
      BY <2>1, <2>2 DEF Typed, D
    <2> QED  BY <1>1, <1>8, <2>1, <2>3 DEF Typed, D
  <1>11. CASE cmd.op \in {"write", "flushall"}
    <2>1. slaves' = [read EXCEPT ![s] = fed] /\ UNCHANGED masterdb /\ Effect(s, masterdb[s], cmd)
      BY <1>3, <1>11
    <2>2. cmd \in Fedable(D)
      BY <1>5, <1>11 DEF Fedable
    <2>3. slaves' \in [Servers -> Seq(Clients(D))]
      BY <1>8, <1>9, <2>1, <2>2
    <2>4. /\ data' \in [Servers -> Datasets] /\ dump' \in [Servers -> Datasets]
          /\ child' \in [Servers -> Children]
      BY <1>6, <2>1, <2>2, EffectTyped DEF D
    <2> QED  BY <1>1, <2>1, <2>3, <2>4 DEF Typed, D
  <1> QED  BY <1>3, <1>10, <1>11

(* A link is given up, a server gets another master, or dies.               *)
LEMMA UnlinkTyped ==
    ASSUME IInv, Typed, NEW s \in Servers, LinkClosed(s) \/ LinkFails(s)
    PROVE  Typed'
  <1>1. /\ UNCHANGED <<shape, try, asked, masterdb, data, dump, child>>
        /\ left' \in [Budgets -> Nat] /\ Unlink(s)
    BY MishapTyped DEF LinkClosed, LinkFails, Typed
  <1>2. slaves' = [slaves EXCEPT ![s] = IF replstate[s] = "connected" THEN <<>> ELSE slaves[s]]
    BY <1>1 DEF Unlink
  <1>3. <<>> \in Seq(Clients(shape.dbs)) /\ slaves[s] \in Seq(Clients(shape.dbs))
    BY DEF Typed
  <1>4. slaves' \in [Servers -> Seq(Clients(shape.dbs))]'
    BY <1>1, <1>2, <1>3, SlavesTyped
  <1> QED  BY <1>1, <1>4 DEF Typed

(* A server gets another master.                                            *)
LEMMA SlaveofTyped ==
    ASSUME IInv, Typed, NEW s \in Servers, slaveofCommand(s)
    PROVE  Typed'
  <1>1. /\ UNCHANGED <<shape, try, asked, masterdb, data, dump, child>>
        /\ left' \in [Budgets -> Nat]
    BY SpendTyped DEF slaveofCommand, Budgets
  <1>2. PICK l \in {<<>>, slaves[s]} : slaves' = [slaves EXCEPT ![s] = l]
    BY DEF slaveofCommand
  <1>3. <<>> \in Seq(Clients(shape.dbs)) /\ slaves[s] \in Seq(Clients(shape.dbs))
    BY DEF Typed
  <1>4. slaves' \in [Servers -> Seq(Clients(shape.dbs))]'
    BY <1>1, <1>2, <1>3, SlavesTyped
  <1> QED  BY <1>1, <1>4 DEF Typed

(* A server dies and is started again.                                      *)
LEMMA CrashTyped ==
    ASSUME IInv, Typed, NEW s \in Servers, CrashAndRestart(s)
    PROVE  Typed'
  <1>1. /\ UNCHANGED <<shape, try, masterdb>> /\ left' \in [Budgets -> Nat]
        /\ asked' \subseteq asked /\ slaves' = [slaves EXCEPT ![s] = <<>>]
        /\ child' = [child EXCEPT ![s] = <<>>]
    BY MishapTyped DEF CrashAndRestart
  <1>2. PICK file \in {dump[s]} \cup {k.snapshot : k \in {j \in ToSet(child[s]) : j.status = "running"}} :
           dump' = [dump EXCEPT ![s] = file] /\ data' = [data EXCEPT ![s] = file]
    BY DEF CrashAndRestart
  <1>3. \A k \in ToSet(child[s]) : k.snapshot \in Datasets
    <2>1. CASE child[s] = <<>>
      BY <2>1 DEF ToSet
    <2>2. CASE child[s] # <<>>
      <3>1. child[s] = <<child[s][1]>> /\ child[s][1].snapshot \in Datasets
        BY <2>2, ChildrenAre DEF Typed
      <3> DEFINE e == child[s][1]
      <3> HIDE DEF e
      <3>2. ToSet(<<e>>) = {e}
        BY DEF ToSet
      <3>3. child[s] = <<e>> /\ e.snapshot \in Datasets
        BY <3>1 DEF e
      <3> QED  BY <3>2, <3>3
    <2> QED  BY <2>1, <2>2
  <1>4. file \in Datasets /\ <<>> \in Children /\ <<>> \in Seq(Clients(shape.dbs))
    BY <1>2, <1>3, ChildrenAre DEF Typed
  <1>5. slaves' \in [Servers -> Seq(Clients(shape.dbs))]'
    BY <1>1, <1>4, SlavesTyped
  <1> QED  BY <1>1, <1>2, <1>4, <1>5 DEF Typed

(* Every step keeps the types.                                              *)
LEMMA TypedStep ==
    ASSUME IInv, Typed, Bounded, [Next]_vars
    PROVE  Typed'
  <1>1. CASE UNCHANGED vars
    BY <1>1 DEF vars, Typed
  <1>2. ASSUME NEW s \in Servers, Write(s) \/ Flush(s) PROVE Typed'
    BY <1>2, WriteTyped
  <1>3. ASSUME NEW s \in Servers, syncCommand(s) PROVE Typed'
    BY <1>3, SyncTyped
  <1>4. ASSUME NEW s \in Servers, rdbSaveBackground(s) PROVE Typed'
    BY <1>4, SaveTyped
  <1>5. ASSUME NEW s \in Servers, ChildEnds(s) PROVE Typed'
    BY <1>5, EndsTyped
  <1>6. ASSUME NEW s \in Servers, backgroundSaveDoneHandler(s) PROVE Typed'
    BY <1>6, DoneTyped
  <1>7. ASSUME NEW s \in Servers, sendBulkToSlave(s) PROVE Typed'
    BY <1>7, SendTyped
  <1>8. ASSUME NEW s \in Servers, freeSlave(s) PROVE Typed'
    BY <1>8, FreeTyped
  <1>9. ASSUME NEW s \in Servers, connectWithMaster(s) \/ syncWithMaster(s) PROVE Typed'
    BY <1>9, ConnectTyped
  <1>10. ASSUME NEW s \in Servers, readSyncBulkPayload(s) PROVE Typed'
    BY <1>10, LoadTyped
  <1>11. ASSUME NEW s \in Servers, ReadCommand(s) PROVE Typed'
    BY <1>11, ReadTyped
  <1>12. ASSUME NEW s \in Servers, LinkClosed(s) \/ LinkFails(s) PROVE Typed'
    BY <1>12, UnlinkTyped
  <1>13. ASSUME NEW s \in Servers, slaveofCommand(s) PROVE Typed'
    BY <1>13, SlaveofTyped
  <1>14. ASSUME NEW s \in Servers, CrashAndRestart(s) PROVE Typed'
    BY <1>14, CrashTyped
  <1> QED
    BY <1>1, <1>2, <1>3, <1>4, <1>5, <1>6, <1>7, <1>8, <1>9, <1>10, <1>11, <1>12, <1>13, <1>14
    DEF Next

-----------------------------------------------------------------------------
(* Every link has a number of its own                                       *)

(* Two ends of one link, clients or requests.                               *)
SameLink(p, q) == p.slave = q.slave /\ p.try = q.try

(* No request and no client has the link n of s.                            *)
Unused(s, n) ==
    /\ \A r \in asked : ~(r.slave = s /\ r.try = n)
    /\ \A m \in Servers : \A i \in DOMAIN slaves[m] :
          ~(slaves[m][i].slave = s /\ slaves[m][i].try = n)

(* No two requests, and no two clients, have the same link.                 *)
RequestsDistinct == \A r, q \in asked : SameLink(r, q) => r = q
ClientsDistinct ==
    \A m, n \in Servers : \A i \in DOMAIN slaves[m], j \in DOMAIN slaves[n] :
        SameLink(slaves[m][i], slaves[n][j]) => m = n /\ i = j

(* A request is taken when it becomes a client.                             *)
RequestsUnserved ==
    \A r \in asked, m \in Servers : \A i \in DOMAIN slaves[m] : ~SameLink(r, slaves[m][i])

(* A link that is begun is nobody else's.                                   *)
NewLinksUnused ==
    \A s \in Servers : replstate[s] \in {"connecting", "receive_pong"} => Unused(s, try[s])

(* Nobody is served on a link before its request was.                       *)
RequestsWaitedFor == \A r \in asked : r.try = try[r.slave] => replstate[r.slave] # "connected"

(* A server that is served is not its own master.                           *)
NobodyOwnSlave == \A s \in Servers : replstate[s] = "connected" => masterhost[s] # s

(* What the links of the servers keep.                                      *)
LinksDistinct ==
    /\ RequestsDistinct /\ ClientsDistinct /\ RequestsUnserved /\ NewLinksUnused
    /\ RequestsWaitedFor /\ NobodyOwnSlave

(* The clients of a list are clients of another, with the same links.       *)
Descends(new, old) ==
    \E f \in [DOMAIN new -> DOMAIN old] :
        /\ \A i, j \in DOMAIN new : f[i] = f[j] => i = j
        /\ \A i \in DOMAIN new : SameLink(new[i], old[f[i]])

(* Clients that are chosen from a list, each as it was but for its state.   *)
LEMMA DescendsPicked ==
    ASSUME NEW new, NEW mid, NEW old, Picked(mid, old), DOMAIN new = DOMAIN mid,
           \A i \in DOMAIN mid : SameLink(new[i], mid[i])
    PROVE  Descends(new, old)
  BY DEF Picked, Descends, SameLink

(* Clients that are all kept.                                               *)
LEMMA DescendsMapped ==
    ASSUME NEW new, NEW old, DOMAIN new = DOMAIN old,
           \A i \in DOMAIN old : SameLink(new[i], old[i])
    PROVE  Descends(new, old)
  BY DescendsPicked, PickedAll

(* No clients.                                                              *)
LEMMA DescendsNone ==
    ASSUME NEW old
    PROVE  Descends(<<>>, old)
  <1>1. [i \in {} |-> i] \in [DOMAIN <<>> -> DOMAIN old] /\ DOMAIN <<>> = {}
    OBVIOUS
  <1> QED  BY <1>1 DEF Descends

(* The same clients.                                                        *)
LEMMA DescendsSame ==
    ASSUME NEW old
    PROVE  Descends(old, old)
  BY DescendsMapped DEF SameLink

(* Clients that descend from clients, and requests that were there before,  *)
(* share no link.                                                           *)
LEMMA LinksApart ==
    ASSUME LinksDistinct, asked' \subseteq asked,
           \A m \in Servers : Descends(slaves'[m], slaves[m])
    PROVE  RequestsDistinct' /\ ClientsDistinct' /\ RequestsUnserved'
  <1>1. RequestsDistinct'
    BY DEF LinksDistinct, RequestsDistinct
  <1>2. \A m \in Servers : \A i \in DOMAIN slaves'[m] : \E j \in DOMAIN slaves[m] :
           SameLink(slaves'[m][i], slaves[m][j])
    BY DEF Descends
  <1>3. ClientsDistinct'
    <2> SUFFICES ASSUME NEW m \in Servers, NEW n \in Servers, NEW i \in DOMAIN slaves'[m],
                        NEW j \in DOMAIN slaves'[n], SameLink(slaves'[m][i], slaves'[n][j])
                 PROVE  m = n /\ i = j
      BY DEF ClientsDistinct, SameLink
    <2>1. m = n
      <3>1. PICK k \in DOMAIN slaves[m] : SameLink(slaves'[m][i], slaves[m][k])
        BY <1>2
      <3>2. PICK l \in DOMAIN slaves[n] : SameLink(slaves'[n][j], slaves[n][l])
        BY <1>2
      <3>3. SameLink(slaves[m][k], slaves[n][l])
        BY <3>1, <3>2 DEF SameLink
      <3> QED  BY <3>3 DEF LinksDistinct, ClientsDistinct
    <2>2. PICK f \in [DOMAIN slaves'[m] -> DOMAIN slaves[m]] :
             /\ \A x, y \in DOMAIN slaves'[m] : f[x] = f[y] => x = y
             /\ \A x \in DOMAIN slaves'[m] : SameLink(slaves'[m][x], slaves[m][f[x]])
      BY DEF Descends
    <2>3. j \in DOMAIN slaves'[m] /\ SameLink(slaves'[m][i], slaves'[m][j])
      BY <2>1
    <2>4. SameLink(slaves[m][f[i]], slaves[m][f[j]]) /\ f[i] \in DOMAIN slaves[m] /\ f[j] \in DOMAIN slaves[m]
      BY <2>2, <2>3 DEF SameLink
    <2>5. f[i] = f[j]
      BY <2>4 DEF LinksDistinct, ClientsDistinct
    <2> QED  BY <2>1, <2>2, <2>3, <2>5
  <1>4. RequestsUnserved'
    <2> SUFFICES ASSUME NEW r \in asked', NEW m \in Servers, NEW i \in DOMAIN slaves'[m],
                        SameLink(r, slaves'[m][i])
                 PROVE  FALSE
      BY DEF RequestsUnserved, SameLink
    <2>1. PICK k \in DOMAIN slaves[m] : SameLink(slaves'[m][i], slaves[m][k])
      BY <1>2
    <2>2. r \in asked /\ SameLink(r, slaves[m][k])
      BY <2>1 DEF SameLink
    <2> QED  BY <2>2 DEF LinksDistinct, RequestsUnserved
  <1> QED  BY <1>1, <1>3, <1>4

(* Clients that descend from clients, and requests that were there before,  *)
(* take no link that was free.                                              *)
LEMMA LinksKept ==
    ASSUME Typed, LinksDistinct, asked' \subseteq asked,
           \A m \in Servers : Descends(slaves'[m], slaves[m]),
           UNCHANGED try,
           \A s \in Servers : replstate'[s] \in {"connecting", "receive_pong"}
                                => replstate[s] \in {"connecting", "receive_pong"},
           \A s \in Servers : replstate'[s] = "connected"
                                => replstate[s] = "connected" /\ masterhost'[s] = masterhost[s]
    PROVE  LinksDistinct'
  <1>1. RequestsDistinct' /\ ClientsDistinct' /\ RequestsUnserved'
    BY LinksApart
  <1>2. \A m \in Servers : \A i \in DOMAIN slaves'[m] : \E j \in DOMAIN slaves[m] :
           SameLink(slaves'[m][i], slaves[m][j])
    BY DEF Descends
  <1>3. NewLinksUnused'
    <2> SUFFICES ASSUME NEW s \in Servers, replstate'[s] \in {"connecting", "receive_pong"}
                 PROVE  Unused(s, try[s])'
      BY DEF NewLinksUnused
    <2>1. Unused(s, try[s])
      BY DEF LinksDistinct, NewLinksUnused
    <2> QED  BY <1>2, <2>1 DEF Unused, SameLink
  <1>4. RequestsWaitedFor'
    <2>1. \A r \in asked : r.slave \in Servers
      BY DEF Typed
    <2> QED  BY <2>1 DEF LinksDistinct, RequestsWaitedFor
  <1>5. NobodyOwnSlave'
    BY DEF LinksDistinct, NobodyOwnSlave
  <1> QED  BY <1>1, <1>3, <1>4, <1>5 DEF LinksDistinct

(* So do the numbers in use keep their bound.                               *)
LEMMA BoundedKept ==
    ASSUME Bounded, asked' \subseteq asked,
           \A m \in Servers : Descends(slaves'[m], slaves[m])
    PROVE  Bounded'
  <1>1. \A m \in Servers : \A i \in DOMAIN slaves'[m] : \E j \in DOMAIN slaves[m] :
           slaves'[m][i].try = slaves[m][j].try
    BY DEF Descends, SameLink
  <1>2. PICK b \in Nat : /\ \A r \in asked : r.try <= b
                         /\ \A m \in Servers : \A i \in DOMAIN slaves[m] : slaves[m][i].try <= b
    BY DEF Bounded
  <1>3. \A m \in Servers : \A i \in DOMAIN slaves'[m] : slaves'[m][i].try <= b
    BY <1>1, <1>2
  <1> QED  BY <1>2, <1>3 DEF Bounded

(* A step that adds no request and no client.                               *)
Descent == asked' \subseteq asked /\ \A m \in Servers : Descends(slaves'[m], slaves[m])

(* One server's clients change.                                             *)
LEMMA DescentAt ==
    ASSUME Typed, NEW s \in Servers, asked' \subseteq asked, NEW l,
           slaves' = [slaves EXCEPT ![s] = l], Descends(l, slaves[s])
    PROVE  Descent
  BY DescendsSame DEF Descent, Typed

(* What is told or fed keeps its link.                                      *)
LEMMA LinkStays ==
    ASSUME NEW dbs, dbs \subseteq Nat, NEW c \in Clients(dbs)
    PROVE  /\ SameLink(Sent(c), c) /\ SameLink(Loaded(c), c) /\ SameLink(Popped(c), c)
           /\ \A file : SameLink(Told(c, file), c)
           /\ \A db \in dbs, cmd \in Fedable(dbs) : SameLink(Fed(c, db, cmd), c)
  <1>1. SameLink(Sent(c), c) /\ SameLink(Loaded(c), c) /\ SameLink(Popped(c), c)
    BY DEF Clients, SameLink, Sent, Loaded, Popped
  <1>2. \A file : SameLink(Told(c, file), c)
    BY DEF Clients, SameLink, Told
  <1>3. \A db \in dbs, cmd \in Fedable(dbs) : SameLink(Fed(c, db, cmd), c)
    <2>1. \A db \in dbs, cmd \in Fedable(dbs) : Attached(Fed(c, db, cmd), c)
      BY FedKeeps
    <2>2. \A f : Attached(f, c) => SameLink(f, c)
      BY DEF SameLink, Attached
    <2> QED  BY <2>1, <2>2
  <1> QED  BY <1>1, <1>2, <1>3

(* A list that is fed adds none, ...                                        *)
LEMMA FedDescends ==
    ASSUME IInv, NEW l \in Seq(Clients(shape.dbs)), NEW db \in shape.dbs,
           NEW cmd \in Fedable(shape.dbs)
    PROVE  Descends(replicationFeedSlaves(l, db, cmd), l)
  <1>1. \A i \in DOMAIN l : l[i] \in Clients(shape.dbs)
    OBVIOUS
  <1>2. \A i \in DOMAIN l : SameLink(Fed(l[i], db, cmd), l[i])
    BY <1>1, LinkStays, DatabasesAre
  <1> DEFINE n == replicationFeedSlaves(l, db, cmd)
  <1>3. DOMAIN n = DOMAIN l /\ \A i \in DOMAIN l : n[i] = Fed(l[i], db, cmd)
    BY ListFed, DatabasesAre
  <1> HIDE DEF n
  <1>4. Descends(n, l)
    BY <1>2, <1>3, DescendsMapped
  <1> QED  BY <1>4 DEF n

(* ... nor does one of which a client changes.                              *)
LEMMA OneDescends ==
    ASSUME NEW S, NEW l \in Seq(S), NEW i \in DOMAIN l, NEW c \in S, SameLink(c, l[i])
    PROVE  Descends([l EXCEPT ![i] = c], l)
  <1> DEFINE n == [l EXCEPT ![i] = c]
  <1>1. DOMAIN n = DOMAIN l /\ n[i] = c /\ \A j \in DOMAIN l : j # i => n[j] = l[j]
    BY OneChanges
  <1> HIDE DEF n
  <1>2. \A j \in DOMAIN l : SameLink(n[j], l[j])
    BY <1>1 DEF SameLink
  <1>3. Descends(n, l)
    BY <1>1, <1>2, DescendsMapped
  <1> QED  BY <1>3 DEF n

-----------------------------------------------------------------------------
(* The steps under which no link is added                                   *)

(* A client writes, or empties.                                             *)
LEMMA WriteDescent ==
    ASSUME IInv, Typed, NEW s \in Servers, Write(s) \/ Flush(s)
    PROVE  Descent
  <1>1. UNCHANGED asked
    BY DEF Write, Flush
  <1>2. PICK db \in shape.dbs, cmd \in Fedable(shape.dbs) : Execute(s, db, cmd)
    BY CommandsAre DEF Write, Flush
  <1>3. slaves' = [slaves EXCEPT ![s] = replicationFeedSlaves(slaves[s], db, cmd)]
    BY <1>2, ExecuteIs
  <1>4. slaves[s] \in Seq(Clients(shape.dbs))
    BY DEF Typed
  <1>5. Descends(replicationFeedSlaves(slaves[s], db, cmd), slaves[s])
    BY <1>4, FedDescends
  <1> QED  BY <1>1, <1>3, <1>5, DescentAt

(* A save has ended.                                                        *)
LEMMA DoneDescent ==
    ASSUME IInv, Typed, NEW m \in Servers, backgroundSaveDoneHandler(m)
    PROVE  Descent
  <1> DEFINE kept == Kept(slaves[m], child[m][1].status)
             l == ToldAll(kept, dump[m])
  <1>1. slaves[m] \in Seq(Clients(shape.dbs)) /\ dump[m] \in Datasets
    BY DEF Typed
  <1>2. kept \in Seq(Clients(shape.dbs)) /\ Picked(kept, slaves[m])
    BY <1>1, KeptIs
  <1> HIDE DEF kept
  <1>3. DOMAIN l = DOMAIN kept /\ \A i \in DOMAIN kept : l[i] = Told(kept[i], dump[m])
    BY <1>1, <1>2, ListTold
  <1>4. slaves' = [slaves EXCEPT ![m] = l] /\ UNCHANGED asked
    BY DoneIs DEF kept
  <1> HIDE DEF l
  <1>5. \A i \in DOMAIN kept : SameLink(l[i], kept[i])
    <2>1. \A i \in DOMAIN kept : kept[i] \in Clients(shape.dbs)
      BY <1>2
    <2> QED  BY <1>3, <2>1, LinkStays, DatabasesAre
  <1>6. Descends(l, slaves[m])
    BY <1>2, <1>3, <1>5, DescendsPicked
  <1> QED  BY <1>4, <1>6, DescentAt

(* A dump is sent.                                                          *)
LEMMA SendDescent ==
    ASSUME IInv, Typed, NEW m \in Servers, sendBulkToSlave(m)
    PROVE  Descent
  <1>1. PICK i \in DOMAIN slaves[m] :
           slaves' = [slaves EXCEPT ![m] = [slaves[m] EXCEPT ![i] = Sent(slaves[m][i])]]
    BY SendIs
  <1> DEFINE l == [slaves[m] EXCEPT ![i] = Sent(slaves[m][i])]
  <1>2. slaves[m] \in Seq(Clients(shape.dbs))
    BY DEF Typed
  <1>3. Sent(slaves[m][i]) \in Clients(shape.dbs) /\ SameLink(Sent(slaves[m][i]), slaves[m][i])
    BY <1>2, ClientsStay, LinkStays, DatabasesAre
  <1>4. Descends(l, slaves[m])
    BY <1>2, <1>3, OneDescends
  <1>5. slaves' = [slaves EXCEPT ![m] = l] /\ UNCHANGED asked
    BY <1>1, SendIs
  <1> HIDE DEF l
  <1> QED  BY <1>4, <1>5, DescentAt

(* A client is freed.                                                       *)
LEMMA FreeDescent ==
    ASSUME IInv, Typed, NEW m \in Servers, freeSlave(m)
    PROVE  Descent
  <1>1. PICK i \in DOMAIN slaves[m] : slaves' = [slaves EXCEPT ![m] = RemoveAt(slaves[m], i)]
    BY DEF freeSlave
  <1>2. slaves[m] \in Seq(Clients(shape.dbs))
    BY DEF Typed
  <1>3. Picked(RemoveAt(slaves[m], i), slaves[m])
    BY <1>2, ListWithout
  <1>4. Descends(RemoveAt(slaves[m], i), slaves[m])
    BY <1>3, DescendsPicked DEF SameLink
  <1>5. UNCHANGED asked
    BY DEF freeSlave
  <1> QED  BY <1>1, <1>4, <1>5, DescentAt

(* A dump is loaded.                                                        *)
LEMMA LoadDescent ==
    ASSUME IInv, Typed, NEW s \in Servers, readSyncBulkPayload(s)
    PROVE  Descent
  <1> DEFINE m == masterhost[s]
  <1>1. Linked(s) /\ UNCHANGED asked
    BY LoadIs DEF Linked
  <1>2. PICK i \in Mine(s) :
           slaves' = [slaves EXCEPT ![m] = [slaves[m] EXCEPT ![i] = Loaded(slaves[m][i])]]
    BY LoadIs
  <1>3. /\ m \in Servers /\ i \in DOMAIN slaves[m] /\ slaves[m][i] \in Clients(shape.dbs)
    BY <1>1, MineIs
  <1> HIDE DEF m
  <1> DEFINE l == [slaves[m] EXCEPT ![i] = Loaded(slaves[m][i])]
  <1>4. slaves[m] \in Seq(Clients(shape.dbs))
    BY <1>3 DEF Typed
  <1>5. Loaded(slaves[m][i]) \in Clients(shape.dbs) /\ SameLink(Loaded(slaves[m][i]), slaves[m][i])
    BY <1>3, ClientsStay, LinkStays, DatabasesAre
  <1>6. Descends(l, slaves[m])
    BY <1>3, <1>4, <1>5, OneDescends
  <1>7. slaves' = [slaves EXCEPT ![m] = l]
    BY <1>2
  <1> HIDE DEF l
  <1> QED  BY <1>1, <1>3, <1>6, <1>7, DescentAt

(* What a command of the stream does, to a server that is not its own       *)
(* slave.                                                                   *)
LEMMA ReadAway ==
    ASSUME IInv, Typed, LinksDistinct, NEW s \in Servers, ReadCommand(s)
    PROVE  /\ Linked(s) /\ replstate[s] = "connected"
           /\ UNCHANGED <<shape, left, masterhost, replstate, try, asked>>
           /\ masterhost[s] \in Servers /\ masterhost[s] # s
           /\ \E i \in DOMAIN slaves[masterhost[s]] :
                 LET m == masterhost[s]
                     c == slaves[m][i]
                     cmd == Head(c.out)
                 IN  /\ c.slave = s /\ c.try = try[s]
                     /\ c.state = "online" /\ c.out # <<>>
                     /\ slaves'[m] = [slaves[m] EXCEPT ![i] = Popped(c)]
                     /\ \A n \in Servers : n # m /\ n # s => slaves'[n] = slaves[n]
                     /\ \/ /\ cmd.op = "select" /\ slaves'[s] = slaves[s]
                           /\ masterdb' = [masterdb EXCEPT ![s] = cmd.n]
                           /\ UNCHANGED <<data, dump, child>>
                        \/ /\ cmd.op \in {"write", "flushall"} /\ UNCHANGED masterdb
                           /\ slaves'[s] = replicationFeedSlaves(slaves[s], masterdb[s], cmd)
                           /\ Effect(s, masterdb[s], cmd)
  <1> DEFINE m == masterhost[s]
  <1>1. Linked(s) /\ replstate[s] = "connected"
        /\ UNCHANGED <<shape, left, masterhost, replstate, try, asked>>
    BY ReadIs DEF Linked
  <1>2. m # s
    BY <1>1 DEF LinksDistinct, NobodyOwnSlave
  <1>3. PICK i \in Mine(s) :
           LET c == slaves[m][i]
               cmd == Head(c.out)
               read == [slaves EXCEPT ![m] = [slaves[m] EXCEPT ![i] = Popped(c)]]
           IN  /\ c.state = "online" /\ c.out # <<>>
               /\ \/ /\ cmd.op = "select" /\ slaves' = read
                     /\ masterdb' = [masterdb EXCEPT ![s] = cmd.n]
                     /\ UNCHANGED <<data, dump, child>>
                  \/ /\ cmd.op \in {"write", "flushall"} /\ UNCHANGED masterdb
                     /\ slaves' = [read EXCEPT ![s] =
                                      replicationFeedSlaves(read[s], masterdb[s], cmd)]
                     /\ Effect(s, masterdb[s], cmd)
    BY ReadIs, Zenon
  <1> DEFINE c == slaves[m][i]
             cmd == Head(c.out)
             l == [slaves[m] EXCEPT ![i] = Popped(c)]
             read == [slaves EXCEPT ![m] = l]
  <1>4. /\ c.state = "online" /\ c.out # <<>>
        /\ \/ /\ cmd.op = "select" /\ slaves' = read
              /\ masterdb' = [masterdb EXCEPT ![s] = cmd.n]
              /\ UNCHANGED <<data, dump, child>>
           \/ /\ cmd.op \in {"write", "flushall"} /\ UNCHANGED masterdb
              /\ slaves' = [read EXCEPT ![s] = replicationFeedSlaves(read[s], masterdb[s], cmd)]
              /\ Effect(s, masterdb[s], cmd)
    BY <1>3, Zenon
  <1>5. m \in Servers /\ i \in DOMAIN slaves[m] /\ c.slave = s /\ c.try = try[s]
    BY <1>1, MineIs
  <1>6. slaves = [n \in Servers |-> slaves[n]]
    BY DEF IInv, LinksTyped
  <1> HIDE DEF l, cmd, m, c
  <1>7. read = [n \in Servers |-> read[n]] /\ read[m] = l /\ read[s] = slaves[s]
        /\ \A n \in Servers : n # m => read[n] = slaves[n]
    BY <1>2, <1>5, <1>6
  <1> HIDE DEF read
  <1>8. /\ slaves'[m] = l /\ \A n \in Servers : n # m /\ n # s => slaves'[n] = slaves[n]
        /\ \/ /\ cmd.op = "select" /\ slaves'[s] = slaves[s]
              /\ masterdb' = [masterdb EXCEPT ![s] = cmd.n]
              /\ UNCHANGED <<data, dump, child>>
           \/ /\ cmd.op \in {"write", "flushall"} /\ UNCHANGED masterdb
              /\ slaves'[s] = replicationFeedSlaves(slaves[s], masterdb[s], cmd)
              /\ Effect(s, masterdb[s], cmd)
    BY <1>2, <1>4, <1>5, <1>7
  <1> QED  BY <1>1, <1>2, <1>4, <1>5, <1>8, Zenon DEF l, cmd, m, c

(* A command of the stream is executed.                                     *)
LEMMA ReadDescent ==
    ASSUME IInv, Typed, LinksDistinct, NEW s \in Servers, ReadCommand(s)
    PROVE  Descent
  <1> DEFINE m == masterhost[s]
  <1>1. m \in Servers /\ m # s /\ UNCHANGED <<shape, asked>>
    BY ReadAway
  <1>2. PICK i \in DOMAIN slaves[m] :
           LET c == slaves[m][i]
               cmd == Head(c.out)
           IN  /\ c.slave = s /\ c.try = try[s]
               /\ c.state = "online" /\ c.out # <<>>
               /\ slaves'[m] = [slaves[m] EXCEPT ![i] = Popped(c)]
               /\ \A n \in Servers : n # m /\ n # s => slaves'[n] = slaves[n]
               /\ \/ /\ cmd.op = "select" /\ slaves'[s] = slaves[s]
                     /\ masterdb' = [masterdb EXCEPT ![s] = cmd.n]
                     /\ UNCHANGED <<data, dump, child>>
                  \/ /\ cmd.op \in {"write", "flushall"} /\ UNCHANGED masterdb
                     /\ slaves'[s] = replicationFeedSlaves(slaves[s], masterdb[s], cmd)
                     /\ Effect(s, masterdb[s], cmd)
    BY ReadAway, Zenon
  <1> DEFINE c == slaves[m][i]
             cmd == Head(c.out)
             l == [slaves[m] EXCEPT ![i] = Popped(c)]
  <1>3. slaves[m] \in Seq(Clients(shape.dbs)) /\ slaves[s] \in Seq(Clients(shape.dbs))
    BY <1>1 DEF Typed
  <1>4. c \in Clients(shape.dbs) /\ c.out # <<>>
    BY <1>2, <1>3
  <1>5. Descends(slaves'[m], slaves[m])
    <2>1. Popped(c) \in Clients(shape.dbs) /\ SameLink(Popped(c), c)
      BY <1>4, ClientsStay, LinkStays, DatabasesAre
    <2>2. Descends(l, slaves[m])
      BY <1>3, <2>1, OneDescends
    <2>3. slaves'[m] = l
      BY <1>2
    <2> QED  BY <2>2, <2>3
  <1>6. Descends(slaves'[s], slaves[s])
    <2>1. CASE slaves'[s] = slaves[s]
      BY <2>1, DescendsSame
    <2>2. CASE /\ cmd.op \in {"write", "flushall"}
               /\ slaves'[s] = replicationFeedSlaves(slaves[s], masterdb[s], cmd)
      <3>1. cmd \in Fedable(shape.dbs)
        BY <1>4, <2>2, HeadIs DEF Fedable
      <3>2. masterdb[s] \in shape.dbs
        BY DEF Typed
      <3> HIDE DEF cmd
      <3> QED  BY <1>3, <2>2, <3>1, <3>2, FedDescends
    <2> QED  BY <1>2, <2>1, <2>2, Zenon
  <1>7. \A n \in Servers : n # m /\ n # s => Descends(slaves'[n], slaves[n])
    BY <1>2, DescendsSame
  <1> QED  BY <1>1, <1>5, <1>6, <1>7 DEF Descent

(* The operator, errors and crashes free clients.                           *)
LEMMA LossDescent ==
    ASSUME IInv, Typed, NEW s \in Servers,
           LinkClosed(s) \/ LinkFails(s) \/ slaveofCommand(s) \/ CrashAndRestart(s)
    PROVE  Descent
  <1>1. asked' \subseteq asked
    BY DEF LinkClosed, LinkFails, slaveofCommand, CrashAndRestart
  <1>2. PICK l \in {<<>>, slaves[s]} : slaves' = [slaves EXCEPT ![s] = l]
    BY DEF LinkClosed, LinkFails, Unlink, slaveofCommand, CrashAndRestart
  <1>3. Descends(l, slaves[s])
    BY DescendsNone, DescendsSame
  <1> QED  BY <1>1, <1>2, <1>3, DescentAt

-----------------------------------------------------------------------------
(* Every step keeps the links apart                                         *)

(* There are no links at the start.                                         *)
LEMMA LinksInit == Init => LinksDistinct /\ Bounded
  <1> SUFFICES ASSUME Init PROVE LinksDistinct /\ Bounded
    OBVIOUS
  <1>1. asked = {} /\ \A s \in Servers : slaves[s] = <<>> /\ replstate[s] \in {"none", "connect"}
    BY DEF Init
  <1>2. \A s \in Servers : DOMAIN slaves[s] = {}
    BY <1>1
  <1>3. Bounded
    BY <1>1, <1>2 DEF Bounded
  <1> QED
    BY <1>1, <1>2, <1>3
    DEF LinksDistinct, RequestsDistinct, ClientsDistinct, RequestsUnserved, NewLinksUnused,
        RequestsWaitedFor, NobodyOwnSlave

(* Clients change, links do not.                                            *)
LEMMA ClientsLinks ==
    ASSUME IInv, Typed, LinksDistinct, Bounded, Descent, UNCHANGED <<masterhost, replstate, try>>
    PROVE  LinksDistinct' /\ Bounded'
  BY LinksKept, BoundedKept DEF Descent

(* A link is given up, for the same master or another.                      *)
LEMMA LossLinks ==
    ASSUME IInv, Typed, LinksDistinct, Bounded, NEW s \in Servers,
           LinkClosed(s) \/ LinkFails(s) \/ slaveofCommand(s) \/ CrashAndRestart(s)
    PROVE  LinksDistinct' /\ Bounded'
  <1>1. Descent
    BY LossDescent
  <1>2. UNCHANGED try
    BY DEF LinkClosed, LinkFails, slaveofCommand, CrashAndRestart
  <1>3. \A t \in Servers : replstate'[t] = replstate[t] \/ replstate'[t] \in {"none", "connect"}
    BY DEF LinkClosed, LinkFails, Unlink, slaveofCommand, CrashAndRestart, IInv, LinksTyped
  <1>4. \A t \in Servers : replstate'[t] = "connected" => masterhost'[t] = masterhost[t]
    BY DEF LinkClosed, LinkFails, Unlink, slaveofCommand, CrashAndRestart, IInv, LinksTyped
  <1> QED  BY <1>1, <1>2, <1>3, <1>4, LinksKept, BoundedKept DEF Descent

(* A request is served: it becomes a client.                                *)
LEMMA SyncLinks ==
    ASSUME IInv, Typed, LinksDistinct, Bounded, NEW m \in Servers, syncCommand(m)
    PROVE  LinksDistinct' /\ Bounded'
  <1>1. PICK r \in asked : /\ asked' = asked \ {r}
                           /\ UNCHANGED <<slaves, child>> \/ \E c : Joins(m, r, c)
    BY SyncIs
  <1>2. UNCHANGED <<masterhost, replstate, try>>
    BY SyncIs
  <1>3. CASE UNCHANGED slaves
    <2>1. Descent
      BY <1>1, <1>3, DescendsSame DEF Descent
    <2> QED  BY <1>2, <2>1, ClientsLinks
  <1>4. ASSUME NEW c, Joins(m, r, c) PROVE LinksDistinct' /\ Bounded'
    <2> DEFINE n == Len(slaves[m]) + 1
               l == Append(slaves[m], c)
    <2>1. slaves[m] \in Seq(Clients(shape.dbs)) /\ c \in Clients(shape.dbs)
      BY <1>4, JoinsTyped DEF Typed
    <2>2. c.slave = r.slave /\ c.try = r.try
      <3>1. \E state, out : c = Joining(r, state, out)
        BY <1>4, Zenon DEF Joins
      <3> QED  BY <3>1, JoiningIs
    <2>3. /\ DOMAIN l = DOMAIN slaves[m] \cup {n} /\ n \notin DOMAIN slaves[m]
          /\ l[n] = c /\ \A i \in DOMAIN slaves[m] : l[i] = slaves[m][i]
      BY <2>1, ListJoined
    <2>4. slaves' = [slaves EXCEPT ![m] = l]
      BY <1>4 DEF Joins
    <2> HIDE DEF n, l
    <2>5. /\ DOMAIN slaves'[m] = DOMAIN slaves[m] \cup {n} /\ n \notin DOMAIN slaves[m]
          /\ slaves'[m][n] = c /\ \A i \in DOMAIN slaves[m] : slaves'[m][i] = slaves[m][i]
          /\ \A t \in Servers : t # m => slaves'[t] = slaves[t]
      BY <2>3, <2>4 DEF Typed
    <2>6. RequestsDistinct'
      BY <1>1 DEF LinksDistinct, RequestsDistinct
    <2>7. \A t \in Servers : \A i \in DOMAIN slaves'[t] :
             \/ i \in DOMAIN slaves[t] /\ slaves'[t][i] = slaves[t][i]
             \/ t = m /\ i = n /\ slaves'[t][i] = c
      BY <2>5
    <2>8. \A t \in Servers : \A i \in DOMAIN slaves[t] : ~SameLink(c, slaves[t][i])
      BY <2>2 DEF LinksDistinct, RequestsUnserved, SameLink
    <2>9. ClientsDistinct'
      <3> SUFFICES ASSUME NEW t \in Servers, NEW u \in Servers, NEW i \in DOMAIN slaves'[t],
                          NEW j \in DOMAIN slaves'[u], SameLink(slaves'[t][i], slaves'[u][j])
                   PROVE  t = u /\ i = j
        BY DEF ClientsDistinct, SameLink
      <3>1. SameLink(slaves'[u][j], slaves'[t][i])
        BY DEF SameLink
      <3>2. CASE i \in DOMAIN slaves[t] /\ slaves'[t][i] = slaves[t][i]
        <4>1. CASE j \in DOMAIN slaves[u] /\ slaves'[u][j] = slaves[u][j]
          BY <3>2, <4>1 DEF LinksDistinct, ClientsDistinct
        <4>2. CASE u = m /\ j = n /\ slaves'[u][j] = c
          BY <2>8, <3>1, <3>2, <4>2
        <4> QED  BY <2>7, <4>1, <4>2
      <3>3. CASE t = m /\ i = n /\ slaves'[t][i] = c
        <4>1. CASE j \in DOMAIN slaves[u] /\ slaves'[u][j] = slaves[u][j]
          BY <2>8, <3>3, <4>1
        <4>2. CASE u = m /\ j = n
          BY <3>3, <4>2
        <4> QED  BY <2>7, <4>1, <4>2
      <3> QED  BY <2>7, <3>2, <3>3
    <2>10. RequestsUnserved'
      <3> SUFFICES ASSUME NEW q \in asked', NEW t \in Servers, NEW i \in DOMAIN slaves'[t],
                          SameLink(q, slaves'[t][i])
                   PROVE  FALSE
        BY DEF RequestsUnserved, SameLink
      <3>1. q \in asked /\ q # r
        BY <1>1
      <3>2. CASE i \in DOMAIN slaves[t] /\ slaves'[t][i] = slaves[t][i]
        BY <3>1, <3>2 DEF LinksDistinct, RequestsUnserved
      <3>3. CASE slaves'[t][i] = c
        <4>1. SameLink(q, r)
          BY <2>2, <3>3 DEF SameLink
        <4> QED  BY <3>1, <4>1 DEF LinksDistinct, RequestsDistinct
      <3> QED  BY <2>7, <3>2, <3>3
    <2>11. NewLinksUnused'
      <3> SUFFICES ASSUME NEW s \in Servers, replstate[s] \in {"connecting", "receive_pong"}
                   PROVE  Unused(s, try[s])'
        BY <1>2 DEF NewLinksUnused
      <3>1. Unused(s, try[s])
        BY DEF LinksDistinct, NewLinksUnused
      <3>2. ~(c.slave = s /\ c.try = try[s])
        BY <2>2, <3>1 DEF Unused
      <3> QED  BY <1>1, <1>2, <2>7, <3>1, <3>2 DEF Unused
    <2>12. RequestsWaitedFor' /\ NobodyOwnSlave'
      BY <1>1, <1>2 DEF LinksDistinct, RequestsWaitedFor, NobodyOwnSlave
    <2>13. Bounded'
      <3>1. PICK b \in Nat : /\ \A q \in asked : q.try <= b
                             /\ \A t \in Servers : \A i \in DOMAIN slaves[t] : slaves[t][i].try <= b
        BY DEF Bounded
      <3>2. \A t \in Servers : \A i \in DOMAIN slaves'[t] : slaves'[t][i].try <= b
        BY <2>2, <2>7, <3>1
      <3> QED  BY <1>1, <3>1, <3>2 DEF Bounded
    <2> QED  BY <2>6, <2>9, <2>10, <2>11, <2>12, <2>13 DEF LinksDistinct
  <1> QED  BY <1>1, <1>3, <1>4

(* A link is begun, with a number of its own.                               *)
LEMMA ConnectLinks ==
    ASSUME IInv, Typed, LinksDistinct, Bounded, NEW s \in Servers, connectWithMaster(s)
    PROVE  LinksDistinct' /\ Bounded'
  <1>1. /\ UNCHANGED <<masterhost, asked, slaves>>
        /\ try' = [try EXCEPT ![s] = FreshTry(s)]
        /\ replstate' = [replstate EXCEPT ![s] = "connecting"]
    BY DEF connectWithMaster
  <1>2. Unused(s, FreshTry(s))
    BY FreshIs DEF Unused
  <1>3. Bounded' /\ RequestsDistinct' /\ ClientsDistinct' /\ RequestsUnserved'
    BY <1>1 DEF LinksDistinct, Bounded, RequestsDistinct, ClientsDistinct, RequestsUnserved
  <1>4. try'[s] = FreshTry(s) /\ \A t \in Servers : t # s => try'[t] = try[t] /\ replstate'[t] = replstate[t]
    BY <1>1 DEF Typed, IInv, LinksTyped
  <1>5. NewLinksUnused'
    <2> SUFFICES ASSUME NEW t \in Servers, replstate'[t] \in {"connecting", "receive_pong"}
                 PROVE  Unused(t, try[t])'
      BY DEF NewLinksUnused
    <2>1. Unused(t, try'[t])
      BY <1>2, <1>4 DEF LinksDistinct, NewLinksUnused
    <2> QED  BY <1>1, <2>1 DEF Unused
  <1>6. RequestsWaitedFor'
    <2>1. \A r \in asked : r.slave \in Servers
      BY DEF Typed
    <2>2. replstate'[s] = "connecting"
      BY <1>1 DEF IInv, LinksTyped
    <2> QED  BY <1>1, <1>4, <2>1, <2>2 DEF LinksDistinct, RequestsWaitedFor
  <1>7. NobodyOwnSlave'
    BY <1>1 DEF LinksDistinct, NobodyOwnSlave, IInv, LinksTyped
  <1> QED  BY <1>3, <1>5, <1>6, <1>7 DEF LinksDistinct

(* PING, and SYNC: a request is made.                                       *)
LEMMA AskLinks ==
    ASSUME IInv, Typed, LinksDistinct, Bounded, NEW s \in Servers, syncWithMaster(s)
    PROVE  LinksDistinct' /\ Bounded'
  <1>1. UNCHANGED <<masterhost, try, slaves>>
    BY DEF syncWithMaster
  <1>2. CASE replstate[s] = "connecting" /\ UNCHANGED asked
             /\ replstate' = [replstate EXCEPT ![s] = "receive_pong"]
    <2>1. \A m \in Servers : Descends(slaves'[m], slaves[m])
      BY <1>1, DescendsSame
    <2>2. \A t \in Servers : /\ replstate'[t] \in {"connecting", "receive_pong"}
                                  => replstate[t] \in {"connecting", "receive_pong"}
                             /\ replstate'[t] = "connected" => replstate[t] = "connected"
      BY <1>2 DEF IInv, LinksTyped
    <2> QED  BY <1>1, <1>2, <2>1, <2>2, LinksKept, BoundedKept
  <1> DEFINE r == [slave |-> s, master |-> masterhost[s], try |-> try[s]]
  <1>3. CASE replstate[s] = "receive_pong" /\ asked' = asked \cup {r}
             /\ replstate' = [replstate EXCEPT ![s] = "transfer"]
    <2>1. r.slave = s /\ r.try = try[s]
      OBVIOUS
    <2>2. Unused(s, try[s])
      BY <1>3 DEF LinksDistinct, NewLinksUnused
    <2> HIDE DEF r
    <2>3. /\ \A q \in asked : ~SameLink(r, q) /\ ~SameLink(q, r)
          /\ \A m \in Servers : \A i \in DOMAIN slaves[m] : ~SameLink(r, slaves[m][i])
      BY <2>1, <2>2 DEF Unused, SameLink
    <2>4. RequestsDistinct'
      <3> SUFFICES ASSUME NEW p \in asked', NEW q \in asked', SameLink(p, q) PROVE p = q
        BY DEF RequestsDistinct, SameLink
      <3> QED  BY <1>3, <2>3 DEF LinksDistinct, RequestsDistinct
    <2>5. ClientsDistinct'
      BY <1>1 DEF LinksDistinct, ClientsDistinct
    <2>6. RequestsUnserved'
      <3> SUFFICES ASSUME NEW q \in asked', NEW t \in Servers, NEW i \in DOMAIN slaves[t],
                          SameLink(q, slaves[t][i])
                   PROVE  FALSE
        BY <1>1 DEF RequestsUnserved, SameLink
      <3> QED  BY <1>3, <2>3 DEF LinksDistinct, RequestsUnserved
    <2>7. replstate'[s] = "transfer" /\ \A t \in Servers : t # s => replstate'[t] = replstate[t]
      BY <1>3 DEF IInv, LinksTyped
    <2>8. NewLinksUnused'
      <3> SUFFICES ASSUME NEW t \in Servers, replstate'[t] \in {"connecting", "receive_pong"}
                   PROVE  Unused(t, try[t])'
        BY DEF NewLinksUnused
      <3>1. t # s /\ Unused(t, try[t])
        BY <2>7 DEF LinksDistinct, NewLinksUnused
      <3> QED  BY <1>1, <1>3, <2>1, <3>1 DEF Unused
    <2>9. RequestsWaitedFor'
      <3>1. \A q \in asked : q.slave \in Servers
        BY DEF Typed
      <3> QED  BY <1>1, <1>3, <2>1, <2>7, <3>1 DEF LinksDistinct, RequestsWaitedFor
    <2>10. NobodyOwnSlave'
      BY <1>1, <2>7 DEF LinksDistinct, NobodyOwnSlave
    <2>11. Bounded'
      <3>1. PICK b \in Nat : /\ \A q \in asked : q.try <= b
                             /\ \A t \in Servers : \A i \in DOMAIN slaves[t] : slaves[t][i].try <= b
        BY DEF Bounded
      <3>2. \A q \in asked : q.try \in Nat
        BY DEF Typed
      <3>3. \A t \in Servers : \A i \in DOMAIN slaves[t] : slaves[t][i].try \in Nat
        <4> TAKE t \in Servers
        <4> TAKE i \in DOMAIN slaves[t]
        <4>1. slaves[t][i] \in Clients(shape.dbs)
          BY DEF Typed
        <4> QED  BY <4>1 DEF Clients
      <3> DEFINE b2 == b + try[s]
      <3>4. b2 \in Nat /\ try[s] <= b2 /\ \A k \in Nat : k <= b => k <= b2
        BY DEF Typed
      <3> HIDE DEF b2
      <3>5. \A q \in asked' : q.try <= b2
        BY <1>3, <2>1, <3>1, <3>2, <3>4
      <3>6. \A t \in Servers : \A i \in DOMAIN slaves[t] : slaves[t][i].try <= b2
        BY <3>1, <3>3, <3>4
      <3> QED  BY <1>1, <3>4, <3>5, <3>6 DEF Bounded
    <2> QED  BY <2>4, <2>5, <2>6, <2>8, <2>9, <2>10, <2>11 DEF LinksDistinct
  <1> QED  BY <1>2, <1>3 DEF syncWithMaster

(* A dump is loaded: the link is served.                                    *)
LEMMA LoadLinks ==
    ASSUME IInv, Typed, LinksDistinct, Bounded, NEW s \in Servers, readSyncBulkPayload(s)
    PROVE  LinksDistinct' /\ Bounded'
  <1> DEFINE m == masterhost[s]
  <1>1. Descent
    BY LoadDescent
  <1>2. /\ replstate[s] = "transfer" /\ UNCHANGED <<masterhost, try, asked>>
        /\ replstate' = [replstate EXCEPT ![s] = "connected"]
    BY LoadIs
  <1>3. PICK i \in Mine(s) : TRUE
    BY LoadIs
  <1>4. m \in Servers /\ i \in DOMAIN slaves[m] /\ slaves[m][i].slave = s /\ slaves[m][i].try = try[s]
    BY <1>2, <1>3, MineIs DEF Linked
  <1>5. slaves[s] = <<>> /\ m # s
    BY <1>2, <1>4 DEF IInv, LinksTyped, LinksHaveMasters, NobodyFedWhileResyncing
  <1>6. replstate'[s] = "connected" /\ \A t \in Servers : t # s => replstate'[t] = replstate[t]
    BY <1>2 DEF IInv, LinksTyped
  <1>7. \A r \in asked : ~(r.slave = s /\ r.try = try[s])
    BY <1>4 DEF LinksDistinct, RequestsUnserved, SameLink
  <1>8. RequestsWaitedFor'
    <2>1. \A r \in asked : r.slave \in Servers
      BY DEF Typed
    <2> QED  BY <1>2, <1>6, <1>7, <2>1 DEF LinksDistinct, RequestsWaitedFor
  <1>9. NobodyOwnSlave'
    BY <1>2, <1>5, <1>6 DEF LinksDistinct, NobodyOwnSlave
  <1>10. NewLinksUnused'
    <2> SUFFICES ASSUME NEW t \in Servers, replstate'[t] \in {"connecting", "receive_pong"}
                 PROVE  Unused(t, try[t])'
      BY DEF NewLinksUnused
    <2>1. Unused(t, try[t])
      BY <1>6 DEF LinksDistinct, NewLinksUnused
    <2>2. \A n \in Servers : \A j \in DOMAIN slaves'[n] : \E k \in DOMAIN slaves[n] :
             SameLink(slaves'[n][j], slaves[n][k])
      BY <1>1 DEF Descent, Descends
    <2> QED  BY <1>2, <2>1, <2>2 DEF Unused, SameLink
  <1>11. RequestsDistinct' /\ ClientsDistinct' /\ RequestsUnserved' /\ Bounded'
    BY <1>1, LinksApart, BoundedKept DEF Descent
  <1> QED  BY <1>8, <1>9, <1>10, <1>11 DEF LinksDistinct

-----------------------------------------------------------------------------
(* Every client will have the dataset of its master                         *)

(* A client that has the dump and reads the commands.                       *)
Done(c) == c.state = "online" /\ c.bulk = <<>>

(* A client of a master whose child is kid, whose dump.rdb is file and      *)
(* whose dataset is to: the dump it is to have, with the commands kept for  *)
(* it, makes that dataset.                                                  *)
Promised(c, kid, file, to) ==
    /\ c.state = "wait_bgsave_start" => c.out = <<>> /\ c.db = 0
    /\ c.state = "wait_bgsave_end" =>
          /\ kid # <<>>
          /\ kid[1].status # "failed" =>
                Reaches(IF kid[1].status = "running" THEN kid[1].snapshot ELSE file, 0, c, to)
    /\ c.state \in {"wait_bgsave_start", "wait_bgsave_end"} => c.bulk = <<>>
    /\ c.state = "send_bulk" => c.bulk # <<>>
    /\ c.bulk # <<>> => Reaches(c.bulk[1], 0, c, to)

(* A client of the master m whose slave has the master host, the link n,    *)
(* the state role, the dataset own and the database db: the two ends agree  *)
(* on whether the dump was loaded, and when it was, the commands kept for   *)
(* it make the dataset of the master of the slave's.                        *)
Delivered(c, m, host, n, role, own, db, to) ==
    host = m /\ n = c.try /\ role \in {"transfer", "connected"} =>
        /\ role = "connected" <=> Done(c)
        /\ Done(c) => Reaches(own, db, c, to)

(* All clients of all servers are as promised.                              *)
AllFed ==
    \A m \in Servers : \A i \in DOMAIN slaves[m] :
        LET c == slaves[m][i]
            s == c.slave
        IN  /\ Promised(c, child[m], dump[m], data[m])
            /\ Delivered(c, m, masterhost[s], try[s], replstate[s], data[s], masterdb[s], data[m])

(* Only the clients of a link that is up are delivered to.                  *)
LEMMA Undelivered ==
    ASSUME NEW c, NEW m, NEW host, NEW n, NEW role, NEW own, NEW db, NEW to,
           host # m \/ n # c.try \/ role \notin {"transfer", "connected"}
    PROVE  Delivered(c, m, host, n, role, own, db, to)
  BY DEF Delivered

(* A client with the same buffer, that is as far.                           *)
LEMMA DeliveredAs ==
    ASSUME NEW c, NEW m, NEW host, NEW n, NEW role, NEW own, NEW db, NEW to,
           Delivered(c, m, host, n, role, own, db, to),
           NEW e, e.try = c.try, Done(e) <=> Done(c), e.out = c.out, e.db = c.db
    PROVE  Delivered(e, m, host, n, role, own, db, to)
  BY DEF Delivered, Reaches

(* A client that is fed.                                                    *)
LEMMA DeliveredFed ==
    ASSUME NEW dbs, dbs \subseteq Nat, NEW c \in Clients(dbs), NEW db \in dbs,
           NEW cmd \in Fedable(dbs),
           NEW m, NEW host, NEW n, NEW role, NEW own, NEW first, NEW to,
           Delivered(c, m, host, n, role, own, first, to)
    PROVE  Delivered(Fed(c, db, cmd), m, host, n, role, own, first, After(to, db, cmd))
  <1> DEFINE f == Fed(c, db, cmd)
             next == After(to, db, cmd)
  <1>1. f.try = c.try /\ (Done(f) <=> Done(c))
    <2>1. Attached(f, c)
      BY FedKeeps
    <2> HIDE DEF f
    <2> QED  BY <2>1 DEF Attached, Done
  <1>2. Done(c) /\ Reaches(own, first, c, to) => Reaches(own, first, f, next)
    BY FedReaches DEF Done
  <1> HIDE DEF f, next
  <1>3. Delivered(f, m, host, n, role, own, first, next)
    BY <1>1, <1>2 DEF Delivered
  <1> QED  BY <1>3 DEF f, next

(* A write is promised, ...                                                 *)
LEMMA PromisedFed ==
    ASSUME NEW dbs, dbs \subseteq Nat, NEW c \in Clients(dbs), NEW db \in dbs,
           NEW cmd \in Fedable(dbs), NEW kid, NEW file, NEW to, Promised(c, kid, file, to)
    PROVE  Promised(Fed(c, db, cmd), kid, file, After(to, db, cmd))
  <1> DEFINE f == Fed(c, db, cmd)
             next == After(to, db, cmd)
             start == IF kid[1].status = "running" THEN kid[1].snapshot ELSE file
  <1>1. /\ f.state = c.state /\ f.bulk = c.bulk
        /\ c.state = "wait_bgsave_start" => f = c
    <2>1. Attached(f, c) /\ (c.state = "wait_bgsave_start" => f = c)
      BY FedKeeps
    <2> HIDE DEF f
    <2> QED  BY <2>1 DEF Attached
  <1>2. \A from : Reaches(from, 0, c, to) /\ c.state # "wait_bgsave_start" => Reaches(from, 0, f, next)
    BY FedReaches
  <1> HIDE DEF f, next
  <1>3. c.state = "wait_bgsave_end" => kid # <<>> /\ (kid[1].status # "failed" => Reaches(start, 0, f, next))
    BY <1>2 DEF Promised
  <1>4. c.bulk # <<>> => Reaches(c.bulk[1], 0, f, next)
    BY <1>2 DEF Promised
  <1>5. /\ c.state = "wait_bgsave_start" => c.out = <<>> /\ c.db = 0
        /\ c.state \in {"wait_bgsave_start", "wait_bgsave_end"} => c.bulk = <<>>
        /\ c.state = "send_bulk" => c.bulk # <<>>
    BY DEF Promised
  <1>6. Promised(f, kid, file, next)
    BY <1>1, <1>3, <1>4, <1>5 DEF Promised
  <1> QED  BY <1>6 DEF f, next

(* ... and the empty dataset by FLUSHALL, which replaces dump.rdb and kills *)
(* the child.                                                               *)
LEMMA PromisedFlush ==
    ASSUME NEW dbs, dbs \subseteq Nat, NEW c \in Clients(dbs), NEW db \in dbs,
           NEW cmd \in Fedable(dbs), cmd.op = "flushall",
           NEW kid \in Children, NEW file, NEW to, Promised(c, kid, file, to)
    PROVE  Promised(Fed(c, db, cmd), Killed(kid), <<>>, <<>>)
  <1> DEFINE f == Fed(c, db, cmd)
             dead == Killed(kid)
             start == IF kid[1].status = "running" THEN kid[1].snapshot ELSE file
  <1>1. /\ f.state = c.state /\ f.bulk = c.bulk
        /\ c.state = "wait_bgsave_start" => f = c
    <2>1. Attached(f, c) /\ (c.state = "wait_bgsave_start" => f = c)
      BY FedKeeps
    <2> HIDE DEF f
    <2> QED  BY <2>1 DEF Attached
  <1>2. \A from, other : Reaches(from, 0, c, to) /\ c.state # "wait_bgsave_start" => Reaches(other, 0, f, <<>>)
    BY FlushReaches
  <1>3. /\ dead = <<>> <=> kid = <<>>
        /\ kid # <<>> => dead[1].status # "running" /\ (dead[1].status = "failed" <=> kid[1].status = "failed")
    BY KilledIs
  <1> HIDE DEF f, dead
  <1>4. c.state = "wait_bgsave_end" => kid # <<>> /\ (kid[1].status # "failed" => Reaches(<<>>, 0, f, <<>>))
    BY <1>2 DEF Promised
  <1>5. c.bulk # <<>> => Reaches(c.bulk[1], 0, f, <<>>)
    BY <1>2 DEF Promised
  <1>6. /\ c.state = "wait_bgsave_start" => c.out = <<>> /\ c.db = 0
        /\ c.state \in {"wait_bgsave_start", "wait_bgsave_end"} => c.bulk = <<>>
        /\ c.state = "send_bulk" => c.bulk # <<>>
    BY DEF Promised
  <1>7. Promised(f, dead, <<>>, <<>>)
    BY <1>1, <1>3, <1>4, <1>5, <1>6 DEF Promised
  <1> QED  BY <1>7 DEF f, dead

(* A child that ends leaves its snapshot in dump.rdb, or fails.             *)
LEMMA PromisedEnded ==
    ASSUME NEW c, NEW kid \in Children, kid # <<>>, kid[1].status = "running", NEW file, NEW to,
           Promised(c, kid, file, to)
    PROVE  /\ Promised(c, Ended(kid, "saved"), kid[1].snapshot, to)
           /\ Promised(c, Ended(kid, "failed"), file, to)
  <1>1. /\ Ended(kid, "saved") # <<>> /\ Ended(kid, "saved")[1].status = "saved"
        /\ Ended(kid, "failed") # <<>> /\ Ended(kid, "failed")[1].status = "failed"
    BY EndedIs
  <1> HIDE DEF Ended
  <1> QED  BY <1>1 DEF Promised

(* Nobody waits for the end of a save of which there is none.               *)
LEMMA PromisedStarted ==
    ASSUME NEW c, NEW file, NEW to, Promised(c, <<>>, file, to), NEW kid
    PROVE  Promised(c, kid, file, to)
  BY DEF Promised

(* A client with nothing kept for it that waits for a save of what is there *)
(* now.                                                                     *)
LEMMA ReachesNow ==
    ASSUME NEW c, c.out = <<>>, c.db = 0, NEW to
    PROVE  Reaches(to, 0, c, to)
  BY ReplayNothing DEF Reaches, St

(* The clients are told that the save ended.                                *)
LEMMA PromisedTold ==
    ASSUME NEW dbs, NEW c \in Clients(dbs), NEW kid, kid # <<>>, kid[1].status # "running",
           NEW file \in Datasets, NEW to, Promised(c, kid, file, to),
           kid[1].status = "failed" => c.state # "wait_bgsave_end",
           NEW next, next = Child(to) \/ c.state # "wait_bgsave_start"
    PROVE  Promised(Told(c, file), next, file, to)
  <1> DEFINE t == Told(c, file)
  <1>1. CASE c.state = "wait_bgsave_end"
    <2>1. t.state = "send_bulk" /\ t.bulk = <<file>> /\ t.out = c.out /\ t.db = c.db
      BY <1>1 DEF Told, Clients
    <2>2. t.bulk # <<>> /\ t.bulk[1] = file
      BY <2>1
    <2>3. Reaches(file, 0, c, to)
      BY <1>1 DEF Promised
    <2> HIDE DEF t
    <2>4. Reaches(file, 0, t, to)
      BY <2>1, <2>3 DEF Reaches
    <2>5. Promised(t, next, file, to)
      BY <2>1, <2>2, <2>4 DEF Promised
    <2> QED  BY <2>5 DEF t
  <1>2. CASE c.state = "wait_bgsave_start"
    <2>1. t.state = "wait_bgsave_end" /\ t.bulk = c.bulk /\ t.out = c.out /\ t.db = c.db
      BY <1>2 DEF Told, Clients
    <2>2. c.bulk = <<>> /\ c.out = <<>> /\ c.db = 0
      BY <1>2 DEF Promised
    <2>3. next # <<>> /\ next[1].status = "running" /\ next[1].snapshot = to
      BY <1>2 DEF Child
    <2> HIDE DEF t
    <2>4. Reaches(to, 0, t, to)
      BY <2>1, <2>2, ReachesNow
    <2>5. Promised(t, next, file, to)
      BY <2>1, <2>2, <2>3, <2>4 DEF Promised
    <2> QED  BY <2>5 DEF t
  <1>3. CASE c.state \notin {"wait_bgsave_start", "wait_bgsave_end"}
    <2>1. t = c
      BY <1>3 DEF Told
    <2>2. Promised(c, next, file, to)
      BY <1>3 DEF Promised
    <2> QED  BY <2>1, <2>2
  <1> QED  BY <1>1, <1>2, <1>3

(* A client that has the dump needs no other.                               *)
LEMMA PromisedOn ==
    ASSUME NEW dbs, NEW c \in Clients(dbs), NEW kid, NEW file, NEW to, Promised(c, kid, file, to),
           NEW next, NEW other, NEW after
    PROVE  /\ c.state = "send_bulk" => Promised(Sent(c), kid, file, to)
           /\ c.state = "online" => Promised(Loaded(c), next, other, after)
           /\ Done(c) => Promised(Popped(c), next, other, after)
  <1>1. CASE c.state = "send_bulk"
    <2>1. /\ Sent(c).state = "online" /\ Sent(c).bulk = c.bulk /\ Sent(c).out = c.out
          /\ Sent(c).db = c.db
      BY DEF Sent, Clients
    <2>2. Promised(Sent(c), kid, file, to)
      BY <1>1, <2>1 DEF Promised, Reaches
    <2> QED  BY <1>1, <2>2 DEF Done
  <1>2. CASE c.state = "online"
    <2>1. Loaded(c).state = "online" /\ Loaded(c).bulk = <<>>
      BY <1>2 DEF Loaded, Clients
    <2>2. Popped(c).state = "online" /\ Popped(c).bulk = c.bulk
      BY <1>2 DEF Popped, Clients
    <2> QED  BY <1>2, <2>1, <2>2 DEF Promised, Done
  <1>3. CASE c.state \notin {"send_bulk", "online"}
    BY <1>3 DEF Done
  <1> QED  BY <1>1, <1>2, <1>3

-----------------------------------------------------------------------------
(* Every step keeps every client fed                                        *)

(* A client e of m is fed, now and after a step.                            *)
FedNow(m, e) ==
    LET s == e.slave
    IN  /\ Promised(e, child[m], dump[m], data[m])
        /\ Delivered(e, m, masterhost[s], try[s], replstate[s], data[s], masterdb[s], data[m])

FedNext(m, e) ==
    LET s == e.slave
    IN  /\ Promised(e, child'[m], dump'[m], data'[m])
        /\ Delivered(e, m, masterhost'[s], try'[s], replstate'[s], data'[s], masterdb'[s], data'[m])

(* All are when each is.                                                    *)
LEMMA FedAll ==
    ASSUME \A m \in Servers : \A i \in DOMAIN slaves'[m] : FedNext(m, slaves'[m][i])
    PROVE  AllFed'
  BY Zenon DEF AllFed, FedNext

(* Each is when all are.                                                    *)
LEMMA FedEach ==
    ASSUME AllFed, NEW m \in Servers, NEW i \in DOMAIN slaves[m]
    PROVE  FedNow(m, slaves[m][i])
  BY Zenon DEF AllFed, FedNow

(* A client is one of the deployment.                                       *)
LEMMA ClientIs ==
    ASSUME Typed, NEW m \in Servers, NEW i \in DOMAIN slaves[m]
    PROVE  slaves[m][i] \in Clients(shape.dbs) /\ slaves[m][i].slave \in Servers
  <1>1. slaves[m][i] \in Clients(shape.dbs)
    BY DEF Typed
  <1> QED  BY <1>1 DEF Clients

(* The slave is not on the link of the client e of m, after a step.         *)
Off(m, e) ==
    \/ masterhost'[e.slave] # m \/ try'[e.slave] # e.try
    \/ replstate'[e.slave] \notin {"transfer", "connected"}

(* Where nothing changes, a client stays fed.                               *)
LEMMA FedStill ==
    ASSUME NEW m, NEW c, FedNow(m, c),
           child'[m] = child[m] /\ dump'[m] = dump[m] /\ data'[m] = data[m],
           \/ Off(m, c)
           \/ /\ masterhost'[c.slave] = masterhost[c.slave] /\ try'[c.slave] = try[c.slave]
              /\ replstate'[c.slave] = replstate[c.slave]
              /\ data'[c.slave] = data[c.slave] /\ masterdb'[c.slave] = masterdb[c.slave]
    PROVE  FedNext(m, c)
  <1>1. CASE Off(m, c)
    BY <1>1, Undelivered DEF Off, FedNow, FedNext
  <1> QED  BY <1>1 DEF FedNow, FedNext

(* The server s executes a command: its clients are fed, ...                *)
LEMMA ExecuteFeeds ==
    ASSUME IInv, Typed, AllFed, NEW s \in Servers, NEW db \in shape.dbs,
           NEW cmd \in Fedable(shape.dbs), Effect(s, db, cmd),
           ~(masterhost[s] = s /\ Linked(s)),
           UNCHANGED <<masterhost, replstate, try, masterdb>>, NEW i \in DOMAIN slaves[s]
    PROVE  FedNext(s, Fed(slaves[s][i], db, cmd))
  <1> DEFINE c == slaves[s][i]
             f == Fed(c, db, cmd)
             t == c.slave
             next == After(data[s], db, cmd)
  <1>1. c \in Clients(shape.dbs) /\ t \in Servers
    BY ClientIs
  <1>2. FedNow(s, c)
    BY FedEach
  <1>3. shape.dbs \subseteq Nat
    BY DatabasesAre
  <1>4. f.slave = t /\ f.try = c.try
    <2>1. Attached(f, c)
      BY <1>1, <1>3, FedKeeps
    <2> HIDE DEF f, c
    <2> QED  BY <2>1 DEF Attached
  <1>5. data'[s] = next /\ (t # s => data'[t] = data[t])
    BY <1>1 DEF Effect, Typed
  <1> HIDE DEF c
  <1>6. Promised(f, child'[s], dump'[s], next)
    <2>1. Promised(c, child[s], dump[s], data[s])
      BY <1>2 DEF FedNow
    <2>2. CASE cmd.op = "write"
      <3>1. child'[s] = child[s] /\ dump'[s] = dump[s]
        BY <2>2 DEF Effect
      <3>2. Promised(f, child[s], dump[s], next)
        BY <1>1, <1>3, <2>1, PromisedFed
      <3> QED  BY <3>1, <3>2
    <2>3. CASE cmd.op = "flushall"
      <3>1. child'[s] = Killed(child[s]) /\ dump'[s] = <<>> /\ child[s] \in Children
        BY <2>3 DEF Effect, Typed
      <3>2. next = <<>>
        BY <2>3 DEF After
      <3>3. Promised(f, Killed(child[s]), <<>>, <<>>)
        BY <1>1, <1>3, <2>1, <2>3, <3>1, PromisedFlush
      <3> QED  BY <3>1, <3>2, <3>3
    <2> QED  BY <2>2, <2>3 DEF Fedable
  <1>7. Delivered(f, s, masterhost[t], try[t], replstate[t], data'[t], masterdb[t], next)
    <2>1. CASE t = s
      BY <2>1, Undelivered DEF Linked
    <2>2. CASE t # s
      <3>1. Delivered(c, s, masterhost[t], try[t], replstate[t], data[t], masterdb[t], data[s])
        BY <1>2 DEF FedNow
      <3>2. Delivered(f, s, masterhost[t], try[t], replstate[t], data[t], masterdb[t], next)
        BY <1>1, <1>3, <3>1, DeliveredFed
      <3> QED  BY <1>5, <2>2, <3>2
    <2> QED  BY <2>1, <2>2
  <1> HIDE DEF f, t, next
  <1>8. FedNext(s, f)
    BY <1>4, <1>5, <1>6, <1>7 DEF FedNext
  <1> QED  BY <1>8 DEF f, c

(* ... and the other clients stay so, but the one s reads.                  *)
LEMMA ExecuteSpares ==
    ASSUME IInv, Typed, AllFed, NEW s \in Servers, NEW db, NEW cmd, Effect(s, db, cmd),
           cmd.op \in {"write", "flushall"},
           UNCHANGED <<masterhost, replstate, try, masterdb>>,
           NEW m \in Servers, m # s, NEW i \in DOMAIN slaves[m],
           slaves[m][i].slave = s => Off(m, slaves[m][i])
    PROVE  FedNext(m, slaves[m][i])
  <1> DEFINE c == slaves[m][i]
  <1>1. c.slave \in Servers
    BY ClientIs
  <1>2. FedNow(m, c)
    BY FedEach
  <1>3. /\ child'[m] = child[m] /\ dump'[m] = dump[m] /\ data'[m] = data[m]
        /\ c.slave # s => data'[c.slave] = data[c.slave]
    BY <1>1 DEF Effect, Typed
  <1>4. masterdb' = masterdb /\ masterhost' = masterhost /\ replstate' = replstate /\ try' = try
    OBVIOUS
  <1> HIDE DEF c
  <1>5. c.slave = s => Off(m, c)
    BY DEF c
  <1>6. FedNext(m, c)
    BY <1>2, <1>3, <1>4, <1>5, FedStill
  <1> QED  BY <1>6 DEF c

(* A client of a master writes, or empties.                                 *)
LEMMA WriteFed ==
    ASSUME IInv, Typed, AllFed, NEW s \in Servers, Write(s) \/ Flush(s)
    PROVE  AllFed'
  <1>1. PICK db \in shape.dbs, cmd \in Fedable(shape.dbs) : Execute(s, db, cmd)
    <2>1. /\ Command("write", left.writes) \in Fedable(shape.dbs)
          /\ Command("flushall", 0) \in Fedable(shape.dbs)
      BY CommandsAre
    <2>2. \/ \E db \in shape.dbs : Execute(s, db, Command("write", left.writes))
          \/ \E db \in shape.dbs : Execute(s, db, Command("flushall", 0))
      BY DEF Write, Flush
    <2> QED  BY <2>1, <2>2, Zenon
  <1>2. masterhost[s] = None /\ UNCHANGED <<masterhost, replstate, try, masterdb>>
    BY DEF Write, Flush
  <1>3. replstate[s] = "none"
    BY <1>2 DEF IInv, LinksHaveMasters
  <1>4. /\ Effect(s, db, cmd)
        /\ slaves' = [slaves EXCEPT ![s] = replicationFeedSlaves(slaves[s], db, cmd)]
    BY <1>1, ExecuteIs
  <1>5. /\ DOMAIN slaves'[s] = DOMAIN slaves[s]
        /\ \A i \in DOMAIN slaves[s] : slaves'[s][i] = Fed(slaves[s][i], db, cmd)
    <2>1. slaves[s] \in Seq(Clients(shape.dbs)) /\ slaves'[s] = replicationFeedSlaves(slaves[s], db, cmd)
      BY <1>4 DEF Typed
    <2> QED  BY <2>1, ListFed, DatabasesAre
  <1>6. \A m \in Servers : m # s => slaves'[m] = slaves[m]
    BY <1>4 DEF Typed
  <1>7. ASSUME NEW m \in Servers, NEW i \in DOMAIN slaves'[m] PROVE FedNext(m, slaves'[m][i])
    <2>1. CASE m = s
      <3>1. FedNext(s, Fed(slaves[s][i], db, cmd))
        BY <1>2, <1>3, <1>4, <1>5, <1>7, <2>1, ExecuteFeeds DEF Linked
      <3> QED  BY <1>5, <1>7, <2>1, <3>1
    <2>2. CASE m # s
      <3>1. slaves'[m] = slaves[m]
        BY <1>6, <2>2
      <3>2. slaves[m][i].slave = s => Off(m, slaves[m][i])
        BY <1>2, <1>3 DEF Off
      <3>3. FedNext(m, slaves[m][i])
        BY <1>2, <1>4, <1>7, <2>2, <3>1, <3>2, ExecuteSpares DEF Fedable
      <3> QED  BY <3>1, <3>3
    <2> QED  BY <2>1, <2>2
  <1> QED  BY <1>7, FedAll

(* The steps of a master that change its clients, its child or dump.rdb     *)
(* keep every client fed when they keep its own.                            *)
LEMMA MasterFed ==
    ASSUME Typed, AllFed, NEW m \in Servers,
           UNCHANGED <<masterhost, replstate, try, masterdb, data>>,
           \A n \in Servers : n # m => /\ child'[n] = child[n] /\ dump'[n] = dump[n]
                                       /\ slaves'[n] = slaves[n],
           \A i \in DOMAIN slaves'[m] : FedNext(m, slaves'[m][i])
    PROVE  AllFed'
  <1>1. ASSUME NEW n \in Servers, NEW i \in DOMAIN slaves'[n] PROVE FedNext(n, slaves'[n][i])
    <2>1. CASE n = m
      BY <1>1, <2>1
    <2>2. CASE n # m
      <3>1. slaves'[n] = slaves[n]
        BY <2>2
      <3>2. FedNow(n, slaves[n][i])
        BY <1>1, <3>1, FedEach
      <3>3. FedNext(n, slaves[n][i])
        BY <2>2, <3>2, FedStill
      <3> QED  BY <3>1, <3>3
    <2> QED  BY <2>1, <2>2
  <1> QED  BY <1>1, FedAll

(* In such a step a client with the same buffer, that is as far, stays fed  *)
(* if what the save promises it stays.                                      *)
LEMMA ClientFed ==
    ASSUME UNCHANGED <<masterhost, replstate, try, masterdb, data>>,
           NEW m, NEW c, FedNow(m, c), NEW e, e.slave = c.slave,
           e.try = c.try, Done(e) <=> Done(c), e.out = c.out, e.db = c.db,
           Promised(e, child'[m], dump'[m], data[m])
    PROVE  FedNext(m, e)
  <1> DEFINE s == c.slave
  <1>1. Delivered(c, m, masterhost[s], try[s], replstate[s], data[s], masterdb[s], data[m])
    BY DEF FedNow
  <1>2. Delivered(e, m, masterhost[s], try[s], replstate[s], data[s], masterdb[s], data[m])
    BY <1>1, DeliveredAs
  <1> QED  BY <1>2 DEF FedNext

(* A save begins.                                                           *)
LEMMA SaveFed ==
    ASSUME IInv, Typed, AllFed, NEW m \in Servers, rdbSaveBackground(m)
    PROVE  AllFed'
  <1>1. /\ child[m] = <<>> /\ child' = [child EXCEPT ![m] = Child(data[m])]
        /\ UNCHANGED <<masterhost, replstate, try, masterdb, data, dump, slaves>>
    BY DEF rdbSaveBackground
  <1>2. ASSUME NEW i \in DOMAIN slaves'[m] PROVE FedNext(m, slaves'[m][i])
    <2> DEFINE c == slaves[m][i]
    <2>1. FedNow(m, c)
      BY <1>1, <1>2, FedEach
    <2> HIDE DEF c
    <2>2. Promised(c, child'[m], dump'[m], data[m])
      <3>1. Promised(c, <<>>, dump[m], data[m])
        BY <1>1, <2>1 DEF FedNow
      <3> QED  BY <1>1, <3>1, PromisedStarted
    <2>3. FedNext(m, c)
      BY <1>1, <2>1, <2>2, ClientFed
    <2> QED  BY <1>1, <2>3 DEF c
  <1> QED  BY <1>1, <1>2, MasterFed DEF Typed

(* A child ends: killed by nobody else, it has saved or failed.             *)
LEMMA EndsFed ==
    ASSUME IInv, Typed, AllFed, NEW m \in Servers, ChildEnds(m), "killed" \notin shape.mishaps
    PROVE  AllFed'
  <1>1. /\ child[m] # <<>> /\ child[m][1].status = "running"
        /\ UNCHANGED <<masterhost, replstate, try, masterdb, data, slaves>>
    BY EndsIs
  <1>2. PICK outcome \in {"saved", "failed"} :
           /\ child' = [child EXCEPT ![m] = Ended(child[m], outcome)]
           /\ dump' = [dump EXCEPT ![m] = IF outcome = "saved" THEN child[m][1].snapshot ELSE @]
    BY EndsIs DEF Mishap
  <1>3. child[m] \in Children
    BY DEF Typed
  <1>4. /\ child'[m] = Ended(child[m], outcome)
        /\ dump'[m] = IF outcome = "saved" THEN child[m][1].snapshot ELSE dump[m]
    BY <1>2 DEF Typed
  <1>5. ASSUME NEW i \in DOMAIN slaves'[m] PROVE FedNext(m, slaves'[m][i])
    <2> DEFINE c == slaves[m][i]
    <2>1. FedNow(m, c)
      BY <1>1, <1>5, FedEach
    <2> HIDE DEF c
    <2>2. Promised(c, child'[m], dump'[m], data[m])
      <3>1. Promised(c, child[m], dump[m], data[m])
        BY <2>1 DEF FedNow
      <3>2. /\ Promised(c, Ended(child[m], "saved"), child[m][1].snapshot, data[m])
            /\ Promised(c, Ended(child[m], "failed"), dump[m], data[m])
        BY <1>1, <1>3, <3>1, PromisedEnded
      <3> QED  BY <1>4, <3>2
    <2>3. FedNext(m, c)
      BY <1>1, <2>1, <2>2, ClientFed
    <2> QED  BY <1>1, <2>3 DEF c
  <1> QED  BY <1>1, <1>2, <1>5, MasterFed DEF Typed

(* The end of a save: the next one begins when a client waits for it.       *)
LEMMA DoneFed ==
    ASSUME IInv, Typed, AllFed, NEW m \in Servers, backgroundSaveDoneHandler(m),
           "nextfork" \notin shape.mishaps
    PROVE  AllFed'
  <1> DEFINE kid == child[m]
             l == Kept(slaves[m], kid[1].status)
  <1>1. /\ kid # <<>> /\ kid[1].status # "running"
        /\ UNCHANGED <<shape, masterhost, replstate, try, asked, masterdb, data, dump>>
        /\ slaves' = [slaves EXCEPT ![m] = ToldAll(l, dump[m])]
        /\ \/ child' = [child EXCEPT ![m] = Child(data[m])]
           \/ /\ child' = [child EXCEPT ![m] = <<>>]
              /\ Waiting(slaves[m], "wait_bgsave_start") = {}
    BY DoneIs DEF Mishap
  <1>2. slaves[m] \in Seq(Clients(shape.dbs)) /\ dump[m] \in Datasets
    BY DEF Typed
  <1>3. /\ l \in Seq(Clients(shape.dbs)) /\ Picked(l, slaves[m])
        /\ kid[1].status = "failed" => \A i \in DOMAIN l : l[i].state # "wait_bgsave_end"
    BY <1>2, KeptIs, Zenon
  <1> HIDE DEF l
  <1>4. /\ DOMAIN ToldAll(l, dump[m]) = DOMAIN l
        /\ \A i \in DOMAIN l : ToldAll(l, dump[m])[i] = Told(l[i], dump[m])
    BY <1>2, <1>3, ListTold, Zenon
  <1>5. slaves'[m] = ToldAll(l, dump[m]) /\ \A n \in Servers : n # m => slaves'[n] = slaves[n]
    BY <1>1 DEF Typed
  <1>6. ASSUME NEW i \in DOMAIN slaves'[m] PROVE FedNext(m, slaves'[m][i])
    <2> DEFINE c == l[i]
    <2>1. i \in DOMAIN l /\ slaves'[m][i] = Told(c, dump[m])
      BY <1>4, <1>5, <1>6
    <2>2. PICK k \in DOMAIN slaves[m] : c = slaves[m][k]
      BY <1>3, <2>1 DEF Picked
    <2>3. FedNow(m, c)
      BY <2>2, FedEach
    <2>4. c \in Clients(shape.dbs) /\ (kid[1].status = "failed" => c.state # "wait_bgsave_end")
      BY <1>3, <2>1
    <2>5. child'[m] = Child(data[m]) \/ c.state # "wait_bgsave_start"
      BY <1>1, <2>2 DEF Typed, Waiting
    <2> HIDE DEF c
    <2>6. Promised(c, kid, dump[m], data[m])
      BY <2>3 DEF FedNow
    <2>7. Promised(Told(c, dump[m]), child'[m], dump[m], data[m])
      BY <1>1, <1>2, <2>4, <2>5, <2>6, PromisedTold
    <2>8. /\ Told(c, dump[m]).slave = c.slave /\ Told(c, dump[m]).try = c.try
          /\ Told(c, dump[m]).out = c.out /\ Told(c, dump[m]).db = c.db
          /\ Done(Told(c, dump[m])) <=> Done(c)
      BY <2>4 DEF Told, Clients, Done
    <2>9. FedNext(m, Told(c, dump[m]))
      BY <1>1, <2>3, <2>7, <2>8, ClientFed
    <2> QED  BY <2>1, <2>9
  <1>7. \A n \in Servers : n # m => child'[n] = child[n] /\ dump'[n] = dump[n]
    BY <1>1 DEF Typed
  <1> QED  BY <1>1, <1>5, <1>6, <1>7, MasterFed

(* The last byte of a dump is sent.                                         *)
LEMMA SendFed ==
    ASSUME IInv, Typed, AllFed, NEW m \in Servers, sendBulkToSlave(m)
    PROVE  AllFed'
  <1>1. UNCHANGED <<masterhost, replstate, try, masterdb, data, dump, child>>
    BY SendIs
  <1>2. PICK i \in DOMAIN slaves[m] :
           /\ slaves[m][i].state = "send_bulk"
           /\ slaves' = [slaves EXCEPT ![m] = [slaves[m] EXCEPT ![i] = Sent(slaves[m][i])]]
    BY SendIs
  <1>3. \A n \in Servers : n # m => slaves'[n] = slaves[n]
    BY <1>2 DEF Typed
  <1>4. /\ DOMAIN slaves'[m] = DOMAIN slaves[m] /\ slaves'[m][i] = Sent(slaves[m][i])
        /\ \A j \in DOMAIN slaves[m] : j # i => slaves'[m][j] = slaves[m][j]
    BY <1>2 DEF Typed
  <1>5. ASSUME NEW j \in DOMAIN slaves[m] PROVE FedNext(m, slaves'[m][j])
    <2> DEFINE c == slaves[m][j]
    <2>1. FedNow(m, c) /\ c \in Clients(shape.dbs)
      BY <1>5, FedEach, ClientIs
    <2>2. Promised(c, child[m], dump[m], data[m])
      BY <2>1 DEF FedNow
    <2>3. CASE j # i
      <3> HIDE DEF c
      <3>1. FedNext(m, c)
        BY <1>1, <2>1, <2>2, ClientFed
      <3> QED  BY <1>4, <2>3, <3>1 DEF c
    <2>4. CASE j = i
      <3>1. c.state = "send_bulk" /\ slaves'[m][j] = Sent(c)
        BY <1>2, <1>4, <2>4
      <3> HIDE DEF c
      <3>2. Promised(Sent(c), child[m], dump[m], data[m])
        BY <2>1, <2>2, <3>1, PromisedOn
      <3>3. c.bulk # <<>>
        BY <2>2, <3>1 DEF Promised
      <3>4. /\ Sent(c).slave = c.slave /\ Sent(c).try = c.try
            /\ Sent(c).out = c.out /\ Sent(c).db = c.db
            /\ Done(Sent(c)) <=> Done(c)
        BY <2>1, <3>3 DEF Sent, Clients, Done
      <3>5. FedNext(m, Sent(c))
        BY <1>1, <2>1, <3>2, <3>4, ClientFed
      <3> QED  BY <3>1, <3>5
    <2> QED  BY <2>3, <2>4
  <1> QED  BY <1>1, <1>3, <1>4, <1>5, MasterFed

(* A client is freed.                                                       *)
LEMMA FreeFed ==
    ASSUME IInv, Typed, AllFed, NEW m \in Servers, freeSlave(m)
    PROVE  AllFed'
  <1>1. UNCHANGED <<masterhost, replstate, try, masterdb, data, dump, child>>
    BY DEF freeSlave
  <1>2. PICK i \in DOMAIN slaves[m] : slaves' = [slaves EXCEPT ![m] = RemoveAt(slaves[m], i)]
    BY DEF freeSlave
  <1>3. \A n \in Servers : n # m => slaves'[n] = slaves[n]
    BY <1>2 DEF Typed
  <1>4. Picked(slaves'[m], slaves[m])
    <2>1. slaves[m] \in Seq(Clients(shape.dbs)) /\ slaves'[m] = RemoveAt(slaves[m], i)
      BY <1>2 DEF Typed
    <2> QED  BY <2>1, ListWithout
  <1>5. ASSUME NEW j \in DOMAIN slaves'[m] PROVE FedNext(m, slaves'[m][j])
    <2>1. PICK k \in DOMAIN slaves[m] : slaves'[m][j] = slaves[m][k]
      BY <1>4, <1>5 DEF Picked
    <2> DEFINE c == slaves[m][k]
    <2>2. FedNow(m, c)
      BY FedEach
    <2> HIDE DEF c
    <2>3. Promised(c, child[m], dump[m], data[m])
      BY <2>2 DEF FedNow
    <2>4. FedNext(m, c)
      BY <1>1, <2>2, <2>3, ClientFed
    <2> QED  BY <2>1, <2>4 DEF c
  <1> QED  BY <1>1, <1>3, <1>5, MasterFed

(* A client copied from is one that believes its slave has database 0.      *)
CopiesUnselected ==
    \A m \in Servers :
        LET sharing == Waiting(slaves[m], "wait_bgsave_end")
        IN  Len(slaves'[m]) > Len(slaves[m]) /\ sharing # {} => slaves[m][Min(sharing)].db = 0

(* A request is served.                                                     *)
LEMMA SyncFed ==
    ASSUME IInv, Typed, LinksDistinct, AllFed, NEW m \in Servers, syncCommand(m), CopiesUnselected
    PROVE  AllFed'
  <1>1. PICK r \in asked : /\ r.master = m /\ asked' = asked \ {r}
                           /\ UNCHANGED <<slaves, child>> \/ \E c : Joins(m, r, c)
    BY SyncIs
  <1>2. UNCHANGED <<masterhost, replstate, try, masterdb, data, dump>>
    BY SyncIs
  <1>3. r.slave \in Servers /\ (r.try = try[r.slave] => replstate[r.slave] # "connected")
    BY DEF Typed, LinksDistinct, RequestsWaitedFor
  <1>4. CASE UNCHANGED <<slaves, child>>
    BY <1>2, <1>4 DEF AllFed
  <1>5. ASSUME NEW e, Joins(m, r, e) PROVE AllFed'
    <2> DEFINE n == Len(slaves[m]) + 1
               l == Append(slaves[m], e)
    <2>1. slaves[m] \in Seq(Clients(shape.dbs)) /\ e \in Clients(shape.dbs)
      BY <1>5, JoinsTyped DEF Typed
    <2>2. /\ DOMAIN l = DOMAIN slaves[m] \cup {n} /\ n \notin DOMAIN slaves[m]
          /\ l[n] = e /\ \A i \in DOMAIN slaves[m] : l[i] = slaves[m][i]
          /\ Len(l) = Len(slaves[m]) + 1 /\ Len(slaves[m]) \in Nat
      BY <2>1, ListJoined
    <2>3. slaves' = [slaves EXCEPT ![m] = l]
      BY <1>5 DEF Joins
    <2> HIDE DEF n, l
    <2>4. /\ DOMAIN slaves'[m] = DOMAIN slaves[m] \cup {n} /\ n \notin DOMAIN slaves[m]
          /\ slaves'[m][n] = e /\ \A i \in DOMAIN slaves[m] : slaves'[m][i] = slaves[m][i]
          /\ \A t \in Servers : t # m => slaves'[t] = slaves[t]
          /\ Len(slaves'[m]) > Len(slaves[m])
      <3>1. slaves'[m] = l /\ \A t \in Servers : t # m => slaves'[t] = slaves[t]
        BY <2>3 DEF Typed
      <3>2. Len(l) > Len(slaves[m])
        <4> DEFINE k == Len(slaves[m])
        <4>1. Len(l) = k + 1 /\ k \in Nat
          BY <2>2
        <4> HIDE DEF k
        <4>2. Len(l) > k
          BY <4>1
        <4> QED  BY <4>2 DEF k
      <3> QED  BY <2>2, <3>1, <3>2
    <2>5. child[m] = <<>> \/ child' = child
      BY <1>5 DEF Joins
    <2>6. \A t \in Servers : t # m => child'[t] = child[t]
      BY <1>5 DEF Joins, Typed
    <2>7. ASSUME NEW i \in DOMAIN slaves[m] PROVE FedNext(m, slaves[m][i])
      <3> DEFINE c == slaves[m][i]
      <3>1. FedNow(m, c)
        BY <2>7, FedEach
      <3> HIDE DEF c
      <3>2. Promised(c, child[m], dump[m], data[m])
        BY <3>1 DEF FedNow
      <3>3. Promised(c, child'[m], dump[m], data[m])
        BY <2>5, <3>2, PromisedStarted
      <3>4. FedNext(m, c)
        BY <1>2, <3>1, <3>3, ClientFed
      <3> QED  BY <3>4 DEF c
    <2>8. /\ e.slave = r.slave /\ e.try = r.try /\ e.bulk = <<>> /\ e.db = 0
          /\ e.state \in {"wait_bgsave_start", "wait_bgsave_end"}
          /\ e.state = "wait_bgsave_start" => e.out = <<>>
      <3>1. \/ e = Joining(r, "wait_bgsave_start", <<>>)
            \/ \E out : e = Joining(r, "wait_bgsave_end", out)
        BY <1>5, Zenon DEF Joins
      <3> QED  BY <3>1, JoiningIs
    <2>9. Promised(e, child'[m], dump[m], data[m])
      <3>1. CASE e.state = "wait_bgsave_start"
        BY <2>8, <3>1 DEF Promised
      <3>2. CASE /\ child[m] # <<>> /\ UNCHANGED child
                 /\ Waiting(slaves[m], "wait_bgsave_end") # {}
                 /\ e = Joining(r, "wait_bgsave_end",
                                slaves[m][Min(Waiting(slaves[m], "wait_bgsave_end"))].out)
        <4> DEFINE k == Min(Waiting(slaves[m], "wait_bgsave_end"))
                   c == slaves[m][k]
        <4>1. k \in DOMAIN slaves[m] /\ c.state = "wait_bgsave_end"
          BY <2>1, <3>2, WaitingAre
        <4>2. c.db = 0
          BY <2>4, <3>2 DEF CopiesUnselected
        <4>3. e.out = c.out /\ e.state = "wait_bgsave_end"
          BY <3>2, JoiningIs
        <4>4. FedNow(m, c)
          BY <4>1, FedEach
        <4> HIDE DEF k, c
        <4>5. Promised(c, child[m], dump[m], data[m])
          BY <4>4 DEF FedNow
        <4>6. \A from : Reaches(from, 0, c, data[m]) => Reaches(from, 0, e, data[m])
          BY <2>8, <4>2, <4>3 DEF Reaches
        <4>7. Promised(e, child[m], dump[m], data[m])
          BY <2>8, <4>1, <4>3, <4>5, <4>6 DEF Promised
        <4> QED  BY <3>2, <4>7
      <3>3. CASE /\ child' = [child EXCEPT ![m] = Child(data[m])]
                 /\ e = Joining(r, "wait_bgsave_end", <<>>)
        <4>1. e.out = <<>> /\ e.state = "wait_bgsave_end"
          BY <3>3, JoiningIs
        <4>2. /\ child'[m] # <<>> /\ child'[m][1].status = "running"
              /\ child'[m][1].snapshot = data[m]
          <5>1. child'[m] = Child(data[m])
            BY <3>3 DEF Typed
          <5> QED  BY <5>1 DEF Child
        <4>3. Reaches(data[m], 0, e, data[m])
          BY <2>8, <4>1, ReachesNow
        <4> QED  BY <2>8, <4>1, <4>2, <4>3 DEF Promised
      <3>4. \/ e = Joining(r, "wait_bgsave_start", <<>>)
            \/ /\ child[m] # <<>> /\ UNCHANGED child
               /\ Waiting(slaves[m], "wait_bgsave_end") # {}
               /\ e = Joining(r, "wait_bgsave_end",
                              slaves[m][Min(Waiting(slaves[m], "wait_bgsave_end"))].out)
            \/ /\ child' = [child EXCEPT ![m] = Child(data[m])]
               /\ e = Joining(r, "wait_bgsave_end", <<>>)
        BY <1>5, Zenon DEF Joins
      <3>5. e = Joining(r, "wait_bgsave_start", <<>>) => e.state = "wait_bgsave_start"
        BY JoiningIs
      <3> QED  BY <3>1, <3>2, <3>3, <3>4, <3>5
    <2>10. FedNext(m, e)
      <3> DEFINE s == e.slave
      <3>1. Delivered(e, m, masterhost[s], try[s], replstate[s], data[s], masterdb[s], data[m])
        BY <1>3, <2>8 DEF Delivered, Done
      <3> QED  BY <1>2, <2>9, <3>1 DEF FedNext
    <2>11. ASSUME NEW i \in DOMAIN slaves'[m] PROVE FedNext(m, slaves'[m][i])
      BY <2>4, <2>7, <2>10, <2>11
    <2> QED  BY <1>2, <2>4, <2>6, <2>11, MasterFed
  <1> QED  BY <1>1, <1>4, <1>5

(* A link is begun, or asked over: it has no client yet.                    *)
LEMMA AskFed ==
    ASSUME IInv, Typed, LinksDistinct, AllFed, NEW s \in Servers,
           connectWithMaster(s) \/ syncWithMaster(s)
    PROVE  AllFed'
  <1>1. UNCHANGED <<masterhost, masterdb, data, dump, child, slaves>>
    BY DEF connectWithMaster, syncWithMaster
  <1>2. \A t \in Servers : t # s => try'[t] = try[t] /\ replstate'[t] = replstate[t]
    BY DEF connectWithMaster, syncWithMaster, Typed, IInv, LinksTyped
  <1>3. \/ replstate'[s] \in {"connecting", "receive_pong"}
        \/ replstate[s] = "receive_pong" /\ try'[s] = try[s]
    BY DEF connectWithMaster, syncWithMaster, IInv, LinksTyped
  <1>4. ASSUME NEW m \in Servers, NEW i \in DOMAIN slaves'[m] PROVE FedNext(m, slaves'[m][i])
    <2> DEFINE c == slaves[m][i]
    <2>1. FedNow(m, c) /\ c.slave \in Servers
      BY <1>1, <1>4, FedEach, ClientIs
    <2>2. c.slave = s => Off(m, c)
      <3> SUFFICES ASSUME c.slave = s PROVE Off(m, c)
        OBVIOUS
      <3>1. CASE replstate'[s] \in {"connecting", "receive_pong"}
        BY <3>1 DEF Off
      <3>2. CASE replstate[s] = "receive_pong" /\ try'[s] = try[s]
        <4>1. c.try # try[s]
          BY <1>1, <1>4, <3>2 DEF LinksDistinct, NewLinksUnused, Unused
        <4> QED  BY <3>2, <4>1 DEF Off
      <3> QED  BY <1>3, <3>1, <3>2
    <2> HIDE DEF c
    <2>3. FedNext(m, c)
      BY <1>1, <1>2, <2>1, <2>2, FedStill
    <2> QED  BY <1>1, <2>3 DEF c
  <1> QED  BY <1>4, FedAll

(* A link is given up, a server gets another master, or dies.               *)
LEMMA LossFed ==
    ASSUME IInv, Typed, AllFed, NEW s \in Servers,
           LinkClosed(s) \/ LinkFails(s) \/ slaveofCommand(s) \/ CrashAndRestart(s)
    PROVE  AllFed'
  <1>1. UNCHANGED <<try, masterdb>>
    BY DEF LinkClosed, LinkFails, slaveofCommand, CrashAndRestart
  <1>2. \A t \in Servers : t # s => masterhost'[t] = masterhost[t] /\ replstate'[t] = replstate[t]
    BY DEF LinkClosed, LinkFails, Unlink, slaveofCommand, CrashAndRestart, IInv, LinksTyped
  <1>3. replstate'[s] \in {"none", "connect"}
    BY DEF LinkClosed, LinkFails, Unlink, slaveofCommand, CrashAndRestart, IInv, LinksTyped
  <1>4. \A t \in Servers : t # s => /\ data'[t] = data[t] /\ dump'[t] = dump[t]
                                    /\ child'[t] = child[t] /\ slaves'[t] = slaves[t]
    BY DEF LinkClosed, LinkFails, Unlink, slaveofCommand, CrashAndRestart, Typed
  <1>5. \/ slaves'[s] = <<>>
        \/ slaves'[s] = slaves[s] /\ UNCHANGED <<data, dump, child>>
    BY DEF LinkClosed, LinkFails, Unlink, slaveofCommand, CrashAndRestart, Typed
  <1>6. ASSUME NEW m \in Servers, NEW i \in DOMAIN slaves'[m] PROVE FedNext(m, slaves'[m][i])
    <2> DEFINE c == slaves[m][i]
    <2>1. /\ slaves'[m] = slaves[m]
          /\ child'[m] = child[m] /\ dump'[m] = dump[m] /\ data'[m] = data[m]
      BY <1>4, <1>5, <1>6
    <2>2. FedNow(m, c) /\ c.slave \in Servers
      BY <1>6, <2>1, FedEach, ClientIs
    <2>3. c.slave = s => Off(m, c)
      BY <1>3 DEF Off
    <2> HIDE DEF c
    <2>4. FedNext(m, c)
      BY <1>1, <1>2, <1>4, <2>1, <2>2, <2>3, FedStill
    <2> QED  BY <2>1, <2>4 DEF c
  <1> QED  BY <1>6, FedAll

(* The dump is loaded.                                                      *)
LEMMA LoadFed ==
    ASSUME IInv, Typed, LinksDistinct, AllFed, NEW s \in Servers, readSyncBulkPayload(s),
           "overtake" \notin shape.mishaps
    PROVE  AllFed'
  <1> DEFINE m == masterhost[s]
  <1>1. /\ replstate[s] = "transfer" /\ UNCHANGED <<masterhost, try>>
        /\ replstate' = [replstate EXCEPT ![s] = "connected"]
        /\ masterdb' = [masterdb EXCEPT ![s] = 0]
    BY LoadIs
  <1>2. PICK i \in Mine(s) :
           /\ slaves[m][i].state = "online" /\ slaves[m][i].bulk # <<>>
           /\ slaves' = [slaves EXCEPT ![m] = [slaves[m] EXCEPT ![i] = Loaded(slaves[m][i])]]
           /\ data' = [data EXCEPT ![s] = slaves[m][i].bulk[1]]
           /\ dump' = [dump EXCEPT ![s] = slaves[m][i].bulk[1]]
           /\ child' = [child EXCEPT ![s] = [j \in DOMAIN @ |-> @[j]]]
    BY LoadIs DEF Mishap
  <1>3. /\ m \in Servers /\ i \in DOMAIN slaves[m] /\ slaves[m][i].slave = s
        /\ slaves[m][i].try = try[s]
    BY <1>1, MineIs DEF Linked
  <1>4. slaves[s] = <<>> /\ m # s
    BY <1>1, <1>3 DEF IInv, LinksTyped, LinksHaveMasters, NobodyFedWhileResyncing
  <1>5. replstate'[s] = "connected" /\ masterdb'[s] = 0 /\ data'[s] = slaves[m][i].bulk[1]
    BY <1>1, <1>2 DEF IInv, LinksTyped, Typed
  <1>6. \A t \in Servers : t # s => /\ replstate'[t] = replstate[t] /\ masterdb'[t] = masterdb[t]
                                    /\ data'[t] = data[t] /\ dump'[t] = dump[t]
                                    /\ child'[t] = child[t]
    BY <1>1, <1>2 DEF IInv, LinksTyped, Typed
  <1>7. /\ DOMAIN slaves'[m] = DOMAIN slaves[m] /\ slaves'[m][i] = Loaded(slaves[m][i])
        /\ \A j \in DOMAIN slaves[m] : j # i => slaves'[m][j] = slaves[m][j]
        /\ \A t \in Servers : t # m => slaves'[t] = slaves[t]
    BY <1>2, <1>3 DEF Typed
  <1> HIDE DEF m
  <1>8. FedNext(m, Loaded(slaves[m][i]))
    <2> DEFINE c == slaves[m][i]
               e == Loaded(c)
    <2>1. FedNow(m, c) /\ c \in Clients(shape.dbs)
      BY <1>3, FedEach, ClientIs
    <2>2. /\ c.slave = s /\ c.try = try[s] /\ c.state = "online" /\ c.bulk # <<>>
          /\ data'[s] = c.bulk[1]
      BY <1>2, <1>3, <1>5
    <2> HIDE DEF c
    <2>3. Promised(c, child[m], dump[m], data[m])
      BY <2>1 DEF FedNow
    <2>4. Promised(e, child'[m], dump'[m], data'[m])
      BY <2>1, <2>2, <2>3, PromisedOn
    <2>5. /\ e.slave = s /\ e.try = try[s] /\ Done(e) /\ e.out = c.out /\ e.db = c.db
      BY <2>1, <2>2 DEF Loaded, Clients, Done
    <2>6. Reaches(data'[s], 0, c, data[m])
      BY <2>2, <2>3 DEF Promised
    <2> HIDE DEF e
    <2>7. Reaches(data'[s], 0, e, data[m])
      BY <2>5, <2>6 DEF Reaches
    <2>8. data'[m] = data[m]
      BY <1>3, <1>4, <1>6
    <2>9. Delivered(e, m, masterhost[s], try[s], "connected", data'[s], 0, data[m])
      BY <2>5, <2>7 DEF Delivered
    <2>10. FedNext(m, e)
      BY <1>1, <1>5, <2>4, <2>5, <2>8, <2>9 DEF FedNext
    <2> QED  BY <2>10 DEF e, c
  <1>9. ASSUME NEW n \in Servers, NEW j \in DOMAIN slaves'[n] PROVE FedNext(n, slaves'[n][j])
    <2>1. CASE n = m /\ j = i
      BY <1>7, <1>8, <2>1
    <2>2. CASE ~(n = m /\ j = i)
      <3> DEFINE c == slaves[n][j]
      <3>1. j \in DOMAIN slaves[n] /\ slaves'[n][j] = c
        BY <1>7, <1>9, <2>2
      <3>2. n # s
        BY <1>4, <3>1
      <3>3. FedNow(n, c) /\ c.slave \in Servers
        BY <1>9, <3>1, FedEach, ClientIs
      <3>4. c.slave = s => Off(n, c)
        <4>1. ~SameLink(slaves[n][j], slaves[m][i])
          BY <1>3, <1>9, <2>2, <3>1 DEF LinksDistinct, ClientsDistinct
        <4> QED  BY <1>1, <1>3, <4>1 DEF SameLink, Off
      <3> HIDE DEF c
      <3>5. FedNext(n, c)
        BY <1>1, <1>6, <1>9, <3>2, <3>3, <3>4, FedStill
      <3> QED  BY <3>1, <3>5
    <2> QED  BY <2>1, <2>2
  <1> QED  BY <1>9, FedAll

(* A client one command shorter, whose slave has executed it.               *)
LEMMA ReadReaches ==
    ASSUME NEW dbs, NEW c \in Clients(dbs), c.out # <<>>, NEW from, NEW db, NEW to,
           Reaches(from, db, c, to),
           NEW own, NEW next, Step(St(from, db), Head(c.out)) = St(own, next)
    PROVE  Reaches(own, next, Popped(c), to)
  <1>1. Popped(c).out = Tail(c.out) /\ Popped(c).db = c.db
    BY DEF Popped, Clients
  <1>2. c.out \in Seq(Stream(dbs))
    BY DEF Clients
  <1>3. c.out \in Seq(Commands)
    BY <1>2, StreamCommands
  <1>4. Replay(own, next, Tail(c.out)) = Replay(from, db, c.out)
    BY <1>3, ReplayTail
  <1> HIDE DEF Popped
  <1> QED  BY <1>1, <1>4 DEF Reaches

(* A command of the stream is executed.                                     *)
LEMMA ReadFed ==
    ASSUME IInv, Typed, LinksDistinct, AllFed, NEW s \in Servers, ReadCommand(s)
    PROVE  AllFed'
  <1> DEFINE m == masterhost[s]
  <1>1. /\ Linked(s) /\ replstate[s] = "connected"
        /\ UNCHANGED <<shape, left, masterhost, replstate, try, asked>>
        /\ m \in Servers /\ m # s
    BY ReadAway
  <1>2. PICK i \in DOMAIN slaves[m] :
           LET c == slaves[m][i]
               cmd == Head(c.out)
           IN  /\ c.slave = s /\ c.try = try[s]
               /\ c.state = "online" /\ c.out # <<>>
               /\ slaves'[m] = [slaves[m] EXCEPT ![i] = Popped(c)]
               /\ \A n \in Servers : n # m /\ n # s => slaves'[n] = slaves[n]
               /\ \/ /\ cmd.op = "select" /\ slaves'[s] = slaves[s]
                     /\ masterdb' = [masterdb EXCEPT ![s] = cmd.n]
                     /\ UNCHANGED <<data, dump, child>>
                  \/ /\ cmd.op \in {"write", "flushall"} /\ UNCHANGED masterdb
                     /\ slaves'[s] = replicationFeedSlaves(slaves[s], masterdb[s], cmd)
                     /\ Effect(s, masterdb[s], cmd)
    BY ReadAway, Zenon
  <1> DEFINE c == slaves[m][i]
             cmd == Head(c.out)
             e == Popped(c)
             db == masterdb[s]
  <1>3. c.slave = s /\ c.try = try[s] /\ c.state = "online" /\ c.out # <<>>
    BY <1>2
  <1>4. /\ DOMAIN slaves'[m] = DOMAIN slaves[m] /\ slaves'[m][i] = e
        /\ \A j \in DOMAIN slaves[m] : j # i => slaves'[m][j] = slaves[m][j]
    <2>1. slaves[m] \in Seq(Clients(shape.dbs)) /\ slaves'[m] = [slaves[m] EXCEPT ![i] = e]
      BY <1>1, <1>2 DEF Typed
    <2> HIDE DEF e, c
    <2> QED  BY <2>1
  <1>5. \A n \in Servers : n # m /\ n # s => slaves'[n] = slaves[n]
    BY <1>2
  <1>6. \/ /\ cmd.op = "select" /\ slaves'[s] = slaves[s]
           /\ masterdb' = [masterdb EXCEPT ![s] = cmd.n]
           /\ UNCHANGED <<data, dump, child>>
        \/ /\ cmd.op \in {"write", "flushall"} /\ UNCHANGED masterdb
           /\ slaves'[s] = replicationFeedSlaves(slaves[s], db, cmd)
           /\ Effect(s, db, cmd)
    BY <1>2
  <1>7. FedNow(m, c) /\ c \in Clients(shape.dbs)
    BY <1>1, FedEach, ClientIs
  <1>8. cmd \in Stream(shape.dbs) /\ db \in shape.dbs
    BY <1>3, <1>7, HeadIs DEF Typed
  <1>9. ASSUME NEW n \in Servers, NEW j \in DOMAIN slaves[n], ~(n = m /\ j = i)
        PROVE  slaves[n][j].slave = s => Off(n, slaves[n][j])
    <2>1. ~SameLink(slaves[n][j], slaves[m][i])
      BY <1>1, <1>9 DEF LinksDistinct, ClientsDistinct
    <2> QED  BY <1>1, <1>3, <2>1 DEF SameLink, Off
  <1> HIDE DEF m, c, cmd, e, db
  <1>10. e.slave = s /\ e.try = try[s] /\ (Done(e) <=> Done(c))
    BY <1>3, <1>7 DEF e, Popped, Clients, Done
  <1>11. Done(c) /\ Reaches(data[s], db, c, data[m])
    <2>1. Delivered(c, m, masterhost[s], try[s], replstate[s], data[s], db, data[m])
      BY <1>3, <1>7 DEF FedNow, db
    <2> QED  BY <1>1, <1>3, <2>1 DEF Delivered, m
  <1>12. /\ Promised(e, child'[m], dump'[m], data'[m])
    <2>1. Promised(c, child[m], dump[m], data[m])
      BY <1>7 DEF FedNow
    <2> QED  BY <1>7, <1>11, <2>1, PromisedOn DEF e
  <1>13. ASSUME NEW own, NEW next, Step(St(data[s], db), cmd) = St(own, next),
                data'[s] = own, masterdb'[s] = next, data'[m] = data[m]
         PROVE  FedNext(m, e)
    <2>1. Reaches(own, next, e, data[m])
      BY <1>3, <1>7, <1>11, <1>13, ReadReaches DEF e, cmd
    <2>2. Delivered(e, m, masterhost[s], try[s], replstate[s], own, next, data[m])
      BY <1>1, <1>10, <1>11, <2>1 DEF Delivered
    <2> QED  BY <1>1, <1>10, <1>12, <1>13, <2>2 DEF FedNext
  <1>14. CASE /\ cmd.op = "select" /\ slaves'[s] = slaves[s]
              /\ masterdb' = [masterdb EXCEPT ![s] = cmd.n]
              /\ UNCHANGED <<data, dump, child>>
    <2>1. masterdb'[s] = cmd.n /\ \A t \in Servers : t # s => masterdb'[t] = masterdb[t]
      BY <1>14 DEF Typed
    <2>2. FedNext(m, e)
      BY <1>13, <1>14, <2>1, SelectIs
    <2>3. ASSUME NEW n \in Servers, NEW j \in DOMAIN slaves'[n] PROVE FedNext(n, slaves'[n][j])
      <3>1. CASE n = m /\ j = i
        BY <1>4, <2>2, <3>1
      <3>2. CASE ~(n = m /\ j = i)
        <4> DEFINE d == slaves[n][j]
        <4>1. j \in DOMAIN slaves[n] /\ slaves'[n][j] = d
          BY <1>4, <1>5, <1>14, <2>3, <3>2
        <4>2. FedNow(n, d) /\ d.slave \in Servers /\ (d.slave = s => Off(n, d))
          BY <1>9, <2>3, <3>2, <4>1, FedEach, ClientIs
        <4> HIDE DEF d
        <4>3. FedNext(n, d)
          BY <1>1, <1>14, <2>1, <4>2, FedStill
        <4> QED  BY <4>1, <4>3
      <3> QED  BY <3>1, <3>2
    <2> QED  BY <2>3, FedAll
  <1>15. CASE /\ cmd.op \in {"write", "flushall"} /\ UNCHANGED masterdb
              /\ slaves'[s] = replicationFeedSlaves(slaves[s], db, cmd)
              /\ Effect(s, db, cmd)
    <2>1. cmd \in Fedable(shape.dbs)
      BY <1>8, <1>15 DEF Fedable
    <2>2. data'[s] = After(data[s], db, cmd) /\ data'[m] = data[m]
      BY <1>1, <1>15 DEF Effect, Typed, m
    <2>3. Step(St(data[s], db), cmd) = St(After(data[s], db, cmd), db)
      BY <1>15, WriteIs, FlushIs DEF After
    <2>4. FedNext(m, e)
      BY <1>13, <1>15, <2>2, <2>3 DEF db
    <2>5. /\ DOMAIN slaves'[s] = DOMAIN slaves[s]
          /\ \A j \in DOMAIN slaves[s] : slaves'[s][j] = Fed(slaves[s][j], db, cmd)
      <3>1. slaves[s] \in Seq(Clients(shape.dbs))
        BY DEF Typed
      <3> QED  BY <1>8, <1>15, <2>1, <3>1, ListFed, DatabasesAre
    <2>6. ~(masterhost[s] = s /\ Linked(s))
      BY <1>1 DEF m
    <2>7. ASSUME NEW n \in Servers, NEW j \in DOMAIN slaves'[n] PROVE FedNext(n, slaves'[n][j])
      <3>1. CASE n = m /\ j = i
        BY <1>4, <2>4, <3>1
      <3>2. CASE n = s
        <4>1. j \in DOMAIN slaves[s] /\ slaves'[n][j] = Fed(slaves[s][j], db, cmd)
          BY <2>5, <2>7, <3>2
        <4>2. FedNext(s, Fed(slaves[s][j], db, cmd))
          BY <1>1, <1>8, <1>15, <2>1, <2>6, <4>1, ExecuteFeeds
        <4> QED  BY <3>2, <4>1, <4>2
      <3>3. CASE n # s /\ ~(n = m /\ j = i)
        <4>1. j \in DOMAIN slaves[n] /\ slaves'[n][j] = slaves[n][j]
          BY <1>4, <1>5, <2>7, <3>3
        <4>2. slaves[n][j].slave = s => Off(n, slaves[n][j])
          BY <1>9, <2>7, <3>3, <4>1
        <4>3. FedNext(n, slaves[n][j])
          BY <1>1, <1>15, <2>7, <3>3, <4>1, <4>2, ExecuteSpares
        <4> QED  BY <4>1, <4>3
      <3> QED  BY <1>1, <3>1, <3>2, <3>3 DEF m
    <2> QED  BY <2>7, FedAll
  <1> QED  BY <1>6, <1>14, <1>15

(* Nobody has a client at the start.                                        *)
LEMMA FedInit == Init => AllFed
  BY DEF Init, AllFed

-----------------------------------------------------------------------------
(* The theorems                                                             *)

(* What is true whatever goes wrong.                                        *)
Sound == IInv /\ Typed /\ Bounded /\ LinksDistinct

(* It is at the start.                                                      *)
LEMMA SoundInit == Init => Sound
  BY IInvInit, TypedInit, LinksInit DEF Sound

(* Every step keeps it.                                                     *)
LEMMA SoundStep ==
    ASSUME Sound, [Next]_vars
    PROVE  Sound'
  <1>1. IInv' /\ Typed'
    BY IInvStep, TypedStep DEF Sound
  <1>2. ASSUME NEW s \in Servers, Write(s) \/ Flush(s) PROVE LinksDistinct' /\ Bounded'
    <2>1. UNCHANGED <<masterhost, replstate, try>>
      BY <1>2 DEF Write, Flush
    <2> QED  BY <1>2, <2>1, WriteDescent, ClientsLinks DEF Sound
  <1>3. ASSUME NEW s \in Servers, syncCommand(s) PROVE LinksDistinct' /\ Bounded'
    BY <1>3, SyncLinks DEF Sound
  <1>4. ASSUME NEW s \in Servers, rdbSaveBackground(s) \/ ChildEnds(s) PROVE LinksDistinct' /\ Bounded'
    <2>1. UNCHANGED <<masterhost, replstate, try, asked, slaves>>
      BY <1>4, EndsIs DEF rdbSaveBackground, Sound
    <2>2. Descent
      BY <2>1, DescendsSame DEF Descent
    <2> QED  BY <2>1, <2>2, ClientsLinks DEF Sound
  <1>5. ASSUME NEW s \in Servers, backgroundSaveDoneHandler(s) \/ sendBulkToSlave(s) \/ freeSlave(s)
        PROVE  LinksDistinct' /\ Bounded'
    <2>1. UNCHANGED <<masterhost, replstate, try>>
      BY <1>5 DEF backgroundSaveDoneHandler, sendBulkToSlave, freeSlave
    <2> QED  BY <1>5, <2>1, DoneDescent, SendDescent, FreeDescent, ClientsLinks DEF Sound
  <1>6. ASSUME NEW s \in Servers,
               connectWithMaster(s) \/ syncWithMaster(s) \/ readSyncBulkPayload(s)
        PROVE  LinksDistinct' /\ Bounded'
    BY <1>6, ConnectLinks, AskLinks, LoadLinks DEF Sound
  <1>7. ASSUME NEW s \in Servers, ReadCommand(s) PROVE LinksDistinct' /\ Bounded'
    <2>1. UNCHANGED <<masterhost, replstate, try>>
      BY <1>7 DEF ReadCommand
    <2> QED  BY <1>7, <2>1, ReadDescent, ClientsLinks DEF Sound
  <1>8. ASSUME NEW s \in Servers,
               LinkClosed(s) \/ LinkFails(s) \/ slaveofCommand(s) \/ CrashAndRestart(s)
        PROVE  LinksDistinct' /\ Bounded'
    BY <1>8, LossLinks DEF Sound
  <1>9. CASE UNCHANGED vars
    <2>1. UNCHANGED <<masterhost, replstate, try, asked, slaves>>
      BY <1>9 DEF vars
    <2>2. Descent
      BY <2>1, DescendsSame DEF Descent
    <2> QED  BY <1>1, <2>1, <2>2, ClientsLinks DEF Sound
  <1> QED
    BY <1>1, <1>2, <1>3, <1>4, <1>5, <1>6, <1>7, <1>8, <1>9 DEF Next, Sound

(* The types say what TypeOK says.                                          *)
LEMMA TypeOKHolds ==
    ASSUME IInv, Typed
    PROVE  TypeOK
  <1>1. /\ shape \in Shapes /\ masterhost \in [Servers -> Servers \cup {None}]
        /\ replstate \in [Servers -> Roles]
        /\ \A s \in Servers : (masterhost[s] = None) = (replstate[s] = "none")
    BY DEF IInv, LinksTyped, LinksHaveMasters
  <1>2. /\ try \in [Servers -> Nat] /\ asked \subseteq [slave : Servers, master : Servers, try : Nat]
        /\ masterdb \in [Servers -> shape.dbs]
        /\ \A s \in Servers : data[s] \in Datasets /\ dump[s] \in Datasets
    BY DEF Typed
  <1>3. ASSUME NEW s \in Servers
        PROVE  /\ Len(child[s]) <= 1
               /\ \A k \in ToSet(child[s]) :
                     k.status \in {"running", "saved", "failed", "killed"} /\ k.snapshot \in Datasets
    <2>1. child[s] \in Children
      BY <1>3 DEF Typed
    <2>2. CASE child[s] = <<>>
      BY <2>2 DEF ToSet
    <2>3. CASE child[s] # <<>>
      <3>1. /\ child[s][1] \in [status : {"running", "saved", "failed", "killed"}, snapshot : Datasets]
            /\ child[s] = <<child[s][1]>>
        BY <2>1, <2>3, ChildrenAre
      <3>2. Len(child[s]) = 1 /\ ToSet(child[s]) = {child[s][1]}
        BY <3>1 DEF ToSet
      <3> QED  BY <3>1, <3>2
    <2> QED  BY <2>2, <2>3
  <1>4. ASSUME NEW s \in Servers, NEW c \in ToSet(slaves[s])
        PROVE  /\ c.state \in {"wait_bgsave_start", "wait_bgsave_end", "send_bulk", "online"}
               /\ c.out \in Seq(Commands)
               /\ c.state \in {"wait_bgsave_start", "wait_bgsave_end"} => c.bulk = <<>>
    <2>1. c \in Clients(shape.dbs)
      BY <1>4 DEF Typed, ToSet
    <2>2. c.out \in Seq(Stream(shape.dbs))
      BY <2>1 DEF Clients
    <2> QED  BY <2>1, <2>2, StreamCommands DEF Clients, ClientStates
  <1> QED  BY <1>1, <1>2, <1>3, <1>4 DEF TypeOK

(* The servers are well typed, whatever goes wrong: a server has a link to  *)
(* make exactly when it has a master, it has one child at most, and a       *)
(* client that waits for a save has no dump yet.                            *)
THEOREM AlwaysTypeOK == Spec => []TypeOK
  <1>1. Sound => TypeOK
    BY TypeOKHolds DEF Sound
  <1> QED  BY <1>1, SoundInit, SoundStep, PTL DEF Spec

(* No child is killed from outside, no fork fails when a save has just      *)
(* ended, and no child of a slave ends while it loads its dump.             *)
SavesUndisturbed == \A h \in Shapes : h.mishaps \cap {"killed", "nextfork", "overtake"} = {}

(* Every step keeps every client fed when saves are undisturbed.            *)
LEMMA FedStep ==
    ASSUME SavesUndisturbed, Sound, AllFed, [Next]_vars, CopiesUnselected
    PROVE  AllFed'
  <1> USE DEF Sound
  <1>1. "killed" \notin shape.mishaps /\ "nextfork" \notin shape.mishaps /\ "overtake" \notin shape.mishaps
    BY DEF SavesUndisturbed, IInv, LinksTyped
  <1>2. ASSUME NEW s \in Servers, Write(s) \/ Flush(s) PROVE AllFed'
    BY <1>2, WriteFed
  <1>3. ASSUME NEW s \in Servers, syncCommand(s) PROVE AllFed'
    BY <1>3, SyncFed
  <1>4. ASSUME NEW s \in Servers, rdbSaveBackground(s) \/ ChildEnds(s) PROVE AllFed'
    BY <1>1, <1>4, SaveFed, EndsFed
  <1>5. ASSUME NEW s \in Servers, backgroundSaveDoneHandler(s) \/ sendBulkToSlave(s) \/ freeSlave(s)
        PROVE  AllFed'
    BY <1>1, <1>5, DoneFed, SendFed, FreeFed
  <1>6. ASSUME NEW s \in Servers,
               connectWithMaster(s) \/ syncWithMaster(s) \/ readSyncBulkPayload(s)
        PROVE  AllFed'
    BY <1>1, <1>6, AskFed, LoadFed
  <1>7. ASSUME NEW s \in Servers, ReadCommand(s) PROVE AllFed'
    BY <1>7, ReadFed
  <1>8. ASSUME NEW s \in Servers,
               LinkClosed(s) \/ LinkFails(s) \/ slaveofCommand(s) \/ CrashAndRestart(s)
        PROVE  AllFed'
    BY <1>8, LossFed
  <1>9. CASE UNCHANGED vars
    BY <1>9 DEF vars, AllFed
  <1> QED  BY <1>2, <1>3, <1>4, <1>5, <1>6, <1>7, <1>8, <1>9 DEF Next

(* When every client is, the promise of InSync is kept.                     *)
LEMMA InSyncHolds ==
    ASSUME Sound, AllFed
    PROVE  InSync
  <1>1. TypeOK
    BY TypeOKHolds DEF Sound
  <1>2. ASSUME NEW m \in Servers, NEW c \in ToSet(slaves[m]),
               c.state # "wait_bgsave_start",
               ~(c.state = "wait_bgsave_end" /\ child[m] # <<>> /\ child[m][1].status = "failed"),
               ~(c.bulk = <<>> /\ c.state = "online" /\ ~Live(m, c))
        PROVE  Reaches(Start(m, c), IF c.state = "online" /\ c.bulk = <<>> THEN masterdb[c.slave] ELSE 0,
                       c, data[m])
    <2>1. FedNow(m, c) /\ c \in Clients(shape.dbs)
      <3>1. PICK i \in DOMAIN slaves[m] : c = slaves[m][i]
        BY <1>2 DEF ToSet
      <3> QED  BY <1>2, <3>1, FedEach, ClientIs DEF Sound
    <2>2. Promised(c, child[m], dump[m], data[m])
      BY <2>1 DEF FedNow
    <2>3. CASE c.state = "wait_bgsave_end"
      BY <1>2, <2>2, <2>3 DEF Promised, Start
    <2>4. CASE c.state # "wait_bgsave_end" /\ c.bulk # <<>>
      BY <2>2, <2>4 DEF Promised, Start
    <2>5. CASE c.state # "wait_bgsave_end" /\ c.bulk = <<>>
      <3>1. c.state = "online"
        BY <1>2, <2>1, <2>2, <2>5 DEF Promised, Clients, ClientStates
      <3>2. Live(m, c) /\ Done(c)
        BY <1>2, <2>5, <3>1 DEF Done
      <3>3. Reaches(data[c.slave], masterdb[c.slave], c, data[m])
        BY <2>1, <3>2 DEF FedNow, Delivered, Live, Linked
      <3> QED  BY <2>5, <3>1, <3>3 DEF Start
    <2> QED  BY <2>3, <2>4, <2>5
  <1>3. \A m \in Servers : \A c \in ToSet(slaves[m]) :
           LET replayed == Replay(Start(m, c),
                                  IF c.state = "online" /\ c.bulk = <<>> THEN masterdb[c.slave] ELSE 0,
                                  c.out)
           IN  \/ c.state = "wait_bgsave_start"
               \/ c.state = "wait_bgsave_end" /\ child[m] # <<>> /\ child[m][1].status = "failed"
               \/ c.bulk = <<>> /\ c.state = "online" /\ ~Live(m, c)
               \/ replayed.data = data[m] /\ replayed.db = c.db
    <2> TAKE m \in Servers
    <2> TAKE c \in ToSet(slaves[m])
    <2> DEFINE replayed == Replay(Start(m, c),
                                  IF c.state = "online" /\ c.bulk = <<>> THEN masterdb[c.slave] ELSE 0,
                                  c.out)
    <2>1. \/ c.state = "wait_bgsave_start"
          \/ c.state = "wait_bgsave_end" /\ child[m] # <<>> /\ child[m][1].status = "failed"
          \/ c.bulk = <<>> /\ c.state = "online" /\ ~Live(m, c)
          \/ replayed = St(data[m], c.db)
      BY <1>2 DEF Reaches
    <2> HIDE DEF replayed
    <2>2. replayed = St(data[m], c.db) => replayed.data = data[m] /\ replayed.db = c.db
      BY DEF St
    <2>3. \/ c.state = "wait_bgsave_start"
          \/ c.state = "wait_bgsave_end" /\ child[m] # <<>> /\ child[m][1].status = "failed"
          \/ c.bulk = <<>> /\ c.state = "online" /\ ~Live(m, c)
          \/ replayed.data = data[m] /\ replayed.db = c.db
      BY <2>1, <2>2
    <2> QED  BY <2>3 DEF replayed
  <1> QED  BY <1>1, <1>3 DEF InSync

(* Sound and AllFed are inductive together.                                 *)
LEMMA AllStep ==
    ASSUME SavesUndisturbed, Sound, AllFed, [Next]_vars, [CopiesUnselected]_vars
    PROVE  Sound' /\ AllFed'
  <1>1. Sound'
    BY SoundStep
  <1>2. CASE UNCHANGED vars
    BY <1>1, <1>2 DEF vars, AllFed
  <1>3. CASE CopiesUnselected
    BY <1>1, <1>3, FedStep
  <1> QED  BY <1>2, <1>3

(* What a client has been promised makes the dataset of its master, if      *)
(* saves are undisturbed and every client that shares the differences       *)
(* another one registers copies them from one with database 0.              *)
THEOREM AlwaysInSync ==
    ASSUME SavesUndisturbed
    PROVE  Spec /\ [][CopiesUnselected]_vars => []InSync
  <1> DEFINE All == Sound /\ AllFed
  <1>1. Init => All
    BY SoundInit, FedInit
  <1>2. All /\ [Next]_vars /\ [CopiesUnselected]_vars => All'
    BY AllStep
  <1>3. All => InSync
    BY InSyncHolds
  <1> HIDE DEF All
  <1> QED  BY <1>1, <1>2, <1>3, PTL DEF Spec

(* In a deployment that uses one database there is no other to select.      *)
OneDatabase == \A h \in Shapes : h.dbs = {0}

(* So every client has database 0.                                          *)
LEMMA CopiesAreUnselected ==
    ASSUME OneDatabase, Sound
    PROVE  CopiesUnselected
  <1> SUFFICES ASSUME NEW m \in Servers, Waiting(slaves[m], "wait_bgsave_end") # {}
               PROVE  slaves[m][Min(Waiting(slaves[m], "wait_bgsave_end"))].db = 0
    BY DEF CopiesUnselected
  <1> DEFINE k == Min(Waiting(slaves[m], "wait_bgsave_end"))
  <1>1. slaves[m] \in Seq(Clients(shape.dbs))
    BY DEF Sound, Typed
  <1>2. k \in DOMAIN slaves[m]
    BY <1>1, WaitingAre
  <1> HIDE DEF k
  <1>3. slaves[m][k] \in Clients(shape.dbs)
    BY <1>1, <1>2
  <1>4. shape.dbs = {0}
    BY DEF OneDatabase, Sound, IInv, LinksTyped
  <1>5. slaves[m][k].db = 0
    BY <1>3, <1>4 DEF Clients
  <1> QED  BY <1>5 DEF k

(* So there InSync needs no more than undisturbed saves.                    *)
THEOREM OneDatabaseInSync ==
    ASSUME SavesUndisturbed, OneDatabase
    PROVE  Spec => []InSync
  <1> DEFINE All == Sound /\ AllFed
  <1>1. Init => All
    BY SoundInit, FedInit
  <1>2. All /\ [Next]_vars => All'
    <2> SUFFICES ASSUME All, [Next]_vars PROVE All'
      OBVIOUS
    <2> QED  BY SoundStep, FedStep, CopiesAreUnselected
  <1>3. All => InSync
    BY InSyncHolds
  <1> HIDE DEF All
  <1> QED  BY <1>1, <1>2, <1>3, PTL DEF Spec

(* A slave that has read all its master sent it has its dataset: a client   *)
(* with nothing left to read reaches what it has.                           *)
LEMMA DrainedHolds ==
    ASSUME Sound, AllFed
    PROVE  DrainedSlavesAgree
  <1> SUFFICES ASSUME NEW s \in Servers, replstate[s] = "connected", NEW i \in Mine(s),
                      slaves[masterhost[s]][i].out = <<>>
               PROVE  data[s] = data[masterhost[s]]
    BY DEF DrainedSlavesAgree
  <1> DEFINE m == masterhost[s]
             c == slaves[m][i]
  <1>1. m \in Servers /\ i \in DOMAIN slaves[m] /\ c.slave = s /\ c.try = try[s]
    BY MineIs DEF Sound, Linked
  <1>2. FedNow(m, c)
    BY <1>1, FedEach
  <1>3. c.out = <<>>
    OBVIOUS
  <1> HIDE DEF c
  <1>4. Reaches(data[s], masterdb[s], c, data[m])
    BY <1>1, <1>2 DEF FedNow, Delivered
  <1>5. St(data[s], masterdb[s]) = St(data[m], c.db)
    BY <1>3, <1>4, ReplayNothing DEF Reaches
  <1>6. St(data[s], masterdb[s]).data = data[s] /\ St(data[m], c.db).data = data[m]
    BY DEF St
  <1> QED  BY <1>5, <1>6

(* So what the comments of SYNC promise, and the code does not keep, is     *)
(* kept under the hypotheses of AlwaysInSync: nothing else breaks it.       *)
THEOREM AlwaysDrainedAgree ==
    ASSUME SavesUndisturbed
    PROVE  Spec /\ [][CopiesUnselected]_vars => []DrainedSlavesAgree
  <1> DEFINE All == Sound /\ AllFed
  <1>1. Init => All
    BY SoundInit, FedInit
  <1>2. All /\ [Next]_vars /\ [CopiesUnselected]_vars => All'
    BY AllStep
  <1>3. All => DrainedSlavesAgree
    BY DrainedHolds
  <1> HIDE DEF All
  <1> QED  BY <1>1, <1>2, <1>3, PTL DEF Spec
=============================================================================
