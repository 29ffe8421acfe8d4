---------------------------- MODULE Replication ----------------------------
(* Master/slave replication of redis-2.6 (replication.c, with the parts of  *)
(* rdb.c, networking.c and db.c it relies on): a slave connects, asks for a *)
(* SYNC, receives the dump of a background save and then the commands its   *)
(* master executed since the fork, and feeds them to its own slaves.        *)
(*                                                                          *)
(* A dataset is the sequence of the writes that made it, each with the      *)
(* database it went to, so that a write that is lost, applied twice or      *)
(* applied to another database makes a different dataset.  A link is named  *)
(* by its slave and a number; the two ends learn that it is gone at         *)
(* different times.                                                         *)
EXTENDS Naturals, Sequences, SequencesExt, FiniteSets, FiniteSetsExt

CONSTANTS
    Servers,
    None,      \* no master
    Shapes     \* the deployments considered, see ShapesAssumption

Roles == {"none", "connect", "connecting", "receive_pong", "transfer", "connected"}

(* What the environment may do: an I/O error or a time-out on a slave, an   *)
(* error on a master's link, a crash, a failing save child, a fork that     *)
(* fails when a SYNC or a finished save asks for one, a child killed from   *)
(* outside, and a child that renames its dump just before a slave loads its *)
(* own.                                                                     *)
Mishaps == {"timeout", "cut", "crash", "failed", "killed", "syncfork", "nextfork", "overtake"}

ASSUME ShapesAssumption ==
    \A h \in Shapes :
        /\ h.masterhost \in [Servers -> Servers \cup {None}]
        /\ h.dbs \subseteq Nat /\ 0 \in h.dbs
        /\ h.may \subseteq Servers \X (Servers \cup {None})
        /\ h.mishaps \subseteq Mishaps
        /\ h.left \in [{"writes", "flushes", "saves", "slaveofs", "mishaps"} -> Nat]

VARIABLES
    shape,
    left,        \* what remains of the budgets of shape
    masterhost,  \* server.masterhost
    replstate,   \* server.repl_state
    try,         \* the number of the last link to a master
    asked,       \* SYNC requests on their way
    masterdb,    \* the database selected by the stream of the master
    data,        \* the dataset
    dump,        \* dump.rdb
    child,       \* the saving children: at most one record per server
    slaves       \* server.slaves, in order

vars == <<shape, left, masterhost, replstate, try, asked, masterdb, data, dump, child, slaves>>

Commands == [op : {"select", "write", "flushall"}, n : Nat]
Datasets == Seq(Nat \X Nat)

TypeOK ==
    /\ shape \in Shapes
    /\ masterhost \in [Servers -> Servers \cup {None}]
    /\ replstate \in [Servers -> Roles]
    /\ try \in [Servers -> Nat]
    /\ asked \subseteq [slave : Servers, master : Servers, try : Nat]
    /\ masterdb \in [Servers -> shape.dbs]
    /\ \A s \in Servers :
          /\ data[s] \in Datasets /\ dump[s] \in Datasets
          /\ (masterhost[s] = None) = (replstate[s] = "none")
          /\ Len(child[s]) <= 1
          /\ \A k \in ToSet(child[s]) :
                k.status \in {"running", "saved", "failed", "killed"} /\ k.snapshot \in Datasets
          /\ \A c \in ToSet(slaves[s]) :
                /\ c.state \in {"wait_bgsave_start", "wait_bgsave_end", "send_bulk", "online"}
                /\ c.out \in Seq(Commands)
                /\ c.state \in {"wait_bgsave_start", "wait_bgsave_end"} => c.bulk = <<>>

Init ==
    /\ shape \in Shapes
    /\ left = shape.left
    /\ masterhost = shape.masterhost
    /\ replstate = [s \in Servers |-> IF masterhost[s] = None THEN "none" ELSE "connect"]
    /\ try = [s \in Servers |-> 0]
    /\ asked = {}
    /\ masterdb = [s \in Servers |-> 0]
    /\ data = [s \in Servers |-> <<>>]
    /\ dump = [s \in Servers |-> <<>>]
    /\ child = [s \in Servers |-> <<>>]
    /\ slaves = [s \in Servers |-> <<>>]

Spend(budget) ==
    /\ left[budget] > 0
    /\ left' = [left EXCEPT ![budget] = @ - 1]

Mishap(m) == m \in shape.mishaps /\ Spend("mishaps")

Linked(s) == replstate[s] \in {"transfer", "connected"}

(* The slave's end of the link of a client of m is still open.              *)
Live(m, c) == masterhost[c.slave] = m /\ try[c.slave] = c.try /\ Linked(c.slave)

(* The first number that no request and no client still uses for a link of  *)
(* s.                                                                       *)
UsedTries(s) ==
    {r.try : r \in {q \in asked : q.slave = s}} \cup
    UNION {{c.try : c \in {d \in ToSet(slaves[m]) : d.slave = s}} : m \in Servers}
FreshTry(s) == CHOOSE n \in 1 .. Cardinality(UsedTries(s)) + 1 : n \notin UsedTries(s)

Child(snapshot) == <<[status |-> "running", snapshot |-> snapshot]>>

----------------------------------------------------------------------------
(* The stream of commands                                                   *)

Command(op, n) == [op |-> op, n |-> n]

(* A mutant: only the clients in sync are fed.                              *)
FedOnline(c, db, cmd) ==
    IF c.state \notin {"online", "send_bulk"} THEN c
    ELSE [c EXCEPT !.db = db,
                   !.out = @ \o (IF c.db # db THEN <<Command("select", db)>> ELSE <<>>)
                             \o <<cmd>>]

(* A client that is registering differences, or is in sync, gets a SELECT   *)
(* when the database changes and then the command.                          *)
Fed(c, db, cmd) ==
    IF c.state = "wait_bgsave_start" THEN c
    ELSE [c EXCEPT !.db = db,
                   !.out = @ \o (IF c.db # db THEN <<Command("select", db)>> ELSE <<>>)
                             \o <<cmd>>]

replicationFeedSlaves(list, db, cmd) == [i \in DOMAIN list |-> Fed(list[i], db, cmd)]

(* FLUSHALL kills the child, if it has not ended, and saves the empty       *)
(* dataset.                                                                 *)
flushall(s) ==
    /\ data' = [data EXCEPT ![s] = <<>>]
    /\ dump' = [dump EXCEPT ![s] = <<>>]
    /\ child' = [child EXCEPT ![s] = [i \in DOMAIN @ |->
                    IF @[i].status = "running" THEN [@[i] EXCEPT !.status = "killed"] ELSE @[i]]]

(* Executing cmd with database db selected: the dataset changes and the     *)
(* server's own slaves are fed.                                             *)
Execute(s, db, cmd) ==
    /\ \/ /\ cmd.op = "write"
          /\ data' = [data EXCEPT ![s] = Append(@, <<db, cmd.n>>)]
          /\ UNCHANGED <<dump, child>>
       \/ cmd.op = "flushall" /\ flushall(s)
    /\ slaves' = [slaves EXCEPT ![s] = replicationFeedSlaves(@, db, cmd)]

(* A client of a master writes, or empties every database.                  *)
Write(s) ==
    /\ masterhost[s] = None
    /\ Spend("writes")
    /\ \E db \in shape.dbs : Execute(s, db, Command("write", left.writes))
    /\ UNCHANGED <<shape, masterhost, replstate, try, asked, masterdb>>

Flush(s) ==
    /\ masterhost[s] = None
    /\ Spend("flushes")
    /\ \E db \in shape.dbs : Execute(s, db, Command("flushall", 0))
    /\ UNCHANGED <<shape, masterhost, replstate, try, asked, masterdb>>

----------------------------------------------------------------------------
(* The master's side                                                        *)

Waiting(list, state) == {i \in DOMAIN list : list[i].state = state}

(* A SYNC request arrives: it is refused while the server has no dataset to *)
(* offer or cannot fork; it shares the differences another client of the    *)
(* running save registers, waits for the next save, or starts one.          *)
syncCommand(m) ==
    \E r \in asked :
        LET client(state, out) ==
                [slave |-> r.slave, try |-> r.try, state |-> state, db |-> 0,
                 out |-> out, bulk |-> <<>>]
            sharing == Waiting(slaves[m], "wait_bgsave_end")
            attach(c) == slaves' = [slaves EXCEPT ![m] = Append(@, c)]
        IN  /\ r.master = m
            /\ asked' = asked \ {r}
            /\ \/ /\ masterhost[m] # None /\ replstate[m] # "connected"
                  /\ UNCHANGED <<left, slaves, child>>
               \/ /\ masterhost[m] = None \/ replstate[m] = "connected"
                  /\ \/ /\ child[m] # <<>> /\ sharing # {}
                        /\ attach(client("wait_bgsave_end", slaves[m][Min(sharing)].out))
                        /\ UNCHANGED <<left, child>>
                     \/ /\ child[m] # <<>> /\ sharing = {}
                        /\ attach(client("wait_bgsave_start", <<>>))
                        /\ UNCHANGED <<left, child>>
                     \/ /\ child[m] = <<>>
                        /\ child' = [child EXCEPT ![m] = Child(data[m])]
                        /\ attach(client("wait_bgsave_end", <<>>))
                        /\ UNCHANGED left
                     \/ /\ child[m] = <<>> /\ Mishap("syncfork")
                        /\ UNCHANGED <<slaves, child>>
            /\ UNCHANGED <<shape, masterhost, replstate, try, masterdb, data, dump>>

(* A client asks for a BGSAVE, or a save point is reached.                  *)
rdbSaveBackground(m) ==
    /\ child[m] = <<>>
    /\ Spend("saves")
    /\ child' = [child EXCEPT ![m] = Child(data[m])]
    /\ UNCHANGED <<shape, masterhost, replstate, try, asked, masterdb, data, dump, slaves>>

(* The child ends: it has renamed its dump to dump.rdb, failed, or was      *)
(* killed by a signal.                                                      *)
ChildEnds(m) ==
    /\ child[m] # <<>> /\ child[m][1].status = "running"
    /\ \E outcome \in {"saved", "failed", "killed"} :
          /\ IF outcome = "saved" THEN UNCHANGED left ELSE Mishap(outcome)
          /\ child' = [child EXCEPT ![m][1].status = outcome]
          /\ dump' = [dump EXCEPT ![m] = IF outcome = "saved" THEN child[m][1].snapshot ELSE @]
    /\ UNCHANGED <<shape, masterhost, replstate, try, asked, masterdb, data, slaves>>

(* The clients that remain after a save that failed, in order.              *)
Spared(list) ==
    LET upto[n \in 0 .. Len(list)] ==
            IF n = 0 THEN <<>>
            ELSE IF list[n].state = "wait_bgsave_end" THEN upto[n - 1]
            ELSE Append(upto[n - 1], list[n])
    IN  upto[Len(list)]

(* A mutant: the clients that wait for the next save are left as they are.  *)
StartersForgotten(list, ok, file) ==
    LET kept == IF ok THEN list ELSE Spared(list)
    IN  [i \in DOMAIN kept |->
            IF kept[i].state = "wait_bgsave_end"
            THEN [kept[i] EXCEPT !.state = "send_bulk", !.bulk = <<file>>] ELSE kept[i]]

(* What the end of a save does to the clients: those that waited for it are *)
(* sent dump.rdb, or freed if it failed; those that waited for the next one *)
(* register differences from now on.  Without clients nothing is done.      *)
updateSlavesWaitingBgsave(list, ok, file) ==
    LET kept == IF ok THEN list ELSE Spared(list)
    IN  IF list = <<>> THEN <<>>
        ELSE [i \in DOMAIN kept |->
            CASE kept[i].state = "wait_bgsave_end" ->
                    [kept[i] EXCEPT !.state = "send_bulk", !.bulk = <<file>>]
              [] kept[i].state = "wait_bgsave_start" ->
                    [kept[i] EXCEPT !.state = "wait_bgsave_end"]
              [] OTHER -> kept[i]]

(* serverCron() reaps the child.  A child killed by a signal has the exit   *)
(* code 0, for which the clients are told the save went well.               *)
backgroundSaveDoneHandler(m) ==
    /\ child[m] # <<>> /\ child[m][1].status # "running"
    /\ slaves' = [slaves EXCEPT ![m] =
            updateSlavesWaitingBgsave(@, child[m][1].status # "failed", dump[m])]
    /\ LET startbgsave == Waiting(slaves[m], "wait_bgsave_start") # {}
       IN  \E forked \in {startbgsave, FALSE} :
              /\ child' = [child EXCEPT ![m] = IF forked THEN Child(data[m]) ELSE <<>>]
              /\ IF forked = startbgsave THEN UNCHANGED left ELSE Mishap("nextfork")
    /\ UNCHANGED <<shape, masterhost, replstate, try, asked, masterdb, data, dump>>

(* The last byte of the dump is written to the socket.                      *)
sendBulkToSlave(m) ==
    /\ \E i \in DOMAIN slaves[m] :
          /\ slaves[m][i].state = "send_bulk"
          /\ slaves' = [slaves EXCEPT ![m][i].state = "online"]
    /\ UNCHANGED <<shape, left, masterhost, replstate, try, asked, masterdb, data, dump, child>>

(* The master frees a client: it reads the end of a link the slave closed,  *)
(* or meets an error of its own.                                            *)
freeSlave(m) ==
    /\ \E i \in DOMAIN slaves[m] :
          /\ IF Live(m, slaves[m][i]) THEN Mishap("cut") ELSE UNCHANGED left
          /\ slaves' = [slaves EXCEPT ![m] = RemoveAt(@, i)]
    /\ UNCHANGED <<shape, masterhost, replstate, try, asked, masterdb, data, dump, child>>

----------------------------------------------------------------------------
(* The slave's side                                                         *)

(* A mutant: the server's own slaves stay attached.                         *)
UnlinkOnly(s) ==
    /\ replstate' = [replstate EXCEPT ![s] = "connect"]
    /\ UNCHANGED slaves

(* The link is given up, from whatever state it is in.  A server that loses *)
(* its master makes its own slaves synchronise again.                       *)
Unlink(s) ==
    /\ replstate' = [replstate EXCEPT ![s] = "connect"]
    /\ slaves' = [slaves EXCEPT ![s] = IF replstate[s] = "connected" THEN <<>> ELSE @]

connectWithMaster(s) ==
    /\ replstate[s] = "connect"
    /\ replstate' = [replstate EXCEPT ![s] = "connecting"]
    /\ try' = [try EXCEPT ![s] = FreshTry(s)]
    /\ UNCHANGED <<shape, left, masterhost, asked, masterdb, data, dump, child, slaves>>

(* The connection is established: PING.  The answer arrives: SYNC.          *)
syncWithMaster(s) ==
    /\ \/ /\ replstate[s] = "connecting"
          /\ replstate' = [replstate EXCEPT ![s] = "receive_pong"]
          /\ UNCHANGED asked
       \/ /\ replstate[s] = "receive_pong"
          /\ replstate' = [replstate EXCEPT ![s] = "transfer"]
          /\ asked' = asked \cup {[slave |-> s, master |-> masterhost[s], try |-> try[s]]}
    /\ UNCHANGED <<shape, left, masterhost, try, masterdb, data, dump, child, slaves>>

(* The client s is for its master.                                          *)
Mine(s) == {i \in DOMAIN slaves[masterhost[s]] :
                LET conn == slaves[masterhost[s]][i] IN conn.slave = s /\ conn.try = try[s]}

(* The whole dump has arrived: it is renamed to dump.rdb and loaded.  A     *)
(* child of the slave that ends in between puts its own dump there first.   *)
readSyncBulkPayload(s) ==
    /\ replstate[s] = "transfer"
    /\ \E i \in Mine(s) :
          LET m == masterhost[s]
              conn == slaves[m][i]
          IN  /\ conn.state = "online" /\ conn.bulk # <<>>
              /\ slaves' = [slaves EXCEPT ![m][i].bulk = <<>>]
              /\ \E overtaken \in BOOLEAN :
                    /\ overtaken => child[s] # <<>> /\ child[s][1].status = "running"
                    /\ IF overtaken THEN Mishap("overtake") ELSE UNCHANGED left
                    /\ data' = [data EXCEPT ![s] =
                                    IF overtaken THEN child[s][1].snapshot ELSE conn.bulk[1]]
                    /\ child' = [child EXCEPT ![s] = [j \in DOMAIN @ |->
                                    IF overtaken THEN [@[j] EXCEPT !.status = "saved"] ELSE @[j]]]
              /\ dump' = [dump EXCEPT ![s] = data'[s]]
    /\ replstate' = [replstate EXCEPT ![s] = "connected"]
    /\ masterdb' = [masterdb EXCEPT ![s] = 0]
    /\ UNCHANGED <<shape, masterhost, try, asked>>

(* One command of the master's stream is executed.                          *)
ReadCommand(s) ==
    /\ replstate[s] = "connected"
    /\ \E i \in Mine(s) :
          LET m == masterhost[s]
              conn == slaves[m][i]
              cmd == Head(conn.out)
              read == [slaves EXCEPT ![m][i].out = Tail(@)]
          IN  /\ conn.state = "online" /\ conn.out # <<>>
              /\ \/ /\ cmd.op = "select"
                    /\ masterdb' = [masterdb EXCEPT ![s] = cmd.n]
                    /\ slaves' = read
                    /\ UNCHANGED <<data, dump, child>>
                 \/ /\ cmd.op = "write"
                    /\ data' = [data EXCEPT ![s] = Append(@, <<masterdb[s], cmd.n>>)]
                    /\ slaves' = [read EXCEPT ![s] = replicationFeedSlaves(@, masterdb[s], cmd)]
                    /\ UNCHANGED <<masterdb, dump, child>>
                 \/ /\ cmd.op = "flushall"
                    /\ flushall(s)
                    /\ slaves' = [read EXCEPT ![s] = replicationFeedSlaves(@, masterdb[s], cmd)]
                    /\ UNCHANGED masterdb
    /\ UNCHANGED <<shape, left, masterhost, replstate, try, asked>>

(* The master closed the link, or answered the SYNC with an error.          *)
LinkClosed(s) ==
    /\ Linked(s)
    /\ Mine(s) = {}
    /\ ~\E r \in asked : r.slave = s /\ r.master = masterhost[s] /\ r.try = try[s]
    /\ Unlink(s)
    /\ UNCHANGED <<shape, left, masterhost, try, asked, masterdb, data, dump, child>>

(* An error or a time-out of replicationCron() in any state of the link.    *)
LinkFails(s) ==
    /\ replstate[s] \in {"connecting", "receive_pong", "transfer", "connected"}
    /\ Mishap("timeout")
    /\ Unlink(s)
    /\ UNCHANGED <<shape, masterhost, try, asked, masterdb, data, dump, child>>

----------------------------------------------------------------------------
(* The operator and crashes                                                 *)

(* SLAVEOF NO ONE keeps the server's slaves; SLAVEOF another frees them.    *)
slaveofCommand(s) ==
    /\ Spend("slaveofs")
    /\ \E m \in {pair[2] : pair \in {p \in shape.may : p[1] = s}} \ {masterhost[s]} :
          /\ masterhost' = [masterhost EXCEPT ![s] = m]
          /\ replstate' = [replstate EXCEPT ![s] = IF m = None THEN "none" ELSE "connect"]
          /\ slaves' = [slaves EXCEPT ![s] = IF m = None THEN @ ELSE <<>>]
    /\ UNCHANGED <<shape, try, asked, masterdb, data, dump, child>>

(* The process dies and is started again with its configuration file; what  *)
(* the others find in between, a link that is closed and no answer, they    *)
(* may find after it too (LinkClosed, LinkFails).  A child that was saving  *)
(* renames its dump before the start, or never: Persistence has the others. *)
CrashAndRestart(s) ==
    /\ Mishap("crash")
    /\ \E file \in {dump[s]} \cup {k.snapshot : k \in {j \in ToSet(child[s]) : j.status = "running"}} :
          /\ dump' = [dump EXCEPT ![s] = file]
          /\ data' = [data EXCEPT ![s] = file]
    /\ child' = [child EXCEPT ![s] = <<>>]
    /\ slaves' = [slaves EXCEPT ![s] = <<>>]
    /\ masterhost' = [masterhost EXCEPT ![s] = shape.masterhost[s]]
    /\ replstate' = [replstate EXCEPT ![s] =
                        IF shape.masterhost[s] = None THEN "none" ELSE "connect"]
    /\ asked' = {r \in asked : r.master # s}
    /\ UNCHANGED <<shape, try, masterdb>>

Next ==
    \E s \in Servers :
        \/ Write(s) \/ Flush(s)
        \/ syncCommand(s) \/ rdbSaveBackground(s) \/ ChildEnds(s)
        \/ backgroundSaveDoneHandler(s) \/ sendBulkToSlave(s) \/ freeSlave(s)
        \/ connectWithMaster(s) \/ syncWithMaster(s) \/ readSyncBulkPayload(s)
        \/ ReadCommand(s) \/ LinkClosed(s) \/ LinkFails(s)
        \/ slaveofCommand(s) \/ CrashAndRestart(s)

(* The steps of a server's link, of which one at most is enabled.           *)
LinkStep(s) ==
    connectWithMaster(s) \/ syncWithMaster(s) \/ readSyncBulkPayload(s)
        \/ ReadCommand(s) \/ LinkClosed(s)

(* The event loop of every server handles what is ready, its cron runs, and *)
(* its children end.                                                        *)
Fairness ==
    \A s \in Servers :
        /\ WF_vars(LinkStep(s))
        /\ WF_vars(ChildEnds(s) \/ backgroundSaveDoneHandler(s))
        /\ WF_vars(syncCommand(s)) /\ WF_vars(sendBulkToSlave(s)) /\ WF_vars(freeSlave(s))

Spec == Init /\ [][Next]_vars /\ Fairness

----------------------------------------------------------------------------
(* Properties                                                               *)

Step(st, cmd) ==
    CASE cmd.op = "select" -> [st EXCEPT !.db = cmd.n]
      [] cmd.op = "write" -> [st EXCEPT !.data = Append(@, <<st.db, cmd.n>>)]
      [] cmd.op = "flushall" -> [st EXCEPT !.data = <<>>]

Replay(from, db, cmds) ==
    LET st[n \in 0 .. Len(cmds)] ==
            IF n = 0 THEN [data |-> from, db |-> db] ELSE Step(st[n - 1], cmds[n])
    IN  st[Len(cmds)]

(* Where the stream of a client starts: at the dataset the save it waits    *)
(* for will leave in dump.rdb, at the dump being sent to it, or at what the *)
(* slave has executed so far.                                               *)
Start(m, c) ==
    CASE c.state = "wait_bgsave_end" ->
            IF child[m] # <<>> /\ child[m][1].status = "running"
            THEN child[m][1].snapshot ELSE dump[m]
      [] c.bulk # <<>> -> c.bulk[1]
      [] OTHER -> data[c.slave]

(* What a client of a master has been promised, replayed on what it starts  *)
(* from, gives the master's dataset, whatever saves, errors, reconnections  *)
(* and promotions came before: no write is lost, repeated or applied to     *)
(* another database, and the SELECT the master believes in is the one the   *)
(* slave has.  (replication.c:42-74, 117-183, 285-334; networking.c:512)    *)
(* (And the servers are well typed, TypeOK.)                                *)
InSync ==
    TypeOK /\ \A m \in Servers : \A c \in ToSet(slaves[m]) :
        LET replayed == Replay(Start(m, c),
                               IF c.state = "online" /\ c.bulk = <<>> THEN masterdb[c.slave] ELSE 0,
                               c.out)
        IN  \/ c.state = "wait_bgsave_start"
            \/ c.state = "wait_bgsave_end" /\ child[m] # <<>> /\ child[m][1].status = "failed"
            \/ c.bulk = <<>> /\ c.state = "online" /\ ~Live(m, c)
            \/ replayed.data = data[m] /\ replayed.db = c.db

(* A slave that has read all its master sent it has its master's dataset.   *)
(* The comments of SYNC and of the end of a save promise it: a second slave *)
(* of one save can copy the first one's buffer ("Perfect, the server is     *)
(* already registering differences for another slave"), and the slaves are  *)
(* told of success only "if the background saving succeeded".               *)
(* (replication.c:147-150, 279-284)  (Refuted.)                             *)
DrainedSlavesAgree ==
    \A s \in Servers : replstate[s] = "connected" =>
        \A i \in Mine(s) : slaves[masterhost[s]][i].out = <<>> => data[s] = data[masterhost[s]]

(* A server whose own dataset is about to be replaced feeds nobody: no      *)
(* slave of it would learn of the replacement.  (networking.c:653-661,      *)
(* replication.c:122-127, 755)                                              *)
NobodyFedWhileResyncing ==
    \A s \in Servers : masterhost[s] # None /\ replstate[s] # "connected" => slaves[s] = <<>>

(* When the clients stop writing and the mishaps stop, every slave ends up  *)
(* connected and with the dataset of its master, down every chain.          *)
(* (replication.c:769-835)                                                  *)
CatchesUp ==
    <>[](\A s \in Servers : masterhost[s] # None =>
            replstate[s] = "connected" /\ data[s] = data[masterhost[s]])
=============================================================================
