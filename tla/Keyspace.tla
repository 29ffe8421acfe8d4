------------------------------ MODULE Keyspace ------------------------------
(***************************************************************************)
(* The server as its clients and its slave see it: commands one at a time  *)
(* (processCommand, redis.c), transactions and watched keys (multi.c),     *)
(* clients blocked on lists (t_list.c), keys that expire (db.c, redis.c)   *)
(* or are evicted (redis.c), and the stream of commands by which a slave   *)
(* follows.  The commands themselves are those of module Commands.         *)
(***************************************************************************)
EXTENDS Commands

CONSTANTS
    Users,          \* the clients
    CallsOf,        \* the calls each of them may make
    Datasets,       \* the datasets the server may have loaded at start
    Policy,         \* maxmemory-policy: "noeviction", "allkeys" or "volatile"
    MaxKeys,        \* maxmemory, in keys
    MaxTime,        \* bound on the clock
    Budgets,        \* bounds: how many calls each client may make
    MaxStream,      \* bound on the commands the slave has not yet received
    MaxQueue        \* bound on the commands of a transaction

ASSUME KeyspaceAssumption ==
    /\ Policy \in {"noeviction", "allkeys", "volatile"}
    /\ \A n \in {MaxKeys, MaxTime, MaxStream, MaxQueue} : n \in Nat
    /\ Budgets \subseteq [Users -> Nat]

VARIABLES
    db, exp,        \* the values and the expires
    now,            \* the clock
    users,          \* the clients: transaction, watched keys, blocked
    waiting,        \* the clients blocked on each key, oldest first
    stream,         \* commands on their way to the slave
    slave,          \* the slave's dataset and the transaction it receives
    left,           \* the calls each client may still make
    failed          \* the last call was answered with an error

vars == <<db, exp, now, users, waiting, stream, slave, left, failed>>

NewUser == [multi |-> FALSE, queue |-> <<>>, cas |-> FALSE, bad |-> FALSE,
            watched |-> {}, block |-> NoBlock]

Init ==
    /\ \E d \in Datasets : db = d.db /\ exp = d.exp /\ slave = [db |-> d.db, exp |-> d.exp,
                                                         backwards |-> d.backwards,
                                                         multi |-> FALSE, queue |-> <<>>]
    /\ now = 0
    /\ users = [u \in Users |-> NewUser]
    /\ waiting = <<>>
    /\ stream = <<>>
    /\ left \in Budgets
    /\ failed = FALSE

Server == [Fresh(db, exp, now) EXCEPT !.waited = WaitedKeys(waiting)]

(***************************************************************************)
(* Memory.  freeMemoryIfNeeded evicts a key of every database in turn      *)
(* until the memory is within its limit; a key stands for a unit of it.    *)
(***************************************************************************)
Candidates(S) ==
    CASE Policy = "allkeys"  -> DOMAIN S.db
      [] Policy = "volatile" -> DOMAIN S.exp
      [] OTHER               -> {}
Rounds(S) ==
    LET K == Candidates(S)
    IN  { V \in SUBSET K : \A k \in K : Cardinality({ v \in V : v[1] = k[1] }) = 1 }
Evict(S, k) == dbDelete(propagateExpire(S, k), k)

RECURSIVE freeMemoryIfNeeded(_)
freeMemoryIfNeeded(S) ==
    IF Cardinality(DOMAIN S.db) <= MaxKeys \/ Candidates(S) = {} THEN {S}
    ELSE UNION { freeMemoryIfNeeded(FoldSet(LAMBDA k, T : Evict(T, k), S, V)) : V \in Rounds(S) }

(***************************************************************************)
(* The clients of a state: touchWatchedKey marks those that watch a key    *)
(* that was signalled.                                                     *)
(***************************************************************************)
touchWatchedKeys(us, touched) ==
    [u \in Users |-> IF us[u].watched \cap touched = {} THEN us[u]
                     ELSE [us[u] EXCEPT !.cas = TRUE]]

discardTransaction(user) ==
    [user EXCEPT !.multi = FALSE, !.queue = <<>>, !.cas = FALSE, !.bad = FALSE,
                 !.watched = {}]

(* A command has run: serve the blocked clients, then take over the new
   state and what was propagated. *)
Finish(S, us, wait) ==
    LET B == [S |-> S, waiting |-> wait, block |-> [u \in Users |-> us[u].block]]
        E == handleClientsBlockedOnLists(B)
    IN  /\ db' = E.S.db
        /\ exp' = E.S.exp
        /\ waiting' = Restrict(E.waiting, WaitedKeys(E.waiting))
        /\ users' = touchWatchedKeys([u \in Users |-> [us[u] EXCEPT !.block = E.block[u]]],
                                     E.S.touched)
        /\ stream' = stream \o E.S.out
        /\ failed' = E.S.err

(* An answer that changes the client, and no more than the server's state S
   (what was evicted before the command). *)
Answer(S, u, user, error) ==
    Finish([S EXCEPT !.err = error], [users EXCEPT ![u] = user], waiting)

flagTransaction(user) == IF user.multi THEN [user EXCEPT !.bad = TRUE] ELSE user

(* MULTI, DISCARD, WATCH, UNWATCH and EXEC. *)
multiCommand(S, u, c) ==
    /\ c.op = "multi"
    /\ Answer(S, u, [users[u] EXCEPT !.multi = TRUE], users[u].multi)

discardCommand(S, u, c) ==
    /\ c.op = "discard"
    /\ Answer(S, u, IF users[u].multi THEN discardTransaction(users[u]) ELSE users[u],
              ~users[u].multi)

watchCommand(S, u, c) ==
    /\ c.op = "watch"
    /\ Answer(S, u, IF users[u].multi THEN users[u]
                    ELSE [users[u] EXCEPT !.watched = @ \cup ToSet(c.keys)],
              users[u].multi)

unwatchCommand(S, u, c) ==
    /\ c.op = "unwatch" /\ ~users[u].multi
    /\ Answer(S, u, [users[u] EXCEPT !.watched = {}, !.cas = FALSE], FALSE)

execCommand(S, u, c) ==
    /\ c.op = "exec"
    /\ LET done == [users EXCEPT ![u] = discardTransaction(@)]
       IN  IF ~users[u].multi THEN Answer(S, u, users[u], TRUE)
           ELSE IF users[u].cas \/ users[u].bad THEN Answer(S, u, done[u], FALSE)
           ELSE Finish(Exec(S, users[u].queue), done, waiting)

queueMultiCommand(S, u, c) ==
    /\ users[u].multi /\ c.op \notin {"exec", "discard", "multi", "watch"}
    /\ Len(users[u].queue) < MaxQueue
    /\ Answer(S, u, [users[u] EXCEPT !.queue = Append(@, c)], FALSE)

(* Any other command: run it; the client may block. *)
FinishBlocked(S, u, wait) ==
    Finish([S EXCEPT !.waited = WaitedKeys(wait)], [users EXCEPT ![u].block = S.block], wait)
FinishCall(S, u) ==
    IF S.block = NoBlock THEN Finish(S, users, waiting)
    ELSE FinishBlocked(S, u, blockForKeys([waiting |-> waiting,
                                           block |-> [x \in Users |-> users[x].block]],
                                          u, S.block).waiting)
runCommand(S, u, c) ==
    /\ ~users[u].multi
    /\ c.op \notin {"exec", "discard", "multi", "watch", "unwatch"}
    /\ FinishCall(RunCall(S, c), u)

(* processCommand.  A command of the table that the memory does not allow,
   and one that is not in the table, spoil the transaction. *)
processCommand(u, c) ==
    /\ users[u].block = NoBlock
    /\ left[u] > 0 /\ Len(stream) < MaxStream
    /\ left' = [left EXCEPT ![u] = @ - 1]
    /\ UNCHANGED <<now, slave>>
    /\ IF c.op = "unknown" THEN Answer(Server, u, flagTransaction(users[u]), TRUE)
       ELSE \E S \in freeMemoryIfNeeded(Server) :
              IF DenyOom(c) /\ Cardinality(DOMAIN S.db) > MaxKeys
              THEN Answer(S, u, flagTransaction(users[u]), TRUE)
              ELSE \/ multiCommand(S, u, c)
                   \/ discardCommand(S, u, c)
                   \/ watchCommand(S, u, c)
                   \/ unwatchCommand(S, u, c)
                   \/ execCommand(S, u, c)
                   \/ queueMultiCommand(S, u, c)
                   \/ runCommand(S, u, c)

(***************************************************************************)
(* What happens between commands.                                          *)
(***************************************************************************)
Tick ==
    /\ now < MaxTime
    /\ now' = now + 1
    /\ UNCHANGED <<db, exp, users, waiting, stream, slave, left, failed>>

(* activeExpireCycle finds a key that has expired. *)
activeExpire(k) ==
    /\ Expired(Server, k)
    /\ LET S == Evict(Server, k)
       IN  db' = S.db /\ exp' = S.exp /\ stream' = stream \o S.out
    /\ UNCHANGED <<now, users, waiting, slave, left, failed>>

Leave(u, user) ==
    LET B == unblockClientWaitingData(
                 [S |-> Server, waiting |-> waiting, block |-> [x \in Users |-> users[x].block]], u)
    IN  /\ users' = [users EXCEPT ![u] = [user EXCEPT !.block = NoBlock]]
        /\ waiting' = Restrict(B.waiting, WaitedKeys(B.waiting))
        /\ UNCHANGED <<db, exp, now, stream, slave, left, failed>>

(* clientsCronHandleTimeout: the time of a blocked client is over. *)
Timeout(u) == users[u].block # NoBlock /\ Leave(u, users[u])

(* freeClient, and the client connects again. *)
Disconnect(u) == users[u] # NewUser /\ Leave(u, NewUser)

(***************************************************************************)
(* The slave.  Its connection to the master is a client like another: a    *)
(* transaction is queued until its EXEC.                                   *)
(***************************************************************************)
OfSlave(r, t) == [Fresh(r.db, r.exp, t) EXCEPT !.slave = TRUE, !.backwards = r.backwards]
Kept(r, S) == [r EXCEPT !.db = S.db, !.exp = S.exp]

Apply(r, c, t) ==
    CASE c.op = "multi" -> [r EXCEPT !.multi = TRUE]
      [] c.op = "exec"  -> [Kept(r, Exec(OfSlave(r, t), r.queue)) EXCEPT !.multi = FALSE, !.queue = <<>>]
      [] r.multi        -> [r EXCEPT !.queue = Append(@, c)]
      [] OTHER          -> Kept(r, RunCall(OfSlave(r, t), c))

Replicate ==
    /\ stream # <<>>
    /\ slave' = Apply(slave, Head(stream), now)
    /\ stream' = Tail(stream)
    /\ UNCHANGED <<db, exp, now, users, waiting, left, failed>>

Next ==
    \/ \E u \in Users : \E c \in CallsOf[u] : processCommand(u, c)
    \/ Tick
    \/ \E k \in DOMAIN exp : activeExpire(k)
    \/ \E u \in Users : Timeout(u) \/ Disconnect(u)
    \/ Replicate

Spec == Init /\ [][Next]_vars

-----------------------------------------------------------------------------
(***************************************************************************)
(* Properties.                                                             *)
(***************************************************************************)
Keys == DOMAIN db \cup UNION { users[u].watched : u \in Users }

(* An aggregate whose last element went is deleted: no command, and no
   client served from a list, leaves an empty list, set, hash or sorted set
   in the keyspace (the brpoplpush command asserts it of the lists). *)
NoEmptyAggregates == \A k \in DOMAIN db : ~IsEmptyAggregate(db[k])

(* Type correctness: only keys that exist have an expire, the clients that
   wait for a key are those whose BLPOP or BRPOPLPUSH names it, once each,
   only a client in a transaction has queued commands, and the values are
   not empty. *)
TypeOK ==
    /\ NoEmptyAggregates
    /\ DOMAIN exp \subseteq DOMAIN db
    /\ now \in 0..MaxTime /\ left \in [Users -> Nat] /\ failed \in BOOLEAN
    /\ \A u \in Users :
          /\ users[u].queue # <<>> => users[u].multi
          /\ users[u].bad => users[u].multi
          /\ \A k \in DOMAIN waiting :
                (k \in ToSet(users[u].block.keys)) = (u \in ToSet(waiting[k]))
    /\ \A k \in DOMAIN waiting : waiting[k] # <<>> /\ IsInjective(waiting[k])

(* What this step propagated. *)
News ==
    IF Len(stream') >= Len(stream) THEN SubSeq(stream', Len(stream) + 1, Len(stream')) ELSE <<>>
Does(ops) == \E i \in DOMAIN News : News[i].op \in ops

(* The slave, once it has received what is on its way, holds the values of
   the master, is not left inside a transaction, and its connection to the
   master never blocks: no step parts the two, whatever expired, was chosen
   at random, was served to a blocked client or ran in a transaction, but a
   SORT BY .. ALPHA, whose result may depend on the order of a hash table.
   (SlaveAlwaysAgrees is refuted by that one; STORE forces an order where
   there is none "so that replication / AOF is deterministic".) *)
CaughtUp(r, cmds, t) == FoldLeft(LAMBDA x, c : Apply(x, c, t), r, cmds)
Agree(d, r, cmds, t) == LET R == CaughtUp(r, cmds, t) IN R.db = d /\ ~R.multi
SortsByText ==
    \E i \in DOMAIN News : LET c == News[i] IN c.op = "sort" /\ ByWeight(c) /\ Alpha(c)
SlaveAgrees ==
    [][ Agree(db, slave, stream, now) /\ ~SortsByText
        => Agree(db', slave', stream', now') ]_vars
SlaveAlwaysAgrees == Agree(db, slave, stream, now)

(* The slave also has the expires of the keys, if not at the same times:
   the comment on INCRBYFLOAT has it propagated as a SET so that it "will
   not create differences in replicas or after an AOF restart".  (Refuted.) *)
SlaveKeepsExpires == DOMAIN CaughtUp(slave, stream, now).exp = DOMAIN exp

ValueAt(d, k) == IF k \in DOMAIN d THEN {d[k]} ELSE {}

(* A key that time or the memory limit may have removed in this step. *)
Lost(k) ==
    /\ k \notin DOMAIN db'
    /\ Expired(Server, k) \/ Cardinality(DOMAIN db) > MaxKeys

(* A client that watches a key is marked when its value changes, by whatever
   command, by a transaction, by a client served from a list, or by a flush,
   so that its EXEC fails; only keys that expire or are evicted go unnoticed.
   (WatchersNotice is refuted by MOVE, which signals nothing.) *)
Noticed(k) ==
    ValueAt(db, k) # ValueAt(db', k) /\ ~Lost(k)
    => \A u \in Users :
         k \in users[u].watched /\ k \in users'[u].watched => users'[u].cas
WatchersNotice == [][\A k \in Keys : Noticed(k)]_vars

(* The same of every command but MOVE. *)
WatchersNoticeButMove == [][~Does({"move"}) => \A k \in Keys : Noticed(k)]_vars

(* No client is left waiting for a key to which this step's commands pushed
   elements: a new list serves the clients that wait for it, first come
   first served, until it is empty.  A list that RENAME, MOVE or SORT brings
   serves nobody. *)
NobodyLeftWaiting ==
    [][ ~Does({"rename", "move", "sort"})
        => \A k \in DOMAIN waiting' :
             Is([db |-> db'], k, "list") => Is([db |-> db], k, "list") ]_vars

(* Clients are served in the order in which they blocked: one that blocks
   comes after those that wait for its keys already, and when one is served
   an element, those before it in the queue of its key are served too. *)
FirstComeFirstServed ==
    [][ /\ \A k \in DOMAIN waiting \cap DOMAIN waiting' :
              LET old(u) == u \in ToSet(waiting[k])
              IN  IsPrefix(SelectSeq(waiting'[k], old), waiting'[k])
        /\ stream' # stream =>
              \A k \in DOMAIN waiting : \A i \in DOMAIN waiting[k] : \A j \in 1..i-1 :
                 LET u == waiting[k][i]
                 IN  users'[u].block = NoBlock /\ ToSet(users[u].block.keys) = {k}
                     => users'[waiting[k][j]].block = NoBlock ]_vars

(* A call that is answered with an error has changed nothing: commands of
   many arguments "should either execute fully or nothing at all" (ZADD),
   and an increment is checked before the value is replaced. *)
FailedCallsChangeNothing ==
    [][ left' # left /\ failed'
        => \A k \in DOMAIN db \cup DOMAIN db' : ValueAt(db, k) = ValueAt(db', k) \/ Lost(k) ]_vars
=============================================================================
