------------------------------ MODULE Commands ------------------------------
(***************************************************************************)
(* The command table (redis.c) and what surrounds a command: call(), the   *)
(* transactions of EXEC (multi.c), and the clients that blocking commands  *)
(* left waiting for a list (t_list.c).                                     *)
(***************************************************************************)
EXTENDS StringCommands, ListCommands, CollectionCommands, SortedSetCommands

(* The state in which a command starts, on a dataset. *)
Fresh(db, exp, now) ==
    [db |-> db, exp |-> exp, now |-> now, slave |-> FALSE,
     backwards |-> FALSE, multi |-> FALSE,
     waited |-> {}, dirty |-> FALSE, touched |-> {}, ready |-> <<>>,
     call |-> Call("read", <<>>, <<>>, <<>>, {}), out |-> <<>>,
     block |-> NoBlock, err |-> FALSE]

Proc(S, c) ==
    CASE c.op = "read"         -> read(S, c)
      [] c.op = "randomkey"    -> randomkey(S, c)
      [] c.op = "unwatch"      -> S
      [] c.op = "del"          -> del(S, c)
      [] c.op = "rename"       -> rename(S, c)
      [] c.op = "move"         -> move(S, c)
      [] c.op = "expire"       -> expire(S, c)
      [] c.op = "persist"      -> persist(S, c)
      [] c.op = "flushdb"      -> flushdb(S, c)
      [] c.op = "flushall"     -> flushall(S, c)
      [] c.op = "set"          -> set(S, c)
      [] c.op = "getset"       -> getset(S, c)
      [] c.op = "mset"         -> mset(S, c)
      [] c.op = "incrby"       -> incrby(S, c)
      [] c.op = "incrbyfloat"  -> incrbyfloat(S, c)
      [] c.op = "append"       -> append(S, c)
      [] c.op = "setrange"     -> setrange(S, c)
      [] c.op = "setbit"       -> setbit(S, c)
      [] c.op = "bitop"        -> bitop(S, c)
      [] c.op = "push"         -> push(S, c)
      [] c.op = "pushx"        -> pushx(S, c)
      [] c.op = "linsert"      -> linsert(S, c)
      [] c.op = "lset"         -> lset(S, c)
      [] c.op = "pop"          -> pop(S, c)
      [] c.op = "ltrim"        -> ltrim(S, c)
      [] c.op = "lrem"         -> lrem(S, c)
      [] c.op = "rpoplpush"    -> rpoplpush(S, c)
      [] c.op = "bpop"         -> bpop(S, c)
      [] c.op = "brpoplpush"   -> brpoplpush(S, c)
      [] c.op = "sadd"         -> sadd(S, c)
      [] c.op = "srem"         -> srem(S, c)
      [] c.op = "smove"        -> smove(S, c)
      [] c.op = "spop"         -> spop(S, c)
      [] c.op = "sinterstore"  -> sinterstore(S, c)
      [] c.op = "sunionDiffStore" -> sunionDiffStore(S, c)
      [] c.op = "hset"         -> hset(S, c)
      [] c.op = "hincrby"      -> hincrby(S, c)
      [] c.op = "hincrbyfloat" -> hincrbyfloat(S, c)
      [] c.op = "hdel"         -> hdel(S, c)
      [] c.op = "zadd"         -> zadd(S, c)
      [] c.op = "zrem"         -> zrem(S, c)
      [] c.op = "zremrangebyscore" -> zremrangebyscore(S, c)
      [] c.op = "zremrangebyrank"  -> zremrangebyrank(S, c)
      [] c.op = "zunionInterStore" -> zunionInterStore(S, c)
      [] c.op = "sort"         -> sort(S, c)

(* The flags of the table: "r", and the absence of "m". *)
ReadOnly(c) == c.op \in {"read", "randomkey", "unwatch"}
DenyOom(c) ==
    c.op \notin {"read", "randomkey", "unwatch", "multi", "exec", "discard", "watch",
                 "del", "rename", "move", "expire", "persist", "flushdb", "flushall",
                 "pop", "ltrim", "lrem", "bpop", "srem", "smove", "spop", "hdel",
                 "zrem", "zremrangebyscore", "zremrangebyrank"}

(* call(): run the command, propagate it, as it was rewritten, when it made
   the dataset dirty. *)
Propagated(S, c) == [S EXCEPT !.out = Append(@, c)]
Called(S) == IF S.dirty THEN Propagated(S, S.call) ELSE S
RunCall(S, c) == Called(Proc([S EXCEPT !.call = c, !.dirty = FALSE, !.err = FALSE], c))

(***************************************************************************)
(* EXEC: MULTI is propagated before the first command that is not a        *)
(* reading one, and then EXEC at the end, whatever those commands did.     *)
(***************************************************************************)
MultiCall == Call("multi", <<>>, <<>>, <<>>, {})
ExecCall == Call("exec", <<>>, <<>>, <<>>, {})

RECURSIVE RunQueue(_, _, _)
RunQueue(S, queue, told) ==
    IF queue = <<>>
    THEN IF told THEN Propagated(S, ExecCall) ELSE S
    ELSE LET tell == ~told /\ ~ReadOnly(Head(queue))
             T    == IF tell THEN Propagated(S, MultiCall) ELSE S
         IN  RunQueue(RunCall(T, Head(queue)), Tail(queue), told \/ tell)

Exec(S, queue) ==
    [RunQueue([S EXCEPT !.multi = TRUE], queue, FALSE) EXCEPT !.multi = FALSE, !.err = FALSE]

(***************************************************************************)
(* Clients blocked on lists.  B is the server S, the clients waiting for   *)
(* each key (first blocked first) and what each of them is blocked for.    *)
(***************************************************************************)
Clients(B, k) == IF k \in DOMAIN B.waiting THEN B.waiting[k] ELSE <<>>
WaitedKeys(waiting) == { k \in DOMAIN waiting : waiting[k] # <<>> }

(* Mutant: the last client that blocks is the first in the queue. *)
BlockFirst(B, cl, block) ==
    [B EXCEPT
        !.block[cl] = block,
        !.waiting = [k \in ToSet(block.keys) |-> <<cl>> \o Clients(B, k)] @@ @]

blockForKeys(B, cl, block) ==
    [B EXCEPT
        !.block[cl] = block,
        !.waiting = [k \in ToSet(block.keys) |-> Append(Clients(B, k), cl)] @@ @]

unblockClientWaitingData(B, cl) ==
    LET left == [k \in DOMAIN B.waiting |-> SelectSeq(B.waiting[k], LAMBDA x : x # cl)]
    IN  [B EXCEPT !.block[cl] = NoBlock,
                  !.waiting = left,
                  !.S.waited = WaitedKeys(left)]

(* Give the element popped from k to a client; its BRPOPLPUSH fails, and the
   element goes back, when the target is not a list. *)
serveClientBlockedOnList(S, k, block, v) ==
    LET where == block.where
        popped(T) == Propagated(T, Call("pop", <<k>>, <<>>, <<>>, {where}))
        T == expireIfNeeded(S, block.target)
    IN  IF block.target = <<>> THEN popped(S)
        ELSE IF WrongType(T, block.target, "list")
        THEN Put(T, k, List(listTypePush(T.db[k].list, v, where)))
        ELSE Propagated(rpoplpushHandlePush(popped(T), block.target, v),
                        Call("push", <<block.target>>, <<v>>, <<>>, {"head"}))

RECURSIVE ServeKey(_, _, _)
ServeKey(B, k, n) ==
    LET l     == B.S.db[k].list
        cl    == Head(Clients(B, k))
        block == B.block[cl]
        U     == unblockClientWaitingData(B, cl)
        T     == Put(U.S, k, List(listTypePop(l, block.where)))
    IN  IF n = 0 \/ l = <<>> THEN B
        ELSE ServeKey([U EXCEPT !.S = serveClientBlockedOnList(T, k, block, End(l, block.where))],
                      k, n - 1)

RECURSIVE handleClientsBlockedOnLists(_)
handleClientsBlockedOnLists(B) ==
    IF B.S.ready = <<>> THEN B
    ELSE LET k == Head(B.S.ready)
             S == expireIfNeeded([B.S EXCEPT !.ready = Tail(@)], k)
             T == [B EXCEPT !.S = S]
             V == ServeKey(T, k, Len(Clients(T, k)))
         IN  handleClientsBlockedOnLists(
                 IF Is(S, k, "list")
                 THEN [V EXCEPT !.S = PutOrDelete(V.S, k, V.S.db[k])]
                 ELSE T)
=============================================================================
