------------------------------ MODULE RedisDb ------------------------------
(***************************************************************************)
(* The databases and the commands that handle keys of any type (db.c).     *)
(*                                                                         *)
(* A command is a function on the state of the server, a record            *)
(*   db      the values, by key (a key is a database with a name)          *)
(*   exp     the time after which a volatile key has expired               *)
(*   now     the clock, in the unit of the expires                         *)
(*   slave   this server has a master                                      *)
(*   backwards  this process's hash tables are walked the other way round  *)
(*   multi   the command runs inside EXEC                                  *)
(*   waited  the keys that have clients blocked on them                    *)
(*   dirty   the command changed something: it will be propagated          *)
(*   touched the keys signalled as modified                                *)
(*   ready   the keys whose new list may serve blocked clients             *)
(*   call    the command, as it is propagated                              *)
(*   out     what was propagated to the slaves, oldest first               *)
(*   block   the client must block: its keys, target and end               *)
(*   err     the answer is an error                                        *)
(* so that EXEC, the blocked clients and the slave run the same commands.  *)
(* Answers are left out, except that they are errors.                      *)
(***************************************************************************)
EXTENDS RedisObject

NoBlock == [keys |-> <<>>, target |-> <<>>, where |-> "head"]

(* A call: the keys, the string arguments, the numeric arguments and the
   options of a command; all the calls have the same fields. *)
Call(op, keys, vals, ints, opts) ==
    [op |-> op, keys |-> keys, vals |-> vals, ints |-> ints, opts |-> opts]

DelCall(k) == Call("del", <<k>>, <<>>, <<>>, {})

Without(f, k) == Restrict(f, DOMAIN f \ {k})
With(f, k, v) == (k :> v) @@ f

(***************************************************************************)
(* The keyspace.                                                           *)
(***************************************************************************)
Exists(S, k) == k \in DOMAIN S.db

dbDelete(S, k) == [S EXCEPT !.db = Without(@, k), !.exp = Without(@, k)]

(* dbAdd of a new key and dbOverwrite of an old one: the expire stays. *)
Put(S, k, v) == [S EXCEPT !.db = With(@, k, v)]

signalModifiedKey(S, k) == [S EXCEPT !.touched = @ \cup {k}]
signalListAsReady(S, k) ==
    IF k \in S.waited /\ ~ Contains(S.ready, k) THEN [S EXCEPT !.ready = Append(@, k)] ELSE S

(* signalModifiedKey and server.dirty++, at the end of nearly every command. *)
Modified(S, k) == [signalModifiedKey(S, k) EXCEPT !.dirty = TRUE]

Fail(S) == [S EXCEPT !.err = TRUE]

removeExpire(S, k) == [S EXCEPT !.exp = Without(@, k)]
setExpire(S, k, when) == [S EXCEPT !.exp = With(@, k, when)]

(* Mutant: nobody is told that a key has expired. *)
TellNobody(S, k) == S

(* The DEL that tells the slaves and the AOF that a key has gone. *)
propagateExpire(S, k) == [S EXCEPT !.out = Append(@, DelCall(k))]

Expired(S, k) == k \in DOMAIN S.exp /\ S.now > S.exp[k]

(* A slave keeps its expired keys until its master deletes them. *)
expireIfNeeded(S, k) ==
    IF Expired(S, k) /\ ~S.slave THEN dbDelete(propagateExpire(S, k), k) ELSE S

RECURSIVE Lookup(_, _)
Lookup(S, keys) ==
    IF keys = <<>> THEN S ELSE Lookup(expireIfNeeded(S, Head(keys)), Tail(keys))

Is(S, k, type) == Exists(S, k) /\ TypeOf(S.db[k]) = type
WrongType(S, k, type) == Exists(S, k) /\ TypeOf(S.db[k]) # type

setKey(S, k, v) ==
    signalModifiedKey(removeExpire(Put(expireIfNeeded(S, k), k, v), k), k)

(* Mutant: an aggregate is stored whatever is left of it. *)
PutAnyway(S, k, v) == Put(S, k, v)

(* Store the new value of an aggregate, or delete the key when no element
   is left. *)
PutOrDelete(S, k, v) == IF IsEmptyAggregate(v) THEN dbDelete(S, k) ELSE Put(S, k, v)

(* Store the result of SINTERSTORE and the like: with no element, the
   destination is only deleted. *)
Replace(S, k, v) == Modified(PutOrDelete(dbDelete(S, k), k, v), k)

(***************************************************************************)
(* Commands on keys.                                                       *)
(***************************************************************************)
del(S, c) ==
    LET present == { k \in ToSet(c.keys) : Exists(S, k) }
    IN  FoldSet(LAMBDA k, T : Modified(dbDelete(T, k), k), S, present)

(* EXISTS, TYPE, KEYS, RANDOMKEY, GET, ...: the keys a reading command looks
   up are expired. *)
read(S, c) == Lookup(S, c.keys)

(* dbRandomKey: what is expired and drawn goes; `vals` is not needed, the
   keys of the call are those drawn before the one that is answered. *)
randomkey(S, c) == Lookup(S, SelectSeq(c.keys, LAMBDA k : Expired(S, k)))

(* Mutant: a flush does not touch the watched keys. *)
FlushedUnseen(S, gone) ==
    [S EXCEPT !.dirty = @ \/ gone # {},
              !.db = Restrict(@, DOMAIN @ \ gone),
              !.exp = Restrict(@, DOMAIN @ \ gone)]

Flushed(S, gone) ==
    [S EXCEPT !.touched = @ \cup gone,
              !.dirty = @ \/ gone # {},
              !.db = Restrict(@, DOMAIN @ \ gone),
              !.exp = Restrict(@, DOMAIN @ \ gone)]

flushdb(S, c) == Flushed(S, { k \in DOMAIN S.db : k[1] = c.ints[1] })
flushall(S, c) == [Flushed(S, DOMAIN S.db) EXCEPT !.dirty = TRUE]

(* RENAME and RENAMENX. *)
Rename(T, k, to) ==
    LET moved  == Put(dbDelete(T, to), to, T.db[k])
        timed  == IF k \in DOMAIN T.exp THEN setExpire(moved, to, T.exp[k]) ELSE moved
    IN  signalModifiedKey(Modified(dbDelete(timed, k), k), to)

rename(S, c) ==
    LET k  == c.keys[1]
        to == c.keys[2]
        L  == expireIfNeeded(S, k)
        T  == expireIfNeeded(L, to)
    IN  IF k = to THEN Fail(S)
        ELSE IF ~Exists(L, k) THEN Fail(L)
        ELSE IF "nx" \in c.opts /\ Exists(T, to) THEN T
        ELSE Rename(T, k, to)

(* MOVE: between databases, with no signal to the watchers and without the
   expire. *)
move(S, c) ==
    LET k  == c.keys[1]
        to == c.keys[2]
        L  == expireIfNeeded(S, k)
        T  == expireIfNeeded(L, to)
    IN  IF k = to THEN Fail(S)
        ELSE IF ~Exists(L, k) THEN L
        ELSE IF Exists(T, to) THEN T
        ELSE [dbDelete(Put(T, to, T.db[k]), k) EXCEPT !.dirty = TRUE]

(* EXPIRE, PEXPIRE, EXPIREAT and PEXPIREAT: a time in the past deletes the
   key, except on a slave. *)
expire(S, c) ==
    LET k    == c.keys[1]
        when == c.ints[1] + (IF "at" \in c.opts THEN 0 ELSE S.now)
        T    == expireIfNeeded(S, k)
    IN  IF ~Exists(T, k) THEN T
        ELSE IF when <= T.now /\ ~T.slave
        THEN [Modified(dbDelete(T, k), k) EXCEPT !.call = DelCall(k)]
        ELSE Modified(setExpire(T, k, when), k)

(* PERSIST looks the key up without expiring it and signals nothing. *)
persist(S, c) ==
    LET k == c.keys[1]
    IN  IF k \in DOMAIN S.exp THEN [removeExpire(S, k) EXCEPT !.dirty = TRUE] ELSE S
=============================================================================
