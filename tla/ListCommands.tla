--------------------------- MODULE ListCommands ----------------------------
(***************************************************************************)
(* The commands on lists (t_list.c), as functions on the state of the      *)
(* server: see RedisDb.  The head of a list is the head of its sequence.   *)
(***************************************************************************)
EXTENDS RedisDb

ListAt(S, k) == IF Exists(S, k) THEN S.db[k].list ELSE <<>>

listTypePush(l, v, where) == IF where = "head" THEN <<v>> \o l ELSE Append(l, v)
End(l, where) == IF where = "head" THEN Head(l) ELSE Last(l)
listTypePop(l, where) == IF where = "head" THEN Tail(l) ELSE Front(l)
Where(c) == CHOOSE w \in c.opts : w \in {"head", "tail"}

(* LPUSH and RPUSH: only a new list wakes the clients blocked on the key. *)
push(S, c) ==
    LET k == c.keys[1]
        T == expireIfNeeded(S, k)
        R == IF Exists(T, k) THEN T ELSE signalListAsReady(T, k)
        new == FoldLeft(LAMBDA l, v : listTypePush(l, v, Where(c)), ListAt(T, k), c.vals)
    IN  IF WrongType(T, k, "list") THEN Fail(T)
        ELSE Modified(Put(R, k, List(new)), k)

(* LPUSHX and RPUSHX. *)
pushx(S, c) ==
    LET k == c.keys[1]
        T == expireIfNeeded(S, k)
    IN  IF WrongType(T, k, "list") THEN Fail(T)
        ELSE IF ~Exists(T, k) THEN T
        ELSE Modified(Put(T, k, List(listTypePush(T.db[k].list, c.vals[1], Where(c)))), k)

(* LINSERT: `vals` are the pivot, sought from the head, and the value; it
   goes before the pivot ("head") or after it ("tail"). *)
linsert(S, c) ==
    LET k     == c.keys[1]
        T     == expireIfNeeded(S, k)
        found == { i \in DOMAIN ListAt(T, k) : ListAt(T, k)[i] = c.vals[1] }
        place == Min(found) + (IF Where(c) = "head" THEN 0 ELSE 1)
    IN  IF WrongType(T, k, "list") THEN Fail(T)
        ELSE IF found = {} THEN T
        ELSE Modified(Put(T, k, List(InsertAt(T.db[k].list, place, c.vals[2]))), k)

(* listIndex and ziplistIndex, one-based here: negative from the tail. *)
Position(l, index) == IF index < 0 THEN Len(l) + index + 1 ELSE index + 1

lset(S, c) ==
    LET k == c.keys[1]
        T == expireIfNeeded(S, k)
        i == Position(ListAt(T, k), c.ints[1])
    IN  IF WrongType(T, k, "list") \/ ~Exists(T, k) THEN Fail(T)
        ELSE IF i \notin DOMAIN T.db[k].list THEN Fail(T)
        ELSE Modified(Put(T, k, List(ReplaceAt(T.db[k].list, i, c.vals[1]))), k)

(* LPOP and RPOP. *)
Popped(S, k, where) ==
    Modified(PutOrDelete(S, k, List(listTypePop(S.db[k].list, where))), k)

pop(S, c) ==
    LET k == c.keys[1]
        T == expireIfNeeded(S, k)
    IN  IF WrongType(T, k, "list") THEN Fail(T)
        ELSE IF ~Exists(T, k) THEN T
        ELSE Popped(T, k, Where(c))

ltrim(S, c) ==
    LET k    == c.keys[1]
        T    == expireIfNeeded(S, k)
        l    == ListAt(T, k)
    IN  IF WrongType(T, k, "list") THEN Fail(T)
        ELSE IF ~Exists(T, k) THEN T
        ELSE Modified(PutOrDelete(T, k,
                 List(Slice(l, IndexRange(c.ints[1], c.ints[2], Len(l))))), k)

(* LREM: the first `count` occurrences from the head, from the tail when
   the count is negative, all of them when it is zero. *)
Removed(l, v, count) ==
    LET at == { i \in DOMAIN l : l[i] = v }
    IN  { i \in at :
            \/ count = 0
            \/ count > 0 /\ Cardinality({ j \in at : j < i }) < count
            \/ count < 0 /\ Cardinality({ j \in at : j > i }) < -count }

lrem(S, c) ==
    LET k    == c.keys[1]
        T    == expireIfNeeded(S, k)
        l    == ListAt(T, k)
        gone == Removed(l, c.vals[1], c.ints[1])
        kept == [ i \in DOMAIN l |-> IF i \in gone THEN <<>> ELSE <<l[i]>> ]
    IN  IF WrongType(T, k, "list") THEN Fail(T)
        ELSE IF gone = {} THEN T
        ELSE Modified(PutOrDelete(T, k, List(FlattenSeq(kept))), k)

(* Mutant: RPOPLPUSH wakes nobody. *)
PushUnsignalled(S, to, v) ==
    signalModifiedKey(Put(S, to, List(listTypePush(ListAt(S, to), v, "head"))), to)

(* The push side of RPOPLPUSH. *)
rpoplpushHandlePush(S, to, v) ==
    LET R == IF Exists(S, to) THEN S ELSE signalListAsReady(S, to)
    IN  signalModifiedKey(Put(R, to, List(listTypePush(ListAt(S, to), v, "head"))), to)

rpoplpush(S, c) ==
    LET k   == c.keys[1]
        to  == c.keys[2]
        L   == expireIfNeeded(S, k)
        T   == expireIfNeeded(L, to)
        l   == T.db[k].list
        out == Put(T, k, List(Front(l)))
        in  == rpoplpushHandlePush(out, to, Last(l))
    IN  IF WrongType(L, k, "list") THEN Fail(L)
        ELSE IF ~Exists(L, k) THEN L
        ELSE IF WrongType(T, to, "list") THEN Fail(T)
        ELSE Modified(PutOrDelete(in, k, in.db[k]), k)

(* BLPOP and BRPOP: the first of the keys with a list is popped, and that
   is what is propagated; with none the client blocks, unless it runs a
   transaction.  The timeout is the numeric argument. *)
RECURSIVE FirstList(_, _)
FirstList(S, keys) ==
    IF keys = <<>> THEN [state |-> S, key |-> <<>>]
    ELSE LET T == expireIfNeeded(S, Head(keys))
         IN  IF Exists(T, Head(keys)) THEN [state |-> T, key |-> Head(keys)]
             ELSE FirstList(T, Tail(keys))

bpop(S, c) ==
    LET found == FirstList(S, c.keys)
        T     == found.state
        k     == found.key
    IN  IF c.ints[1] < 0 THEN Fail(S)
        ELSE IF k = <<>>
        THEN IF T.multi THEN T
             ELSE [T EXCEPT !.block = [keys |-> c.keys, target |-> <<>>, where |-> Where(c)]]
        ELSE IF WrongType(T, k, "list") THEN Fail(T)
        ELSE [Popped(T, k, Where(c)) EXCEPT !.call = Call("pop", <<k>>, <<>>, <<>>, c.opts)]

brpoplpush(S, c) ==
    LET T == expireIfNeeded(S, c.keys[1])
    IN  IF c.ints[1] < 0 THEN Fail(S)
        ELSE IF Exists(T, c.keys[1]) THEN rpoplpush(T, c)
        ELSE IF T.multi THEN T
        ELSE [T EXCEPT !.block = [keys |-> <<c.keys[1]>>, target |-> c.keys[2],
                                  where |-> "tail"]]
=============================================================================
