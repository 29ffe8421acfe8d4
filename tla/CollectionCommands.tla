------------------------- MODULE CollectionCommands -------------------------
(***************************************************************************)
(* The commands on sets (t_set.c) and on hashes (t_hash.c), as functions   *)
(* on the state of the server: see RedisDb.  A hash is a function from its *)
(* fields.                                                                 *)
(***************************************************************************)
EXTENDS RedisDb

----------------------------------------------------------------------------
(* Sets *)

SetAt(S, k) == IF Exists(S, k) THEN S.db[k].set ELSE {}

sadd(S, c) ==
    LET k == c.keys[1]
        T == expireIfNeeded(S, k)
        new == SetAt(T, k) \cup ToSet(c.vals)
    IN  IF WrongType(T, k, "set") THEN Fail(T)
        ELSE IF new = SetAt(T, k) THEN T
        ELSE Modified(Put(T, k, Set(new)), k)

srem(S, c) ==
    LET k == c.keys[1]
        T == expireIfNeeded(S, k)
        left == SetAt(T, k) \ ToSet(c.vals)
    IN  IF WrongType(T, k, "set") THEN Fail(T)
        ELSE IF left = SetAt(T, k) THEN T
        ELSE Modified(PutOrDelete(T, k, Set(left)), k)

(* SMOVE: the source, then the destination. *)
smove(S, c) ==
    LET k   == c.keys[1]
        to  == c.keys[2]
        v   == c.vals[1]
        T   == expireIfNeeded(expireIfNeeded(S, k), to)
        out == signalModifiedKey(Modified(PutOrDelete(T, k, Set(SetAt(T, k) \ {v})), k), to)
    IN  IF ~Exists(T, k) THEN T
        ELSE IF WrongType(T, k, "set") \/ WrongType(T, to, "set") THEN Fail(T)
        ELSE IF k = to \/ v \notin SetAt(T, k) THEN T
        ELSE Put(out, to, Set(SetAt(T, to) \cup {v}))

(* SPOP: the string of the call stands for the random choice; what was
   chosen is what is propagated. *)
spop(S, c) ==
    LET k == c.keys[1]
        T == expireIfNeeded(S, k)
        v == IF c.vals[1] \in SetAt(T, k) THEN c.vals[1]
             ELSE CHOOSE x \in SetAt(T, k) : TRUE
    IN  IF WrongType(T, k, "set") THEN Fail(T)
        ELSE IF ~Exists(T, k) THEN T
        ELSE [Modified(PutOrDelete(T, k, Set(SetAt(T, k) \ {v})), k)
              EXCEPT !.call = Call("srem", <<k>>, <<v>>, <<>>, {})]

(* SINTERSTORE: the destination, then the sources, looked up until one is
   missing, which empties the intersection whatever the others are, or is
   not a set. *)
RECURSIVE InterLookup(_, _)
InterLookup(S, keys) ==
    IF keys = <<>> THEN S
    ELSE LET T == expireIfNeeded(S, Head(keys))
         IN  IF ~Exists(T, Head(keys)) THEN T
             ELSE IF WrongType(T, Head(keys), "set") THEN Fail(T)
             ELSE InterLookup(T, Tail(keys))

sinterstore(S, c) ==
    LET to      == c.keys[1]
        sources == ToSet(Tail(c.keys))
        T       == InterLookup(S, Tail(c.keys))
        inter   == { v \in SetAt(T, c.keys[2]) : \A k \in sources : v \in SetAt(T, k) }
    IN  IF T.err THEN T
        ELSE IF \A k \in sources : Exists(T, k) THEN Replace(T, to, Set(inter))
        ELSE IF Exists(T, to) THEN Modified(dbDelete(T, to), to)
        ELSE T

(* SUNIONSTORE and SDIFFSTORE: a missing source is an empty set. *)
RECURSIVE TypedLookup(_, _)
TypedLookup(S, keys) ==
    IF keys = <<>> THEN S
    ELSE LET T == expireIfNeeded(S, Head(keys))
         IN  IF WrongType(T, Head(keys), "set") THEN Fail(T)
             ELSE TypedLookup(T, Tail(keys))

sunionDiffStore(S, c) ==
    LET to      == c.keys[1]
        sources == Tail(c.keys)
        T       == TypedLookup(S, sources)
        others  == UNION { SetAt(T, sources[j]) : j \in DOMAIN sources \ {1} }
        result  == IF "union" \in c.opts THEN SetAt(T, sources[1]) \cup others
                   ELSE SetAt(T, sources[1]) \ others
    IN  IF T.err THEN T ELSE Replace(T, to, Set(result))

----------------------------------------------------------------------------
(* Hashes *)

HashAt(S, k) == IF Exists(S, k) THEN S.db[k].hash ELSE <<>>

(* HSET, HSETNX and HMSET: fields and strings in turn. *)
Pairs(vals) == { i \in DOMAIN vals : i % 2 = 1 }
Assigned(h, vals) ==
    LET last(f) == Max({ i \in Pairs(vals) : vals[i] = f })
    IN  [ f \in { vals[i] : i \in Pairs(vals) } |-> vals[last(f) + 1] ] @@ h

hset(S, c) ==
    LET k == c.keys[1]
        T == expireIfNeeded(S, k)
    IN  IF Len(c.vals) % 2 = 1 THEN Fail(S)
        ELSE IF WrongType(T, k, "hash") THEN Fail(T)
        ELSE IF "nx" \in c.opts /\ c.vals[1] \in DOMAIN HashAt(T, k) THEN T
        ELSE Modified(Put(T, k, Hash(Assigned(HashAt(T, k), c.vals))), k)

FieldAt(h, f) == IF f \in DOMAIN h THEN h[f] ELSE <<>>

(* HINCRBY: the second string is the increment. *)
hincrby(S, c) ==
    LET k    == c.keys[1]
        f    == c.vals[1]
        T    == expireIfNeeded(S, k)
        old  == Value(FieldAt(HashAt(T, k), f))
        incr == Value(c.vals[2])
    IN  IF ~IsLong(c.vals[2]) THEN Fail(S)
        ELSE IF WrongType(T, k, "hash") THEN Fail(T)
        ELSE IF ~IsLong(FieldAt(HashAt(T, k), f)) THEN Fail(T)
        ELSE IF \/ incr < 0 /\ old < 0 /\ incr < -MaxLong - 1 - old
                \/ incr > 0 /\ old > 0 /\ incr > MaxLong - old THEN Fail(T)
        ELSE Modified(Put(T, k, Hash(With(HashAt(T, k), f, StringOf(old + incr)))), k)

(* HINCRBYFLOAT takes an infinite result, and is propagated as an HSET. *)
FloatString(x) ==
    CASE x = NaN       -> <<110, 97, 110>>
      [] x = Infinity  -> Inf
      [] x = -Infinity -> <<Minus>> \o Inf
      [] OTHER         -> StringOf(x)

hincrbyfloat(S, c) ==
    LET k    == c.keys[1]
        f    == c.vals[1]
        T    == expireIfNeeded(S, k)
        old  == FieldAt(HashAt(T, k), f)
        new  == FloatString(AddDouble(DoubleOf(old), DoubleOf(c.vals[2])))
    IN  IF ~IsDouble(c.vals[2]) THEN Fail(S)
        ELSE IF WrongType(T, k, "hash") \/ ~IsDouble(old) THEN Fail(T)
        ELSE [Modified(Put(T, k, Hash(With(HashAt(T, k), f, new))), k)
              EXCEPT !.call = Call("hset", c.keys, <<f, new>>, <<>>, {})]

hdel(S, c) ==
    LET k    == c.keys[1]
        T    == expireIfNeeded(S, k)
        h    == HashAt(T, k)
        left == Restrict(h, DOMAIN h \ ToSet(c.vals))
    IN  IF WrongType(T, k, "hash") THEN Fail(T)
        ELSE IF DOMAIN left = DOMAIN h THEN T
        ELSE Modified(PutOrDelete(T, k, Hash(left)), k)
=============================================================================
