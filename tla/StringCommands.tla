-------------------------- MODULE StringCommands ---------------------------
(***************************************************************************)
(* The commands on strings (t_string.c) and on their bits (bitops.c), as   *)
(* functions on the state of the server: see RedisDb.                      *)
(***************************************************************************)
EXTENDS RedisDb

CONSTANT MaxStringLen    \* the 512 MB of a string

ASSUME StringAssumption == MaxStringLen \in Nat \ {0}

Current(S, k) == IF Is(S, k, "str") THEN S.db[k].str ELSE <<>>

(* SET, SETNX, SETEX and PSETEX: an expire is relative, and positive. *)
set(S, c) ==
    LET k     == c.keys[1]
        timed == c.ints # <<>>
        T     == IF c.opts = {} THEN S ELSE expireIfNeeded(S, k)
        done  == [setKey(T, k, Str(c.vals[1])) EXCEPT !.dirty = TRUE]
    IN  IF timed /\ c.ints[1] <= 0 THEN Fail(S)
        ELSE IF \/ "nx" \in c.opts /\ Exists(T, k)
                \/ "xx" \in c.opts /\ ~Exists(T, k) THEN T
        ELSE IF timed THEN setExpire(done, k, S.now + c.ints[1])
        ELSE done

getset(S, c) ==
    LET k == c.keys[1]
        T == expireIfNeeded(S, k)
    IN  IF WrongType(T, k, "str") THEN Fail(T)
        ELSE [setKey(T, k, Str(c.vals[1])) EXCEPT !.dirty = TRUE]

(* MSET and MSETNX: the keys, and the values in the same order; MSETNX sets
   nothing when one of the keys is there. *)
RECURSIVE SetAll(_, _, _)
SetAll(S, keys, vals) ==
    IF keys = <<>> THEN S
    ELSE SetAll(setKey(S, Head(keys), Str(Head(vals))), Tail(keys), Tail(vals))

mset(S, c) ==
    LET T == IF "nx" \in c.opts THEN Lookup(S, c.keys) ELSE S
    IN  IF "nx" \in c.opts /\ \E k \in ToSet(c.keys) : Exists(T, k) THEN T
        ELSE [SetAll(T, c.keys, c.vals) EXCEPT !.dirty = TRUE]

(* INCR, DECR, INCRBY and DECRBY. *)
Overflows(old, incr) ==
    \/ incr < 0 /\ old < 0 /\ incr < -MaxLong - 1 - old
    \/ incr > 0 /\ old > 0 /\ incr > MaxLong - old

incrby(S, c) ==
    LET k   == c.keys[1]
        T   == expireIfNeeded(S, k)
        old == Value(Current(T, k))
    IN  IF WrongType(T, k, "str") \/ ~IsLong(Current(T, k)) THEN Fail(T)
        ELSE IF Overflows(old, c.ints[1]) THEN Fail(T)
        ELSE Modified(Put(T, k, Str(StringOf(old + c.ints[1]))), k)

(* INCRBYFLOAT keeps the expire of the key and is propagated as a SET. *)
incrbyfloat(S, c) ==
    LET k   == c.keys[1]
        T   == expireIfNeeded(S, k)
        new == AddDouble(DoubleOf(Current(T, k)), DoubleOf(c.vals[1]))
    IN  IF \/ WrongType(T, k, "str")
           \/ ~IsDouble(Current(T, k)) \/ ~IsDouble(c.vals[1]) THEN Fail(T)
        ELSE IF new \in {NaN, Infinity, -Infinity} THEN Fail(T)
        ELSE [Modified(Put(T, k, Str(StringOf(new))), k)
              EXCEPT !.call = Call("set", c.keys, <<StringOf(new)>>, <<>>, {})]

append(S, c) ==
    LET k   == c.keys[1]
        T   == expireIfNeeded(S, k)
        new == Current(T, k) \o c.vals[1]
    IN  IF WrongType(T, k, "str") THEN Fail(T)
        ELSE IF Exists(T, k) /\ Len(new) > MaxStringLen THEN Fail(T)
        ELSE Modified(Put(T, k, Str(new)), k)

(* sdsgrowzero, then the bytes of `patch` from `offset` on. *)
ByteAt(s, i) == IF i \in DOMAIN s THEN s[i] ELSE 0
Patched(s, offset, patch) ==
    [ i \in 1..Max({Len(s), offset + Len(patch)}) |->
        IF i - offset \in DOMAIN patch THEN patch[i - offset]
        ELSE ByteAt(s, i) ]

setrange(S, c) ==
    LET k      == c.keys[1]
        offset == c.ints[1]
        patch  == c.vals[1]
        T      == expireIfNeeded(S, k)
    IN  IF offset < 0 THEN Fail(S)
        ELSE IF WrongType(T, k, "str") THEN Fail(T)
        ELSE IF patch = <<>> THEN T
        ELSE IF offset + Len(patch) > MaxStringLen THEN Fail(T)
        ELSE Modified(Put(T, k, Str(Patched(Current(T, k), offset, patch))), k)

(***************************************************************************)
(* Bits: number 0 is the most significant of the first byte.               *)
(***************************************************************************)
BitOf(byte, i) == (byte \div 2^(7 - i)) % 2
ByteOf(bit) == FoldLeft(LAMBDA n, i : 2 * n + bit[i], 0, <<0, 1, 2, 3, 4, 5, 6, 7>>)

setbit(S, c) ==
    LET k      == c.keys[1]
        number == c.ints[1]
        on     == c.ints[2]
        place  == number \div 8 + 1
        T      == expireIfNeeded(S, k)
        byte   == ByteAt(Current(T, k), place)
        new    == ByteOf([i \in 0..7 |-> IF i = number % 8 THEN on ELSE BitOf(byte, i)])
    IN  IF number < 0 \/ place > MaxStringLen \/ on \notin {0, 1} THEN Fail(S)
        ELSE IF WrongType(T, k, "str") THEN Fail(T)
        ELSE Modified(Put(T, k, Str(Patched(Current(T, k), place - 1, <<new>>))), k)

(* Look the keys up until one has a type the command does not take. *)
RECURSIVE LookupTyped(_, _, _)
LookupTyped(S, keys, types) ==
    IF keys = <<>> THEN S
    ELSE LET T == expireIfNeeded(S, Head(keys))
         IN  IF Exists(T, Head(keys)) /\ TypeOf(T.db[Head(keys)]) \notin types
             THEN Fail(T)
             ELSE LookupTyped(T, Tail(keys), types)

Combine(op, x, y) ==
    CASE op = "and" -> x * y
      [] op = "or"  -> Max({x, y})
      [] op = "xor" -> (x + y) % 2

(* BITOP: the first key is the target; a missing source is an empty string,
   and sources shorter than the longest one go on with zeros. *)
bitop(S, c) ==
    LET op      == CHOOSE o \in c.opts : TRUE
        target  == c.keys[1]
        T       == LookupTyped(S, Tail(c.keys), {"str"})
        sources == [j \in 1..Len(c.keys) - 1 |-> Current(T, c.keys[j + 1])]
        len     == Max({ Len(sources[j]) : j \in DOMAIN sources })
        bit(j, i, n) == BitOf(ByteAt(sources[j], i), n)
        result(i, n) ==
            IF op = "not" THEN 1 - bit(1, i, n)
            ELSE FoldLeft(LAMBDA x, j : Combine(op, x, bit(j, i, n)), bit(1, i, n),
                          [j \in 1..Len(sources) - 1 |-> j + 1])
        new == [i \in 1..len |-> ByteOf([n \in 0..7 |-> result(i, n)])]
    IN  IF op = "not" /\ Len(c.keys) # 2 THEN Fail(S)
        ELSE IF T.err THEN T
        ELSE IF len > 0 THEN [setKey(T, target, Str(new)) EXCEPT !.dirty = TRUE]
        ELSE IF Exists(T, target) THEN Modified(dbDelete(T, target), target)
        ELSE [T EXCEPT !.dirty = TRUE]
=============================================================================
