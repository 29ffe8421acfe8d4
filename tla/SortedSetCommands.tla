------------------------- MODULE SortedSetCommands --------------------------
(***************************************************************************)
(* The commands on sorted sets (t_zset.c) and SORT (sort.c), as functions  *)
(* on the state of the server: see RedisDb.  A sorted set is a function    *)
(* from its members to their scores.                                       *)
(***************************************************************************)
EXTENDS RedisDb

ZSetAt(S, k) == IF Exists(S, k) THEN S.db[k].zset ELSE <<>>

(* The order of a sorted set: by score, then by member. *)
Before(z, v, w) == z[v] < z[w] \/ (z[v] = z[w] /\ LessString(v, w))
Ranked(z) == SetToSortSeq(DOMAIN z, LAMBDA v, w : Before(z, v, w))

(* ZADD and ZINCRBY: scores and members in turn.  All the scores are read
   before anything is changed, and only ZINCRBY, of one member, can make a
   score that is not a number. *)
Scores(vals) == { i \in DOMAIN vals : i % 2 = 1 }

RECURSIVE AddAll(_, _, _, _)
AddAll(S, k, vals, incr) ==
    IF vals = <<>> \/ S.err THEN S
    ELSE LET z     == ZSetAt(S, k)
             v     == vals[2]
             given == DoubleOf(vals[1])
             score == IF incr /\ v \in DOMAIN z THEN AddDouble(given, z[v]) ELSE given
             T     == IF score = NaN THEN Fail(S)
                      ELSE IF v \in DOMAIN z /\ z[v] = score THEN S
                      ELSE Modified(Put(S, k, ZSet(With(z, v, score))), k)
         IN  AddAll(T, k, SubSeq(vals, 3, Len(vals)), incr)

(* Mutant: the scores are read one at a time, and the pairs before a bad one
   are added. *)
ZaddAsRead(S, c) ==
    LET k   == c.keys[1]
        T   == expireIfNeeded(S, k)
        bad == { i \in Scores(c.vals) : ~IsDouble(c.vals[i]) }
    IN  IF Len(c.vals) % 2 = 1 THEN Fail(S)
        ELSE IF WrongType(T, k, "zset") THEN Fail(T)
        ELSE IF bad = {} THEN AddAll(T, k, c.vals, "incr" \in c.opts)
        ELSE Fail(AddAll(T, k, SubSeq(c.vals, 1, Min(bad) - 1), "incr" \in c.opts))

zadd(S, c) ==
    LET k == c.keys[1]
        T == expireIfNeeded(S, k)
    IN  IF Len(c.vals) % 2 = 1 \/ \E i \in Scores(c.vals) : ~IsDouble(c.vals[i]) THEN Fail(S)
        ELSE IF WrongType(T, k, "zset") THEN Fail(T)
        ELSE AddAll(T, k, c.vals, "incr" \in c.opts)

Purged(S, k, gone) ==
    LET z == ZSetAt(S, k)
    IN  IF DOMAIN z \cap gone = {} THEN S
        ELSE Modified(PutOrDelete(S, k, ZSet(Restrict(z, DOMAIN z \ gone))), k)

zrem(S, c) ==
    LET T == expireIfNeeded(S, c.keys[1])
    IN  IF WrongType(T, c.keys[1], "zset") THEN Fail(T)
        ELSE Purged(T, c.keys[1], ToSet(c.vals))

(* ZREMRANGEBYSCORE: bounds that are open when they are opts. *)
InScoreRange(score, c) ==
    /\ score > c.ints[1] \/ (score = c.ints[1] /\ "minex" \notin c.opts)
    /\ score < c.ints[2] \/ (score = c.ints[2] /\ "maxex" \notin c.opts)

zremrangebyscore(S, c) ==
    LET T == expireIfNeeded(S, c.keys[1])
        z == ZSetAt(T, c.keys[1])
    IN  IF WrongType(T, c.keys[1], "zset") THEN Fail(T)
        ELSE Purged(T, c.keys[1], { v \in DOMAIN z : InScoreRange(z[v], c) })

zremrangebyrank(S, c) ==
    LET T == expireIfNeeded(S, c.keys[1])
        r == Ranked(ZSetAt(T, c.keys[1]))
    IN  IF WrongType(T, c.keys[1], "zset") THEN Fail(T)
        ELSE Purged(T, c.keys[1],
                    { r[i] : i \in IndexRange(c.ints[1], c.ints[2], Len(r)) })

(***************************************************************************)
(* ZUNIONSTORE and ZINTERSTORE.                                            *)
(***************************************************************************)
(* A set gives each of its members the score 1. *)
Source(S, k) ==
    IF ~Exists(S, k) THEN <<>>
    ELSE IF TypeOf(S.db[k]) = "set" THEN [v \in S.db[k].set |-> 1]
    ELSE S.db[k].zset

Aggregate(opts, x, y) ==
    CASE "min" \in opts -> IF y # NaN /\ y < x THEN y ELSE x
      [] "max" \in opts -> IF y # NaN /\ y > x THEN y ELSE x
      [] OTHER          -> IF y = NaN THEN 0 ELSE OrZero(AddDouble(x, y))

RECURSIVE ZLookup(_, _)
ZLookup(S, keys) ==
    IF keys = <<>> THEN S
    ELSE LET T == expireIfNeeded(S, Head(keys))
         IN  IF WrongType(T, Head(keys), "set") /\ WrongType(T, Head(keys), "zset")
             THEN Fail(T)
             ELSE ZLookup(T, Tail(keys))

(* The weighted scores of a member, aggregated over the sources that hold
   it, from the smallest source on.  The numbers of a call are the weights. *)
zunionInterStore(S, c) ==
    LET to      == c.keys[1]
        n       == Len(c.keys) - 1
        T       == ZLookup(S, Tail(c.keys))
        src     == [j \in 1..n |-> Source(T, c.keys[j + 1])]
        weight(j) == IF c.ints = <<>> THEN 1 ELSE c.ints[j]
        order   == SetToSortSeq(1..n, LAMBDA i, j :
                       \/ Cardinality(DOMAIN src[i]) < Cardinality(DOMAIN src[j])
                       \/ Cardinality(DOMAIN src[i]) = Cardinality(DOMAIN src[j]) /\ i < j)
        holders(v) == SelectSeq(order, LAMBDA j : v \in DOMAIN src[j])
        score(v) == LET h == holders(v)
                    IN  FoldLeft(LAMBDA x, j : Aggregate(c.opts, x, MulDouble(src[j][v], weight(j))),
                                 OrZero(MulDouble(src[h[1]][v], weight(h[1]))), Tail(h))
        members == IF "inter" \in c.opts
                   THEN { v \in DOMAIN src[1] : Len(holders(v)) = n }
                   ELSE UNION { DOMAIN src[j] : j \in 1..n }
    IN  IF T.err THEN T
        ELSE IF members = {} /\ ~Exists(T, to) THEN T
        ELSE Replace(T, to, ZSet([v \in members |-> score(v)]))

(***************************************************************************)
(* SORT with STORE.                                                        *)
(***************************************************************************)
(* lookupKeyByPattern: the key made of the pattern's text and of the
   element; the pattern of the model is a text followed by '*'.  Only
   strings are found. *)
PatternKey(c, pattern, v) == <<c.keys[1][1], pattern \o v>>
ByPattern(S, c, pattern, v) ==
    LET k == PatternKey(c, pattern, v)
    IN  IF Is(S, k, "str") THEN <<S.db[k].str>> ELSE <<>>

(* The elements as the vector to sort is loaded with them: a set or a sorted
   set in the order of its hash table, which the process's own seed decides
   and the model takes to be one order or its reverse. *)
HashOrder(S, elements) == IF S.backwards THEN Reverse(elements) ELSE elements
Elements(S, k) ==
    IF ~Exists(S, k) THEN <<>>
    ELSE CASE TypeOf(S.db[k]) = "list" -> S.db[k].list
           [] TypeOf(S.db[k]) = "set"  -> HashOrder(S, SetToSeq(S.db[k].set))
           [] TypeOf(S.db[k]) = "zset" -> HashOrder(S, Ranked(S.db[k].zset))

(* SORT source [BY] [LIMIT] [GET] [ALPHA] [DESC] STORE destination.  The
   strings of the call are the BY and the GET pattern, empty when absent.
   "nosort" is a BY without '*': with STORE, only a sorted set keeps its own
   order, the others are sorted by themselves. *)
KeepsOrder(S, c) == "nosort" \in c.opts /\ Is(S, c.keys[1], "zset")
Alpha(c) == {"alpha", "nosort"} \cap c.opts # {}
ByWeight(c) == c.vals[1] # <<>> /\ "nosort" \notin c.opts

(* What an element stands for in the result. *)
Replaced(S, c, pattern, v) ==
    IF pattern = <<>> THEN v
    ELSE LET found == ByPattern(S, c, pattern, v) IN IF found = <<>> THEN <<>> ELSE found[1]

(* What it is compared by.  Numbers that are equal leave it to the elements;
   by strings that are looked up, an element without one comes first, and
   two without one, or with the same, are equal. *)
SortText(S, c, v) == IF ByWeight(c) THEN Replaced(S, c, c.vals[1], v) ELSE v
LessText(S, c, v, w) ==
    LET p == ByPattern(S, c, c.vals[1], v)
        q == ByPattern(S, c, c.vals[1], w)
    IN  q # <<>> /\ (p = <<>> \/ LessString(p[1], q[1]))
LessNumber(x, y, v, w) == IF x = y THEN LessString(v, w) ELSE x < y
Less(S, c, v, w) ==
    CASE ~Alpha(c)   -> LessNumber(DoubleOf(SortText(S, c, v)), DoubleOf(SortText(S, c, w)), v, w)
      [] ByWeight(c) -> LessText(S, c, v, w)
      [] OTHER       -> LessString(v, w)

(* qsort leaves what compares equal as it was loaded. *)
Precedes(S, c, v, w) == IF "desc" \in c.opts THEN Less(S, c, w, v) ELSE Less(S, c, v, w)
Sorted(S, c, all) ==
    LET First(i, j) == \/ Precedes(S, c, all[i], all[j])
                       \/ ~Precedes(S, c, all[j], all[i]) /\ i < j
        order       == SortSeq([i \in DOMAIN all |-> i], First)
    IN  [i \in DOMAIN all |-> all[order[i]]]
Ranged(S, c) ==
    LET own == Ranked(S.db[c.keys[1]].zset) IN IF "desc" \in c.opts THEN Reverse(own) ELSE own

Limited(c, sorted) ==
    LET start == IF c.ints = <<>> THEN 0 ELSE Max({c.ints[1], 0})
        stop  == IF c.ints = <<>> \/ c.ints[2] < 0 THEN Len(sorted) - 1
                 ELSE start + c.ints[2] - 1
    IN  IF stop < start THEN <<>> ELSE Slice(sorted, IndexRange(start, stop, Len(sorted)))

LookupByPattern(S, c, pattern, elements) ==
    IF pattern = <<>> THEN S
    ELSE Lookup(S, [i \in DOMAIN elements |-> PatternKey(c, pattern, elements[i])])

StoreSorted(S, c, part) ==
    IF part # <<>>
    THEN [setKey(S, c.keys[2], List([i \in DOMAIN part |-> Replaced(S, c, c.vals[2], part[i])]))
          EXCEPT !.dirty = TRUE]
    ELSE IF Exists(S, c.keys[2]) THEN Modified(dbDelete(S, c.keys[2]), c.keys[2])
    ELSE S

SortPart(S, c, part) == StoreSorted(LookupByPattern(S, c, c.vals[2], part), c, part)

SortElements(S, c, all) ==
    IF ~Alpha(c) /\ \E i \in DOMAIN all : ~IsDouble(SortText(S, c, all[i]))
    THEN Fail(S)
    ELSE SortPart(S, c, Limited(c, Sorted(S, c, all)))

SortFound(S, c) ==
    IF \A type \in {"list", "set", "zset"} : WrongType(S, c.keys[1], type) THEN Fail(S)
    ELSE IF KeepsOrder(S, c) THEN SortPart(S, c, Limited(c, Ranged(S, c)))
    ELSE SortElements(LookupByPattern(S, c, IF ByWeight(c) THEN c.vals[1] ELSE <<>>,
                                      Elements(S, c.keys[1])),
                      c, Elements(S, c.keys[1]))

sort(S, c) == SortFound(expireIfNeeded(S, c.keys[1]), c)
=============================================================================
