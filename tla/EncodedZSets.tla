---------------------------- MODULE EncodedZSets ----------------------------
(***************************************************************************)
(* The encodings of sorted sets (t_zset.c) and their commands on one key:  *)
(* a ziplist, in which a member is followed by its score, or a skiplist    *)
(* with a dictionary from the members to the scores.  `heights` gives the  *)
(* member of a call, or of a conversion, the height of its skiplist node,  *)
(* which the code draws at random.                                         *)
(***************************************************************************)
EXTENDS EncodedValues, Skiplist

(***************************************************************************)
(* Ziplists of members and scores.  A pair is named by the position of its *)
(* member; 0 is no pair.                                                   *)
(***************************************************************************)
(* d2string. *)
d2string(x) ==
    IF x = Infinity THEN Inf ELSE IF x = -Infinity THEN <<Minus>> \o Inf ELSE StringOf(x)

zzlLength(zl) == ziplistLen(zl) \div 2
PairsOf(zl) == { 2 * i - 1 : i \in 1..zzlLength(zl) }
zzlGetScore(zl, i) == DoubleOf(ziplistGet(zl, i + 1))
LeastOrNone(x) == IF x = {} THEN 0 ELSE Min(x)

zzlFind(zl, v) == LeastOrNone({ i \in PairsOf(zl) : ziplistGet(zl, i) = v })
zzlDelete(zl, i) == ziplistDelete(ziplistDelete(zl, i), i)

zzlInsertAt(zl, i, v, score) ==
    LET at == IF i = 0 THEN ziplistLen(zl) + 1 ELSE i
    IN  ziplistInsert(ziplistInsert(zl, at, v), at + 1, d2string(score))

(* Mutant: members with the same score are not ordered. *)
InsertByScore(zl, v, score) ==
    zzlInsertAt(zl, LeastOrNone({ i \in PairsOf(zl) : zzlGetScore(zl, i) > score }), v, score)

(* Before the first pair with a larger score, or the same and a larger
   member. *)
zzlInsert(zl, v, score) ==
    LET after == { i \in PairsOf(zl) :
                     \/ zzlGetScore(zl, i) > score
                     \/ zzlGetScore(zl, i) = score /\ LessString(v, ziplistGet(zl, i)) }
    IN  zzlInsertAt(zl, LeastOrNone(after), v, score)

zzlIsInRange(zl, r) ==
    /\ ~EmptyRange(r)
    /\ zl.entries # <<>>
    /\ ValueGteMin(zzlGetScore(zl, ziplistIndex(zl, -1) - 1), r)
    /\ ValueLteMax(zzlGetScore(zl, 1), r)

(* The first pair from the head that is not before the range, if it is not
   after it; the last one likewise from the tail. *)
zzlFirstInRange(zl, r) ==
    LET i == LeastOrNone({ j \in PairsOf(zl) : ValueGteMin(zzlGetScore(zl, j), r) })
    IN  IF zzlIsInRange(zl, r) /\ i # 0 /\ ValueLteMax(zzlGetScore(zl, i), r) THEN i ELSE 0

zzlLastInRange(zl, r) ==
    LET i == Max({0} \cup { j \in PairsOf(zl) : ValueLteMax(zzlGetScore(zl, j), r) })
    IN  IF zzlIsInRange(zl, r) /\ i # 0 /\ ValueGteMin(zzlGetScore(zl, i), r) THEN i ELSE 0

RECURSIVE DeletePairs(_, _, _)
DeletePairs(zl, i, r) ==
    IF i \in PairsOf(zl) /\ ValueLteMax(zzlGetScore(zl, i), r)
    THEN DeletePairs(zzlDelete(zl, i), i, r)
    ELSE zl

zzlDeleteRangeByScore(zl, r) ==
    LET i == zzlFirstInRange(zl, r) IN IF i = 0 THEN zl ELSE DeletePairs(zl, i, r)

(* From the start-th to the end-th pair. *)
zzlDeleteRangeByRank(zl, start, end) ==
    ziplistDeleteRange(zl, ziplistIndex(zl, 2 * (start - 1)), 2 * (end - start + 1))

(***************************************************************************)
(* Sorted sets.                                                            *)
(***************************************************************************)
createZsetObject == [type |-> "zset", dict |-> <<>>, zsl |-> zslCreate]
createZsetZiplistObject == [type |-> "zset", zl |-> ziplistNew]
zsetLength(o) == IF Has(o, "zl") THEN zzlLength(o.zl) ELSE o.zsl.length

(* A member in both structures of the skiplist encoding. *)
Linked(o, v, score, heights) ==
    [o EXCEPT !.dict = (v :> score) @@ @, !.zsl = zslInsert(@, score, v, heights[v])]

zsetConvertToSkiplist(o, heights) ==
    FoldLeft(LAMBDA p, i : Linked(p, ziplistGet(o.zl, 2 * i - 1), zzlGetScore(o.zl, 2 * i - 1), heights),
             createZsetObject, [i \in 1..zzlLength(o.zl) |-> i])

zsetConvertToZiplist(o) ==
    [type |-> "zset",
     zl |-> FoldLeft(LAMBDA zl, v : zzlInsertAt(zl, 0, v, ScoreOf(o.zsl, v)), ziplistNew,
                     Chain(o.zsl, o.zsl.node[Header].next[1], FALSE, o.zsl.length))]

Find(o, v) ==
    IF Has(o, "zl")
    THEN LET i == zzlFind(o.zl, v) IN IF i = 0 THEN <<>> ELSE <<zzlGetScore(o.zl, i)>>
    ELSE IF v \in DOMAIN o.dict THEN <<o.dict[v]>> ELSE <<>>

(* A member with a new score is removed and inserted again; in a ziplist the
   limits are only tested for a member that was not there. *)
Rescored(o, v, old, score, heights) ==
    IF Has(o, "zl")
    THEN [o EXCEPT !.zl = zzlInsert(zzlDelete(@, zzlFind(@, v)), v, score)]
    ELSE Linked([o EXCEPT !.zsl = zslDelete(@, old, v)], v, score, heights)

ConvertFullZSet(o, v, heights) ==
    IF zzlLength(o.zl) > MaxEntries.zset \/ Len(v) > MaxValue.zset
    THEN zsetConvertToSkiplist(o, heights) ELSE o
Added(o, v, score, heights) ==
    IF Has(o, "zl") THEN ConvertFullZSet([o EXCEPT !.zl = zzlInsert(@, v, score)], v, heights)
    ELSE Linked(o, v, score, heights)

RECURSIVE AddPairs(_, _, _, _)
AddPairs(o, vals, incr, heights) ==
    IF vals = <<>> THEN o
    ELSE LET v     == vals[2]
             old   == Find(o, v)
             given == DoubleOf(vals[1])
             score == IF incr /\ old # <<>> THEN AddDouble(given, old[1]) ELSE given
         IN  IF score = NaN THEN o
             ELSE AddPairs(IF old = <<>> THEN Added(o, v, score, heights)
                           ELSE IF old[1] = score THEN o
                           ELSE Rescored(o, v, old[1], score, heights),
                           SubSeq(vals, 3, Len(vals)), incr, heights)

zaddCommand(o, c, heights) ==
    LET new == IF MaxEntries.zset = 0 \/ MaxValue.zset < Len(c.vals[2])
               THEN createZsetObject ELSE createZsetZiplistObject
    IN  AddPairs(OrNew(o, new), c.vals, "incr" \in c.opts, heights)

RemoveMember(o, v) ==
    IF Find(o, v) = <<>> THEN o
    ELSE IF Has(o, "zl") THEN [o EXCEPT !.zl = zzlDelete(@, zzlFind(@, v))]
    ELSE [o EXCEPT !.zsl = zslDelete(@, o.dict[v], v), !.dict = Restrict(@, DOMAIN @ \ {v})]

zremCommand(o, c) ==
    LET p == FoldLeft(RemoveMember, o, c.vals)
    IN  IF o.type = "none" THEN o ELSE OrDeleted(p, zsetLength(p))

(* A skiplist's deletions by range take the members out of the dictionary. *)
Cut(o, zsl) == [o EXCEPT !.zsl = zsl, !.dict = Restrict(@, DOMAIN @ \cap Members(zsl))]

RangeOf(c) == [min |-> c.ints[1], max |-> c.ints[2],
               minex |-> "minex" \in c.opts, maxex |-> "maxex" \in c.opts]

zremrangebyscoreCommand(o, c) ==
    LET p == IF Has(o, "zl") THEN [o EXCEPT !.zl = zzlDeleteRangeByScore(@, RangeOf(c))]
             ELSE Cut(o, zslDeleteRangeByScore(o.zsl, RangeOf(c)))
    IN  IF o.type = "none" THEN o ELSE OrDeleted(p, zsetLength(p))

zremrangebyrankCommand(o, c) ==
    LET len == zsetLength(o)
        start == From(c.ints[1], len) + 1
        end   == To(c.ints[2], len) + 1
        p == IF Has(o, "zl") THEN [o EXCEPT !.zl = zzlDeleteRangeByRank(@, start, end)]
             ELSE Cut(o, zslDeleteRangeByRank(o.zsl, start, end))
    IN  IF o.type = "none" THEN o
        ELSE IF IsEmptyRange(c.ints[1], c.ints[2], len) THEN o
        ELSE OrDeleted(p, zsetLength(p))

(* ZUNIONSTORE and ZINTERSTORE of the key itself, a set or a sorted set,
   with a weight: the result is built as a skiplist, and becomes a ziplist
   when it is within the limits; integers are never too long. *)
zsourceOf(o) ==
    IF o.type = "set" THEN [v \in SetMembers(o) |-> 1]
    ELSE IF Has(o, "zl")
    THEN [v \in { ziplistGet(o.zl, i) : i \in PairsOf(o.zl) } |-> zzlGetScore(o.zl, zzlFind(o.zl, v))]
    ELSE [v \in Members(o.zsl) |-> ScoreOf(o.zsl, v)]

zstoreCommand(o, c, heights) ==
    LET source == zsourceOf(o)
        long   == { v \in DOMAIN source : ~IsInteger(v) /\ Len(v) > MaxValue.zset }
        built  == FoldLeft(LAMBDA p, v : Linked(p, v, OrZero(MulDouble(source[v], c.ints[1])), heights),
                           createZsetObject, SetToSeq(DOMAIN source))
    IN  IF o.type = "none" THEN o
        ELSE IF Cardinality(DOMAIN source) <= MaxEntries.zset /\ long = {}
        THEN zsetConvertToZiplist(built)
        ELSE built

(***************************************************************************)
(* Reading: members, with their scores, from a place on in one direction.  *)
(***************************************************************************)
(* The pairs from the i-th entry on, to the tail or (zzlPrev) to the head. *)
zzlWalk(zl, i, reverse) ==
    IF i = 0 THEN <<>>
    ELSE [j \in 1..(IF reverse THEN (i + 1) \div 2 ELSE zzlLength(zl) - (i - 1) \div 2) |->
            LET at == IF reverse THEN i - 2 * (j - 1) ELSE i + 2 * (j - 1)
            IN  <<ziplistGet(zl, at), zzlGetScore(zl, at)>>]

zslWalk(z, v, reverse) ==
    LET chain == Chain(z, v, reverse, z.length)
    IN  [j \in DOMAIN chain |-> <<chain[j], ScoreOf(z, chain[j])>>]

(* ZRANGE and ZREVRANGE. *)
zrange(o, start, end, reverse) ==
    LET len  == zsetLength(o)
        from == From(start, len)
        n    == To(end, len) - from + 1
        z    == o.zsl
        node == IF from > 0 THEN zslGetElementByRank(z, IF reverse THEN len - from ELSE from + 1)
                ELSE IF reverse THEN z.tail ELSE z.node[Header].next[1]
        walk == IF Has(o, "zl")
                THEN zzlWalk(o.zl, ziplistIndex(o.zl, IF reverse THEN -2 - 2 * from ELSE 2 * from), reverse)
                ELSE zslWalk(z, node, reverse)
    IN  IF IsEmptyRange(start, end, len) THEN <<>> ELSE SubSeq(walk, 1, n)

(* ZRANGEBYSCORE and ZREVRANGEBYSCORE with LIMIT: the offset is walked
   without a look at the scores; a negative limit is none. *)
WalkInRange(o, r, reverse) ==
    IF Has(o, "zl")
    THEN zzlWalk(o.zl, IF reverse THEN zzlLastInRange(o.zl, r) ELSE zzlFirstInRange(o.zl, r), reverse)
    ELSE zslWalk(o.zsl, IF reverse THEN zslLastInRange(o.zsl, r) ELSE zslFirstInRange(o.zsl, r), reverse)

WhileInRange(walk, r, reverse) ==
    LET out(e) == IF reverse THEN ~ValueGteMin(e[2], r) ELSE ~ValueLteMax(e[2], r)
    IN  SubSeq(walk, 1, Min({ i \in DOMAIN walk : out(walk[i]) } \cup {Len(walk) + 1}) - 1)

Limit(walk, limit) == IF limit < 0 THEN walk ELSE SubSeq(walk, 1, Min({limit, Len(walk)}))
Skip(walk, offset) == IF offset < 0 THEN <<>> ELSE SubSeq(walk, offset + 1, Len(walk))

zrangebyscore(o, r, reverse, offset, limit) ==
    Limit(WhileInRange(Skip(WalkInRange(o, r, reverse), offset), r, reverse), limit)

(* ZCOUNT: a skiplist has the ranks of the first and of the last member. *)
zslRank(z, v) == zslGetRank(z, ScoreOf(z, v), v)
zslCount(z, first, last) ==
    IF first = Nil THEN 0
    ELSE (z.length - (zslRank(z, first) - 1)) - (IF last = Nil THEN 0 ELSE z.length - zslRank(z, last))
zcount(o, r) ==
    IF Has(o, "zl") THEN Len(zrangebyscore(o, r, FALSE, 0, -1))
    ELSE zslCount(o.zsl, zslFirstInRange(o.zsl, r), zslLastInRange(o.zsl, r))

(* ZRANK and ZREVRANK, of a member. *)
zrank(o, v, reverse) ==
    LET rank == IF Has(o, "zl") THEN (zzlFind(o.zl, v) + 1) \div 2
                ELSE zslGetRank(o.zsl, o.dict[v], v)
    IN  IF reverse THEN zsetLength(o) - rank ELSE rank - 1
=============================================================================
