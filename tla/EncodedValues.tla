--------------------------- MODULE EncodedValues ----------------------------
(***************************************************************************)
(* The encodings of lists (t_list.c), sets (t_set.c) and hashes            *)
(* (t_hash.c), and their commands on one key.  A value has its type and,   *)
(* in a field named after its encoding, its data: zl (a ziplist),          *)
(* linkedlist (a sequence), intset, or ht (a dictionary: a set, or a       *)
(* function for a hash).  MaxEntries and MaxValue are the limits of the    *)
(* configuration, by type, beyond which a compact encoding is given up.    *)
(***************************************************************************)
EXTENDS CompactEncodings

CONSTANTS MaxEntries, MaxValue

ASSUME LimitsAssumption ==
    /\ MaxEntries \in [{"list", "set", "hash", "zset"} -> Nat]
    /\ MaxValue \in [{"list", "hash", "zset"} -> Nat]

NoObject == [type |-> "none"]
Has(o, encoding) == encoding \in DOMAIN o
OrDeleted(o, length) == IF length = 0 THEN NoObject ELSE o
OrNew(o, new) == IF o.type = "none" THEN new ELSE o
Where(c) == CHOOSE w \in c.opts : w \in {"head", "tail"}

(***************************************************************************)
(* Lists.                                                                  *)
(***************************************************************************)
createZiplistObject == [type |-> "list", zl |-> ziplistNew]
listTypeLength(o) == IF Has(o, "zl") THEN ziplistLen(o.zl) ELSE Len(o.linkedlist)
listTypeConvert(o) == [type |-> "list", linkedlist |-> Strings(o.zl)]

(* Integers are never too long. *)
listTypeTryConversion(o, s) ==
    IF Has(o, "zl") /\ ~IsInteger(s) /\ Len(s) > MaxValue.list THEN listTypeConvert(o) ELSE o

(* The limit on the entries is tested before a push, and after an insertion
   in the middle. *)
Full(o, n) == Has(o, "zl") /\ ziplistLen(o.zl) + n > MaxEntries.list
ConvertFull(o, n) == IF Full(o, n) THEN listTypeConvert(o) ELSE o

listTypePush(o, s, where) ==
    LET p == ConvertFull(listTypeTryConversion(o, s), 1)
    IN  IF Has(p, "zl") THEN [p EXCEPT !.zl = ziplistPush(@, s, where)]
        ELSE [p EXCEPT !.linkedlist = IF where = "head" THEN <<s>> \o @ ELSE Append(@, s)]

listTypePop(o, where) ==
    IF Has(o, "zl")
    THEN [o EXCEPT !.zl = ziplistDelete(@, ziplistIndex(@, IF where = "head" THEN 0 ELSE -1))]
    ELSE [o EXCEPT !.linkedlist = IF where = "head" THEN Tail(@) ELSE Front(@)]

listTypeGet(o, i) == IF Has(o, "zl") THEN ziplistGet(o.zl, i) ELSE o.linkedlist[i]

(* Before or after the i-th element; after the last one is a push. *)
listTypeInsert(o, i, s, where) ==
    LET at == IF where = "head" THEN i ELSE i + 1
    IN  IF Has(o, "zl") THEN [o EXCEPT !.zl = ziplistInsert(@, at, s)]
        ELSE [o EXCEPT !.linkedlist = InsertAt(@, at, s)]

listTypeDelete(o, i) ==
    IF Has(o, "zl") THEN [o EXCEPT !.zl = ziplistDelete(@, i)]
    ELSE [o EXCEPT !.linkedlist = RemoveAt(@, i)]

(* listIndex and ziplistIndex: the position of an index, 0 when out of range. *)
listIndex(l, index) ==
    LET i == IF index < 0 THEN Len(l) + index + 1 ELSE index + 1
    IN  IF i \in DOMAIN l THEN i ELSE 0
lindex(o, index) ==
    IF Has(o, "zl") THEN ziplistIndex(o.zl, index) ELSE listIndex(o.linkedlist, index)

(* A range of indexes, sanitized: from the end, then within the length. *)
From(start, len) == IF start >= 0 THEN start ELSE IF len + start < 0 THEN 0 ELSE len + start
To(end, len) ==
    LET e == IF end < 0 THEN len + end ELSE end IN IF e >= len THEN len - 1 ELSE e
IsEmptyRange(start, end, len) == From(start, len) > To(end, len) \/ From(start, len) >= len

(* LRANGE; a linked list is entered from its nearer end. *)
lrange(o, start, end) ==
    LET len  == listTypeLength(o)
        from == From(start, len)
        near == IF Has(o, "linkedlist") /\ from > len \div 2 THEN from - len ELSE from
        at   == lindex(o, near)
    IN  IF IsEmptyRange(start, end, len) THEN <<>>
        ELSE [j \in 1..To(end, len) - from + 1 |-> listTypeGet(o, at + j - 1)]

pushCommand(o, c) ==
    FoldLeft(LAMBDA p, s : listTypePush(p, s, Where(c)), OrNew(o, createZiplistObject), c.vals)

pushxCommand(o, c) == IF o.type = "none" THEN o ELSE listTypePush(o, c.vals[1], Where(c))

(* LINSERT converts before it looks for the pivot, found or not. *)
linsertCommand(o, c) ==
    LET p  == listTypeTryConversion(o, c.vals[2])
        at == { i \in 1..listTypeLength(p) : listTypeGet(p, i) = c.vals[1] }
    IN  IF o.type = "none" THEN o
        ELSE IF at = {} THEN p
        ELSE ConvertFull(listTypeInsert(p, Min(at), c.vals[2], Where(c)), 0)

(* A ziplist deletes the old string and inserts the new one in its place. *)
lsetCommand(o, c) ==
    LET p  == listTypeTryConversion(o, c.vals[1])
        at == lindex(p, c.ints[1])
    IN  IF o.type = "none" THEN o
        ELSE IF at = 0 THEN p
        ELSE IF Has(p, "zl")
        THEN [p EXCEPT !.zl = ziplistInsert(ziplistDelete(@, at), at, c.vals[1])]
        ELSE [p EXCEPT !.linkedlist = ReplaceAt(@, at, c.vals[1])]

popCommand(o, c) ==
    IF o.type = "none" THEN o
    ELSE LET p == listTypePop(o, Where(c)) IN OrDeleted(p, listTypeLength(p))

TrimLeft(zl, ltrim) == ziplistDeleteRange(zl, ziplistIndex(zl, 0), ltrim)
TrimRight(zl, rtrim) == ziplistDeleteRange(zl, ziplistIndex(zl, -rtrim), rtrim)
Trim(o, ltrim, rtrim) ==
    IF Has(o, "zl") THEN [o EXCEPT !.zl = TrimRight(TrimLeft(@, ltrim), rtrim)]
    ELSE [o EXCEPT !.linkedlist = SubSeq(@, ltrim + 1, Len(@) - rtrim)]
DeletedIfEmpty(o) == OrDeleted(o, listTypeLength(o))

ltrimCommand(o, c) ==
    LET len == listTypeLength(o)
    IN  IF o.type = "none" THEN o
        ELSE IF IsEmptyRange(c.ints[1], c.ints[2], len) THEN NoObject
        ELSE DeletedIfEmpty(Trim(o, From(c.ints[1], len), len - To(c.ints[2], len) - 1))

(* LREM walks from the head, or from the tail when the count is negative,
   and deletes as it goes, up to the count. *)
RECURSIVE RemoveFrom(_, _, _, _, _)
RemoveFrom(o, i, s, step, count) ==
    IF i \notin 1..listTypeLength(o) \/ count = 0 THEN o
    ELSE IF listTypeGet(o, i) # s THEN RemoveFrom(o, i + step, s, step, count)
    ELSE RemoveFrom(listTypeDelete(o, i), IF step = 1 THEN i ELSE i - 1, s, step, count - 1)

lremCommand(o, c) ==
    LET n   == c.ints[1]
        len == listTypeLength(o)
    IN  IF o.type = "none" THEN o
        ELSE DeletedIfEmpty(IF n < 0 THEN RemoveFrom(o, len, c.vals[1], -1, -n)
                            ELSE RemoveFrom(o, 1, c.vals[1], 1, IF n = 0 THEN len ELSE n))

(***************************************************************************)
(* Sets.                                                                   *)
(***************************************************************************)
createIntsetObject == [type |-> "set", intset |-> intsetNew]
setTypeCreate(s) == IF IsInteger(s) THEN createIntsetObject ELSE [type |-> "set", ht |-> {}]

setTypeSize(o) == IF Has(o, "ht") THEN Cardinality(o.ht) ELSE intsetLen(o.intset)
SetMembers(o) == IF Has(o, "ht") THEN o.ht
                 ELSE { StringOf(o.intset.contents[i]) : i \in DOMAIN o.intset.contents }
setTypeConvert(o) == [type |-> "set", ht |-> SetMembers(o)]

(* The limit is tested when an element was added. *)
setTypeAdd(o, s) ==
    IF Has(o, "ht") THEN [o EXCEPT !.ht = @ \cup {s}]
    ELSE IF ~IsInteger(s) THEN [setTypeConvert(o) EXCEPT !.ht = @ \cup {s}]
    ELSE LET p == [o EXCEPT !.intset = intsetAdd(@, Value(s))]
         IN  IF p # o /\ setTypeSize(p) > MaxEntries.set THEN setTypeConvert(p) ELSE p

setTypeRemove(o, s) ==
    IF Has(o, "ht") THEN [o EXCEPT !.ht = @ \ {s}]
    ELSE IF IsInteger(s) THEN [o EXCEPT !.intset = intsetRemove(@, Value(s))]
    ELSE o

setTypeIsMember(o, s) ==
    IF Has(o, "ht") THEN s \in o.ht ELSE IsInteger(s) /\ intsetFind(o.intset, Value(s))

saddCommand(o, c) == FoldLeft(setTypeAdd, OrNew(o, setTypeCreate(c.vals[1])), c.vals)

sremCommand(o, c) ==
    LET p == FoldLeft(setTypeRemove, o, c.vals)
    IN  IF o.type = "none" THEN o ELSE OrDeleted(p, setTypeSize(p))

(* SUNIONSTORE and SINTERSTORE of the key itself: the result is built anew,
   from an empty intset. *)
sstoreCommand(o, c) ==
    IF o.type = "none" THEN o
    ELSE FoldLeft(setTypeAdd, createIntsetObject, SetToSeq(SetMembers(o)))

(***************************************************************************)
(* Hashes: in a ziplist, a field is followed by its string.                *)
(***************************************************************************)
createHashObject == [type |-> "hash", zl |-> ziplistNew]
hashTypeLength(o) ==
    IF Has(o, "zl") THEN ziplistLen(o.zl) \div 2 ELSE Cardinality(DOMAIN o.ht)

Fields(o) == IF Has(o, "ht") THEN DOMAIN o.ht
             ELSE { ziplistGet(o.zl, 2 * i - 1) : i \in 1..hashTypeLength(o) }
hashTypeExists(o, f) ==
    IF Has(o, "ht") THEN f \in DOMAIN o.ht ELSE ziplistFind(o.zl, f, 1) # 0
hashTypeGet(o, f) ==
    IF Has(o, "ht") THEN o.ht[f] ELSE ziplistGet(o.zl, ziplistFind(o.zl, f, 1) + 1)

hashTypeConvert(o) == [type |-> "hash", ht |-> [f \in Fields(o) |-> hashTypeGet(o, f)]]

hashTypeTryConversion(o, strings) ==
    IF Has(o, "zl") /\ \E i \in DOMAIN strings : Len(strings[i]) > MaxValue.hash
    THEN hashTypeConvert(o) ELSE o

HashStored(o, at, f, s) ==
    [o EXCEPT !.zl = IF at = 0 THEN ziplistPush(ziplistPush(@, f, "tail"), s, "tail")
                     ELSE ziplistInsert(ziplistDelete(@, at + 1), at + 1, s)]
ConvertFullHash(o) == IF hashTypeLength(o) > MaxEntries.hash THEN hashTypeConvert(o) ELSE o

(* Mutant: a field is sought among the strings too. *)
SetAnywhere(o, f, s) ==
    IF Has(o, "ht") THEN [o EXCEPT !.ht = (f :> s) @@ @]
    ELSE ConvertFullHash(HashStored(o, ziplistFind(o.zl, f, 0), f, s))

hashTypeSet(o, f, s) ==
    IF Has(o, "ht") THEN [o EXCEPT !.ht = (f :> s) @@ @]
    ELSE ConvertFullHash(HashStored(o, ziplistFind(o.zl, f, 1), f, s))

hashTypeDelete(o, f) ==
    LET at == ziplistFind(o.zl, f, 1)
    IN  IF Has(o, "ht") THEN [o EXCEPT !.ht = Restrict(@, DOMAIN @ \ {f})]
        ELSE IF at = 0 THEN o
        ELSE [o EXCEPT !.zl = ziplistDelete(ziplistDelete(@, at), at)]

RECURSIVE SetAll(_, _)
SetAll(o, vals) ==
    IF vals = <<>> THEN o
    ELSE SetAll(hashTypeSet(o, vals[1], vals[2]), SubSeq(vals, 3, Len(vals)))

(* HSET, HSETNX and HMSET: HSETNX converts whether it sets or not. *)
hsetCommand(o, c) ==
    LET p == hashTypeTryConversion(OrNew(o, createHashObject), c.vals)
    IN  IF "nx" \in c.opts /\ hashTypeExists(p, c.vals[1]) THEN p ELSE SetAll(p, c.vals)

(* HINCRBY does not look at the length of the field.  A hash that it creates
   and cannot increment does not occur: an absent field counts as 0. *)
hincrbyCommand(o, c) ==
    LET p   == OrNew(o, createHashObject)
        f   == c.vals[1]
        by  == Value(c.vals[2])
        old == IF hashTypeExists(p, f) THEN hashTypeGet(p, f) ELSE <<48>>
    IN  IF ~IsLong(old) THEN o
        ELSE IF Value(old) + by \notin -MaxLong - 1 .. MaxLong THEN o
        ELSE hashTypeSet(p, f, StringOf(Value(old) + by))

hdelCommand(o, c) ==
    LET p == FoldLeft(hashTypeDelete, o, c.vals)
    IN  IF o.type = "none" THEN o ELSE OrDeleted(p, hashTypeLength(p))
=============================================================================
