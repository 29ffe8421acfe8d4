------------------------------- MODULE Dumps --------------------------------
(***************************************************************************)
(* Values on disk: as RDB writes and reads them (rdb.c; DUMP and RESTORE   *)
(* do the same, migrate.c), and as the commands that a rewrite of the      *)
(* append only file emits (aof.c).                                         *)
(* A dump is a sequence of bytes, in which the blob of a ziplist or of an  *)
(* intset is one item.  LenBits are the widths of the two short lengths (6 *)
(* and 14 bits), EncBits those of the encoded integers (8, 16 and 32).     *)
(***************************************************************************)
EXTENDS EncodedZSets

CONSTANTS LenBits, EncBits,
          LzfOver,       \* strings longer than this are compressed
          ItemsPerCmd    \* REDIS_AOF_REWRITE_ITEMS_PER_CMD

ASSUME DumpsAssumption ==
    /\ LenBits \in Nat \X Nat /\ 2 <= LenBits[1] /\ LenBits[1] < LenBits[2]
    /\ EncBits \in Nat \X Nat \X Nat
    /\ 0 < EncBits[1] /\ EncBits[1] < EncBits[2] /\ EncBits[2] < EncBits[3]
    /\ LzfOver \in Nat /\ ItemsPerCmd \in Nat \ {0}

(***************************************************************************)
(* Lengths, integers and strings.  The first byte of a string has a type   *)
(* above LenBits[1] bits: a length, or how the string is encoded.          *)
(***************************************************************************)
ENCVAL == 3
ENC_LZF == 3
TypeByte(type, payload) == type * 2^LenBits[1] + payload
SecondByte == 2^(LenBits[2] - LenBits[1])

rdbSaveLen(n) ==
    IF n < 2^LenBits[1] THEN <<TypeByte(0, n)>>
    ELSE IF n < 2^LenBits[2] THEN <<TypeByte(1, n \div SecondByte), n % SecondByte>>
    ELSE <<TypeByte(2, 0), n>>

rdbLoadLen(s) ==
    LET type    == s[1] \div 2^LenBits[1]
        payload == s[1] % 2^LenBits[1]
    IN  CASE type = ENCVAL -> [encoded |-> TRUE, len |-> payload, rest |-> Tail(s)]
          [] type = 0      -> [encoded |-> FALSE, len |-> payload, rest |-> Tail(s)]
          [] type = 1      -> [encoded |-> FALSE, len |-> payload * SecondByte + s[2],
                               rest |-> SubSeq(s, 3, Len(s))]
          [] type = 2      -> [encoded |-> FALSE, len |-> s[2], rest |-> SubSeq(s, 3, Len(s))]

(* The narrowest encoding, in two's complement; none for a wide integer. *)
rdbEncodeInteger(v) ==
    LET fits == { i \in 1..3 : v \in -(2^(EncBits[i] - 1)) .. 2^(EncBits[i] - 1) - 1 }
    IN  IF fits = {} THEN <<>> ELSE <<TypeByte(ENCVAL, Min(fits) - 1), v % 2^EncBits[Min(fits)]>>

rdbLoadInteger(i, n) == IF n >= 2^(EncBits[i] - 1) THEN n - 2^EncBits[i] ELSE n

(* The compression library, on strings that repeat one byte. *)
lzf_compress(s) == IF \A i \in DOMAIN s : s[i] = s[1] THEN <<s[1]>> ELSE <<>>
lzf_decompress(c, len) == [i \in 1..len |-> c[1]]

rdbSaveRawString(s) ==
    LET enc  == IF Len(s) <= 11 /\ IsInteger(s) THEN rdbEncodeInteger(Value(s)) ELSE <<>>
        lzf  == IF Len(s) > LzfOver THEN lzf_compress(s) ELSE <<>>
    IN  IF enc # <<>> THEN enc
        ELSE IF lzf # <<>>
        THEN <<TypeByte(ENCVAL, ENC_LZF)>> \o rdbSaveLen(Len(lzf)) \o rdbSaveLen(Len(s)) \o lzf
        ELSE rdbSaveLen(Len(s)) \o s

rdbLoadLzfString(s) ==
    LET clen == rdbLoadLen(s)
        len  == rdbLoadLen(clen.rest)
    IN  [str |-> lzf_decompress(SubSeq(len.rest, 1, clen.len), len.len), int |-> FALSE,
         rest |-> SubSeq(len.rest, clen.len + 1, Len(len.rest))]

(* Whether the string was an encoded integer is told to the caller. *)
rdbLoadString(s) ==
    LET l == rdbLoadLen(s)
    IN  IF l.encoded /\ l.len = ENC_LZF THEN rdbLoadLzfString(l.rest)
        ELSE IF l.encoded
        THEN [str |-> StringOf(rdbLoadInteger(l.len + 1, Head(l.rest))), int |-> TRUE, rest |-> Tail(l.rest)]
        ELSE [str |-> SubSeq(l.rest, 1, l.len), int |-> FALSE,
              rest |-> SubSeq(l.rest, l.len + 1, Len(l.rest))]

(* Scores are text behind a length, with two lengths for the infinities. *)
rdbSaveDoubleValue(x) ==
    IF x = Infinity THEN <<254>> ELSE IF x = -Infinity THEN <<255>>
    ELSE <<Len(StringOf(x))>> \o StringOf(x)

rdbLoadDoubleValue(s) ==
    CASE s[1] = 255 -> [score |-> -Infinity, rest |-> Tail(s)]
      [] s[1] = 254 -> [score |-> Infinity, rest |-> Tail(s)]
      [] OTHER      -> [score |-> DoubleOf(SubSeq(s, 2, s[1] + 1)), rest |-> SubSeq(s, s[1] + 2, Len(s))]

(***************************************************************************)
(* Objects.                                                                *)
(***************************************************************************)
Compact(o) == Has(o, "zl") \/ Has(o, "intset")
rdbSaveObjectType(o) == <<o.type, Compact(o)>>

SavedStrings(s) == FlattenSeq([i \in DOMAIN s |-> rdbSaveRawString(s[i])])

rdbSaveObject(o) ==
    IF Has(o, "zl") THEN <<o.zl>>
    ELSE IF Has(o, "intset") THEN <<o.intset>>
    ELSE IF o.type = "list" THEN rdbSaveLen(Len(o.linkedlist)) \o SavedStrings(o.linkedlist)
    ELSE IF o.type = "set" THEN rdbSaveLen(Cardinality(o.ht)) \o SavedStrings(SetToSeq(o.ht))
    ELSE IF o.type = "hash"
    THEN LET pairs == [i \in 1..Cardinality(DOMAIN o.ht) |->
                         LET f == SetToSeq(DOMAIN o.ht)[i] IN <<f, o.ht[f]>>]
         IN  rdbSaveLen(Len(pairs)) \o SavedStrings(FlattenSeq(pairs))
    ELSE LET members == SetToSeq(DOMAIN o.dict)
             saved(v) == rdbSaveRawString(v) \o rdbSaveDoubleValue(o.dict[v])
         IN  rdbSaveLen(Len(members)) \o FlattenSeq([i \in DOMAIN members |-> saved(members[i])])

RECURSIVE LoadStrings(_, _)
LoadStrings(s, n) ==
    IF n = 0 THEN <<>>
    ELSE LET e == rdbLoadString(s) IN <<e>> \o LoadStrings(e.rest, n - 1)

RECURSIVE LoadScored(_, _)
LoadScored(s, n) ==
    IF n = 0 THEN <<>>
    ELSE LET e == rdbLoadString(s)
             x == rdbLoadDoubleValue(e.rest)
         IN  <<<<e.str, x.score>>>> \o LoadScored(x.rest, n - 1)

(* A list is a ziplist until a string that was no integer is too long. *)
LoadList(elements) ==
    LET long(o, e) == Has(o, "zl") /\ ~e.int /\ Len(e.str) > MaxValue.list
        load(o, e) == LET p == IF long(o, e) THEN listTypeConvert(o) ELSE o
                      IN  IF Has(p, "zl") THEN [p EXCEPT !.zl = ziplistPush(@, e.str, "tail")]
                          ELSE [p EXCEPT !.linkedlist = Append(@, e.str)]
    IN  FoldLeft(load, IF Len(elements) > MaxEntries.list
                       THEN [type |-> "list", linkedlist |-> <<>>] ELSE createZiplistObject, elements)

(* A set is an intset until a member is no integer. *)
LoadSet(elements) ==
    LET load(o, e) == LET p == IF Has(o, "intset") /\ ~IsInteger(e.str) THEN setTypeConvert(o) ELSE o
                      IN  IF Has(p, "ht") THEN [p EXCEPT !.ht = @ \cup {e.str}]
                          ELSE [p EXCEPT !.intset = intsetAdd(@, Value(e.str))]
    IN  FoldLeft(load, IF Len(elements) > MaxEntries.set
                       THEN [type |-> "set", ht |-> {}] ELSE createIntsetObject, elements)

(* A sorted set is a skiplist, and becomes a ziplist afterwards. *)
LoadZSet(pairs, heights) ==
    LET built == FoldLeft(LAMBDA o, p : Linked(o, p[1], p[2], heights), createZsetObject, pairs)
        long  == { i \in DOMAIN pairs : ~IsInteger(pairs[i][1]) /\ Len(pairs[i][1]) > MaxValue.zset }
    IN  IF Len(pairs) <= MaxEntries.zset /\ long = {} THEN zsetConvertToZiplist(built) ELSE built

(* A hash is a ziplist up to and including the first pair with a string that
   is too long; fields do not occur twice. *)
LoadHash(strings) ==
    LET field(i) == strings[2 * i - 1].str
        value(i) == strings[2 * i].str
        load(o, i) ==
            IF Has(o, "ht") THEN [o EXCEPT !.ht = (field(i) :> value(i)) @@ @]
            ELSE LET p == [o EXCEPT !.zl = ziplistPush(ziplistPush(@, field(i), "tail"), value(i), "tail")]
                 IN  IF Max({Len(field(i)), Len(value(i))}) > MaxValue.hash THEN hashTypeConvert(p) ELSE p
        n == Len(strings) \div 2
    IN  FoldLeft(load, IF n > MaxEntries.hash THEN hashTypeConvert(createHashObject) ELSE createHashObject,
                 [i \in 1..n |-> i])

(* A blob is taken as it is, and converted when it has too many entries for
   the configuration of this server. *)
LoadCompact(type, blob, heights) ==
    LET o == IF type = "set" THEN [type |-> type, intset |-> blob] ELSE [type |-> type, zl |-> blob]
    IN  CASE type = "list" -> IF ziplistLen(blob) > MaxEntries.list THEN listTypeConvert(o) ELSE o
          [] type = "set"  -> IF intsetLen(blob) > MaxEntries.set THEN setTypeConvert(o) ELSE o
          [] type = "zset" -> IF zsetLength(o) > MaxEntries.zset THEN zsetConvertToSkiplist(o, heights) ELSE o
          [] type = "hash" -> IF hashTypeLength(o) > MaxEntries.hash THEN hashTypeConvert(o) ELSE o

rdbLoadObject(rdbtype, s, heights) ==
    LET type == rdbtype[1]
        l    == rdbLoadLen(s)
    IN  IF rdbtype[2] THEN LoadCompact(type, s[1], heights)
        ELSE CASE type = "list" -> LoadList(LoadStrings(l.rest, l.len))
               [] type = "set"  -> LoadSet(LoadStrings(l.rest, l.len))
               [] type = "zset" -> LoadZSet(LoadScored(l.rest, l.len), heights)
               [] type = "hash" -> LoadHash(LoadStrings(l.rest, 2 * l.len))

Reloaded(o, heights) == rdbLoadObject(rdbSaveObjectType(o), rdbSaveObject(o), heights)

(***************************************************************************)
(* The commands of a rewrite: a header that announces how many items of    *)
(* `per` strings follow, then the items.                                   *)
(***************************************************************************)
DoubleText(x) ==
    IF x = Infinity THEN Inf ELSE IF x = -Infinity THEN <<Minus>> \o Inf ELSE StringOf(x)

(* What the object is made of, in the order of its encoding. *)
Items(o) ==
    CASE o.type = "list" -> [i \in 1..listTypeLength(o) |-> <<listTypeGet(o, i)>>]
      [] o.type = "set"  -> LET s == SetToSeq(SetMembers(o)) IN [i \in DOMAIN s |-> <<s[i]>>]
      [] o.type = "zset" -> LET z == zsourceOf(o)
                                s == SetToSeq(DOMAIN z)
                            IN  [i \in DOMAIN s |-> <<DoubleText(z[s[i]]), s[i]>>]
      [] o.type = "hash" -> LET s == SetToSeq(Fields(o)) IN [i \in DOMAIN s |-> <<s[i], hashTypeGet(o, s[i])>>]

rewriteObject(items) ==
    [i \in DOMAIN items |->
        IF (i - 1) % ItemsPerCmd = 0
        THEN <<<<Min({Len(items) - i + 1, ItemsPerCmd})>>, items[i]>> ELSE <<items[i]>>]

(* The loader takes a header, and as many items as it says. *)
RECURSIVE Commands(_)
Commands(aof) ==
    IF aof = <<>> THEN <<>>
    ELSE LET n == Head(aof)[1]
         IN  <<[vals |-> FlattenSeq(SubSeq(aof, 2, n + 1)), opts |-> {"tail"}]>>
             \o Commands(SubSeq(aof, n + 2, Len(aof)))

Replay(o, type, c, heights) ==
    CASE type = "list" -> pushCommand(o, c)
      [] type = "set"  -> saddCommand(o, c)
      [] type = "zset" -> zaddCommand(o, c, heights)
      [] type = "hash" -> hsetCommand(o, c)

Rewritten(o, heights) ==
    FoldLeft(LAMBDA p, c : Replay(p, o.type, c, heights), NoObject,
             Commands(FlattenSeq(rewriteObject(Items(o)))))
=============================================================================
