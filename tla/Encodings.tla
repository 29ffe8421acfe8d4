----------------------------- MODULE Encodings ------------------------------
(***************************************************************************)
(* One value of the keyspace in its encoding, beside the same value as     *)
(* module Commands has it: a value must not show how it is encoded.  The   *)
(* commands on the value change the structures of the encodings, convert   *)
(* them when the limits of the configuration are exceeded, and read them;  *)
(* the value can be saved and loaded again, and come from another server.  *)
(***************************************************************************)
EXTENDS Dumps

CONSTANTS
    MaxStringLen,
    Calls,       \* the calls on the key
    Texts,       \* the strings in them
    Payloads,    \* values in the encodings of a server with other limits
    Bounds,      \* the scores that ranges are bounded by
    MaxElements, \* bounds on the elements of the value, by type
    MaxScore     \* bound on its finite scores

VARIABLES obj,   \* the value in its encoding
          val    \* the dataset: the key with its value, or no key

vars == <<obj, val>>

Abstract == INSTANCE Commands

TypeFor(c) ==
    CASE c.op \in {"push", "pushx", "linsert", "lset", "pop", "ltrim", "lrem"} -> {"list"}
      [] c.op \in {"sadd", "srem", "spop", "sunionDiffStore", "sinterstore"}   -> {"set"}
      [] c.op \in {"hset", "hincrby", "hdel"}                                  -> {"hash"}
      [] c.op \in {"zadd", "zrem", "zremrangebyscore", "zremrangebyrank"}      -> {"zset"}
      [] c.op = "zunionInterStore"                                             -> {"set", "zset"}

Run(o, c, heights) ==
    CASE c.op = "push"                               -> pushCommand(o, c)
      [] c.op = "pushx"                              -> pushxCommand(o, c)
      [] c.op = "linsert"                            -> linsertCommand(o, c)
      [] c.op = "lset"                               -> lsetCommand(o, c)
      [] c.op = "pop"                                -> popCommand(o, c)
      [] c.op = "ltrim"                              -> ltrimCommand(o, c)
      [] c.op = "lrem"                               -> lremCommand(o, c)
      [] c.op = "sadd"                               -> saddCommand(o, c)
      [] c.op \in {"srem", "spop"}                   -> sremCommand(o, c)
      [] c.op \in {"sunionDiffStore", "sinterstore"} -> sstoreCommand(o, c)
      [] c.op = "hset"                               -> hsetCommand(o, c)
      [] c.op = "hincrby"                            -> hincrbyCommand(o, c)
      [] c.op = "hdel"                               -> hdelCommand(o, c)
      [] c.op = "zadd"                               -> zaddCommand(o, c, heights)
      [] c.op = "zrem"                               -> zremCommand(o, c)
      [] c.op = "zremrangebyscore"                   -> zremrangebyscoreCommand(o, c)
      [] c.op = "zremrangebyrank"                    -> zremrangebyrankCommand(o, c)
      [] c.op = "zunionInterStore"                   -> zstoreCommand(o, c, heights)

(* SPOP draws a member of the set. *)
Drawn(c) == c.op = "spop" => obj.type = "set" /\ setTypeIsMember(obj, c.vals[1])

(* Random heights for the nodes that a command may insert. *)
Heights(c) ==
    LET named == { c.vals[i] : i \in { j \in DOMAIN c.vals : j % 2 = 0 } }
        there == IF obj.type \in {"set", "zset"} THEN DOMAIN zsourceOf(obj) ELSE {}
    IN  IF c.op = "zunionInterStore" THEN [there -> 1..MaxLevel]
        ELSE IF c.op # "zadd" THEN {<<>>}
        ELSE IF Has(obj, "zl") THEN [named \cup there -> 1..MaxLevel]
        ELSE [named -> 1..MaxLevel]

Intact == Has(obj, "zl") => ~obj.zl.lost

Small(v) ==
    CASE TypeOf(v) = "list" -> Len(v.list) <= MaxElements.list
      [] TypeOf(v) = "set"  -> Cardinality(v.set) <= MaxElements.set
      [] TypeOf(v) = "hash" -> Cardinality(DOMAIN v.hash) <= MaxElements.hash
      [] TypeOf(v) = "zset" ->
            /\ Cardinality(DOMAIN v.zset) <= MaxElements.zset
            /\ \A m \in DOMAIN v.zset : v.zset[m] \in {-Infinity, Infinity} \cup -MaxScore..MaxScore

Execute(c) ==
    /\ Intact
    /\ obj.type \in TypeFor(c) \cup {"none"}
    /\ Drawn(c)
    /\ val' = Abstract!RunCall(Abstract!Fresh(val, <<>>, 0), c).db
    /\ \A k \in DOMAIN val' : Small(val'[k])
    /\ \E heights \in Heights(c) : obj' = Run(obj, c, heights)

AllHeights(o) == IF o.type = "zset" THEN [DOMAIN zsourceOf(o) -> 1..MaxLevel] ELSE {<<>>}

(* The server is restarted from a dump, or by DEBUG RELOAD. *)
Reload ==
    /\ Intact /\ obj.type # "none"
    /\ \E heights \in AllHeights(obj) : obj' = Reloaded(obj, heights)
    /\ UNCHANGED val

(* It is restarted from an append only file that has just been rewritten. *)
LoadRewritten ==
    /\ Intact /\ obj.type # "none"
    /\ \E heights \in AllHeights(obj) : obj' = Rewritten(obj, heights)
    /\ UNCHANGED val

ContentOf(o) ==
    CASE o.type = "list" -> List([i \in 1..listTypeLength(o) |-> listTypeGet(o, i)])
      [] o.type = "set"  -> Set(SetMembers(o))
      [] o.type = "hash" -> Hash([f \in Fields(o) |-> hashTypeGet(o, f)])
      [] o.type = "zset" -> ZSet(zsourceOf(o))

(* RESTORE of the key k, with what DUMP or MIGRATE made of it. *)
Restore(k, payload) ==
    /\ obj.type = "none"
    /\ \E heights \in AllHeights(payload) : obj' = Reloaded(payload, heights)
    /\ val' = k :> ContentOf(payload)

Init == obj = NoObject /\ val = <<>>

Next ==
    \/ \E c \in Calls : Execute(c)
    \/ Reload \/ LoadRewritten
    \/ \E c \in Calls, payload \in Payloads : Restore(c.keys[1], payload)

Spec == Init /\ [][Next]_vars

(***************************************************************************)
(* What must hold.                                                         *)
(***************************************************************************)
(* A compact encoding has no more entries than the configuration allows.
   Their lengths it cannot vouch for: a value that is loaded is not looked
   through, HINCRBY and HINCRBYFLOAT do not look at what they store, and an
   integer is not measured. *)
LimitsHold ==
    CASE obj.type = "list" -> Has(obj, "zl") => ziplistLen(obj.zl) <= MaxEntries.list
      [] obj.type = "set"  -> Has(obj, "intset") => intsetLen(obj.intset) <= MaxEntries.set
      [] obj.type = "hash" -> Has(obj, "zl") => hashTypeLength(obj) <= MaxEntries.hash
      [] obj.type = "zset" -> Has(obj, "zl") => zzlLength(obj.zl) <= MaxEntries.zset
      [] OTHER             -> TRUE

(* The structures are well formed: a ziplist can be walked in both
   directions, an intset is sorted and as wide as its elements, the levels,
   spans and links of a skiplist fit its order, and its dictionary has the
   same members with the same scores (ziplist.c, intset.c, t_zset.c); what is
   encoded compactly has no more entries than allowed. *)
WellFormed ==
    /\ LimitsHold
    /\ Has(obj, "zl") /\ Intact => IsZiplist(obj.zl)
    /\ Has(obj, "intset") => IsIntset(obj.intset)
    /\ Has(obj, "zsl") => /\ IsSkiplist(obj.zsl)
                          /\ obj.dict = [v \in Members(obj.zsl) |-> ScoreOf(obj.zsl, v)]

(* A value is what its commands made of it, whatever its encoding and
   however often it was converted, dumped and loaded, rewritten and replayed,
   or moved between servers (t_list.c, t_set.c, t_hash.c, t_zset.c, rdb.c,
   aof.c, migrate.c). *)
EncodingsAgree ==
    Intact => IF obj.type = "none" THEN val = <<>>
              ELSE { val[k] : k \in DOMAIN val } = {ContentOf(obj)}

Rev(s, reverse) == IF reverse THEN Reverse(s) ELSE s
ScoreRanges == { r \in [min : Bounds, max : Bounds, minex : BOOLEAN, maxex : BOOLEAN] :
                   r.minex => r.maxex }

ListReads(l) ==
    LET indexes == -Len(l) - 1 .. Len(l)
    IN  /\ listTypeLength(obj) = Len(l)
        /\ \A i \in indexes : LET at == lindex(obj, i)
              IN  at = IF Abstract!Position(l, i) \in DOMAIN l THEN Abstract!Position(l, i) ELSE 0
        /\ \A i, j \in indexes : lrange(obj, i, j) = Slice(l, IndexRange(i, j, Len(l)))

ZSetReads(z) ==
    LET ranked  == Abstract!Ranked(z)
        scored  == [i \in DOMAIN ranked |-> <<ranked[i], z[ranked[i]]>>]
        indexes == -Len(ranked) - 1 .. Len(ranked)
        within(r, reverse) ==
            Rev(SelectSeq(scored, LAMBDA e : ValueGteMin(e[2], r) /\ ValueLteMax(e[2], r)), reverse)
    IN  /\ zsetLength(obj) = Len(ranked)
        /\ \A v \in Texts : Find(obj, v) = IF v \in DOMAIN z THEN <<z[v]>> ELSE <<>>
        /\ \A i \in DOMAIN ranked : /\ zrank(obj, ranked[i], FALSE) = i - 1
                                    /\ zrank(obj, ranked[i], TRUE) = Len(ranked) - i
        /\ \A i, j \in indexes : \A reverse \in BOOLEAN :
              zrange(obj, i, j, reverse) = Slice(Rev(scored, reverse), IndexRange(i, j, Len(ranked)))
        /\ \A r \in ScoreRanges :
              /\ zcount(obj, r) = Len(within(r, FALSE))
              /\ \A reverse \in BOOLEAN : \A offset \in -1..1, limit \in {-1, 1} :
                    zrangebyscore(obj, r, reverse, offset, limit) =
                        LET all == within(r, reverse)
                        IN  IF offset < 0 THEN <<>>
                            ELSE SubSeq(all, offset + 1, IF limit < 0 THEN Len(all) ELSE Min({offset + limit, Len(all)}))

(* The reading commands answer what the value says: LINDEX and LRANGE for
   every index, from either end, SISMEMBER, HGET, ZSCORE, ZRANK, ZRANGE,
   ZRANGEBYSCORE with LIMIT and ZCOUNT, in both directions. *)
ReadsAgree ==
    \A k \in DOMAIN val : Intact =>
        CASE obj.type = "list" -> ListReads(val[k].list)
          [] obj.type = "set"  ->
                /\ setTypeSize(obj) = Cardinality(val[k].set)
                /\ \A s \in Texts : setTypeIsMember(obj, s) <=> s \in val[k].set
          [] obj.type = "hash" ->
                /\ hashTypeLength(obj) = Cardinality(DOMAIN val[k].hash)
                /\ \A s \in Texts : hashTypeExists(obj, s) <=> s \in DOMAIN val[k].hash
          [] obj.type = "zset" -> ZSetReads(val[k].zset)

(* redis.conf:484-486: a hash is encoded compactly when "the biggest entry
   does not exceed a given threshold".  (Refuted by HINCRBY, and by loading.) *)
FieldsWithinLimit ==
    obj.type = "hash" /\ Has(obj, "zl") => \A f \in Fields(obj) : Len(f) <= MaxValue.hash

(* A ziplist is never cut before its contents were moved: the field of an
   entry "is allowed to stay larger than necessary" (ziplist.c:448-452), and
   an insertion before such an entry must keep what is behind it.  (Refuted.) *)
NothingLost == Intact
=============================================================================
