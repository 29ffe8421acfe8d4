---------------------------- MODULE MCEncodings -----------------------------
(* Encodings for TLC: one key, strings of every size that a ziplist tells  *)
(* apart (an integer, the largest that fits a small field only when its    *)
(* own field is small, one that needs a large field, one over the limit).  *)
EXTENDS Encodings

k == <<0, <<97>>>>
One == <<49>>
Two == <<50>>
XX == <<120, 120>>
Big == [i \in 1..7 |-> 121]
Huge == [i \in 1..8 |-> 122]
MinusInf == <<Minus>> \o Inf
Strings7 == {One, XX, Big}

C(op, vals, ints, opts) == Abstract!Call(op, <<k>>, vals, ints, opts)

ListCalls ==
    { C("push", <<s>>, <<>>, {w}) : s \in Strings7, w \in {"head", "tail"} }
    \cup { C("linsert", <<p, s>>, <<>>, {w}) : p \in {One, XX}, s \in {One, XX, Huge}, w \in {"head", "tail"} }
    \cup { C("lset", <<s>>, <<i>>, {}) : s \in Strings7, i \in {0, 1, -1} }
    \cup { C("lset", <<Huge>>, <<0>>, {}), C("push", <<One, Two>>, <<>>, {"head"}), C("pushx", <<XX>>, <<>>, {"tail"}) }
    \cup { C("pop", <<>>, <<>>, {w}) : w \in {"head", "tail"} }
    \cup { C("lrem", <<s>>, <<n>>, {}) : s \in {One, XX}, n \in {-1, 0, 1} }
    \cup { C("ltrim", <<>>, <<i, j>>, {}) : i \in {0, 1}, j \in {-2, 1} }

Integers9 == { StringOf(n) : n \in {-7, 1, 9} }
SetCalls ==
    { C("sadd", <<s>>, <<>>, {}) : s \in Integers9 \cup {Big} }
    \cup { C("srem", <<s>>, <<>>, {}) : s \in Integers9 \cup {Big} }
    \cup { C("spop", <<s>>, <<>>, {}) : s \in {One, Big} }
    \cup { Abstract!Call(op, <<k, k>>, <<>>, <<>>, {"union"}) : op \in {"sunionDiffStore", "sinterstore"} }

HashCalls ==
    { C("hset", <<f, s>>, <<>>, {}) : f \in {One, XX, Two}, s \in Strings7 }
    \cup { C("hset", <<XX, Huge>>, <<>>, {"nx"}), C("hset", <<One, XX, One, One>>, <<>>, {}),
           C("hincrby", <<Huge, Two>>, <<>>, {}), C("hincrby", <<One, Two>>, <<>>, {}) }
    \cup { C("hdel", <<f>>, <<>>, {}) : f \in {One, XX, Huge} }

ZSetCalls ==
    { C("zadd", <<s, m>>, <<>>, {}) : s \in {One, Two}, m \in {One, Big} }
    \cup { C("zadd", <<Inf, Big>>, <<>>, {}), C("zadd", <<One, Huge>>, <<>>, {}),
           C("zadd", <<MinusInf, Big>>, <<>>, {"incr"}), C("zadd", <<One, One>>, <<>>, {"incr"}) }
    \cup { C("zrem", <<m>>, <<>>, {}) : m \in {One, Big, Huge} }
    \cup { C("zremrangebyscore", <<>>, <<1, 2>>, {"minex"}), C("zremrangebyscore", <<>>, <<1, 1>>, {}),
           C("zremrangebyrank", <<>>, <<0, 0>>, {}), C("zremrangebyrank", <<>>, <<1, -2>>, {}),
           Abstract!Call("zunionInterStore", <<k, k>>, <<>>, <<0>>, {"union"}) }

AllCalls == ListCalls \cup SetCalls \cup HashCalls \cup ZSetCalls
AllTexts == {One, Two, XX, Big, Huge}
Entries == [list |-> 4, set |-> 3, hash |-> 2, zset |-> 2]
Values == [list |-> 7, hash |-> 7, zset |-> 7]
ThreeWidths == <<3, 7, 9>>
ScoreBounds == {1, 2}
Elements4 == [list |-> 5, set |-> 4, hash |-> 3, zset |-> 3]
LenWidths == <<2, 3>>
IntWidths == <<2, 3, 4>>
PushAll(strings) == FoldLeft(LAMBDA zl, s : ziplistPush(zl, s, "tail"), ziplistNew, strings)
(* Values of a server with other limits: too many entries, or too long ones. *)
Foreign ==
    { [type |-> "list", zl |-> PushAll(<<One, XX, One, Two, One>>)],
      [type |-> "set", intset |-> FoldLeft(intsetAdd, intsetNew, <<-7, 1, 2, 9>>)],
      [type |-> "hash", zl |-> PushAll(<<One, XX, XX, One, Two, One>>)],
      [type |-> "zset", zl |-> PushAll(<<One, One, Big, One, Two, Two>>)],
      [type |-> "list", zl |-> PushAll(<<Huge, One>>)],
      [type |-> "hash", zl |-> PushAll(<<One, Huge, Huge, One>>)],
      [type |-> "zset", zl |-> PushAll(<<One, One, Huge, Two>>)] }
=============================================================================
