----------------------------- MODULE MCKeyspace -----------------------------
(* Keyspace for TLC: two databases, three names, and for each client the   *)
(* calls it may make, so that every command meets keys of its own and of   *)
(* other types, absent keys and keys that have expired.                    *)
EXTENDS Keyspace

a == <<0, <<97>>>>
b == <<0, <<98>>>>
other == <<1, <<97>>>>
w1 == <<0, <<119, 49>>>>
One == <<49>>
Two == <<50>>
X == <<120>>

OnKeys(op) == { Call(op, <<k>>, <<>>, <<>>, {}) : k \in {a, b} }

StringCalls ==
    { Call("set", <<a>>, <<One>>, <<>>, {}), Call("set", <<b>>, <<X>>, <<1>>, {"nx"}),
      Call("set", <<a>>, <<X>>, <<0>>, {}), Call("getset", <<b>>, <<Two>>, <<>>, {}),
      Call("mset", <<a, b>>, <<One, Two>>, <<>>, {"nx"}),
      Call("incrby", <<a>>, <<>>, <<2>>, {}), Call("incrbyfloat", <<a>>, <<One>>, <<>>, {}),
      Call("append", <<a>>, <<X>>, <<>>, {}), Call("setrange", <<b>>, <<X>>, <<1>>, {}),
      Call("setbit", <<a>>, <<>>, <<9, 1>>, {}),
      Call("bitop", <<b, a>>, <<>>, <<>>, {"not"}),
      Call("bitop", <<a, a, b>>, <<>>, <<>>, {"xor"}) }

KeyCalls ==
    { Call("del", <<a, b>>, <<>>, <<>>, {}), Call("rename", <<a, b>>, <<>>, <<>>, {}),
      Call("rename", <<b, a>>, <<>>, <<>>, {"nx"}), Call("move", <<a, other>>, <<>>, <<>>, {}),
      Call("expire", <<a>>, <<>>, <<1>>, {}), Call("expire", <<b>>, <<>>, <<-1>>, {}),
      Call("persist", <<a>>, <<>>, <<>>, {}), Call("flushdb", <<>>, <<>>, <<0>>, {}),
      Call("flushall", <<>>, <<>>, <<>>, {}), Call("randomkey", <<a, b>>, <<>>, <<>>, {}),
      Call("read", <<a, b>>, <<>>, <<>>, {}), Call("unknown", <<>>, <<>>, <<>>, {}) }

ListCalls ==
    { Call("push", <<a>>, <<One, X>>, <<>>, {"head"}), Call("push", <<b>>, <<Two>>, <<>>, {"tail"}),
      Call("pushx", <<a>>, <<Two>>, <<>>, {"tail"}),
      Call("linsert", <<a>>, <<X, Two>>, <<>>, {"head"}), Call("lset", <<a>>, <<Two>>, <<-1>>, {}),
      Call("pop", <<a>>, <<>>, <<>>, {"head"}), Call("ltrim", <<a>>, <<>>, <<1, -1>>, {}),
      Call("lrem", <<a>>, <<X>>, <<-1>>, {}), Call("rpoplpush", <<a, b>>, <<>>, <<>>, {}) }

SetCalls ==
    { Call("sadd", <<a>>, <<One, X>>, <<>>, {}), Call("srem", <<a>>, <<X>>, <<>>, {}),
      Call("smove", <<a, b>>, <<One>>, <<>>, {}),
      Call("spop", <<a>>, <<One>>, <<>>, {}), Call("spop", <<a>>, <<X>>, <<>>, {}),
      Call("sinterstore", <<b, a, b>>, <<>>, <<>>, {}),
      Call("sunionDiffStore", <<b, a, b>>, <<>>, <<>>, {"union"}),
      Call("sunionDiffStore", <<a, a, b>>, <<>>, <<>>, {"diff"}),
      Call("sort", <<a, b>>, <<<<>>, <<>>>>, <<0, 2>>, {}),
      Call("sort", <<a, b>>, <<<<119>>, <<>>>>, <<>>, {"desc"}),
      Call("sort", <<a, b>>, <<<<119>>, <<>>>>, <<>>, {"alpha"}),
      Call("sort", <<b, a>>, <<<<>>, <<119>>>>, <<>>, {"nosort"}) }

HashCalls ==
    { Call("hset", <<a>>, <<X, One>>, <<>>, {}), Call("hset", <<a>>, <<One, X>>, <<>>, {"nx"}),
      Call("hincrby", <<a>>, <<X, Two>>, <<>>, {}),
      Call("hincrbyfloat", <<a>>, <<X, Inf>>, <<>>, {}), Call("hdel", <<a>>, <<X>>, <<>>, {}) }

ZSetCalls ==
    { Call("zadd", <<a>>, <<One, X, Inf, One>>, <<>>, {}), Call("zadd", <<a>>, <<One, X, X, Two>>, <<>>, {}),
      Call("zadd", <<a>>, <<<<Minus>> \o Inf, One>>, <<>>, {"incr"}),
      Call("zrem", <<a>>, <<X>>, <<>>, {}), Call("zremrangebyscore", <<a>>, <<>>, <<1, 2>>, {"minex"}),
      Call("zremrangebyrank", <<a>>, <<>>, <<-1, -1>>, {}),
      Call("zunionInterStore", <<b, a, b>>, <<>>, <<2, 1>>, {"union"}),
      Call("zunionInterStore", <<b, a, b>>, <<>>, <<>>, {"inter", "min"}) }

Control ==
    { Call(op, <<>>, <<>>, <<>>, {}) : op \in {"multi", "exec", "discard", "unwatch"} }
    \cup { Call("watch", <<k>>, <<>>, <<>>, {}) : k \in {a, b} }

Blocking ==
    { Call("bpop", <<a, b>>, <<>>, <<0>>, {"head"}), Call("bpop", <<b>>, <<>>, <<0>>, {"tail"}),
      Call("brpoplpush", <<a, b>>, <<>>, <<0>>, {}) }

Writes == StringCalls \cup KeyCalls \cup ListCalls \cup SetCalls \cup HashCalls \cup ZSetCalls
Mixed == Control \cup Blocking
         \cup { Call("push", <<a>>, <<One, Two>>, <<>>, {"tail"}), Call("spop", <<a>>, <<X>>, <<>>, {}),
                Call("read", <<a>>, <<>>, <<>>, {}) }
Waits == { Call("bpop", <<b, a>>, <<>>, <<0>>, {"head"}), Call("brpoplpush", <<a, b>>, <<>>, <<0>>, {}),
           Call("watch", <<b>>, <<>>, <<>>, {}), Call("push", <<b>>, <<X>>, <<>>, {"head"}) }

CallsOfEach == [u \in Users |-> CASE u = 1 -> Writes [] u = 2 -> Mixed [] u = 3 -> Waits]
Shares == { <<2, 1, 0>>, <<1, 3, 0>>, <<1, 1, 1>>, <<0, 3, 1>> }

At(d, e) == [db |-> d, exp |-> e, backwards |-> FALSE]
Backwards(d) == [d EXCEPT !.backwards = TRUE]
Loaded ==
    { At(<<>>, <<>>),
      Backwards(At((a :> Set({One, X})) @@ (w1 :> Str(Two)), w1 :> 0)),
      At((a :> Str(One)) @@ (b :> Str(X)), a :> 0),
      At((a :> List(<<One, X>>)) @@ (b :> Str(One)), b :> 0),
      At((a :> Set({One, Two})) @@ (b :> Set({One})) @@ (w1 :> Str(Two)), w1 :> 0),
      At(a :> Hash((X :> One) @@ (One :> X)), a :> 0),
      At((a :> ZSet((X :> 1) @@ (One :> Infinity))) @@ (b :> Set({X})), <<>>) }
=============================================================================
