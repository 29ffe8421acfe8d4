------------------------------ MODULE Skiplist ------------------------------
(***************************************************************************)
(* The skiplist of a sorted set (t_zset.c).  A node has, at each of its    *)
(* levels, the next node of that level and the number of nodes of level 1  *)
(* it spans, so that ranks are found on the way.  Nodes are named by their *)
(* members; Header and Nil are sequences that are no strings.              *)
(***************************************************************************)
EXTENDS RedisObject

CONSTANT MaxLevel    \* ZSKIPLIST_MAXLEVEL

ASSUME SkiplistAssumption == MaxLevel \in Nat \ {0}

Header == <<-1>>
Nil == <<-2>>

zslCreate ==
    [level |-> 1, length |-> 0, tail |-> Nil,
     node |-> Header :> [score |-> 0, back |-> Nil,
                         next |-> [i \in 1..MaxLevel |-> Nil],
                         span |-> [i \in 1..MaxLevel |-> 0]]]

Members(z) == DOMAIN z.node \ {Header}
ScoreOf(z, v) == z.node[v].score

(* The loops that all the operations have in common: from `at`, go on at
   level i while the next node is one of `ahead` and its rank at most
   `limit`. *)
RECURSIVE Go(_, _, _, _, _)
Go(z, at, i, ahead, limit) ==
    LET n    == z.node[at.x]
        next == [x |-> n.next[i], rank |-> at.rank + n.span[i]]
    IN  IF next.x \in ahead /\ next.rank <= limit THEN Go(z, next, i, ahead, limit) ELSE at

(* Where the descent from the highest level leaves each level. *)
Path(z, ahead, limit) ==
    LET path[i \in 1..z.level] ==
            Go(z, IF i = z.level THEN [x |-> Header, rank |-> 0] ELSE path[i + 1],
               i, ahead, limit)
    IN  path

(* The nodes that come before a score and a member. *)
Lower(z, score, v) ==
    { w \in Members(z) : ScoreOf(z, w) < score \/ (ScoreOf(z, w) = score /\ LessString(w, v)) }

(* Insert a member that is not there, in a node of the given height. *)
zslInsert(z, score, v, height) ==
    LET path   == Path(z, Lower(z, score, v), z.length)
        update == [i \in 1..Max({height, z.level}) |->
                       IF i <= z.level THEN path[i] ELSE [x |-> Header, rank |-> 0]]
        before(i) == z.node[update[i].x]
        spanOf(i) == IF i <= z.level THEN before(i).span[i] ELSE z.length
        crossed(i) == update[1].rank - update[i].rank
        back   == update[1].x
        new    == [score |-> score,
                   back |-> IF back = Header THEN Nil ELSE back,
                   next |-> [i \in 1..height |-> before(i).next[i]],
                   span |-> [i \in 1..height |-> spanOf(i) - crossed(i)]]
        levels(w) == { i \in DOMAIN update : update[i].x = w }
        linked == [w \in DOMAIN z.node |->
                     [z.node[w] EXCEPT
                        !.next = [i \in DOMAIN @ |-> IF i \in levels(w) /\ i <= height THEN v ELSE @[i]],
                        !.span = [i \in DOMAIN @ |->
                                    IF i \notin levels(w) THEN @[i]
                                    ELSE IF i <= height THEN crossed(i) + 1 ELSE @[i] + 1],
                        !.back = IF w = new.next[1] THEN v ELSE @]]
    IN  [level |-> Max({height, z.level}), length |-> z.length + 1,
         tail |-> IF new.next[1] = Nil THEN v ELSE z.tail,
         node |-> (v :> new) @@ linked]

(* Unlink a node, given the last node before it at each level. *)
zslDeleteNode(z, v, update) ==
    LET x == z.node[v]
        linked == [w \in DOMAIN z.node \ {v} |->
                     [z.node[w] EXCEPT
                        !.next = [i \in DOMAIN @ |->
                            IF i <= z.level /\ update[i].x = w /\ @[i] = v THEN x.next[i] ELSE @[i]],
                        !.span = [i \in DOMAIN @ |->
                            IF i > z.level \/ update[i].x # w THEN @[i]
                            ELSE IF z.node[w].next[i] = v THEN @[i] + x.span[i] - 1 ELSE @[i] - 1],
                        !.back = IF w = x.next[1] THEN x.back ELSE @]]
    IN  [level |-> Max({1} \cup { i \in 1..z.level : linked[Header].next[i] # Nil }),
         length |-> z.length - 1,
         tail |-> IF x.next[1] = Nil THEN x.back ELSE z.tail,
         node |-> linked]

zslDelete(z, score, v) ==
    LET update == Path(z, Lower(z, score, v), z.length)
        x      == z.node[update[1].x].next[1]
    IN  IF x = v /\ ScoreOf(z, x) = score THEN zslDeleteNode(z, x, update) ELSE z

(* Delete nodes, at most n, from v on as long as they are among `doomed`. *)
RECURSIVE DeleteFrom(_, _, _, _, _)
DeleteFrom(z, v, update, doomed, n) ==
    IF v \notin doomed \/ n = 0 THEN z
    ELSE DeleteFrom(zslDeleteNode(z, v, update), z.node[v].next[1], update, doomed, n - 1)

(***************************************************************************)
(* Ranges of scores: r has min, max and whether they are exclusive.        *)
(***************************************************************************)
ValueGteMin(score, r) == IF r.minex THEN score > r.min ELSE score >= r.min
ValueLteMax(score, r) == IF r.maxex THEN score < r.max ELSE score <= r.max
EmptyRange(r) == r.min > r.max \/ (r.min = r.max /\ (r.minex \/ r.maxex))

zslDeleteRangeByScore(z, r) ==
    LET update == Path(z, { v \in Members(z) : ~ValueGteMin(ScoreOf(z, v), r) }, z.length)
    IN  DeleteFrom(z, z.node[update[1].x].next[1], update,
                   { v \in Members(z) : ValueLteMax(ScoreOf(z, v), r) }, z.length)

(* From the start-th to the end-th node. *)
zslDeleteRangeByRank(z, start, end) ==
    LET update == Path(z, Members(z), start - 1)
    IN  DeleteFrom(z, z.node[update[1].x].next[1], update, Members(z), end - update[1].rank)

zslIsInRange(z, r) ==
    LET first == z.node[Header].next[1]
    IN  /\ ~EmptyRange(r)
        /\ z.tail # Nil /\ ValueGteMin(ScoreOf(z, z.tail), r)
        /\ first # Nil /\ ValueLteMax(ScoreOf(z, first), r)

zslFirstInRange(z, r) ==
    LET path == Path(z, { v \in Members(z) : ~ValueGteMin(ScoreOf(z, v), r) }, z.length)
        x    == z.node[path[1].x].next[1]
    IN  IF zslIsInRange(z, r) /\ ValueLteMax(ScoreOf(z, x), r) THEN x ELSE Nil

zslLastInRange(z, r) ==
    LET x == Path(z, { v \in Members(z) : ValueLteMax(ScoreOf(z, v), r) }, z.length)[1].x
    IN  IF zslIsInRange(z, r) /\ ValueGteMin(ScoreOf(z, x), r) THEN x ELSE Nil

(* The rank of a member, from 1, and the member of a rank: the descent may
   end on a level above the first. *)
zslGetRank(z, score, v) ==
    LET path == Path(z, Lower(z, score, v) \cup { w \in {v} \cap Members(z) : ScoreOf(z, w) = score }, z.length)
        at   == { i \in DOMAIN path : path[i].x = v }
    IN  IF at = {} THEN 0 ELSE path[Max(at)].rank

zslGetElementByRank(z, rank) ==
    LET path == Path(z, Members(z), rank)
        at   == { i \in DOMAIN path : path[i].rank = rank }
    IN  IF at = {} THEN Nil ELSE path[Max(at)].x

(* The nodes from v on, in the direction of the next or of the previous. *)
RECURSIVE Chain(_, _, _, _)
Chain(z, v, reverse, n) ==
    IF v = Nil \/ n = 0 THEN <<>>
    ELSE <<v>> \o Chain(z, IF reverse THEN z.node[v].back ELSE z.node[v].next[1], reverse, n - 1)

(* Every level is the sorted list of the nodes that reach it, the spans are
   distances along the first level, and the backward links mirror it. *)
IsSkiplist(z) ==
    LET order == SetToSortSeq(Members(z), LAMBDA v, w : v \in Lower(z, ScoreOf(z, w), w))
        rank(v) == IF v = Header THEN 0 ELSE CHOOSE i \in DOMAIN order : order[i] = v
        height(v) == Len(z.node[v].next)
        reach(v, i) == { w \in Members(z) : height(w) >= i /\ rank(w) > rank(v) }
    IN  /\ z.length = Len(order)
        /\ z.tail = IF order = <<>> THEN Nil ELSE Last(order)
        /\ z.level = Max({1} \cup { height(v) : v \in Members(z) })
        /\ \A v \in DOMAIN z.node : \A i \in 1..Min({height(v), z.level}) :
              LET next == z.node[v].next[i]
              IN  IF reach(v, i) = {} THEN next = Nil /\ z.node[v].span[i] = z.length - rank(v)
                  ELSE /\ next \in reach(v, i)
                       /\ \A w \in reach(v, i) : rank(next) <= rank(w)
                       /\ z.node[v].span[i] = rank(next) - rank(v)
        /\ \A i \in DOMAIN order : z.node[order[i]].back = IF i = 1 THEN Nil ELSE order[i - 1]
=============================================================================
