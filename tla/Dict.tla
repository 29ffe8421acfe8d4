-------------------------------- MODULE Dict --------------------------------
(***************************************************************************)
(* The hash tables of Redis (dict.c): two tables while one is rehashed     *)
(* into the other, a bucket at a time, by the operations themselves and by *)
(* the cron; a policy that forbids resizing while a child saves (redis.c); *)
(* and safe iterations, during which the operations move nothing.          *)
(* The entries of a bucket are chained, newest first.                      *)
(***************************************************************************)
EXTENDS Integers, Sequences, FiniteSetsExt, SequencesExt

CONSTANTS Hash,          \* the hash of every key
          InitialSize,   \* DICT_HT_INITIAL_SIZE
          ForceRatio,    \* dict_force_resize_ratio
          MinFill,       \* REDIS_HT_MINFILL, a percentage
          CronSteps,     \* the buckets that one run of the cron moves
          CronTasks,     \* what the cron does to this dictionary, see DictAssumption
          Nobody         \* no entry: a NULL pointer

Keys == DOMAIN Hash

(* The cron resizes the dictionaries of a database, its keys and their times
   to live, and rehashes them if activerehashing is set; it leaves those of
   the sets, hashes and sorted sets, and all others, alone. *)
ASSUME DictAssumption ==
    /\ \A k \in Keys : Hash[k] \in Nat
    /\ {InitialSize, ForceRatio, MinFill, CronSteps} \subseteq Nat \ {0}
    /\ \E n \in 0..8 : InitialSize = 2^n
    /\ Keys \cap {Nobody, "yes", "no"} = {}
    /\ CronTasks \in {{}, {"resize"}, {"resize", "rehash"}}

VARIABLES d,             \* [ht, rehashidx, iterators]
          canResize,     \* dict_can_resize
          iter,          \* the safe iterator in use
          answer,        \* what the last operation returned
          seen, owed     \* what the iteration has returned, and has to

vars == <<d, canResize, iter, answer, seen, owed>>

----------------------------------------------------------------------------
(* The tables *)

_dictReset == [size |-> 0, table |-> <<>>, used |-> 0]

NewTable(size) == [size |-> size, table |-> [i \in 0..size - 1 |-> <<>>], used |-> 0]

dictCreate == [ht |-> [t \in 0..1 |-> _dictReset], rehashidx |-> -1, iterators |-> 0]

dictIsRehashing(x) == x.rehashidx # -1

Slot(x, t, k) == Hash[k] % x.ht[t].size

Chain(x, t, k) == x.ht[t].table[Slot(x, t, k)]

(* The tables that a search looks in. *)
Searched(x) ==
    IF x.ht[0].size = 0 THEN {} ELSE IF dictIsRehashing(x) THEN 0..1 ELSE {0}

TablesWith(x, k) == { t \in Searched(x) : Contains(Chain(x, t, k), k) }

Present(x) == { k \in Keys : TablesWith(x, k) # {} }

(* Doubled until it is enough, which takes no more than `size` turns. *)
_dictNextPower(size) ==
    LET i[n \in 0..size] ==
          IF n = 0 THEN InitialSize
          ELSE IF i[n - 1] >= size THEN i[n - 1] ELSE 2 * i[n - 1]
    IN  i[size]

dictExpand(x, size) ==
    LET new == NewTable(_dictNextPower(size)) IN
    IF dictIsRehashing(x) \/ x.ht[0].used > size THEN x
    ELSE IF x.ht[0].size = 0 THEN [x EXCEPT !.ht[0] = new]
    ELSE [x EXCEPT !.ht[1] = new, !.rehashidx = 0]

dictResize(x) ==
    IF ~canResize \/ dictIsRehashing(x) THEN x
    ELSE dictExpand(x, Max({x.ht[0].used, InitialSize}))

_dictExpandIfNeeded(x) ==
    LET h == x.ht[0] IN
    IF dictIsRehashing(x) THEN x
    ELSE IF h.size = 0 THEN dictExpand(x, InitialSize)
    ELSE IF h.used >= h.size /\ (canResize \/ h.used \div h.size > ForceRatio)
         THEN dictExpand(x, 2 * Max({h.size, h.used}))
    ELSE x

htNeedsResize(x) ==
    LET size == x.ht[0].size + x.ht[1].size
        used == x.ht[0].used + x.ht[1].used
    IN  used # 0 /\ size > InitialSize /\ (used * 100) \div size < MinFill

(* A new entry becomes the head of its bucket. *)
Linked(h, k) == [h EXCEPT !.table[Hash[k] % h.size] = <<k>> \o @, !.used = @ + 1]

(* The entries of a bucket are taken one by one from its head. *)
Moved(x, i) ==
    LET old == x.ht[0].table[i]
        new[n \in 0..Len(old)] ==
            IF n = 0 THEN x.ht[1] ELSE Linked(new[n - 1], old[n])
    IN  [x EXCEPT !.ht[0].table[i] = <<>>,
                  !.ht[0].used = @ - Len(old),
                  !.ht[1] = new[Len(old)],
                  !.rehashidx = i + 1]

dictRehash1(x) ==
    IF ~dictIsRehashing(x) THEN x
    ELSE IF x.ht[0].used = 0
    THEN [x EXCEPT !.ht[0] = x.ht[1], !.ht[1] = _dictReset, !.rehashidx = -1]
    ELSE Moved(x, Min({ i \in x.rehashidx..x.ht[0].size - 1 : x.ht[0].table[i] # <<>> }))

dictRehash(x, n) ==
    LET after[i \in 0..n] == IF i = 0 THEN x ELSE dictRehash1(after[i - 1])
    IN  after[n]

RehashAnyway(x) == dictRehash1(x)

_dictRehashStep(x) == IF x.iterators = 0 THEN dictRehash1(x) ELSE x

----------------------------------------------------------------------------
(* The operations: each answers and leaves the tables `x`. *)

Is(fact) == IF fact THEN "yes" ELSE "no"

Returns(x, a) == d' = x /\ answer' = a

KeepIteration == UNCHANGED <<iter, seen, owed>>

AddedBehind(x, k) ==
    IF TablesWith(x, k) # {} THEN x
    ELSE [x EXCEPT !.ht[0] = Linked(@, k)]

(* dictAddRaw, after the step of rehashing: a search in both tables, then a
   new entry in the one that receives. *)
Added(x, k) ==
    LET t == IF dictIsRehashing(x) THEN 1 ELSE 0 IN
    IF TablesWith(x, k) # {} THEN x
    ELSE [x EXCEPT !.ht[t] = Linked(@, k)]

dictAdd(k) ==
    LET x == _dictExpandIfNeeded(_dictRehashStep(d)) IN
    /\ Returns(Added(x, k), Is(TablesWith(x, k) = {}))
    /\ KeepIteration
    /\ UNCHANGED canResize

(* A key that is there is searched again, which rehashes again. *)
dictReplace(k) ==
    LET x == _dictExpandIfNeeded(_dictRehashStep(d)) IN
    /\ Returns(IF TablesWith(x, k) = {} THEN Added(x, k) ELSE _dictRehashStep(x),
               Is(TablesWith(x, k) = {}))
    /\ KeepIteration
    /\ UNCHANGED canResize

dictFind(k) ==
    LET x == _dictRehashStep(d) IN
    /\ Returns(x, Is(TablesWith(x, k) # {}))
    /\ KeepIteration
    /\ UNCHANGED canResize

(* The entry of a key leaves its bucket. *)
Unlinked(h, k) ==
    LET i == Hash[k] % h.size
        n == CHOOSE n \in DOMAIN h.table[i] : h.table[i][n] = k
    IN  [h EXCEPT !.table[i] = RemoveAt(@, n), !.used = @ - 1]

Removed(x, k) ==
    IF TablesWith(x, k) = {} THEN x
    ELSE [x EXCEPT !.ht[Min(TablesWith(x, k))] = Unlinked(@, k)]

(* The callers that keep sets, hashes and sorted sets shrink them at once;
   `shrink` tells them from those that leave it to the cron.  An iterator
   holds a pointer to the next entry of its bucket, which must not go. *)
dictDelete(k, shrink) ==
    LET x == Removed(_dictRehashStep(d), k)
        found == TablesWith(_dictRehashStep(d), k) # {}
    IN  /\ k # iter.nextEntry
        /\ Returns(IF shrink /\ found /\ htNeedsResize(x) THEN dictResize(x) ELSE x,
                   Is(found))
        /\ seen' = seen \ {k}
        /\ owed' = owed \ {k}
        /\ UNCHANGED <<canResize, iter>>

dictGetRandomKey ==
    LET x == _dictRehashStep(d)
        chains(t) == { x.ht[t].table[i] : i \in DOMAIN x.ht[t].table }
        entries == UNION { ToSet(c) : c \in chains(0) \cup chains(1) }
    IN  /\ IF d.ht[0].used + d.ht[1].used = 0
           THEN Returns(d, Nobody)
           ELSE \E k \in entries : Returns(x, k)
        /\ KeepIteration
        /\ UNCHANGED canResize

(* Nobody empties a dictionary while iterating on it. *)
dictEmpty ==
    /\ d.iterators = 0
    /\ Returns(dictCreate, Nobody)
    /\ KeepIteration
    /\ UNCHANGED canResize

----------------------------------------------------------------------------
(* Safe iterations *)

NoIteration == [on |-> FALSE, table |-> 0, index |-> -1, nextEntry |-> Nobody]

(* The buckets that are not empty and come after the iterator's. *)
Later ==
    { p \in { <<t, i>> : t \in 0..1, i \in 0..Max({d.ht[0].size, d.ht[1].size}) } :
        /\ p[2] \in DOMAIN d.ht[p[1]].table
        /\ d.ht[p[1]].table[p[2]] # <<>>
        /\ p[1] > iter.table \/ (p[1] = iter.table /\ p[2] > iter.index) }

(* entry->next, in whichever bucket the entry now is. *)
IsNext(n, k) ==
    \E t \in TablesWith(d, k) :
        LET chain == Chain(d, t, k) \o <<Nobody>>
        IN  \E i \in DOMAIN chain \ {1} : chain[i - 1] = k /\ chain[i] = n

Return(t, i, k) ==
    /\ \E n \in Keys \cup {Nobody} :
           IsNext(n, k) /\ iter' = [on |-> TRUE, table |-> t, index |-> i, nextEntry |-> n]
    /\ d' = [d EXCEPT !.iterators = IF iter.on THEN @ ELSE @ + 1]
    /\ answer' = Nobody
    /\ seen' = seen \cup {k}
    /\ owed' = (IF iter.on THEN owed ELSE Present(d)) \ {k}

dictReleaseIterator ==
    /\ iter' = NoIteration
    /\ d' = [d EXCEPT !.iterators = IF iter.on THEN @ - 1 ELSE @]
    /\ seen' = {}
    /\ owed' = {}

(* The next entry of the bucket, or the first of the next bucket that has
   one; at the end of the loop the caller releases the iterator. *)
dictNext ==
    /\ IF iter.nextEntry # Nobody THEN Return(iter.table, iter.index, iter.nextEntry)
       ELSE IF Later = {} THEN dictReleaseIterator /\ answer' = Nobody
       ELSE \E p \in Later :
              /\ \A q \in Later : p[1] < q[1] \/ (p[1] = q[1] /\ p[2] <= q[2])
              /\ Return(p[1], p[2], d.ht[p[1]].table[p[2]][1])
    /\ UNCHANGED canResize

(* A caller may also stop early: a rewrite that fails to write does. *)
GiveUp ==
    /\ iter.on
    /\ dictReleaseIterator
    /\ answer' = Nobody
    /\ UNCHANGED canResize

----------------------------------------------------------------------------
(* The server, which comes back to its loop between iterations. *)

tryResizeHashTables ==
    /\ "resize" \in CronTasks
    /\ d.iterators = 0 /\ canResize
    /\ htNeedsResize(d)
    /\ d' = dictResize(d)
    /\ UNCHANGED <<canResize, iter, answer, seen, owed>>

RehashLoaded ==
    /\ "rehash" \in CronTasks
    /\ d.iterators = 0 /\ canResize
    /\ d.ht[0].used > 0 /\ dictIsRehashing(d)
    /\ d' = dictRehash(d, CronSteps)
    /\ UNCHANGED <<canResize, iter, answer, seen, owed>>

incrementallyRehash ==
    /\ "rehash" \in CronTasks
    /\ d.iterators = 0 /\ canResize
    /\ dictIsRehashing(d)
    /\ d' = dictRehash(d, CronSteps)
    /\ UNCHANGED <<canResize, iter, answer, seen, owed>>

(* A child has been forked, or the last one has ended. *)
updateDictResizePolicy ==
    /\ d.iterators = 0
    /\ canResize' = ~canResize
    /\ UNCHANGED <<d, iter, answer, seen, owed>>

Init ==
    /\ d = dictCreate
    /\ canResize = TRUE
    /\ iter = NoIteration
    /\ answer = Nobody
    /\ seen = {}
    /\ owed = {}

Next ==
    \/ \E k \in Keys :
           \/ dictAdd(k) \/ dictReplace(k) \/ dictFind(k)
           \/ \E shrink \in BOOLEAN : dictDelete(k, shrink)
    \/ dictGetRandomKey \/ dictEmpty
    \/ dictNext \/ GiveUp
    \/ tryResizeHashTables \/ incrementallyRehash \/ updateDictResizePolicy

(* Every loop over an iterator goes on to its end; the cron runs ten times a
   second whatever the clients do, takes the databases in turn, and a child
   ends some day, so that it finds again and again that it may rehash: those
   dictionaries that it rehashes at all. *)
Spec == Init /\ [][Next]_vars /\ WF_vars(dictNext) /\ SF_vars(incrementallyRehash)
             /\ SF_vars(~canResize /\ updateDictResizePolicy)

----------------------------------------------------------------------------
(* Properties *)

(* The tables are what the searches assume: the entries of a bucket hash to
   it, the buckets before rehashidx have been moved, the counters are right,
   the second table exists during a rehash only, and no key has two entries,
   in one bucket, in two or in both tables. *)
Placed ==
    LET bucket(t, i) == { <<t, i, n>> : n \in DOMAIN d.ht[t].table[i] }
        places == UNION { UNION { bucket(t, i) : i \in DOMAIN d.ht[t].table } : t \in 0..1 }
        key(p) == d.ht[p[1]].table[p[2]][p[3]]
    IN  /\ \A p \in places : Slot(d, p[1], key(p)) = p[2]
        /\ \A p, q \in places : key(p) = key(q) => p = q
        /\ \A t \in 0..1 : d.ht[t].used = Cardinality({ p \in places : p[1] = t })
        /\ dictIsRehashing(d) <=> d.ht[1].size # 0
        /\ \A p \in places : p[1] = 0 => p[2] >= d.rehashidx
        /\ d.iterators = IF iter.on THEN 1 ELSE 0

(* Whatever the tables do behind the operations, these answer as those of a
   set do, and a safe iteration returns every key that stays, once, although
   keys are added, removed, and the tables are replaced, meanwhile. *)
Set == INSTANCE DictSet WITH
    members <- Present(d),
    iterating <- iter.on

AnswersAsASet == Set!Spec

(* Two tables take memory and lengthen the searches: the rehash of a database
   that the cron rehashes never stops at a bucket, however long nobody uses
   it, and through iterations, forks and tables given up half-way.  (An
   operation may end one rehash and begin the next.)  Any other dictionary
   waits for its next operation. *)
RehashAdvances ==
    "rehash" \in CronTasks =>
        (<>[]dictIsRehashing(d) => []<><<d'.rehashidx # d.rehashidx>>_vars)
=============================================================================
