# CacheWise, Dynamoth and Redis in TLA+

This directory is a TLA+ model of the layers of the repository that hold its own
protocol logic:

* **CacheWise** (`src/julien-dynamoth-fan/Game/CacheWise/`): a server keeps versioned Java
  objects and executes operations on them over RMI; clients keep copies and bring them up
  to date with the operations the server publishes.
* **Dynamoth / RPub** (`Game/Mammoth/NetworkEngine/RPub/`): the publish/subscribe
  engine below it: clients of several Redis hubs ("shards"), a plan that maps
  channels to hubs, a load balancer that changes the plan while clients run, and
  load analyzers beside the hubs that correct clients which follow an old plan.
* **Redis 2.6.17** (`src/redis-2.6.17/src/`), the hub itself, kept in the repository with its
  source: keyspace and commands, encodings, hash tables, connections and
  publish/subscribe, persistence, replication, and **Sentinel**.

Contents: [components](#components), [modules](#modules), [what the models leave
out](#abstractions), [runs](#runs), [fairness](#fairness), [findings](#findings),
[proofs](#proofs), [not modelled](#not-modelled), [plan](#plan).

## Components

### State, operations, partners

| Component | State | Operations | Talks to |
|---|---|---|---|
| Cache server (`Impl/CacheServer`, `SubjectPlus`, `BaseObject`, `Invocation`, `Serialization`) | hashtable key → `SubjectPlus`; in each the object (fields, `version`) and its serialized bytes `o_serialized` | `loadObj`, `getObj`, `performOperation`, each in an RMI thread of its own | answers clients; publishes on the key's channel |
| Object bundle (`ObjectBundle`) | a copy of the object, a queue of operations | `queue`, `prepareQueue`, `apply` (synchronized), `setObj` (not) | used by both threads of a client |
| Cache client (`CacheClient`) | hashtable key → bundle, list of subscriptions | `remoteGet`, `remotePerform`, `localPut`, `subscribe`, `unsubscribe`, `operationReceived` | RMI to the server, publications and subscriptions to the network engine |
| Reactor and message queue (`Util/Message/Reactor`, `BaseNetworkEngine`) | message queue, two monitors | `slice`, `queueMessage`, `waitForMessage` | hands messages to handlers in its thread |
| RPub network engine (`RPubNetworkEngine`) | connection, low-level listeners | `send`, `subscribe`, `unsubscribe`, `messageReceived` | the manager, the reactor's queue |
| Jedis client (`Client/JedisRPubClient`) | publication queue, pending subscriptions, two threads | `queuePublication`, `subscribe`, `disconnect`, `onMessage` | one hub |
| Message delayer (`Client/RPubMessageDelayer`) | messages ordered by delivery time | `messageReceived`, `run` | between Jedis client and engine |
| RPub managers (`Manager/*`) | hubs, current plan, own subscriptions | `publish`, `subscribe`, `applyPlan`, `processChangeChannelMapping…` | Jedis clients, load analyzers, load balancer |
| Plans (`Manager/Plan/*`) | channel → mapping (strategy, hubs, plan id) | difference of two plans, numbering, merging | managers, load balancer |
| Local load analyzer (`LoadAnalyzing/*`) | current plan, history of plans, per-channel statistics | judges every message of its hub, corrects its source | beside every hub |
| Load balancer, rebalancers (`LoadBalancing/*`) | plan id, pool of hubs, rebalancer thread | collect statistics, create, number and send plans | analyzers, managers |
| Keyspace and commands (`db.c`, `t_*.c`, `multi.c`, `sort.c`, `bitops.c`, `redis.c`) | databases of values and expires; of each client its transaction, watched keys, blocked state; who waits for which list | the commands that change values, `EXEC`, serving of blocked clients, expiry, eviction | propagates commands to slaves and the append only file |
| Encodings (`ziplist.c`, `intset.c`, `t_zset.c`, `t_hash.c`, `t_list.c`, `t_set.c`) | byte layout of a value, skiplist levels and spans | insert, delete, convert, read | used by the commands |
| Dumps (`rdb.c`, `aof.c`, `migrate.c`) | | save, load, rewrite as commands, DUMP and RESTORE | encodings |
| Dictionaries (`dict.c`) | two tables, index of the rehash, iterators | add, find, delete, expand, rehash a step, iterate | everything; the policy of `redis.c` |
| Connections (`networking.c`, `pubsub.c`, `ae.c`) | clients with query and reply buffers, event handlers, queues of clients to close and to go on with, channels, patterns | accept, read, execute, write, free; SUBSCRIBE, PUBLISH, CLIENT KILL | users' sockets |
| Persistence (`aof.c`, `rdb.c`, `bio.c`) | AOF buffer, file, differences of a rewrite, children, count of changes | flush, fsync, rewrite, BGSAVE, CONFIG SET appendonly, SHUTDOWN, load | the kernel, children, a background thread |
| Replication (`replication.c`) | the link to the master, slaves with their state and output | SYNC, bulk transfer, feeding, time-outs, SLAVEOF | masters and slaves |
| Sentinel (`sentinel.c`) | a record of master, slaves and other sentinels; failover state, votes, epochs | PING, INFO, hello, is-master-down, election, promotion, reconfiguration, switch | Redis servers, other sentinels |

### What is hard, and what makes each component correct

| Component | Hard behaviour | Correct when | Checked as |
|---|---|---|---|
| Cache server | RMI threads meet in the monitor of the hashtable, but `getSerialized` runs under no lock; the lookup precedes the monitor; the operation is published before it is applied | each accepted operation is applied once, at its version, and published in that order; bytes served are never ahead of their content; calls return; bytes kept are current | `AcceptedExactlyOnce`, `SnapshotsArePast`, `EveryCallReturns`, `ImplementsVersionedObject`; `CachedIsCurrent` (refuted) |
| Object bundle | messages lost, old, duplicated; operations that fail; `setObj` under no lock | no hole in the queue; an operation is applied only to the version below it | `QueuesContiguous`; `UpdatesAreValid` (refuted) |
| Cache client | two threads, one hashtable, no lock; late subscription; fetches before the server has applied what it published; failed RMI | a copy changes only by the operation accepted for its next version, or to something the server serialized; undisturbed, it ends up current; methods return unless they are answered old bytes for ever | `ImplementsCachedCopies`, `Converges`, `MethodsReturn`; `CreatesIfAbsent`, `MissedMeansFetched`, `FetchedIsLatest`, `CopiesMoveForward`, `MethodsAlwaysReturn` (refuted) |
| Managers, plans, analyzers, load balancer | a new plan reaches the analyzers one by one and the clients only through corrections; corrections are late, repeated, answered under old plans; subscriptions travel through several hubs | a client is subscribed where its plan says; a plan id identifies the mapping used; publishers end up with the balancer's mapping | `SubscribedAsPlanned`, `PlanIdsTellMappings`, `PublishersFollow` |
| Keyspace and commands | a key may expire at any look at it; pushes inside EXEC or made by another client's pop; failures half way through many arguments; what is propagated differs from what was called | the slave has the master's values, unless a SORT … BY … ALPHA parts them; a watched key that changed stops EXEC; nobody waits at a list that has elements, who waited longest is served first; a failed call changes nothing | `SlaveAgrees`, `WatchersNoticeButMove`, `NobodyLeftWaiting`, `FirstComeFirstServed`, `FailedCallsChangeNothing`, `TypeOK`; `SlaveAlwaysAgrees`, `WatchersNotice`, `SlaveKeepsExpires` (refuted) |
| Encodings, dumps | cascading length fields, upgrades and conversions at limits, spans of skiplists, reloading under other limits | the structures are well formed, and no answer shows the encoding | `WellFormed`, `EncodingsAgree`, `ReadsAgree`; `FieldsWithinLimit`, `NothingLost` (refuted) |
| Dictionaries | operations on two half-rehashed tables, under iterators and a changing policy | a dictionary answers as a set, an iteration returns what stays, the rehashes of a database's tables end | `Placed`, `AnswersAsASet`, `RehashAdvances` |
| Connections | one client's command writes to, closes or unblocks others in the middle of an iteration; replies in two buffers, written in part | replies and messages in order, none lost or repeated; nothing refers to a freed client; who stays is served | `RepliesInOrder`, `NothingDangles`, `RequestsAreServed`; `UnblockedAreClients` (refuted) |
| Persistence | a write postponed while an fsync runs; a reply that leaves before the flush; a child that survives its server; a rewrite that catches up; saves that overlap writes and FLUSHALL; failing forks and children; crashes | file and rewrite replay to the dataset; a count of zero means saved; what the policy promises survives; everything ends up saved | `LogIsData`, `RewriteIsData`, `CleanMeansSaved`, `AckedSurvives`, `TurnsOn`, `ChangesAreSaved`; `ShutdownKeepsAcked` (violated), `CleanIsOnDisk`, `ToldSurvives` (refuted) |
| Replication | slaves join while a save runs; one SELECT for all of them; links the two ends leave at different times; chains, promotion | what a slave has been sent makes the master's dataset; who resynchronizes feeds nobody; slaves catch up | `InSync`, `NobodyFedWhileResyncing`, `CatchesUp` |
| Sentinel | late replies about an earlier master, epochs that differ, resets in the middle of a failover, a dead leader or promoted slave | the promoted slave is a slave it knows; a quorum found the master down at some time; all agree on one live master | `PromotedIsKnown`, `FailoverNeedsQuorum`, `Converges`; `OneLeader` (refuted) |

Interactions. A cache operation is an RMI call; the server publishes it through its
network engine, the manager chooses hubs by its plan, the Jedis client sends it to
Redis, and every subscriber's Jedis client queues it for the reactor, whose thread
calls `operationReceived`.  Application and reactor share the client's bundles.
Control messages (subscriptions of a client to itself, changes of mapping, plans)
travel over the same hubs on channels of their own.

Inside a hub, one thread runs everything but the fsyncs: an iteration of the event loop
reads requests, executes them to their end, and writes replies; before it sleeps it
resumes unblocked clients and flushes the append only file; `serverCron` expires, evicts,
rehashes, reaps children and drives replication and Sentinel's timer.  A command that
changes the dataset is propagated to the append only file and the slaves.  Children
write snapshots and rewritten files from a copy of the memory.

## Modules

| Module | Models | Uses |
|---|---|---|
| `Operations` | operations and the messages that carry them | |
| `VersionedObject` | what the server promises for one key (abstract) | `Operations` |
| `CacheServer` | the server, thread by thread | `Operations` |
| `ObjectBundle` | the bundle's queue as operators | `Operations` |
| `CacheClient` | the clients' threads, composed with the server (as `VersionedObject`) and the channel | `VersionedObject`, `ObjectBundle` |
| `CachedCopies` | what the cache promises its clients (abstract) | `Operations` |
| `Plans` | mappings, numbering, difference of two plans | |
| `PlanSwitch` | load balancer, analyzers, clients and hubs while plans change | `Plans` |
| `RedisObject`, `RedisDb` | values, strings as numbers and back; lookups that expire, propagation, the commands on keys, expires and whole databases (`db.c`) | |
| `StringCommands`, `ListCommands`, `CollectionCommands`, `SortedSetCommands` | the commands of `t_string.c`, `bitops.c`; `t_list.c`; `t_set.c`, `t_hash.c`; `t_zset.c`, `sort.c` on abstract values | `RedisDb` |
| `Commands` | the table of commands, `call()`, EXEC, and the serving of clients blocked on lists | the four above |
| `Keyspace` | clients, transactions, WATCH, blocking, clock, eviction, a slave | `Commands` |
| `CompactEncodings`, `Skiplist` | ziplists and intsets; skiplists: the three encodings, as they lie in memory | |
| `EncodedValues`, `EncodedZSets` | the commands on encoded values, with their conversions | the three encodings |
| `Dumps` | saving, loading, rewriting, DUMP/RESTORE | `EncodedZSets` |
| `Encodings` | an encoded value beside the abstract one | `Dumps`, `Commands` (INSTANCE) |
| `DictSet` | what a dictionary promises (abstract) | |
| `Dict` | the hash tables, step by step | `DictSet` (INSTANCE) |
| `ClientBuffers` | tokens of a connection, parsing, output buffers and their limits | |
| `Connections` | event loop, clients, blocking, publish/subscribe | `ClientBuffers` |
| `Persistence` | append only file, snapshots, children, restarts | |
| `Replication` | servers linked as masters and slaves | |
| `Sentinel` | sentinels, the servers they watch, and the network between | |
| `MC*` | model values and the sets a `.cfg` cannot write | |
| `CacheServer_proofs`, `CacheClient_proofs`, `PlanSwitch_proofs`, `Replication_proofs`, `Sentinel_proofs`, `Persistence_proofs`, `Dict_proofs` | theorems | the module each is named after, and `TLAPS` |

The chain of refinement is: `CacheServer` implements `VersionedObject` (run
`server`, theorem `Refines`), `CacheClient` contains `VersionedObject` as its server, and implements
`CachedCopies` (run `client_reactor`, theorem `ReactorKeepsCopies`).  `Dict` implements `DictSet` (run `dict`, theorem `DictIsASet`);
`Encodings` runs encoded and abstract commands side by side (run `encodings`), and
`Keyspace` uses the abstract ones: that a command may be studied on abstract values is
what `EncodingsAgree` shows.

### How the state corresponds to the code

**`CacheServer`.** `table` is the hashtable; `subject` every `SubjectPlus` created,
so that a replaced one stays reachable from the threads that looked it up; `lock` the
monitor of the hashtable, which `performOperation` enters explicitly and
`Hashtable.get`/`put` implicitly; `pc` and `frame` a thread's position and
locals.  `LoadObj` is `loadObj`; `PerformLookup`, then `PerformReject` or
`PerformPublish`, `CallFail` or `CallInvoke`, `IncVersion`, `Discard` are the steps of
`performOperation` down to `BaseObject.applyUpdate` and `SubjectPlus.invoke`;
`GetLookup`, `GetTest`, `SerializeVersion`, `SerializeData`, `SerializeStore`,
`GetReturn`, `GetAnswer` those of `getObj` and `getSerialized`.  Serialization reads the version (a
field of `BaseObject`) before the subclass's fields, so its two reads are two
actions.  `acked` records the operations answered with true.

**`ObjectBundle`, `CacheClient`.** `bundles[c]` lists every bundle a client made
(`table[c]` is the one in the hashtable), because a thread may keep a bundle that
another thread has just replaced; `monitor` is the bundle's own monitor, held through
`apply`. Every client has two threads, `App(c)` and `Reactor(c)`; `pc` names the next step: `get` …
`fetch` … `put`/`set`/`new`, `bundle`/`lookup`, `apply`/`loop` for `remoteGet`,
`localPut` and `apply`; `perform`/`performing` for `remotePerform`;
`queue`/`queued`/`missed` for `operationReceived`.  `subscription` is the client's
list (how often the key is in it), `requests` what it has sent, `subscribers` what
has taken effect, `routed` and `inbox` the channel.  A NullPointerException ends the
handler (`Reactor.slice` catches it) or the application (`dead`).

**`Plans`, `PlanSwitch`.** `lbPlan` and `pushed` are the load balancer's plan and
what it has sent; `history`, `applying`, `lastSent` an analyzer's `planHistory`, the
window in which `applyPlan` sets its current plan to the new, the old and the
new one again, and `lastUpdateSent`; `plan`, `own`, `sending` a client's current plan,
`currentSubscriptions` and a publication half way through its hubs.  `subscribed` is
what the hubs know; `toAnalyzer`, `toEngine`, `toClient` the messages on their way.
`picks` holds the draws of `RepeatableRandomSelector`, which are fixed per channel,
plan id and client. `NewPlan` is `processTimer` with `applyPlanIdToChangedMappings` and
`mergeMissingChannels`; `ReceivePlan`, `EndPlan`, `EngineChange`, `Analyze` the
analyzer; `Publish`, `SendTo`, `Request`, `ReceiveChange`, `ReceiveSubscribe`,
`ReceiveUnsubscribe` the client.

**`Keyspace` and the command modules.** A command is an operator from the server's state
(a record: `db`, `exp`, what was propagated, which keys were touched, which lists became
ready) and a call (operation, keys, strings, integers, options) to the state after it;
the fields of a `Call` stand for `argv`.  `processCommand` evicts (`freeMemoryIfNeeded`), queues
or runs the command and, in `Finish`, serves the clients blocked on lists and marks those that
watch a key; lookups go through `expireIfNeeded`; `activeExpire` (the cron finds an expired
key), `Timeout`, `Disconnect` and `Tick` are actions of their own. `slave` replays `stream`, which holds the commands as they were propagated: most as they were called (an EXPIRE too, with its
relative time), an INCRBYFLOAT as SET, a blocked pop as the pop that served it.  `backwards` says that a
server's hash tables list their entries in the other order: master and slave draw their hash seeds apart.

**`Encodings`.** `obj` is a value in its encoding, `val` the dataset with the abstract one.
A ziplist is the sequence of its entries with the width of the length field each carries,
the byte count and the tail's offset as the code maintains them; the widths and limits are scaled
down (`PrevSizeLarge`, `Widths`, `MaxEntries`, `MaxValue`), so that strings of seven characters already cascade.

**`Dict`.** `d` holds the two tables as sequences of chains, `rehashidx` and the
number of iterators; `dictAdd`, `dictReplace`, `dictDelete`, `dictFind`, `dictNext`, … are actions;
`incrementallyRehash`, `tryResizeHashTables`, `updateDictResizePolicy` the cron's.  `Linked` and `Unlinked` are the two
changes of a chain that every operation is made of; `Moved` links the entries of a bucket into the other table one at a
time, which reverses them, as the loop of `dictRehash` does.  `seen` and `owed` record what an iteration has returned
and has still to return, and are read by properties only.

**`Connections`.** The state of the server is one record, and a handler is a function on
it, as a handler of the code runs to its end.  `wire` and `socket` are the kernel's
buffers; `Poll`, `Accept`, `ProcessEvent` and `Cron` the parts of an iteration:
`beforeSleep` and the poll, one ready descriptor after the other (reading, then writing if the
handler is still there), the time events.  `server.promise` records what each user must hear and is
read by properties only.

**`Persistence`.** `data` is the dataset, `buf` `server.aof_buf`, `file` the append only file with how
much of it is on the disk, `rewriter`/`saver` the children with what they fork from, `rwbuf` the
rewrite's differences, `state` `aof_state`, `dirty` the count of changes, `acked` the dataset
when clients that wait for their replies were told, `told` when any client was.  `aeProcessEvents` is a pipelined request
whose reply leaves in the iteration that executes it, before `beforeSleep`, which is `flushAppendOnlyFile`;
the other replies follow it.  `Kill` ends the server and starts the next; a saving child of the
old one stays among the `orphans`, and `OrphanEnds` renames its dump at any time later, which
`overwritten` records for the properties. `CronRewrite`,
`CronSave` and the two done-handlers are parts of `serverCron`.

**`Replication`.** `masterhost`, `replstate` and `slaves` are those of each server; a client of a
master is a record with the state (`wait_bgsave_start`, `wait_bgsave_end`, `send_bulk`,
`online`), the selected database and the output; a link is named by its slave and a number, so that the
two ends may learn of its end at different times. `data` is a sequence of writes with their
databases; `child` and `dump` the save under way and `dump.rdb`.

**`Sentinel`.** `view[s]` is the `sentinelRedisInstance` of the master in sentinel `s` with its slaves
and peers; `TimerRuns` is `sentinelHandleRedisInstance` over all of them, in the order of
`sentinelTimer`; `Info`, `ReceiveHello`, `Ask`, `Hear`/`Silence` the replies; `replies` those that
are delayed; `TimesOutEarly` is the timer when a retry period is over before the servers have answered; `orders` the SLAVEOF commands on their way; `suspects` who has found the present master down.
`Restart` starts a Redis server again; sentinels do not come back (`sentinel.c` of this version keeps nothing on disk).

Operators marked "Bug variant" or "Mutant" are used by no specification: they say how
a definition would read with a plausible mistake in it, and each property has one
that breaks it (`PROJECT.json`, "mutants").

## Abstractions

* The content of an object is the sequence of operations applied to it, which is
  the finest notion of state: two copies are equal exactly when the same operations
  made them.  Operations in `Invalid` are those whose call fails, whether
  `Invocation.validate` returns null or the method throws; a method that fails after
  it has changed a field is not modelled.
* Versions are unbounded numbers in the models and `int` in the code; 2³¹ operations on
  one key are out of reach.
* `CacheClient` has one key.  Keys share only the reactor thread and the hashtable,
  whose operations are atomic.  `getObj` answers any bytes that `SnapshotsArePast` admits (`Answers`): a content the object had, under a
  version no newer than it, however long ago, or null.  A call that fails may fail before or after the server has acted (`RemoteFailure`).
* `queue` is one step: it is short, synchronized, and reads the object that the other
  thread may replace once. Testing and changing the list `subscription` is one step too.
* Publishing on a channel is FIFO for the one publisher of a key (the server), and each
  subscriber receives the operations in that order or not at all (`Route(missed)`
  chooses whom it does not reach).  The transport below that promises it
  is planned; the assumption is broken by the message delayer, which is off by default.
* `remotePut` and `storeAsBundle` occur as initial states (`Stored`).
  `OtherPublish`/`OtherAnswered` are clients outside the model, seen through the server.
* Plans: arrays of hubs are sets, except in nothing that depends on their order but the
  equality of mappings, and rebalancers keep the order of the hubs they keep. Messages on
  unicast, `sub` and analyzers' channels are not judged by analyzers here; the
  infrastructure's repeated subscriptions are sent once; the time a message waits to be sent
  is merged with the time it waits to be received; `createChannel`'s message and hubs
  added or removed at run time are left out.  A channel that no plan defines is seen on the default hub only (`Merged`).
* `NewPlan` waits until every analyzer has received the plan before: the
  rebalancers wait `newPlanWaitInterval` (20 seconds, `AbstractRebalancer.java:14,160`)
  before they make another.

* Redis: a value, a name, a payload is a member of a small set or a short sequence of small numbers;
  64-bit limits are scaled down (`MaxLong` = 9: what overflows in the code overflows
  in the model); doubles are integers with two infinities (`Infinity`).  The clock does not move
  within a command.  Of the answers the models keep those that are errors, those the
  properties compare (`Encodings`, `Dict`) and, in `Connections`, their order and size in tokens.
* `Keyspace`: the arguments a command rejects before it looks at a key are left out except where
  something has been changed by then; the draws of SPOP and RANDOMKEY are part of the call.
* SORT: a hash table lists its entries in the order of their texts or, if the server is `backwards`, in the reverse one;
  two orders suffice for servers to differ.  `qsort` is taken to be stable, `strcoll` to compare as in the C locale.
  `LessString` compares as `compareStringObjects` does but for strings with a NUL byte, at which
  the code stops if one of the two is an integer inside; no string of the model has one.
* `Encodings` has one key; string objects have no encoding that a command could show and are left out, and so is
  HINCRBYFLOAT, which stores its result as HINCRBY does, without a look at its length.
* `Dict` leaves the values out; a hash is a number, so that collisions are chosen.
* `Connections`: a request is a token for each part that a read may end at; a token that
  arrives in halves is one that has not arrived.  A line or a count that the parser refuses, because it is
  too long, too big or wrong, is one token, and `client_max_querybuf_len` counts tokens.  There is one list to block on, and of the
  glob patterns `*` and the exact name.  The cron passes a short time or
  all time-outs at once.
* `Persistence`: a dataset is the sequence of the writes that made it, the finest notion there
  is; file contents are sequences of commands, a prefix of which is on the disk.  What the
  bytes of a file look like is `Dumps`.  A crash and the next start are one step, because nothing but the
  children of the dead server acts in between, and these go on (`orphans`).  `stopAppendOnly` kills the rewriting child,
  waits for it and flushes in one step too: the server does nothing else meanwhile, and what the child
  had written is removed whenever it ended.
* `Replication`: likewise.  A link carries its data in order or breaks (TCP); a bulk
  arrives as a whole or not at all.  A crash and the next start are one step: the others can only find the links
  closed, which they do at any time after it; the child of a server that crashes has renamed its dump before the
  start or never does (what happens otherwise is a matter of `Persistence`).
* `Sentinel`: ages replace clocks: `health` (heard of lately, within the time to reconnect, down)
  and how long the failover has not moved (less than the retry periods, more, more
  than failover-timeout).  The script queue and the printing commands are left out.

## Runs

Distinct states are those TLC reports.  No symmetry set is used: most passing runs
check liveness or refinement, where it is not sound.

| Run | Instance | Properties (all hold but the last row's) | States |
|---|---|---|---|
| `server` | 1 key, 3 threads, a callable and a failing operation, 2 loads, 2 publications | `TypeOK`, `AcceptedExactlyOnce`, `SnapshotsArePast`, `EveryCallReturns`, `ImplementsVersionedObject` | 213,756 |
| `client` | 1 client from scratch: 1 get, 1 perform, 2 operations of others, 1 lost message, 1 failed RMI, failing operations | `QueuesContiguous`, `MethodsReturn` | 781,743 |
| `client_reactor` | a client that has stored the object; 4 operations, 2 lost messages, 1 unsubscribe, 1 failed RMI | `ImplementsCachedCopies`, `Converges` | 185,038 |
| `plan` | 1 client, 1 channel, 2 hubs, 3 plans, 2 requests, 4 changes in all, one draw | `PlanIdsTellMappings`, `SubscribedAsPlanned`, `PublishersFollow` | 36,522 |
| `sentinel` | 2 sentinels with quorum 2, 3 servers; 2 faults out of crash, restart, cut, tilt, administrator, delay, a period that runs out early | `PromotedIsKnown`, `FailoverNeedsQuorum`, `Converges` | 194,078 |
| `keyspace` | 3 clients with calls of their own (some seventy calls), 2 names in 2 databases, 7 initial datasets, one of them on a slave whose hash tables list their entries in another order, a clock of 2 instants, memory for 2 keys, up to 4 calls in all | `TypeOK`, `SlaveAgrees`, `WatchersNoticeButMove`, `NobodyLeftWaiting`, `FirstComeFirstServed`, `FailedCallsChangeNothing` | 634,903 |
| `encodings` | one key, strings of every size class, values of up to 5 elements, limits of 2 to 4 entries, skiplists of 2 levels, foreign payloads with too many entries and with too long ones | `WellFormed`, `EncodingsAgree`, `ReadsAgree` | 8,817 |
| `dict` | 3 colliding keys, tables of 1 to 8 buckets, of a database (the cron rehashes and resizes) | `Placed`, `AnswersAsASet`, `RehashAdvances` | 49,441 |
| `replication` | 3 servers in 4 deployments (chains with 2 databases and promotion, with time-outs and crashes; stars with cuts and FLUSHALL, with SLAVEOF and BGSAVE); 1 or 2 writes | `InSync`, `NobodyFedWhileResyncing`, `CatchesUp` | 427,280 |
| `persistence` | 5 configurations: the three fsync policies with rewrites, failures and crashes; CONFIG SET appendonly; save points only | `LogIsData`, `RewriteIsData`, `CleanMeansSaved`, `AckedSurvives`, `TurnsOn`, `ChangesAreSaved` | 546,245 |
| `connections` | 3 users in 5 scenarios: listening, blocking, flooding, closing, long and malformed requests, a query buffer over its limit | `RepliesInOrder`, `NothingDangles`, `RequestsAreServed` | 286,479 |
| `persistence_shutdown` | `everysec`, 2 writes, one SHUTDOWN | `ShutdownKeepsAcked` **violated** | |

Why the bounds are enough to be interesting:

* `server`: three threads let one thread hold an update, one read the object unlocked
  and one reload it. Two loads give a thread an object already replaced; two publications
  let a client ask for a version already taken (`MaxVersion` = 2 covers the next version, an old
  and a future one).  Keys share nothing but the monitor, so one is enough.
* `client`: each kind of disturbance occurs once and all may occur together; two foreign
  operations plus the client's own make three messages, enough for a queue with a
  first, a middle and a last one. Unsubscribing is `client_reactor`'s.
* `client_reactor`: four operations and two losses allow a hole in the middle of a
  queue and a second one after the recovery of the first.
* `plan`: `MaxBacklog` = 0 means that applications send only when nothing
  is on its way, except that answers are always sent; a publication sent to several
  hubs still spans plan changes between its hubs.  Three plans let corrections of the
  first change arrive after those of the second; `MaxChanges` bounds plans and requests
  together.  The mappings (`AwayAndSpread`) are the hub that is not the default and
  publishers on both hubs: two plans lead away from the default hub, or spread the channel and take it
  back, and analyzers correct one another.  Mappings with several
  subscription hubs, several draws and a second channel are left out, because the
  findings 5, 14 and 6 show what happens then; the theorems say which of them each property needs.  `raced` clients,
  whose application's request was under way when a plan was applied, are left out of
  `SubscribedAsPlanned`: the code does not handle the case.
* `sentinel`: quorum 2 of 2 needs every vote to travel; three servers give a slave to promote, one to
  reconfigure and, after one failure, still a choice; two faults let the second hit the
  recovery from the first (the promoted slave, the leader, a late reply, a reset).  The retry periods are long
  against a round of the timer, so that one is usually over when all has been said (`Settled`); one that is over sooner,
  with replies and commands under way, is a fault like the others (`early`).  Two sentinels whose quorum is
  two do not compete for the lead: both votes go to the one with the lesser id while they hear of each other.  Finding 18 is about three.
* `keyspace`: every command of the table meets absent, expired and foreign keys in the first
  client's calls, and transactions, watches and blocked clients in the two others'; four
  calls suffice to block two clients, open a transaction and push, or to watch, change and
  EXEC.
* `encodings`: every limit (entries, value size, integer width, length field) is crossed up and
  down by values of this size, and a cascade reaches a third entry.
* `dict`: three keys fill a table of two beyond the forced ratio while it is being rehashed.
* `replication`, `persistence`: two writes (three while CONFIG SET turns the file off and on, one where SLAVEOF and BGSAVE meet) put one before a fork, one during the child and
  one after it; a single mishap of every kind may fall between any two steps.
* `connections`: replies of several chunks and writes of at most `MaxWrite` tokens into a socket of
  `SocketRoom` make every write partial somewhere; each scenario brings those together
  that meet in one registry or queue.

Deadlock is checked in `server` and `plan`.  In the other runs the budgets of calls, faults and
writes run out, users fall silent, and the system may then really stop.

## Fairness

* `CacheServer`: weak fairness of every thread inside a call (the JVM schedules
  runnable threads).  Nobody has to call.  Weak fairness suffices for the monitor
  because the number of publications is bounded: Java promises no fair monitors, and with
  ever more competitors a thread could wait for ever.
* `CacheClient`: weak fairness of every thread's steps, of `Establish` (a subscription
  is eventually effective), of `Route` (publications are delivered, or lost within
  `MaxLost`), of the reactor and of the server's answer. Calls and RMI failures are not fair.
* `PlanSwitch`: weak fairness of everything that receives, and of `Publish`: under
  lazy propagation a client learns a mapping only if it publishes, so
  `PublishersFollow` speaks of clients that go on publishing.  `NewPlan` and
  `Request` are not fair.
* `Dict`: weak fairness of `dictNext` (every loop over an iterator goes on), strong fairness of
  `incrementallyRehash` (the cron runs again and again between commands, and may be
  disabled by an iteration in between) and of the end of a child, which allows resizing again.  The cron rehashes only the
  keys and the expires of a database, and only with `activerehashing` (`redis.c:587-599`): `CronTasks`
  says what it does to the dictionary, and `RehashAdvances` promises nothing to those it does not rehash,
  the tables of sets, hashes and sorted sets.
* `Connections`: the event loop runs, and so does its cron, in which time passes; users who read go on
  reading.  The two conditions are written out (`[]<>~LoopEnabled \/ []<><<Loop>>_vars`), which is weak
  fairness without TLC's costly ENABLED.
* `Persistence`, `Replication`: weak fairness of event loop, cron, background thread and
  children, which end; nobody has to write, and mishaps are not fair.
* `Sentinel`: weak fairness of the timer (a retry period that is over included), of replies from who is
  reached and of commands on their way; faults, delays, periods that run out early and the expiry of
  failover-timeout are not fair.
* `Keyspace` and `Encodings` have safety properties only.

## Findings

Shown by a run: **`persistence_shutdown`**.  `prepareForShutdown` kills a rewrite because
"the AOF we already have may be longer but contains the full dataset anyway"
(`redis.c:1874-1875`); under `everysec` it may not: `flushAppendOnlyFile` postpones a write while
an fsync runs, the client is answered, and the shutdown syncs the file without writing the
buffer.

Refuted while modelling.  The definitions stay in the modules, marked "(Refuted.)"; each is violated
under the constants named here (the rest as in the module's `.cfg`).

| # | Property | Constants | What happens |
|---|---|---|---|
| 1 | `CacheServer!CachedIsCurrent` | two threads, one load | `getSerialized` may store bytes serialized before an update after the update has cleared the old ones (`SubjectPlus.java:26-39`); the server serves them until the next operation |
| 2 | `CacheClient!CreatesIfAbsent` | `Joined = {c1}`, 1 get, 1 operation of others | `localPut` tests and puts in two calls (`CacheClient.java:121-125`): both threads create a bundle and one loses what it holds |
| 3 | `CacheClient!MissedMeansFetched` | as 2, 3 operations, 1 lost | the log message of the path that fetches a missed object dereferences the object that has not been received (`CacheClient.java:264`) |
| 4 | `CacheClient!UpdatesAreValid` | 2 clients, stored and joined, 1 perform | `setObj` takes no lock: an object fetched by the other thread gets an operation applied that it already contains (`ObjectBundle.java:102-145`) |
| 5 | `PlanSwitch!SubscribedAsPlanned` | `Proposals <- Replications`, no requests | a channel that leaves one of its two subscription hubs is unsubscribed on both (`DynamothRPubManager.java:270`) |
| 6 | `PlanSwitch!PlanIdsTellMappings` | `Proposals <- Moves`, `Channels = {c1, c2}`, 2 plans, no requests | a correction of one channel raises the id of the client's whole plan, and channels the plan does not define are stamped with it (`DynamothRPubManager.java:320`, `PlanImpl.java:88`): no analyzer corrects them any more |
| 7 | `Replication!DrainedSlavesAgree` | `Shapes <- TwoDatabases` | a second slave of one save copies the first one's buffer but not its selected database: its first writes may go elsewhere (`replication.c:147-158`) |
| 8 | `Replication!DrainedSlavesAgree` | `Shapes <- Killed` | a save child killed by a signal has exit code 0, so the slaves are told it went well and get the old dump (`redis.c`, `rdb.c:1206`, `replication.c:279-280`) |
| 9 | `Encodings!NothingLost` | as in the `.cfg` | an insertion in front of an entry whose length field is larger than necessary shrinks the ziplist before its contents are moved (`ziplist.c:615-630`) and loses the last byte |
| 10 | `Encodings!FieldsWithinLimit` | as in the `.cfg` | HINCRBY on a new field skips the test of the field's length (`t_hash.c:516-547`, against `redis.conf:484-486`); so does loading a compact value, whose entries are counted and not measured (`rdb.c:965-970`) |
| 11 | `Keyspace!WatchersNotice` | as in the `.cfg` | MOVE signals no key: an EXEC that watches it runs |
| 12 | `Keyspace!SlaveKeepsExpires` | as in the `.cfg` | INCRBYFLOAT is propagated as SET, which removes the slave's expire (`t_string.c:395-397`) |
| 13 | `Connections!UnblockedAreClients` | `Scenarios <- Twice` | a client that is served, blocks again from the same read and is freed in the same iteration stays in `server.unblocked_clients` (`t_list.c:792-823`, `networking.c:642-648`) |
| 14 | `PlanSwitch!SubscribedAsPlanned` | `Draws <- TwoDraws`, 4 plans, no requests, 6 changes | a subscriber's hub is drawn for each plan id (`RepeatableRandomSelector.java:19`), but mappings that differ in their ids only are equal (`PlanMappingImpl.java:100`, `PlanDiffImpl.java:140`): a client that goes straight from one to the other stays on the hub of the old draw, and sends its next requests to the new one |
| 15 | `CacheClient!MethodsAlwaysReturn` | run `client` | the server may keep the old bytes of finding 1 until the next operation, and `remoteGet`, which finds the same gap between object and queue again, calls itself again (`CacheClient.java:161-163`) |
| 16 | `CacheClient!FetchedIsLatest` | run `client_reactor` | the "latest copy" (`CacheClient.java:264-268`) fetched for an operation that could not be queued may lack it: it is published before it is applied, and the bytes may be old |
| 17 | `CacheClient!CopiesMoveForward` | run `client_reactor` | and it may be older than the copy that it replaces |
| 18 | `Sentinel!OneLeader` | `Sentinels = {1, 2, 3}`, `Servers = {11, 13}`, `Quorum = 2`, `Faulty = {1, 11}`, budget of 1 crash and 2 cuts | the answer of a sentinel that has changed its vote is kept for up to five seconds by the one that heard the first, and leadership is not looked at again once won: two sentinels count the same one and both fail over, though the quorum is more than half (`sentinel.c:2418-2435`, `2495-2512`, `2578-2582`) |
| 19 | `Keyspace!SlaveAlwaysAgrees` | as in the `.cfg` | SORT … BY … ALPHA takes elements for equal whose weights are missing or the same, even when it has to be deterministic (`sort.c:156-167`), and leaves them as the hash table lists them: with STORE, master and slave part, against the comment at `sort.c:250-253` |
| 20 | `Persistence!CleanIsOnDisk` | as in the `.cfg` | the saving child of a killed server renames its dump after the next server has loaded (`rdb.c:699`, `728-744`): it counts no unsaved change, and `dump.rdb` is not its dataset |
| 21 | `Persistence!ToldSurvives` | as in the `.cfg` | a socket that still has replies to write is written in the iteration that reads the next request (`ae.c:375-387`), before `beforeSleep` flushes (`aof.c:213-217`): under `always` the reply to a pipelined write may leave before the write is in the file |

Met while reading, without a property of their own.
CacheWise and Dynamoth: the object is retrieved right after
subscribing, before the subscription is in effect (`CacheClient.java:153-154`); publications
judged to be forwarded are not, their forwarding is commented out
(`LocalLoadAnalyzer.java:973`, `1010`); the change message with the forward flag is
built and not used (`LocalLoadAnalyzer.java:982-987`); changes are published on the
hubs of the last plan but one, so a client that only subscribes and is two plans
behind is not told; corrections among analyzers add plans to `planHistory`, whose index is taken for
a plan id; a mapping received late replaces a newer one
(`DynamothRPubManager.java:316`), until the next publication corrects it.
Sentinel: the best-effort SLAVEOFs of a failover that times out are dropped by the switch in the same run of
the timer (`sentinel.c:2817-2845`, `3111-3116`); a slave that never answers SLAVEOF is retried only when fewer than
`parallel_syncs` are under way (`2850-2880`); the DEMOTE flag of an old master that returns is cleared for good when the new master's role is not fresh at that moment, against the comment above (`1512-1529`).
Keyspace: MOVE drops the time to live; the lists that RENAME, MOVE and SORT … STORE bring wake nobody;
a slave with `maxmemory` evicts by itself.
Persistence: under `everysec` the last write is not synced while no other follows
(`aof.c:229`); after a failed save with fewer changes than a save point asks for, writes stay refused and nothing
retries (`redis.c:1062-1085`); `stopAppendOnly` waits for any child and may reap the saver (`aof.c:178-184`); a failed
`startAppendOnly` keeps the number of a closed descriptor (`aof.c:196-203`); an automatic rewrite ignores `aof_state`
(`redis.c:1085-1100`); the rewritten file takes its place before it is synced.
Replication: if the fork for the slaves waiting for the next save fails, only those still waiting are freed;
a save child of a slave may rename its dump over the one just received (mishaps `nextfork` and `overtake` of `Replication`).

## Proofs

`CacheServer_proofs` proves, for every value of the constants:

* `TypeCorrect`: `Spec => []TypeOK`;
* `Accepted`: `Spec => []AcceptedExactlyOnce`, which is what clients rely on when
  two of them perform at once: the i-th operation answered with true is the i-th
  applied, at version base + i.

They assume only `ServerAssumption` and `OperationsAssumption` (bounds and load
versions are naturals, `NoThread` is no thread, `Invalid` is a subset of `Ops`).

`AcceptedExactlyOnce` is not inductive: it does not say where the version of an
object stands while an operation is being applied, and the test that admits the
next operation reads that version.  The invariant is `IInv`, the conjunction of

* `TypeOK`, one part of which, `UpdatesInMonitor`, says that a thread updates an object exactly while it
  holds the monitor;
* `FramesSet`: a thread inside a call has the locals it needs;
* `AtRest`: an object nobody is updating has as many operations as answers, and the
  version they make;
* `InUpdate`: an object being updated is one operation ahead, first in content, then
  in version;
* `AnswersMatch`: answers and contents agree.

`IInvInit`, `IInvStep` and `IInvImplies` are the three facts.  The step has one lemma per
action that changes objects (`LoadObjStep`, `PerformPublishStep`, `CallFailStep`,
`CallInvokeStep`, `IncVersionStep`, `DiscardStep`) and one for all others
(`QuietStep`): an update touches one object, and `Alone` says that no second thread
is updating.

The second half of the module goes on from there:

* `SnapshotsPast`: `Spec => []SnapshotsArePast`: the bytes `getSerialized` keeps and answers are a past
  content of their object, under a version no newer than that content, although it reads the version and
  the content in two steps and under no lock.

The property says nothing of a thread between its two reads, so it is not inductive either.  `Snapshots` adds
to `IInv` what is true of bytes kept with the object (`Kept`), of bytes a thread holds (`Held`), and of a thread
that has read only the version (`Begun`: the version is not ahead of the content the thread is about to read).
`Begun` starts to hold because no version is ahead of its content (`VersionBehind`, from `IInv`), and all three
stay true because an object only changes by growing (`Follows`): `ObjectsFollow` shows it of every step, and
`ThreadsFollow` shows that a thread's locals change only by the reads.

The last part proves the refinement of the abstract object:

* `Refines`: `Spec => ImplementsVersionedObject`: however the threads interleave, the operations on the first
  object are published and applied as `VersionedObject` says, one at a time, each for the next version, and each applied
  or failed before the next is published.

`VersionedObject` numbers versions from the one the object was loaded at, and sees neither other objects nor the
threads; `FirstObject` states the mapping (an operation is pending while a thread holds the monitor between its
publication and its call), and `Substitutions` spells it out for the provers.  What is published of one object among
all messages of its channel is a recursive function; `MessagesOfNone` and `MessagesGoOn` say what it gives for
a channel without messages of the object and for a channel with one message more, by an induction over a set of numbers.
Besides `IInv` the proof needs `Sourced`: every message is about an object there is, so that an object just loaded
has none.  `LoadObjRefines`, `PublishRefines`, `CallFailRefines` and `CallInvokeRefines` map a step to one of the
abstract object; `OthersRefine` maps every other step to a stutter.

`CacheClient_proofs` proves, for any clients, operations and bounds,

* `Contiguity`: `Spec => []QueuesContiguous`: the operations waiting in a bundle have consecutive versions,
  and the state is well typed.

It assumes `ClientAssumption` (which clients have what from the start) and `NullAssumption` (null is neither
a thread nor an object).  That no queue gets a hole follows from the operators of `ObjectBundle` (`QueueKeeps`,
`PrepareKeeps`, `HeadKeeps`); what takes an invariant is that these operators are applied to what they
expect, although a client's two threads share its bundles: `apply` does not test the object again after its
first look, and `setObj`, under no lock, may set it to null.  `InMethod` says why that does no harm: a thread
in the loop of `apply` holds the monitor, an object and an operation (`Holds`); only the reactor queues
operations, and only the reactor puts a null object, so that nothing is queued while it does (`Empty`).
`Fits` says what a thread has looked up before it came where it is.  There is one lemma for
each step that changes bundles, and `ThreadMoves` for all those that do not.

The second half proves the refinement that run `client_reactor` checks:

* `ReactorKeepsCopies`: `OnlyReactors => (Spec => ImplementsCachedCopies)`: an operation is applied to a client's copy only
  if it is the one accepted for the copy's next version, and the copy is otherwise replaced only by something the server
  can have serialized, whose content is not behind its version; for any number of clients, operations and lost messages, whatever operations
  fail, whatever calls for the latest copy fail, however old the bytes they return and however applications subscribe and
  unsubscribe.  It does not say that copies go forward: they need not (finding 17).

`OnlyReactors` (every client has stored the object, and no application gets or performs) is what the run assumes too,
and is needed: as soon as a client's application fetches the object while its reactor applies an operation, `setObj` may
put a copy back or have an operation applied twice (finding 4).  `NoOpAssumption` (no operation is the absence
of one) is assumed besides.  The invariant `Kept` adds to `IInv` that every message on its way tells the truth (`Sound`: the version it names
was produced by its operation, or by none as yet if the operation fails, in `Promised`, the server's object once
what it has published is applied), and what the reactor has made of the bundle so far at each of its labels (`AtReactor`:
the one operation queued is the next of the copy, the object fetched is one that was `Served`).  All stay
true as the server goes on, because its object only grows (`SoundStays`, `ServedStays`, `ReactorStays`).  `ServerMoves` maps
what the server publishes to an operation accepted, `LoopRefines` and `SetRefines` map the two assignments to the copy to
its update and its replacement, and all other steps map to stutters.  `ReactorMoves` is the common part.

`PlanSwitch_proofs` proves, for any hubs, clients, proposals, draws and number of plans,

* `IdsAlwaysTellMappings`: `OneChannel => (Spec => []PlanIdsTellMappings)`: the plan id a client has for the channel tells the
  mapping it uses.  Analyzers rely on it: they look the source's mapping up in their history by this id alone;
* `AlwaysTypeOK`: `Spec => []TypeOK`;
* `AlwaysSubscribedAsPlanned`: `HubsApart => (Spec => []SubscribedAsPlanned)`: with any number of channels, a client none of whose
  messages is on its way is subscribed to its own channels on the hubs of its plan, and on no other;
* `MovedChannelsFollow`: the same when every proposal puts a channel on one hub under the default strategy, whatever the draws.

They assume `PlansAssumption` and `SwitchAssumption` (rebalancers propose mappings to one hub at least).
The hypotheses are the exceptions found.  `OneChannel` is needed for the first: with two channels it is false (finding 6).
`HubsApart` says that two mappings of a channel that may occur have the same subscription hubs or none in
common, and the same ones if they differ in their ids only: finding 5 violates the first half, finding 14 the second, which came
to light because the proof needed it.  The mappings and the draw of run `plan` satisfy it.

The first part, `IInv`, says where mappings come from.  A mapping is `Told` when it is proposed or the default, when
there is a plan of its number and, if there is one channel, when this plan gives the channel the same
hubs and strategy; all plans of the load balancer, the analyzers' histories and the clients are `Truthful` (every
mapping in them is told), and so are the mappings in messages (`Sound`).  `NextTruthful` is the heart of it: a new plan
gives its own number to exactly the mappings that differ from the last plan's, so that what keeps
an older number is what the plan of that number says, by way of the last plan.  What was told stays so as plans are added (`ToldStays`).
The one place that needs one channel is `ChangedTruthful`: a correction raises the number of the receiver's whole
plan, and with it that of every channel the plan does not define.  `Typed` has the types of the other variables.

`SubscribedAsPlanned` says nothing of a client while its messages travel, which is nearly always.  `Following` says where it is *heading*: what
the last message in each queue asks for, or the subscription that is there if there is none (`Settles`), makes either all
the hubs of its plan or none, and all of them exactly if the channel is its own, unless a request of its application is on its way; such a request
waits on hubs of the plan only, and behind it come only requests (`AskedLast`).  A request is the last word on
all hubs at once (`RequestFollows`); a message that comes back either was the last of its queue or changes nothing that counts
(`OwnRequestFollows`, by `TailOwn`); a correction, if its hubs are others, appends subscriptions on all the new hubs and unsubscriptions on all the
old ones (`ReceiveChangeFollows`).  `AppendOther`, `AppendOwn`, `TailOther` and `TailOwn` are the lemmas about queues.

`Replication_proofs` proves, for any servers and deployments,

* `NobodyFed`: `Spec => []NobodyFedWhileResyncing`: a server that has a master and is not in
  sync with it has no slaves.  It is why a chain never mixes two datasets: whoever is about
  to replace its dataset has made its own slaves start over.
* `AlwaysTypeOK`: `Spec => []TypeOK`;
* `AlwaysInSync`: `SavesUndisturbed => (Spec /\ [][CopiesUnselected]_vars => []InSync)`: what every slave has been
  promised, replayed on what it starts from, makes its master's dataset, and leaves the database selected that the master believes
  in, down every chain and through broken links, reconnections, promotions, failed saves and crashes;
* `AlwaysDrainedAgree`: under the same hypotheses, `[]DrainedSlavesAgree`: a slave that has read all its master sent has its dataset;
* `OneDatabaseInSync`: in deployments of one database, `SavesUndisturbed => (Spec => []InSync)`.

They assume `ShapesAssumption` (what a deployment is).  `NobodyFed`, `AlwaysTypeOK` need no more.  The hypotheses of the others are the
exceptions found, one for one, and TLC refutes `InSync` or `DrainedSlavesAgree` without each of them: a copied buffer
comes from a client whose database is 0 (`CopiesUnselected`, finding 7; with one database it always does), no child is killed
from outside (finding 8), no fork for the next save fails and no child of a slave overtakes the dump being loaded (the
two notes on replication above).  `AlwaysDrainedAgree` so says that these are the only ways in which the promise of SYNC is
broken in the model.

`NobodyFedWhileResyncing` is not inductive: a link that ends sets `replstate` back, and the slaves are freed only by a server that has
a master; that a server without a master has no link that could end must be known.  The invariant `IInv` adds
`LinksHaveMasters` (a server has a link to make exactly when it has a master) and
`LinksTyped`, what the proof needs of the types.  `ClientsChange` and `LinkChange` say which changes of clients and
of one link preserve it, and there is one lemma per group of actions; a server with no
clients feeds nobody and tells nobody (`NoneFed`, `NoneTold`).

`InSync` compares a dataset with a replay of commands, a recursive function; `ReplayAppend` (one command fed),
`ReplayTail` (one command read) and `ReplayElsewhere` (the database selected at the end does not depend on the dataset) are
what the rest needs of it, by an induction over a set of lengths as in `Persistence_proofs`.  The invariant has three parts more.
`Typed` is `TypeOK` with exact records.  `LinksDistinct` says that a number names one link: no two requests or clients
share it, a link being begun has one that nobody uses (`FreshIs`, by a bound on those in use), and no
server is connected to itself.  Most steps add no link (`Descends`, `LinksKept`); `SyncLinks`, `ConnectLinks` and `AskLinks` are the
others.  `AllFed` says, for each client, what the master's side holds ready (`Promised`: the running child's snapshot,
`dump.rdb` or the dump under way, with the buffer) and what the slave's side has made of it (`Delivered`: both ends agree on whether
the dump was loaded, and if so the slave's dataset and selected database with the buffer).  `InSync` alone is not
inductive: it does not say that a client that waits for the next save has an empty buffer, nor that one that waits for a running save has
one, nor that a slave takes its dump when the master believes it does.  `ExecuteFeeds` is the step that feeds, for a write of a client and for a
command passed down a chain alike; the lemmas `WriteFed` … `ReadFed` are the steps, one or a few actions each.

`Sentinel_proofs` proves, for any sentinels, servers, quorum and faults,

* `PromotedIsAlwaysKnown`: `Spec => []PromotedIsKnown`: a failover under way has a slave to promote, and the
  sentinel still knows that slave;
* `FailoverAlwaysNeedsQuorum`: `Spec => FailoverNeedsQuorum`: a failover that no administrator forced starts
  only when as many sentinels as the quorum asks for have, at some time, found this master down themselves.  Not all of them need
  think so still: an answer withdrawn counts until the next one, or for five seconds.

It assumes only `SentinelAssumption`.  Neither property is inductive.  `PromotedIsKnown` says nothing of
a sentinel that has selected no slave yet or forgets its slaves at a reset; `Pointed` ties the state of the
failover, the pointer to the promoted slave and the slaves' own reconfigurations together, and every
operation on a view is shown to keep it (`AbortIs` … `SwitchIs` for the parts of the timer's handler, `ObserveIs` …
`RefreshedIs` for the parts of a reply).  The quorum counts what peers answered, and an answer does not say which
master it is about: `OwnDown`, `PeersDown` and `RepliesDown` say that every opinion a sentinel holds, is told or
is about to be told comes from one that has suspected the present master, which is true because a switch to the
promoted slave throws recorded and pending answers away.

`Persistence_proofs` proves, for every set of configurations (`ShapesAssumption`) and without a bound on writes,
rewrites or crashes,

* `LogIsAlwaysData`: `Spec => []LogIsData`: loading the file and the buffer gives the dataset;
* `RewriteIsAlwaysData`: `Spec => []RewriteIsData`: so does loading the rewriter's file and the differences;
* `CleanAlwaysMeansSaved`: `Spec => []CleanMeansSaved`: when no change is counted as unsaved, the snapshot on disk
  is the dataset, unless the child of a killed server has overwritten it since (finding 20);
* `AckedAlwaysSurvives`: `Spec => AckedSurvives`: what clients that wait for their replies were told is in the dataset after a restart, under the
  conditions the fsync policy gives (of others, see finding 21), and never more than was there.

These properties compare a dataset with what a recursive function (`FakeClient`, the client that replays the file)
makes of a sequence of commands, so they need an induction.  The library's induction theorems take a predicate, which the provers
cannot instantiate; `Induction` states it for a *set* of naturals, proved from
`NatLessThanWellFounded`, and is applied to the set of lengths for which a fact holds.  `History` is the sequence
of states the fake client goes through; `FakeClientIs`, `ClientGoesOn` and `ClientOfConcat` follow: one command more is one
step more, and a longer file loads a continuation of what the shorter one loads.

The invariant says, for each pair of things that must agree, also what decides whether they still will:
`Writing` (the file with the buffer loads the dataset *and* leaves the database that the server counts on, or the next
write, which omits its SELECT, would be replayed elsewhere), `Rewriting` (the same of the rewriter's file with the
differences, but only while the file is on or being turned on), `Saving` (while a child saves, `before` is
at most `dirty`, and if they are equal the child's snapshot is the dataset), `Synced` (under `always` nothing written is
unsynced unless a rewrite suspends it) and `Acknowledged` (what was acknowledged is in the file already, unless the
write was postponed).  There is one lemma per action; the three ways to stop go through `Restarts`, which says what the
next start finds.

`Dict_proofs` proves, for all keys, hashes (however many keys collide), ratios and sizes,

* `DictIsASet`: `Spec => AnswersAsASet`: the operations on the two tables answer as those of a set (`DictSet`), and a loop over a
  safe iterator returns every key that stays, once;
* `AlwaysPlaced`: `Spec => []Placed`: entries are where the searches look, there is one entry of a key, and the counters
  count.

They assume only `DictAssumption`.  `Placed` says less than an operation needs: it does not say that a table of size zero is
empty, nor that a table has a bucket for every index below its size.  `DictOK` says so, and what a search finds follows
(`Found`, `MembersFound`): the members are the keys of the two tables (`Members`).  The first part of the module is about one
table: what `Linked` and `Unlinked` do to its chains (`LinkedShape`, `UnlinkedShape`), that they keep
it a table and add or remove one key (`LinkedOK`, `UnlinkedOK`), and that a bucket linked entry by entry adds that
bucket's keys (`LinkedAllOK`), by an induction over the entries as in `Persistence_proofs`; `Recursion` shows that
the function `Moved` recurs on exists.  `NextPowerType` says that the size asked for is at least one, whatever the doubling
comes to.  From these, `Rehash1OK` and `ExpandedOK` show that rehashing and resizing change no members.

The iteration is what makes the invariant (`Inv`): `IterOK` says that what is owed is *ahead* of the iterator - in a later table, a later bucket, or
the rest of its own bucket from `nextEntry` on - and that nothing returned is.  An entry linked in is at the head of its bucket, before
`nextEntry` (`AheadLinked`); one unlinked takes only itself away (`AheadUnlinked`), and the callers never delete
`nextEntry` itself; nothing is moved while there is an iterator (`RehashStepOK`), and an expansion meanwhile only
adds an empty second table.  `NextInBucket`, `NextBucket` and `NoNext` are the three cases of `dictNext`.

Only model-checked: the other properties of the runs table.  For some of them the reason is the prover: liveness under
fairness (`EveryCallReturns`, `MethodsReturn`, both `Converges`, `PublishersFollow`, `RehashAdvances`, `CatchesUp`,
`TurnsOn`, `ChangesAreSaved`, `RequestsAreServed`), and what is computed by RECURSIVE operators (the encodings,
the connections, the keyspace).

## Not modelled

* Cost model: arithmetic on prices and measurements.
* Heuristics of the rebalancers: they compute on measured floating-point loads. `Proposals`
  stands for whatever they decide.
* The Jedis client's threads and pipeline, and the monitors of the message queue: when the Jedis
  library calls back cannot be read from the repository, and every wait of the queue has a time-out,
  so that a missed notification delays but loses nothing.
* The message delayer: a test device that reorders messages on purpose, off by default.
* The game layer (`Game/`), tests, examples and demos: programs that use the system.
* Legacy Redis managers (`Redis/`), the hub launcher: superseded, or only start processes.
* The hashed and the fully replicated manager: fixed functions from channels to hubs.
* Redis scripting: an interpreter; the commands a script calls are those of `Commands`, one after the other.
* Redis start-up, configuration, SLOWLOG, DEBUG, INFO: parsing of options and printing.
* Redis tools (`redis-cli`, `redis-benchmark`, the two checkers): programs of their own.
* Redis support code (strings, lists, sockets, compression, checksums): the models use
  sequences and sets.
* Within modelled parts: zipmaps (read only from old dumps), unsafe iterators and random sampling of
  dictionaries, Unix sockets, MONITOR, the output of slaves as clients, `slave-serve-stale-data`,
  a truncated file that ends in a MULTI, Sentinel's notification scripts.
* Vendored libraries (hiredis, Lua, jemalloc, linenoise, imgscalr): third-party.

## Plan

Next, in this order:

1. `RepliesInOrder` and `NothingDangles` of `Connections` as theorems, its recursion written as functions; `SlaveAgrees` of
   `Keyspace` for single commands.
2. Three sentinels and a second failover in one run; transactions and EXPIRE in `Persistence`.
3. `Connections` composed with `Keyspace`: what a pipelined transaction answers.
4. Scripts as sequences of commands in `Keyspace`, with the time limit and SCRIPT KILL.
