----------------------------- MODULE Connections -----------------------------
(***************************************************************************)
(* The connections of a redis-2.6.17 server: its event loop (ae.c), the    *)
(* clients it accepts, reads, blocks, answers and frees (networking.c,     *)
(* redis.c), and publish/subscribe (pubsub.c), by which one client's       *)
(* command writes to others.                                               *)
(*                                                                         *)
(* A handler is a function on the state of the server, a record            *)
(*   clients    what is kept of each connection, by file descriptor        *)
(*   pubsub_channels, pubsub_patterns    who listens to what               *)
(*   clients_to_close, unblocked_clients    what the loop still has to do  *)
(*   waiting    the clients blocked on the one list there is               *)
(*   items      the length of that list                                    *)
(*   promise    what the users must hear, for the properties               *)
(* A kernel buffer is a sequence of tokens (see ClientBuffers).  Time      *)
(* passes in the cron: short, or long enough for every time-out.           *)
(***************************************************************************)
EXTENDS ClientBuffers, FiniteSets, TLC

CONSTANTS
    Users,       \* those who may connect
    Scenarios,   \* what they may do (see Chosen)
    SocketRoom   \* the tokens a socket holds that its user has not read

ASSUME ConnectionsAssumption == SocketRoom \in Nat \ {0}

VARIABLES
    chosen,      \* the scenario: the requests of each user, who comes late, may
                 \* leave or never reads, maxclients, client_max_querybuf_len (in
                 \* tokens), whether idle clients are closed, and
                 \* splits, a bound on the reads that find a part of what was sent
    server,      \* the state of the server
    fired,       \* the events of this iteration that are still to be processed
    phase,       \* "new", "backlog", "connected", "left" or "closed", by user
    todo,        \* the requests each user has still to send
    wire,        \* what each user sent and the server has not read
    socket,      \* what the server wrote and the user has not read
    got,         \* what each user has read
    splits       \* how many reads may still stop before all that was sent
vars == <<chosen, server, fired, phase, todo, wire, socket, got, splits>>

(* What each user must hear, from what is executed alone: subscriptions are *)
(* sets, a list serves those who wait for it in turn, and nothing is said   *)
(* after a farewell.  For the properties.                                   *)

(* Of the glob patterns only the one that matches everything.               *)
Matches(pattern, channel) == pattern \in {"*", channel}

PubSubCommands == {"subscribe", "unsubscribe", "psubscribe", "punsubscribe"}

Silence == [here |-> {}, done |-> {}, waiting |-> <<>>, items |-> 0,
            channels |-> [u \in Users |-> {}], patterns |-> [u \in Users |-> <<>>],
            asked |-> [u \in Users |-> <<>>], said |-> [u \in Users |-> <<>>]]

Tell(A, u, parts) == IF u \in A.done THEN A ELSE [A EXCEPT !.said[u] = @ \o parts]
Farewell(A, u, parts) == [Tell(A, u, parts) EXCEPT !.done = @ \cup {u}]
Count(A, u) == ToString(Cardinality(A.channels[u]) + Len(A.patterns[u]))

Change(A, u, cmd, x) ==
    LET N == CASE cmd = "subscribe" -> [A EXCEPT !.channels[u] = @ \cup {x}]
               [] cmd = "unsubscribe" -> [A EXCEPT !.channels[u] = @ \ {x}]
               [] cmd = "psubscribe" ->
                    [A EXCEPT !.patterns[u] = IF x \in Range(@) THEN @ ELSE Append(@, x)]
               [] OTHER -> [A EXCEPT !.patterns[u] = SelectSeq(@, LAMBDA y : y # x)]
    IN  Tell(N, u, <<cmd, x, Count(N, u)>>)

All(A, u, cmd) ==
    IF cmd = "unsubscribe" THEN SetToSeq(A.channels[u])
    ELSE IF cmd = "punsubscribe" THEN A.patterns[u] ELSE <<>>

Heard(A, v, channel, message) ==
    (IF channel \in A.channels[v] THEN <<"message", channel, message>> ELSE <<>>)
    \o FlattenSeq([i \in DOMAIN A.patterns[v] |->
        IF Matches(A.patterns[v][i], channel)
        THEN <<"pmessage", A.patterns[v][i], channel, message>> ELSE <<>>])

Receivers(A, channel) ==
    FoldSet(LAMBDA v, n : n + (IF channel \in A.channels[v] THEN 1 ELSE 0)
                            + Len(SelectSeq(A.patterns[v], LAMBDA p : Matches(p, channel))),
            0, Users)

Executed(A, u, argv) ==
    LET cmd == argv[1]
        args == Tail(argv)
        first == Head(A.waiting)
        leaves == [A EXCEPT !.waiting = SelectSeq(@, LAMBDA v : v # u)]
    IN  CASE cmd = "accepted" -> [A EXCEPT !.here = @ \cup {u}]
          [] cmd = "refused" -> Tell(A, u, <<"max number of clients reached">>)
          [] cmd = "gone" -> [leaves EXCEPT !.here = @ \ {u}, !.channels[u] = {},
                                            !.patterns[u] = <<>>, !.done = @ \cup {u}]
          [] cmd = "bad" -> Farewell(A, u, <<"protocol error">>)
          [] cmd = "quit" -> Farewell(A, u, <<"ok">>)
          [] cmd = "timeout" -> Tell(leaves, u, <<"null">>)
          [] cmd \in PubSubCommands ->
               LET xs == IF args = <<>> THEN All(A, u, cmd) ELSE args
               IN  IF xs = <<>> THEN Tell(A, u, <<cmd, "null", Count(A, u)>>)
                   ELSE FoldLeft(LAMBDA N, x : Change(N, u, cmd, x), A, xs)
          [] A.channels[u] # {} \/ A.patterns[u] # <<>> -> Tell(A, u, <<"error">>)
          [] cmd = "publish" ->
               Tell([A EXCEPT !.said = [v \in Users |-> @[v] \o
                        IF v \in A.done THEN <<>> ELSE Heard(A, v, args[1], args[2])]],
                    u, <<ToString(Receivers(A, args[1]))>>)
          [] cmd = "blpop" ->
               IF A.items > 0 THEN Tell([A EXCEPT !.items = @ - 1], u, <<"item">>)
               ELSE [A EXCEPT !.waiting = Append(@, u)]
          [] cmd = "rpush" ->
               LET N == Tell(A, u, <<"length">>)
               IN  IF A.waiting = <<>> THEN [N EXCEPT !.items = @ + 1]
                   ELSE Tell([N EXCEPT !.waiting = Tail(@)], first, <<"item">>)
          [] cmd = "client" ->
               IF args[1] \notin A.here THEN Tell(A, u, <<"error">>)
               ELSE IF args[1] = u THEN Farewell(A, u, <<"ok">>) ELSE Tell(A, u, <<"ok">>)
          [] cmd = "keys" -> Tell(A, u, <<ToString(Len(args))>> \o args)
          [] OTHER -> Tell(A, u, <<"ok">>)

Mishaps == {"accepted", "refused", "gone", "timeout"}
Asked(A, u, argv) == IF argv[1] \in Mishaps THEN A ELSE [A EXCEPT !.asked[u] = Append(@, argv)]

-----------------------------------------------------------------------------
NewServer == [clients |-> <<>>, pubsub_channels |-> <<>>, pubsub_patterns |-> <<>>,
              clients_to_close |-> <<>>, unblocked_clients |-> <<>>, waiting |-> <<>>,
              items |-> 0, promise |-> Silence]

Listener == 0
Fds == 1 .. Cardinality(Users)

Note(S, fd, argv) ==
    LET u == S.clients[fd].user IN [S EXCEPT !.promise = Asked(Executed(@, u, argv), u, argv)]
Flag(S, fd, flag) == [S EXCEPT !.clients[fd].flags = @ \cup {flag}]
Has(S, fd, flag) == flag \in S.clients[fd].flags

-----------------------------------------------------------------------------
(* Replies.                                                                 *)

freeClientAsync(S, fd) ==
    IF Has(S, fd, "closeAsap") THEN S
    ELSE [Flag(S, fd, "closeAsap") EXCEPT !.clients_to_close = Append(@, fd)]

asyncCloseClientOnOutputBufferLimitReached(S, fd) ==
    LET check == checkClientOutputBufferLimits(S.clients[fd])
        T == [S EXCEPT !.clients[fd] = check.client]
    IN  IF S.clients[fd].reply_bytes = 0 \/ Has(S, fd, "closeAsap") THEN S
        ELSE IF check.over THEN freeClientAsync(T, fd) ELSE T

addReply(S, fd, s) ==
    LET c == prepareClientToWrite(S.clients[fd])
        with(d) == [S EXCEPT !.clients[fd] = d]
    IN  IF Has(S, fd, "closeAfterReply") THEN with(c)
        ELSE IF FitsBuffer(c, s) THEN with([c EXCEPT !.buf = @ \o s])
        ELSE asyncCloseClientOnOutputBufferLimitReached(with(_addReplyStringToList(c, s)), fd)

(* A reply of several parts of one token.                                   *)
RECURSIVE Say(_, _, _)
Say(S, fd, parts) ==
    IF parts = <<>> THEN S ELSE Say(addReply(S, fd, <<Head(parts)>>), fd, Tail(parts))

(* A reply whose length is known only when its parts have been added.       *)
SayDeferred(S, fd, parts) ==
    LET place == Len(S.clients[fd].reply) + 1
        T == Say([S EXCEPT !.clients[fd] = addDeferredMultiBulkLength(@)], fd, parts)
    IN  asyncCloseClientOnOutputBufferLimitReached(
            [T EXCEPT !.clients[fd] =
                setDeferredMultiBulkLength(@, place, <<ToString(Len(parts))>>)], fd)

-----------------------------------------------------------------------------
(* Publish and subscribe.                                                   *)

Listeners(S, channel) ==
    IF channel \in DOMAIN S.pubsub_channels THEN S.pubsub_channels[channel] ELSE <<>>

(* The list of a channel nobody listens to is freed.                        *)
SetListeners(S, channel, l) ==
    [S EXCEPT !.pubsub_channels =
        IF l = <<>> THEN [x \in DOMAIN @ \ {channel} |-> @[x]] ELSE (channel :> l) @@ @]

Subscriptions(c) == ToString(Cardinality(c.channels) + Len(c.patterns))

pubsubSubscribeChannel(S, fd, channel) ==
    LET T == IF channel \in S.clients[fd].channels THEN S
             ELSE SetListeners([S EXCEPT !.clients[fd].channels = @ \cup {channel}],
                               channel, Append(Listeners(S, channel), fd))
    IN  Say(T, fd, <<"subscribe", channel, Subscriptions(T.clients[fd])>>)

pubsubUnsubscribeChannel(S, fd, channel, notify) ==
    LET T == IF channel \notin S.clients[fd].channels THEN S
             ELSE SetListeners([S EXCEPT !.clients[fd].channels = @ \ {channel}],
                               channel, RemoveFirst(Listeners(S, channel), fd))
    IN  IF notify THEN Say(T, fd, <<"unsubscribe", channel, Subscriptions(T.clients[fd])>>) ELSE T

pubsubSubscribePattern(S, fd, pattern) ==
    LET T == IF pattern \in Range(S.clients[fd].patterns) THEN S
             ELSE [S EXCEPT !.clients[fd].patterns = Append(@, pattern),
                            !.pubsub_patterns = Append(@, <<fd, pattern>>)]
    IN  Say(T, fd, <<"psubscribe", pattern, Subscriptions(T.clients[fd])>>)

pubsubUnsubscribePattern(S, fd, pattern, notify) ==
    LET T == IF pattern \notin Range(S.clients[fd].patterns) THEN S
             ELSE [S EXCEPT !.clients[fd].patterns = RemoveFirst(@, pattern),
                            !.pubsub_patterns = RemoveFirst(@, <<fd, pattern>>)]
    IN  IF notify THEN Say(T, fd, <<"punsubscribe", pattern, Subscriptions(T.clients[fd])>>) ELSE T

pubsubUnsubscribeAllChannels(S, fd, notify) ==
    LET channels == S.clients[fd].channels
        T == FoldLeft(LAMBDA U, channel : pubsubUnsubscribeChannel(U, fd, channel, notify),
                      S, SetToSeq(channels))
    IN  IF notify /\ channels = {}
        THEN Say(T, fd, <<"unsubscribe", "null", Subscriptions(T.clients[fd])>>) ELSE T

pubsubUnsubscribeAllPatterns(S, fd, notify) ==
    LET patterns == S.clients[fd].patterns
        T == FoldLeft(LAMBDA U, pattern : pubsubUnsubscribePattern(U, fd, pattern, notify),
                      S, patterns)
    IN  IF notify /\ patterns = <<>>
        THEN Say(T, fd, <<"punsubscribe", "null", Subscriptions(T.clients[fd])>>) ELSE T

pubsubPublishMessage(S, channel, message) ==
    LET T == FoldLeft(LAMBDA U, fd : Say(U, fd, <<"message", channel, message>>),
                      S, Listeners(S, channel))
    IN  FoldLeft(LAMBDA U, p : Say(U, p[1], <<"pmessage", p[2], channel, message>>),
                 T, SelectSeq(T.pubsub_patterns, LAMBDA p : Matches(p[2], channel)))

publishCommand(S, fd, channel, message) ==
    LET receivers == Len(Listeners(S, channel))
                   + Len(SelectSeq(S.pubsub_patterns, LAMBDA p : Matches(p[2], channel)))
    IN  Say(pubsubPublishMessage(S, channel, message), fd, <<ToString(receivers)>>)

-----------------------------------------------------------------------------
(* Blocking, and the end of a client.                                       *)

unblockClientWaitingData(S, fd) ==
    [S EXCEPT !.waiting = RemoveFirst(@, fd),
              !.clients[fd].flags = (@ \ {"blocked"}) \cup {"unblocked"},
              !.unblocked_clients = Append(@, fd)]

blpopCommand(S, fd, timeout) ==
    IF S.items > 0 THEN Say([S EXCEPT !.items = @ - 1], fd, <<"item">>)
    ELSE [Flag(S, fd, "blocked") EXCEPT !.waiting = Append(@, fd),
                                        !.clients[fd].timeout = timeout]

handleClientsBlockedOnLists(S) ==
    IF S.waiting = <<>> \/ S.items = 0 THEN S
    ELSE LET receiver == Head(S.waiting)
         IN  Say([unblockClientWaitingData(S, receiver) EXCEPT !.items = @ - 1],
                 receiver, <<"item">>)

(* Mutant: a client's patterns outlive it.                                  *)
FreeKeepsPatterns(S, fd) ==
    LET T == IF Has(S, fd, "blocked") THEN unblockClientWaitingData(S, fd) ELSE S
        U == pubsubUnsubscribeAllChannels(T, fd, FALSE)
        V == [U EXCEPT !.unblocked_clients = IF Has(U, fd, "unblocked") THEN RemoveFirst(@, fd) ELSE @,
                       !.clients_to_close = IF Has(U, fd, "closeAsap") THEN RemoveFirst(@, fd) ELSE @]
    IN  [Note(V, fd, <<"gone">>) EXCEPT !.clients = [x \in DOMAIN @ \ {fd} |-> @[x]]]

(* The events go with the client, and so does the file descriptor.          *)
freeClient(S, fd) ==
    LET T == IF Has(S, fd, "blocked") THEN unblockClientWaitingData(S, fd) ELSE S
        U == pubsubUnsubscribeAllPatterns(pubsubUnsubscribeAllChannels(T, fd, FALSE), fd, FALSE)
        V == [U EXCEPT !.unblocked_clients = IF Has(U, fd, "unblocked") THEN RemoveFirst(@, fd) ELSE @,
                       !.clients_to_close = IF Has(U, fd, "closeAsap") THEN RemoveFirst(@, fd) ELSE @]
    IN  [Note(V, fd, <<"gone">>) EXCEPT !.clients = [x \in DOMAIN @ \ {fd} |-> @[x]]]

(* The head of clients_to_close loses its flag first: freeClient leaves the *)
(* queue alone.                                                             *)
RECURSIVE freeClientsInAsyncFreeQueue(_)
freeClientsInAsyncFreeQueue(S) ==
    IF S.clients_to_close = <<>> THEN S
    ELSE LET fd == Head(S.clients_to_close)
             T == freeClient([S EXCEPT !.clients[fd].flags = @ \ {"closeAsap"}], fd)
         IN  freeClientsInAsyncFreeQueue([T EXCEPT !.clients_to_close = Tail(@)])

(* CLIENT KILL.                                                             *)
clientKill(S, fd, user) ==
    LET victims == {f \in DOMAIN S.clients : S.clients[f].user = user}
    IN  IF victims = {} THEN Say(S, fd, <<"error">>)
        ELSE LET T == Say(S, fd, <<"ok">>)
             IN  IF fd \in victims THEN Flag(T, fd, "closeAfterReply")
                 ELSE FoldLeft(freeClient, T, SetToSeq(victims))

-----------------------------------------------------------------------------
(* Requests are executed.                                                   *)

Subscribed(c) == c.channels # {} \/ c.patterns # <<>>

call(S, fd, cmd, args) ==
    CASE cmd = "subscribe" ->
            FoldLeft(LAMBDA T, ch : pubsubSubscribeChannel(T, fd, ch), S, args)
      [] cmd = "unsubscribe" ->
            IF args = <<>> THEN pubsubUnsubscribeAllChannels(S, fd, TRUE)
            ELSE FoldLeft(LAMBDA T, ch : pubsubUnsubscribeChannel(T, fd, ch, TRUE), S, args)
      [] cmd = "psubscribe" ->
            FoldLeft(LAMBDA T, p : pubsubSubscribePattern(T, fd, p), S, args)
      [] cmd = "punsubscribe" ->
            IF args = <<>> THEN pubsubUnsubscribeAllPatterns(S, fd, TRUE)
            ELSE FoldLeft(LAMBDA T, p : pubsubUnsubscribePattern(T, fd, p, TRUE), S, args)
      [] cmd = "publish" -> publishCommand(S, fd, args[1], args[2])
      [] cmd = "blpop" -> blpopCommand(S, fd, args # <<>>)
      [] cmd = "rpush" -> Say([S EXCEPT !.items = @ + 1], fd, <<"length">>)
      [] cmd = "client" -> clientKill(S, fd, args[1])
      [] cmd = "keys" -> SayDeferred(S, fd, args)
      [] OTHER -> Say(S, fd, <<"ok">>)

(* The client is reset but after a QUIT.                                    *)
processCommand(S, fd) ==
    LET argv == S.clients[fd].argv
        T == Note(S, fd, argv)
        reset == [T EXCEPT !.clients[fd] = resetClient(@)]
    IN  IF argv[1] = "quit" THEN Flag(Say(T, fd, <<"ok">>), fd, "closeAfterReply")
        ELSE IF Subscribed(S.clients[fd]) /\ argv[1] \notin PubSubCommands
        THEN Say(reset, fd, <<"error">>)
        ELSE handleClientsBlockedOnLists(call(reset, fd, argv[1], Tail(argv)))

RECURSIVE processInputBuffer(_, _)
processInputBuffer(S, fd) ==
    LET read == ReadRequest(S.clients[fd])
        T == [S EXCEPT !.clients[fd] = read.client]
    IN  IF S.clients[fd].query = <<>> \/ Has(S, fd, "blocked") \/ Has(S, fd, "closeAfterReply")
        THEN S
        ELSE CASE read.status = "more" -> T
               [] read.status = "error" ->
                    Flag(Say(Note(T, fd, <<"bad">>), fd, <<"protocol error">>), fd, "closeAfterReply")
               [] read.client.argv = <<>> -> processInputBuffer(T, fd)
               [] OTHER -> processInputBuffer(processCommand(T, fd), fd)

(* Mutant: what an unblocked client has sent waits until it sends more.     *)
SleepForgets(S) ==
    FoldLeft(LAMBDA T, fd : [T EXCEPT !.clients[fd].flags = @ \ {"unblocked"}],
             [S EXCEPT !.unblocked_clients = <<>>], S.unblocked_clients)

(* The clients that were unblocked go on with what they had sent meanwhile. *)
RECURSIVE beforeSleep(_)
beforeSleep(S) ==
    IF S.unblocked_clients = <<>> THEN S
    ELSE LET fd == Head(S.unblocked_clients)
             T == [S EXCEPT !.unblocked_clients = Tail(@),
                            !.clients[fd].flags = @ \ {"unblocked"}]
         IN  beforeSleep(processInputBuffer(T, fd))

(* With `long`, every time-out there is has expired.                        *)
clientsCronHandleTimeout(S, fd, long) ==
    LET c == S.clients[fd]
    IN  IF long /\ chosen.maxidletime /\ ~Has(S, fd, "blocked") /\ ~Subscribed(c)
        THEN freeClient(S, fd)
        ELSE IF long /\ Has(S, fd, "blocked") /\ c.timeout
        THEN unblockClientWaitingData(Say(Note(S, fd, <<"timeout">>), fd, <<"null">>), fd)
        ELSE IF long /\ c.soft = "reached" THEN [S EXCEPT !.clients[fd].soft = "over"]
        ELSE S

serverCron(S, long) ==
    freeClientsInAsyncFreeQueue(
        FoldLeft(LAMBDA T, fd : clientsCronHandleTimeout(T, fd, long),
                 S, SetToSortSeq(DOMAIN S.clients, <)))

-----------------------------------------------------------------------------
Connected(u) == \E fd \in DOMAIN server.clients : server.clients[fd].user = u
FdOf(u) == CHOOSE fd \in DOMAIN server.clients : server.clients[fd].user = u

Init ==
    /\ chosen \in Scenarios
    /\ server = NewServer
    /\ fired = {}
    /\ phase = [u \in Users |-> IF u \in chosen.late THEN "new" ELSE "backlog"]
    /\ todo = chosen.requests
    /\ wire = [u \in Users |-> <<>>]
    /\ socket = [u \in Users |-> <<>>]
    /\ got = [u \in Users |-> <<>>]
    /\ splits = chosen.splits

Malformed == {<<"bad", "line">>, <<"bad", "length">>}

(* What a request is sent as: inline, in arguments, or malformed.           *)
Wire(argv) ==
    LET line(t, v) == [t |-> t, v |-> v]
        argument(x) == <<line("length", <<>>), line("argument", <<x>>)>>
    IN  IF argv = <<"ping">> THEN <<line("inline", argv)>>
        ELSE IF argv = <<"bad", "line">> THEN <<line("noise", <<>>)>>
        ELSE <<line("count", argv)>> \o
             (IF argv = <<"bad", "length">> THEN argument("bad") \o <<line("noise", <<>>)>>
              ELSE FlattenSeq([i \in DOMAIN argv |-> argument(argv[i])]))

(* The users.                                                               *)

Connect(u) ==
    /\ phase[u] = "new" /\ todo[u] # <<>>
    /\ phase' = [phase EXCEPT ![u] = "backlog"]
    /\ UNCHANGED <<chosen, server, fired, todo, wire, socket, got, splits>>

SendRequests(u) ==
    /\ phase[u] \in {"backlog", "connected"} /\ todo[u] # <<>>
    /\ wire' = [wire EXCEPT ![u] = FlattenSeq([i \in DOMAIN todo[u] |-> Wire(todo[u][i])])]
    /\ todo' = [todo EXCEPT ![u] = <<>>]
    /\ UNCHANGED <<chosen, server, fired, phase, socket, got, splits>>

ReadReplies(u) ==
    /\ socket[u] # <<>> /\ u \notin chosen.deaf /\ phase[u] # "left"
    /\ got' = [got EXCEPT ![u] = @ \o socket[u]]
    /\ socket' = [socket EXCEPT ![u] = <<>>]
    /\ UNCHANGED <<chosen, server, fired, phase, todo, wire, splits>>

Leave(u) ==
    /\ phase[u] = "connected" /\ u \in chosen.leaving
    /\ phase' = [phase EXCEPT ![u] = "left"]
    /\ UNCHANGED <<chosen, server, fired, todo, wire, socket, got, splits>>

-----------------------------------------------------------------------------
(* The event loop.                                                          *)

(* What the server has closed, its user will find closed.                   *)
Closed(S) == [u \in Users |->
    IF phase[u] = "connected" /\ ~\E fd \in DOMAIN S.clients : S.clients[fd].user = u
    THEN "closed" ELSE phase[u]]

(* Those the server has not accepted yet.                                   *)
Pending == {u \in Users : phase[u] = "backlog"}

Readable(c) == wire[c.user] # <<>> \/ phase[c.user] = "left"
Writable(c) == Len(socket[c.user]) < SocketRoom \/ phase[c.user] = "left"

Ready(S) ==
    {[fd |-> fd, mask |-> (IF Readable(S.clients[fd]) THEN {"r"} ELSE {})
                          \cup (IF Writable(S.clients[fd]) THEN S.clients[fd].events \cap {"w"}
                                ELSE {})] : fd \in DOMAIN S.clients}

(* An iteration starts: beforeSleep(), then the poll.                       *)
Poll ==
    /\ fired = {}
    /\ server' = beforeSleep(server)
    /\ fired' = {e \in Ready(server') : e.mask # {}}
                \cup (IF Pending # {} THEN {[fd |-> Listener, mask |-> {"r"}]} ELSE {})
    /\ phase' = Closed(server')
    /\ UNCHANGED <<chosen, todo, wire, socket, got, splits>>

(* The connection of u is accepted, with the lowest descriptor there is; if *)
(* there are too many, it is told so and freed.                             *)
Accept(u) ==
    LET fd == CHOOSE i \in Fds \ DOMAIN server.clients :
                  \A j \in Fds \ DOMAIN server.clients : i <= j
        S == [server EXCEPT !.clients = (fd :> createClient(u)) @@ @]
    IN  /\ u \in Pending
        /\ [fd |-> Listener, mask |-> {"r"}] \in fired
        /\ fired' = fired \ {[fd |-> Listener, mask |-> {"r"}]}
        /\ IF Cardinality(DOMAIN S.clients) > chosen.maxclients
           THEN /\ server' = freeClient(Note(S, fd, <<"refused">>), fd)
                /\ socket' = [socket EXCEPT ![u] = <<"max number of clients reached">>]
                /\ phase' = [phase EXCEPT ![u] = "closed"]
           ELSE /\ server' = Note(S, fd, <<"accepted">>)
                /\ phase' = [phase EXCEPT ![u] = "connected"]
                /\ UNCHANGED socket
        /\ UNCHANGED <<chosen, todo, wire, got, splits>>

(* readQueryFromClient: the outcomes of reading what was sent, or the part  *)
(* of it that has arrived, or the end of the connection, or nothing.  A     *)
(* client with too long a query buffer is freed at once.                    *)
ReadOutcomes(S, fd) ==
    LET u == S.clients[fd].user
        with(k) == [S EXCEPT !.clients[fd].query = @ \o SubSeq(wire[u], 1, k)]
        taken(k) == [S |-> IF Len(with(k).clients[fd].query) > chosen.maxquery THEN freeClient(S, fd)
                           ELSE processInputBuffer(with(k), fd),
                     n |-> k]
    IN  {taken(k) : k \in {i \in DOMAIN wire[u] : i = Len(wire[u]) \/ splits > 0}}
        \cup (IF phase[u] = "left" THEN {[S |-> freeClient(S, fd), n |-> 0]} ELSE {})
        \cup (IF wire[u] = <<>> /\ phase[u] # "left" THEN {[S |-> S, n |-> 0]} ELSE {})

(* sendReplyToClient: to a user who has left, a write fails.                *)
SendOutcome(S, fd) ==
    LET c == S.clients[fd]
        sent == WriteAll(c, SocketRoom - Len(socket[c.user]), 0)
        d == Drained(sent.client)
        T == [S EXCEPT !.clients[fd] = d]
    IN  IF phase[c.user] = "left" THEN [S |-> freeClient(S, fd), out |-> <<>>]
        ELSE [S |-> IF "w" \notin d.events /\ Has(T, fd, "closeAfterReply")
                    THEN freeClient(T, fd) ELSE T,
              out |-> sent.out]

(* An event is processed, unless its handler is gone: first the reading,    *)
(* then, if its handler is still there, the writing.                        *)
ProcessEvent(e) ==
    LET here == e.fd \in DOMAIN server.clients
        u == server.clients[e.fd].user
        handled(S, way) == e.fd \in DOMAIN S.clients /\ way \in e.mask \cap S.clients[e.fd].events
    IN  /\ e \in fired /\ e.fd # Listener
        /\ fired' = fired \ {e}
        /\ IF ~here THEN UNCHANGED <<server, phase, wire, socket, splits>>
           ELSE \E r \in IF handled(server, "r") THEN ReadOutcomes(server, e.fd)
                         ELSE {[S |-> server, n |-> 0]} :
                   LET w == IF handled(r.S, "w") THEN SendOutcome(r.S, e.fd)
                            ELSE [S |-> r.S, out |-> <<>>]
                   IN  /\ server' = w.S
                       /\ phase' = Closed(w.S)
                       /\ wire' = [wire EXCEPT ![u] = SubSeq(@, r.n + 1, Len(@))]
                       /\ socket' = [socket EXCEPT ![u] = @ \o w.out]
                       /\ splits' = splits - (IF r.n \in 1 .. Len(wire[u]) - 1 THEN 1 ELSE 0)
        /\ UNCHANGED <<chosen, todo, got>>

(* The time events, when the events of the iteration have been processed.   *)
Cron(long) ==
    /\ fired = {}
    /\ server' = serverCron(server, long)
    /\ phase' = Closed(server')
    /\ UNCHANGED <<chosen, fired, todo, wire, socket, got, splits>>

Loop == Poll \/ (\E u \in Users : Accept(u)) \/ (\E e \in fired : ProcessEvent(e))

Next ==
    \/ \E u \in Users : Connect(u) \/ SendRequests(u) \/ ReadReplies(u) \/ Leave(u)
    \/ Loop
    \/ \E long \in BOOLEAN : Cron(long)

(* When a step of the loop, or of the cron with expired time-outs, changes  *)
(* anything.                                                                *)
LoopEnabled ==
    \/ fired # {} \/ server.unblocked_clients # <<>> \/ Pending # {}
    \/ \E e \in Ready(server) : e.mask # {}
CronEnabled == fired = {} /\ serverCron(server, TRUE) # server

(* Weak fairness of the loop and of the cron, in which time passes, with    *)
(* ENABLED written out; users who read go on reading.                       *)
Fairness ==
    /\ []<>~LoopEnabled \/ []<><<Loop>>_vars
    /\ []<>~CronEnabled \/ []<><<Cron(TRUE)>>_vars
    /\ \A u \in Users : WF_vars(ReadReplies(u))

Spec == Init /\ [][Next]_vars /\ Fairness

-----------------------------------------------------------------------------
(* Requests are executed in the order in which each user sent them, and     *)
(* what a user has read, has in its socket and is still owed is what these  *)
(* requests and those of the others make: whatever is pipelined, blocked,   *)
(* buffered or written in part, no reply is lost, repeated or overtaken,    *)
(* and a subscriber hears every publication from its subscription to its    *)
(* end.  Of a client that was closed it is the beginning.                   *)
(* (networking.c:125-305, 701-1082; pubsub.c:52-265)                        *)
RepliesInOrder ==
    LET said == server.promise.said
    IN  \A u \in Users :
            /\ IsPrefix(server.promise.asked[u],
                        SelectSeq([i \in DOMAIN chosen.requests[u] |->
                                      IF chosen.requests[u][i] \in Malformed THEN <<"bad">>
                                      ELSE chosen.requests[u][i]],
                                  LAMBDA argv : argv # <<>>))
            /\ IF Connected(u)
               THEN got[u] \o socket[u] \o Unsent(server.clients[FdOf(u)]) = said[u]
               ELSE IsPrefix(got[u] \o socket[u], said[u])

NoRepeats(l) == Cardinality(Range(l)) = Len(l)
Flagged(flag) == {fd \in DOMAIN server.clients : Has(server, fd, flag)}

ListenersKnown ==
    /\ \A channel \in DOMAIN server.pubsub_channels :
          LET l == server.pubsub_channels[channel]
          IN  /\ l # <<>> /\ NoRepeats(l)
              /\ Range(l) = {fd \in DOMAIN server.clients : channel \in server.clients[fd].channels}
    /\ \A fd \in DOMAIN server.clients :
          /\ server.clients[fd].channels \subseteq DOMAIN server.pubsub_channels
          /\ server.clients[fd].patterns =
                LET mine == SelectSeq(server.pubsub_patterns, LAMBDA p : p[1] = fd)
                IN  [i \in DOMAIN mine |-> mine[i][2]]
    /\ \A p \in Range(server.pubsub_patterns) : p[1] \in DOMAIN server.clients

QueuesKnown ==
    /\ NoRepeats(server.clients_to_close) /\ NoRepeats(server.waiting)
    /\ Range(server.clients_to_close) = Flagged("closeAsap")
    /\ Range(server.waiting) = Flagged("blocked")

BuffersCounted(c) ==
    /\ c.reply_bytes = FoldLeft(LAMBDA n, s : n + Memory(s), 0, c.reply)
    /\ c.reply # <<>> => c.sentlen < Len(IF c.buf # <<>> THEN c.buf ELSE Head(c.reply))
    /\ "w" \in c.events <=> Unsent(c) # <<>>
    /\ "closeAfterReply" \in c.flags => Unsent(c) # <<>>
    /\ c.reply # <<>> /\ OverHardLimit(c) => "closeAsap" \in c.flags

(* What the server remembers of its clients is true of them, whichever way  *)
(* a client ends, inside a handler of its own or of another client: the     *)
(* listeners of a channel or a pattern, those who wait and those to be      *)
(* closed are clients, and no one is there twice.  Their replies are        *)
(* counted, a client with replies has a write handler and no other has one, *)
(* one that said farewell still has something to write that closes it, and  *)
(* one above its limit is about to be closed.                               *)
(* (networking.c:598-699, 701-784, 1345-1396; pubsub.c:52-216)              *)
NothingDangles ==
    /\ ListenersKnown
    /\ QueuesKnown
    /\ \A fd \in DOMAIN server.clients : BuffersCounted(server.clients[fd])

(* Those to be gone on with are clients: "When client was just unblocked    *)
(* because of a blocking operation, remove it from the list with unblocked  *)
(* clients" (networking.c:642-643).  (Refuted.)                             *)
UnblockedAreClients == Range(server.unblocked_clients) \subseteq DOMAIN server.clients

(* Every user who stays and reads is served in the end: all it sent has     *)
(* been executed, also behind a call that blocked, and all it was answered  *)
(* has reached it; or it is closed, as those who said farewell and those    *)
(* above their limit are.  (redis.c:813-841, 1125-1146;                     *)
(* networking.c:690-699, 984-1021)                                          *)
Served(u) ==
    LET c == server.clients[FdOf(u)]
    IN  Connected(u) /\ phase[u] = "connected" =>
            /\ c.flags \subseteq {"blocked"}
            /\ "blocked" \notin c.flags => wire[u] = <<>> /\ c.query = <<>>
            /\ "blocked" \in c.flags => ~c.timeout
            /\ Unsent(c) = <<>>
RequestsAreServed ==
    <>[]( /\ Pending = {} /\ server.clients_to_close = <<>> /\ server.unblocked_clients = <<>>
          /\ \A u \in Users \ chosen.deaf :
                Served(u) /\ (phase[u] # "left" => socket[u] = <<>>))
=============================================================================
