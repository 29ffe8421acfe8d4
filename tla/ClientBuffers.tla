---------------------------- MODULE ClientBuffers ----------------------------
(***************************************************************************)
(* What the server of redis-2.6.17 keeps of a connection (networking.c):   *)
(* the requests it is reading and the replies it has not written yet.      *)
(*                                                                         *)
(* Requests arrive as tokens, the units the parser waits for: a line with  *)
(* the number of arguments, a line with the length of one, an argument, or *)
(* an inline request; a token that has arrived in part is not there yet.   *)
(* Replies are written token by token: a part of a reply, as one call adds *)
(* it, is a sequence of tokens, and never empty.                           *)
(***************************************************************************)
EXTENDS Naturals, Sequences, SequencesExt

CONSTANTS
    ReplyChunk,  \* REDIS_REPLY_CHUNK_BYTES, the room of the static buffer too
    MaxWrite,    \* REDIS_MAX_WRITE_PER_EVENT
    Limits       \* client-output-buffer-limit, by class: hard and soft (0: none)

ASSUME BuffersAssumption ==
    /\ ReplyChunk \in Nat \ {0} /\ MaxWrite \in Nat
    /\ Limits \in [{"normal", "pubsub"} -> [hard : Nat, soft : Nat]]

createClient(u) ==
    [user |-> u, events |-> {"r"}, flags |-> {},
     query |-> <<>>, multibulklen |-> 0, bulklen |-> FALSE, argv |-> <<>>,
     buf |-> <<>>, reply |-> <<>>, sentlen |-> 0, reply_bytes |-> 0, soft |-> "no",
     channels |-> {}, patterns |-> <<>>, timeout |-> FALSE]

resetClient(c) == [c EXCEPT !.argv = <<>>, !.multibulklen = 0, !.bulklen = FALSE]

-----------------------------------------------------------------------------
(* Requests.  A reading is the client after it and what the parser says.    *)

Reading(c, status) == [client |-> c, status |-> status]

(* The arguments that are there are taken; bulklen tells that the length of *)
(* the next one is known.                                                   *)
RECURSIVE ReadArguments(_)
ReadArguments(c) ==
    IF c.multibulklen = 0 THEN Reading(c, "request")
    ELSE IF c.query = <<>> THEN Reading(c, "more")
    ELSE LET token == Head(c.query)
             rest == [c EXCEPT !.query = Tail(@)]
         IN  IF c.bulklen
             THEN ReadArguments([rest EXCEPT !.argv = Append(@, token.v[1]), !.bulklen = FALSE,
                                             !.multibulklen = @ - 1])
             ELSE IF token.t = "length" THEN ReadArguments([rest EXCEPT !.bulklen = TRUE])
             ELSE Reading(c, "error")

processMultibulkBuffer(c) ==
    LET count == Head(c.query)
        rest == [c EXCEPT !.query = Tail(@)]
    IN  IF c.multibulklen > 0 THEN ReadArguments(c)
        ELSE IF count.t # "count" THEN Reading(c, "error")
        ELSE IF Len(count.v) = 0 THEN Reading(rest, "request")
        ELSE ReadArguments([rest EXCEPT !.multibulklen = Len(count.v)])

processInlineBuffer(c) ==
    Reading([c EXCEPT !.query = Tail(@), !.argv = Head(c.query).v], "request")

ReadRequest(c) ==
    IF c.multibulklen = 0 /\ Head(c.query).t = "inline"
    THEN processInlineBuffer(c) ELSE processMultibulkBuffer(c)

-----------------------------------------------------------------------------
(* Replies.  The static buffer comes first, then the list of chunks; what   *)
(* sentlen counts has been written of the first of them.                    *)

Unsent(c) == LET all == c.buf \o FlattenSeq(c.reply) IN SubSeq(all, c.sentlen + 1, Len(all))

(* A chunk takes a header besides its contents, a node of the list as well. *)
Memory(s) == Len(s) + 1
getClientOutputBufferMemoryUsage(c) == c.reply_bytes + Len(c.reply)

prepareClientToWrite(c) ==
    IF c.buf = <<>> /\ c.reply = <<>> THEN [c EXCEPT !.events = @ \cup {"w"}] ELSE c

(* Mutant: the static buffer takes a part although the list has some.       *)
FitsAnyway(c, s) == Len(c.buf) + Len(s) <= ReplyChunk

(* Whether _addReplyToBuffer accepts a part.                                *)
FitsBuffer(c, s) == c.reply = <<>> /\ Len(c.buf) + Len(s) <= ReplyChunk

(* The place of a length that is not known yet (a NULL pointer).            *)
Null == <<"?">>

_addReplyStringToList(c, s) ==
    IF c.reply # <<>> /\ Last(c.reply) # Null /\ Len(Last(c.reply)) + Len(s) <= ReplyChunk
    THEN [c EXCEPT !.reply[Len(c.reply)] = @ \o s, !.reply_bytes = @ + Len(s)]
    ELSE [c EXCEPT !.reply = Append(@, s), !.reply_bytes = @ + Memory(s)]

addDeferredMultiBulkLength(c) ==
    [prepareClientToWrite(c) EXCEPT !.reply = Append(@, Null)]

(* The length goes to its place, and is glued to the chunk that follows.    *)
setDeferredMultiBulkLength(c, i, s) ==
    IF i = Len(c.reply)
    THEN [c EXCEPT !.reply[i] = s, !.reply_bytes = @ + Memory(s)]
    ELSE [c EXCEPT !.reply = SubSeq(@, 1, i - 1) \o <<s \o @[i + 1]>> \o SubSeq(@, i + 2, Len(@)),
                   !.reply_bytes = @ + Len(s)]

getClientLimitClass(c) == IF c.channels # {} \/ c.patterns # <<>> THEN "pubsub" ELSE "normal"

OverHardLimit(c) ==
    LET hard == Limits[getClientLimitClass(c)].hard
    IN  hard # 0 /\ getClientOutputBufferMemoryUsage(c) >= hard

(* The soft limit counts when it has been reached for long ("over").        *)
OverSoftLimit(c) ==
    LET soft == Limits[getClientLimitClass(c)].soft
    IN  soft # 0 /\ getClientOutputBufferMemoryUsage(c) >= soft

checkClientOutputBufferLimits(c) ==
    [client |-> [c EXCEPT !.soft = IF ~OverSoftLimit(c) THEN "no"
                                   ELSE IF @ = "no" THEN "reached" ELSE @],
     over |-> OverHardLimit(c) \/ (OverSoftLimit(c) /\ c.soft = "over")]

(* One write of n tokens.                                                   *)
Written(c, n) ==
    IF c.buf # <<>>
    THEN IF c.sentlen + n = Len(c.buf) THEN [c EXCEPT !.buf = <<>>, !.sentlen = 0]
         ELSE [c EXCEPT !.sentlen = @ + n]
    ELSE IF c.sentlen + n = Len(Head(c.reply))
         THEN [c EXCEPT !.reply = Tail(@), !.sentlen = 0, !.reply_bytes = @ - Memory(Head(c.reply))]
         ELSE [c EXCEPT !.sentlen = @ + n]

(* The loop of sendReplyToClient, with a socket that takes room tokens.     *)
RECURSIVE WriteAll(_, _, _)
WriteAll(c, room, total) ==
    LET first == IF c.buf # <<>> THEN Len(c.buf) ELSE Len(Head(c.reply))
        n == IF first - c.sentlen <= room THEN first - c.sentlen ELSE room
        more == WriteAll(Written(c, n), room - n, total + n)
    IN  IF (c.buf = <<>> /\ c.reply = <<>>) \/ room = 0 \/ total > MaxWrite
        THEN [client |-> c, out |-> <<>>]
        ELSE [client |-> more.client, out |-> SubSeq(Unsent(c), 1, n) \o more.out]

(* Nothing is left to write: the write handler goes.                        *)
Drained(c) ==
    IF c.buf = <<>> /\ c.reply = <<>>
    THEN [c EXCEPT !.sentlen = 0, !.events = @ \ {"w"}] ELSE c
=============================================================================
