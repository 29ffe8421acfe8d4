---------------------------- MODULE MCConnections ----------------------------
EXTENDS Connections

CONSTANTS A, B, C

Limit == "normal" :> [hard |-> 0, soft |-> 0] @@ "pubsub" :> [hard |-> 12, soft |-> 8]

Scenario(a, b, c, late, leaving, deaf, maxclients, maxquery, idle, parts) ==
    [requests |-> A :> a @@ B :> b @@ C :> c, late |-> late, leaving |-> leaving, deaf |-> deaf,
     maxclients |-> maxclients, maxquery |-> maxquery, maxidletime |-> idle, splits |-> parts]

Publish(ch) == <<"publish", ch, "m">>

(* A listener of channels and one of a pattern come and go while a third    *)
(* publishes.                                                               *)
Listening == Scenario(
    << <<"subscribe", "c1", "c2">>, <<"unsubscribe", "c1">>, <<"ping">> >>,
    << <<"psubscribe", "*", "c1">>, <<"punsubscribe">>, <<"ping">> >>,
    << Publish("c1"), Publish("c2") >>, {}, {}, {}, 3, 20, FALSE, 0)

(* Requests behind a call that blocks, which ends by a push or a time-out.  *)
Blocking == Scenario(
    << <<"blpop", "1">>, <<"ping">> >>,
    << <<"blpop">>, <<"quit">>, <<"ping">> >>,
    << <<"rpush">>, <<"keys", "x", "y">> >>, {}, {A}, {}, 3, 20, FALSE, 1)

(* A listener that does not read is closed at its limit, one that reads is  *)
(* not; the listener may ask for the end itself.                            *)
Flooding == Scenario(
    << <<"subscribe", "c1">>, <<"unsubscribe">>, <<"quit">> >>,
    << <<"subscribe", "c1">> >>,
    << Publish("c1"), Publish("c1"), Publish("c1") >>, {}, {}, {A}, 3, 20, FALSE, 1)

(* A client closes others and itself; a descriptor is used again; one too   *)
(* many is refused; an idle client is closed, and one that sends too much.  *)
Closing == Scenario(
    << <<"psubscribe", "*">>, <<"ping">> >>,
    << Publish("c1"), <<"client", A>>, <<"client", B>> >>,
    << Publish("c1"), <<"bad", "length">>, <<"ping">> >>, {C}, {A}, {}, 2, 11, TRUE, 1)

(* Long answers, malformed and empty requests.                              *)
Answers == Scenario(
    << <<"ping">>, <<"keys", "x", "y", "z">>, <<"keys", "x">> >>,
    << <<>>, <<"bad", "line">>, <<"ping">> >>, <<>>, {}, {A, B}, {}, 3, 20, FALSE, 1)

Ways == {Listening, Blocking, Flooding, Closing, Answers}

(* A client that blocks twice in one iteration and is closed in it.         *)
BlockedTwice == Scenario(
    << <<"blpop">>, <<"blpop">> >>, << <<"rpush">> >>, << <<"client", A>> >>, {}, {}, {}, 3, 20, FALSE, 1)
Twice == {BlockedTwice}
=============================================================================
