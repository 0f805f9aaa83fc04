----------------------------- MODULE MCConnection -----------------------------
(* Scenarios of Connection for TLC: what the peers send, and under which hooks. *)
EXTENDS Connection

Prop(name, v) == name :> v
User1 == Prop("User", <<<<"k", "v">>>>)
Peer(script, hangsUp) == [script |-> script, ip |-> "ip", hangsUp |-> hangsUp]
Scenario(peers, hooks) == [peers |-> peers, hooks |-> hooks, restored |-> 0, seconds |-> 0, maximumClients |-> 3, closes |-> FALSE]

Con(version, id, props) ==
    [Blank("Connect", version) EXCEPT !.props = props,
        !.connect = [NoConnect EXCEPT !.protocol = IF version = 3 THEN "MQIsdp" ELSE "MQTT",
                                      !.clean = TRUE, !.clientId = id]]
WithWill(pk, props) ==
    [pk EXCEPT !.connect.willFlag = TRUE, !.connect.willQos = 1, !.connect.willTopic = "w",
               !.connect.willPayload = "gone", !.connect.willProps = props,
               !.connect.usernameFlag = TRUE, !.connect.username = "u",
               !.connect.passwordFlag = TRUE, !.connect.password = "s", !.connect.keepalive = 30]
Acknowledge(type, version, id, reason, props) ==
    [Blank(type, version) EXCEPT !.id = id, !.reason = reason, !.props = props,
                                 !.qos = IF type = "Pubrel" THEN 1 ELSE 0]
Pub(version, topic, payload, qos, props) ==
    [Blank("Publish", version) EXCEPT !.topic = topic, !.payload = payload, !.qos = qos,
                                      !.id = IF qos > 0 THEN 7 ELSE 0, !.props = props]
SubTo(version, filters, props) ==
    [Blank("Subscribe", version) EXCEPT !.id = 5, !.qos = 1, !.filters = filters, !.props = props]
Sub(filter) == Subscription(filter, 0, FALSE, FALSE, 0)
Unsub(version, filters) ==
    [Blank("Unsubscribe", version) EXCEPT !.id = 6, !.qos = 1, !.filters = filters]
AuthPacket(props) == [Blank("Auth", 5) EXCEPT !.reason = 24, !.props = props]

MCPermissions == "a" :> <<"#">> @@ "ab*" :> <<"+">>
MCTokens == "tk" :> <<"#">> @@ "tk+" :> <<"+">>
MCUsers == "u" :> [password |-> "s", disallow |-> FALSE, acl |-> <<"t">> :> ReadWrite]
Rule(client, allow, filters) ==
    [client |-> client, username |-> "", password |-> "", remote |-> "*", allow |-> allow, filters |-> filters]
MCAuth == <<Rule("x*", FALSE, <<>>), Rule("*", TRUE, <<>>)>>
MCACL == <<Rule("a", TRUE, <<"t">> :> ReadOnly @@ <<"#">> :> Deny)>>

\* Three connections of one client id, one of which hangs up,
\* where two are allowed; two that are too many for their address; and a
\* broker with room for one.
Again(n, hangsUp) ==
    Peer(<<Con(5, "a", NoProperties)>> \o [i \in 1..n |-> AuthPacket(NoProperties)], hangsUp)
Takeovers == {Scenario(1 :> Again(0, TRUE) @@ 2 :> Again(0, FALSE) @@ 3 :> Again(0, FALSE),
                       {"allow-all", "auth-defense"})}
Flooding == {[Scenario(1 :> Again(2, FALSE) @@ 2 :> Again(1, FALSE),
                      {"allow-all", "auth-defense", "ebpf-filter"}) EXCEPT !.seconds = 1]}
    \cup {[Scenario(1 :> Again(0, TRUE) @@ 2 :> Again(0, FALSE), {"allow-all"}) EXCEPT !.maximumClients = 1]}

\* Two connections of one client id subscribe to wildcards, one of them with a token; and
\* a client that has its token for the beginning of its id.
Wild(id, props) == Peer(<<Con(5, id, NoProperties), SubTo(5, <<Sub("#"), Sub("t")>>, props)>>, TRUE)
Bearing(token) == Prop("User", <<<<"wildcard-token", token>>>>)
WithTokens ==
    {Scenario(1 :> Wild("a", Bearing("tk")) @@ 2 :> Wild("a", NoProperties), {"auth-ledger", "wildcard-tokens"}),
     Scenario(1 :> Wild("abc", Bearing("tk+")), {"allow-all", "wildcard-tokens"})}

\* A subscriber and publishers, and the subscriber's own pings.
Reader(v, filters, props, pings) ==
    Peer(<<Con(v, "r", props), SubTo(v, filters, NoProperties)>> \o [i \in 1..pings |-> Blank("Pingreq", v)], FALSE)
Writer(id, pubs) == Peer(<<Con(5, id, NoProperties)>> \o pubs, FALSE)
Signed(topic, payload) == Prop("User", <<<<"integrity-signature", Mac(topic, payload)>>>>)
Streams == <<
    <<Pub(5, "t", "a", 0, Prop("TopicAlias", 2) @@ User1), Pub(5, "", "b", 1, Prop("TopicAlias", 2)),
      Pub(5, "t", "c", 0, User1 @@ Prop("ResponseTopic", "re")), Pub(5, "t", "d", 0, User1)>>,
    <<Pub(5, "t", "e", 0, Signed("t", "e")), Pub(5, "t", "f", 0, Signed("t", "g")),
      Pub(5, "t", "h", 0, Prop("ContentType", "x") @@ Prop("PayloadFormat", 0))>>,
    <<Pub(5, "t", "small", 0, NoProperties), Pub(5, "t", "much larger than that", 0, NoProperties),
      Pub(5, "t", "size", 0, NoProperties)>> >>
Forwards ==
    {Scenario(1 :> Reader(5, <<Sub("t"), Sub("#")>>, NoProperties, 2) @@ 2 :> Writer("w", Streams[1]),
              {"allow-all", "property-validator"}),
     Scenario(1 :> Reader(4, <<Sub("t")>>, NoProperties, 1) @@ 2 :> Writer("w", Streams[2])
                @@ 3 :> Writer("v", <<Pub(5, "t", "i", 0, NoProperties)>>), {"allow-all", "message-integrity"}),
     Scenario(1 :> Reader(5, <<Sub("+")>>, Prop("MaximumPacketSize", 20), 1) @@ 2 :> Writer("w", Streams[3]),
              {"allow-all"})}

\* A packet of every type with every property it may have, in every version.
Sample(kind) ==
    CASE kind = "string" -> "x" [] kind = "pair" -> <<<<"k", "v">>>> [] kind = "varint" -> <<200>>
      [] kind = "byte" -> 1 [] kind = "uint16" -> 3 [] kind = "uint32" -> 900
AllProps(type) == [name \in {row.name : row \in {r \in ToSet(validPacketProperties) : type \in r.in}} |->
                      Sample(RowOf(name).kind)]
Samples(v) ==
    {Acknowledge(type, v, 3, reason, props) : type \in AckTypes, reason \in {0, 146},
                                               props \in {NoProperties, AllProps("Puback")}}
    \cup {Blank(type, v) : type \in {"Pingreq", "Pingresp"}}
    \cup {[Blank("Connack", v) EXCEPT !.present = TRUE, !.reason = 3, !.props = AllProps("Connack")],
          [Blank("Suback", v) EXCEPT !.id = 3, !.reasons = <<0, 128>>, !.props = AllProps("Suback")],
          [Blank("Unsuback", v) EXCEPT !.id = 3, !.reasons = <<0, 17>>, !.props = AllProps("Unsuback")],
          [Blank("Disconnect", v) EXCEPT !.reason = 4, !.props = AllProps("Disconnect")],
          [Blank("Publish", v) EXCEPT !.topic = "t", !.retain = TRUE, !.props = AllProps("Publish")],
          Pub(v, "t", "x", 1, User1), Pub(v, "t", "", 0, Prop("TopicAlias", 3)), Pub(v, "t/#", "x", 0, NoProperties),
          Unsub(v, <<Sub("t"), Sub("+")>>), Unsub(v, <<>>),
          SubTo(v, <<Subscription("t", 2, TRUE, TRUE, 1), Sub("#")>>, AllProps("Subscribe")), SubTo(v, <<>>, NoProperties)}
    \cup IF v = 5 THEN {[Blank("Auth", 5) EXCEPT !.reason = r, !.props = AllProps("Auth")] : r \in {24, 3}} ELSE {}
Greetings(v) ==
    {Con(v, "x", NoProperties), WithWill(Con(v, "x", AllProps("Connect")), AllProps("Will")),
     [Con(v, "x", NoProperties) EXCEPT !.connect.willRetain = TRUE]}
Codec ==
    {Scenario(1 :> Peer(<<Con(v, "y", NoProperties), pk>>, FALSE), {"allow-all"}) :
        <<v, pk>> \in UNION {{v} \X (Samples(v) \cup Greetings(v)) : v \in Versions}}
    \cup {Scenario(1 :> Peer(<<pk>>, FALSE), {"allow-all"}) : pk \in UNION {Greetings(v) : v \in Versions}}

\* A ledger that lets one client in and read, and another one not even that;
\* a session that goes on, is unsubscribed, and its own messages left out.
Resuming(filters, hangsUp) ==
    Peer(<<[Con(4, "a", NoProperties) EXCEPT !.connect.clean = FALSE], SubTo(4, filters, NoProperties)>>, hangsUp)
Own == [SubTo(5, <<[Sub("t") EXCEPT !.noLocal = TRUE, !.asPublished = TRUE]>>, NoProperties) EXCEPT
           !.props = "SubscriptionIdentifier" :> <<9>>]
Sessions ==
    {Scenario(1 :> Peer(<<Con(v, "a", NoProperties), Pub(v, "t", "x", q, NoProperties)>>, FALSE)
                @@ 2 :> Peer(<<Con(v, "xx", NoProperties)>>, FALSE), {"auth-ledger"}) : v \in {4, 5}, q \in {0, 1}}
    \cup
    {Scenario(1 :> Resuming(<<Sub("t")>>, TRUE) @@ 2 :> Resuming(<<Sub("#")>>, FALSE)
                @@ 3 :> Writer("w", <<Pub(5, "t", "x", 0, NoProperties)>>), {"allow-all"}),
     Scenario(1 :> Reader(4, <<Sub("+")>>, NoProperties, 0)
                @@ 2 :> Writer("w", <<Own, Pub(5, "t", "x", 0, NoProperties), Unsub(5, <<Sub("t"), Sub("#")>>),
                                      [Blank("Disconnect", 5) EXCEPT !.props = "SessionExpiryInterval" :> 5]>>),
              {"allow-all"})}

\* The broker closes while two connections come in.
Shutdown == {[Scenario(1 :> Again(0, FALSE) @@ 2 :> Again(0, FALSE), {"allow-all"})
                 EXCEPT !.closes = TRUE]}

MCScenarios == Shutdown \cup Takeovers \cup Flooding \cup WithTokens \cup Forwards \cup Codec \cup Sessions
===============================================================================
