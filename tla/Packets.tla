-------------------------------- MODULE Packets --------------------------------
(***************************************************************************)
(* Control packets, how they are written and read (broker/packets).  A     *)
(* frame is its fixed header and a body of fields <<kind, value>>, each    *)
(* with the bytes it takes.                                                *)
(***************************************************************************)
EXTENDS PacketProperties

Versions == {3, 4, 5}
AckTypes == {"Puback", "Pubrec", "Pubrel", "Pubcomp"}
PacketTypes == AckTypes \cup {"Connect", "Connack", "Publish", "Subscribe", "Suback", "Unsubscribe",
                              "Unsuback", "Pingreq", "Pingresp", "Disconnect", "Auth"}

NoMods == [maxSize |-> 0, disallowProblemInfo |-> FALSE, allowResponseInfo |-> TRUE]
NoConnect == [protocol |-> "", reserved |-> FALSE, clean |-> FALSE, keepalive |-> 0,
              clientId |-> "", willFlag |-> FALSE, willQos |-> 0, willRetain |-> FALSE,
              willTopic |-> "", willPayload |-> "", willProps |-> NoProperties,
              usernameFlag |-> FALSE, username |-> "", passwordFlag |-> FALSE, password |-> ""]
Blank(type, version) ==
    [type |-> type, qos |-> 0, dup |-> FALSE, retain |-> FALSE, version |-> version, id |-> 0,
     topic |-> "", payload |-> "", reason |-> 0, reasons |-> <<>>, filters |-> <<>>,
     present |-> FALSE, props |-> NoProperties, mods |-> NoMods, connect |-> NoConnect]
Malformed == Blank("Malformed", 0)

Subscription(filter, qos, noLocal, asPublished, handling) ==
    [filter |-> filter, qos |-> qos, noLocal |-> noLocal, asPublished |-> asPublished,
     handling |-> handling, identifier |-> 0]

(* Fields *)

Byte(v) == <<<<"byte", v>>>>
Bool(v) == <<<<"bool", v>>>>
Uint16(v) == <<<<"uint16", v>>>>
String(v) == <<<<"string", v>>>>
Raw(v) == IF v = "" THEN <<>> ELSE <<<<"raw", v>>>>
Block(entries) == <<<<"properties", entries>>>>
When(condition, fields) == IF condition THEN fields ELSE <<>>

FieldSize(field) ==
    CASE field[1] \in {"byte", "bool", "flags"} -> 1
      [] field[1] = "uint16" -> 2
      [] field[1] = "string" -> 2 + Len(field[2])
      [] field[1] = "raw" -> Len(field[2])
      [] field[1] = "properties" -> PropertiesSize(field[2])
Size(body) == FoldSeq(LAMBDA field, sum : sum + FieldSize(field), 0, body)

Frame(pk, body) ==
    [type |-> pk.type, dup |-> pk.dup, qos |-> pk.qos, retain |-> pk.retain, body |-> body]
FrameSize(frame) == 1 + VarintSize(Size(frame.body)) + Size(frame.body)

\* The flags of the fixed header each type must have.
HeaderAllowed(frame) ==
    CASE frame.type = "Publish" -> frame.qos < 3 /\ (frame.qos = 0 => ~frame.dup)
      [] frame.type \in {"Pubrel", "Subscribe", "Unsubscribe"} ->
             frame.qos = 1 /\ ~frame.dup /\ ~frame.retain
      [] OTHER -> frame.qos = 0 /\ ~frame.dup /\ ~frame.retain

(* Writing *)

Props(pk, n) == When(pk.version = 5, Block(EncodeProperties(pk.type, pk.mods, pk.props, n)))

ConnectEncode(pk) ==
    LET c == pk.connect
        flags == [reserved |-> FALSE, clean |-> c.clean, will |-> c.willFlag, willQos |-> c.willQos,
                  willRetain |-> c.willRetain, password |-> c.passwordFlag,
                  username |-> c.usernameFlag]
        will == When(pk.version = 5, Block(EncodeProperties("Will", pk.mods, c.willProps, 0)))
                \o String(c.willTopic) \o String(c.willPayload)
    IN String(c.protocol) \o Byte(pk.version) \o <<<<"flags", flags>>>> \o Uint16(c.keepalive)
       \o Props(pk, 0) \o String(c.clientId) \o When(c.willFlag, will)
       \o When(c.usernameFlag, String(c.username)) \o When(c.passwordFlag, String(c.password))

ConnackEncode(pk) == Bool(pk.present) \o Byte(pk.reason) \o Props(pk, 4)
DisconnectEncode(pk) == When(pk.version = 5, Byte(pk.reason) \o Props(pk, 1))
AuthEncode(pk) == Byte(pk.reason) \o Block(EncodeProperties("Auth", pk.mods, pk.props, 1))

PublishEncode(pk) ==
    LET start == String(pk.topic) \o When(pk.qos > 0, Uint16(pk.id))
    IN start \o Props(pk, Size(start) + Len(pk.payload)) \o Raw(pk.payload)

\* The reason is left out when it is no error and no property follows it.
encodePubAckRelRecComp(pk) ==
    LET entries == EncodeProperties(pk.type, pk.mods, pk.props, 2)
    IN Uint16(pk.id) \o When(pk.version = 5,
           When(pk.reason >= 128 \/ entries # <<>>, Byte(pk.reason))
           \o When(entries # <<>>, Block(entries)))

Reasons(pk) == [i \in DOMAIN pk.reasons |-> <<"byte", pk.reasons[i]>>]
SubackEncode(pk) == Uint16(pk.id) \o Props(pk, 2 + Len(pk.reasons)) \o Reasons(pk)
UnsubackEncode(pk) == Uint16(pk.id) \o Props(pk, 2) \o When(pk.version = 5, Reasons(pk))

Options(sub) == [sub EXCEPT !.filter = "", !.identifier = 0]
Filter(pk, sub) == String(sub.filter) \o
    IF pk.version = 5 THEN <<<<"flags", Options(sub)>>>> ELSE Byte(sub.qos)
SubscribeEncode(pk) ==
    LET filters == FlattenSeq([i \in DOMAIN pk.filters |-> Filter(pk, pk.filters[i])])
    IN Uint16(pk.id) \o Props(pk, 2 + Size(filters)) \o filters
UnsubscribeEncode(pk) ==
    LET filters == FlattenSeq([i \in DOMAIN pk.filters |-> String(pk.filters[i].filter)])
    IN Uint16(pk.id) \o Props(pk, 2 + Size(filters)) \o filters

\* PUBLISH with a QoS, SUBSCRIBE and UNSUBSCRIBE are not written without an id.
CanEncode(pk) ==
    ((pk.type = "Publish" /\ pk.qos > 0) \/ pk.type \in {"Subscribe", "Unsubscribe"}) => pk.id > 0

Encode(pk) == Frame(pk,
    CASE pk.type = "Connect" -> ConnectEncode(pk)
      [] pk.type = "Connack" -> ConnackEncode(pk)
      [] pk.type = "Publish" -> PublishEncode(pk)
      [] pk.type \in AckTypes -> encodePubAckRelRecComp(pk)
      [] pk.type = "Subscribe" -> SubscribeEncode(pk)
      [] pk.type = "Suback" -> SubackEncode(pk)
      [] pk.type = "Unsubscribe" -> UnsubscribeEncode(pk)
      [] pk.type = "Unsuback" -> UnsubackEncode(pk)
      [] pk.type \in {"Pingreq", "Pingresp"} -> <<>>
      [] pk.type = "Disconnect" -> DisconnectEncode(pk)
      [] pk.type = "Auth" -> AuthEncode(pk))

(* Reading: pk has the type and flags of the header and the version of the
   connection; the fields of b follow, Remaining bytes in all. *)

Value(b, i) == b[i][2]
Rest(b, i) == SubSeq(b, i, Len(b))
PropsAt(pk, b, i) == Len(b) >= i /\ Decodable(pk.type, Value(b, i))
Read5(pk, b, i) == IF pk.version = 5 THEN DecodeProperties(Value(b, i)) ELSE pk.props

ConnectDecode(pk, b) ==
    IF Len(b) < 4 THEN Malformed ELSE
    LET v == Value(b, 2)
        f == Value(b, 3)
        id == IF v = 5 THEN 6 ELSE 5
        topic == IF v = 5 THEN id + 2 ELSE id + 1
        user == IF f.will THEN topic + 2 ELSE id + 1
        pass == IF f.username THEN user + 1 ELSE user
        last == IF f.password THEN pass ELSE pass - 1
    IN IF \/ Len(b) < last
          \/ v = 5 /\ ~Decodable("Connect", Value(b, 5))
          \/ v = 5 /\ f.will /\ ~Decodable("Will", Value(b, id + 1))
       THEN Malformed
       ELSE [pk EXCEPT !.version = v, !.props = Read5([pk EXCEPT !.version = v], b, 5),
                !.connect = [NoConnect EXCEPT
                    !.protocol = Value(b, 1), !.reserved = f.reserved, !.clean = f.clean,
                    !.keepalive = Value(b, 4), !.clientId = Value(b, id),
                    !.willFlag = f.will, !.willQos = f.willQos, !.willRetain = f.willRetain,
                    !.usernameFlag = f.username, !.passwordFlag = f.password,
                    !.willProps = IF f.will /\ v = 5 THEN DecodeProperties(Value(b, id + 1)) ELSE @,
                    !.willTopic = IF f.will THEN Value(b, topic) ELSE @,
                    !.willPayload = IF f.will THEN Value(b, topic + 1) ELSE @,
                    !.username = IF f.username THEN Value(b, user) ELSE @,
                    !.password = IF f.password THEN Value(b, pass) ELSE @]]

ConnackDecode(pk, b) ==
    IF Len(b) < 2 \/ (pk.version = 5 /\ ~PropsAt(pk, b, 3)) THEN Malformed
    ELSE [pk EXCEPT !.present = Value(b, 1), !.reason = Value(b, 2), !.props = Read5(pk, b, 3)]

\* A body of one byte is taken for an empty one.
DisconnectDecode(pk, b) ==
    IF pk.version # 5 \/ Size(b) < 2 THEN pk
    ELSE IF ~PropsAt(pk, b, 2) THEN Malformed
    ELSE [pk EXCEPT !.reason = Value(b, 1), !.props = Read5(pk, b, 2)]

\* Whatever the version, and both fields are asked for.
AuthDecode(pk, b) ==
    IF Len(b) = 0 \/ ~PropsAt(pk, b, 2) THEN Malformed
    ELSE [pk EXCEPT !.reason = Value(b, 1), !.props = DecodeProperties(Value(b, 2))]

PublishDecode(pk, b) ==
    LET last == 1 + (IF pk.qos > 0 THEN 1 ELSE 0) + (IF pk.version = 5 THEN 1 ELSE 0)
    IN IF Len(b) < last \/ (pk.version = 5 /\ ~PropsAt(pk, b, last)) THEN Malformed
       ELSE [pk EXCEPT !.topic = Value(b, 1), !.id = IF pk.qos > 0 THEN Value(b, 2) ELSE @,
                       !.props = Read5(pk, b, last),
                       !.payload = IF Len(b) > last THEN Value(b, last + 1) ELSE ""]

\* A reason is read only when properties follow.
decodePubAckShort(pk, b) ==   \* a mutant
    IF pk.version # 5 \/ Size(b) <= 3 THEN [pk EXCEPT !.id = Value(b, 1)]
    ELSE [pk EXCEPT !.id = Value(b, 1), !.reason = Value(b, 2), !.props = Read5(pk, b, 3)]

decodePubAckRelRecComp(pk, b) ==
    IF Len(b) = 0 THEN Malformed
    ELSE IF pk.version # 5 \/ Size(b) = 2 THEN [pk EXCEPT !.id = Value(b, 1)]
    ELSE IF Size(b) = 3 THEN [pk EXCEPT !.id = Value(b, 1), !.reason = Value(b, 2)]
    ELSE IF ~PropsAt(pk, b, 3) THEN Malformed
    ELSE [pk EXCEPT !.id = Value(b, 1), !.reason = Value(b, 2), !.props = Read5(pk, b, 3)]

Bytes(fields) == [i \in DOMAIN fields |-> fields[i][2]]
SubackDecode(pk, b) ==
    IF Len(b) = 0 \/ (pk.version = 5 /\ ~PropsAt(pk, b, 2)) THEN Malformed
    ELSE [pk EXCEPT !.id = Value(b, 1), !.props = Read5(pk, b, 2),
                    !.reasons = Bytes(Rest(b, IF pk.version = 5 THEN 3 ELSE 2))]
UnsubackDecode(pk, b) ==
    IF Len(b) = 0 \/ (pk.version = 5 /\ ~PropsAt(pk, b, 2)) THEN Malformed
    ELSE [pk EXCEPT !.id = Value(b, 1), !.props = Read5(pk, b, 2),
                    !.reasons = IF pk.version = 5 THEN Bytes(Rest(b, 3)) ELSE @]

\* A filter and its options; the first identifier is that of all of them.
Subscribed(pk, props, b, i) ==
    LET option == Value(b, i + 1)
        sub == IF pk.version = 5 THEN [option EXCEPT !.filter = Value(b, i)]
               ELSE Subscription(Value(b, i), option, FALSE, FALSE, 0)
    IN [sub EXCEPT !.identifier = IF Has(props, "SubscriptionIdentifier")
                                  THEN props["SubscriptionIdentifier"][1] ELSE 0]
SubscribeDecode(pk, b) ==
    LET first == IF pk.version = 5 THEN 3 ELSE 2
        n == (Len(b) - first + 1) \div 2
        subs == [i \in 1..n |-> Subscribed(pk, Read5(pk, b, 2), b, first + 2 * (i - 1))]
    IN IF \/ Len(b) < first - 1 \/ (pk.version = 5 /\ ~PropsAt(pk, b, 2))
          \/ (Len(b) - first + 1) % 2 = 1 \/ \E i \in 1..n : subs[i].qos > 2 THEN Malformed
       ELSE [pk EXCEPT !.id = Value(b, 1), !.props = Read5(pk, b, 2), !.filters = subs]
UnsubscribeDecode(pk, b) ==
    LET first == IF pk.version = 5 THEN 3 ELSE 2
        filters == Rest(b, first)
    IN IF Len(b) < first - 1 \/ (pk.version = 5 /\ ~PropsAt(pk, b, 2)) THEN Malformed
       ELSE [pk EXCEPT !.id = Value(b, 1), !.props = Read5(pk, b, 2),
                !.filters = [i \in DOMAIN filters |->
                                Subscription(filters[i][2], 0, FALSE, FALSE, 0)]]

\* ReadPacket, for a connection of the given version.
Decode(frame, version) ==
    LET pk == [Blank(frame.type, version) EXCEPT !.dup = frame.dup, !.qos = frame.qos,
                                                 !.retain = frame.retain]
        b == frame.body
    IN IF ~HeaderAllowed(frame) THEN Malformed
       ELSE CASE frame.type = "Connect" -> ConnectDecode(pk, b)
         [] frame.type = "Connack" -> ConnackDecode(pk, b)
         [] frame.type = "Publish" -> PublishDecode(pk, b)
         [] frame.type \in AckTypes -> decodePubAckRelRecComp(pk, b)
         [] frame.type = "Subscribe" -> SubscribeDecode(pk, b)
         [] frame.type = "Suback" -> SubackDecode(pk, b)
         [] frame.type = "Unsubscribe" -> UnsubscribeDecode(pk, b)
         [] frame.type = "Unsuback" -> UnsubackDecode(pk, b)
         [] frame.type \in {"Pingreq", "Pingresp"} -> pk
         [] frame.type = "Disconnect" -> DisconnectDecode(pk, b)
         [] frame.type = "Auth" -> AuthDecode(pk, b)
         [] OTHER -> Malformed

(* What the handlers ask of a packet they were given, and its copy. *)

ConnectValidate(pk) ==
    LET c == pk.connect IN
    /\ <<c.protocol, pk.version>> \in {<<"MQIsdp", 3>>, <<"MQTT", 4>>, <<"MQTT", 5>>}
    /\ ~c.reserved
    /\ c.usernameFlag \/ c.username = ""
    /\ c.passwordFlag <=> c.password # ""
    /\ c.willFlag => c.willPayload # "" /\ c.willTopic # "" /\ c.willQos < 3
    /\ c.willRetain => c.willFlag

PublishValidate(pk, topicAliasMaximum) ==
    /\ pk.qos > 0 <=> pk.id > 0
    /\ ~HasWildcard(pk.topic)
    /\ Has(pk.props, "TopicAlias") => pk.props["TopicAlias"] \in 1..topicAliasMaximum
    /\ pk.topic = "" => Has(pk.props, "TopicAlias")
    /\ ~Has(pk.props, "SubscriptionIdentifier")

SubscribeValidate(pk) ==
    (pk.qos > 0 => pk.id > 0) /\ pk.filters # <<>>
    /\ \A i \in DOMAIN pk.filters : pk.filters[i].identifier <= 268435455
UnsubscribeValidate(pk) == (pk.qos > 0 => pk.id > 0) /\ pk.filters # <<>>
AuthValidate(pk) == pk.reason \in {0, 24, 25}

Validate(pk, topicAliasMaximum) ==
    CASE pk.type = "Connect" -> ConnectValidate(pk)
      [] pk.type = "Publish" -> PublishValidate(pk, topicAliasMaximum)
      [] pk.type = "Subscribe" -> SubscribeValidate(pk)
      [] pk.type = "Unsubscribe" -> UnsubscribeValidate(pk)
      [] pk.type = "Auth" -> AuthValidate(pk)
      [] OTHER -> TRUE

ReasonCodeValid(pk) ==
    CASE pk.type = "Pubrec" -> pk.reason \in {0, 16, 128, 131, 135, 144, 145, 151, 153}
      [] pk.type \in {"Pubrel", "Pubcomp"} -> pk.reason \in {0, 146}
      [] pk.type = "Suback" -> pk.reason \in {0, 1, 2, 128, 131, 135, 143, 145, 151, 158, 161, 162}
      [] pk.type = "Unsuback" -> pk.reason \in {0, 17, 128, 131, 135, 143, 145}
      [] OTHER -> TRUE

Copy(pk, allowTransfer) ==
    [pk EXCEPT !.dup = FALSE, !.id = IF allowTransfer THEN @ ELSE 0,
               !.mods = [maxSize |-> @.maxSize, disallowProblemInfo |-> FALSE,
                         allowResponseInfo |-> FALSE],
               !.props = CopyProperties(@, allowTransfer),
               !.connect.willProps = CopyProperties(@, allowTransfer),
               !.connect.usernameFlag = pk.connect.username # "",
               !.connect.passwordFlag = pk.connect.password # ""]
===============================================================================
