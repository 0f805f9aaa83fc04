--------------------------- MODULE PacketProperties ---------------------------
(***************************************************************************)
(* The properties of MQTT 5 packets (broker/packets/properties.go): which  *)
(* are valid where, how a Properties struct is written and read.  A struct *)
(* is the function of the properties it has; a field that has no flag of   *)
(* its own and is zero or empty is one that is not there.                  *)
(***************************************************************************)
EXTENDS Integers, Sequences, SequencesExt, FiniteSetsExt, Functions

Messages == {"Publish", "Will"}
Answers == {"Puback", "Pubrec", "Pubrel", "Pubcomp", "Suback", "Unsuback"}
Logins == {"Connect", "Connack"}
All == Messages \cup Answers \cup Logins \cup {"Subscribe", "Unsubscribe", "Disconnect", "Auth"}

Row(name, kind, in) == [name |-> name, kind |-> kind, in |-> in]

\* In the order in which they are written.
validPacketProperties == <<
    Row("PayloadFormat", "byte", Messages), Row("MessageExpiryInterval", "uint32", Messages),
    Row("ContentType", "string", Messages), Row("ResponseTopic", "string", Messages),
    Row("CorrelationData", "string", Messages),
    Row("SubscriptionIdentifier", "varint", {"Publish", "Subscribe"}),
    Row("SessionExpiryInterval", "uint32", Logins \cup {"Disconnect"}),
    Row("AssignedClientID", "string", {"Connack"}), Row("ServerKeepAlive", "uint16", {"Connack"}),
    Row("AuthenticationMethod", "string", Logins \cup {"Auth"}),
    Row("AuthenticationData", "string", Logins \cup {"Auth"}),
    Row("RequestProblemInfo", "byte", {"Connect"}), Row("WillDelayInterval", "uint32", {"Will"}),
    Row("RequestResponseInfo", "byte", {"Connect"}), Row("ResponseInfo", "string", {"Connack"}),
    Row("ServerReference", "string", {"Connack", "Disconnect"}),
    Row("ReasonString", "string", Answers \cup {"Connack", "Disconnect", "Auth"}),
    Row("ReceiveMaximum", "uint16", Logins), Row("TopicAliasMaximum", "uint16", Logins),
    Row("TopicAlias", "uint16", {"Publish"}), Row("MaximumQos", "byte", {"Connack"}),
    Row("RetainAvailable", "byte", {"Connack"}), Row("User", "pair", All),
    Row("MaximumPacketSize", "uint32", Logins), Row("WildcardSubAvailable", "byte", {"Connack"}),
    Row("SubIDAvailable", "byte", {"Connack"}), Row("SharedSubAvailable", "byte", {"Connack"}) >>

PropertyNames == {row.name : row \in ToSet(validPacketProperties)}
RowOf(name) == CHOOSE row \in ToSet(validPacketProperties) : row.name = name

\* Fields with a flag that says whether they were given; lists of values.
Flagged == {"PayloadFormat", "SessionExpiryInterval", "ServerKeepAlive", "RequestProblemInfo",
            "TopicAlias", "MaximumQos", "RetainAvailable", "WildcardSubAvailable",
            "SubIDAvailable", "SharedSubAvailable"}
Lists == {"User", "SubscriptionIdentifier"}

NoProperties == [name \in {} |-> 0]
IsZero(name, v) == IF name \in Lists \/ RowOf(name).kind = "string" THEN Len(v) = 0 ELSE v = 0
Struct(f) == Restrict(f, {n \in DOMAIN f : n \in Flagged \/ ~IsZero(n, f[n])})
Has(p, name) == name \in DOMAIN p

VarintSize(n) == IF n < 128 THEN 1 ELSE IF n < 16384 THEN 2 ELSE IF n < 2097152 THEN 3 ELSE 4
ValueSize(kind, v) ==
    CASE kind = "byte" -> 1
      [] kind = "uint16" -> 2
      [] kind = "uint32" -> 4
      [] kind = "varint" -> VarintSize(v)
      [] kind = "string" -> 2 + Len(v)
      [] kind = "pair" -> 4 + Len(v[1]) + Len(v[2])

\* What is written for one field, and its bytes.
Values(p, name) ==
    CASE name = "SubscriptionIdentifier" -> SelectSeq(p[name], LAMBDA id : id > 0)
      [] name = "User" -> p[name]
      [] OTHER -> <<p[name]>>
Entries(p, name) == [i \in DOMAIN Values(p, name) |-> <<name, Values(p, name)[i]>>]
EntriesSize(entries) ==
    FoldSeq(LAMBDA e, sum : sum + 1 + ValueSize(RowOf(e[1]).kind, e[2]), 0, entries)

HasWildcard(topic) == \E i \in 1..Len(topic) : SubSeq(topic, i, i) \in {"+", "#"}

\* What is optional must fit beside the n bytes of the rest.
Fits(bytes, mods, n) == mods.maxSize = 0 \/ n + bytes + 1 < mods.maxSize

Written(pkt, mods, p, n, row) ==
    LET name == row.name IN
    /\ pkt \in row.in /\ Has(p, name)
    /\ name \in {"ResponseTopic", "CorrelationData", "ResponseInfo"} => mods.allowResponseInfo
    /\ name = "ResponseTopic" => ~HasWildcard(p[name])
    /\ name \in {"ReasonString", "User"} => ~mods.disallowProblemInfo
    /\ name = "ReasonString" => Fits(2 + Len(p[name]), mods, n)
    /\ name = "User" => Fits(EntriesSize(Entries(p, name)), mods, n)
    /\ name = "TopicAlias" => p[name] > 0
    /\ name = "MaximumQos" => p[name] < 2

EncodeProperties(pkt, mods, p, n) ==
    FlattenSeq([i \in DOMAIN validPacketProperties |->
        LET row == validPacketProperties[i]
        IN IF Written(pkt, mods, p, n, row) THEN Entries(p, row.name) ELSE <<>>])

PropertiesSize(entries) == VarintSize(EntriesSize(entries)) + EntriesSize(entries)

\* The first entry that has no place in the packet ends the decoding.
Decodable(pkt, entries) == \A i \in DOMAIN entries : pkt \in RowOf(entries[i][1]).in
DecodeProperties(entries) ==
    LET of(name) == SelectSeq(entries, LAMBDA e : e[1] = name)
    IN Struct([name \in {e[1] : e \in ToSet(entries)} |->
           IF name \in Lists THEN [i \in DOMAIN of(name) |-> of(name)[i][2]]
                             ELSE Last(of(name))[2]])

CopyAll(p, allowTransfer) == p   \* a mutant
CopyProperties(p, allowTransfer) ==
    IF allowTransfer THEN p ELSE Restrict(p, DOMAIN p \ {"TopicAlias"})
===============================================================================
