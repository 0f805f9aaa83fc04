------------------------------ MODULE QosFlow ------------------------------
(***************************************************************************)
(* The QoS 1 and QoS 2 flows between the broker and ONE client session:    *)
(* the Inflight map with its send and receive quotas (broker/inflight.go), *)
(* publishToClient run by other goroutines, the reader goroutine's packet  *)
(* handlers and the NextImmediate tail of processPacket (broker/server.go),*)
(* WriteLoop, NextPacketID and ResendInflightMessages (broker/clients.go). *)
(* The remote client and the TCP connection are the environment.           *)
(*                                                                         *)
(* A publisher is any goroutine that runs publishToClient for this client: *)
(* the reader of another client, an embedding program, the event loop, or  *)
(* this client's own reader sending retained messages.  Its steps are      *)
(* interleaved with the handlers because they share the map and the quotas *)
(* without a common lock.  A handler runs on the single reader goroutine   *)
(* and is one action; the tail that releases a held message is another.    *)
(***************************************************************************)
EXTENDS Integers, Sequences, FiniteSets

CONSTANTS
  Publishers,       \* goroutines that run publishToClient for this client
  MaxMsgs,          \* bound: messages published towards the client
  Qos2Msgs,         \* those of them sent with QoS 2; the others have QoS 1
  MaxPacketID,      \* Capabilities.maximumPacketID (65535 in the code)
  MaximumInflight,  \* Capabilities.MaximumInflight
  MaxPending,       \* Capabilities.MaximumClientWritesPending, the channel's size
  ClientReceiveMax, \* the client's Receive Maximum; 0 when it sent none
  ReceiveMaximum,   \* Capabilities.ReceiveMaximum, granted to the client
  ClientIds,        \* packet ids the client uses for its own publishes
  MaxIn,            \* bound: publishes made by the client
  Qos2In,           \* those of them sent with QoS 2; the others have QoS 1
  HookResults,      \* what OnACLCheck and OnPublish may answer
  PubrecErrors,     \* may the client refuse a QoS 2 publish with an error PUBREC
  WriteFails,       \* may a connection die under a handler's WritePacket
  PublishDuringResend, \* may a publish overtake ResendInflightMessages
  MaxLosses,        \* bound: connection losses
  MaxExpired        \* bound: entries removed by ClearExpiredInflights

ASSUME QosFlowAssumption ==
  /\ IsFiniteSet(Publishers) /\ Publishers # {}
  /\ MaxMsgs \in Nat /\ Qos2Msgs \subseteq 1 .. MaxMsgs
  /\ MaxPacketID \in Nat \ {0} /\ MaximumInflight \in Nat \ {0}
  /\ MaxPending \in Nat /\ ClientReceiveMax \in Nat /\ ReceiveMaximum \in Nat \ {0}
  /\ IsFiniteSet(ClientIds) /\ ClientIds \subseteq Nat \ {0}
  /\ MaxIn \in Nat /\ Qos2In \subseteq 1 .. MaxIn
  /\ HookResults \subseteq {"ok", "denied", "reject", "ignore", "error"}
  /\ PubrecErrors \in BOOLEAN /\ WriteFails \in BOOLEAN
  /\ PublishDuringResend \in BOOLEAN
  /\ MaxLosses \in Nat /\ MaxExpired \in Nat

VARIABLES
  inflight,  \* State.Inflight.internal: packet id -> entry
  sendQuota, \* Inflight.sendQuota
  recvQuota, \* Inflight.receiveQuota
  packetID,  \* State.packetID, the last id handed out
  info,      \* Info.Inflight, the $SYS gauge
  outbound,  \* State.outbound, the buffered channel WriteLoop drains
  pub,       \* publisher -> its place in publishToClient and its locals
  rd,        \* the reader goroutine: at the next packet, in the tail, resending
  conn,      \* is the connection open
  down, up,  \* bytes in transit: broker to client, client to broker
  cdup,      \* client: ids of QoS 2 publishes received and not yet released
  cout,      \* client: packet id -> its own publish in progress
  published, \* messages that have entered publishToClient
  accepted,  \* messages the client has published
  owed,      \* history: messages stored for delivery and not rolled back
  got,       \* history: times a message was handed to the client application
  routed,    \* history: times a client publish reached publishToSubscribers
  acked,     \* history: client publishes the broker acknowledged as taken
  unacked,   \* history: messages written whose final ack is not processed yet
  released,  \* history: held messages NextImmediate has taken out of the map
  refused,   \* history: messages dropped because the client refused them
  losses, expired

brokerVars == <<inflight, sendQuota, recvQuota, packetID, info, outbound, rd>>
clientVars == <<cdup, cout, accepted, got, acked>>
history    == <<released, refused>>
bounds     == <<losses, expired>>
vars == <<brokerVars, pub, conn, down, up, clientVars, published, owed, routed,
          unacked, history, bounds>>

Msgs   == 1 .. MaxMsgs
InMsgs == 1 .. MaxIn
Ids    == (1 .. MaxPacketID) \cup ClientIds
Acks   == {"puback", "pubrec", "pubrel", "pubcomp"}
Entry  == [t : {"none", "publish"} \cup Acks, m : Nat, q : 0 .. 2, held : BOOLEAN]
Packet == [t : {"publish"} \cup Acks, id : Ids, m : Nat, q : 0 .. 2, err : BOOLEAN]
QosIn(level2, m) == IF m \in level2 THEN 2 ELSE 1

NoEntry   == [t |-> "none", m |-> 0, q |-> 0, held |-> FALSE]
AckEntry(t) == [t |-> t, m |-> 0, q |-> 0, held |-> FALSE]
Ack(t, pk, e) == [t |-> t, id |-> pk.id, m |-> pk.m, q |-> 0, err |-> e]

\* buildAck with a reason that refuses the packet.
ReasonLost(t, pk) == Ack(t, pk, FALSE)
Refusal(t, pk) == Ack(t, pk, TRUE)

InUse  == {i \in Ids : inflight[i].t # "none"}
PubIds == {i \in Ids : inflight[i].t = "publish"}

\* DecreaseSendQuota / DecreaseReceiveQuota and their inverses, run by one goroutine.
DecreasedUnchecked(quota) == quota - 1
Decreased(quota) == IF quota > 0 THEN quota - 1 ELSE quota
IncreasedOffByOne(quota, max) == IF quota < max - 1 THEN quota + 1 ELSE quota
Increased(quota, max) == IF quota < max THEN quota + 1 ELSE quota

\* Inflight.Set and Inflight.Delete on the map.
Set(i, e)  == [inflight EXCEPT ![i] = e]
Delete(i)  == [inflight EXCEPT ![i] = NoEntry]
CountedUnchecked(i) == info - 1
Counted(i) == IF i \in InUse THEN info - 1 ELSE info

Idle == [pc |-> "idle", m |-> 0, q |-> 0, id |-> 0, quota |-> 0]
Begun(m) == [pc |-> "nextid", m |-> m, q |-> QosIn(Qos2Msgs, m), id |-> 0, quota |-> 0]

Init ==
  /\ inflight = [i \in Ids |-> NoEntry]
  /\ sendQuota = ClientReceiveMax /\ recvQuota = ReceiveMaximum
  /\ packetID = 0 /\ info = 0 /\ outbound = <<>> /\ rd = "idle"
  /\ pub = [p \in Publishers |-> Idle]
  /\ conn = TRUE /\ down = <<>> /\ up = <<>>
  /\ cdup = {} /\ cout = [i \in ClientIds |-> [s |-> "free", m |-> 0, q |-> 0]]
  /\ published = 0 /\ accepted = 0 /\ owed = {} /\ acked = {} /\ unacked = {}
  /\ released = {} /\ refused = {}
  /\ got = [m \in Msgs |-> 0] /\ routed = [m \in InMsgs |-> 0]
  /\ losses = 0 /\ expired = 0

-----------------------------------------------------------------------------
(* publishToClient, one action per access to the state it shares.          *)

\* The cap on stored messages is tested here and acted on later.
AtCapacityOffByOne == Cardinality(InUse) > MaximumInflight
AtCapacity == Cardinality(InUse) >= MaximumInflight

CheckInflight(p) ==
  /\ pub[p].pc = "idle" /\ published < MaxMsgs
  /\ rd = "resend" => PublishDuringResend
  /\ published' = published + 1
  /\ pub' = IF AtCapacity
            THEN pub  \* ErrQuotaExceeded: the message is dropped
            ELSE [pub EXCEPT ![p] = Begun(published + 1)]
  /\ UNCHANGED <<brokerVars, conn, down, up, clientVars, owed, routed, unacked, history, bounds>>

\* The next free id in cyclic order after packetID; none left drops the message.
FreeUnchecked == 1 .. MaxPacketID
Free == (1 .. MaxPacketID) \ InUse
Distance(i) == (i - packetID - 1) % MaxPacketID

NextPacketID(p) ==
  /\ pub[p].pc = "nextid"
  /\ \/ /\ Free = {}
        /\ pub' = [pub EXCEPT ![p] = Idle]
        /\ UNCHANGED packetID
     \/ \E i \in Free :
        /\ \A j \in Free : Distance(i) <= Distance(j)
        /\ packetID' = i
        /\ pub' = [pub EXCEPT ![p].pc = "set", ![p].id = i]
  /\ UNCHANGED <<inflight, sendQuota, recvQuota, info, outbound, rd, conn, down, up,
                 clientVars, published, owed, routed, unacked, history, bounds>>

AfterQuota(p) == IF pub[p].quota = 0 /\ ClientReceiveMax > 0 THEN "hold" ELSE "send"

\* sentQuota is read just before the message is stored; only a new entry is
\* counted and charged to the send quota.
StoreInflight(p) ==
  /\ pub[p].pc = "set"
  /\ LET i == pub[p].id
         isNew == i \notin InUse
     IN /\ inflight' = Set(i, [t |-> "publish", m |-> pub[p].m, q |-> pub[p].q, held |-> FALSE])
        /\ info' = IF isNew THEN info + 1 ELSE info
        /\ pub' = [pub EXCEPT ![p].quota = sendQuota,
                     ![p].pc = IF isNew THEN "dec"
                               ELSE IF sendQuota = 0 /\ ClientReceiveMax > 0
                                    THEN "hold" ELSE "send"]
  /\ owed' = owed \cup {pub[p].m}
  /\ UNCHANGED <<sendQuota, recvQuota, packetID, outbound, rd, conn, down, up,
                 clientVars, published, routed, unacked, history, bounds>>

\* DecreaseSendQuota is a load and an add: two publishers may both load 1.
LoadSendQuota(p) ==
  /\ pub[p].pc = "dec"
  /\ pub' = [pub EXCEPT ![p].pc = IF sendQuota > 0 THEN "sub" ELSE AfterQuota(p)]
  /\ UNCHANGED <<brokerVars, conn, down, up, clientVars, published, owed, routed,
                 unacked, history, bounds>>

SubSendQuota(p) ==
  /\ pub[p].pc = "sub"
  /\ sendQuota' = sendQuota - 1
  /\ pub' = [pub EXCEPT ![p].pc = AfterQuota(p)]
  /\ UNCHANGED <<inflight, recvQuota, packetID, info, outbound, rd, conn, down, up,
                 clientVars, published, owed, routed, unacked, history, bounds>>

\* No quota was left: the message is stored again with Expiry = -1, for NextImmediate.
HoldMessage(p) ==
  /\ pub[p].pc = "hold"
  /\ inflight' = Set(pub[p].id, [t |-> "publish", m |-> pub[p].m, q |-> pub[p].q, held |-> TRUE])
  /\ pub' = [pub EXCEPT ![p] = Idle]
  /\ UNCHANGED <<sendQuota, recvQuota, packetID, info, outbound, rd, conn, down, up,
                 clientVars, published, owed, routed, unacked, history, bounds>>

\* The outbound channel takes the message, or is full and the entry is rolled back.
SendOutbound(p) ==
  /\ pub[p].pc = "send"
  /\ pub' = [pub EXCEPT ![p] = Idle]
  /\ \/ /\ ~conn  \* CodeDisconnect: the message waits in the map
        /\ UNCHANGED <<inflight, sendQuota, outbound, owed>>
     \/ /\ conn /\ Len(outbound) < MaxPending
        /\ outbound' = Append(outbound, [t |-> "publish", id |-> pub[p].id,
                                m |-> pub[p].m, q |-> pub[p].q, err |-> FALSE])
        /\ UNCHANGED <<inflight, sendQuota, owed>>
     \/ /\ conn /\ Len(outbound) >= MaxPending
        /\ inflight' = Delete(pub[p].id)
        /\ sendQuota' = Increased(sendQuota, ClientReceiveMax)
        /\ owed' = owed \ {pub[p].m}
        /\ UNCHANGED outbound
  /\ UNCHANGED <<recvQuota, packetID, info, rd, conn, down, up, clientVars, published,
                 routed, unacked, history, bounds>>

\* WriteLoop moves the next queued message to the connection.
WriteLoop ==
  /\ conn /\ outbound # <<>>
  /\ down' = Append(down, Head(outbound))
  /\ outbound' = Tail(outbound)
  /\ unacked' = unacked \cup {Head(outbound).m}
  /\ UNCHANGED <<inflight, sendQuota, recvQuota, packetID, info, rd, pub, conn, up,
                 clientVars, published, owed, routed, history, bounds>>

-----------------------------------------------------------------------------
(* The packet handlers.  Reading(t) says that the reader takes a packet of  *)
(* type t; Replied says what the handler wrote; NoReply that it wrote       *)
(* nothing; Died that WritePacket failed, which ends the connection;        *)
(* Answered that an acknowledgement was tried.                              *)

Pk == Head(up)
Reading(t) == conn /\ rd = "idle" /\ up # <<>> /\ Pk.t = t
Finished == up' = Tail(up) /\ rd' = "tail" /\ UNCHANGED conn
Replied(ack) == Finished /\ down' = Append(down, ack) /\ UNCHANGED <<outbound, losses>>
NoReply == Finished /\ UNCHANGED <<down, outbound, losses>>
Closed  == conn' = FALSE /\ up' = <<>> /\ down' = <<>> /\ outbound' = <<>>
Died    == WriteFails /\ losses < MaxLosses /\ losses' = losses + 1 /\ Closed /\ rd' = "idle"

Answered(ack) == Replied(ack) \/ Died

handlerFrame == <<packetID, pub, clientVars, published, owed, released, expired>>

\* receiveQuota is exhausted: DisconnectClient(ErrReceiveMaximum).
ProcessPublishOverQuota ==
  /\ Reading("publish") /\ recvQuota = 0
  /\ Closed /\ UNCHANGED <<rd, losses>>
  /\ UNCHANGED <<inflight, sendQuota, recvQuota, info, routed, unacked, refused, handlerFrame>>

\* A publish whose id still holds our PUBREC is a duplicate: refused, not routed.
NeverADuplicate == FALSE
IsDuplicate == inflight[Pk.id].t = "pubrec"

ProcessPublishDuplicate ==
  /\ Reading("publish") /\ recvQuota # 0 /\ HookResults # {"denied"}
  /\ IsDuplicate
  /\ Answered(Refusal("pubrec", Pk))
  /\ UNCHANGED <<inflight, sendQuota, recvQuota, info, routed, unacked, refused, handlerFrame>>

\* OnACLCheck refuses a v5 publish before any state changes.
ProcessPublishDenied ==
  /\ Reading("publish") /\ recvQuota # 0 /\ "denied" \in HookResults
  /\ Answered(Refusal(IF Pk.q = 2 THEN "pubrec" ELSE "puback", Pk))
  /\ UNCHANGED <<inflight, sendQuota, recvQuota, info, routed, unacked, refused, handlerFrame>>

\* OnPublish stops the packet after any older entry under its id was deleted:
\* ErrRejectPacket answers nothing, another Code answers with an error PUBACK.
ProcessPublishStopped ==
  /\ Reading("publish") /\ recvQuota # 0 /\ ~IsDuplicate
  /\ \/ "reject" \in HookResults /\ NoReply
     \/ "error" \in HookResults /\ Answered(Refusal("puback", Pk))
  /\ inflight' = Delete(Pk.id)
  /\ info' = Counted(Pk.id)
  /\ UNCHANGED <<sendQuota, recvQuota, routed, unacked, refused, handlerFrame>>

\* The publish is acknowledged and then routed.  CodeSuccessIgnore acknowledges it
\* and leaves routing to the hook.  A QoS 1 entry is gone when the handler returns;
\* a QoS 2 entry stays as PUBREC with one receive quota taken.
ProcessPublish(hook) ==
  /\ Reading("publish") /\ recvQuota # 0 /\ ~IsDuplicate
  /\ hook \in HookResults \cap {"ok", "ignore"}
  /\ IF Pk.q = 1
     THEN /\ inflight' = Delete(Pk.id)
          /\ info' = Counted(Pk.id)
          /\ recvQuota' = Increased(Decreased(recvQuota), ReceiveMaximum)
          /\ Replied(Ack("puback", Pk, FALSE))
     ELSE /\ inflight' = Set(Pk.id, AckEntry("pubrec"))
          /\ info' = Counted(Pk.id) + 1
          /\ recvQuota' = Decreased(recvQuota)
          /\ Replied(Ack("pubrec", Pk, FALSE))
  /\ routed' = IF hook = "ok" THEN [routed EXCEPT ![Pk.m] = @ + 1] ELSE routed
  /\ UNCHANGED <<sendQuota, unacked, refused, handlerFrame>>

\* The write of the ack fails: the ack is stored, the message is not routed.
ProcessPublishWriteFails ==
  /\ Reading("publish") /\ recvQuota # 0 /\ ~IsDuplicate
  /\ HookResults \cap {"ok", "ignore"} # {}
  /\ inflight' = Set(Pk.id, AckEntry(IF Pk.q = 1 THEN "puback" ELSE "pubrec"))
  /\ info' = Counted(Pk.id) + 1
  /\ recvQuota' = Decreased(recvQuota)
  /\ Died
  /\ UNCHANGED <<sendQuota, routed, unacked, refused, handlerFrame>>

AckedEntryKept == inflight
AckedEntryGone == Delete(Pk.id)

ProcessPuback ==
  /\ Reading("puback") /\ NoReply
  /\ unacked' = unacked \ {Pk.m}
  /\ inflight' = AckedEntryGone
  /\ info' = Counted(Pk.id)
  /\ sendQuota' = IF Pk.id \in InUse THEN Increased(sendQuota, ClientReceiveMax) ELSE sendQuota
  /\ UNCHANGED <<recvQuota, routed, refused, handlerFrame>>

\* An unknown id is answered with an error PUBREL; an error PUBREC ends the flow;
\* otherwise the entry becomes our PUBREL and a RECEIVE quota is taken.
PublishEntryKept == inflight[Pk.id]
ReleaseEntry == AckEntry("pubrel")

ProcessPubrec ==
  /\ Reading("pubrec")
  /\ \/ /\ Pk.id \notin InUse
        /\ Answered(Refusal("pubrel", Pk))
        /\ UNCHANGED <<inflight, info, recvQuota, unacked, refused>>
     \/ /\ Pk.id \in InUse /\ Pk.err
        /\ NoReply
        /\ inflight' = Delete(Pk.id)
        /\ info' = info - 1
        /\ unacked' = unacked \ {Pk.m}
        /\ refused' = refused \cup {Pk.m}
        /\ UNCHANGED recvQuota
     \/ /\ Pk.id \in InUse /\ ~Pk.err
        /\ inflight' = Set(Pk.id, ReleaseEntry)
        /\ recvQuota' = Decreased(recvQuota)
        /\ Answered(Ack("pubrel", Pk, FALSE))
        /\ UNCHANGED <<info, unacked, refused>>
  /\ UNCHANGED <<sendQuota, routed, handlerFrame>>

\* The client releases its own publish; both quotas are raised.
ProcessPubrel ==
  /\ Reading("pubrel")
  /\ \/ /\ Pk.id \notin InUse
        /\ Answered(Refusal("pubcomp", Pk))
        /\ UNCHANGED <<inflight, info, sendQuota, recvQuota>>
     \/ /\ Pk.id \in InUse /\ Pk.err
        /\ NoReply
        /\ inflight' = Delete(Pk.id)
        /\ info' = info - 1
        /\ UNCHANGED <<sendQuota, recvQuota>>
     \/ /\ Pk.id \in InUse /\ ~Pk.err
        /\ Replied(Ack("pubcomp", Pk, FALSE))
        /\ inflight' = Delete(Pk.id)
        /\ info' = info - 1
        /\ recvQuota' = Increased(recvQuota, ReceiveMaximum)
        /\ sendQuota' = Increased(sendQuota, ClientReceiveMax)
     \/ /\ Pk.id \in InUse /\ ~Pk.err
        /\ Died  \* the PUBCOMP stays in the map for the next connection
        /\ inflight' = Set(Pk.id, AckEntry("pubcomp"))
        /\ UNCHANGED <<info, sendQuota, recvQuota>>
  /\ UNCHANGED <<routed, unacked, refused, handlerFrame>>

\* The end of a QoS 2 delivery raises both quotas, whether or not the id is known.
ProcessPubcomp ==
  /\ Reading("pubcomp") /\ NoReply
  /\ recvQuota' = Increased(recvQuota, ReceiveMaximum)
  /\ sendQuota' = Increased(sendQuota, ClientReceiveMax)
  /\ inflight' = Delete(Pk.id)
  /\ info' = Counted(Pk.id)
  /\ unacked' = unacked \ {Pk.m}
  /\ UNCHANGED <<routed, refused, handlerFrame>>

\* The tail of processPacket: with quota free, one held message is written and its
\* entry is deleted, even if the connection has just closed.  GetAll sorts by the
\* second of creation, so any held message may come first.
Stored(i) == [t |-> inflight[i].t, id |-> i, m |-> inflight[i].m, q |-> inflight[i].q,
              err |-> FALSE]
Held == {i \in PubIds : inflight[i].held}

NextImmediate ==
  /\ rd = "tail"
  /\ rd' = "idle"
  /\ \/ /\ sendQuota <= 0 \/ Held = {}
        /\ UNCHANGED <<inflight, sendQuota, info, down, unacked, released>>
     \/ /\ sendQuota > 0
        /\ \E i \in Held :
           /\ IF conn
              THEN /\ down' = Append(down, Stored(i))
                   /\ unacked' = unacked \cup {inflight[i].m}
              ELSE UNCHANGED <<down, unacked>>
           /\ inflight' = Delete(i)
           /\ released' = released \cup {inflight[i].m}
        /\ info' = info - 1
        /\ sendQuota' = sendQuota - 1
  /\ UNCHANGED <<recvQuota, packetID, outbound, pub, conn, up, clientVars, published,
                 owed, routed, refused, bounds>>

-----------------------------------------------------------------------------
(* Connection loss, the session's next connection, and expiry.             *)

\* Everything in transit and in the old connection's channel is gone.
ConnectionLost ==
  /\ conn /\ losses < MaxLosses
  /\ losses' = losses + 1
  /\ Closed
  /\ rd' = IF rd = "resend" THEN "idle" ELSE rd
  /\ UNCHANGED <<inflight, sendQuota, recvQuota, packetID, info, pub, clientVars,
                 published, owed, routed, unacked, history, expired>>

\* inheritClientSession: the map is cloned, the quotas are those of the new
\* connection, the id counter starts again and the gauge loses every entry of the
\* old map.  Publishers still holding the old connection are the Session module's.
ResumeSession ==
  /\ ~conn /\ rd = "idle" /\ \A p \in Publishers : pub[p].pc = "idle"
  /\ conn' = TRUE /\ rd' = "resend"
  /\ sendQuota' = ClientReceiveMax /\ recvQuota' = ReceiveMaximum
  /\ packetID' = 0
  /\ info' = info - Cardinality(InUse)
  /\ unacked' = {}
  /\ UNCHANGED <<inflight, outbound, pub, down, up, clientVars, published, owed,
                 routed, history, bounds>>

Orders(S) == {s \in [1 .. Cardinality(S) -> S] : \A x \in S : \E k \in DOMAIN s : s[k] = x}
AcksOnly == {i \in InUse : inflight[i].t # "publish"}
ToResend == InUse
ClientBusy == {i \in ClientIds : cout[i].s # "free"}
ClientResend(i) == [t |-> IF cout[i].s = "pub" THEN "publish" ELSE "pubrel", id |-> i,
                    m |-> cout[i].m, q |-> cout[i].q, err |-> FALSE]

\* ResendInflightMessages writes every entry (entries of one second in any order) and
\* forgets PUBACK and PUBCOMP; the client repeats its own unfinished publishes.
ResendInflightMessages ==
  /\ conn /\ rd = "resend"
  /\ rd' = "idle"
  /\ \E s \in Orders(ToResend) : down' = down \o [k \in 1 .. Len(s) |-> Stored(s[k])]
  /\ LET done == {i \in InUse : inflight[i].t \in {"puback", "pubcomp"}}
     IN /\ inflight' = [i \in Ids |-> IF i \in done THEN NoEntry ELSE inflight[i]]
        /\ info' = info - Cardinality(done)
  /\ unacked' = unacked \cup {inflight[i].m : i \in PubIds}
  /\ \E s \in Orders(ClientBusy) : up' = [k \in 1 .. Len(s) |-> ClientResend(s[k])]
  /\ UNCHANGED <<sendQuota, recvQuota, packetID, outbound, pub, conn, clientVars,
                 published, owed, routed, history, bounds>>

\* clearExpiredInflights: an entry past its expiry is dropped, its quota is not returned.
ClearExpiredInflight(i) ==
  /\ expired < MaxExpired /\ i \in InUse
  /\ expired' = expired + 1
  /\ inflight' = Delete(i)
  /\ info' = info - 1
  /\ owed' = owed \ {inflight[i].m}
  /\ UNCHANGED <<sendQuota, recvQuota, packetID, outbound, rd, pub, conn, down, up,
                 clientVars, published, routed, unacked, history, losses>>

-----------------------------------------------------------------------------
(* The client, as MQTT requires it to behave (the broker's environment).   *)

clientFrame == <<brokerVars, pub, conn, published, owed, routed, unacked, history, bounds>>
In == Head(down)
ClientReads == conn /\ rd # "resend" /\ down # <<>> /\ down' = Tail(down)
Answer(pk) == up' = Append(up, pk)

\* A publish is delivered to the application, a QoS 2 one once per packet id.
ClientGetsPublish ==
  /\ ClientReads /\ In.t = "publish"
  /\ \/ /\ In.q = 1
        /\ got' = [got EXCEPT ![In.m] = @ + 1]
        /\ Answer(Ack("puback", In, FALSE))
        /\ UNCHANGED cdup
     \/ /\ In.q = 2
        /\ got' = IF In.id \in cdup THEN got ELSE [got EXCEPT ![In.m] = @ + 1]
        /\ cdup' = cdup \cup {In.id}
        /\ Answer(Ack("pubrec", In, FALSE))
     \/ /\ In.q = 2 /\ PubrecErrors /\ In.id \notin cdup
        /\ Answer(Ack("pubrec", In, TRUE))
        /\ UNCHANGED <<got, cdup>>
  /\ UNCHANGED <<cout, accepted, acked, clientFrame>>

ClientGetsPubrel ==
  /\ ClientReads /\ In.t = "pubrel"
  /\ cdup' = cdup \ {In.id}
  /\ Answer(Ack("pubcomp", In, FALSE))
  /\ UNCHANGED <<cout, accepted, got, acked, clientFrame>>

\* The answers to the client's own publishes; one that answers nothing is ignored.
ClientGetsAck ==
  /\ ClientReads /\ In.t \in {"puback", "pubrec", "pubcomp"} /\ In.id \in ClientIds
  /\ LET c == cout[In.id]
         waits == IF In.t = "pubcomp" THEN c.s = "rel" ELSE c.s = "pub"
         releases == In.t = "pubrec" /\ ~In.err
         mine == c.s # "free" /\ c.q = 2
     IN /\ cout' = IF releases
                   THEN IF mine THEN [cout EXCEPT ![In.id].s = "rel"] ELSE cout
                   ELSE IF waits THEN [cout EXCEPT ![In.id].s = "free"] ELSE cout
        /\ acked' = IF In.err \/ ~waits \/ (releases /\ ~mine) THEN acked ELSE acked \cup {c.m}
        /\ IF releases
           THEN Answer([t |-> "pubrel", id |-> In.id, m |-> c.m, q |-> 0, err |-> ~mine])
           ELSE UNCHANGED up
  /\ UNCHANGED <<cdup, accepted, got, clientFrame>>

\* The client keeps within the Receive Maximum it was granted.
ClientPublish(i) ==
  /\ conn /\ rd # "resend" /\ accepted < MaxIn
  /\ cout[i].s = "free" /\ Cardinality(ClientBusy) < ReceiveMaximum
  /\ accepted' = accepted + 1
  /\ cout' = [cout EXCEPT ![i] = [s |-> "pub", m |-> accepted + 1,
                                    q |-> QosIn(Qos2In, accepted + 1)]]
  /\ Answer([t |-> "publish", id |-> i, m |-> accepted + 1,
              q |-> QosIn(Qos2In, accepted + 1), err |-> FALSE])
  /\ UNCHANGED <<down, cdup, got, acked, clientFrame>>

-----------------------------------------------------------------------------
PublishStep(p) ==
  \/ NextPacketID(p) \/ StoreInflight(p) \/ LoadSendQuota(p) \/ SubSendQuota(p)
  \/ HoldMessage(p) \/ SendOutbound(p)

Handler ==
  \/ ProcessPublishOverQuota \/ ProcessPublishDuplicate \/ ProcessPublishDenied
  \/ ProcessPublishStopped \/ (\E h \in {"ok", "ignore"} : ProcessPublish(h))
  \/ ProcessPublishWriteFails
  \/ ProcessPuback \/ ProcessPubrec \/ ProcessPubrel \/ ProcessPubcomp

Reader == Handler \/ NextImmediate \/ ResendInflightMessages

ClientStep == ClientGetsPublish \/ ClientGetsPubrel \/ ClientGetsAck

Next ==
  \/ \E p \in Publishers : CheckInflight(p) \/ PublishStep(p)
  \/ WriteLoop
  \/ Reader
  \/ ClientStep
  \/ \E i \in ClientIds : ClientPublish(i)
  \/ ConnectionLost \/ ResumeSession
  \/ \E i \in Ids : ClearExpiredInflight(i)

Spec == Init /\ [][Next]_vars

\* Goroutines run and the client answers and comes back; nobody has to publish and no
\* connection has to be lost.
FairSpec ==
  /\ Spec
  /\ \A p \in Publishers : WF_vars(PublishStep(p))
  /\ WF_vars(WriteLoop) /\ WF_vars(Reader) /\ WF_vars(ClientStep) /\ WF_vars(ResumeSession)

-----------------------------------------------------------------------------
(* What the flows promise.                                                 *)

PublisherState == [pc : {"idle", "nextid", "set", "dec", "sub", "hold", "send"},
                   m : Nat, q : 0 .. 2, id : 0 .. MaxPacketID, quota : Int]

TypeMap ==
  /\ inflight \in [Ids -> Entry]
  /\ sendQuota \in Int /\ recvQuota \in 0 .. ReceiveMaximum
  /\ packetID \in 0 .. MaxPacketID /\ info \in Int
TypePublishers ==
  /\ pub \in [Publishers -> PublisherState]
  /\ \A p \in Publishers : pub[p].pc \notin {"idle", "nextid"} => pub[p].id \in 1 .. MaxPacketID
TypeNet ==
  /\ outbound \in Seq(Packet) /\ down \in Seq(Packet) /\ up \in Seq(Packet)
  /\ rd \in {"idle", "tail", "resend"} /\ conn \in BOOLEAN
TypeClient ==
  /\ cdup \subseteq Ids
  /\ cout \in [ClientIds -> [s : {"free", "pub", "rel"}, m : Nat, q : 0 .. 2]]
TypeHistory ==
  /\ published \in 0 .. MaxMsgs /\ accepted \in 0 .. MaxIn
  /\ owed \subseteq Nat /\ unacked \subseteq Nat /\ acked \subseteq Nat
  /\ released \subseteq Nat /\ refused \subseteq Nat
  /\ losses \in 0 .. MaxLosses /\ expired \in 0 .. MaxExpired

\* Every variable of the session holds a value of its kind; a publisher past
\* NextPacketID has an id the broker may hand out.
TypeOK == TypeMap /\ TypePublishers /\ TypeNet /\ TypeClient /\ TypeHistory

\* publishToClient tests MaximumInflight and stores later, so concurrent publishers may
\* pass the test together: the stored messages exceed the cap by at most one for each
\* publisher but the last.
InflightBound ==
  Cardinality(PubIds) <= MaximumInflight + Cardinality(Publishers) - 1

\* Why InflightBound holds: a publisher past the test has a place of its own, whether
\* its message is not stored yet, or stored and perhaps to be stored once more on hold.
Storing == {p \in Publishers : pub[p].pc \in {"nextid", "set"}}
Holding == {p \in Publishers : pub[p].pc \in {"dec", "sub", "hold"}}
Taken   == PubIds \cup {pub[p].id : p \in Holding}
RoomInv ==
  Cardinality(Taken) + Cardinality(Storing) <= MaximumInflight + Cardinality(Publishers) - 1

\* What capacity tests promise literally: never more stored messages than MaximumInflight.
\* (Does not hold: README, disagreements.)
InflightCap == Cardinality(PubIds) <= MaximumInflight

\* A message accepted for delivery stays in the map until the client has it or has refused
\* it, through losses, failing writes, ResendInflightMessages and the reuse of ids, as long
\* as nothing has expired.  A held message stays there only until NextImmediate writes it:
\* its entry is deleted with the write and not with the acknowledgement.
KeptUntilGot ==
  \A m \in owed \ (released \cup refused) : got[m] = 0 => \E i \in PubIds : inflight[i].m = m
NotForgotten == expired = 0 => KeptUntilGot

\* A QoS 2 message reaches the client application at most once, whatever is resent.
ExactlyOnceOut == \A m \in Qos2Msgs : got[m] <= 1

\* A QoS 2 publish of the client is routed at most once, whatever the client repeats.
ExactlyOnceIn == \A m \in Qos2In : routed[m] <= 1

\* A publish the client was told is taken has been routed.
AckedIsRouted == \A m \in acked : routed[m] >= 1

\* A client that respects its Receive Maximum never meets an exhausted receive quota.
NeverOverQuota == Reading("publish") => recvQuota > 0

\* The broker never has more unacknowledged messages at the client than its quota.
\* (Does not hold: README, disagreements.)
FlowControl == ClientReceiveMax > 0 => Cardinality(unacked) <= ClientReceiveMax

\* Nothing is being done or in transit and the map is empty.
AtRest ==
  /\ conn /\ rd = "idle" /\ InUse = {} /\ \A p \in Publishers : pub[p].pc = "idle"
  /\ outbound = <<>> /\ down = <<>> /\ up = <<>>

\* With nothing left to send, the client has every message, those once held included.
\* (Does not hold: README, disagreements.)
DeliveredAtRest == AtRest => \A m \in owed \ refused : got[m] > 0

\* Once all flows are over, the receive quota is back, and the send quota but for what
\* the code gives back nowhere: the unit of a message the client refused with an error
\* PUBREC, the unit NextImmediate takes for a held message, whose entry it deletes, and
\* for QoS 1 the unit that message may have taken before it was held.
QuotaAtRest ==
  LET lost == Cardinality(refused) + Cardinality(released) + Cardinality(released \ Qos2Msgs)
  IN AtRest => /\ recvQuota = ReceiveMaximum
               /\ sendQuota \in (ClientReceiveMax - lost) .. ClientReceiveMax

\* What an error PUBREC and a held message should leave as well: no quota is lost.
\* (Does not hold: README, disagreements.)
QuotaReturned == AtRest => sendQuota = ClientReceiveMax

\* The $SYS gauge counts the entries of the map.
GaugeAtRest == AtRest => info = 0

\* A stored message is delivered, unless it was rolled back or expired.
Delivered == \A m \in Msgs : m \in owed ~> (m \notin owed \/ got[m] > 0)

\* A message held for want of quota is sent when the quota is free again.
\* (Does not hold: README, disagreements.)
HeldIsSent == \A i \in Ids : inflight[i].held ~> ~inflight[i].held
=============================================================================
