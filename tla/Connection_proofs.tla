--------------------------- MODULE Connection_proofs ---------------------------
(***************************************************************************)
(* What is proved of connections, for any scenarios, hooks and bounds: the *)
(* shape of the state, how many connections the authentication defence     *)
(* lets in, that no wildcard token outlives its SUBSCRIBE, and that the    *)
(* coalescing writer neither reorders, loses nor keeps back.               *)
(*                                                                         *)
(* The system has some forty steps, and most of them are quiet: they leave *)
(* alone what a property is about.  Each respect in which a step can be    *)
(* quiet is defined once, every step is proved quiet in every respect it   *)
(* is, and NextKeeps gathers what remains: for each respect, the few steps *)
(* whose effect its invariant has to be proved for.                        *)
(***************************************************************************)
EXTENDS Connection, FiniteSetTheorems, SequenceTheorems, TLAPS

ConnFields == {"at", "next", "open", "version", "hello", "pk", "takenOver", "counted", "aliases", "reasons", "targets"}
PipeFields == {"queue", "taken", "buffer", "sent", "accepted"}
GuardFields == {"auth", "trackers", "budgets", "tokens"}
AuthFields == {"active", "rates", "states", "timers"}
ListenerFields == {"end", "listens", "close", "listed", "serve"}

\* What each variable looks like in every state: records keep their fields, and names of
\* connections name connections.
ScenarioShape == ScenarioOK(scenario) /\ scenario.restored \in {s.restored : s \in Scenarios}
ConnShape ==
    /\ DOMAIN conn = Conn
    /\ \A d \in Conn : DOMAIN conn[d] = ConnFields /\ conn[d].next \in Nat \ {0} /\ conn[d].counted \in Int
    /\ \A d \in Conn \ Peers : conn[d].at = "gone"
GuardShape == /\ DOMAIN guard = GuardFields /\ DOMAIN guard.auth = AuthFields /\ guard.auth.active \in Int
              /\ "wildcard-tokens" \notin scenario.hooks => DOMAIN guard.tokens = {}
ListenerShape == DOMAIN listener = ListenerFields /\ listener.listed \subseteq Conn
ClientsShape == \A id \in DOMAIN clients : clients[id] \in Conn
PipeShape == DOMAIN pipe = Conn /\ \A d \in Conn : DOMAIN pipe[d] = PipeFields
Shape == ScenarioShape /\ ConnShape /\ GuardShape /\ ListenerShape /\ ClientsShape /\ PipeShape

\* Places of a connection: before its CONNECT is read, outside the counting of OnConnect and
\* OnDisconnect, and between the reading of a PUBLISH and the last of its subscribers.
Early == {"dialed", "accepted", "dropped", "spawned", "new"}
Outside == Early \cup {"busy", "invalid", "counting", "expiring", "gone"}
Publishing == {"Publish", "scanning", "routing"}

\* The respects in which a step may be quiet: it counts nobody in and nobody down, adds no
\* token and leaves every handler of a SUBSCRIBE where it is, reads no CONNECT, begins to
\* route nothing, registers no connection, and writes to at most one client, which is read.
CountQuiet ==
    /\ guard'.auth.active = guard.auth.active
    /\ \A d \in Conn : /\ conn'[d].counted = conn[d].counted
                       /\ conn[d].at \in Outside => conn'[d].at \in Outside
                       /\ conn'[d].at \in Outside \cup {"admitting"} \/ conn[d].at \notin Outside \cup {"admitting"}
TokenQuiet ==
    /\ DOMAIN guard'.tokens \subseteq DOMAIN guard.tokens
    /\ \A d \in Conn : conn[d].at = "subscribing" => conn'[d].at = "subscribing" /\ conn'[d].hello = conn[d].hello
OpenQuiet ==
    \A d \in Conn : /\ conn'[d].open => conn[d].open /\ conn'[d].hello = conn[d].hello
                    /\ conn[d].at \in Early <=> conn'[d].at \in Early
PacketQuiet ==
    \A d \in Conn : conn'[d].at \in Publishing => conn[d].at \in Publishing /\ conn'[d].pk = conn[d].pk
ListQuiet ==
    /\ listener'.listed \subseteq listener.listed
    /\ \A id \in DOMAIN clients' : id \in DOMAIN clients /\ clients'[id] = clients[id]
Silent == pipe' = pipe \/ \E e \in Conn : \E pk : pipe' = WritePacket(e, pk) /\ conn[e].at \notin Early

\* What holds after every step of the scenario and the connections.
ConnDone == ScenarioShape' /\ ConnShape' /\ scenario'.peers = scenario.peers
            /\ scenario'.hooks = scenario.hooks /\ scenario'.restored = scenario.restored

PacketFields == {"type", "qos", "dup", "retain", "version", "id", "topic", "payload", "reason", "reasons",
                 "filters", "present", "props", "mods", "connect"}
IsPacket(pk) == DOMAIN pk = PacketFields /\ pk.mods = NoMods

\* Every decoder returns a packet with all its fields, of the type it was asked for or
\* malformed (packets.go:357-1157).
LEMMA DecodedFields ==
  ASSUME NEW pk, NEW b, IsPacket(pk), pk.type \in PacketTypes, NEW d,
         \/ d = ConnectDecode(pk, b) \/ d = ConnackDecode(pk, b) \/ d = PublishDecode(pk, b)
         \/ d = decodePubAckRelRecComp(pk, b) \/ d = SubscribeDecode(pk, b) \/ d = SubackDecode(pk, b)
         \/ d = UnsubscribeDecode(pk, b) \/ d = UnsubackDecode(pk, b) \/ d = pk
         \/ d = DisconnectDecode(pk, b) \/ d = AuthDecode(pk, b)
  PROVE  IsPacket(d) /\ d.type \in {pk.type, "Malformed"}
<1>0. IsPacket(Malformed) /\ Malformed.type = "Malformed"
  BY DEF IsPacket, Malformed, Blank, PacketFields
<1>1. CASE d = ConnectDecode(pk, b)
  BY <1>0, <1>1 DEF ConnectDecode, IsPacket, PacketFields
<1>2. CASE d = ConnackDecode(pk, b)
  BY <1>0, <1>2 DEF ConnackDecode, IsPacket, PacketFields
<1>3. CASE d = PublishDecode(pk, b)
  BY <1>0, <1>3 DEF PublishDecode, IsPacket, PacketFields
<1>4. CASE d = decodePubAckRelRecComp(pk, b)
  BY <1>0, <1>4 DEF decodePubAckRelRecComp, IsPacket, PacketFields
<1>5. CASE d = SubscribeDecode(pk, b)
  BY <1>0, <1>5 DEF SubscribeDecode, IsPacket, PacketFields
<1>6. CASE d = SubackDecode(pk, b)
  BY <1>0, <1>6 DEF SubackDecode, IsPacket, PacketFields
<1>7. CASE d = UnsubscribeDecode(pk, b)
  BY <1>0, <1>7 DEF UnsubscribeDecode, IsPacket, PacketFields
<1>8. CASE d = UnsubackDecode(pk, b)
  BY <1>0, <1>8 DEF UnsubackDecode, IsPacket, PacketFields
<1>9. CASE d = DisconnectDecode(pk, b)
  BY <1>0, <1>9 DEF DisconnectDecode, IsPacket, PacketFields
<1>10. CASE d = AuthDecode(pk, b)
  BY <1>0, <1>10 DEF AuthDecode, IsPacket, PacketFields
<1>11. CASE d = pk
  BY <1>11
<1>12. QED
  BY <1>1, <1>2, <1>3, <1>4, <1>5, <1>6, <1>7, <1>8, <1>9, <1>10, <1>11

\* A frame is of the type of the packet it encodes.
LEMMA FrameType ==
  ASSUME NEW pk, NEW body
  PROVE  Frame(pk, body).type = pk.type
BY DEF Frame

\* So does reading a frame off the wire, whatever the version (clients.go:465-520).
LEMMA Decoded ==
  ASSUME NEW pk, pk.type \in PacketTypes, NEW v
  PROVE  IsPacket(Decode(Encode(pk), v)) /\ Decode(Encode(pk), v).type \in {pk.type, "Malformed"}
<1> DEFINE frame == Encode(pk)
           start == [Blank(frame.type, v) EXCEPT !.dup = frame.dup, !.qos = frame.qos, !.retain = frame.retain]
           b == frame.body
<1>1. frame.type = pk.type
  BY FrameType, Zenon DEF Encode
<1>2. IsPacket(start) /\ start.type = frame.type
  BY DEF IsPacket, Blank, PacketFields
<1>3. IsPacket(Malformed) /\ Malformed.type = "Malformed"
  BY DEF IsPacket, Malformed, Blank, PacketFields
<1>4. Decode(frame, v) =
         IF ~HeaderAllowed(frame) THEN Malformed
         ELSE CASE frame.type = "Connect" -> ConnectDecode(start, b)
           [] frame.type = "Connack" -> ConnackDecode(start, b)
           [] frame.type = "Publish" -> PublishDecode(start, b)
           [] frame.type \in AckTypes -> decodePubAckRelRecComp(start, b)
           [] frame.type = "Subscribe" -> SubscribeDecode(start, b)
           [] frame.type = "Suback" -> SubackDecode(start, b)
           [] frame.type = "Unsubscribe" -> UnsubscribeDecode(start, b)
           [] frame.type = "Unsuback" -> UnsubackDecode(start, b)
           [] frame.type \in {"Pingreq", "Pingresp"} -> start
           [] frame.type = "Disconnect" -> DisconnectDecode(start, b)
           [] frame.type = "Auth" -> AuthDecode(start, b)
           [] OTHER -> Malformed
  BY DEF Decode
<1> HIDE DEF frame, start, b
<1>5. \/ Decode(frame, v) = Malformed
      \/ Decode(frame, v) = ConnectDecode(start, b) \/ Decode(frame, v) = ConnackDecode(start, b)
      \/ Decode(frame, v) = PublishDecode(start, b) \/ Decode(frame, v) = decodePubAckRelRecComp(start, b)
      \/ Decode(frame, v) = SubscribeDecode(start, b) \/ Decode(frame, v) = SubackDecode(start, b)
      \/ Decode(frame, v) = UnsubscribeDecode(start, b) \/ Decode(frame, v) = UnsubackDecode(start, b)
      \/ Decode(frame, v) = start \/ Decode(frame, v) = DisconnectDecode(start, b)
      \/ Decode(frame, v) = AuthDecode(start, b)
  BY <1>4
<1>6. IsPacket(Decode(frame, v)) /\ Decode(frame, v).type \in {pk.type, "Malformed"}
  BY <1>1, <1>2, <1>3, <1>5, DecodedFields
<1>7. QED
  BY <1>6 DEF frame

\* Quiet in every respect.
Quiet == ConnDone /\ GuardShape' /\ ListenerShape' /\ ClientsShape' /\ CountQuiet /\ TokenQuiet /\ OpenQuiet /\ PacketQuiet /\ ListQuiet /\ Silent

\* The steps of attachClient (server.go:407-497) that are quiet,
LEMMA QuietEstablishing ==
  ASSUME Shape, NEW c \in Conn,
         \/ Busy(c) \/ Invalid(c) \/ FilterAddress(c) \/ Authenticate(c)
         \/ SendConnack(c) \/ Established(c)
  PROVE  Quiet
PROOF
  <1> USE DEF Shape, ConnDone, ScenarioShape, ConnShape, GuardShape, ListenerShape, ClientsShape, ConnFields,
              GuardFields, AuthFields, ListenerFields, Peers, CountQuiet, TokenQuiet, OpenQuiet, PacketQuiet, ListQuiet,
              Early, Outside, Publishing, Quiet, At, Goes, Ends, GoesOn, Silent
  <1>1. CASE Busy(c)
    BY <1>1 DEF Busy
  <1>2. CASE Invalid(c)
    BY <1>2 DEF Invalid
  <1>3. CASE FilterAddress(c)
    BY <1>3 DEF FilterAddress
  <1>4. CASE Authenticate(c)
    BY <1>4 DEF Authenticate
  <1>5. CASE SendConnack(c)
    BY <1>5 DEF SendConnack
  <1>6. CASE Established(c)
    BY <1>6 DEF Established, OnSessionEstablished, Using, Authenticated
  <1> QED
    BY <1>1, <1>2, <1>3, <1>4, <1>5, <1>6

\* those of processPacket and its handlers (server.go:669-1422),
LEMMA QuietHandling ==
  ASSUME Shape, NEW c \in Conn,
         \/ ReadEnds(c) \/ Refuse(c) \/ processConnect(c) \/ processPingreq(c)
         \/ processAck(c) \/ processPubrec(c) \/ processPubrel(c) \/ Unexpected(c)
         \/ processAuth(c) \/ processDisconnect(c) \/ SubscribeNext(c) \/ processUnsubscribe(c)
         \/ PublishDenied(c) \/ Scan(c) \/ Routed(c)
  PROVE  Quiet
PROOF
  <1> USE DEF Shape, ConnDone, ScenarioShape, ConnShape, GuardShape, ListenerShape, ClientsShape, ConnFields,
              GuardFields, AuthFields, ListenerFields, Peers, CountQuiet, TokenQuiet, OpenQuiet, PacketQuiet, ListQuiet,
              Early, Outside, Publishing, Quiet, At, Goes, Ends, GoesOn, Silent
  <1>1. CASE ReadEnds(c)
    BY <1>1 DEF ReadEnds
  <1>2. CASE Refuse(c)
    BY <1>2 DEF Refuse, Fails
  <1>3. CASE processConnect(c)
    BY <1>3 DEF processConnect, Fails
  <1>4. CASE processPingreq(c)
    BY <1>4 DEF processPingreq, Reply
  <1>5. CASE processAck(c)
    BY <1>5 DEF processAck
  <1>6. CASE processPubrec(c)
    BY <1>6 DEF processPubrec, Reply
  <1>7. CASE processPubrel(c)
    BY <1>7 DEF processPubrel, Reply
  <1>8. CASE Unexpected(c)
    BY <1>8 DEF Unexpected, Fails
  <1>9. CASE processAuth(c)
    BY <1>9 DEF processAuth, Fails, OnAuthPacket, Using, CountAuth
  <1>10. CASE processDisconnect(c)
    BY <1>10 DEF processDisconnect, Fails
  <1>11. CASE SubscribeNext(c)
    BY <1>11 DEF SubscribeNext, Answer
  <1>12. CASE processUnsubscribe(c)
    <2>1. At(c, "Unsubscribe") /\ (\E ack : Reply(c, ack)) /\ UNCHANGED <<scenario, listener, clients, guard>>
      BY <1>12 DEF processUnsubscribe
    <2> QED
      BY <2>1 DEF Reply
  <1>13. CASE PublishDenied(c)
    BY <1>13 DEF PublishDenied, Reply
  <1>14. CASE Scan(c)
    BY <1>14 DEF Scan
  <1>15. CASE Routed(c)
    BY <1>15 DEF Routed
  <1> QED
    BY <1>1, <1>2, <1>3, <1>4, <1>5, <1>6, <1>7, <1>8, <1>9, <1>10, <1>11, <1>12, <1>13, <1>14, <1>15

\* those beside them: expiring, hanging up, a timer, accepting (server.go:483-494, auth_defense.go:153-162),
LEMMA QuietBeside ==
  ASSUME Shape, NEW c \in Conn,
         \/ Expire(c) \/ HangUp(c) \/ TimeOut(c) \/ Accept(c)
         \/ Spawn(c) \/ EstablishConnection(c)
  PROVE  Quiet
PROOF
  <1> USE DEF Shape, ConnDone, ScenarioShape, ConnShape, GuardShape, ListenerShape, ClientsShape, ConnFields,
              GuardFields, AuthFields, ListenerFields, Peers, CountQuiet, TokenQuiet, OpenQuiet, PacketQuiet, ListQuiet,
              Early, Outside, Publishing, Quiet, At, Goes, Ends, GoesOn, Silent
  <1>1. CASE Expire(c)
    <2>1. conn' = [conn EXCEPT ![c].at = "gone"] /\ conn[c].at = "expiring" /\ UNCHANGED <<scenario, listener, guard, pipe>>
      BY <1>1 DEF Expire
    <2>2. clients' = clients \/ clients' = Restrict(clients, DOMAIN clients \ {Id(c)})
      BY <1>1 DEF Expire
    <2>3. ListQuiet /\ ClientsShape'
      BY <2>1, <2>2 DEF Restrict
    <2> QED
      BY <2>1, <2>3
  <1>2. CASE HangUp(c)
    BY <1>2 DEF HangUp
  <1>3. CASE TimeOut(c)
    <2> DEFINE ends == TimesOut(guard.auth, Who(c))
    <2>1. /\ guard' = [guard EXCEPT !.auth.timers = @ \ {c}] /\ UNCHANGED <<scenario, listener, clients, pipe>>
          /\ conn' = [conn EXCEPT ![c].open = @ /\ ~ends]
      BY <1>3 DEF TimeOut
    <2> HIDE DEF ends
    <2>2. \A d \in Conn : conn'[d].at = conn[d].at /\ conn'[d].hello = conn[d].hello /\ (conn'[d].open => conn[d].open)
      BY ZenonT(40), <2>1
    <2>3. OpenQuiet /\ TokenQuiet /\ PacketQuiet
      BY <2>1, <2>2
    <2> QED
      BY <2>1, <2>3
  <1>4. CASE Accept(c)
    BY <1>4 DEF Accept
  <1>5. CASE Spawn(c)
    BY <1>5 DEF Spawn
  <1>6. CASE EstablishConnection(c)
    BY <1>6 DEF EstablishConnection
  <1> QED
    BY <1>1, <1>2, <1>3, <1>4, <1>5, <1>6

\* those of a listener and of Close (tcp.go:72-109, listeners.go:121-135),
LEMMA QuietListener ==
  ASSUME Shape,
         \/ ServeLoads \/ AcceptFails \/ Close \/ CloseSocket
         \/ StopHooks
  PROVE  Quiet
PROOF
  <1> USE DEF Shape, ConnDone, ScenarioShape, ConnShape, GuardShape, ListenerShape, ClientsShape, ConnFields,
              GuardFields, AuthFields, ListenerFields, Peers, CountQuiet, TokenQuiet, OpenQuiet, PacketQuiet, ListQuiet,
              Early, Outside, Publishing, Quiet, At, Goes, Ends, GoesOn, Silent
  <1>1. CASE ServeLoads
    BY <1>1 DEF ServeLoads
  <1>2. CASE AcceptFails
    BY <1>2 DEF AcceptFails
  <1>3. CASE Close
    BY <1>3 DEF Close
  <1>4. CASE CloseSocket
    BY <1>4 DEF CloseSocket
  <1>5. CASE StopHooks
    BY <1>5 DEF StopHooks
  <1> QED
    BY <1>1, <1>2, <1>3, <1>4, <1>5

\* and the passing of a second (auth_defense.go:128-140, ebpf_hook.go:77-120).
LEMMA QuietSecond ==
  ASSUME Shape, NEW ip, Second(ip)
  PROVE  Quiet
PROOF
  <1> USE DEF Shape, ConnDone, ScenarioShape, ConnShape, GuardShape, ListenerShape, ClientsShape, ConnFields,
              GuardFields, AuthFields, ListenerFields, Peers, CountQuiet, TokenQuiet, OpenQuiet, PacketQuiet, ListQuiet,
              Early, Outside, Publishing, Quiet, Silent
  <1>1. /\ DOMAIN scenario = {"peers", "hooks", "restored", "seconds", "maximumClients", "closes"}
        /\ scenario.seconds \in Nat /\ scenario.seconds > 0
        /\ scenario' = [scenario EXCEPT !.seconds = @ - 1]
    BY DEF Second, ScenarioOK
  <1>2. /\ scenario'.peers = scenario.peers /\ scenario'.hooks = scenario.hooks /\ scenario'.restored = scenario.restored
        /\ scenario'.maximumClients = scenario.maximumClients /\ scenario'.closes = scenario.closes
        /\ scenario'.seconds \in Nat /\ DOMAIN scenario' = DOMAIN scenario
    BY <1>1
  <1>3. ScenarioOK(scenario)'
    BY <1>1, <1>2 DEF ScenarioOK
  <1>4. /\ guard' = [guard EXCEPT !.auth = SecondPasses(guard.auth, ip), !.trackers = TrackerResets(guard.trackers, ip)]
        /\ UNCHANGED <<listener, conn, clients, subs, pipe>>
    BY DEF Second
  <1> QED
    BY <1>2, <1>3, <1>4 DEF SecondPasses

-----------------------------------------------------------------------------
\* The steps that change what a property is about keep everything else.
LEMMA CountKeeps ==
  ASSUME Shape, NEW c \in Conn, Count(c) \/ Admit(c) \/ Leave(c)
  PROVE  /\ ConnDone /\ GuardShape' /\ ListenerShape' /\ ClientsShape'
         /\ TokenQuiet /\ OpenQuiet /\ PacketQuiet /\ ListQuiet /\ Silent
PROOF
  <1> USE DEF Shape, ConnDone, ScenarioShape, ConnShape, GuardShape, ListenerShape, ClientsShape, ConnFields,
              GuardFields, AuthFields, ListenerFields, Peers, TokenQuiet, OpenQuiet, PacketQuiet, ListQuiet,
              Early, Publishing, At, Goes, Ends, GoesOn, Silent
  <1>1. CASE Count(c)
    BY <1>1 DEF Count, CountConnection
  <1>2. CASE Admit(c)
    BY <1>2 DEF Admit, RefuseConnection, AdmitConnection
  <1>3. CASE Leave(c)
    BY <1>3 DEF Leave, OnDisconnect, Using, ForgetConnection, DropToken, Restrict
  <1> QED
    BY <1>1, <1>2, <1>3

\* What the hooks' OnSubscribe and OnSubscribed leave alone (server.go:1251-1322).
LEMMA TokenKeeps ==
  ASSUME Shape, NEW c \in Conn, processSubscribe(c) \/ SubscribeEnds(c)
  PROVE  /\ ConnDone /\ GuardShape' /\ ListenerShape' /\ ClientsShape'
         /\ CountQuiet /\ OpenQuiet /\ PacketQuiet /\ ListQuiet /\ Silent
PROOF
  <1> USE DEF Shape, ConnDone, ScenarioShape, ConnShape, GuardShape, ListenerShape, ClientsShape, ConnFields,
              GuardFields, AuthFields, ListenerFields, Peers, CountQuiet, OpenQuiet, PacketQuiet, ListQuiet,
              Early, Outside, Publishing, At, Silent
  <1>1. CASE processSubscribe(c)
    BY <1>1 DEF processSubscribe, OnSubscribe, Using
  <1>2. CASE SubscribeEnds(c)
    <2>1. /\ At(c, "subscribing") /\ (\E ack : Reply(c, ack)) /\ UNCHANGED <<scenario, listener, clients>>
          /\ guard' = OnSubscribed(scenario.hooks, guard, Who(c))
      BY <1>2 DEF SubscribeEnds
    <2>2. GuardShape' /\ guard'.auth = guard.auth
      BY <2>1 DEF OnSubscribed, Using, DropToken, Restrict
    <2> QED
      BY <2>1, <2>2 DEF Reply
  <1> QED
    BY <1>1, <1>2

\* What reading a packet and routing a PUBLISH leave alone (clients.go:365-391, server.go:859-970).
LEMMA ReadingKeeps ==
  ASSUME Shape, NEW c \in Conn, Read(c) \/ processPublish(c)
  PROVE  /\ ConnDone /\ GuardShape' /\ ListenerShape' /\ ClientsShape'
         /\ CountQuiet /\ TokenQuiet /\ OpenQuiet /\ ListQuiet /\ Silent
PROOF
  <1> USE DEF Shape, ConnDone, ScenarioShape, ConnShape, GuardShape, ListenerShape, ClientsShape, ConnFields,
              GuardFields, AuthFields, ListenerFields, Peers, CountQuiet, TokenQuiet, OpenQuiet, ListQuiet,
              Early, Outside, At, Silent
  <1>1. CASE Read(c)
    <2> DEFINE pk == Decode(Encode(Script(c)[conn[c].next]), Version(c))
    <2>1. c \in Peers /\ conn[c].next \in 1..Len(Script(c)) /\ conn[c].next \in Nat \ {0}
      BY <1>1 DEF Read, ScenarioOK, PeerOK, Script
    <2>2. Script(c)[conn[c].next].type \in PacketTypes
      BY <2>1 DEF ScenarioOK, PeerOK, Script
    <2>3. pk.type \in PacketTypes \cup {"Malformed"}
      BY <2>2, Decoded
    <2>4. /\ conn[c].at = "reading" /\ UNCHANGED <<scenario, listener, clients, subs, guard, pipe>>
          /\ \E at \in {"leaving", "refusing", pk.type} :
                conn' = [conn EXCEPT ![c].next = @ + 1, ![c].pk = pk, ![c].at = at]
      BY <1>1 DEF Read
    <2> HIDE DEF pk
    <2> QED
      BY <2>1, <2>3, <2>4 DEF PacketTypes, AckTypes
  <1>2. CASE processPublish(c)
    <2>1. /\ conn[c].at = "Publish" /\ UNCHANGED <<scenario, listener, clients, subs>>
          /\ guard' = OnPublish(scenario.hooks, guard, Who(c), User(c))
          /\ \E at \in {"reading", "scanning", "leaving"} : \E aliases, topic :
                conn' = [conn EXCEPT ![c].at = at, ![c].aliases = aliases, ![c].pk.topic = topic]
          /\ pipe' = pipe \/ \E pk : pipe' = WritePacket(c, pk)
      BY <1>2 DEF processPublish
    <2>2. GuardShape' /\ guard'.auth = guard.auth /\ guard'.tokens = guard.tokens
      BY <2>1 DEF OnPublish, Using
    <2> QED
      BY <2>1, <2>2
  <1> QED
    BY <1>1, <1>2

\* What reading the CONNECT leaves alone (server.go:407-437).
LEMMA ReadConnectKeeps ==
  ASSUME Shape, NEW c \in Conn, ReadConnect(c)
  PROVE  /\ ConnDone /\ GuardShape' /\ ListenerShape' /\ ClientsShape'
         /\ CountQuiet /\ TokenQuiet /\ PacketQuiet /\ ListQuiet /\ pipe' = pipe
         /\ conn[c].at = "new" /\ conn'[c].at \notin Early /\ \A d \in Conn \ {c} : conn'[d] = conn[d]
PROOF
  <1> USE DEF Shape, ConnDone, ScenarioShape, ConnShape, GuardShape, ListenerShape, ClientsShape, ConnFields,
              GuardFields, AuthFields, ListenerFields, Peers, CountQuiet, TokenQuiet, PacketQuiet, ListQuiet,
              Early, Outside, Publishing, At
  <1>1. /\ conn[c].at = "new" /\ UNCHANGED <<scenario, listener, clients, subs, guard, pipe>>
        /\ \E at \in {"busy", "counting", "invalid"} : \E hello, version :
              conn' = [conn EXCEPT ![c].next = 2, ![c].hello = hello, ![c].version = version, ![c].at = at]
    BY DEF ReadConnect
  <1> QED
    BY <1>1

\* What inheritClientSession leaves alone: it names the new connection and writes to none
\* but the one it replaces (server.go:563-605).
LEMMA InheritKeeps ==
  ASSUME Shape, NEW c \in Conn, Inherit(c)
  PROVE  /\ ConnDone /\ GuardShape' /\ ListenerShape' /\ ClientsShape'
         /\ CountQuiet /\ TokenQuiet /\ OpenQuiet /\ PacketQuiet /\ listener' = listener
         /\ conn[c].at = "inheriting"
         /\ \A id \in DOMAIN clients' :
               clients'[id] = c \/ (id \in DOMAIN clients /\ clients'[id] = clients[id])
         /\ pipe' = pipe \/ \E id \in DOMAIN clients : \E pk : pipe' = WritePacket(clients[id], pk)
PROOF
  <1> USE DEF Shape, ConnDone, ScenarioShape, ConnShape, GuardShape, ListenerShape, ClientsShape, ConnFields,
              GuardFields, AuthFields, ListenerFields, Peers, CountQuiet, TokenQuiet, OpenQuiet, PacketQuiet,
              Early, Outside, Publishing, At
  <1>1. /\ conn[c].at = "inheriting" /\ UNCHANGED <<scenario, listener, guard>>
        /\ pipe' = pipe \/ \E id \in DOMAIN clients : \E pk : pipe' = WritePacket(clients[id], pk)
    BY DEF Inherit
  <1>2. \A id \in DOMAIN clients' :
           clients'[id] = c \/ (id \in DOMAIN clients /\ clients'[id] = clients[id])
    BY DEF Inherit
  <1>3. \E at \in {"present", "absent"} :
           \/ conn' = [conn EXCEPT ![c].at = at]
           \/ \E old : conn' = [[conn EXCEPT ![c].at = at] EXCEPT ![old].open = FALSE, ![old].takenOver = TRUE]
    BY DEF Inherit
  <1>4. PICK at \in {"present", "absent"} :
           \/ conn' = [conn EXCEPT ![c].at = at]
           \/ \E old : conn' = [[conn EXCEPT ![c].at = at] EXCEPT ![old].open = FALSE, ![old].takenOver = TRUE]
    BY <1>3
  <1>5. CASE conn' = [conn EXCEPT ![c].at = at]
    BY <1>1, <1>2, <1>5
  <1>6. ASSUME NEW old, conn' = [[conn EXCEPT ![c].at = at] EXCEPT ![old].open = FALSE, ![old].takenOver = TRUE]
        PROVE  ConnDone /\ CountQuiet /\ TokenQuiet /\ OpenQuiet /\ PacketQuiet
    <2> DEFINE new == [conn EXCEPT ![c].at = at]
    <2>1. DOMAIN new = Conn /\ \A d \in Conn : /\ DOMAIN new[d] = ConnFields /\ new[d].at = IF d = c THEN at ELSE conn[d].at
             /\ new[d].next = conn[d].next /\ new[d].counted = conn[d].counted /\ new[d].open = conn[d].open
             /\ new[d].hello = conn[d].hello /\ new[d].pk = conn[d].pk
      OBVIOUS
    <2> HIDE DEF new
    <2>2. DOMAIN conn' = Conn /\ \A d \in Conn : /\ DOMAIN conn'[d] = ConnFields /\ conn'[d].at = new[d].at
             /\ conn'[d].next = conn[d].next /\ conn'[d].counted = conn[d].counted /\ (conn'[d].open => conn[d].open)
             /\ conn'[d].hello = conn[d].hello /\ conn'[d].pk = conn[d].pk
      BY <1>6, <2>1 DEF new
    <2> QED
      BY <1>1, <2>1, <2>2
  <1> QED
    BY ZenonT(40), <1>1, <1>2, <1>4, <1>5, <1>6

\* Close lists clients that are registered, and nothing else changes (clients.go:92-105).
LEMMA ListingKeeps ==
  ASSUME Shape, GetByListener
  PROVE  /\ ConnDone /\ GuardShape' /\ ListenerShape' /\ ClientsShape'
         /\ CountQuiet /\ TokenQuiet /\ OpenQuiet /\ PacketQuiet /\ clients' = clients /\ pipe' = pipe
         /\ listener'.listed \subseteq {clients[id] : id \in DOMAIN clients}
PROOF
  <1> USE DEF Shape, ConnDone, ScenarioShape, ConnShape, GuardShape, ListenerShape, ClientsShape,
              ListenerFields, Peers, CountQuiet, TokenQuiet, OpenQuiet, PacketQuiet
  <1>1. /\ UNCHANGED <<scenario, conn, clients, subs, guard, pipe>>
        /\ \E listed \in SUBSET {clients[id] : id \in DOMAIN clients} :
              listener' = [listener EXCEPT !.close = "disconnecting", !.listed = listed]
    BY DEF GetByListener
  <1> QED
    BY <1>1

\* The steps that write to a client, or queue something for it, but for those
\* that also answer a packet.
LEMMA WritingKeeps ==
  ASSUME Shape, NEW c \in Conn, ShutDown(c) \/ Take(c) \/ Write(c) \/ publishToClient(c)
  PROVE  /\ ConnDone /\ GuardShape' /\ ListenerShape' /\ ClientsShape'
         /\ CountQuiet /\ TokenQuiet /\ OpenQuiet /\ PacketQuiet /\ ListQuiet
PROOF
  <1> USE DEF Shape, ConnDone, ScenarioShape, ConnShape, GuardShape, ListenerShape, ClientsShape, ConnFields,
              ListenerFields, Peers, CountQuiet, TokenQuiet, OpenQuiet, PacketQuiet, ListQuiet
  <1>1. CASE ShutDown(c)
    BY <1>1 DEF ShutDown
  <1>2. CASE Take(c)
    BY <1>2 DEF Take
  <1>3. CASE Write(c)
    BY <1>3 DEF Write
  <1>4. CASE publishToClient(c)
    <2>1. /\ UNCHANGED <<scenario, listener, clients, subs, guard>>
          /\ \E targets : conn' = [conn EXCEPT ![c].targets = targets]
      BY <1>4 DEF publishToClient
    <2> QED
      BY <2>1
  <1> QED
    BY <1>1, <1>2, <1>3, <1>4
-----------------------------------------------------------------------------

-----------------------------------------------------------------------------
\* What each step of the system may change, respect by respect.
LEMMA NextKeeps ==
  ASSUME Shape, [Next]_vars
  PROVE  /\ ConnDone /\ GuardShape' /\ ListenerShape' /\ ClientsShape'
         /\ CountQuiet \/ \E c \in Conn : Count(c) \/ Admit(c) \/ Leave(c)
         /\ TokenQuiet \/ \E c \in Conn : processSubscribe(c) \/ SubscribeEnds(c)
         /\ OpenQuiet \/ \E c \in Conn : ReadConnect(c)
         /\ PacketQuiet \/ \E c \in Conn : Read(c) \/ processPublish(c)
         /\ ListQuiet \/ (\E c \in Conn : Inherit(c)) \/ GetByListener
         /\ Silent \/ \E c \in Conn : Inherit(c) \/ ShutDown(c) \/ Take(c) \/ Write(c) \/ publishToClient(c)
PROOF
  <1>1. CASE UNCHANGED vars
    BY <1>1 DEF vars, Shape, ConnDone, ScenarioShape, ConnShape, GuardShape, ListenerShape, ClientsShape, Peers,
                CountQuiet, TokenQuiet, OpenQuiet, PacketQuiet, ListQuiet, Silent
  <1>2. CASE Next
    <2>1. ASSUME NEW c \in Conn, Establishing(c)
          PROVE  Quiet \/ ReadConnect(c) \/ Count(c) \/ Admit(c) \/ Inherit(c)
      BY <2>1, QuietEstablishing DEF Establishing
    <2>2. ASSUME NEW c \in Conn, Handling(c)
          PROVE  Quiet \/ Read(c) \/ processPublish(c) \/ processSubscribe(c) \/ SubscribeEnds(c) \/ publishToClient(c)
      BY <2>2, QuietHandling DEF Handling
    <2>3. ASSUME NEW c \in Conn, Leave(c) \/ Expire(c) \/ Beside(c) \/ Accepting(c)
          PROVE  Quiet \/ Leave(c) \/ Take(c) \/ Write(c)
      BY <2>3, QuietBeside DEF Beside, Accepting
    <2>4. ASSUME ServeLoads \/ AcceptFails \/ Closing
          PROVE  Quiet \/ GetByListener
      BY <2>4, QuietListener DEF Closing
    <2>5. \/ Quiet \/ GetByListener
          \/ \E c \in Conn : \/ ReadConnect(c) \/ Inherit(c) \/ Count(c) \/ Admit(c) \/ Leave(c)
                             \/ Read(c) \/ processPublish(c) \/ processSubscribe(c) \/ SubscribeEnds(c)
                             \/ ShutDown(c) \/ Take(c) \/ Write(c) \/ publishToClient(c)
      BY <1>2, <2>1, <2>2, <2>3, <2>4, QuietSecond DEF Next
    <2>6. CASE Quiet
      BY <2>6 DEF Quiet
    <2>7. CASE GetByListener
      BY <2>7, ListingKeeps DEF Silent
    <2>8. ASSUME NEW c \in Conn, Count(c) \/ Admit(c) \/ Leave(c)
          PROVE  /\ ConnDone /\ GuardShape' /\ ListenerShape' /\ ClientsShape'
                 /\ TokenQuiet /\ OpenQuiet /\ PacketQuiet /\ ListQuiet /\ Silent
      BY <2>8, CountKeeps
    <2>9. ASSUME NEW c \in Conn, processSubscribe(c) \/ SubscribeEnds(c)
          PROVE  /\ ConnDone /\ GuardShape' /\ ListenerShape' /\ ClientsShape'
                 /\ CountQuiet /\ OpenQuiet /\ PacketQuiet /\ ListQuiet /\ Silent
      BY <2>9, TokenKeeps
    <2>10. ASSUME NEW c \in Conn, Read(c) \/ processPublish(c)
           PROVE  /\ ConnDone /\ GuardShape' /\ ListenerShape' /\ ClientsShape'
                  /\ CountQuiet /\ TokenQuiet /\ OpenQuiet /\ ListQuiet /\ Silent
      BY <2>10, ReadingKeeps
    <2>11. ASSUME NEW c \in Conn, ReadConnect(c)
           PROVE  /\ ConnDone /\ GuardShape' /\ ListenerShape' /\ ClientsShape'
                  /\ CountQuiet /\ TokenQuiet /\ PacketQuiet /\ ListQuiet /\ Silent
      BY <2>11, ReadConnectKeeps DEF Silent
    <2>12. ASSUME NEW c \in Conn, Inherit(c)
           PROVE  /\ ConnDone /\ GuardShape' /\ ListenerShape' /\ ClientsShape'
                  /\ CountQuiet /\ TokenQuiet /\ OpenQuiet /\ PacketQuiet
      BY <2>12, InheritKeeps
    <2>13. ASSUME NEW c \in Conn, ShutDown(c) \/ Take(c) \/ Write(c) \/ publishToClient(c)
           PROVE  /\ ConnDone /\ GuardShape' /\ ListenerShape' /\ ClientsShape'
                  /\ CountQuiet /\ TokenQuiet /\ OpenQuiet /\ PacketQuiet /\ ListQuiet
      BY <2>13, WritingKeeps
    <2> QED
      BY <2>5, <2>6, <2>7, <2>8, <2>9, <2>10, <2>11, <2>12, <2>13
  <1> QED
    BY <1>1, <1>2

-----------------------------------------------------------------------------
\* What WritePacket does to a queue, a buffer and a socket, whatever it writes.
Gathered(e, pk) == [pipe EXCEPT ![e] = Gather(pipe[e], Encode(Outgoing(e, pk)))]

\* WritePacket gathers the packet or leaves everything as it was (clients.go:526-657).
LEMMA WritePacketIs ==
  ASSUME NEW e \in Conn, NEW pk
  PROVE  WritePacket(e, pk) = IF Writable(e, pk) THEN Gathered(e, pk) ELSE pipe
BY DEF WritePacket, Gathered

\* Gathering keeps the fields,
LEMMA GatherShape ==
  ASSUME NEW p, NEW frame, DOMAIN p = PipeFields
  PROVE  DOMAIN Gather(p, frame) = PipeFields
BY DEF Gather, PipeFields

\* and touches one client.
LEMMA GatheredShape ==
  ASSUME PipeShape, NEW e \in Conn, NEW pk
  PROVE  /\ DOMAIN Gathered(e, pk) = Conn
         /\ \A d \in Conn \ {e} : Gathered(e, pk)[d] = pipe[d]
         /\ \E frame : Gathered(e, pk)[e] = Gather(pipe[e], frame)
         /\ DOMAIN Gathered(e, pk)[e] = PipeFields
PROOF
  <1> DEFINE frame == Encode(Outgoing(e, pk))
             p == Gather(pipe[e], frame)
  <1>1. DOMAIN p = PipeFields
    BY GatherShape DEF PipeShape
  <1>2. Gathered(e, pk) = [pipe EXCEPT ![e] = p]
    BY DEF Gathered
  <1> HIDE DEF p
  <1>3. Gathered(e, pk)[e] = p /\ DOMAIN Gathered(e, pk) = Conn /\ \A d \in Conn \ {e} : Gathered(e, pk)[d] = pipe[d]
    BY <1>2 DEF PipeShape
  <1>4. \E f : p = Gather(pipe[e], f)
    <2>1. p = Gather(pipe[e], frame)
      BY DEF p
    <2> HIDE DEF frame
    <2> QED
      BY <2>1
  <1> QED
    BY <1>1, <1>3, <1>4

\* Every queue, buffer and socket keeps its fields.
LEMMA PipesKeepShape ==
  ASSUME Shape, [Next]_vars
  PROVE  PipeShape'
PROOF
  <1> USE DEF Shape
  <1>1. ASSUME NEW e \in Conn, NEW pk, pipe' = WritePacket(e, pk)
        PROVE  PipeShape'
    <2>1. pipe' \in {pipe, Gathered(e, pk)}
      BY <1>1, WritePacketIs
    <2> QED
      BY <2>1, GatheredShape DEF PipeShape
  <1>2. CASE Silent
    BY <1>1, <1>2 DEF Silent, PipeShape
  <1>3. ASSUME NEW c \in Conn, Inherit(c)
        PROVE  PipeShape'
    <2>1. pipe' = pipe \/ \E id \in DOMAIN clients : \E pk : pipe' = WritePacket(clients[id], pk)
      BY <1>3, InheritKeeps
    <2> QED
      BY <1>1, <2>1 DEF ClientsShape, PipeShape
  <1>4. ASSUME NEW c \in Conn, ShutDown(c)
        PROVE  PipeShape'
    BY <1>1, <1>4 DEF ShutDown
  <1>5. ASSUME NEW c \in Conn, Take(c)
        PROVE  PipeShape'
    BY <1>5 DEF Take, PipeShape, PipeFields
  <1>6. ASSUME NEW c \in Conn, Write(c)
        PROVE  PipeShape'
    <2> DEFINE written == WritePacket(c, pipe[c].taken[1])
    <2>1. written \in {pipe, Gathered(c, pipe[c].taken[1])}
      BY WritePacketIs
    <2>2. DOMAIN written = Conn /\ \A d \in Conn : DOMAIN written[d] = PipeFields
      BY <2>1, GatheredShape DEF PipeShape
    <2>3. pipe' = [written EXCEPT ![c].taken = <<>>]
      BY <1>6 DEF Write
    <2> HIDE DEF written
    <2> QED
      BY <2>2, <2>3 DEF PipeShape
  <1>7. ASSUME NEW c \in Conn, publishToClient(c)
        PROVE  PipeShape'
    <2>1. pipe' = pipe \/ \E id \in DOMAIN clients : \E pk : pipe' = [pipe EXCEPT ![clients[id]].queue = Append(@, pk)]
      BY <1>7 DEF publishToClient
    <2> QED
      BY <2>1 DEF PipeShape
  <1> QED
    BY <1>2, <1>3, <1>4, <1>5, <1>6, <1>7, NextKeeps

\* The records have their fields at first,
LEMMA InitShape == Init => Shape
PROOF
  <1> SUFFICES ASSUME Init
               PROVE  Shape
    OBVIOUS
  <1>1. ScenarioShape
    BY ScenariosOK DEF Init, ScenarioShape
  <1>2. ConnShape
    BY DEF Init, ConnShape, NewConn, ConnFields, Peers
  <1>3. GuardShape
    <2>1. scenario.restored \in Nat
      BY <1>1 DEF ScenarioShape, ScenarioOK
    <2> QED
      BY <2>1 DEF Init, GuardShape, GuardInit, AuthDefenseInit, GuardFields, AuthFields
  <1>4. ListenerShape /\ ClientsShape
    BY DEF Init, ListenerShape, ClientsShape, ListenerFields
  <1>5. PipeShape
    BY DEF Init, PipeShape, NewPipe, PipeFields
  <1> QED
    BY <1>1, <1>2, <1>3, <1>4, <1>5 DEF Shape

\* and each step keeps it.
LEMMA NextShape ==
  ASSUME Shape, [Next]_vars
  PROVE  Shape'
BY NextKeeps, PipesKeepShape DEF Shape, ConnDone

\* The records of every state have their fields, the table of clients and the list
\* of the one who closes name connections, and a connection that no peer makes stays gone (the types
\* of clients.go:90-141 and server.go:120-136).
THEOREM ShapeHolds == Spec => []Shape
PROOF
  <1>1. Init => Shape
    BY InitShape
  <1>2. Shape /\ [Next]_vars => Shape'
    BY NextShape
  <1> QED
    BY <1>1, <1>2, PTL DEF Spec

-----------------------------------------------------------------------------
\* Connections between OnConnect's count and OnDisconnect's; of them, those whose
\* reading of the counter was within the maximum.
Inside == {d \in Peers : conn[d].at \notin Outside}
Low == {d \in Inside : conn[d].counted <= MaxConcurrentConn}
CountInv ==
    "auth-defense" \in scenario.hooks =>
        /\ Cardinality(Inside) <= guard.auth.active + scenario.restored
        /\ Admitted \subseteq Low
        /\ Cardinality(Low) <= MaxConcurrentConn + scenario.restored

\* Who is admitted, by where its goroutine is.
LEMMA AdmittedIs ==
  Admitted = {d \in Peers : conn[d].at \notin Outside \cup {"admitting"}}
BY DEF Admitted, Counted, Outside, Early

\* The sets that are counted are finite: there are finitely many connections.
LEMMA Finite ==
  ASSUME Shape
  PROVE  /\ IsFiniteSet(Inside) /\ IsFiniteSet(Low) /\ Low \subseteq Inside /\ Admitted \subseteq Inside
         /\ Cardinality(Inside) \in Nat /\ Cardinality(Low) \in Nat /\ Cardinality(Low) <= Cardinality(Inside)
         /\ scenario.restored \in Nat /\ MaxConcurrentConn \in Nat /\ guard.auth.active \in Int
PROOF
  <1>1. IsFiniteSet(Peers)
    <2>1. Peers \subseteq Conn
      BY DEF Shape, ScenarioShape, ScenarioOK, Peers
    <2> QED
      BY <2>1, BoundsOK, FS_Subset
  <1>2. Low \subseteq Inside /\ Inside \subseteq Peers
    BY DEF Low, Inside
  <1>3. IsFiniteSet(Inside) /\ IsFiniteSet(Low)
    BY <1>1, <1>2, FS_Subset
  <1>4. Cardinality(Inside) \in Nat /\ Cardinality(Low) \in Nat /\ Cardinality(Low) <= Cardinality(Inside)
    BY <1>2, <1>3, FS_CardinalityType, FS_Subset
  <1>5. Admitted \subseteq Inside
    BY AdmittedIs DEF Inside
  <1>6. scenario.restored \in Nat /\ guard.auth.active \in Int
    BY DEF Shape, ScenarioShape, ScenarioOK, GuardShape
  <1> QED
    BY <1>2, <1>3, <1>4, <1>5, <1>6, BoundsOK

\* The same of the state that follows.
LEMMA AdmittedIsNext ==
  Admitted' = {d \in Peers' : conn'[d].at \notin Outside \cup {"admitting"}}
BY DEF Admitted, Counted, Outside, Early

\* And so are they in the next state.
LEMMA FiniteNext ==
  ASSUME Shape'
  PROVE  /\ IsFiniteSet(Inside') /\ IsFiniteSet(Low') /\ Low' \subseteq Inside' /\ Admitted' \subseteq Inside'
         /\ Cardinality(Inside') \in Nat /\ Cardinality(Low') \in Nat /\ Cardinality(Low') <= Cardinality(Inside')
         /\ guard'.auth.active \in Int
PROOF
  <1>1. IsFiniteSet(Peers')
    <2>1. Peers' \subseteq Conn
      BY DEF Shape, ScenarioShape, ScenarioOK, Peers
    <2> QED
      BY <2>1, BoundsOK, FS_Subset
  <1>2. Low' \subseteq Inside' /\ Inside' \subseteq Peers'
    BY DEF Low, Inside
  <1>3. IsFiniteSet(Inside') /\ IsFiniteSet(Low')
    BY <1>1, <1>2, FS_Subset
  <1>4. Cardinality(Inside') \in Nat /\ Cardinality(Low') \in Nat /\ Cardinality(Low') <= Cardinality(Inside')
    BY <1>2, <1>3, FS_CardinalityType, FS_Subset
  <1>5. Admitted' \subseteq Inside'
    BY AdmittedIsNext DEF Inside
  <1>6. guard'.auth.active \in Int
    BY DEF Shape, GuardShape
  <1> QED
    BY <1>2, <1>3, <1>4, <1>5, <1>6

\* A step that lets nobody in, and takes nothing off the counter, keeps the count.
LEMMA CountQuietly ==
  ASSUME Shape, Shape', CountInv, CountQuiet, ConnDone
  PROVE  CountInv'
PROOF
  <1>1. Peers' = Peers /\ Peers \subseteq Conn
    BY DEF ConnDone, Peers, Shape, ScenarioShape, ScenarioOK
  <1>2. Inside' \subseteq Inside /\ Low' \subseteq Low
    BY <1>1 DEF CountQuiet, Inside, Low
  <1>3. Admitted' \subseteq Admitted
    BY <1>1, AdmittedIs, AdmittedIsNext DEF CountQuiet
  <1>4. \A d \in Admitted' : d \in Low => d \in Low'
    BY <1>1, AdmittedIsNext DEF CountQuiet, Inside, Low
  <1>5. Cardinality(Inside') <= Cardinality(Inside) /\ Cardinality(Low') <= Cardinality(Low)
    BY <1>2, Finite, FS_Subset
  <1>6. Cardinality(Inside') \in Nat /\ Cardinality(Low') \in Nat
    BY FiniteNext
  <1> QED
    BY <1>3, <1>4, <1>5, <1>6, Finite DEF CountInv, CountQuiet, ConnDone

\* OnConnect counts one more before it decides (auth_defense.go:117).
LEMMA CountCounts ==
  ASSUME Shape, Shape', CountInv, ConnDone, NEW c \in Conn, Count(c)
  PROVE  CountInv'
PROOF
  <1> SUFFICES ASSUME "auth-defense" \in scenario.hooks
               PROVE  CountInv'
    BY DEF CountInv, ConnDone
  <1>1. /\ conn[c].at = "counting" /\ guard' = [guard EXCEPT !.auth = CountConnection(guard.auth)]
        /\ conn' = [conn EXCEPT ![c].at = "admitting", ![c].counted = CountConnection(guard.auth).active]
    BY DEF Count, At
  <1>2. guard'.auth.active = guard.auth.active + 1 /\ CountConnection(guard.auth).active = guard.auth.active + 1
    BY <1>1 DEF CountConnection, Shape, GuardShape, GuardFields, AuthFields
  <1>3. /\ conn'[c].at = "admitting" /\ conn'[c].counted = guard.auth.active + 1
        /\ \A d \in Conn \ {c} : conn'[d] = conn[d]
    BY <1>1, <1>2 DEF Shape, ConnShape, ConnFields
  <1>4. Peers' = Peers /\ Peers \subseteq Conn /\ c \in Peers
    BY <1>1 DEF ConnDone, Peers, Shape, ScenarioShape, ScenarioOK, ConnShape
  <1>5. c \notin Inside /\ Inside' = Inside \cup {c}
    BY <1>1, <1>3, <1>4 DEF Inside, Outside, Early
  <1>6. Cardinality(Inside') = Cardinality(Inside) + 1
    BY <1>5, Finite, FS_AddElement
  <1>7. Admitted' = Admitted
    BY <1>1, <1>3, <1>4, AdmittedIs, AdmittedIsNext DEF Outside, Early
  <1>8. \A d \in Conn \ {c} : d \in Low' <=> d \in Low
    BY <1>3, <1>5, <1>4 DEF Low
  <1>9. Admitted' \subseteq Low'
    <2>1. c \notin Admitted
      BY <1>5, Finite
    <2> QED
      BY <1>4, <1>7, <1>8, <2>1, AdmittedIs DEF CountInv
  <1>10. Cardinality(Low') <= MaxConcurrentConn + scenario.restored
    <2>1. CASE guard.auth.active + 1 <= MaxConcurrentConn
      <3>1. Cardinality(Low') <= Cardinality(Inside') /\ Cardinality(Low') \in Nat
        BY FiniteNext
      <3> QED
        BY <1>6, <2>1, <3>1, Finite DEF CountInv
    <2>2. CASE ~(guard.auth.active + 1 <= MaxConcurrentConn)
      <3>1. c \notin Low' /\ c \notin Low
        BY <1>3, <1>5, <2>2 DEF Low
      <3>2. Low' = Low
        BY <1>4, <1>8, <3>1 DEF Low, Inside
      <3> QED
        BY <3>2 DEF CountInv
    <2> QED
      BY <2>1, <2>2
  <1> QED
    BY <1>2, <1>6, <1>9, <1>10, Finite DEF CountInv, ConnDone

\* Whoever leaves takes itself off the counter.
LEMMA CountDown ==
  ASSUME Shape, Shape', CountInv, ConnDone, NEW c \in Conn, c \in Inside, c \notin Inside',
         guard'.auth.active = guard.auth.active - 1, \A d \in Conn \ {c} : conn'[d] = conn[d]
  PROVE  CountInv'
PROOF
  <1>1. Peers' = Peers /\ Peers \subseteq Conn
    BY DEF ConnDone, Peers, Shape, ScenarioShape, ScenarioOK
  <1>2. Inside' = Inside \ {c}
    BY <1>1 DEF Inside
  <1>3. Cardinality(Inside') = Cardinality(Inside) - 1
    BY <1>2, Finite, FS_RemoveElement
  <1>4. Low' \subseteq Low /\ \A d \in Conn \ {c} : d \in Low' <=> d \in Low
    BY <1>1, <1>2 DEF Low, Inside
  <1>5. Cardinality(Low') <= Cardinality(Low)
    BY <1>4, Finite, FS_Subset
  <1>6. Admitted' \subseteq Admitted \ {c}
    BY <1>1, AdmittedIs, AdmittedIsNext, FiniteNext
  <1>7. Admitted' \subseteq Low' \/ "auth-defense" \notin scenario.hooks
    BY <1>1, <1>4, <1>6, AdmittedIs DEF CountInv
  <1>8. Cardinality(Low') \in Nat
    BY FiniteNext
  <1> QED
    BY <1>3, <1>5, <1>7, <1>8, Finite DEF CountInv, ConnDone

\* It takes back what it refuses (auth_defense.go:118-147), and what it admits was
\* counted within the maximum.
LEMMA CountAdmits ==
  ASSUME Shape, Shape', CountInv, ConnDone, NEW c \in Conn, Admit(c)
  PROVE  CountInv'
PROOF
  <1> SUFFICES ASSUME "auth-defense" \in scenario.hooks
               PROVE  CountInv'
    BY DEF CountInv, ConnDone
  <1>1. conn[c].at = "admitting"
    BY DEF Admit, At
  <1>2. Peers' = Peers /\ Peers \subseteq Conn /\ c \in Peers /\ c \in Inside
    BY <1>1 DEF ConnDone, Peers, Shape, ScenarioShape, ScenarioOK, ConnShape, Inside, Outside, Early
  <1>3. CASE TooMany(guard.auth, Who(c), conn[c].counted)
    <2>1. conn' = [conn EXCEPT ![c].at = "gone", ![c].open = FALSE]
          /\ guard' = [guard EXCEPT !.auth = RefuseConnection(guard.auth, Who(c), conn[c].counted)]
      BY <1>3 DEF Admit, GoesOn, Ends
    <2>2. conn'[c].at = "gone" /\ \A d \in Conn \ {c} : conn'[d] = conn[d]
      BY <2>1 DEF Shape, ConnShape, ConnFields
    <2>3. guard'.auth.active = guard.auth.active - 1
      BY <2>1 DEF RefuseConnection, Shape, GuardShape, GuardFields, AuthFields
    <2>4. c \notin Inside'
      BY <2>2 DEF Inside, Outside
    <2> QED
      BY <1>2, <2>2, <2>3, <2>4, CountDown
  <1>4. CASE ~TooMany(guard.auth, Who(c), conn[c].counted)
    <2>1. conn' = [conn EXCEPT ![c].at = "filtering"]
          /\ guard' = [guard EXCEPT !.auth = AdmitConnection(guard.auth, Who(c))]
      BY <1>4 DEF Admit, GoesOn, Goes
    <2>2. /\ conn'[c].at = "filtering" /\ conn'[c].counted = conn[c].counted
          /\ \A d \in Conn \ {c} : conn'[d] = conn[d]
      BY <2>1 DEF Shape, ConnShape, ConnFields
    <2>3. guard'.auth.active = guard.auth.active
      BY <2>1 DEF AdmitConnection, Shape, GuardShape, GuardFields, AuthFields
    <2>4. conn[c].counted <= MaxConcurrentConn
      BY <1>4, BoundsOK DEF TooMany, Shape, ConnShape
    <2>5. Inside' = Inside /\ Low' = Low /\ c \in Low
      BY <1>1, <1>2, <2>2, <2>4 DEF Inside, Low, Outside, Early
    <2>6. Admitted' = Admitted \cup {c}
      BY <1>1, <1>2, <2>2, AdmittedIs, AdmittedIsNext DEF Outside, Early
    <2> QED
      BY <2>3, <2>5, <2>6 DEF CountInv, ConnDone
  <1> QED
    BY <1>3, <1>4

\* OnDisconnect takes one off, once for each that got past OnConnect (auth_defense.go:174-183).
LEMMA CountLeaves ==
  ASSUME Shape, Shape', CountInv, ConnDone, NEW c \in Conn, Leave(c)
  PROVE  CountInv'
PROOF
  <1> SUFFICES ASSUME "auth-defense" \in scenario.hooks
               PROVE  CountInv'
    BY DEF CountInv, ConnDone
  <1>1. /\ conn[c].at = "leaving" /\ conn' = [conn EXCEPT ![c].at = "expiring", ![c].open = FALSE]
        /\ guard' = OnDisconnect(scenario.hooks, guard, Who(c))
    BY DEF Leave, At
  <1>2. conn'[c].at = "expiring" /\ \A d \in Conn \ {c} : conn'[d] = conn[d]
    BY <1>1 DEF Shape, ConnShape, ConnFields
  <1>3. guard'.auth.active = guard.auth.active - 1
    BY <1>1 DEF OnDisconnect, Using, ForgetConnection, Shape, GuardShape, GuardFields, AuthFields
  <1>4. c \in Inside /\ c \notin Inside'
    BY <1>1, <1>2 DEF Shape, ConnShape, Inside, Outside, Early
  <1> QED
    BY <1>2, <1>3, <1>4, CountDown

\* The bound that holds, restored sessions or not.
AdmittedBound == "auth-defense" \in scenario.hooks => Cardinality(Admitted) <= MaxConcurrentConn + scenario.restored

\* The count holds in every reachable state.
LEMMA CountHolds == Spec => [](Shape /\ CountInv)
PROOF
  <1>1. Init => CountInv
    <2> SUFFICES ASSUME Init
                 PROVE  CountInv
      OBVIOUS
    <2>0. Shape /\ Peers \subseteq Conn
      BY InitShape DEF Shape, ScenarioShape, ScenarioOK, Peers
    <2>1. Inside = {} /\ Low = {} /\ Admitted \subseteq Inside
      <3>1. \A d \in Peers : conn[d].at = NewConn.at /\ NewConn.at \in {"dialed", "new"}
        BY <2>0 DEF Init, NewConn
      <3>2. Inside = {}
        BY <3>1 DEF Inside, Outside, Early
      <3> QED
        BY <2>0, <3>2, Finite DEF Low
    <2>2. guard.auth.active = -scenario.restored
      BY DEF Init, GuardInit, AuthDefenseInit
    <2>4. Cardinality(Inside) = 0 /\ Cardinality(Low) = 0
      BY <2>1, FS_EmptySet
    <2>5. scenario.restored \in Nat /\ MaxConcurrentConn \in Nat
      BY <2>0, Finite
    <2> QED
      BY <2>1, <2>2, <2>4, <2>5 DEF CountInv
  <1>2. Shape /\ CountInv /\ [Next]_vars => CountInv'
    <2> SUFFICES ASSUME Shape, CountInv, [Next]_vars
                 PROVE  CountInv'
      OBVIOUS
    <2>1. Shape' /\ ConnDone /\ (CountQuiet \/ \E c \in Conn : Count(c) \/ Admit(c) \/ Leave(c))
      BY NextShape, NextKeeps
    <2> QED
      BY <2>1, CountQuietly, CountCounts, CountAdmits, CountLeaves
  <1>3. Init => Shape
    BY InitShape
  <1>4. Shape /\ [Next]_vars => Shape'
    BY NextShape
  <1> QED
    BY <1>1, <1>2, <1>3, <1>4, PTL DEF Spec

\* It bounds who is admitted.
LEMMA CountBounds ==
  ASSUME Shape, CountInv
  PROVE  AdmittedBound
PROOF
  <1>1. CASE "auth-defense" \in scenario.hooks
    <2>1. Admitted \subseteq Low
      BY <1>1 DEF CountInv
    <2>2. Cardinality(Admitted) <= Cardinality(Low) /\ Cardinality(Admitted) \in Nat
      BY <2>1, Finite, FS_Subset, FS_CardinalityType
    <2> QED
      BY <1>1, <2>2, Finite DEF CountInv, AdmittedBound
  <1> QED
    BY <1>1 DEF AdmittedBound

\* However attempts, refusals, failures and departures interleave, the connections that
\* OnConnect admitted and OnDisconnect has not let go (auth_defense.go:115-183) are at most
\* the maximum and the sessions that were restored: each of these lowered the counter
\* once without having raised it (server.go:1679).
THEOREM ConcurrencyExcess == Spec => []AdmittedBound
PROOF
  <1>1. Shape /\ CountInv => AdmittedBound
    BY CountBounds
  <1> QED
    BY <1>1, CountHolds, PTL

\* Where no session is restored the maximum itself holds (auth_defense.go:115-183).
THEOREM ConcurrencyHolds ==
  ASSUME \A s \in Scenarios : s.restored = 0
  PROVE  Spec => []ConcurrencyKept
PROOF
  <1>1. Shape /\ CountInv => ConcurrencyKept
    <2> SUFFICES ASSUME Shape, CountInv
                 PROVE  ConcurrencyKept
      OBVIOUS
    <2>1. scenario.restored = 0
      BY DEF Shape, ScenarioShape
    <2> QED
      BY <2>1, CountBounds, BoundsOK DEF AdmittedBound, ConcurrencyKept
  <1> QED
    BY <1>1, CountHolds, PTL

-----------------------------------------------------------------------------
\* A token is taken when its SUBSCRIBE begins to be handled, and dropped when it ends or the
\* client id leaves, so each has a handler (wildcard_tokens.go:141-195).
LEMMA TokenKept ==
  ASSUME Shape, Shape', TokenSpent, [Next]_vars
  PROVE  TokenSpent'
PROOF
  <1>1. Peers' = Peers /\ Peers \subseteq Conn /\ \A d \in Conn : d \notin Peers => conn[d].at = "gone"
    BY NextKeeps DEF ConnDone, Peers, Shape, ScenarioShape, ScenarioOK, ConnShape
  <1>2. CASE TokenQuiet
    <2> SUFFICES ASSUME NEW id \in DOMAIN guard'.tokens
                 PROVE  \E c \in Peers' : Id(c)' = id /\ At(c, "subscribing")'
      BY DEF TokenSpent
    <2>1. PICK c \in Peers : Id(c) = id /\ At(c, "subscribing")
      BY <1>2 DEF TokenQuiet, TokenSpent
    <2>2. At(c, "subscribing")' /\ conn'[c].hello = conn[c].hello
      BY <1>1, <1>2, <2>1 DEF TokenQuiet, At
    <2>3. Id(c)' = Id(c)
      BY <2>2 DEF Id, Who, Hello
    <2> QED
      BY <1>1, <2>1, <2>2, <2>3
  <1>3. ASSUME NEW c \in Conn, processSubscribe(c)
        PROVE  TokenSpent'
    <2>1. /\ conn[c].at = "Subscribe" /\ guard' = OnSubscribe(scenario.hooks, guard, Who(c), User(c))
          /\ conn' = [conn EXCEPT ![c].at = "subscribing", ![c].reasons = <<>>]
      BY <1>3 DEF processSubscribe, At
    <2>2. c \in Peers /\ DOMAIN guard'.tokens \subseteq DOMAIN guard.tokens \cup {Id(c)}
      <3>1. guard'.tokens \in {guard.tokens, TakeToken(guard.tokens, Id(c), User(c))}
        BY <2>1 DEF OnSubscribe, Using, Shape, GuardShape, GuardFields, Id
      <3>2. DOMAIN TakeToken(guard.tokens, Id(c), User(c)) \subseteq DOMAIN guard.tokens \cup {Id(c)}
        BY DEF TakeToken
      <3> QED
        BY <1>1, <2>1, <3>1, <3>2
    <2>3. /\ conn'[c].at = "subscribing" /\ conn'[c].hello = conn[c].hello
          /\ \A d \in Conn \ {c} : conn'[d] = conn[d]
      BY <2>1 DEF Shape, ConnShape, ConnFields
    <2>4. \A d \in Conn : Id(d)' = Id(d)
      <3>1. \A d \in Conn : Hello(d)' = Hello(d)
        BY <2>3 DEF Hello
      <3> QED
        BY <3>1 DEF Id, Who
    <2> QED
      BY <1>1, <2>2, <2>3, <2>4 DEF TokenSpent, At
  <1>4. ASSUME NEW c \in Conn, SubscribeEnds(c)
        PROVE  TokenSpent'
    <2>1. /\ conn[c].at = "subscribing" /\ guard' = OnSubscribed(scenario.hooks, guard, Who(c))
          /\ \E ack : Reply(c, ack)
      BY <1>4 DEF SubscribeEnds, At
    <2>2. DOMAIN guard'.tokens \subseteq DOMAIN guard.tokens \ {Id(c)}
      BY <2>1 DEF OnSubscribed, Using, DropToken, Restrict, Shape, GuardShape, GuardFields, Id
    <2>3. \A d \in Conn \ {c} : conn'[d] = conn[d]
      BY <2>1 DEF Reply, Shape, ConnShape
    <2>4. \A d \in Conn \ {c} : Id(d)' = Id(d)
      <3>1. \A d \in Conn \ {c} : Hello(d)' = Hello(d)
        BY <2>3 DEF Hello
      <3> QED
        BY <3>1 DEF Id, Who
    <2> QED
      BY <1>1, <2>2, <2>3, <2>4 DEF TokenSpent, At
  <1> QED
    BY <1>2, <1>3, <1>4, NextKeeps

\* A token allows wildcards while the SUBSCRIBE that carried it is handled and no longer,
\* also when connections of one client id overlap (wildcard_tokens.go:141-195).
THEOREM TokenHolds == Spec => []TokenSpent
PROOF
  <1>1. Init => TokenSpent
    BY DEF Init, GuardInit, TokenSpent
  <1>2. Shape /\ TokenSpent /\ [Next]_vars => TokenSpent'
    BY TokenKept, NextShape
  <1> QED
    BY <1>1, <1>2, ShapeHolds, PTL DEF Spec

-----------------------------------------------------------------------------
\* What waits for a writer is light: nothing but its size limit can keep it from being
\* written.  Nothing waits for a connection that is not read yet.
Light(pk) == DOMAIN pk = PacketFields /\ pk.type = "Publish" /\ pk.qos = 0 /\ pk.mods.maxSize = 0
Ordered(p) == \E S : p.sent \in Seq(S) /\ p.buffer \in Seq(S) /\ p.sent \o p.buffer = p.accepted
Queued(p) == /\ \E S : p.queue \in Seq(S) /\ \A pk \in S : Light(pk)
             /\ p.taken = <<>> \/ \E pk : Light(pk) /\ p.taken = <<pk>>
Unwritten(p) == p.queue = <<>> /\ p.taken = <<>> /\ p.buffer = <<>>
Flushes(p) == p.buffer = <<>> \/ p.queue # <<>> \/ p.taken # <<>>
Unlimited(d) == conn[d].open /\ ~Has(Hello(d).props, "MaximumPacketSize")

\* The inductive invariant of the writer.
NamedInv == /\ \A id \in DOMAIN clients : conn[clients[id]].at \notin Early
            /\ \A d \in listener.listed : conn[d].at \notin Early
PublishInv == \A d \in Conn : conn[d].at \in Publishing => IsPacket(conn[d].pk) /\ conn[d].pk.type = "Publish"
PipeInv == \A d \in Conn : /\ Ordered(pipe[d]) /\ Queued(pipe[d])
                           /\ conn[d].at \in Early => Unwritten(pipe[d])
                           /\ Unlimited(d) => Flushes(pipe[d])

\* Sequences: where a frame is appended does not matter to the whole.
LEMMA GatherOrder ==
  ASSUME NEW S, NEW sent \in Seq(S), NEW buffer \in Seq(S), NEW frame \in S
  PROVE  /\ sent \o Append(buffer, frame) = Append(sent \o buffer, frame)
         /\ sent \o Append(buffer, frame) \in Seq(S) /\ Append(buffer, frame) \in Seq(S) /\ <<>> \in Seq(S)
         /\ (sent \o Append(buffer, frame)) \o <<>> = sent \o Append(buffer, frame)
OBVIOUS

\* What gathering does to each field (clients.go:602-657).
LEMMA GatherIs ==
  ASSUME NEW p, DOMAIN p = PipeFields, NEW frame
  PROVE  /\ DOMAIN Gather(p, frame) = PipeFields
         /\ Gather(p, frame).queue = p.queue /\ Gather(p, frame).taken = p.taken
         /\ Gather(p, frame).accepted = Append(p.accepted, frame)
         /\ \/ /\ Gather(p, frame).sent = p.sent \o Append(p.buffer, frame)
               /\ Gather(p, frame).buffer = <<>>
            \/ /\ Gather(p, frame).sent = p.sent
               /\ Gather(p, frame).buffer = Append(p.buffer, frame) /\ p.queue # <<>>
PROOF
  <1> DEFINE all == Append(p.buffer, frame)
  <1>1. \/ Gather(p, frame) = [p EXCEPT !.accepted = Append(@, frame), !.sent = @ \o all, !.buffer = <<>>]
        \/ p.queue # <<>> /\ Gather(p, frame) = [p EXCEPT !.accepted = Append(@, frame), !.buffer = all]
    BY DEF Gather, PipeFields
  <1> HIDE DEF all
  <1>2. /\ DOMAIN Gather(p, frame) = PipeFields
        /\ Gather(p, frame).queue = p.queue /\ Gather(p, frame).taken = p.taken
        /\ Gather(p, frame).accepted = Append(p.accepted, frame)
        /\ \/ /\ Gather(p, frame).sent = p.sent \o all
              /\ Gather(p, frame).buffer = <<>>
           \/ /\ Gather(p, frame).sent = p.sent
              /\ Gather(p, frame).buffer = all /\ p.queue # <<>>
    BY <1>1 DEF PipeFields
  <1> QED
    BY <1>2 DEF all

\* Gathering keeps the order, and keeps a frame back only while something is queued.
LEMMA GatherKeeps ==
  ASSUME NEW p, DOMAIN p = PipeFields, Ordered(p), NEW frame
  PROVE  /\ Ordered(Gather(p, frame))
         /\ Gather(p, frame).queue = p.queue /\ Gather(p, frame).taken = p.taken
         /\ Gather(p, frame).buffer = <<>> \/ p.queue # <<>>
         /\ DOMAIN Gather(p, frame) = PipeFields
PROOF
  <1>1. PICK S : p.sent \in Seq(S) /\ p.buffer \in Seq(S) /\ p.sent \o p.buffer = p.accepted
    BY DEF Ordered
  <1>2. \E T : p.sent \in Seq(T) /\ p.buffer \in Seq(T) /\ frame \in T
    <2>1. p.sent \in Seq(S \cup {frame}) /\ p.buffer \in Seq(S \cup {frame})
      BY <1>1
    <2> QED
      BY <2>1
  <1>3. PICK T : p.sent \in Seq(T) /\ p.buffer \in Seq(T) /\ frame \in T
    BY <1>2
  <1>4. /\ p.sent \o Append(p.buffer, frame) = Append(p.sent \o p.buffer, frame)
        /\ p.sent \o Append(p.buffer, frame) \in Seq(T) /\ Append(p.buffer, frame) \in Seq(T) /\ <<>> \in Seq(T)
        /\ (p.sent \o Append(p.buffer, frame)) \o <<>> = p.sent \o Append(p.buffer, frame)
    <2> DEFINE sent == p.sent
               buffer == p.buffer
    <2>1. sent \in Seq(T) /\ buffer \in Seq(T)
      BY <1>3
    <2> HIDE DEF sent, buffer
    <2>2. /\ sent \o Append(buffer, frame) = Append(sent \o buffer, frame)
          /\ sent \o Append(buffer, frame) \in Seq(T) /\ Append(buffer, frame) \in Seq(T) /\ <<>> \in Seq(T)
          /\ (sent \o Append(buffer, frame)) \o <<>> = sent \o Append(buffer, frame)
      BY <1>3, <2>1, GatherOrder
    <2> QED
      BY <2>2 DEF sent, buffer
  <1>5. Ordered(Gather(p, frame))
    BY <1>1, <1>3, <1>4, GatherIs DEF Ordered
  <1> QED
    BY <1>5, GatherIs

\* Taking the first of the queue is no loss (clients.go:194-207),
LEMMA TakeKeeps ==
  ASSUME NEW p, DOMAIN p = PipeFields, Ordered(p), Queued(p), p.queue # <<>>,
         NEW q, q = [p EXCEPT !.taken = <<Head(p.queue)>>, !.queue = Tail(@)]
  PROVE  Ordered(q) /\ Queued(q) /\ Flushes(q)
PROOF
  <1>1. PICK S : p.queue \in Seq(S) /\ \A pk \in S : Light(pk)
    BY DEF Queued
  <1>2. Head(p.queue) \in S /\ Tail(p.queue) \in Seq(S)
    BY <1>1, HeadTailProperties
  <1>3. q.taken = <<Head(p.queue)>> /\ q.queue = Tail(p.queue) /\ q.sent = p.sent /\ q.buffer = p.buffer
        /\ q.accepted = p.accepted
    BY DEF PipeFields
  <1>4. Ordered(q)
    BY <1>3 DEF Ordered
  <1> QED
    BY <1>1, <1>2, <1>3, <1>4 DEF Queued, Flushes

\* nor is queueing one more (server.go:1034-1124),
LEMMA QueueKeeps ==
  ASSUME NEW p, DOMAIN p = PipeFields, Ordered(p), Queued(p), NEW pk, Light(pk),
         NEW q, q = [p EXCEPT !.queue = Append(@, pk)]
  PROVE  Ordered(q) /\ Queued(q) /\ Flushes(q)
PROOF
  <1>1. PICK S : p.queue \in Seq(S) /\ \A out \in S : Light(out)
    BY DEF Queued
  <1> DEFINE T == S \cup {pk}
  <1>2. Append(p.queue, pk) \in Seq(T) /\ Append(p.queue, pk) # <<>> /\ \A out \in T : Light(out)
    <2>1. p.queue \in Seq(T)
      BY <1>1
    <2> QED
      BY <1>1, <2>1, AppendProperties
  <1>3. q.queue = Append(p.queue, pk) /\ q.taken = p.taken /\ q.sent = p.sent /\ q.buffer = p.buffer
        /\ q.accepted = p.accepted
    BY DEF PipeFields
  <1> HIDE DEF T
  <1>4. Ordered(q)
    BY <1>3 DEF Ordered
  <1> QED
    BY <1>2, <1>3, <1>4 DEF Queued, Flushes

\* nor is having written what was taken.
LEMMA WrittenKeeps ==
  ASSUME NEW p, DOMAIN p = PipeFields, Ordered(p), Queued(p),
         NEW q, q = [p EXCEPT !.taken = <<>>]
  PROVE  Ordered(q) /\ Queued(q) /\ q.buffer = p.buffer /\ q.queue = p.queue
PROOF
  <1>1. q.queue = p.queue /\ q.taken = <<>> /\ q.sent = p.sent /\ q.buffer = p.buffer /\ q.accepted = p.accepted
    BY DEF PipeFields
  <1> QED
    BY <1>1 DEF Ordered, Queued

-----------------------------------------------------------------------------
\* Whom the broker writes to has been read.
LEMMA NamedKept ==
  ASSUME Shape, NamedInv, [Next]_vars
  PROVE  NamedInv'
PROOF
  <1>1. \A d \in Conn : conn[d].at \notin Early => conn'[d].at \notin Early
    <2>1. ASSUME NEW c \in Conn, ReadConnect(c)
          PROVE  \A d \in Conn : conn[d].at \notin Early => conn'[d].at \notin Early
      BY <2>1, ReadConnectKeeps
    <2> QED
      BY <2>1, NextKeeps DEF OpenQuiet
  <1>2. CASE ListQuiet
    BY <1>1, <1>2 DEF ListQuiet, NamedInv, Shape, ClientsShape, ListenerShape
  <1>3. ASSUME NEW c \in Conn, Inherit(c)
        PROVE  NamedInv'
    <2>1. conn[c].at \notin Early
      BY <1>3, InheritKeeps DEF Early
    <2> QED
      BY <1>1, <1>3, <2>1, InheritKeeps DEF NamedInv, Shape, ClientsShape, ListenerShape
  <1>4. CASE GetByListener
    BY <1>1, <1>4, ListingKeeps DEF NamedInv, Shape, ClientsShape, ListenerShape
  <1> QED
    BY <1>2, <1>3, <1>4, NextKeeps

\* What is routed is a PUBLISH, as it was read.
LEMMA PublishKept ==
  ASSUME Shape, PublishInv, [Next]_vars
  PROVE  PublishInv'
PROOF
  <1>1. CASE PacketQuiet
    BY <1>1 DEF PacketQuiet, PublishInv
  <1>2. ASSUME NEW c \in Conn, Read(c)
        PROVE  PublishInv'
    <2> DEFINE pk == Decode(Encode(Script(c)[conn[c].next]), Version(c))
    <2>1. c \in Peers /\ conn[c].next \in 1..Len(Script(c)) /\ conn[c].next \in Nat \ {0}
      BY <1>2 DEF Read, ScenarioOK, PeerOK, Script, Shape, ScenarioShape, ConnShape, Peers, At
    <2>2. Script(c)[conn[c].next].type \in PacketTypes
      BY <2>1 DEF ScenarioOK, PeerOK, Script, Shape, ScenarioShape, Peers
    <2>3. IsPacket(pk) /\ pk.type \in PacketTypes \cup {"Malformed"}
      BY <2>2, Decoded
    <2>4. \E at \in {"leaving", "refusing", pk.type} :
             conn' = [conn EXCEPT ![c].next = @ + 1, ![c].pk = pk, ![c].at = at]
      BY <1>2 DEF Read
    <2> HIDE DEF pk
    <2>5. PICK at \in {"leaving", "refusing", pk.type} :
             conn' = [conn EXCEPT ![c].next = @ + 1, ![c].pk = pk, ![c].at = at]
      BY <2>4
    <2>6. conn'[c].pk = pk /\ conn'[c].at = at /\ \A d \in Conn \ {c} : conn'[d] = conn[d]
      BY <2>5 DEF Shape, ConnShape, ConnFields
    <2>7. at \in Publishing => pk.type = "Publish"
      BY <2>3, <2>5 DEF Publishing, PacketTypes, AckTypes
    <2> QED
      BY <2>3, <2>6, <2>7 DEF PublishInv
  <1>3. ASSUME NEW c \in Conn, processPublish(c)
        PROVE  PublishInv'
    <2>1. PICK at, aliases, topic :
             conn' = [conn EXCEPT ![c].at = at, ![c].aliases = aliases, ![c].pk.topic = topic]
      BY <1>3 DEF processPublish
    <2>2. IsPacket(conn[c].pk) /\ conn[c].pk.type = "Publish"
      BY <1>3 DEF processPublish, At, PublishInv, Publishing
    <2>3. conn'[c].pk = [conn[c].pk EXCEPT !.topic = topic] /\ \A d \in Conn \ {c} : conn'[d] = conn[d]
      BY <2>1 DEF Shape, ConnShape, ConnFields
    <2>4. IsPacket(conn'[c].pk) /\ conn'[c].pk.type = "Publish"
      BY <2>2, <2>3 DEF IsPacket, PacketFields
    <2> QED
      BY <2>3, <2>4 DEF PublishInv
  <1> QED
    BY <1>1, <1>2, <1>3, NextKeeps

\* A publish as it is queued for a client needs no packet id and has no size of its own,
LEMMA OutIsLight ==
  ASSUME NEW c, IsPacket(Pk(c)), Pk(c).type = "Publish", NEW to, NEW target
  PROVE  Light(Out(c, to, target))
PROOF
  <1>1. DOMAIN Copy(Pk(c), FALSE) = PacketFields /\ Copy(Pk(c), FALSE).type = "Publish"
        /\ Copy(Pk(c), FALSE).mods.maxSize = 0
    BY DEF Copy, IsPacket, PacketFields, NoMods
  <1>2. \E retain, props : Out(c, to, target) = [Copy(Pk(c), FALSE) EXCEPT !.qos = 0, !.retain = retain, !.props = props]
    BY DEF Out
  <1> QED
    BY <1>1, <1>2 DEF Light, PacketFields

\* so that a client that allows any size is written it as long as it is open.
LEMMA LightIsWritable ==
  ASSUME NEW e, NEW pk, Light(pk), Unlimited(e)
  PROVE  Writable(e, pk)
PROOF
  <1> DEFINE out == Modded(e, pk)
  <1>1. Property(Hello(e).props, "MaximumPacketSize", 0) = 0
    BY DEF Unlimited, Property
  <1>2. out.type = "Publish" /\ out.qos = 0 /\ out.mods.maxSize = 0
    BY <1>1 DEF Modded, Light, PacketFields
  <1>3. Outgoing(e, pk) = out
    BY <1>2 DEF Outgoing, OnPacketEncode
  <1> HIDE DEF out
  <1>4. CanEncode(out)
    BY <1>2 DEF CanEncode
  <1> QED
    BY <1>2, <1>3, <1>4 DEF Writable, Unlimited

-----------------------------------------------------------------------------
\* What a step does to one client's queue, buffer and socket.
Moves(d) ==
    \/ pipe'[d] = pipe[d]
    \/ conn[d].at \notin Early /\ \E frame : pipe'[d] = Gather(pipe[d], frame)
    \/ conn[d].at \notin Early /\ \E pk : Light(pk) /\ pipe'[d] = [pipe[d] EXCEPT !.queue = Append(@, pk)]
    \/ /\ pipe[d].queue # <<>>
       /\ pipe'[d] = [pipe[d] EXCEPT !.taken = <<Head(pipe[d].queue)>>, !.queue = Tail(@)]
    \/ pipe[d].taken # <<>> /\ \E frame : pipe'[d] = [Gather(pipe[d], frame) EXCEPT !.taken = <<>>]
    \/ pipe[d].taken # <<>> /\ ~Unlimited(d) /\ pipe'[d] = [pipe[d] EXCEPT !.taken = <<>>]

\* Any goroutine's WritePacket is such a move,
LEMMA WritesMove ==
  ASSUME Shape, NEW e \in Conn, conn[e].at \notin Early, NEW pk, pipe' = WritePacket(e, pk), NEW d \in Conn
  PROVE  Moves(d)
PROOF
  <1>1. pipe' \in {pipe, Gathered(e, pk)}
    BY WritePacketIs
  <1> QED
    BY <1>1, GatheredShape DEF Moves, Shape

\* the write loop's is, and what it cannot write was too large for the client,
LEMMA WriteMoves ==
  ASSUME Shape, PipeInv, NEW c \in Conn, Write(c), NEW d \in Conn
  PROVE  Moves(d)
PROOF
  <1> DEFINE pk == pipe[c].taken[1]
  <1>1. pipe[c].taken # <<>> /\ pipe' = [WritePacket(c, pk) EXCEPT ![c].taken = <<>>]
    BY DEF Write
  <1>2. Light(pk)
    BY <1>1 DEF PipeInv, Queued
  <1> HIDE DEF pk
  <1>3. CASE Writable(c, pk)
    <2>1. pipe' = [Gathered(c, pk) EXCEPT ![c].taken = <<>>]
      BY <1>1, <1>3, WritePacketIs
    <2>2. /\ DOMAIN Gathered(c, pk) = Conn /\ \A e \in Conn \ {c} : Gathered(c, pk)[e] = pipe[e]
          /\ \E frame : Gathered(c, pk)[c] = Gather(pipe[c], frame)
      BY GatheredShape DEF Shape
    <2>3. pipe'[c] = [Gathered(c, pk)[c] EXCEPT !.taken = <<>>] /\ \A e \in Conn \ {c} : pipe'[e] = pipe[e]
      BY <2>1, <2>2
    <2> QED
      BY <1>1, <2>2, <2>3 DEF Moves
  <1>4. CASE ~Writable(c, pk)
    <2>1. pipe' = [pipe EXCEPT ![c].taken = <<>>]
      BY <1>1, <1>4, WritePacketIs
    <2>2. ~Unlimited(c)
      BY <1>2, <1>4, LightIsWritable
    <2>3. pipe'[c] = [pipe[c] EXCEPT !.taken = <<>>] /\ \A e \in Conn \ {c} : pipe'[e] = pipe[e]
      BY <2>1 DEF Shape, PipeShape
    <2> QED
      BY <1>1, <2>2, <2>3 DEF Moves
  <1> QED
    BY <1>3, <1>4

\* what is published is queued for clients that are registered,
LEMMA PublishMoves ==
  ASSUME Shape, NamedInv, PublishInv, NEW c \in Conn, publishToClient(c), NEW d \in Conn
  PROVE  Moves(d)
PROOF
  <1>1. IsPacket(Pk(c)) /\ Pk(c).type = "Publish"
    BY DEF publishToClient, At, PublishInv, Publishing, Pk
  <1>2. pipe' = pipe \/ \E id \in DOMAIN clients : \E target :
           pipe' = [pipe EXCEPT ![clients[id]].queue = Append(@, Out(c, clients[id], target))]
    <2>1. PICK target \in conn[c].targets :
             IF target.id \notin DOMAIN clients THEN UNCHANGED pipe
             ELSE \E allowed \in OnACLCheck(scenario.hooks, guard, Who(clients[target.id]), Pk(c).topic, FALSE) :
                     pipe' = IF allowed /\ Receives(c, clients[target.id], target)
                             THEN [pipe EXCEPT ![clients[target.id]].queue = Append(@, Out(c, clients[target.id], target))]
                             ELSE pipe
      BY DEF publishToClient
    <2> QED
      BY <2>1
  <1>3. ASSUME NEW id \in DOMAIN clients, NEW target,
               pipe' = [pipe EXCEPT ![clients[id]].queue = Append(@, Out(c, clients[id], target))]
        PROVE  Moves(d)
    <2> DEFINE to == clients[id]
    <2>1. to \in Conn /\ conn[to].at \notin Early
      BY <1>3 DEF Shape, ClientsShape, NamedInv
    <2>2. Light(Out(c, to, target))
      BY <1>1, OutIsLight
    <2>3. /\ pipe'[to] = [pipe[to] EXCEPT !.queue = Append(@, Out(c, to, target))]
          /\ \A e \in Conn \ {to} : pipe'[e] = pipe[e]
      BY <1>3, <2>1 DEF Shape, PipeShape
    <2> QED
      BY <2>1, <2>2, <2>3 DEF Moves
  <1> QED
    BY <1>2, <1>3 DEF Moves

\* and no step does anything else to a client.
LEMMA PipesMove ==
  ASSUME Shape, NamedInv, PublishInv, PipeInv, [Next]_vars, NEW d \in Conn
  PROVE  Moves(d)
PROOF
  <1>1. CASE Silent
    BY <1>1, WritesMove DEF Silent, Moves
  <1>2. ASSUME NEW c \in Conn, Inherit(c)
        PROVE  Moves(d)
    <2>1. pipe' = pipe \/ \E id \in DOMAIN clients : \E pk : pipe' = WritePacket(clients[id], pk)
      BY <1>2, InheritKeeps
    <2>2. \A id \in DOMAIN clients : clients[id] \in Conn /\ conn[clients[id]].at \notin Early
      BY DEF Shape, ClientsShape, NamedInv
    <2> QED
      BY <2>1, <2>2, WritesMove DEF Moves
  <1>3. ASSUME NEW c \in Conn, ShutDown(c)
        PROVE  Moves(d)
    <2>1. conn[c].at \notin Early /\ \E pk : pipe' = WritePacket(c, pk)
      BY <1>3 DEF ShutDown, NamedInv
    <2> QED
      BY <2>1, WritesMove
  <1>4. ASSUME NEW c \in Conn, Take(c)
        PROVE  Moves(d)
    BY <1>4 DEF Take, Moves, Shape, PipeShape
  <1> QED
    BY <1>1, <1>2, <1>3, <1>4, WriteMoves, PublishMoves, NextKeeps

\* So order and flushing are kept by every step.
LEMMA PipesKept ==
  ASSUME Shape, NamedInv, PublishInv, PipeInv, [Next]_vars
  PROVE  PipeInv'
PROOF
  <1> SUFFICES ASSUME NEW d \in Conn
               PROVE  /\ Ordered(pipe'[d]) /\ Queued(pipe'[d])
                      /\ conn'[d].at \in Early => Unwritten(pipe'[d])
                      /\ Unlimited(d)' => Flushes(pipe'[d])
    BY DEF PipeInv
  <1> DEFINE p == pipe[d]
             q == pipe'[d]
  <1>1. DOMAIN p = PipeFields /\ Ordered(p) /\ Queued(p)
    BY DEF Shape, PipeShape, PipeInv
  <1>2. Moves(d)
    BY PipesMove
  <1>3. conn'[d].at \in Early => conn[d].at \in Early
    <2>1. ASSUME NEW c \in Conn, ReadConnect(c)
          PROVE  conn'[d].at \in Early => conn[d].at \in Early
      BY <2>1, ReadConnectKeeps
    <2> QED
      BY <2>1, NextKeeps DEF OpenQuiet
  <1>4. Unlimited(d)' => Unlimited(d) \/ (conn[d].at \in Early /\ q = p)
    <2>1. ASSUME NEW c \in Conn, ReadConnect(c)
          PROVE  Unlimited(d)' => Unlimited(d) \/ (conn[d].at \in Early /\ q = p)
      <3>1. CASE d = c
        BY <2>1, <3>1, ReadConnectKeeps DEF Early
      <3>2. CASE d # c
        <4>1. conn'[d] = conn[d]
          BY <2>1, <3>2, ReadConnectKeeps
        <4> QED
          BY <4>1 DEF Unlimited, Hello
      <3> QED
        BY <3>1, <3>2
    <2>2. CASE OpenQuiet
      BY <2>2 DEF OpenQuiet, Unlimited, Hello
    <2> QED
      BY <2>1, <2>2, NextKeeps
  <1>5. conn[d].at \in Early => Unwritten(p)
    BY DEF PipeInv
  <1>6. Unlimited(d) => Flushes(p)
    BY DEF PipeInv
  <1> HIDE DEF p, q
  <1>7. CASE q = p
    BY <1>1, <1>3, <1>4, <1>5, <1>6, <1>7 DEF Flushes, Unwritten, p, q
  <1>8. ASSUME conn[d].at \notin Early, NEW frame, q = Gather(p, frame)
        PROVE  Ordered(q) /\ Queued(q) /\ Flushes(q)
    <2>1. Ordered(q) /\ q.queue = p.queue /\ q.taken = p.taken /\ (q.buffer = <<>> \/ p.queue # <<>>)
      BY <1>1, <1>8, GatherKeeps
    <2> QED
      BY <1>1, <2>1 DEF Queued, Flushes
  <1>9. ASSUME NEW pk, Light(pk), q = [p EXCEPT !.queue = Append(@, pk)]
        PROVE  Ordered(q) /\ Queued(q) /\ Flushes(q)
    BY <1>1, <1>9, QueueKeeps
  <1>10. ASSUME p.queue # <<>>, q = [p EXCEPT !.taken = <<Head(p.queue)>>, !.queue = Tail(@)]
         PROVE  Ordered(q) /\ Queued(q) /\ Flushes(q)
    BY <1>1, <1>10, TakeKeeps
  <1>11. ASSUME NEW frame, q = [Gather(p, frame) EXCEPT !.taken = <<>>]
         PROVE  Ordered(q) /\ Queued(q) /\ Flushes(q)
    <2> DEFINE g == Gather(p, frame)
    <2>1. /\ Ordered(g) /\ g.queue = p.queue /\ g.taken = p.taken /\ (g.buffer = <<>> \/ p.queue # <<>>)
          /\ DOMAIN g = PipeFields
      BY <1>1, GatherKeeps
    <2>2. Queued(g)
      BY <1>1, <2>1 DEF Queued
    <2> HIDE DEF g
    <2>3. Ordered(q) /\ Queued(q) /\ q.buffer = g.buffer /\ q.queue = g.queue
      BY <1>11, <2>1, <2>2, WrittenKeeps DEF g
    <2> QED
      BY <2>1, <2>3 DEF Flushes
  <1>12. ASSUME ~Unlimited(d), p.taken # <<>>, q = [p EXCEPT !.taken = <<>>]
         PROVE  Ordered(q) /\ Queued(q) /\ conn'[d].at \notin Early /\ ~Unlimited(d)'
    <2>1. Ordered(q) /\ Queued(q)
      BY <1>1, <1>12, WrittenKeeps
    <2>2. conn[d].at \notin Early
      BY <1>5, <1>12 DEF Unwritten
    <2> QED
      BY <1>3, <1>4, <1>12, <2>1, <2>2
  <1>13. p.queue # <<>> \/ p.taken # <<>> => conn'[d].at \notin Early
    BY <1>3, <1>5 DEF Unwritten
  <1>14. \/ q = p
         \/ conn[d].at \notin Early /\ \E frame : q = Gather(p, frame)
         \/ conn[d].at \notin Early /\ \E pk : Light(pk) /\ q = [p EXCEPT !.queue = Append(@, pk)]
         \/ p.queue # <<>> /\ q = [p EXCEPT !.taken = <<Head(p.queue)>>, !.queue = Tail(@)]
         \/ p.taken # <<>> /\ \E frame : q = [Gather(p, frame) EXCEPT !.taken = <<>>]
         \/ p.taken # <<>> /\ ~Unlimited(d) /\ q = [p EXCEPT !.taken = <<>>]
    BY <1>2 DEF Moves, p, q
  <1>15. \/ q = p
         \/ Ordered(q) /\ Queued(q) /\ conn'[d].at \notin Early /\ (Unlimited(d)' => Flushes(q))
    BY <1>3, <1>8, <1>9, <1>10, <1>11, <1>12, <1>13, <1>14
  <1> QED
    BY <1>7, <1>15 DEF q

\* The coalescing writer of a client keeps the order in which packets were written to it,
\* loses none, and keeps none back from an open connection once nothing is left to write
\* (clients.go:602-657), for a client that allows packets of any size.
THEOREM WriterHolds == Spec => []InOrderAndFlushed
PROOF
  <1> DEFINE IInv == Shape /\ NamedInv /\ PublishInv /\ PipeInv
  <1>1. Init => NamedInv /\ PublishInv /\ PipeInv
    <2> SUFFICES ASSUME Init
                 PROVE  NamedInv /\ PublishInv /\ PipeInv
      OBVIOUS
    <2>1. \A d \in Conn : conn[d].at \in {"dialed", "new", "gone"}
      BY DEF Init, NewConn
    <2>2. NamedInv /\ PublishInv
      BY <2>1 DEF Init, NamedInv, PublishInv, Publishing
    <2>3. Ordered(NewPipe) /\ Queued(NewPipe) /\ Unwritten(NewPipe) /\ Flushes(NewPipe)
      <3>1. <<>> \in Seq({})
        BY EmptySeq
      <3>2. <<>> \o <<>> = <<>>
        BY <3>1, ConcatEmptySeq
      <3>3. Ordered(NewPipe)
        BY <3>1, <3>2 DEF NewPipe, Ordered
      <3>4. Queued(NewPipe)
        <4>1. NewPipe.queue = <<>> /\ NewPipe.taken = <<>>
          BY DEF NewPipe
        <4>2. \E S : <<>> \in Seq(S) /\ \A pk \in S : Light(pk)
          <5> DEFINE none == {}
          <5>1. <<>> \in Seq(none) /\ \A pk \in none : Light(pk)
            BY <3>1
          <5> HIDE DEF none
          <5> QED
            BY <5>1
        <4> QED
          BY <4>1, <4>2 DEF Queued
      <3> QED
        BY <3>3, <3>4 DEF NewPipe, Unwritten, Flushes
    <2>4. \A d \in Conn : pipe[d] = NewPipe
      BY DEF Init
    <2> QED
      BY <2>2, <2>3, <2>4 DEF PipeInv
  <1>2. IInv /\ [Next]_vars => IInv'
    BY NextShape, NamedKept, PublishKept, PipesKept
  <1>3. IInv => InOrderAndFlushed
    <2> SUFFICES ASSUME Shape, PipeInv, NEW c \in Peers
                 PROVE  /\ pipe[c].sent \o pipe[c].buffer = pipe[c].accepted
                        /\ conn[c].open /\ ~Has(Hello(c).props, "MaximumPacketSize") =>
                              pipe[c].buffer = <<>> \/ pipe[c].queue # <<>> \/ pipe[c].taken # <<>>
      BY DEF InOrderAndFlushed
    <2>1. c \in Conn
      BY DEF Shape, ScenarioShape, ScenarioOK, Peers
    <2> QED
      BY <2>1 DEF PipeInv, Ordered, Flushes, Unlimited
  <1>4. Init => IInv
    BY <1>1, InitShape
  <1> QED
    BY <1>2, <1>3, <1>4, PTL DEF Spec
================================================================================
