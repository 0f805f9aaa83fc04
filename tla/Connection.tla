------------------------------ MODULE Connection ------------------------------
(***************************************************************************)
(* Connections from end to end: what the peer of each one sends is read    *)
(* and decoded (clients.go), the connection is established and its packets *)
(* handled (server.go) under the hooks that are enabled, and what is       *)
(* forwarded to others goes through their outbound queues and coalescing   *)
(* writers.  One goroutine reads and handles for each connection and one   *)
(* writes; authentication timers run beside them.                          *)
(***************************************************************************)
EXTENDS Packets, HookChain, TopicAliases, TLC, FiniteSets

CONSTANTS
    Conn,                       \* connections, in no order
    Scenarios,                  \* what the peers may do, see ScenarioOK
    MaximumClientWritesPending, \* packets a client's queue holds
    ClientNetWriteBufferSize,   \* bytes the writer gathers before it writes
    TopicAliasMaximum           \* of the broker

VARIABLES
    scenario,   \* the one that is played
    listener,   \* the goroutine that accepts and the one that closes
    conn,       \* Conn -> its state
    clients,    \* the registered connection of each client id
    subs,       \* the subscriptions: of which id, to what, how
    guard,      \* the state of the hooks
    pipe        \* Conn -> its outbound queue, writer, buffer and socket

vars == <<scenario, listener, conn, clients, subs, guard, pipe>>

\* A peer has an address, a script of packets and may hang up; the broker has
\* hooks and a maximum of clients, has restored sessions before, sees a number
\* of seconds pass, and may close.
PeerOK(p) ==
    /\ Len(p.script) \in Nat \ {0} /\ \A i \in 1..Len(p.script) : p.script[i].type \in PacketTypes
    /\ p.script[1].type = "Connect" /\ p.hangsUp \in BOOLEAN
ScenarioOK(s) ==
    /\ DOMAIN s = {"peers", "hooks", "restored", "seconds", "maximumClients", "closes"}
    /\ DOMAIN s.peers \subseteq Conn /\ \A c \in DOMAIN s.peers : PeerOK(s.peers[c])
    /\ s.hooks \subseteq AllHooks /\ s.closes \in BOOLEAN /\ {s.restored, s.seconds, s.maximumClients} \subseteq Nat

ASSUME ScenariosOK == \A s \in Scenarios : ScenarioOK(s)
ASSUME BoundsOK == /\ IsFiniteSet(Conn) /\ MaxConcurrentConn \in Nat
                   /\ MaximumClientWritesPending \in Nat \ {0}
                   /\ ClientNetWriteBufferSize \in Nat /\ TopicAliasMaximum \in Nat
                   /\ MaxConnectionsPerSecond \in Nat \ {0}

Peers == DOMAIN scenario.peers
Script(c) == scenario.peers[c].script
Ips(s) == {s.peers[c].ip : c \in DOMAIN s.peers}
Hello(c) == conn[c].hello
Version(c) == conn[c].version

Who(c) == [conn |-> c, id |-> Hello(c).connect.clientId, ip |-> scenario.peers[c].ip,
           remote |-> scenario.peers[c].ip, username |-> Hello(c).connect.username,
           password |-> Hello(c).connect.password]
Id(c) == Who(c).id

NewConn == [at |-> IF scenario.closes THEN "dialed" ELSE "new", next |-> 1, open |-> TRUE, version |-> 4, hello |-> Blank("None", 4),
            pk |-> Blank("None", 4), takenOver |-> FALSE, counted |-> 0, aliases |-> [a \in {} |-> ""],
            reasons |-> <<>>, targets |-> {}]
NewPipe == [queue |-> <<>>, taken |-> <<>>, buffer |-> <<>>, sent |-> <<>>, accepted |-> <<>>]

Init == /\ scenario \in Scenarios
        /\ conn = [c \in Conn |-> IF c \in Peers THEN NewConn ELSE [NewConn EXCEPT !.at = "gone", !.open = FALSE]]
        /\ listener = [end |-> FALSE, listens |-> TRUE, close |-> "no", listed |-> {},
                        serve |-> IF scenario.closes THEN "loading" ELSE "none"]
        /\ clients = [id \in {} |-> CHOOSE c \in Conn : TRUE]
        /\ subs = {}
        /\ guard = GuardInit(Ips(scenario), -scenario.restored)
        /\ pipe = [c \in Conn |-> NewPipe]

-------------------------------------------------------------------------------
(* Writing *)

Property(p, name, default) == IF Has(p, name) THEN p[name] ELSE default

Modded(c, pk) ==
    LET p == Hello(c).props
    IN [pk EXCEPT !.version = Version(c),
            !.mods = [maxSize |-> IF @.maxSize = 0 THEN Property(p, "MaximumPacketSize", 0) ELSE @.maxSize,
                      disallowProblemInfo |-> Property(p, "RequestProblemInfo", 1) = 0,
                      allowResponseInfo |-> pk.type # "Connack" \/ Property(p, "RequestResponseInfo", 0) = 1]]
Outgoing(c, pk) == OnPacketEncode(scenario.hooks, Who(c), Modded(c, pk))

Writable(c, pk) ==
    LET out == Outgoing(c, pk) IN
    /\ conn[c].open /\ CanEncode(out)
    /\ out.mods.maxSize = 0 \/ FrameSize(Encode(out)) <= out.mods.maxSize

FramesSize(frames) == FoldSeq(LAMBDA f, sum : sum + FrameSize(f), 0, frames)

\* A packet with nothing queued behind it goes out alone.
GatherNot(p, frame) ==   \* a mutant
    IF p.queue = <<>> THEN [p EXCEPT !.accepted = Append(@, frame), !.sent = Append(@, frame)]
    ELSE [p EXCEPT !.accepted = Append(@, frame), !.buffer = Append(@, frame)]

\* Under the lock of the client: with nothing else queued, or enough gathered,
\* the buffer and this go out together.
Gather(p, frame) ==
    LET all == Append(p.buffer, frame)
        flush == p.queue = <<>> \/ FramesSize(all) >= ClientNetWriteBufferSize
    IN [p EXCEPT !.accepted = Append(@, frame), !.sent = IF flush THEN @ \o all ELSE @,
                 !.buffer = IF flush THEN <<>> ELSE all]
WritePacket(c, pk) ==
    IF Writable(c, pk) THEN [pipe EXCEPT ![c] = Gather(pipe[c], Encode(Outgoing(c, pk)))] ELSE pipe

\* DisconnectClient: what of it the others see.
Disconnect(code) == [Blank("Disconnect", 4) EXCEPT !.reason = code,
                        !.props = IF code >= 128 THEN "ReasonString" :> "why" ELSE @]

\* WriteLoop, until the connection is stopped.
Take(c) == /\ conn[c].open /\ pipe[c].taken = <<>> /\ pipe[c].queue # <<>>
           /\ pipe' = [pipe EXCEPT ![c].taken = <<Head(pipe[c].queue)>>, ![c].queue = Tail(@)]
           /\ UNCHANGED <<scenario, listener, conn, clients, subs, guard>>
Write(c) == /\ pipe[c].taken # <<>>
            /\ pipe' = [WritePacket(c, pipe[c].taken[1]) EXCEPT ![c].taken = <<>>]
            /\ UNCHANGED <<scenario, listener, conn, clients, subs, guard>>
-------------------------------------------------------------------------------
(* Accepting connections and closing the broker *)

\* Goroutines of connections are counted from their first statement to their end.
Counted == {c \in Peers : conn[c].at \notin {"dialed", "accepted", "dropped", "spawned", "gone"}}

\* Serve: the end is looked for before a connection is waited for and after.
ServeLoads ==
    /\ listener.serve = "loading"
    /\ listener' = [listener EXCEPT !.serve = IF listener.end THEN "returned" ELSE "accepting"]
    /\ UNCHANGED <<scenario, conn, clients, subs, guard, pipe>>
Accept(c) ==
    /\ listener.serve = "accepting" /\ listener.listens /\ conn[c].at = "dialed"
    /\ listener' = [listener EXCEPT !.serve = "deciding"]
    /\ conn' = [conn EXCEPT ![c].at = "accepted"]
    /\ UNCHANGED <<scenario, clients, subs, guard, pipe>>
AcceptFails ==
    /\ listener.serve = "accepting" /\ ~listener.listens
    /\ listener' = [listener EXCEPT !.serve = "returned"]
    /\ UNCHANGED <<scenario, conn, clients, subs, guard, pipe>>
Spawn(c) ==
    /\ conn[c].at = "accepted"
    /\ listener' = [listener EXCEPT !.serve = "loading"]
    /\ conn' = [conn EXCEPT ![c].at = IF listener.end THEN "dropped" ELSE "spawned"]
    /\ UNCHANGED <<scenario, clients, subs, guard, pipe>>
EstablishConnection(c) ==
    /\ conn[c].at = "spawned" /\ conn' = [conn EXCEPT ![c].at = "new"]
    /\ UNCHANGED <<scenario, listener, clients, subs, guard, pipe>>

\* Close: the listener ends, the registered clients are disconnected one by one,
\* its socket is closed, the connections are waited for, the hooks stopped.
Close == /\ scenario.closes /\ listener.close = "no"
         /\ listener' = [listener EXCEPT !.end = TRUE, !.close = "listing"]
         /\ UNCHANGED <<scenario, conn, clients, subs, guard, pipe>>
GetByListener ==
    /\ listener.close = "listing"
    /\ listener' = [listener EXCEPT !.close = "disconnecting",
                        !.listed = {c \in {clients[id] : id \in DOMAIN clients} : conn[c].open}]
    /\ UNCHANGED <<scenario, conn, clients, subs, guard, pipe>>
ShutDown(c) ==
    /\ c \in listener.listed
    /\ listener' = [listener EXCEPT !.listed = @ \ {c}]
    /\ pipe' = WritePacket(c, Disconnect(139)) /\ conn' = [conn EXCEPT ![c].open = FALSE]
    /\ UNCHANGED <<scenario, clients, subs, guard>>
CloseSocket ==
    /\ listener.close = "disconnecting" /\ listener.listed = {}
    /\ listener' = [listener EXCEPT !.listens = FALSE, !.close = "waiting"]
    /\ UNCHANGED <<scenario, conn, clients, subs, guard, pipe>>
StopHooks ==
    /\ listener.close = "waiting" /\ Counted = {}
    /\ listener' = [listener EXCEPT !.close = "stopped"]
    /\ UNCHANGED <<scenario, conn, clients, subs, guard, pipe>>
-------------------------------------------------------------------------------
(* Establishing a connection: attachClient *)

At(c, at) == conn[c].at = at
Goes(c, at) == conn' = [conn EXCEPT ![c].at = at]
\* attachClient returns, which stops the client, or goes on.
Ends(c) == conn' = [conn EXCEPT ![c].at = "gone", ![c].open = FALSE]
GoesOn(c, may, at) == IF may THEN Goes(c, at) ELSE Ends(c)

V5CodesToV3(code) == CASE code = 132 -> 1 [] code = 133 -> 2 [] code = 136 -> 3 [] code = 134 -> 5 [] OTHER -> code
Refusal(c, code) ==
    [Blank("Connack", 4) EXCEPT !.reason = IF Version(c) < 5 THEN V5CodesToV3(code) ELSE code,
                                !.props = Struct("ReasonString" :> "why" @@ "ReceiveMaximum" :> 9)]
Connack(present) == [Blank("Connack", 4) EXCEPT !.present = present, !.props = Struct("ReceiveMaximum" :> 9)]

\* ClientsConnected is raised once a connection is authenticated.
Connected == {c \in Counted : conn[c].at \notin {"new", "busy", "invalid", "counting", "admitting",
                                               "filtering", "authenticating"}}
ReadConnect(c) ==
    LET pk == Decode(Encode(Script(c)[1]), Version(c)) IN
    /\ At(c, "new") /\ conn[c].open
    /\ conn' = [conn EXCEPT ![c].next = 2, ![c].hello = [pk EXCEPT !.props = CopyProperties(@, FALSE)],
                            ![c].version = pk.version,
                            ![c].at = IF Cardinality(Connected) >= scenario.maximumClients THEN "busy"
                                      ELSE IF Validate(pk, TopicAliasMaximum) THEN "counting" ELSE "invalid"]
    /\ UNCHANGED <<scenario, listener, clients, subs, guard, pipe>>

Busy(c) == /\ At(c, "busy") /\ Ends(c) /\ pipe' = WritePacket(c, Refusal(c, IF Version(c) < 5 THEN 136 ELSE 137))
           /\ UNCHANGED <<scenario, listener, clients, subs, guard>>
Invalid(c) == /\ At(c, "invalid") /\ Ends(c) /\ pipe' = WritePacket(c, Refusal(c, 130))
              /\ UNCHANGED <<scenario, listener, clients, subs, guard>>

\* The counter is read before it is raised.
CountLoaded(c) ==   \* a mutant
    /\ At(c, "counting")
    /\ guard' = [guard EXCEPT !.auth = CountConnection(guard.auth)]
    /\ conn' = [conn EXCEPT ![c].at = "admitting", ![c].counted = guard.auth.active]
    /\ UNCHANGED <<scenario, listener, clients, subs, pipe>>

\* The hooks' OnConnect: the authentication defence counts, then decides.
Count(c) ==
    /\ At(c, "counting")
    /\ IF "auth-defense" \in scenario.hooks
       THEN LET a == CountConnection(guard.auth) IN
            /\ guard' = [guard EXCEPT !.auth = a]
            /\ conn' = [conn EXCEPT ![c].at = "admitting", ![c].counted = a.active]
       ELSE Goes(c, "filtering") /\ UNCHANGED guard
    /\ UNCHANGED <<scenario, listener, clients, subs, pipe>>
Admit(c) ==
    LET refused == TooMany(guard.auth, Who(c), conn[c].counted) IN
    /\ At(c, "admitting") /\ GoesOn(c, ~refused, "filtering")
    /\ guard' = [guard EXCEPT !.auth = IF refused THEN RefuseConnection(guard.auth, Who(c), conn[c].counted)
                                       ELSE AdmitConnection(guard.auth, Who(c))]
    /\ UNCHANGED <<scenario, listener, clients, subs, pipe>>
FilterAddress(c) ==
    LET uses == "ebpf-filter" \in scenario.hooks
        ip == Who(c).ip
    IN /\ At(c, "filtering") /\ GoesOn(c, ~(uses /\ Bans(guard.trackers, ip)), "authenticating")
       /\ guard' = [guard EXCEPT !.trackers = IF uses THEN Track(guard.trackers, ip) ELSE @]
       /\ UNCHANGED <<scenario, listener, clients, subs, pipe>>

Authenticate(c) ==
    LET ok == OnConnectAuthenticate(scenario.hooks, Who(c)) IN
    /\ At(c, "authenticating") /\ GoesOn(c, ok, "inheriting")
    /\ pipe' = IF ok THEN pipe ELSE WritePacket(c, Refusal(c, 134))
    /\ UNCHANGED <<scenario, listener, clients, subs, guard>>

\* inheritClientSession stops the connection the id had; its subscriptions are
\* dropped when either side wants a clean start.
OfId(id) == {sub \in subs : sub.id = id}
Inherit(c) ==
    LET id == Id(c)
        known == id \in DOMAIN clients
        old == clients[id]
        clean == Hello(c).connect.clean \/ (Hello(old).connect.clean /\ Version(old) < 5)
        present == known /\ ~clean
    IN /\ At(c, "inheriting")
       /\ clients' = [i \in DOMAIN clients \cup {id} |-> IF i = id THEN c ELSE clients[i]]
       /\ subs' = IF known /\ clean /\ ~conn[old].takenOver THEN subs \ OfId(id) ELSE subs
       /\ pipe' = IF known THEN WritePacket(old, Disconnect(142)) ELSE pipe
       /\ conn' = LET new == [conn EXCEPT ![c].at = IF present THEN "present" ELSE "absent"]
                  IN IF known THEN [new EXCEPT ![old].open = FALSE, ![old].takenOver = TRUE] ELSE new
       /\ UNCHANGED <<scenario, listener, guard>>

SendConnack(c) ==
    LET ack == Connack(At(c, "present")) IN
    /\ At(c, "present") \/ At(c, "absent")
    /\ GoesOn(c, Writable(c, ack), "established") /\ pipe' = WritePacket(c, ack)
    /\ UNCHANGED <<scenario, listener, clients, subs, guard>>
Established(c) == /\ At(c, "established") /\ Goes(c, "reading")
                  /\ guard' = OnSessionEstablished(scenario.hooks, guard, Who(c))
                  /\ UNCHANGED <<scenario, listener, clients, subs, pipe>>
-------------------------------------------------------------------------------
(* Reading and handling packets *)

\* receivePacket: an MQTT 5 peer is told the code of an error before it ends.
Fails(c, code) ==
    /\ conn' = [conn EXCEPT ![c].at = "leaving", ![c].open = FALSE]
    /\ pipe' = IF code >= 128 /\ Version(c) = 5 THEN WritePacket(c, Disconnect(code)) ELSE pipe
Reply(c, pk) ==
    /\ pipe' = WritePacket(c, pk)
    /\ conn' = [conn EXCEPT ![c].at = IF Writable(c, pk) THEN "reading" ELSE "leaving",
                            ![c].open = @ /\ Writable(c, pk)]

Read(c) ==
    LET pk == Decode(Encode(Script(c)[conn[c].next]), Version(c)) IN
    /\ At(c, "reading") /\ conn[c].open /\ conn[c].next <= Len(Script(c))
    /\ conn' = [conn EXCEPT ![c].next = @ + 1, ![c].pk = pk,
                    ![c].at = IF pk = Malformed THEN "leaving"
                              ELSE IF Validate(pk, TopicAliasMaximum) THEN pk.type ELSE "refusing"]
    /\ UNCHANGED <<scenario, listener, clients, subs, guard, pipe>>
ReadEnds(c) == /\ At(c, "reading") /\ ~conn[c].open /\ Goes(c, "leaving")
               /\ UNCHANGED <<scenario, listener, clients, subs, guard, pipe>>
Refuse(c) == /\ At(c, "refusing") /\ Fails(c, 130) /\ UNCHANGED <<scenario, listener, clients, subs, guard>>

Pk(c) == conn[c].pk
User(c) == Property(Pk(c).props, "User", <<>>)

processConnect(c) == /\ At(c, "Connect") /\ Fails(c, 130) /\ UNCHANGED <<scenario, listener, clients, subs, guard>>
processPingreq(c) == /\ At(c, "Pingreq") /\ Reply(c, Blank("Pingresp", 4))
                     /\ UNCHANGED <<scenario, listener, clients, subs, guard>>

\* Nothing of this model is in flight: PUBACK and PUBCOMP are for no message,
\* PUBREC and PUBREL are answered with "packet identifier not found".
buildAck(pk, type, reason) ==
    [Blank(type, 4) EXCEPT !.id = pk.id, !.reason = reason, !.qos = IF type = "Pubrel" THEN 1 ELSE 0,
        !.props = IF reason >= 128 THEN ("ReasonString" :> "why") @@ pk.props ELSE pk.props]
processAck(c) ==
    /\ At(c, "Puback") \/ At(c, "Pubcomp")
    /\ Goes(c, "reading") /\ UNCHANGED <<scenario, listener, clients, subs, guard, pipe>>
processPubrec(c) == /\ At(c, "Pubrec") /\ Reply(c, buildAck(Pk(c), "Pubrel", 146))
                    /\ UNCHANGED <<scenario, listener, clients, subs, guard>>
processPubrel(c) == /\ At(c, "Pubrel") /\ Reply(c, buildAck(Pk(c), "Pubcomp", 146))
                    /\ UNCHANGED <<scenario, listener, clients, subs, guard>>
\* What only a server sends has no handler; that error has no code.
Unexpected(c) == /\ conn[c].at \in {"Connack", "Suback", "Unsuback", "Pingresp"} /\ Fails(c, 0)
                 /\ UNCHANGED <<scenario, listener, clients, subs, guard>>

processAuth(c) ==
    /\ At(c, "Auth")
    /\ guard' = OnAuthPacket(scenario.hooks, guard, Who(c))
    /\ IF OnAuthPacketRejects(scenario.hooks, guard, Who(c)) THEN Fails(c, 131)
       ELSE Goes(c, "reading") /\ UNCHANGED pipe
    /\ UNCHANGED <<scenario, listener, clients, subs>>

\* A session expiry that was 0 may not be raised: that is an error.
processDisconnect(c) ==
    LET given == Property(Pk(c).props, "SessionExpiryInterval", 0)
        raises == given > 0 /\ Property(Hello(c).props, "SessionExpiryInterval", 0) = 0
    IN /\ At(c, "Disconnect")
       /\ IF raises THEN Fails(c, 130)
          ELSE /\ conn' = [conn EXCEPT ![c].at = "leaving", ![c].open = FALSE,
                      ![c].hello.props = IF Has(Pk(c).props, "SessionExpiryInterval")
                                         THEN ("SessionExpiryInterval" :> given) @@ @ ELSE @]
               /\ UNCHANGED pipe
       /\ UNCHANGED <<scenario, listener, clients, subs, guard>>

\* processSubscribe: the hooks first, then filter by filter, then the answer.
processSubscribe(c) ==
    /\ At(c, "Subscribe")
    /\ guard' = OnSubscribe(scenario.hooks, guard, Who(c), User(c))
    /\ conn' = [conn EXCEPT ![c].at = "subscribing", ![c].reasons = <<>>]
    /\ UNCHANGED <<scenario, listener, clients, subs, pipe>>
Asked(c) == Pk(c).filters[Len(conn[c].reasons) + 1]
Answer(c, code) == conn' = [conn EXCEPT ![c].reasons = Append(@, code)]
SubscribeNext(c) ==
    /\ At(c, "subscribing") /\ Len(conn[c].reasons) < Len(Pk(c).filters)
    /\ \E allowed \in OnACLCheck(scenario.hooks, guard, Who(c), Asked(c).filter, FALSE) :
          /\ Answer(c, IF allowed THEN Asked(c).qos ELSE IF Version(c) = 5 THEN 135 ELSE 128)
          /\ subs' = IF ~allowed THEN subs
                     ELSE {sub \in subs : sub.id # Id(c) \/ sub.to.filter # Asked(c).filter}
                          \cup {[id |-> Id(c), to |-> Asked(c)]}
    /\ UNCHANGED <<scenario, listener, clients, guard, pipe>>
Acked(c, type) == [Blank(type, 4) EXCEPT !.id = Pk(c).id, !.reasons = conn[c].reasons,
                                         !.props = Struct("User" :> User(c))]
SubscribeEnds(c) ==
    /\ At(c, "subscribing") /\ Len(conn[c].reasons) = Len(Pk(c).filters)
    /\ guard' = OnSubscribed(scenario.hooks, guard, Who(c))
    /\ Reply(c, Acked(c, "Suback"))
    /\ UNCHANGED <<scenario, listener, clients, subs>>

processUnsubscribe(c) ==
    LET filters == Pk(c).filters
        held(f) == \E sub \in OfId(Id(c)) : sub.to.filter = f
        ack == [Acked(c, "Unsuback") EXCEPT
                   !.reasons = [i \in DOMAIN filters |-> IF held(filters[i].filter) THEN 0 ELSE 17]]
    IN /\ At(c, "Unsubscribe") /\ Reply(c, ack)
       /\ subs' = {sub \in subs : sub.id = Id(c) => \A i \in DOMAIN filters : filters[i].filter # sub.to.filter}
       /\ UNCHANGED <<scenario, listener, clients, guard>>

\* processPublish: may it be written, what does its alias mean, does a hook
\* reject it; then its acknowledgement, and then its subscribers.
Alias(c) == Property(Pk(c).props, "TopicAlias", 0)
Topic(c) == IF Alias(c) = 0 THEN Pk(c).topic
            ELSE InboundTopic(conn[c].aliases, TopicAliasMaximum, Alias(c), Pk(c).topic, "")
Aliases(c) == IF Alias(c) = 0 THEN conn[c].aliases
              ELSE InboundSet(conn[c].aliases, TopicAliasMaximum, Alias(c), Pk(c).topic, "")
Puback(c, reason) == buildAck(Pk(c), "Puback", reason)

PublishDenied(c) ==
    /\ At(c, "Publish") /\ FALSE \in OnACLCheck(scenario.hooks, guard, Who(c), Pk(c).topic, TRUE)
    /\ IF Pk(c).qos = 0 THEN Goes(c, "reading") /\ UNCHANGED pipe
       ELSE IF Version(c) # 5
       THEN pipe' = WritePacket(c, Disconnect(135)) /\ conn' = [conn EXCEPT ![c].at = "leaving", ![c].open = FALSE]
       ELSE Reply(c, Puback(c, 135))
    /\ UNCHANGED <<scenario, listener, clients, subs, guard>>
processPublish(c) ==
    LET rejected == OnPublishRejects(scenario.hooks, guard, Who(c), Topic(c), Pk(c).payload, User(c))
        acked == Pk(c).qos = 0 \/ Writable(c, Puback(c, 1))
        at == IF rejected THEN "reading" ELSE IF acked THEN "scanning" ELSE "leaving"
    IN /\ At(c, "Publish") /\ TRUE \in OnACLCheck(scenario.hooks, guard, Who(c), Pk(c).topic, TRUE)
       /\ guard' = OnPublish(scenario.hooks, guard, Who(c), User(c))
       /\ conn' = [conn EXCEPT ![c].at = at, ![c].aliases = Aliases(c), ![c].pk.topic = Topic(c)]
       /\ pipe' = IF rejected \/ Pk(c).qos = 0 THEN pipe ELSE WritePacket(c, Puback(c, 1))
       /\ UNCHANGED <<scenario, listener, clients, subs>>

\* publishToSubscribers: who they are, then one after the other.
Matching(topic) == {sub \in subs : sub.to.filter \in {topic, "+", "#"}}
Scan(c) ==
    /\ At(c, "scanning")
    /\ conn' = [conn EXCEPT ![c].at = "routing",
                   ![c].targets = {[id |-> id, subs |-> {sub.to : sub \in Matching(Pk(c).topic) \cap OfId(id)}]
                                     : id \in {sub.id : sub \in Matching(Pk(c).topic)}}]
    /\ UNCHANGED <<scenario, listener, clients, subs, guard, pipe>>

Identifiers(target) == SetToSortSeq({sub.identifier : sub \in target.subs} \ {0}, <)
Out(c, to, target) ==
    [Copy(Pk(c), FALSE) EXCEPT
        !.qos = 0, !.retain = @ /\ Version(to) = 5 /\ \E sub \in target.subs : sub.asPublished,
        !.props = IF Identifiers(target) = <<>> THEN @
                  ELSE ("SubscriptionIdentifier" :> Identifiers(target)) @@ @]
\* A client that is gone or too slow does not get it.
Receives(c, to, target) ==
    /\ ~(Id(to) = Id(c) /\ \E sub \in target.subs : sub.noLocal)
    /\ conn[to].open /\ Len(pipe[to].queue) < MaximumClientWritesPending
publishToClient(c) ==
    \E target \in conn[c].targets :
       /\ At(c, "routing")
       /\ conn' = [conn EXCEPT ![c].targets = @ \ {target}]
       /\ IF target.id \notin DOMAIN clients THEN UNCHANGED pipe
          ELSE LET to == clients[target.id] IN
               \E allowed \in OnACLCheck(scenario.hooks, guard, Who(to), Pk(c).topic, FALSE) :
                  pipe' = IF allowed /\ Receives(c, to, target)
                          THEN [pipe EXCEPT ![to].queue = Append(@, Out(c, to, target))] ELSE pipe
       /\ UNCHANGED <<scenario, listener, clients, subs, guard>>
Routed(c) == /\ At(c, "routing") /\ conn[c].targets = {} /\ Goes(c, "reading")
             /\ UNCHANGED <<scenario, listener, clients, subs, guard, pipe>>
-------------------------------------------------------------------------------
(* Leaving, and what happens beside the goroutines *)

Leave(c) == /\ At(c, "leaving")
            /\ conn' = [conn EXCEPT ![c].at = "expiring", ![c].open = FALSE]
            /\ guard' = OnDisconnect(scenario.hooks, guard, Who(c))
            /\ UNCHANGED <<scenario, listener, clients, subs, pipe>>
Expires(c) == IF Version(c) = 5 THEN Property(Hello(c).props, "SessionExpiryInterval", 0) = 0
              ELSE Hello(c).connect.clean
Expire(c) == /\ At(c, "expiring") /\ Goes(c, "gone")
             /\ IF Expires(c) /\ ~conn[c].takenOver
                THEN subs' = subs \ OfId(Id(c)) /\ clients' = Restrict(clients, DOMAIN clients \ {Id(c)})
                ELSE UNCHANGED <<subs, clients>>
             /\ UNCHANGED <<scenario, listener, guard, pipe>>

HangUp(c) == /\ conn[c].open /\ c \in Counted /\ ~At(c, "new") /\ scenario.peers[c].hangsUp
             /\ conn' = [conn EXCEPT ![c].open = FALSE]
             /\ UNCHANGED <<scenario, listener, clients, subs, guard, pipe>>
TimeOut(c) == /\ c \in guard.auth.timers
              /\ guard' = [guard EXCEPT !.auth.timers = @ \ {c}]
              /\ conn' = [conn EXCEPT ![c].open = @ /\ ~TimesOut(guard.auth, Who(c))]
              /\ UNCHANGED <<scenario, listener, clients, subs, pipe>>
Second(ip) == /\ scenario.seconds > 0
              /\ scenario' = [scenario EXCEPT !.seconds = @ - 1]
              /\ guard' = [guard EXCEPT !.auth = SecondPasses(guard.auth, ip),
                                       !.trackers = TrackerResets(guard.trackers, ip)]
              /\ UNCHANGED <<listener, conn, clients, subs, pipe>>
-------------------------------------------------------------------------------
Establishing(c) ==
    \/ ReadConnect(c) \/ Busy(c) \/ Invalid(c) \/ Count(c) \/ Admit(c) \/ FilterAddress(c) \/ Authenticate(c)
    \/ Inherit(c) \/ SendConnack(c) \/ Established(c)
Handling(c) ==
    \/ Read(c) \/ ReadEnds(c) \/ Refuse(c) \/ processConnect(c) \/ processPingreq(c)
    \/ processAck(c) \/ processPubrec(c) \/ processPubrel(c) \/ Unexpected(c) \/ processAuth(c)
    \/ processDisconnect(c) \/ processSubscribe(c) \/ SubscribeNext(c) \/ SubscribeEnds(c)
    \/ processUnsubscribe(c) \/ PublishDenied(c) \/ processPublish(c) \/ Scan(c)
    \/ publishToClient(c) \/ Routed(c)
Accepting(c) == Accept(c) \/ Spawn(c) \/ EstablishConnection(c)
Closing == Close \/ GetByListener \/ CloseSocket \/ StopHooks
Beside(c) == Take(c) \/ Write(c) \/ HangUp(c) \/ TimeOut(c)
Next == \/ \E c \in Conn : Establishing(c) \/ Handling(c) \/ Leave(c) \/ Expire(c) \/ Beside(c)
        \/ ServeLoads \/ AcceptFails \/ \E c \in Conn : Accepting(c)
        \/ Closing \/ \E c \in Conn : ShutDown(c)
        \/ \E ip \in Ips(scenario) : Second(ip)

Spec == Init /\ [][Next]_vars
-------------------------------------------------------------------------------
(* Properties *)

\* The connections that OnConnect admitted and OnDisconnect has not yet let go
\* (auth_defense.go:115-183) never exceed the maximum, however their attempts,
\* refusals, failures and departures interleave.
Admitted == {c \in Counted : conn[c].at \notin {"new", "busy", "invalid", "counting", "admitting", "expiring"}}
ConcurrencyKept == "auth-defense" \in scenario.hooks => Cardinality(Admitted) <= MaxConcurrentConn

\* A token lets a client subscribe to wildcards while its SUBSCRIBE is handled
\* and no longer (wildcard_tokens.go:141-195): none outlives the last SUBSCRIBE
\* of its client id, also when connections of one id overlap.
TokenSpent == \A id \in DOMAIN guard.tokens : \E c \in Peers : Id(c) = id /\ At(c, "subscribing")

\* What the peers of a connection publish, as a subscriber of version v is to
\* read it: topic and payload, in MQTT 5 with the properties but for the alias
\* and with the identifiers of the subscriptions, at QoS 0.
Resolved(c, i) == LET named == {j \in 1..i : Script(c)[j].type = "Publish" /\ Script(c)[j].topic # ""}
                  IN IF Script(c)[i].topic = "" THEN Script(c)[FoldSet(LAMBDA j, m : IF j > m THEN j ELSE m, 0, named)].topic
                     ELSE Script(c)[i].topic
Published(c, i, v) ==
    [topic |-> Resolved(c, i), payload |-> Script(c)[i].payload,
     props |-> IF v = 5 THEN Restrict(Script(c)[i].props, DOMAIN Script(c)[i].props \ {"TopicAlias"}) ELSE NoProperties]
\* Every publish a client is sent is one that was published, as it was
\* published, each at most once and those of one publisher in their order
\* (server.go:1034-1124, clients.go:194-207, 526-657, packets.go:610-667), and
\* is no larger than the client allows.
Deliveries(c) == SelectSeq([i \in DOMAIN pipe[c].sent |-> Decode(pipe[c].sent[i], Version(c))],
                           LAMBDA pk : pk.type = "Publish")
Delivered(pk) == [topic |-> pk.topic, payload |-> pk.payload,
                  props |-> Restrict(pk.props, DOMAIN pk.props \ {"SubscriptionIdentifier"})]
Publishes(p) == {i \in 2..Len(Script(p)) : Script(p)[i].type = "Publish" /\ i < conn[p].next}
Source(c, pk) == {s \in UNION {{p} \X Publishes(p) : p \in Peers} : Published(s[1], s[2], Version(c)) = Delivered(pk)}
Forwarded ==
    \A c \in Peers :
       /\ \A i \in DOMAIN Deliveries(c) : Source(c, Deliveries(c)[i]) # {}
       /\ \A i, j \in DOMAIN Deliveries(c) :
             i < j => \A s \in Source(c, Deliveries(c)[i]), t \in Source(c, Deliveries(c)[j]) : s[1] = t[1] => s[2] < t[2]
       /\ Has(Hello(c).props, "MaximumPacketSize") =>
             \A i \in DOMAIN pipe[c].sent : FrameSize(pipe[c].sent[i]) <= Hello(c).props["MaximumPacketSize"]

\* The coalescing writer of a client keeps the order in which packets were
\* written to it by any goroutine, loses none, and keeps none back from an
\* open connection once nothing is left to write (clients.go:602-657).  A packet refused for its size is the
\* exception: it leaves what is gathered where it is (clients.go:598).
InOrderAndFlushed ==
    \A c \in Peers :
       /\ pipe[c].sent \o pipe[c].buffer = pipe[c].accepted
       /\ conn[c].open /\ ~Has(Hello(c).props, "MaximumPacketSize") =>
             pipe[c].buffer = <<>> \/ pipe[c].queue # <<>> \/ pipe[c].taken # <<>>

\* What a peer writes is what the broker reads (packets.go, properties.go),
\* whatever the type and the version, and the other way round every frame the
\* broker writes can be read and has a reason of its type (packets.go:794).
InVersion(pk, v) ==
    LET p == IF v = 5 \/ pk.type = "Auth" THEN Struct(pk.props) ELSE NoProperties
        identifier == IF Has(p, "SubscriptionIdentifier") THEN p["SubscriptionIdentifier"][1] ELSE 0
        option(sub) == IF v = 5 THEN sub ELSE Subscription(sub.filter, sub.qos, FALSE, FALSE, 0)
    IN [pk EXCEPT !.version = v, !.props = p,
           !.connect.willProps = IF v = 5 THEN @ ELSE NoProperties,
           !.filters = [i \in DOMAIN @ |-> [option(@[i]) EXCEPT !.identifier = identifier]],
           !.reason = IF pk.type \in AckTypes \cup {"Disconnect"} /\ v # 5 THEN 0 ELSE @,
           !.reasons = IF pk.type = "Unsuback" /\ v # 5 THEN <<>> ELSE @]
RoundTrip ==
    \A c \in Peers :
       /\ conn[c].at \in {"refusing"} \cup {Script(c)[i].type : i \in 2..Len(Script(c))} =>
             conn[c].pk = InVersion(Script(c)[conn[c].next - 1], Version(c))
       /\ At(c, "counting") => Hello(c) = InVersion(Script(c)[1], Version(c))
       /\ \A i \in DOMAIN pipe[c].sent :
             LET pk == Decode(pipe[c].sent[i], Version(c)) IN pk # Malformed /\ ReasonCodeValid(pk)
-------------------------------------------------------------------------------
(* What the code does not keep; README.md says how each one fails. *)

\* When Close has returned, no connection it accepted is open or served
\* (listeners.go:121-135, tcp.go:72-109).
AllEnded == listener.close = "stopped" => \A c \in Peers : At(c, "dialed") \/ At(c, "gone")

\* With every connection gone, none is counted (auth_defense.go:117-183).
ActiveBalanced == (\A c \in Peers : At(c, "gone")) => guard.auth.active = 0

\* A connection that is served has the state of its own authentication, and
\* is no longer timed (auth_defense.go:150-215).
OwnState == \A c \in Peers : At(c, "reading") /\ conn[c].open /\ "auth-defense" \in scenario.hooks =>
                c \notin guard.auth.timers /\ Id(c) \in DOMAIN guard.auth.states

\* Nothing gathered stays behind, whatever a client allows (clients.go:598).
AllFlushed == \A c \in Peers : conn[c].open /\ pipe[c].buffer # <<>> => pipe[c].queue # <<>> \/ pipe[c].taken # <<>>
===============================================================================
