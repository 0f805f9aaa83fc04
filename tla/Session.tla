------------------------------ MODULE Session ------------------------------
(***************************************************************************)
(* The life of ONE client id in the broker: the Clients map, the Client    *)
(* objects of successive connections, their subscriptions in the topics    *)
(* index and in State.Subscriptions, their stored messages and their       *)
(* wills.  Each connection is a goroutine that runs attachClient           *)
(* (broker/server.go): admission, inheritClientSession, the read loop, the *)
(* will and the clean-up.  One goroutine publishes to the session and the  *)
(* event loop expires sessions and sends delayed wills.                    *)
(*                                                                         *)
(* No lock spans these steps: the goroutine of a connection being taken    *)
(* over runs on while the new connection inherits.  Overlaps names the     *)
(* overlaps a run admits; the code forbids none of them.  The order in     *)
(* which messages are sent and acknowledged is QosFlow's; here a stored    *)
(* message is kept, delivered or lost.                                     *)
(***************************************************************************)
EXTENDS Integers, FiniteSets

CONSTANTS
  MaxConns,       \* bound: connections that present the client id
  Filters,        \* topic filters the client subscribes to, each matching every message
  Kinds,          \* the sessions its CONNECT packets may ask for (see AllKinds)
  Wills,          \* the wills they may carry
  MaxMsgs,        \* bound: messages published to the session
  MaximumClients, \* Capabilities.MaximumClients
  MayExpire,      \* may the event loop find a disconnected session expired
  Overlaps        \* what may overlap the handshake of a connection (see AllOverlaps)

\* Clean start or not, whether the session ends with the connection (session expiry 0,
\* or a clean MQTT 3 connection), and MQTT 3, where a clean session is never inherited.
AllKinds == {"stay", "fresh", "leave", "visit5", "visit3"}
CleanStart(k)  == k \in {"fresh", "visit5", "visit3"}
Expires(k)     == k \in {"leave", "visit5", "visit3"}
CleanVersion3(k) == k = "visit3"

\* Other handshakes; the clean-up of a connection whose session ends; a packet being
\* handled for the connection taken over; a publish.
AllOverlaps == {"handshake", "cleanup", "packet", "publish"}

ASSUME SessionAssumption ==
  /\ MaxConns \in Nat \ {0} /\ IsFiniteSet(Filters) /\ MaxMsgs \in Nat
  /\ MaximumClients \in Nat \ {0} /\ MayExpire \in BOOLEAN
  /\ Kinds \subseteq AllKinds /\ Wills \subseteq {"none", "now", "delayed"}
  /\ Overlaps \subseteq AllOverlaps

VARIABLES
  clients,   \* Server.Clients for this id: the connection registered, or 0
  index,     \* Server.Topics: the filters the id is subscribed to
  delayed,   \* loop.willDelayed for this id: whose will it is, or 0
  connected, \* Info.ClientsConnected
  at,        \* connection -> where its goroutine is in attachClient
  kind,      \* connection -> the session its CONNECT asked for
  open,      \* connection -> State.open: not Closed
  takenOver, \* connection -> State.isTakenOver
  subs,      \* connection -> State.Subscriptions
  stored,    \* connection -> messages in State.Inflight
  out,       \* connection -> messages in State.outbound
  will,      \* connection -> Properties.Will
  old,       \* connection -> the client inheritClientSession has found
  bag,       \* connection -> the filters its goroutine has in hand
  present,   \* connection -> session present, as told in its CONNACK
  route,     \* the publishing goroutine: the message and the client it has found
  loop,      \* the event loop: what it has read and not acted on yet
  session,   \* history: subscriptions the client was granted in its current session
  remembered, \* history: does the broker owe the client its session
  owed,      \* history: messages the session is owed
  got,       \* history: messages the client has received
  willSent,  \* history: connection -> times its will was published
  goodbye,   \* history: connections that ended with DISCONNECT
  faults     \* history: events that should not happen

server == <<clients, index, delayed, connected>>
client == <<kind, open, takenOver, subs, stored, out, will>>
local  == <<old, bag, present>>
history == <<session, remembered, owed, got, willSent, goodbye, faults>>
vars == <<server, at, client, local, route, loop, history>>

Conns == 1 .. MaxConns
Msgs  == 1 .. MaxMsgs

InHandshake == {"get", "kick", "takeSubs", "unindex", "clear", "mark",
                "markInherit", "clone", "resubscribe", "orphan", "forget",
                "add", "connack", "undelay", "resend"}
Established == {"top", "read", "subAdd", "subAck", "unsubDelete"}
InCleanup   == {"lwt", "noWill", "disconnected", "clearOwn", "takeOwn", "unindexOwn", "delete"}

Idle == [at |-> "idle", c |-> 0]

Init ==
  /\ clients = 0 /\ index = {} /\ delayed = 0 /\ connected = 0
  /\ at = [c \in Conns |-> "new"] /\ kind = [c \in Conns |-> "none"]
  /\ open = [c \in Conns |-> TRUE] /\ takenOver = [c \in Conns |-> FALSE]
  /\ subs = [c \in Conns |-> {}] /\ stored = [c \in Conns |-> {}] /\ out = [c \in Conns |-> {}]
  /\ will = [c \in Conns |-> "none"] /\ old = [c \in Conns |-> 0] /\ bag = [c \in Conns |-> {}]
  /\ present = [c \in Conns |-> FALSE]
  /\ route = [at |-> "idle", c |-> 0, m |-> 0] /\ loop = Idle
  /\ session = {} /\ remembered = FALSE /\ owed = {} /\ got = {}
  /\ willSent = [c \in Conns |-> 0] /\ goodbye = {} /\ faults = {}

Goes(c, from, to) == at[c] = from /\ at' = [at EXCEPT ![c] = to]
Others(c) == Conns \ {c}
Handshakes == {c \in Conns : at[c] \in InHandshake}

-----------------------------------------------------------------------------
(* Admission.                                                              *)

\* CONNECT is read and the number of clients tested; a hook or the validation may refuse.
Connect(c, k, w) ==
  /\ at[c] = "new" /\ \A d \in 1 .. c - 1 : at[d] # "new"
  /\ kind' = [kind EXCEPT ![c] = k] /\ will' = [will EXCEPT ![c] = w]
  /\ IF connected >= MaximumClients
     THEN /\ at' = [at EXCEPT ![c] = "gone"] /\ open' = [open EXCEPT ![c] = FALSE]
     ELSE /\ at' = [at EXCEPT ![c] = "authenticate"] /\ UNCHANGED open
  /\ UNCHANGED <<server, takenOver, subs, stored, out, local, route, loop, history>>

\* A refused connection returns before it is counted.
UncountedTwice == connected - 1
CountAfterRefusal == connected

Refuse(c) ==
  /\ Goes(c, "authenticate", "gone")
  /\ open' = [open EXCEPT ![c] = FALSE]
  /\ connected' = CountAfterRefusal
  /\ UNCHANGED <<clients, index, delayed, kind, takenOver, subs, stored, out, will, local, route, loop, history>>

Authenticate(c) ==
  /\ Goes(c, "authenticate", "get")
  /\ "handshake" \notin Overlaps => Handshakes = {}
  /\ "publish" \notin Overlaps => route.at = "idle"
  /\ "cleanup" \notin Overlaps =>
       \A d \in Others(c) : Expires(kind[d]) => at[d] \in {"new", "authenticate", "gone"}
  /\ connected' = connected + 1
  /\ UNCHANGED <<clients, index, delayed, client, local, route, loop, history>>

-----------------------------------------------------------------------------
(* inheritClientSession and the rest of the handshake.                      *)

GetExisting(c) ==
  /\ Goes(c, "get", IF clients = 0 THEN "add" ELSE "kick")
  /\ old' = [old EXCEPT ![c] = clients]
  /\ UNCHANGED <<server, client, bag, present, route, loop, history>>

Abandons(c) == CleanStart(kind[c]) \/ CleanVersion3(kind[old[c]])

\* DisconnectClient(existing, ErrSessionTakenOver).
LeftOpen(d) == open
Stopped(d) == [open EXCEPT ![d] = FALSE]

DisconnectExisting(c) ==
  /\ Goes(c, "kick", IF Abandons(c) THEN "takeSubs" ELSE "markInherit")
  /\ "packet" \notin Overlaps => at[old[c]] \notin Established \ {"read"}
  /\ open' = Stopped(old[c])
  /\ UNCHANGED <<server, kind, takenOver, subs, stored, out, will, local, route, loop, history>>

\* UnsubscribeClient(existing): its filters are taken from it and, unless it was taken
\* over, from the index.
TakeSubs(c) ==
  /\ Goes(c, "takeSubs", IF takenOver[old[c]] THEN "clear" ELSE "unindex")
  /\ bag' = [bag EXCEPT ![c] = IF takenOver[old[c]] THEN {} ELSE subs[old[c]]]
  /\ subs' = [subs EXCEPT ![old[c]] = {}]
  /\ UNCHANGED <<server, kind, open, takenOver, stored, out, will, old, present, route, loop,
                 history>>

KeptInIndex(c) == index
DroppedFromIndex(c) == index \ bag[c]

Unindex(c) ==
  /\ Goes(c, "unindex", "clear")
  /\ index' = DroppedFromIndex(c)
  /\ bag' = [bag EXCEPT ![c] = {}]
  /\ UNCHANGED <<clients, delayed, connected, client, old, present, route, loop, history>>

ClearExisting(c) ==
  /\ Goes(c, "clear", "mark")
  /\ stored' = [stored EXCEPT ![old[c]] = {}]
  /\ UNCHANGED <<server, kind, open, takenOver, subs, out, will, local, route, loop, history>>

\* "only set isTakenOver after unsubscribe has occurred"
MarkAbandoned(c) ==
  /\ Goes(c, "mark", "add")
  /\ takenOver' = [takenOver EXCEPT ![old[c]] = TRUE]
  /\ UNCHANGED <<server, kind, open, subs, stored, out, will, local, route, loop, history>>

MarkInherited(c) ==
  /\ Goes(c, "markInherit", "clone")
  /\ takenOver' = [takenOver EXCEPT ![old[c]] = TRUE]
  /\ UNCHANGED <<server, kind, open, subs, stored, out, will, local, route, loop, history>>

NothingCloned(c) == {}
Cloned(c) == stored[old[c]]

CloneInflight(c) ==
  /\ Goes(c, "clone", "resubscribe")
  /\ stored' = [stored EXCEPT ![c] = Cloned(c)]
  /\ UNCHANGED <<server, kind, open, takenOver, subs, out, will, local, route, loop, history>>

InheritSubs(c) ==
  /\ Goes(c, "resubscribe", "orphan")
  /\ index' = index \cup subs[old[c]]
  /\ subs' = [subs EXCEPT ![c] = subs[old[c]]]
  /\ UNCHANGED <<clients, delayed, connected, kind, open, takenOver, stored, out, will, local,
                 route, loop, history>>

\* UnsubscribeClient(existing) once more: taken over, it leaves the index alone.
OrphanedFromIndex(c) == index \ subs[old[c]]
LeftInIndex(c) == index

OrphanSubs(c) ==
  /\ Goes(c, "orphan", "forget")
  /\ index' = LeftInIndex(c)
  /\ subs' = [subs EXCEPT ![old[c]] = {}]
  /\ UNCHANGED <<clients, delayed, connected, kind, open, takenOver, stored, out, will, local,
                 route, loop, history>>

\* An inherited session is present even with nothing in it.
OnlyWithMessages(c) == stored[c] # {}
SessionPresent(c) == TRUE

ForgetInflight(c) ==
  /\ Goes(c, "forget", "add")
  /\ stored' = [stored EXCEPT ![old[c]] = {}]
  /\ present' = [present EXCEPT ![c] = SessionPresent(c)]
  /\ UNCHANGED <<server, kind, open, takenOver, subs, out, will, old, bag, route, loop, history>>

Register(c) ==
  /\ Goes(c, "add", "connack")
  /\ clients' = c
  /\ old' = [old EXCEPT ![c] = 0]
  /\ session' = IF CleanStart(kind[c]) THEN {} ELSE session
  /\ owed' = IF CleanStart(kind[c]) THEN {} ELSE owed
  /\ remembered' = (remembered /\ ~CleanStart(kind[c]))
  /\ UNCHANGED <<index, delayed, connected, client, bag, present, route, loop, got, willSent,
                 goodbye, faults>>

\* The client hears whether its session is present; without one it starts afresh.
SendConnack(c) ==
  /\ open[c]
  /\ Goes(c, "connack", "undelay")
  /\ faults' = IF remembered /\ ~present[c] THEN faults \cup {"session forgotten"} ELSE faults
  /\ session' = IF present[c] THEN session ELSE {}
  /\ owed' = IF present[c] THEN owed ELSE {}
  /\ remembered' = ~Expires(kind[c])
  /\ UNCHANGED <<server, client, local, route, loop, got, willSent, goodbye>>

\* A handshake that fails once the client is registered: attachClient returns at once.
HandshakeFails(c) ==
  /\ at[c] \in {"connack", "resend"}
  /\ at' = [at EXCEPT ![c] = "gone"]
  /\ open' = [open EXCEPT ![c] = FALSE]
  /\ connected' = connected - 1
  /\ UNCHANGED <<clients, index, delayed, kind, takenOver, subs, stored, out, will, local, route,
                 loop, history>>

\* The session's delayed will is dropped: the client is back.
UndelayWill(c) ==
  /\ Goes(c, "undelay", IF present[c] THEN "resend" ELSE "top")
  /\ delayed' = 0
  /\ UNCHANGED <<clients, index, connected, client, local, route, loop, history>>

ResendInflight(c) ==
  /\ open[c]
  /\ Goes(c, "resend", "top")
  /\ got' = got \cup stored[c]
  /\ UNCHANGED <<server, client, local, route, loop, session, remembered, owed,
                 willSent, goodbye, faults>>

-----------------------------------------------------------------------------
(* The read loop.                                                          *)

\* Read looks at Closed before each packet; a client it finds closed ends without error.
ReadTop(c) ==
  /\ Goes(c, "top", IF open[c] THEN "read" ELSE "noWill")
  /\ UNCHANGED <<server, client, local, route, loop, history>>

\* The connection is lost, times out or was closed; or the client asked for its will.
ReadFails(c) ==
  /\ Goes(c, "read", "lwt")
  /\ UNCHANGED <<server, client, local, route, loop, history>>

\* A packet already buffered is handled even after Stop.
Receives(c) == open[c] \/ "packet" \in Overlaps

Subscribe(c, f) ==
  /\ Receives(c) /\ Goes(c, "read", "subAdd")
  /\ index' = index \cup {f}
  /\ bag' = [bag EXCEPT ![c] = {f}]
  /\ UNCHANGED <<clients, delayed, connected, client, old, present, route, loop, history>>

AddSubscription(c) ==
  /\ Goes(c, "subAdd", "subAck")
  /\ subs' = [subs EXCEPT ![c] = @ \cup bag[c]]
  /\ UNCHANGED <<server, kind, open, takenOver, stored, out, will, local, route, loop, history>>

AckSubscribe(c) ==
  /\ \/ /\ open[c] /\ Goes(c, "subAck", "top")
        /\ session' = session \cup bag[c]
     \/ /\ Goes(c, "subAck", "lwt")  \* the SUBACK cannot be written
        /\ UNCHANGED session
  /\ bag' = [bag EXCEPT ![c] = {}]
  /\ UNCHANGED <<server, client, old, present, route, loop, remembered, owed, got, willSent, goodbye,
                 faults>>

Unsubscribe(c, f) ==
  /\ Receives(c) /\ Goes(c, "read", "unsubDelete")
  /\ index' = index \ {f}
  /\ bag' = [bag EXCEPT ![c] = {f}]
  /\ session' = session \ {f}
  /\ UNCHANGED <<clients, delayed, connected, client, old, present, route, loop, remembered,
                 owed, got, willSent, goodbye, faults>>

DeleteSubscription(c) ==
  /\ Goes(c, "unsubDelete", "top")
  /\ subs' = [subs EXCEPT ![c] = @ \ bag[c]]
  /\ bag' = [bag EXCEPT ![c] = {}]
  /\ UNCHANGED <<server, kind, open, takenOver, stored, out, will, old, present, route, loop,
                 history>>

Puback(c, m) ==
  /\ Receives(c) /\ m \in stored[c] \cap got
  /\ Goes(c, "read", "top")
  /\ stored' = [stored EXCEPT ![c] = @ \ {m}]
  /\ UNCHANGED <<server, kind, open, takenOver, subs, out, will, local, route, loop, history>>

\* DISCONNECT may shorten the session to the connection, never prolong it.
Shortened(k) == CASE k = "stay" -> {"stay", "leave"} [] k = "fresh" -> {"fresh", "visit5"}
                  [] OTHER -> {k}

Disconnect(c, k) ==
  /\ Receives(c) /\ k \in Shortened(kind[c])
  /\ "cleanup" \notin Overlaps /\ Handshakes # {} => ~Expires(k)
  /\ Goes(c, "read", "top")
  /\ kind' = [kind EXCEPT ![c] = k]
  /\ delayed' = 0
  /\ open' = [open EXCEPT ![c] = FALSE]
  /\ goodbye' = goodbye \cup {c}
  /\ UNCHANGED <<clients, index, connected, takenOver, subs, stored, out, will, local, route,
                 loop, session, remembered, owed, got, willSent, faults>>

-----------------------------------------------------------------------------
(* The will and the clean-up.                                              *)

FlagKept(w) == w
FlagReset(w) == IF w = "now" THEN "none" ELSE w

\* sendLWT: a will without delay is published, a delayed one is left to the event loop.
IssueWill(c) ==
  /\ willSent' = IF will[c] = "now" THEN [willSent EXCEPT ![c] = @ + 1] ELSE willSent
  /\ delayed' = IF will[c] = "delayed" THEN c ELSE delayed
  /\ will' = [will EXCEPT ![c] = FlagReset(@)]

SendLWT(c) ==
  /\ Goes(c, "lwt", "disconnected")
  /\ IssueWill(c)
  /\ open' = [open EXCEPT ![c] = FALSE]
  /\ UNCHANGED <<clients, index, connected, kind, takenOver, subs, stored, out, local, route,
                 loop, session, remembered, owed, got, goodbye, faults>>

\* A second CONNECT issues the will before the protocol error issues it again.
SecondConnect(c) ==
  /\ Receives(c) /\ Goes(c, "read", "lwt")
  /\ IssueWill(c)
  /\ UNCHANGED <<clients, index, connected, kind, open, takenOver, subs, stored, out, local,
                 route, loop, session, remembered, owed, got, goodbye, faults>>

DropWill(c) ==
  /\ Goes(c, "noWill", "disconnected")
  /\ will' = [will EXCEPT ![c] = "none"]
  /\ faults' = IF will[c] # "none" /\ c \notin goodbye THEN faults \cup {"will dropped"}
               ELSE faults
  /\ UNCHANGED <<server, kind, open, takenOver, subs, stored, out, local, route, loop, session,
                 remembered, owed, got, willSent, goodbye>>

EndsSession(c) == Expires(kind[c]) /\ ~takenOver[c]

\* Whether the session ends here is decided once, before it is taken apart.
OnDisconnect(c) ==
  \/ /\ EndsSession(c) /\ Goes(c, "disconnected", "clearOwn")
     /\ session' = {} /\ owed' = {} /\ remembered' = FALSE
     /\ UNCHANGED <<server, client, local, route, loop, got, willSent, goodbye, faults>>
  \/ /\ ~EndsSession(c) /\ Goes(c, "disconnected", "gone")
     /\ connected' = connected - 1
     /\ UNCHANGED <<clients, index, delayed, client, local, route, loop, history>>

ClearOwn(c) ==
  /\ Goes(c, "clearOwn", "takeOwn")
  /\ stored' = [stored EXCEPT ![c] = {}]
  /\ UNCHANGED <<server, kind, open, takenOver, subs, out, will, local, route, loop, history>>

TakeOwnSubs(c) ==
  /\ Goes(c, "takeOwn", IF takenOver[c] THEN "delete" ELSE "unindexOwn")
  /\ bag' = [bag EXCEPT ![c] = IF takenOver[c] THEN {} ELSE subs[c]]
  /\ subs' = [subs EXCEPT ![c] = {}]
  /\ UNCHANGED <<server, kind, open, takenOver, stored, out, will, old, present, route, loop,
                 history>>

UnindexOwn(c) ==
  /\ Goes(c, "unindexOwn", "delete")
  /\ index' = DroppedFromIndex(c)
  /\ bag' = [bag EXCEPT ![c] = {}]
  /\ UNCHANGED <<clients, delayed, connected, client, old, present, route, loop, history>>

\* Clients.Delete(id): whichever client is registered.
Delete(c) ==
  /\ Goes(c, "delete", "gone")
  /\ clients' = 0
  /\ connected' = connected - 1
  /\ UNCHANGED <<index, delayed, client, local, route, loop, history>>

-----------------------------------------------------------------------------
(* A publish: publishToSubscribers and WriteLoop.                           *)

MatchSubscribers ==
  /\ route.at = "idle" /\ route.m < MaxMsgs
  /\ "publish" \notin Overlaps => Handshakes = {}
  /\ route' = [at |-> IF index = {} THEN "idle" ELSE "get", c |-> 0, m |-> route.m + 1]
  /\ UNCHANGED <<server, at, client, local, loop, history>>

GetSubscriber ==
  /\ route.at = "get"
  /\ route' = [route EXCEPT !.at = IF clients = 0 THEN "idle" ELSE "publish", !.c = clients]
  /\ UNCHANGED <<server, at, client, local, loop, history>>

PublishToClient ==
  /\ route.at = "publish"
  /\ route' = [route EXCEPT !.at = "idle", !.c = 0]
  /\ stored' = [stored EXCEPT ![route.c] = @ \cup {route.m}]
  /\ out' = IF open[route.c] THEN [out EXCEPT ![route.c] = @ \cup {route.m}] ELSE out
  /\ owed' = IF remembered THEN owed \cup {route.m} ELSE owed
  /\ UNCHANGED <<server, at, kind, open, takenOver, subs, will, local, loop, session, remembered,
                 got, willSent, goodbye, faults>>

WriteLoop(c, m) ==
  /\ open[c] /\ m \in out[c]
  /\ out' = [out EXCEPT ![c] = @ \ {m}]
  /\ got' = got \cup {m}
  /\ faults' = IF at[c] = "connack" THEN faults \cup {"publish before connack"} ELSE faults
  /\ UNCHANGED <<server, at, kind, open, takenOver, subs, stored, will, local, route, loop,
                 session, remembered, owed, willSent, goodbye>>

-----------------------------------------------------------------------------
(* The event loop.                                                         *)

\* clearExpiredClients copies the map, tests a client, and then deletes by id.
FindExpired ==
  /\ MayExpire /\ loop = Idle /\ clients # 0 /\ ~open[clients]
  /\ loop' = [at |-> "expire", c |-> clients]
  /\ UNCHANGED <<server, at, client, local, route, history>>

DeleteExpired ==
  /\ loop.at = "expire"
  /\ loop' = Idle
  /\ clients' = 0
  /\ IF clients = loop.c
     THEN session' = {} /\ owed' = {} /\ remembered' = FALSE
     ELSE UNCHANGED <<session, owed, remembered>>
  /\ UNCHANGED <<index, delayed, connected, at, client, local, route, got, willSent, goodbye,
                 faults>>

\* sendDelayedLWT copies the map, publishes the wills that are due, blanks the will of
\* the client registered by then, and deletes by id.  A delay outlasts a handler.
FindDueWill ==
  /\ loop = Idle /\ delayed # 0 /\ at[delayed] # "lwt"
  /\ loop' = [at |-> "will", c |-> delayed]
  /\ UNCHANGED <<server, at, client, local, route, history>>

SendDelayedLWT ==
  /\ loop.at = "will"
  /\ loop' = [loop EXCEPT !.at = "willSent"]
  /\ willSent' = [willSent EXCEPT ![loop.c] = @ + 1]
  /\ will' = IF clients = 0 THEN will ELSE [will EXCEPT ![clients] = "none"]
  /\ faults' = faults
       \cup (IF \E d \in Conns : d > loop.c /\ open[d] /\ at[d] \in Established
             THEN {"will of a client that is back"} ELSE {})
       \cup (IF clients \notin {0, loop.c} /\ will[clients] # "none"
             THEN {"will wiped"} ELSE {})
  /\ UNCHANGED <<server, at, kind, open, takenOver, subs, stored, out, local, route, session,
                 remembered, owed, got, goodbye>>

DeleteSentWill ==
  /\ loop.at = "willSent"
  /\ loop' = Idle
  /\ delayed' = 0
  /\ UNCHANGED <<clients, index, connected, at, client, local, route, history>>

-----------------------------------------------------------------------------
Handshake(c) ==
  \/ Refuse(c) \/ Authenticate(c) \/ GetExisting(c) \/ DisconnectExisting(c)
  \/ TakeSubs(c) \/ Unindex(c) \/ ClearExisting(c) \/ MarkAbandoned(c)
  \/ MarkInherited(c) \/ CloneInflight(c) \/ InheritSubs(c) \/ OrphanSubs(c)
  \/ ForgetInflight(c) \/ Register(c) \/ SendConnack(c) \/ HandshakeFails(c)
  \/ UndelayWill(c) \/ ResendInflight(c)

\* The client's packets: nobody has to send them.
ClientPacket(c) ==
  \/ \E f \in Filters : Subscribe(c, f) \/ Unsubscribe(c, f)
  \/ \E m \in Msgs : Puback(c, m)
  \/ \E k \in AllKinds : Disconnect(c, k)
  \/ SecondConnect(c)

Attached(c) ==
  \/ ReadTop(c) \/ AddSubscription(c) \/ AckSubscribe(c) \/ DeleteSubscription(c)
  \/ SendLWT(c) \/ DropWill(c) \/ OnDisconnect(c)
  \/ ClearOwn(c) \/ TakeOwnSubs(c) \/ UnindexOwn(c) \/ Delete(c)

EventLoop == FindExpired \/ DeleteExpired \/ FindDueWill \/ SendDelayedLWT \/ DeleteSentWill

Next ==
  \/ \E c \in Conns :
       \/ \E k \in Kinds, w \in Wills : Connect(c, k, w)
       \/ Handshake(c) \/ Attached(c) \/ ReadFails(c) \/ ClientPacket(c)
       \/ \E m \in Msgs : WriteLoop(c, m)
  \/ MatchSubscribers \/ GetSubscriber \/ PublishToClient
  \/ EventLoop

Spec == Init /\ [][Next]_vars

\* Goroutines run, and reading from a closed connection fails.  A live connection need
\* not end and no client has to come.
FairSpec ==
  /\ Spec
  /\ \A c \in Conns : /\ WF_vars(Handshake(c)) /\ WF_vars(Attached(c))
                      /\ WF_vars(~open[c] /\ ReadFails(c))
  /\ WF_vars(EventLoop)

-----------------------------------------------------------------------------
(* What a session promises.                                                *)

\* Every variable holds a value of its kind.
TypeOK ==
  /\ clients \in 0 .. MaxConns /\ delayed \in 0 .. MaxConns /\ index \subseteq Filters
  /\ connected \in 0 .. MaxConns
  /\ at \in [Conns -> {"new", "authenticate", "gone"} \cup InHandshake \cup Established
                      \cup InCleanup]
  /\ kind \in [Conns -> AllKinds \cup {"none"}]
  /\ open \in [Conns -> BOOLEAN] /\ takenOver \in [Conns -> BOOLEAN]
  /\ subs \in [Conns -> SUBSET Filters] /\ bag \in [Conns -> SUBSET Filters]
  /\ stored \in [Conns -> SUBSET Msgs] /\ out \in [Conns -> SUBSET Msgs]
  /\ will \in [Conns -> {"none", "now", "delayed"}]
  /\ old \in [Conns -> 0 .. MaxConns] /\ present \in [Conns -> BOOLEAN]
  /\ route \in [at : {"idle", "get", "publish"}, c : 0 .. MaxConns, m : 0 .. MaxMsgs]
  /\ loop \in [at : {"idle", "expire", "will", "willSent"}, c : 0 .. MaxConns]
  /\ session \subseteq Filters /\ remembered \in BOOLEAN
  /\ owed \subseteq Msgs /\ got \subseteq Msgs
  /\ willSent \in [Conns -> Nat] /\ goodbye \subseteq Conns

\* No handshake, clean-up or subscription is under way.
Settled ==
  /\ \A c \in Conns : at[c] \in {"new", "authenticate", "top", "read", "gone"}
  /\ loop = Idle /\ route.at = "idle"

\* A live connection is the only live one and the one messages are routed to.
LiveIsRegistered ==
  Settled => \A c \in Conns : at[c] \in Established /\ open[c] => clients = c

\* What the index routes to the id is what the registered client believes it has
\* subscribed to: nothing is left behind by takeovers, clean starts and ended sessions.
IndexIsOwned == Settled => index = IF clients = 0 THEN {} ELSE subs[clients]

\* Subscriptions granted in a session outlive the connection, whoever takes it over.
SessionKept == Settled => session \subseteq index

\* A client whose session the broker must keep is never told that it has none.
SessionRemembered == "session forgotten" \notin faults

\* A message stored for a session stays until the client has it, through takeovers.
NoMessageLost ==
  Settled => \A m \in owed : m \in got \/ (clients # 0 /\ m \in stored[clients])

\* A connection's will is published at most once, and never after DISCONNECT.
WillOnce ==
  \A c \in Conns : willSent[c] <= (IF c \in goodbye THEN 0 ELSE 1)

\* CONNACK is the first packet a client receives [MQTT-3.2.0-1].
\* (Does not hold: README, disagreements.)
ConnackFirst == "publish before connack" \notin faults

\* A will is dropped only for a client that said DISCONNECT [MQTT-3.1.2-8].
\* (Does not hold: README, disagreements.)
WillNotDropped == "will dropped" \notin faults

\* A delayed will is not published once the client is back [MQTT-3.1.3-9].
\* (Does not hold: README, disagreements.)
WillOnlyIfAway == "will of a client that is back" \notin faults

\* Publishing an old delayed will leaves the will of the new connection alone.
\* (Does not hold: README, disagreements.)
WillNotWiped == "will wiped" \notin faults

\* Never more connected clients than MaximumClients.
\* (Does not hold: README, disagreements.)
ClientsCap == connected <= MaximumClients

\* The goroutine of a connection that was taken over ends.
TakenOverEnds == \A c \in Conns : takenOver[c] ~> at[c] = "gone"
=============================================================================
