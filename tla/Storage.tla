------------------------------- MODULE Storage -------------------------------
(***************************************************************************)
(* What the broker remembers over a crash: the storage hook's callbacks,   *)
(* made by the handlers of broker/server.go one write at a time, a crash   *)
(* between any two of them, and readStore at the next start.               *)
(*                                                                         *)
(* A handler changes the broker's memory when it starts (what other        *)
(* goroutines see of that is in Session and QosFlow) and leaves on todo    *)
(* the writes it still has to make and, in their place among them, what it *)
(* tells the client.  One of the four hooks is in use.                     *)
(***************************************************************************)
EXTENDS StorageRecords, FiniteSets, SequencesExt

CONSTANTS Ids, Filters, Pids, Topics, Payloads,
          Kinds,        \* What CONNECT may ask for: [v5, clean, expiry, will].
          Backends, Modes,   \* Hooks, and whether pebble's mode is Sync.
          Scenarios,    \* Sets of activities, one of which may happen.
          MaxConnects, MaxCrashes, MaxTicks, MaxLog   \* Bounds.

\* "overlap": handlers of one client overlap; "refuse": a subscription is
\* refused; "fail": a write fails; "expire": a session or message expires.
Activities == {"subscribe", "message", "retain", "tick", "expire",
               "overlap", "refuse", "fail"}

Empty == ""   \* An empty payload, which clears a retained message.

ASSUME Parameters ==
    /\ Backends \subseteq {"bolt", "badger", "pebble", "redis"}
    /\ Modes \subseteq BOOLEAN /\ Scenarios \subseteq SUBSET Activities
    /\ Empty \notin Payloads /\ 0 \notin Pids
    /\ {MaxConnects, MaxCrashes, MaxTicks, MaxLog} \subseteq Nat

VARIABLES
    backend, sync,   \* The hook in use; whether a write is on disk at once.
    admitted,        \* The activities of this behaviour.
    db, log,         \* The store, and the writes not yet on its disk.
    up,              \* Whether the broker runs.
    client,          \* Server.Clients: the registered client of an id.
    takenOver,       \* CONNECT of a connection taken over that has not ended.
    index, retained, gauge,   \* Topics; Info.Subscriptions.
    todo,            \* What each goroutine still has to write and to say.
    connects, crashes, ticks, \* Counted for the bounds.
    due, may,        \* Filters the client holds a SUBACK for; may expect.
    owed,            \* Packet ids sent to the client and not acknowledged.
    orphaned,        \* Ids whose session ended without UnsubscribeClient.
    stale,           \* Ids whose record a taken-over connection has written.
    cut              \* Whether a crash lost writes that were not on disk.

memory == <<client, takenOver, index, retained, gauge>>
ghosts == <<due, may, owed, orphaned, stale, cut>>
bounds == <<connects, crashes, ticks>>
fixed == <<backend, sync, admitted>>
vars == <<fixed, db, log, up, memory, todo, bounds, ghosts>>

Bolt == INSTANCE BoltStore
Badger == INSTANCE BadgerStore
Pebble == INSTANCE PebbleStore
Redis == INSTANCE RedisStore

By(bolt, badger, pebble, redis) ==
    CASE backend = "bolt" -> bolt [] backend = "badger" -> badger
      [] backend = "pebble" -> pebble [] backend = "redis" -> redis

OnSessionEstablished(cl) ==
    By(Bolt!OnSessionEstablished(cl), Badger!OnSessionEstablished(cl),
       Pebble!OnSessionEstablished(cl), Redis!OnSessionEstablished(cl))
OnWillSent(cl) ==
    By(Bolt!OnWillSent(cl), Badger!OnWillSent(cl),
       Pebble!OnWillSent(cl), Redis!OnWillSent(cl))
OnDisconnect(cl, expire, taken) ==
    By(Bolt!OnDisconnect(cl, expire, taken), Badger!OnDisconnect(cl, expire, taken),
       Pebble!OnDisconnect(cl, expire, taken), Redis!OnDisconnect(cl, expire, taken))
OnSubscribed(cl, fs, codes) ==
    By(Bolt!OnSubscribed(cl, fs, codes), Badger!OnSubscribed(cl, fs, codes),
       Pebble!OnSubscribed(cl, fs, codes), Redis!OnSubscribed(cl, fs, codes))
OnUnsubscribed(cl, fs) ==
    By(Bolt!OnUnsubscribed(cl, fs), Badger!OnUnsubscribed(cl, fs),
       Pebble!OnUnsubscribed(cl, fs), Redis!OnUnsubscribed(cl, fs))
OnRetainMessage(t, p, r) ==
    By(Bolt!OnRetainMessage(t, p, r), Badger!OnRetainMessage(t, p, r),
       Pebble!OnRetainMessage(t, p, r), Redis!OnRetainMessage(t, p, r))
OnRetainedExpired(t) ==
    By(Bolt!OnRetainedExpired(t), Badger!OnRetainedExpired(t),
       Pebble!OnRetainedExpired(t), Redis!OnRetainedExpired(t))
OnQosPublish(cl, pid) ==
    By(Bolt!OnQosPublish(cl, pid), Badger!OnQosPublish(cl, pid),
       Pebble!OnQosPublish(cl, pid), Redis!OnQosPublish(cl, pid))
OnQosComplete(cl, pid) ==
    By(Bolt!OnQosComplete(cl, pid), Badger!OnQosComplete(cl, pid),
       Pebble!OnQosComplete(cl, pid), Redis!OnQosComplete(cl, pid))
OnQosDropped(cl, pid) ==
    By(Bolt!OnQosDropped(cl, pid), Badger!OnQosDropped(cl, pid),
       Pebble!OnQosDropped(cl, pid), Redis!OnQosDropped(cl, pid))
OnSysInfoTick(n) ==
    By(Bolt!OnSysInfoTick(n), Badger!OnSysInfoTick(n),
       Pebble!OnSysInfoTick(n), Redis!OnSysInfoTick(n))
OnClientExpired(cl) ==
    By(Bolt!OnClientExpired(cl), Badger!OnClientExpired(cl),
       Pebble!OnClientExpired(cl), Redis!OnClientExpired(cl))

StoredClients == By(Bolt!StoredClients(db), Badger!StoredClients(db),
                    Pebble!StoredClients(db), Redis!StoredClients(db))
StoredSubscriptions ==
    By(Bolt!StoredSubscriptions(db), Badger!StoredSubscriptions(db),
       Pebble!StoredSubscriptions(db), Redis!StoredSubscriptions(db))
StoredRetainedMessages ==
    By(Bolt!StoredRetainedMessages(db), Badger!StoredRetainedMessages(db),
       Pebble!StoredRetainedMessages(db), Redis!StoredRetainedMessages(db))
StoredInflightMessages ==
    By(Bolt!StoredInflightMessages(db), Badger!StoredInflightMessages(db),
       Pebble!StoredInflightMessages(db), Redis!StoredInflightMessages(db))
StoredSysInfo == By(Bolt!StoredSysInfo(db), Badger!StoredSysInfo(db),
                    Pebble!StoredSysInfo(db), Redis!StoredSysInfo(db))
-----------------------------------------------------------------------------
(* Sessions and goroutines. *)

NoClient == [open |-> FALSE]
Registered(id) == client[id] # NoClient
Cl(id, props) == [id |-> id, props |-> props]

\* Whether a session ends with its connection (attachClient, loadClients).
Expires(props) == IF props.v5 THEN props.expiry = 0 ELSE props.clean

\* Whether an existing session is abandoned (inheritClientSession).
Abandons(existing, props) == props.clean \/ (existing.clean /\ ~existing.v5)

SubsOf(id) == {f \in Filters : <<id, f>> \in index}

\* Goroutines: a client's connection, one that was taken over from it, the
\* connection of a publisher, and the event loop (readStore before it).
Goroutines == Ids \X {"conn", "old"} \cup {<<<<>>, "pub">>, <<<<>>, "loop">>}
Pub == <<<<>>, "pub">>
Loop == <<<<>>, "loop">>

Idle(g) == todo[g] = <<>>
Started == up /\ Idle(Loop)

\* A handler starts when its goroutine is free and, unless overlaps are
\* admitted, no other handler is under way but a taken-over connection's end.
Free(g) ==
    /\ Started /\ Idle(g)
    /\ \/ "overlap" \in admitted
       \/ \A h \in Goroutines : h[2] # "old" => Idle(h)

Starts(g, items) == todo' = [todo EXCEPT ![g] = items]

Say(what, id, x) == [op |-> what, id |-> id, about |-> x]

Each(Callback(_), set) == FlattenSeq([i \in 1..Cardinality(set) |-> Callback(SetToSeq(set)[i])])

Init ==
    /\ backend \in Backends
    /\ sync \in IF backend = "pebble" THEN Modes ELSE {TRUE}
    /\ admitted \in Scenarios
    /\ db = <<>> /\ log = <<>> /\ up = TRUE
    /\ client = [id \in Ids |-> NoClient]
    /\ takenOver = [id \in Ids |-> {}]
    /\ index = {} /\ retained = <<>> /\ gauge = 0
    /\ todo = [g \in Goroutines |-> <<>>]
    /\ connects = 0 /\ crashes = 0 /\ ticks = 0
    /\ due = [id \in Ids |-> {}] /\ may = due /\ owed = due
    /\ orphaned = {} /\ stale = {} /\ cut = FALSE
-----------------------------------------------------------------------------
(* The connection of a client. *)

\* inheritClientSession on a clean start: UnsubscribeClient, then
\* ClearInflights of the existing client.
KeepsSubscriptions(id, existing) ==   \* a mutant
    Each(LAMBDA p : OnQosDropped(Cl(id, existing.props), p), existing.inflight)
AbandonWrites(id, existing) ==
    OnUnsubscribed(Cl(id, existing.props), SetToSeq(existing.subs))
        \o Each(LAMBDA p : OnQosDropped(Cl(id, existing.props), p), existing.inflight)

\* ... on a takeover: the subscriptions stay (isTakenOver is set), the
\* in-flight messages are dropped, and stored again as they are resent.
InheritWrites(id, existing) ==
    Each(LAMBDA p : OnQosDropped(Cl(id, existing.props), p), existing.inflight)
ResendsOnly(id, props, pids) == <<>>   \* a mutant
ResendWrites(id, props, pids) == Each(LAMBDA p : OnQosPublish(Cl(id, props), p), pids)

\* attachClient up to OnSessionEstablished.  The goroutine of an open
\* connection goes on as one that was taken over.
EstablishSession(id, props) ==
    LET existing == client[id]
        fresh == ~Registered(id)
        abandons == ~fresh /\ Abandons(existing.props, props)
        present == ~fresh /\ ~abandons
        kept == IF present THEN existing.inflight ELSE {}
        before == IF fresh THEN <<>>
                  ELSE IF abandons THEN AbandonWrites(id, existing)
                  ELSE InheritWrites(id, existing)
    IN
    /\ connects < MaxConnects /\ connects' = connects + 1
    /\ Free(<<id, "conn">>)
    /\ Registered(id) /\ existing.open => takenOver[id] = {}
    /\ takenOver' = [takenOver EXCEPT ![id] =
                        IF Registered(id) /\ existing.open THEN {existing.props} ELSE @]
    /\ client' = [client EXCEPT ![id] =
                    [open |-> TRUE, props |-> props, inflight |-> kept,
                     subs |-> IF present THEN existing.subs ELSE {}]]
    /\ index' = IF abandons THEN index \ ({id} \X existing.subs) ELSE index
    /\ gauge' = IF abandons THEN gauge - Cardinality(SubsOf(id) \cap existing.subs) ELSE gauge
    /\ Starts(<<id, "conn">>,
              before \o <<Say("connack", id, present)>>
                     \o ResendWrites(id, props, kept)
                     \o OnSessionEstablished(Cl(id, props)))
    /\ due' = [due EXCEPT ![id] = IF present THEN @ ELSE {}]
    /\ owed' = [owed EXCEPT ![id] = IF present THEN @ ELSE {}]
    /\ UNCHANGED <<fixed, db, log, up, retained, crashes, ticks, may, orphaned, stale, cut>>

\* The end of a session that ends with its connection: ClearInflights,
\* UnsubscribeClient and Clients.Delete.
DropsNothing(id, cl) == OnUnsubscribed(Cl(id, cl.props), SetToSeq(cl.subs))   \* a mutant
EndWrites(id, cl) ==
    Each(LAMBDA p : OnQosDropped(Cl(id, cl.props), p), cl.inflight)
        \o OnUnsubscribed(Cl(id, cl.props), SetToSeq(cl.subs))

\* The tail of attachClient on a live connection: a lost one issues the will.
\* The will is cleared either way before OnDisconnect.
EndConnection(id, lost) ==
    LET cl == client[id]
        away == [cl.props EXCEPT !.will = FALSE]
        expire == Expires(cl.props)
    IN
    /\ Free(<<id, "conn">>) /\ Registered(id) /\ cl.open
    /\ client' = [client EXCEPT ![id] =
                    IF expire THEN NoClient ELSE [@ EXCEPT !.open = FALSE, !.props = away]]
    /\ index' = IF expire THEN index \ ({id} \X cl.subs) ELSE index
    /\ gauge' = IF expire THEN gauge - Cardinality(SubsOf(id) \cap cl.subs) ELSE gauge
    /\ Starts(<<id, "conn">>,
              (IF lost /\ cl.props.will THEN OnWillSent(Cl(id, away)) ELSE <<>>)
                 \o OnDisconnect(Cl(id, away), expire, FALSE)
                 \o (IF expire THEN EndWrites(id, cl) \o <<Say("ended", id, {})>> ELSE <<>>))
    /\ due' = [due EXCEPT ![id] = IF expire THEN {} ELSE @]
    /\ owed' = [owed EXCEPT ![id] = IF expire THEN {} ELSE @]
    /\ UNCHANGED <<fixed, db, log, up, takenOver, retained, bounds, may, orphaned, stale, cut>>

\* The tail of attachClient on a connection that was taken over: its client
\* has neither subscriptions nor messages left, and isTakenOver is set.
EndTakenOver(id, lost) ==
    \E props \in takenOver[id] :
      LET away == [props EXCEPT !.will = FALSE]
          writes == (IF lost /\ props.will THEN OnWillSent(Cl(id, away)) ELSE <<>>)
                       \o OnDisconnect(Cl(id, away), Expires(props), TRUE)
      IN
      /\ Started /\ Idle(<<id, "old">>)
      /\ takenOver' = [takenOver EXCEPT ![id] = {}]
      /\ Starts(<<id, "old">>, writes)
      /\ stale' = IF \E i \in DOMAIN writes : writes[i].op = "put"
                   THEN stale \cup {id} ELSE stale
      /\ UNCHANGED <<fixed, db, log, up, client, index, retained, gauge, bounds,
                     due, may, owed, orphaned, cut>>
-----------------------------------------------------------------------------
(* Packets of a client, and messages for it. *)

\* processSubscribe: OnSubscribed is told of every filter, refused ones too,
\* before the SUBACK is written.
AcksFirst(cl, f, granted) ==   \* a mutant
    <<Say("suback", cl.id, f)>> \o OnSubscribed(cl, <<f>>, <<IF granted THEN 0 ELSE 128>>)
SubscribeWrites(cl, f, granted) ==
    OnSubscribed(cl, <<f>>, <<IF granted THEN 0 ELSE 128>>)
        \o (IF granted THEN <<Say("suback", cl.id, f)>> ELSE <<>>)

Subscribe(id, f, granted) ==
    LET cl == client[id] IN
    /\ "subscribe" \in admitted
    /\ Free(<<id, "conn">>) /\ Registered(id) /\ cl.open
    /\ IF granted
       THEN /\ client' = [client EXCEPT ![id].subs = @ \cup {f}]
            /\ index' = index \cup {<<id, f>>}
            /\ gauge' = gauge + (IF <<id, f>> \in index THEN 0 ELSE 1)
            /\ may' = [may EXCEPT ![id] = @ \cup {f}]
       ELSE UNCHANGED <<client, index, gauge, may>>
    /\ Starts(<<id, "conn">>, SubscribeWrites(Cl(id, cl.props), f, granted))
    /\ UNCHANGED <<fixed, db, log, up, takenOver, retained, bounds, due, owed, orphaned, stale, cut>>

\* processUnsubscribe.
Unsubscribe(id, f) ==
    LET cl == client[id] IN
    /\ Free(<<id, "conn">>) /\ Registered(id) /\ cl.open /\ f \in cl.subs
    /\ client' = [client EXCEPT ![id].subs = @ \ {f}]
    /\ index' = index \ {<<id, f>>}
    /\ gauge' = gauge - (IF <<id, f>> \in index THEN 1 ELSE 0)
    /\ due' = [due EXCEPT ![id] = @ \ {f}]
    /\ Starts(<<id, "conn">>,
              OnUnsubscribed(Cl(id, cl.props), <<f>>) \o <<Say("unsuback", id, f)>>)
    /\ UNCHANGED <<fixed, db, log, up, takenOver, retained, bounds, may, owed, orphaned, stale, cut>>

\* publishToClient with a QoS above zero: stored, then written to the client.
PublishToClient(id, pid) ==
    LET cl == client[id] IN
    /\ "message" \in admitted /\ Free(Pub) /\ Registered(id) /\ pid \notin cl.inflight
    /\ client' = [client EXCEPT ![id].inflight = @ \cup {pid}]
    /\ Starts(Pub, OnQosPublish(Cl(id, cl.props), pid) \o <<Say("sent", id, pid)>>)
    /\ UNCHANGED <<fixed, db, log, up, takenOver, index, retained, gauge, bounds, ghosts>>

\* processPuback, processPubcomp and the like.
Acknowledge(id, pid) ==
    LET cl == client[id] IN
    /\ Free(<<id, "conn">>) /\ Registered(id) /\ cl.open /\ pid \in cl.inflight \cap owed[id]
    /\ client' = [client EXCEPT ![id].inflight = @ \ {pid}]
    /\ owed' = [owed EXCEPT ![id] = @ \ {pid}]
    /\ Starts(<<id, "conn">>, OnQosComplete(Cl(id, cl.props), pid))
    /\ UNCHANGED <<fixed, db, log, up, takenOver, index, retained, gauge, bounds,
                   due, may, orphaned, stale, cut>>

\* TopicsIndex.RetainMessage: 1 when set, -1 when cleared, 0 when there was
\* nothing to clear.
Retains(topic, payload) ==
    IF payload # Empty THEN 1 ELSE IF topic \in DOMAIN retained THEN -1 ELSE 0

WithRetained(topic, value) ==
    [t \in DOMAIN retained \cup {topic} |-> IF t = topic THEN value ELSE retained[t]]
WithoutRetained(topic) == [t \in DOMAIN retained \ {topic} |-> retained[t]]

\* retainMessage.
RetainMessage(topic, payload) ==
    /\ "retain" \in admitted /\ Free(Pub)
    /\ retained' = IF payload = Empty THEN WithoutRetained(topic)
                   ELSE WithRetained(topic, [payload |-> payload, expires |-> TRUE])
    /\ Starts(Pub, OnRetainMessage(topic, payload, Retains(topic, payload)))
    /\ UNCHANGED <<fixed, db, log, up, client, takenOver, index, gauge, bounds, ghosts>>
-----------------------------------------------------------------------------
(* The event loop. *)

\* clearExpiredClients removes the client, and leaves its subscriptions.
ClearExpiredClient(id) ==
    /\ "expire" \in admitted /\ Free(Loop) /\ Registered(id) /\ ~client[id].open
    /\ client' = [client EXCEPT ![id] = NoClient]
    /\ orphaned' = orphaned \cup {id}
    /\ due' = [due EXCEPT ![id] = {}] /\ owed' = [owed EXCEPT ![id] = {}]
    /\ Starts(Loop, OnClientExpired(Cl(id, client[id].props)))
    /\ UNCHANGED <<fixed, db, log, up, takenOver, index, retained, gauge, bounds, may, stale, cut>>

\* clearExpiredInflights.
ClearExpiredInflight(id, pid) ==
    /\ "expire" \in admitted /\ Free(Loop) /\ Registered(id) /\ pid \in client[id].inflight
    /\ client' = [client EXCEPT ![id].inflight = @ \ {pid}]
    /\ owed' = [owed EXCEPT ![id] = @ \ {pid}]
    /\ Starts(Loop, OnQosDropped(Cl(id, client[id].props), pid))
    /\ UNCHANGED <<fixed, db, log, up, takenOver, index, retained, gauge, bounds,
                   due, may, orphaned, stale, cut>>

\* clearExpiredRetainedMessages.
ClearExpiredRetained(topic) ==
    /\ "expire" \in admitted /\ Free(Loop)
    /\ topic \in DOMAIN retained /\ retained[topic].expires
    /\ retained' = WithoutRetained(topic)
    /\ Starts(Loop, OnRetainedExpired(topic))
    /\ UNCHANGED <<fixed, db, log, up, client, takenOver, index, gauge, bounds, ghosts>>

\* publishSysTopics.
SysInfoTick ==
    /\ "tick" \in admitted /\ Free(Loop) /\ ticks < MaxTicks /\ ticks' = ticks + 1
    /\ Starts(Loop, OnSysInfoTick(gauge))
    /\ UNCHANGED <<fixed, db, log, up, memory, connects, crashes, ghosts>>
-----------------------------------------------------------------------------
(* The store. *)

\* A goroutine makes its next write.  An error is logged and ignored.
Write(g) ==
    /\ ~Idle(g) /\ Head(todo[g]).op \in {"put", "del"}
    /\ todo' = [todo EXCEPT ![g] = Tail(@)]
    /\ \/ IF sync THEN db' = Apply(db, Head(todo[g])) /\ UNCHANGED log
          ELSE Len(log) < MaxLog /\ log' = Append(log, Head(todo[g])) /\ UNCHANGED db
       \/ "fail" \in admitted /\ UNCHANGED <<db, log>>
    /\ UNCHANGED <<fixed, up, memory, bounds, ghosts>>

\* A goroutine tells the client.
Tell(g) ==
    LET item == Head(todo[g]) IN
    /\ ~Idle(g) /\ item.op \notin {"put", "del"}
    /\ todo' = [todo EXCEPT ![g] = Tail(@)]
    /\ LET id == item.id
           fresh == item.op = "ended" \/ (item.op = "connack" /\ ~item.about)
       IN
       /\ due' = [due EXCEPT ![id] =
                    IF fresh THEN {} ELSE IF item.op = "suback" THEN @ \cup {item.about} ELSE @]
       /\ may' = [may EXCEPT ![id] =
                    IF fresh THEN {} ELSE IF item.op = "unsuback" THEN @ \ {item.about} ELSE @]
       /\ owed' = [owed EXCEPT ![id] =
                    IF fresh THEN {} ELSE IF item.op = "sent" THEN @ \cup {item.about} ELSE @]
    /\ UNCHANGED <<fixed, db, log, up, memory, bounds, orphaned, stale, cut>>

\* pebble without Sync logs a write, in order, some time later.
Flush ==
    /\ log # <<>> /\ log' = Tail(log) /\ db' = Apply(db, Head(log))
    /\ UNCHANGED <<fixed, up, memory, todo, bounds, ghosts>>

\* Whether a new connection still has to store again what it inherits.
Resending(id) ==
    \E i \in DOMAIN todo[<<id, "conn">>] :
       LET w == todo[<<id, "conn">>][i] IN w.op = "put" /\ w.value.t = InflightKey

\* Whether the session ends unnoticed if the broker dies now: it was to end
\* with the connection, was being ended, or inherits from one that was and
\* has still to be recorded (CONNACK comes before OnSessionEstablished).
Ending(id) ==
    \/ Registered(id) /\ Expires(client[id].props)
    \/ \E i \in DOMAIN todo[<<id, "conn">>] :
          LET item == todo[<<id, "conn">>][i] IN
          \/ item.op = "ended"
          \/ /\ item.op = "put" /\ item.value.t = ClientKey
             /\ \E r \in StoredClients : r.id = id /\ Expires(r)

\* The broker dies, and what a takeover was still to store again is lost.
Crash ==
    /\ up /\ crashes < MaxCrashes /\ crashes' = crashes + 1
    /\ up' = FALSE /\ log' = <<>> /\ cut' = (cut \/ log # <<>>)
    /\ client' = [id \in Ids |-> NoClient] /\ takenOver' = [id \in Ids |-> {}]
    /\ index' = {} /\ retained' = <<>> /\ gauge' = 0
    /\ todo' = [g \in Goroutines |-> <<>>]
    /\ orphaned' = orphaned \cup {id \in Ids : Ending(id)}
    /\ owed' = [id \in Ids |-> IF Resending(id) THEN {} ELSE owed[id]]
    /\ UNCHANGED <<fixed, db, connects, ticks, due, may, stale>>
-----------------------------------------------------------------------------
(* readStore. *)

LoadedProps(r) == [v5 |-> r.v5, clean |-> r.clean, expiry |-> r.expiry, will |-> r.will]

\* loadClients, then loadSubscriptions and loadInflight of those it kept.
LoadClient(id) ==
    LET kept == {r \in StoredClients : r.id = id /\ ~Expires(r)} IN
    IF kept = {} THEN NoClient
    ELSE [open |-> FALSE, props |-> LoadedProps(CHOOSE r \in kept : TRUE),
          subs |-> {s.filter : s \in {s \in StoredSubscriptions : s.client = id}},
          inflight |-> {m.pid : m \in {m \in StoredInflightMessages : m.client = id}}]

\* loadSubscriptions fills the index for clients it does not know as well.
LoadSubscriptions == {<<s.client, s.filter>> : s \in StoredSubscriptions}

\* loadRetained, through RetainMessage: an empty payload retains nothing.
LoadRetained ==
    LET kept == {m \in StoredRetainedMessages : m.payload # Empty} IN
    [t \in {m.topic : m \in kept} |-> ToPacket(CHOOSE m \in kept : m.topic = t)]

\* loadClients calls OnDisconnect for every client, which ends some sessions.
LoadWrites ==
    Each(LAMBDA r : OnDisconnect(Cl(r.id, LoadedProps(r)), Expires(r), FALSE), StoredClients)

ReadStore ==
    /\ ~up /\ up' = TRUE
    /\ client' = [id \in Ids |-> LoadClient(id)]
    /\ index' = LoadSubscriptions
    /\ retained' = LoadRetained
    /\ gauge' = StoredSysInfo.subscriptions   \* loadServerInfo
    /\ Starts(Loop, LoadWrites)
    /\ UNCHANGED <<fixed, db, log, takenOver, bounds, ghosts>>
-----------------------------------------------------------------------------
Next ==
    \/ \E id \in Ids : \E props \in Kinds : EstablishSession(id, props)
    \/ \E id \in Ids, lost \in BOOLEAN : EndConnection(id, lost)
    \/ \E id \in Ids, lost \in BOOLEAN : EndTakenOver(id, lost)
    \/ \E id \in Ids, f \in Filters :
         \E granted \in IF "refuse" \in admitted THEN BOOLEAN ELSE {TRUE} :
            Subscribe(id, f, granted)
    \/ \E id \in Ids, f \in Filters : Unsubscribe(id, f)
    \/ \E id \in Ids, pid \in Pids : PublishToClient(id, pid)
    \/ \E id \in Ids, pid \in Pids : Acknowledge(id, pid)
    \/ \E t \in Topics : \E p \in Payloads \cup {Empty} : RetainMessage(t, p)
    \/ \E id \in Ids : ClearExpiredClient(id)
    \/ \E id \in Ids, pid \in Pids : ClearExpiredInflight(id, pid)
    \/ \E t \in Topics : ClearExpiredRetained(t)
    \/ SysInfoTick
    \/ \E g \in Goroutines : Write(g)
    \/ \E g \in Goroutines : Tell(g)
    \/ Flush
    \/ Crash
    \/ ReadStore

Spec == Init /\ [][Next]_vars
-----------------------------------------------------------------------------
(* Properties. *)

Settled == Started /\ log = <<>> /\ \A g \in Goroutines : Idle(g)
KeepsPacketID == backend \in {"badger", "pebble"}
Regular(id) == id \notin orphaned \cup stale

\* A subscription the client holds a SUBACK for, and has not given up, is in
\* the index and its client registered, over any crash: what makes OnSubscribed
\* come before the SUBACK (processSubscribe) and readStore complete.  Only a
\* session that ended unnoticed, or whose record a taken-over connection has
\* written again, is excepted, and writes a crash cut off.
SubscriptionsKept ==
    up /\ ~cut => \A id \in Ids : Regular(id) /\ due[id] # {} =>
        Registered(id) /\ due[id] \subseteq client[id].subs \cap SubsOf(id)

\* The index holds no subscription of a client that the client may not expect:
\* none it has an UNSUBACK for, none from before a CONNACK without session
\* present (processUnsubscribe, UnsubscribeClient, loadSubscriptions).
NoGhostSubscriptions ==
    up /\ ~cut => \A id \in Ids : Regular(id) => SubsOf(id) \subseteq may[id]

\* A message sent to the client and not acknowledged is in flight, over any
\* crash but one while a takeover is storing it again (OnQosPublish,
\* OnQosComplete, ResendInflightMessages, loadInflight).
MessagesKept ==
    up /\ ~cut /\ KeepsPacketID => \A id \in Ids : Regular(id) /\ owed[id] # {} =>
        Registered(id) /\ owed[id] \subseteq client[id].inflight

\* At rest the store says of every session what the broker's memory says, so
\* that a restart changes nothing: its subscriptions, its in-flight messages
\* (where their id is stored) and the retained messages.
StoreIsMemory ==
    Settled /\ ~cut =>
    /\ \A id \in Ids : Regular(id) =>
        LET subs == IF Registered(id) THEN client[id].subs ELSE {}
            inflight == IF Registered(id) THEN client[id].inflight ELSE {}
        IN
        /\ {s.filter : s \in {s \in StoredSubscriptions : s.client = id}} = subs
        /\ KeepsPacketID =>
             {m.pid : m \in {m \in StoredInflightMessages : m.client = id}} = inflight
    /\ LoadRetained = [t \in DOMAIN retained |-> [retained[t] EXCEPT !.expires = FALSE]]

\* At rest the stored record of a client is that of its registered connection,
\* and there is none for a client that is not registered; only the end of a
\* connection that was taken over leaves another (updateClient, OnDisconnect).
RecordIsCurrent ==
    Settled /\ ~cut => \A id \in Ids : Regular(id) =>
        LET records == {[r EXCEPT !.will = FALSE] : r \in {r \in StoredClients : r.id = id}}
            current == [StoredClient(Cl(id, client[id].props)) EXCEPT !.will = FALSE]
        IN records = IF Registered(id) THEN {current} ELSE {}
-----------------------------------------------------------------------------
(* What the code does not keep (README, disagreements). *)

\* A SUBACK is never lost, whatever the session, the hook and its mode: fails
\* for a record written again by a taken-over connection (badger and pebble's
\* OnDisconnect; OnWillSent in all), and without Sync.
PromisesKept ==
    Started => \A id \in Ids \ orphaned : due[id] # {} =>
        Registered(id) /\ due[id] \subseteq client[id].subs

\* No subscription outlives its session: fails for one that ends with its
\* connection when the broker dies, and after clearExpiredClients.
NothingLeftBehind == Started => \A id \in Ids : SubsOf(id) \subseteq may[id]

\* The hooks of bolt and redis store no packet id.
PacketIDKept ==
    Started => \A id \in Ids : Registered(id) => 0 \notin client[id].inflight

\* A takeover drops the stored messages before it stores them again.
TakeoverKeepsMessages ==
    [][Crash => \A id \in Ids : owed'[id] = owed[id]]_vars

\* Info.Subscriptions is the last tick's after a restart (loadServerInfo).
GaugeRestored == Started => gauge = Cardinality(index)

\* A retained message keeps its own expiry (ToPacket).
ExpiryKept == \A t \in DOMAIN retained : retained[t].expires
=============================================================================
