# A verification project for the MQTT broker

TLA+ models of the broker in `broker/` (a fork of mochi-mqtt with its own modules for
priority routing, defence and security), TLC configurations that check them and TLAPS
proofs. Paths are relative to `src/`; `server.go` means `broker/server.go`, and so on.

Contents: [the system](#the-system), [what is hard](#what-is-hard-and-what-makes-it-correct),
[the models](#the-models), [the runs](#the-runs), [disagreements](#where-code-and-documentation-disagree),
[fairness](#fairness), [proofs](#proofs), [not modelled](#not-modelled), [plan](#plan).

## The system

One `Server` object and these goroutines: an accept loop per listener; for every
connection a reader (`attachClient`, which runs all packet handlers of that client and
routes what the client publishes to every subscriber) and a `WriteLoop`; one event loop
with five tickers; the goroutines of hooks. There is no global lock: each map has its own
mutex, each counter is an atomic, and a sequence of them is not a transaction.

| component | state | operations | interacts with |
|---|---|---|---|
| **Session life cycle** `server.go`, `clients.go` | `Clients` map by id; per client `open`, `isTakenOver`, `Subscriptions`, `Inflight`, `Will`; `willDelayed` | `attachClient`, `inheritClientSession`, `DisconnectClient`, `UnsubscribeClient`, `sendLWT`, `clearExpiredClients`, `sendDelayedLWT` | index, QoS flows, hooks |
| **QoS flows** `server.go`, `clients.go`, `inflight.go` | per client: map packet id to message, send and receive quota, id counter, outbound channel | `publishToClient`, `processPublish`, `processPuback/Pubrec/Pubrel/Pubcomp`, `NextPacketID`, `NextImmediate`, `ResendInflightMessages`, `ClearExpiredInflights` | every publisher's reader, writer, storage hooks |
| **Priority messaging** `modules/routing` | three queues, a mutex and a condition, stop channel, start flags | `OnPublish`, `schedulerLoop`, `agingLoop`, `Init`/`SetOpts`/`maybeStart`, `Stop` | diverts publishes from the core and reinjects them with `InjectPublish` |
| Client writer `clients.go` | coalescing buffer `outbuf`, shared by reader and `WriteLoop` | `WritePacket`, `flushOutbuf` | connection |
| Topics index `topics.go` | trie of client, shared, inline subscriptions and retained paths, under one lock | `Subscribe`, `Unsubscribe`, `Subscribers`, `RetainMessage`, `Messages`, `trim` | routing, session |
| Topic aliases `topics.go` | inbound map, outbound map and cursor per connection | `Set` | publish in and out |
| Retained messages `server.go` | map by topic | `retainMessage`, `publishRetainedToClient`, expiry | index, storage |
| Hook chain `hooks.go`, `hooks/auth` | ordered list | `OnPublish` (first error wins), `OnACLCheck` and `OnConnectAuthenticate` (any allow wins) | everything |
| Storage `hooks/storage/*` | key-value store: clients, subscriptions, retained, in-flight | written at each hook callback, read by `readStore` at start | session, QoS flows |
| Auth ledger `hooks/auth/ledger.go` | rule tables | `AuthOk`, `ACLOk`, `MatchTopic` | hook chain |
| Auth defence `modules/defense/auth_defense.go` | connection counter, per-IP window, per-id timer and counters | `OnConnect`, `OnDisconnect`, `OnAuthPacket`, timer callback | session life cycle |
| Property validator `modules/defense/property_validator.go` | budget per id | `OnPublish`, `OnDisconnect` | publish |
| eBPF filter `modules/defense/ebpf` | tracker per IP, kernel block list | `OnConnect`, `BlockIP` | kernel |
| Wildcard tokens `modules/security/wildcard_tokens.go` | token per id, between two callbacks of one SUBSCRIBE | `OnSubscribe`, `OnACLCheck`, `OnSubscribed`, `OnDisconnect` | subscribe |
| Integrity, TLS profiles `modules/security` | none | a signature comparison, a table of settings | publish |
| Listeners and shutdown `listeners/*`, `server.go` | end flags, wait group of clients | `Serve`, `Close`, `CloseAll`, `Server.Close` | connections, hooks' `Stop` |
| Codec `packets/*` | none | encode, decode, validate | reader, writer |
| Pools, system info, debug hook, config, commands, test clients | counters, settings | | |

## What is hard, and what makes it correct

The unit tests run one goroutine at a time. What they hardly reach, and what each part
must nevertheless guarantee (all of it is in `PROJECT.json`, `hazards`, line by line):

* **QoS flows.** Tests and updates of map, id counter and quotas are separate steps of
  many goroutines; a connection may be lost between any two packets; both directions share
  one id space; refused, dropped, expired and repeated messages take their own paths
  through the quotas. *Correct* means: a message accepted is kept until delivered
  or refused (`NotForgotten`, `Delivered`), QoS 2 is exactly once in both directions, an acknowledged
  publish is routed, quotas and gauges balance up to what is known to be lost, limits hold up to a
  known excess.
* **Session life cycle.** No lock spans `Clients.Get` and `Clients.Add`; the goroutine of a
  connection taken over goes on handling, issuing its will and cleaning up; two event-loop
  jobs work on copies of maps. *Correct* means: one live connection for an id and it is the
  registered one, index and client agree on the subscriptions, sessions and messages are
  inherited and never forgotten, a will is issued once and when it should be.
* **Priority messaging.** A condition variable signalled after the mutex is released, two
  goroutines moving packets, launch from two callbacks, stop at any moment. *Correct* means:
  no lost wake-up, FIFO per publisher and priority, no starvation, launch once, stop stops.
* **Storage.** Memory, store and client are told of a change one after the other, and a crash
  may come in between; a session ends in five ways, each of which deletes other records.
  *Correct* means: what the client was promised comes back (`SubscriptionsKept`,
  `MessagesKept`), what it gave up does not (`NoGhostSubscriptions`), and at rest the store
  says what memory says (`StoreIsMemory`, `RecordIsCurrent`).
* **Routing.** The tree is scanned under the locks of single particles while others add and trim
  them; retaining and routing are two steps, subscribing and reading what is retained two
  more; an alias is allocated by whichever goroutine publishes. *Correct* means: a scan is
  complete and sound, the tree exact, no retained message is missed, no alias is mistaken.
* **Connections and hooks.** The guards count, time and remember by client id or address while
  ids change hands; the buffer of a writer is shared; accepting, serving and closing overlap;
  every packet is coded in three versions with its own edges. *Correct* means: limits hold,
  a privilege ends with its packet, messages arrive as they were published, each at most once,
  in order and in a form the client can read, and nothing is kept back.

## The models

`map` in `PROJECT.json` gives the source lines of every definition.

### QosFlow

One client session, its reader, and any number of publishing goroutines.

* `publishToClient` is six actions, cut where another goroutine can come between:
  `CheckInflight` (the capacity test), `NextPacketID` (loops under the client's lock, hence
  one step), `StoreInflight` (the quota is read and the message stored), `LoadSendQuota` and
  `SubSendQuota` (the two halves of `DecreaseSendQuota`), then `HoldMessage` or
  `SendOutbound`. The id returned by `NextPacketID` is not reserved: this gap is in the model.
* Every packet handler is one action on the single reader goroutine: it handles the packet
  at the head of `up` and writes its answer to `down`. `NextImmediate`, the tail of
  `processPacket`, is a step of its own after it, because publishers come between.
* Quotas saturate at zero and at their maximum as in the code. `processPubrec` takes the
  *receive* quota, as in the code.
* `ProcessPublish` takes the verdict of the hooks as an input: `ok`, `denied` (ACL),
  `reject`, `ignore` (the message is diverted), `error` (an error code as acknowledgement).
* `ConnectionLost` empties the wires and the channel; `ResumeSession` builds the next
  connection's state (the map is cloned, the quotas reset by `Clone`'s rule); then
  `ResendInflightMessages` writes the map in any order, Go's map order being arbitrary.
* Two history variables say what became of a message that has left the map: `released` when
  `NextImmediate` wrote it and deleted its entry, `refused` when an error PUBREC ended its flow. What
  `NotForgotten` and `QuotaAtRest` except, they except by these.
* External: the remote client, which follows MQTT (it keeps QoS 2 ids until released,
  repeats unacknowledged publishes after a reconnect), and the connection, a FIFO each way.

### Session

One client id, and every connection that presents it. `at[c]` is the place of connection
`c`'s goroutine in `attachClient`; each call between two of its shared accesses is one
action, so that `UnsubscribeClient`, say, is `TakeSubs` (the client's own filters) and
`Unindex` (the index). `kind[c]` says what CONNECT asked for: whether the session starts
clean and whether it ends with the connection; DISCONNECT may shorten it. `route` is a
goroutine publishing to the session (match, look the client up, store and queue), `loop`
the event loop between what it read and what it does about it. A stored message is here
just kept, delivered or lost; its flow is QosFlow's.

`Overlaps` names which activities a run lets overlap a handshake (another handshake, a
clean-up, the packet in hand on the old connection, a publish). The code forbids none of
them. With one admitted the property it endangers fails, as the table of disagreements
shows; with none of them all holds, so these overlaps are the only reason. Everything
else, such as the old goroutine's will and late return, always interleaves.

### PriorityMessaging and FifoChannels

`ReadClock`, `Enqueue`, `Signal` are the three steps of `OnPublish` (the clock is read
before the mutex is taken, the signal given after it is released). A message's number is
its reading of the clock; `AgingTick` chooses, for each queue, up to which number packets
have passed their threshold, so a tick may find anything starved that is older than something
starved. What a tick leaves and takes is written `Kept(s, K)`, the members of `s` at the places
`K` in their order, by ranks instead of the recursive `SelectSeq`, so that the theorems can
speak of it. The mutex is explicit only where it is held over two steps, between the
scheduler's look at the stop channel and its `Wait`. `FifoChannels` is the abstract
specification: one FIFO channel for each publisher and priority. The refinement maps a
channel (`Channels`) to the packets of that publisher and priority in hand, urgent, high and
normal, in this order: promotion must then be a stutter.

### Storage and the four stores

`BoltStore`, `BadgerStore`, `PebbleStore` and `RedisStore` give, for every callback, the
sequence of writes that hook makes, in its own order and with its own omissions;
`StorageRecords` has the records and keys they share. `Storage` runs one of them under the
handlers of `server.go`: a handler changes memory when it starts and leaves on `todo` the
writes it still makes and, in their place among them, what it tells the client (`CONNACK`,
`SUBACK`, `PUBLISH`). `Run` performs the next one of any goroutine; `Crash` may come between
any two, and without pebble's `Sync` takes the end of `log` with it; `ReadStore` is
`readStore`, as one step because nothing else runs then. `due` and `may` are what a client holds
acknowledgements for, and what it may expect at most; `owed` the messages sent and not acknowledged.
`admitted` is the scenario: which activities one behaviour may contain, so that each is explored
with crashes without multiplying all with all.

### TopicsIndex, TopicAliases and Routing

`TopicsIndex` is `topics.go`: the tree as the set of its particles, with the subscriptions
and retained paths at them, `Set`, `Trim` and what a scan gathers at a particle. `Routing`
has the goroutines. A change of the tree is one step (`x.root` is locked throughout); a scan is
a step per particle, since it takes the locks of particles one at a time; retaining, its gauge,
the scan, each delivery, and the reading of retained messages are steps of their own, and so
are the ticker's copy of the retained map and its deletions. `always` and `ever` record, for
a running scan, what was in place throughout and at some time; they restate nothing of the
scan. `TopicAliases` has the two tables; `learned` is what the client was told.

### Connection, its hooks and its packets

`Connection` follows each connection from `Accept` to `gone`: `conn[c].at` is the place of its
goroutine in `attachClient`, then the handler it is in. What a peer sends is its `script`.
`Read` decodes the next frame and validates it, `processSubscribe`, `Scan` and
`publishToClient` go filter by filter and client by client; `Take` and `Write` are
`WriteLoop`, `Write` and the handler's own answers share the coalescing `buffer` of
`pipe[c]`. `Busy`, `Invalid`, `Count`, `Admit`, `FilterAddress`, `Authenticate` are the checks
of a CONNECT in the code's order; `TimeOut` and `Second` the timer and the clock of the guards.
`ServeLoads`, `Accept`, `AcceptFails`, `Spawn` are `TCP.Serve`, cut where `Close`
(`GetByListener`, `ShutDown`, `CloseSocket`, the wait group, `StopHooks`) may come between.

`HookChain` is the order of the hooks as `cmd/main.go` adds them and how a verdict ends a
chain; `AuthDefense`, `EbpfFilter`, `PropertyValidator`, `WildcardTokens`,
`MessageIntegrity` and `AuthLedger` are the hooks, operators on the part of `guard` each keeps.
`Packets` and `PacketProperties` are the codec: a frame is the sequence of fields the
encoder writes, each with its size, so that lengths, limits and what depends on them are computed,
while bytes are not. An HMAC is the record of its inputs.

## The runs

Passing runs. A `.cfg` has the name of its run.

| run | checks | instance, and why it is enough |
|---|---|---|
| `QosOut` | `ExactlyOnceOut`, `InflightBound`, `Delivered` | fair; 2 publishers, 4 messages of both QoS, 4 ids, limit 2, a channel of 1, one loss: the limit and the channel overflow, ids are reused, resends meet new publishes; no Receive Maximum, hence no held message, which may wait for ever (`QosHeld`) |
| `QosIn` | `ExactlyOnceIn`, `NeverOverQuota`, `AckedIsRouted` | 3 client publishes over 2 ids, quota 2, two losses, every hook verdict that does not divert the publish |
| `QosQuota` | `QuotaAtRest`, `GaugeAtRest` | both directions at once; 3 messages on a Receive Maximum of 2, so that one may be held, charged twice and released; error PUBRECs; a channel large enough not to roll back and no loss, as both spoil the gauge |
| `QosMix` | `TypeOK`, `NotForgotten`, `ExactlyOnceOut` | 2 publishers and messages, limit 2 and client Receive Maximum 1, so that messages are held and released, a channel of 1; every other option at once: a publish of the client, every hook verdict, error PUBRECs, failing writes, a loss, expiry |
| `SessionSeq` | `LiveIsRegistered`, `IndexIsOwned`, `SessionKept`, `SessionRemembered`, `NoMessageLost` | 3 connections of three kinds: a takeover of a takeover, of an ended and of an abandoned session; a message published at any time outside a handshake |
| `SessionWill` | `TypeOK`, `WillOnce`, `TakenOverEnds` | fair; 2 connections with every overlap, every will, and expiry |
| `Priority` | `TypeOK`, `StartedOnce`, `NoSleepOnWork`, `AgedFirst`, `ImplementsFifo`, `EveryPacketInjected` | fair; 2 publishers, 2 packets of any priority, launch, ticks and stop in every order: two packets are enough to overtake each other, across a promotion and within one channel |
| `Storage` | `SubscriptionsKept`, `NoGhostSubscriptions`, `MessagesKept`, `StoreIsMemory`, `RecordIsCurrent` | each of the four hooks, pebble with and without `Sync`; 3 connections of a client, of kinds that stay, end, or expire; 2 filters, 2 packet ids, a retained topic; one crash anywhere and what comes back, then everything once more |
| `Routing` | `ScanComplete`, `ScanSound`, `TreeWellFormed`, `SubscriberLearns`, `AliasFaithful` | nine scenarios of `MCRouting`: filters in two branches trimmed under a scan; client, shared and inline subscriptions at one particle; a session that ends; two publishers of a retained message; retained messages above each other; expiry; `$SYS`; aliases out and in. Alias tables of size 1, so that they overflow |
| `Connection` | `ConcurrencyKept`, `TokenSpent`, `Forwarded`, `InOrderAndFlushed`, `RoundTrip` | the scenarios of `MCConnection`: three connections of one id where two are allowed; a flood from one address; a token beside a connection without; streams of publishes to MQTT 5 and 3 readers with a packet limit, a queue of 2 and a buffer smaller than three packets; every type of packet with every property it may carry, in each version; a session resumed, a shutdown |

Deadlock is not checked: once the bounded messages, connections and losses are used up,
everything may rightly be still. Stuck goroutines are the subject of the liveness properties.

The bounds are constants of the modules: `MaxMsgs`, `MaxIn`, `MaxLosses`, `MaxExpired`,
`MaxPacketID` (65535 in the code), `MaxConns`, `MaxMessages`; `MaxConnects`, `MaxCrashes`,
`MaxTicks`, `MaxLog` in Storage; `maxChanges` and `maxPublishes` of a scenario in Routing; in
Connection the scripts themselves and the scenario's `seconds`. A publisher or connection adds
an interleaving of the same kind; two of each meet in every pairing of steps. For the
bound on stored messages and type correctness the proofs remove the bounds altogether.

What the passing runs leave out, because a fault listed below would hide everything else:
`NotForgotten` excepts what `NextImmediate` released and all that follows an expiry, and `QuotaAtRest`
allows for the units that refused and released messages lose; `PublishDuringResend` is false; the client's packet ids differ from the broker's; `QosIn`
has no failing writes; `SessionSeq` admits no overlap with a handshake and no expiry, and
`SessionWill` checks nothing about subscriptions or messages; `Storage` admits no overlapping handlers
of one client, no refused subscription, no failing write and no two clients whose keys
coincide, and its properties except what the tables below list as lost; `InOrderAndFlushed`
excepts clients with a limit on packets from the flushing, not from the order.

## Where code and documentation disagree

The first two are runs of the project that expect a violation. The others come out of the
same modules: take the run named (in the second column, or above the table), set the constants shown and check
the property alone; TLC's shortest trace is the story.

| property | setting | what happens | code | against |
|---|---|---|---|---|
| `HeldIsSent` | run `QosHeld` | a message is held on a quota that was returned in between, and waits for ever | `server.go:1099` | `inflight.go:92` |
| `LiveIsRegistered` | run `SessionCleanup` | an ending connection deletes the one that took it over | `server.go:489` | `clients.go:153` |
| `InflightCap` | `QosOut` | two publishers pass the capacity test, one message too many is stored | `server.go:1075` | `server.go:55` |
| `FlowControl` | `QosOut`, `ClientReceiveMax = 1` | two publishers send on one unit of send quota | `server.go:1091` | `README.md:34` |
| `NeverOverQuota` | `QosIn`, `MaxMsgs = 1`, `Qos2Msgs = {1}` | delivering QoS 2 *to* a client uses up its allowance to publish; it is disconnected | `server.go:1200` | `server.go:54` |
| `NeverOverQuota` | `QosIn`, `MaxExpired = 1`, `Qos2In = {1, 2, 3}` | a PUBREC expires and the quota it took is not returned; the client is disconnected | `clients.go:353` | `server.go:54` |
| `ExactlyOnceOut` | `QosOut`, `PublishDuringResend = TRUE` | a publish between `Clients.Add` and the resend is delivered twice with QoS 2 | `server.go:459` | `README.md:37` |
| `ExactlyOnceIn` | `QosIn`, `MaxExpired = 1` | the PUBREC of a publish expires before its client comes back and repeats it; it is routed again | `clients.go:353` | `README.md:37` |
| `ExactlyOnceIn` | `QosIn`, `MaxMsgs = 2`, `Qos2Msgs = {1}`, `ClientIds = {1, 2}` | a message to the client is stored over the PUBREC of its publish with the same id | `server.go:1093` | `README.md:37` |
| `AckedIsRouted` | `QosIn`, `WriteFails = TRUE` | PUBREC stored, its write fails, the publish is never routed though acknowledged later | `server.go:952` | `README.md:37` |
| `GaugeAtRest` | `QosQuota`, `MaxPending = 1` | the rollback of a dropped message leaves `$SYS` in-flight too high | `server.go:1117` | `system/system.go:27` |
| `GaugeAtRest` | `QosQuota`, `MaxLosses = 1` | a takeover subtracts the old map's entries, which the new connection inherits and subtracts again | `server.go:593` | `system/system.go:27` |
| `DeliveredAtRest` | `QosOut`, `ClientReceiveMax = 1` | a held message is written and its entry deleted before any acknowledgement; the connection is lost and so is the message | `server.go:724` | `README.md:37` |
| `QuotaReturned` | `QosQuota`, `ClientReceiveMax = 1`, `PubrecErrors = FALSE` | a released QoS 1 message has taken send quota, but its PUBACK finds no entry and returns none; nothing more is sent on the connection | `server.go:727` | `inflight.go:92` |
| `QuotaReturned` | `QosQuota`, `ClientReceiveMax = 3` | an error PUBREC deletes the entry and keeps its unit of send quota | `server.go:1191` | `README.md:34` |
| `KeptUntilGot` | `QosMix` | a message expires before its acknowledgement comes, its id goes to another one, and the acknowledgement deletes that | `clients.go:353` | `README.md:37` |
| `NotForgotten` | `QosOut`, `ClientIds = {1}`, `MaxIn = 1` | a client's publish deletes the broker's message with the same id | `server.go:901` | `README.md:37` |
| `NotForgotten` | `QosOut`, `MaxPacketID = 3`, `MaxPending = 3` | with few ids left two publishers get the same one | `clients.go:295` | `clients.go:273` |
| `LiveIsRegistered` | `SessionSeq`, `Overlaps = {"handshake"}` | two simultaneous connections with one id both stay | `server.go:564` | `server.go:565` |
| `IndexIsOwned` | `SessionSeq`, `Overlaps = {"packet"}` | SUBSCRIBE during takeover leaves a subscription nobody owns | `server.go:582` | `clients.go:149` |
| `IndexIsOwned` | `SessionSeq`, `MayExpire = TRUE` | an expired session's subscriptions stay in the index | `server.go:1721` | `README.md:392` |
| `LiveIsRegistered` | `SessionSeq`, `MayExpire = TRUE` | the expiry sweep deletes a client that is back | `server.go:1721` | `server.go:1705` |
| `NoMessageLost` | `SessionSeq`, `Overlaps = {"publish"}` | a message published during takeover is lost | `server.go:575` | `inflight.go:61` |
| `ConnackFirst` | `SessionSeq`, `Overlaps = {"publish"}` | PUBLISH before CONNACK | `server.go:459` | `server.go:461` |
| `WillNotDropped` | `SessionWill` | a taken-over client's will is dropped when its reader sees `Closed` first | `clients.go:370` | `server.go:1525` |
| `WillOnlyIfAway` | `SessionWill` | a delayed will is published although the client is back | `server.go:1756` | `server.go:466` |
| `WillNotWiped` | `SessionWill` | publishing the old will erases the new connection's | `server.go:1763` | `README.md:36` |
| `ClientsCap` | `SessionWill`, `MaximumClients = 1` | `MaximumClients` exceeded | `server.go:420` | `server.go:48` |
| `StopHalts` | `Priority` | `Stop`'s broadcast falls before the scheduler's `Wait`; it sleeps for ever | `priority_messaging.go:147` | `priority_messaging.go:144` |

Storage (run `Storage`, its `Scenarios` replaced by the set shown, `Backends` by the one named):

| property | setting | what happens | code | against |
|---|---|---|---|---|
| `NoGhostSubscriptions` | `{{"subscribe", "refuse"}}` | a refused subscription is stored, with its reason code as QoS, and is in force after a restart | `server.go:1308`, `bolt.go:220` | `README.md:377` ("successfully subscribes") |
| `PromisesKept` | badger or pebble, `{{"subscribe"}}` | a connection that was taken over writes its own record over that of the one which replaced it, and after a restart the session ends by the old one's terms | `badger.go:225`, `pebble.go:202` | `badger.go:231` |
| `PromisesKept` | pebble, `Modes = {FALSE}` | without `Sync` an acknowledged subscription is lost in a crash | `pebble.go:132` | `README.md:48` |
| `StoreIsMemory` | badger, `{{"message", "overlap"}}` | a message is stored for a client whose own record is not yet written; after a crash it stays in the store for nobody | `server.go:475` | `README.md:396` |
| `StoreIsMemory` | `{{"subscribe"}}`, `Ids <- MCTwins`, `Filters <- MCTwinFilters`, `MaxConnects = 2` | client `a` with filter `b:f` and client `a:b` with filter `f` have one key | `bolt.go:42` | `bolt.go:40` |
| `NothingLeftBehind` | bolt, `{{"subscribe"}}` | a session that ends with its connection leaves its subscriptions when the broker dies; they are restored to no client | `server.go:1680` | `README.md:395` |
| `NothingLeftBehind` | bolt, `{{"subscribe", "expire"}}`, `MaxCrashes = 0`, `Kinds <- MCStays` | an expired session's subscriptions stay in the store | `bolt.go:358` | `README.md:392` |
| `PacketIDKept` | bolt or redis, `{{"message"}}` | in-flight messages are stored without their id and all come back as id 0 | `bolt.go:288`, `redis.go:319` | `storage.go:98` |
| `TakeoverKeepsMessages` | badger, `{{"message"}}` | a takeover drops the stored messages before it stores them again | `server.go:593` | `README.md:387` |
| `GaugeRestored` | bolt, `{{"subscribe"}}` | `$SYS` subscriptions is the last tick's, whatever was restored | `server.go:1631` | `system/system.go:29` |
| `ExpiryKept` | bolt, `{{"retain"}}` | a retained message has lost its own expiry | `storage.go:128` | `README.md:54` |
| `SubscriptionsKept` | bolt, `{{"subscribe", "fail"}}` | a failing write is logged, the SUBACK sent all the same | `server.go:1308` | `README.md:48` |

Routing (run `Routing`; `Scenarios` is the one shown, in the notation of `MCRouting`):

| property | setting | what happens | code | against |
|---|---|---|---|---|
| `AliasResolves` | `S({"plain", "alias"}, {<<"#">>}, {A}, {"c1"}, {"p", "q"}, 1, 2)` | the publish that names an alias is queued before the one that introduces it | `server.go:1065`, `:1111` | `topics.go:66` |
| `AliasResolves` | as before with `"drop"`, publisher `p` | the publish that introduces an alias is dropped | `server.go:1111` | `topics.go:66` |
| `RoutesWhatMatches` | `S({"plain"}, {<<"+", "#">>}, {A}, {"c1"}, {"p"}, 1, 1)` | `+/#` does not match its parent level `a` | `topics.go:612` | `topics.go:613` |
| `RoutesWhatMatches` | `S({"plain"}, {<<"$share", "g", "#">>}, {<<"$SYS">>}, {"c1"}, {"inline"}, 1, 1)` | a shared `#` receives `$SYS` | `topics.go:623` | `topics.go:637` |
| `RoutesInlineWhatMatches` | `S({"plain"}, {<<"a", "#">>}, {A}, {"inline"}, {"p"}, 1, 1)` | an inline `a/#` misses `a`: the wrong particle is gathered | `topics.go:615` | `topics.go:613` |
| `ReadsWhatMatches` | `S({"retain"}, {<<"a", "#">>}, {A}, {"c1"}, {"p"}, 1, 1)` | a retained `a` is not sent to a new `a/#` | `topics.go:547` | `topics.go:613` |
| `ReadsWhatMatches` | `S({"retain"}, {<<"#">>}, {<<"$other">>}, {"c1"}, {"p"}, 1, 1)` | `#` reads retained `$` topics other than `$SYS` | `topics.go:549` | |
| `LastIsCurrent` | `S({"retain"}, {A}, {A}, {"c1"}, {"p", "q"}, 1, 2)` | two publishers retain in one order and deliver in the other; also one publisher against a subscription (`{"p"}, 2, 2`) | `server.go:930` | `README.md:37` |
| `GaugeIsSubscriptions` | `S({"unsubscribe"}, {A}, {A}, {"c1", "c2"}, {"p"}, 2, 0)` | unsubscribing from another's filter lowers the gauge | `topics.go:447` | `topics.go:421` |
| `GaugeIsRetained` | `S({"retain"}, {A}, {A, AB}, {}, {"p", "q"}, 0, 2)` | an older count is stored last; expiry stores none | `server.go:991` | `system/system.go:26` |
| `ExpiresWhatItJudged` | `MCExpire` | expiry deletes the message that replaced the expired one | `server.go:1737` | `server.go:1726` |
| `NoParticleLeaks` | `MCExpire` | the particle of an expired topic stays for good | `server.go:1737` | |
| `ScanSound` | `S({"retain", "inbound", "unset"}, {<<"+", "b">>}, {NoTopic}, {"c1"}, {"p"}, 1, 1)` | a retained publish with an unset alias is stored at the root and found under filters that do not match | `topics.go:576` | |
| `TreeWellFormed` | `S({"retain", "inbound", "unset", "unsubscribe"}, {<<"", "a">>}, {NoTopic}, {"c1"}, {"p"}, 2, 1)` | the particle of such a message has an empty `retainPath`: unsubscribing from `/a` trims it | `topics.go:461` | |

Connection (run `Connection`; the last three rows need another script or setting, built like those of `MCConnection`):

| property | setting | what happens | code | against |
|---|---|---|---|---|
| `AllEnded` | as it is | after `Close` a connection is served: it was accepted before the end flag was set and counted after the wait, or established after the clients were closed | `listeners.go:134`, `tcp.go:83` | `server.go:1505` |
| `ActiveBalanced` | as it is | connections counted at `OnConnect` that end before `OnDisconnect` runs stay counted | `auth_defense.go:117` | `auth_defense.go:27` |
| `OwnState` | as it is | the end of a taken-over connection deletes the state of the one that replaced it, and leaves its timer running | `auth_defense.go:177` | `auth_defense.go:173` |
| `AllFlushed` | as it is | a packet over the client's limit leaves what is gathered unwritten until another packet comes | `clients.go:598` | `clients.go:602` |
| `ConcurrencyKept` | `restored = 1` in `Takeovers` | the sessions loaded at start lower the counter below zero, and the limit is exceeded | `server.go:1679` | `auth_defense.go:27` |
| `Forwarded` | a reader with `RequestProblemInfo` 0 | user properties of a PUBLISH are left out, as of the packets the flag is about | `properties.go:326` | `properties.go:334` |
| `RoundTrip` | a PUBACK with reason 16 and no properties | the encoder drops reasons below 128 when there are no properties | `packets.go:712` | `packets.go:702` |

## Fairness

* Weak fairness of each goroutine's next step: the Go scheduler runs every runnable
  goroutine. It is stated per goroutine (`Reader`, `WriteLoop`, `Scheduler`, a publisher).
* Strong fairness only for taking the mutex in `Enqueue`: Go's mutex hands over to a waiter
  after 1 ms, so one that finds it free again and again gets it.
* The remote client is fair in `QosOut` and `QosHeld`: it answers and reconnects. Nothing can be delivered
  to one that does not. In `Session` no client packet, connection or loss is fair, except that
  reading from a connection the broker has closed fails.
* No fairness for tickers: `EveryPacketInjected` does not rely on aging, since publishers
  are bounded; that strict priority does not starve a promoted packet is `AgedFirst`, a safety property.

## Proofs

Eight modules hold the theorems, each for every value of the constants its component admits.
`X_proofs` extends `X`, except that `QosOnce_proofs` goes on from `QosFlow_proofs`, `QosRing_proofs` from
that, and `Scans_proofs` from `Routing_proofs`. 26 of the properties that the runs check are theorems:

| module | theorem | property | hypotheses on the constants |
|---|---|---|---|
| `QosFlow_proofs` | `TypeCorrect`, `StoredMessagesBound` | `TypeOK`, `InflightBound` | |
| `QosOnce_proofs` | `RoutedOnce` | `ExactlyOnceIn` | `ClientIds` apart from `1 .. MaxPacketID`; `MaxExpired = 0` |
| | `DeliveredOnce` | `ExactlyOnceOut` | `~PublishDuringResend` |
| `QosRing_proofs` | `AcknowledgedIsRouted` | `AckedIsRouted` | `ClientIds` apart from `1 .. MaxPacketID`; `~WriteFails`; `"ignore"` not in `HookResults` |
| | `QuotaSuffices` | `NeverOverQuota` | `ClientIds` apart from `1 .. MaxPacketID`; `~WriteFails`; `MaxExpired = 0`; `Qos2Msgs = {}` |
| `PriorityMessaging_proofs` | `TypeCorrect`, `LaunchedOnce`, `NoLostWakeup`, `NoStarvation`, `Refinement` | `TypeOK`, `StartedOnce`, `NoSleepOnWork`, `AgedFirst`, `ImplementsFifo` | |
| `Session_proofs` | `TypeCorrect`, `WillPublishedOnce` | `TypeOK`, `WillOnce` | |
| | `OneLiveConnection`, `IndexBelongsToClient`, `SubscriptionsSurvive`, `SessionIsRemembered`, `MessagesSurvive` | `LiveIsRegistered`, `IndexIsOwned`, `SessionKept`, `SessionRemembered`, `NoMessageLost` | `Overlaps = {}`, `~MayExpire` |
| `Connection_proofs` | `TokenHolds`, `WriterHolds` | `TokenSpent`, `InOrderAndFlushed` | |
| | `ConcurrencyHolds` | `ConcurrencyKept` | no scenario has restored sessions |
| | `ConcurrencyExcess` | `AdmittedBound`, of which the former is the case of none | |
| `Routing_proofs` | `AliasesAreFaithful` | `AliasFaithful` | |
| | `TreeIsWellFormed` | `TreeWellFormed` | behaviours whose scenario lacks `"unset"` |
| `Scans_proofs` | `ScansAreSound`, `ScansAreComplete` | `ScanSound`, `ScanComplete` | behaviours whose scenario lacks `"unset"` |
| | `SubscribersLearn` | `SubscriberLearns` | the same; `InlineClient` not in `Clients` |

`Invariant`, `AccountsHold`, `SerialHolds` and `ShapeHolds` state the inductive invariants
themselves. All else rests on the named assumptions of the modules (`QosFlowAssumption`,
`SessionAssumption`, `PriorityAssumption`, `ScenariosOK`, `BoundsOK`, `Parameters`): finite sets,
naturals, records with the fields the actions read, filters and topics of at least one level. TLC evaluates them in the runs of their modules.

**QosFlow.** `TypeOK` is inductive as it stands: a conjunction of `TypeMap`, `TypeNet`,
`TypePublishers`, `TypeClient` and `TypeHistory`, of which only one part is not merely typing:
a publisher past `NextPacketID` has an id in `1 .. MaxPacketID`, which makes every later access
to the map well defined. With n publishers at most `MaximumInflight + n - 1` messages are
stored. That bound is not inductive: a publisher that has passed the test and not yet stored
occupies nothing in the map. `RoomInv` counts it: messages stored, or about to be stored
*again* on hold, plus publishers between test and store.

**Exactly once.** Neither direction can be seen from the map alone, so both invariants go round
the whole loop. *Inwards* (`IdsApart`, `NumberedIn`, `OnceIn`): a publish that was routed and may
be read again has its PUBREC in the map, and no PUBREL that would remove it stands before it on the
wire. That the PUBREL of one exchange cannot meet the publish of the next under the same id is
what makes `OnceIn` speak of positions. If an entry may expire, a PUBREC goes while its publish is
being repeated, and the broker routes it again (`clients.go:353`); if a client's ids are the
broker's too, an outgoing message takes the place of the PUBREC (`server.go:1093`). Hence the
hypotheses; without either of them TLC finds a publish routed twice, as the table above shows. *Outwards* (`Quiet`, `NumberedOut`,
`SentOnce`, `SameId`, `OnceOut`): a message is in one hand, stored under one id, and repeated under
that id alone; as long as a copy of it may arrive, the client either has not seen it or still remembers the
id. `Quiet` says that nobody publishes before the reader has resent, which is the hypothesis and
is false of the code (`server.go:459`, in the table above).

**The ring of an exchange.** What the client was told of its publish (`AckedIsRouted`) and what it was charged for
(`NeverOverQuota`) are seen from one packet id: `Ring(i, c, u, e, d)` relates what the client waits for, the wire
upwards, the type of the entry and the wire downwards, and nothing else, so that a step of the system is one of a
few steps of a wire: a packet goes first, comes last, concerns another id (`Kept`), or all are gone. Of an
id that is free nothing is left that could answer, or be answered for, its next publish. While the client awaits the first
answer, one that ends the exchange is the last thing there is of it, or comes after one that accepts; while it
awaits the last, repeated publishes come before every release and a PUBCOMP has nothing behind it. It is the order
that carries this: a publish repeated after a reconnect is refused with a PUBREC *behind* the one that accepts, which the
client must read first. `RoutedInv` says that an entry of type PUBREC, an accepting answer on its way, and a client
that releases imply that the message was routed. `QuotaInv` says that whatever the receive quota lacks was taken for
an id in `Charged`, whose PUBREC is recorded and of which no publish is on its way; the publish being read is busy and not
charged, so that the quota has one left for it. `Qos2Msgs = {}` and `MaxExpired = 0` are needed for the quota and
`~WriteFails` for the routing, as the table above shows; `"ignore"` has the hook route instead. For the quota TLC finds no
violation with failing writes either, but the proof does not cover them: the ring then has entries that are
resent as PUBACK and PUBCOMP.

**PriorityMessaging.** `IInv` has a part for each question. The scheduler's: it goes to sleep only with
its queues empty, and sleeps on only while a signal is on its way, although `Signal` comes
after the mutex is released. The order's: numbers grow along each class and along each queue,
and what an aging pass has promoted stays ahead of what came later; `overtakers` of a
packet grows no more once it is promoted. Under `IInv`, `Refinement` maps every step to one
of `FifoChannels`: an `Enqueue` to a send, an injection to a receive, all else, promotion
among it, to a stutter. That takes lemmas on `Nth` and `Kept` (ranks are
taken once, order and members are kept), which is why aging is not written with `SelectSeq`.

**Session.** `Accounts` (types, the connections counted, the will's whereabouts) holds whatever
overlaps: `connected` is the number of goroutines inside `attachClient`, and a will is with its
connection, with the event loop or published, in one place only. `Serial` holds where nothing overlaps
a handshake: it follows the one connection that is joining and says at each of its places where the
subscriptions, the index, the stored messages and the old client are: still with the old
connection, halfway, or with the new one. The hypotheses are those of `SessionSeq`; each of them is
needed, as the rows of the table for `Overlaps` and `MayExpire` show, so that
these theorems say that the faults listed there are the only ones of their kind.

**Connection.** Most of its forty steps leave alone what a property is about. Each respect in which a
step may be quiet is an action predicate (`CountQuiet`, `TokenQuiet`, `OpenQuiet`, `PacketQuiet`,
`ListQuiet`, `Silent`); `NextKeeps` proves every step quiet in all respects but a few, and each
invariant then meets those few. `CountInv`: the counter of the defence is never lower than the number of
connections `Inside` (counted by `OnConnect` and not yet let go) less the sessions restored, each of which
lowered it once without having raised it (`server.go:1679`); those of them that were counted within the
limit (`Low`) are therefore at most `MaxConcurrentConn` plus the restored, and only they are
admitted. The excess does occur, as the row of `ConcurrencyKept` shows. `TokenSpent` is inductive given `Shape`. For the writer, `PipeInv` says that what was
accepted is what was sent, gathered, taken and queued, in this order, and that
gathered packets of an open connection have something behind them that will flush them.

**Routing.** The tree is the set of the paths that lead to its content (`Tree`). `set` adds those of one path;
that `trim` takes out those that only this path needed is `TrimIsTree`, whose proof is about paths:
of two that begin alike, one level is the first at which they part or one of them ends (`Parting`, by
counting), and there the climb of `trim` stops. The rest is that every change of the index is of one of seven
kinds (`IndexStep`), whoever makes it and whatever else is being scanned. The hypothesis keeps the empty topic
out of the retained messages: its particle has an empty `retainPath`, as the table shows. For
the aliases, `Told`: an outbound table only grows, what a client was told is what its table says, and a
message about to be queued has the alias of its topic; so a late, early or dropped introduction can leave an
alias unknown (`AliasResolves`, in the table) but never wrong.

**Scans.** `ScanInv` speaks of every read a scan has still to do (`reads`). Sound: whatever is read at a
particle is, if it is there, content that the topic or filter selects, and in `ever`. Complete: for everything
selected that has been in place throughout, either it is found or one of the reads to do leads to it,
a particle on its path being held, in visit or next in turn. Each read hands its lead on: what it
appends to `reads` has a lead to everything that it led to itself, since the particles of a path that holds
content are in the tree (`TreeIsWellFormed`) and are the children a scan goes on to. A change of the tree
meanwhile cannot cut a lead: `trim` takes out what no content needs, and what is still there needs its path. Hence the
hypothesis, the one of the tree: a message under the empty topic is found by filters that do not match, as the table shows.

**Subscriber and publisher.** `SubscriberLearns` speaks of rest, when every handler is done. `LearnInv` says at
any time where a retained message is that is owed to a subscription (`Owed`): the client has heard it, or
some goroutine brings it (`Brings`): one that has it among what it sends or queues next; the subscriber, whose
scan began with the message in place; the publisher, whose scan began with the subscription in place, or who
has retained the message and not yet begun to look. A step makes something owed only by subscribing or by
retaining, and the goroutine that makes it then brings it (`SubscribeBrings`, `RetainBrings`): there the
order of the two handlers is used, and were either to look before it changed the tree, the lemma would fail.
`ScanComplete` carries it from what was in place to what is found and sent (`SelectBrings`,
`SendRetainedBrings`), and the changes of others leave it in the scan's sight, since what is owed now is in
place now (`OthersBring`). Only messages dropped on the way, which the property exempts, are lost. That the
goroutine of the inline client is not that of a connection is a hypothesis, because its handler ends otherwise.
TLC checked `LearnInv` over all states of the run `Routing` before it was proved.

Only model-checked, and why:

* Liveness (`Delivered`, `TakenOverEnds`, `EveryPacketInjected`) and `ENABLED`: beyond this prover.
* What is computed by folding over a sequence: the codec (`RoundTrip`, `Forwarded`) and the
  stores, whose properties speak of the store after all the writes still to do. That is induction over
  data, and the library's induction theorems take operator parameters, which the provers
  cannot instantiate.
* `NotForgotten`, `QuotaAtRest`, `GaugeAtRest`: true only while no id is reused before its last
  acknowledgement and, for the gauge, no channel overflows and no connection is lost. TLC meets these
  limits as bounds of a run; as hypotheses of a theorem they would exclude what the code does.

## Not modelled

`components` in `PROJECT.json` says for every part what is left out. In full:

* Left out for good: TLS profiles (a table of settings), buffer pool, debug hook, configuration
  parsing and flags, load generators and experiment scripts, the HTTP listeners: no state that
  the broker's behaviour depends on.
* External: the storage engines (a write is atomic, ordered, and durable except for pebble without
  `Sync`), the kernel's block list, the remote peers, TCP (a FIFO).
* The locks taken twice for reading: of `Clients` by `GetByListener` (`clients.go:91`, `:94`), of `Inflight`
  by `NextImmediate` (`inflight.go:96`, `:75`), where a writer waiting in between would block both; torn reads
  of `retainPath` (`topics.go:554`), and the keepalive deadline.
* QosFlow and Session abstract topic and payload; Routing leaves out QoS, identifiers and
  access control, has one filter per packet, levels as atoms, and picks any member of a shared
  group. Connection leaves out what the others have: QoS 2, messages in flight, wills, retained
  messages, expiry, priorities; its topics have one level, its subscriptions QoS 0, a session is
  inherited in one step, client ids are never empty, capabilities have their defaults.
* The codec's bytes: digits of variable byte integers, UTF-8 validity, lengths that
  contradict the frame. Every frame a peer sends here was written by the same encoder.

Read in the code and not stated as properties: the timer of an established connection stops it
when the state of its id was deleted; a budget of properties is charged for rejected packets
and deleted by the connection taken over (`property_validator.go:149`); a token lets
any connection of the id subscribe while the packet is handled (`wildcard_tokens.go:147`); the address
ban never ends (`ebpf_hook.go:97`); `MatchTopic` accepts topics longer than the filter and
not the parent of `a/#`, and the answer of `ACLOk` depends on the order of a Go map; a rejected
QoS 1 publish is not acknowledged (`server.go:885-925`); the PUBACK of a publish with user
properties carries the QoS as its reason code (`server.go:943`).

## Plan

Each component of the code that has behaviour of its own has its module, and its runs. What is
left is proof, in this order:

1. An abstract session, one set of subscriptions and one of messages per client id, that `Session`
   implements where nothing overlaps the handshake; `Serial` is the invariant it needs.
2. Storage: types, and `RecordIsCurrent` if the fold over pending writes can be replaced by what
   the last of them for a key says.
