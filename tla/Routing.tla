------------------------------- MODULE Routing -------------------------------
(***************************************************************************)
(* Publishing, subscribing and retaining over the topic tree, as the       *)
(* goroutines of broker/server.go do it: each runs one handler at a time,  *)
(* a handler is a step for each thing it does to what it shares with the   *)
(* others, and its scans of the tree go on while the others change it.     *)
(***************************************************************************)
EXTENDS TopicsIndex, TopicAliases

CONSTANTS
    Clients, Publishers,   \* Goroutines of connections; some that publish.
    InlineClient, Ticker,  \* A goroutine of the embedding program; eventLoop.
    InlineIds,
    Subscriptions,         \* Options: [noLocal, handling].
    Scenarios,             \* What one behaviour may do (Scenario).
    MaxInbound, MaxOutbound    \* The maxima of the alias tables.

Goroutines == Clients \cup Publishers \cup {InlineClient, Ticker}

\* A scenario: who subscribes to which filters and publishes to which topics,
\* the bounds on both, and what else may happen: publishes that are retained,
\* those that are not, messages that expire or are dropped, UNSUBSCRIBE,
\* clients that leave, aliases given by the broker, by the client, not set.
Flags == {"retain", "plain", "expire", "drop", "leave", "alias", "inbound", "unset",
          "unsubscribe"}
ASSUME Parameters ==
    /\ {MaxInbound, MaxOutbound} \subseteq Nat /\ Subscriptions \subseteq [noLocal : BOOLEAN, handling : 0..2]
    /\ \A s \in Scenarios :
         /\ s.flags \subseteq Flags /\ {s.maxChanges, s.maxPublishes} \subseteq Nat
         /\ s.subscribers \subseteq Clients \cup {InlineClient}
         /\ s.filters \cup s.topics \subseteq Seq(STRING) \ {<<>>}
         /\ s.publishers \subseteq Publishers \cup {InlineClient, Ticker}

VARIABLES
    scenario,
    job,         \* The handler each goroutine is in.
    subscribed,  \* cl.State.Subscriptions of each client: its filters.
    gauges,      \* Info.Subscriptions and Info.Retained.
    inbound, outbound,   \* The alias tables of each connection.
    heard,       \* What reached each client, in order: [topic, of, payload].
    learned,     \* The aliases the client was told: alias -> topic.
    called,      \* <<id, topic, payload>> the inline handlers were given.
    changes, published   \* Counted for the bounds.

state == <<scenario, job, subscribed, gauges, inbound, outbound, heard, learned, called,
           changes, published>>
vars == <<index, state>>

Idle == [op |-> "idle"]
Free(g) == job[g] = Idle
May(flag) == flag \in scenario.flags
OutboundMax == IF May("alias") THEN MaxOutbound ELSE 0   \* TopicAliasMaximum of CONNECT.
Unknown == <<"?">>   \* The topic of an alias the client was not told.

\* A scan, with what its topic or filter selects of what was in the tree
\* throughout it, and of what was in it at some time.
Selects(op, of, s, i, r) ==
    IF op = "publish"
    THEN {<<e[1], e[2], s[e]>> : e \in {e \in DOMAIN s : Routes(e[1], of)}}
         \cup HeldInline({e \in i : RoutesInline(e[1], of)})
    ELSE {[topic |-> t, pk |-> r[t]] : t \in {t \in DOMAIN r : Reads(of, t)}}
Wanted(op, of) == Selects(op, of, subs, inline, retained)
Scan(op, of, by, pk, reads) ==
    [op |-> op, stage |-> "scan", of |-> of, by |-> by, pk |-> pk, reads |-> reads,
     found |-> {}, always |-> Wanted(op, of), ever |-> Wanted(op, of)]

\* The other goroutines' scans after the tree was changed.
Observed(j) ==
    IF j.op \notin {"publish", "messages"} \/ j.stage # "scan" THEN j
    ELSE [j EXCEPT !.reads = StillHeld(@, particles'),
                   !.always = @ \cap Selects(j.op, j.of, subs', inline', retained'),
                   !.ever = @ \cup Selects(j.op, j.of, subs', inline', retained')]
Becomes(g, j) == job' = [x \in Goroutines |-> IF x = g THEN j ELSE Observed(job[x])]
Goes(g, j) == job' = [job EXCEPT ![g] = j]

Init ==
    /\ IndexInit
    /\ scenario \in Scenarios
    /\ job = [g \in Goroutines |-> Idle]
    /\ subscribed = [c \in Clients |-> {}]
    /\ gauges = [subscriptions |-> 0, retained |-> 0]
    /\ inbound = [c \in Publishers |-> <<>>] /\ outbound = [c \in Clients |-> <<>>]
    /\ heard = [c \in Clients |-> <<>>] /\ learned = [c \in Clients |-> <<>>]
    /\ called = {}
    /\ changes = 0 /\ published = 0
-----------------------------------------------------------------------------
(* Subscribing. *)

Change == changes < scenario.maxChanges /\ changes' = changes + 1

\* processSubscribe of one filter: then its retained messages, unless it is
\* shared or its retain handling says otherwise (publishRetainedToClient).
SendsAtMostOnce(f, sub, existed) == ~IsSharedFilter(f) /\ sub.handling = 1 /\ ~existed   \* a mutant
SendsRetained(f, sub, existed) ==
    ~IsSharedFilter(f) /\ ~(sub.handling = 1 /\ existed) /\ sub.handling # 2
Subscribe(c, f, sub) ==
    /\ Free(c) /\ Change /\ IsValidFilter(f, FALSE)
    /\ ~(sub.noLocal /\ IsSharedFilter(f))
    /\ IndexSubscribe(f, c, sub)
    /\ gauges' = [gauges EXCEPT !.subscriptions = @ + (IF IsNew(f, c) THEN 1 ELSE 0)]
    /\ subscribed' = [subscribed EXCEPT ![c] = @ \cup {f}]
    /\ Becomes(c, IF SendsRetained(f, sub, ~IsNew(f, c))
                  THEN Scan("messages", f, c, sub, VisitMessages(f, <<>>)) ELSE Idle)
    /\ UNCHANGED <<scenario, inbound, outbound, heard, learned, called, published>>

\* The gauge goes down where the particle exists (Existed).
Unsubscribed(f, c) ==
    /\ IndexUnsubscribe(f, c)
    /\ gauges' = [gauges EXCEPT !.subscriptions = @ - (IF Existed(f) THEN 1 ELSE 0)]

\* processUnsubscribe.
Unsubscribe(c, f) ==
    /\ May("unsubscribe") /\ Free(c) /\ Change /\ Unsubscribed(f, c)
    /\ subscribed' = [subscribed EXCEPT ![c] = @ \ {f}]
    /\ Becomes(c, Idle)
    /\ UNCHANGED <<scenario, inbound, outbound, heard, learned, called, published>>

\* UnsubscribeClient takes the filters from the client, then each from the tree.
UnsubscribeClient(c) ==
    /\ May("leave") /\ Free(c) /\ Change
    /\ subscribed' = [subscribed EXCEPT ![c] = {}]
    /\ Goes(c, [op |-> "leave", filters |-> subscribed[c]])
    /\ UNCHANGED <<index, scenario, gauges, inbound, outbound, heard, learned, called, published>>
UnsubscribeNext(c) ==
    /\ job[c].op = "leave"
    /\ \/ \E f \in job[c].filters :
            /\ Unsubscribed(f, c)
            /\ Becomes(c, [job[c] EXCEPT !.filters = @ \ {f}])
       \/ job[c].filters = {} /\ Goes(c, Idle) /\ UNCHANGED <<index, gauges>>
    /\ UNCHANGED <<scenario, subscribed, inbound, outbound, heard, learned, called,
                   changes, published>>

\* Server.Subscribe and Server.Unsubscribe of the inline client.
SubscribeInline(f, id) ==
    /\ InlineClient \in scenario.subscribers /\ Free(InlineClient) /\ Change /\ IsValidFilter(f, FALSE)
    /\ InlineSubscribe(f, id)
    /\ Becomes(InlineClient, Scan("messages", f, id, Handler, VisitMessages(f, <<>>)))
    /\ UNCHANGED <<scenario, subscribed, gauges, inbound, outbound, heard, learned, called, published>>
UnsubscribeInline(f, id) ==
    /\ May("unsubscribe") /\ InlineClient \in scenario.subscribers /\ Free(InlineClient) /\ Change /\ IsValidFilter(f, FALSE)
    /\ InlineUnsubscribe(f, id)
    /\ Becomes(InlineClient, Idle)
    /\ UNCHANGED <<scenario, subscribed, gauges, inbound, outbound, heard, learned, called, published>>
-----------------------------------------------------------------------------
(* Publishing. *)

Pk(payload, origin) == [payload |-> payload, origin |-> origin]
StartRouting(t, pk) == Scan("publish", t, pk.origin, pk, Visit(t, <<>>))
StartRetaining(t, pk) == [op |-> "publish", stage |-> "retain", of |-> t, pk |-> pk]
StartPublish(t, pk, retain) ==
    IF retain THEN StartRetaining(t, pk) ELSE StartRouting(t, pk)

\* processPublish, after its checks (QosFlow): the topic of an inbound alias,
\* retainMessage when the retain flag is set, publishToSubscribers.
Publish(g, t, alias, payload, retain) ==
    /\ Free(g) /\ published < scenario.maxPublishes /\ published' = published + 1
    /\ May(IF retain THEN "retain" ELSE "plain")
    /\ g \notin {InlineClient, Ticker} => IsValidFilter(t, TRUE)
    /\ alias > 0 => g \in Publishers
    /\ t = NoTopic => /\ alias > 0 /\ (alias \in DOMAIN inbound[g] \/ May("unset"))
    /\ inbound' = IF alias = 0 THEN inbound
                  ELSE [inbound EXCEPT ![g] = InboundSet(@, MaxInbound, alias, t, NoTopic)]
    /\ LET topic == IF alias = 0 THEN t ELSE InboundTopic(inbound[g], MaxInbound, alias, t, NoTopic)
       IN Goes(g, StartPublish(topic, Pk(payload, g), retain))
    /\ UNCHANGED <<index, scenario, subscribed, gauges, outbound, heard, learned, called, changes>>

\* retainMessage changes the tree and reads the number of retained messages,
\* then stores it; publishSysTopics, on the event loop, leaves the gauge.
RetainPublished(g) ==
    /\ job[g].op = "publish" /\ job[g].stage = "retain"
    /\ RetainMessage(job[g].of, job[g].pk)
    /\ Becomes(g, IF g = Ticker THEN StartRouting(job[g].of, job[g].pk)
                  ELSE [op |-> "publish", stage |-> "gauge", of |-> job[g].of, pk |-> job[g].pk,
                        len |-> Cardinality(DOMAIN retained')])
    /\ UNCHANGED <<scenario, subscribed, gauges, inbound, outbound, heard, learned, called,
                   changes, published>>
StoreGauge(g) ==
    /\ job[g].op = "publish" /\ job[g].stage = "gauge"
    /\ gauges' = [gauges EXCEPT !.retained = job[g].len]
    /\ Goes(g, StartRouting(job[g].of, job[g].pk))
    /\ UNCHANGED <<index, scenario, subscribed, inbound, outbound, heard, learned, called,
                   changes, published>>

\* One read of a scan: scanSubscribers for a publish, scanMessages for a
\* subscription.
ScanStep(g) ==
    /\ job[g].op \in {"publish", "messages"} /\ job[g].stage = "scan" /\ job[g].reads # <<>>
    /\ LET j == job[g]
           r == Head(j.reads)
           more == IF j.op = "publish" THEN {ReadsSubscribers(j.of, r)} ELSE ReadsMessages(j.of, r)
           got == IF j.op = "publish" THEN Gathers(j.of, r) ELSE Finds(j.of, r)
           kept == IF r.do = "inline"   \* One of the handlers of an id: the last.
                   THEN {e \in j.found : e[3] = Handler => \A x \in got : x[2] # e[2]} ELSE j.found
       IN \E next \in more :
            Goes(g, [j EXCEPT !.reads = next \o Tail(@), !.found = kept \cup got])
    /\ UNCHANGED <<index, scenario, subscribed, gauges, inbound, outbound, heard, learned,
                   called, changes, published>>
-----------------------------------------------------------------------------
(* Delivering. *)

\* SelectShared and MergeSharedSelected: one member of each shared filter, and
\* each client once, with NoLocal if one of its subscriptions has it (Merge).
\* pick is the member of each shared filter.
SharedKeys(found) == {e[1] : e \in {e \in found : e[3] # Handler /\ IsSharedFilter(e[1])}}
Members(found, f) == {e[2] : e \in {e \in found : e[1] = f}}
Picks(found) ==
    {pick \in [SharedKeys(found) -> Clients] :
        \A f \in DOMAIN pick : pick[f] \in Members(found, f)}
Merged(found, pick) ==
    {e \in found : e[3] # Handler /\ (IsSharedFilter(e[1]) => pick[e[1]] = e[2])}
Recipients(chosen, origin) ==   \* All but the origin with NoLocal (publishToClient).
    {c \in {e[2] : e \in chosen} :
        ~(c = origin /\ \E e \in chosen : e[2] = c /\ e[3].noLocal)}

Sent(c, t, pk) == [to |-> c, topic |-> t, payload |-> pk.payload]
Scanned(g, op) == job[g].op = op /\ job[g].stage = "scan" /\ job[g].reads = <<>>
Sends(g, messages) ==
    Goes(g, IF messages = {} THEN Idle ELSE [op |-> "send", stage |-> "next", messages |-> messages])

\* publishToSubscribers, its scan made: inline handlers, then the clients.
SelectSubscribers(g) ==
    /\ Scanned(g, "publish")
    /\ called' = called \cup {<<e[2], job[g].of, job[g].pk.payload>> :
                                 e \in {e \in job[g].found : e[3] = Handler}}
    /\ \E pick \in Picks(job[g].found) :
          Sends(g, {Sent(c, job[g].of, job[g].pk) :
                      c \in Recipients(Merged(job[g].found, pick), job[g].pk.origin)})
    /\ UNCHANGED <<index, scenario, subscribed, gauges, inbound, outbound, heard, learned,
                   changes, published>>

\* publishRetainedToClient, and Subscribe for the inline client.
SendRetained(g) ==
    /\ Scanned(g, "messages")
    /\ IF g = InlineClient
       THEN /\ called' = called \cup {<<job[g].by, m.topic, m.pk.payload>> : m \in job[g].found}
            /\ Goes(g, Idle)
       ELSE /\ UNCHANGED called
            /\ Sends(g, {Sent(g, m.topic, m.pk) :
                           m \in {m \in job[g].found : ~(job[g].pk.noLocal /\ m.pk.origin = g)}})
    /\ UNCHANGED <<index, scenario, subscribed, gauges, inbound, outbound, heard, learned,
                   changes, published>>

\* publishToClient takes the alias; a topic that had one goes without its name.
TakeAlias(g) ==
    /\ job[g].op = "send" /\ job[g].stage = "next"
    /\ \E m \in job[g].messages :
          /\ outbound' = [outbound EXCEPT ![m.to] = OutboundSet(@, OutboundMax, m.topic)]
          /\ Goes(g, [op |-> "send", stage |-> "queue", messages |-> job[g].messages \ {m}, out |-> m,
                      alias |-> OutboundAlias(outbound[m.to], OutboundMax, m.topic),
                      named |-> ~Aliased(outbound[m.to], m.topic)])
    /\ UNCHANGED <<index, scenario, subscribed, gauges, inbound, heard, learned, called,
                   changes, published>>

\* It then queues the message, which the client reads in order, or drops it
\* (its quota, its queue or its connection).
Resolve(j) == IF j.named THEN j.out.topic
              ELSE IF j.alias \in DOMAIN learned[j.out.to] THEN learned[j.out.to][j.alias]
              ELSE Unknown
Queue(g) ==
    /\ job[g].op = "send" /\ job[g].stage = "queue"
    /\ LET j == job[g]
           c == j.out.to
       IN
       /\ \/ /\ heard' = [heard EXCEPT ![c] = Append(@, [topic |-> Resolve(j), of |-> j.out.topic,
                                                        payload |-> j.out.payload])]
             /\ learned' = IF j.alias > 0 /\ j.named
                           THEN [learned EXCEPT ![c] = With(@, j.alias, j.out.topic)] ELSE learned
          \/ May("drop") /\ UNCHANGED <<heard, learned>>
       /\ Sends(g, j.messages)
    /\ UNCHANGED <<index, scenario, subscribed, gauges, inbound, outbound, called,
                   changes, published>>
-----------------------------------------------------------------------------
(* The event loop. *)

\* clearExpiredRetainedMessages judges what it reads first, then deletes by topic.
ClearExpired ==
    /\ May("expire") /\ Free(Ticker) /\ Change
    /\ \E doomed \in SUBSET DOMAIN retained \ {{}} :
          Goes(Ticker, [op |-> "expire", pks |-> [t \in doomed |-> retained[t]]])
    /\ UNCHANGED <<index, scenario, subscribed, gauges, inbound, outbound, heard, learned, called,
                   published>>
ClearNext ==
    /\ job[Ticker].op = "expire"
    /\ \E t \in DOMAIN job[Ticker].pks :
          LET left == Without(job[Ticker].pks, t) IN
          /\ DropRetained(t)
          /\ Becomes(Ticker, IF left = <<>> THEN Idle ELSE [op |-> "expire", pks |-> left])
    /\ UNCHANGED <<scenario, subscribed, gauges, inbound, outbound, heard, learned, called,
                   changes, published>>
-----------------------------------------------------------------------------
Payload == published + 1   \* Each publish has a payload of its own.

Next ==
    \/ \E c \in Clients \cap scenario.subscribers, f \in scenario.filters :
         \E sub \in Subscriptions : Subscribe(c, f, sub)
    \/ \E c \in Clients \cap scenario.subscribers, f \in scenario.filters : Unsubscribe(c, f)
    \/ \E c \in Clients \cap scenario.subscribers : UnsubscribeClient(c)
    \/ \E c \in Clients : UnsubscribeNext(c)
    \/ \E f \in scenario.filters, id \in InlineIds : SubscribeInline(f, id)
    \/ \E f \in scenario.filters, id \in InlineIds : UnsubscribeInline(f, id)
    \/ \E g \in scenario.publishers, t \in scenario.topics, retain \in BOOLEAN :
         \E payload \in {Payload} \cup (IF retain THEN {Empty} ELSE {}) :
         \E alias \in IF May("inbound") /\ g \in Publishers THEN 0..MaxInbound ELSE {0} :
            Publish(g, t, alias, payload, retain)
    \/ \E g \in Goroutines : RetainPublished(g)
    \/ \E g \in Goroutines : StoreGauge(g)
    \/ \E g \in Goroutines : ScanStep(g)
    \/ \E g \in Goroutines : SelectSubscribers(g)
    \/ \E g \in Goroutines : SendRetained(g)
    \/ \E g \in Goroutines : TakeAlias(g)
    \/ \E g \in Goroutines : Queue(g)
    \/ ClearExpired
    \/ ClearNext

Spec == Init /\ [][Next]_vars
-----------------------------------------------------------------------------
(* Properties. *)

AtRest == \A g \in Goroutines : Free(g)

\* A scan, made without the lock of the tree, finds every subscription (every
\* retained message) that was in place from its start to its end, whatever
\* others added, removed and trimmed meanwhile; of the inline subscriptions
\* with one id, one of them (scanSubscribers, scanMessages, trim).
ScanComplete ==
    \A g \in Goroutines : Scanned(g, "publish") \/ Scanned(g, "messages") =>
        \A e \in job[g].always :
            \/ e \in job[g].found
            \/ /\ Scanned(g, "publish") /\ e[3] = Handler
               /\ \E x \in job[g].found : x[2] = e[2] /\ x[3] = Handler

\* And it finds nothing that was not in place at some time while it ran and
\* that its topic or filter does not select (the gather functions).
ScanSound ==
    \A g \in Goroutines : Scanned(g, "publish") \/ Scanned(g, "messages") =>
        job[g].found \subseteq job[g].ever

\* Between the changes the tree holds the particles its content needs and no
\* others, and every retained message can be found (set, trim, RetainMessage).
TreeWellFormed == WellFormed

\* Subscribing while a retained message is published, a client gets it as one
\* or the other or both, never as neither: the publisher retains before it
\* looks for subscribers, the subscriber subscribes before it looks for
\* retained messages (processPublish, processSubscribe).
SubscriberLearns ==
    AtRest /\ ~May("drop") => \A e \in DOMAIN subs, t \in DOMAIN retained :
        LET f == e[1]
            c == e[2]
        IN  /\ ~IsSharedFilter(f) /\ Reads(f, t) /\ Routes(f, t)
            /\ subs[e].handling = 0 /\ retained[t].origin # c
            => \E i \in DOMAIN heard[c] :
                 heard[c][i].of = t /\ heard[c][i].payload = retained[t].payload

\* A client that resolves an alias gets the topic of the message, never that
\* of another (OutboundTopicAliases.Set, publishToClient).
AliasFaithful ==
    \A c \in Clients : \A i \in DOMAIN heard[c] : heard[c][i].topic \in {heard[c][i].of, Unknown}
-----------------------------------------------------------------------------
(* What the code does not keep (README, disagreements). *)

\* An alias reaches the client with its topic first: fails when that message
\* is dropped, or queued after one of another goroutine that names the alias.
AliasResolves ==
    \A c \in Clients : \A i \in DOMAIN heard[c] : heard[c][i].topic = heard[c][i].of

\* Filters select what they mean: fails for the parent level of "+/#", for $
\* topics and shared or inline wildcards, for retained messages of the parent
\* level of "#" and of $ topics that are not $SYS.
RoutesWhatMatches ==
    \A f \in scenario.filters, t \in scenario.topics : Routes(f, t) <=> Matches(f, t)
RoutesInlineWhatMatches ==
    \A f \in scenario.filters, t \in scenario.topics :
        ~IsSharedFilter(f) => (RoutesInline(f, t) <=> Matches(f, t))
ReadsWhatMatches ==
    \A f \in scenario.filters, t \in scenario.topics :
        ~IsSharedFilter(f) => (Reads(f, t) <=> Matches(f, t))

\* What a client heard last of a topic that is always retained is what is
\* retained: fails when older news, retained or live, is sent after newer.
LastIsCurrent ==
    AtRest /\ ~May("drop") => \A c \in Clients, t \in DOMAIN retained :
        LET news == SelectSeq(heard[c], LAMBDA h : h.of = t) IN
        <<t, c>> \in DOMAIN subs /\ news # <<>> => Last(news).payload = retained[t].payload

\* Info.Subscriptions counts the subscriptions: fails after an UNSUBSCRIBE of
\* a filter whose particle only others hold (Unsubscribe returns true).
GaugeIsSubscriptions == AtRest => gauges.subscriptions = Cardinality(DOMAIN subs)

\* Info.Retained counts the retained messages: fails after expiry, and when
\* two publishers store their counts in the other order.
GaugeIsRetained == AtRest => gauges.retained = Cardinality(DOMAIN retained)

\* The ticker deletes what it judged: fails for a message retained after.
ExpiresWhatItJudged ==
    job[Ticker].op = "expire" => \A t \in DOMAIN job[Ticker].pks :
        t \in DOMAIN retained => retained[t] = job[Ticker].pks[t]

\* Expiry leaves the particle of the topic behind, for good.
NoParticleLeaks == retainPath \subseteq DOMAIN retained
=============================================================================
