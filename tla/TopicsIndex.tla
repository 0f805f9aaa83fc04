----------------------------- MODULE TopicsIndex -----------------------------
(***************************************************************************)
(* The topic tree (broker/topics.go): the particles, the subscriptions and *)
(* retained paths they hold, the store of retained messages, and the two   *)
(* scans of the tree that run without its lock.                            *)
(*                                                                         *)
(* A topic or filter is the sequence of its levels, and a particle is the  *)
(* path to it, so that the particle of a filter is the filter.  Changes of *)
(* the tree hold the root's lock and are one step.  A scan takes one lock  *)
(* of one map at a time: it is a stack of reads still to make, each at a   *)
(* particle the scan holds.                                                *)
(***************************************************************************)
EXTENDS Integers, FiniteSets, SequencesExt

VARIABLES
    particles,    \* The particles below the root, by their path.
    subs,         \* <<filter, client>> -> subscription, the shared ones too.
    inline,       \* <<filter, id>> of the inline subscriptions.
    retainPath,   \* The particles whose retainPath is not empty.
    retained      \* Retained: topic -> packet.

index == <<particles, subs, inline, retainPath, retained>>

Plus == "+"
Hash == "#"
SysPrefix == "$SYS"
SharePrefix == "$share"
Dollar == {SysPrefix, SharePrefix, "$other"}   \* Levels that start with a $.
NoTopic == <<"">>                              \* The empty topic: one empty level.
Empty == 0                                     \* The empty payload.

\* isolateParticle: the level at depth d, the last one beyond the end.
Level(f, d) == f[IF d < Len(f) THEN d + 1 ELSE Len(f)]
HasNext(f, d) == d + 1 < Len(f)

IsSharedFilter(f) == f[1] = SharePrefix

\* Where set and seek end for a subscription: past "$share" and the group.
PathOf(f) == IF ~IsSharedFilter(f) THEN f
             ELSE IF Len(f) > 2 THEN SubSeq(f, 3, Len(f)) ELSE <<Last(f)>>

Wildcards(f) == {Plus, Hash} \cap ToSet(f)

IsValidFilter(f, forPublish) ==
    /\ forPublish => f[1] # SysPrefix /\ Wildcards(f) = {}
    /\ ~forPublish => f # NoTopic
    /\ Hash \notin ToSet(Front(f))
    /\ IsSharedFilter(f) => Len(f) > 2 /\ f[2] \notin {Plus, Hash}
-----------------------------------------------------------------------------
(* Changes, under the lock of the root. *)

Parents(p) == Prefixes(p) \ {<<>>}     \* p and the particles above it.

\* What holds a particle in the tree, its children apart.
Content(s, i, r) == {PathOf(e[1]) : e \in DOMAIN s} \cup {e[1] : e \in i} \cup r

\* set adds the particles down to p.
Set(p) == particles \cup Parents(p)

\* trim goes up from p and takes out what holds nothing.
TrimLeaf(p, tree, held) == IF p \in held THEN tree ELSE tree \ {p}   \* a mutant
TrimParents(p, tree, held) == tree \ Parents(p)                      \* a mutant
Trim(p, tree, held) ==
    LET bare(q) == q \notin held /\ \A c \in tree : Front(c) = q => c \in Parents(p)
    IN tree \ {q \in Parents(p) : \A c \in Parents(p) : Len(c) >= Len(q) => bare(c)}

With(f, x, y) == [z \in DOMAIN f \cup {x} |-> IF z = x THEN y ELSE f[z]]
Without(f, x) == [z \in DOMAIN f \ {x} |-> f[z]]

IndexInit ==
    /\ particles = {} /\ subs = <<>> /\ inline = {}
    /\ retainPath = {} /\ retained = <<>>

\* Subscribe; true for a subscription that is new.
IsNew(f, client) == <<f, client>> \notin DOMAIN subs
IndexSubscribe(f, client, sub) ==
    /\ particles' = Set(PathOf(f))
    /\ subs' = With(subs, <<f, client>>, sub)
    /\ UNCHANGED <<inline, retainPath, retained>>

\* Unsubscribe; true where the particle exists, whoever subscribed to it.
Existed(f) == PathOf(f) \in particles
IndexUnsubscribe(f, client) ==
    /\ subs' = Without(subs, <<f, client>>)
    /\ particles' = IF Existed(f)
                    THEN Trim(PathOf(f), particles, Content(subs', inline, retainPath))
                    ELSE particles
    /\ UNCHANGED <<inline, retainPath, retained>>

InlineSubscribe(f, id) ==
    /\ particles' = Set(f)
    /\ inline' = inline \cup {<<f, id>>}
    /\ UNCHANGED <<subs, retainPath, retained>>

InlineUnsubscribe(f, id) ==
    /\ inline' = inline \ {<<f, id>>}
    /\ particles' = IF f \in particles
                    THEN Trim(f, particles, Content(subs, inline', retainPath))
                    ELSE particles
    /\ UNCHANGED <<subs, retainPath, retained>>

\* RetainMessage.  The particle of the empty topic gets an empty retainPath.
Retain(topic, pk) ==
    /\ particles' = Set(topic)
    /\ retainPath' = retainPath \cup ({topic} \ {NoTopic})
    /\ retained' = With(retained, topic, pk)
    /\ UNCHANGED <<subs, inline>>
Clear(topic) ==
    /\ retainPath' = retainPath \ {topic}
    /\ retained' = Without(retained, topic)
    /\ particles' = Trim(topic, Set(topic), Content(subs, inline, retainPath'))
    /\ UNCHANGED <<subs, inline>>
RetainMessage(topic, pk) ==
    IF pk.payload # Empty THEN Retain(topic, pk) ELSE Clear(topic)

\* Retained.Delete, without the particle (clearExpiredRetainedMessages).
DropRetained(topic) ==
    /\ retained' = Without(retained, topic)
    /\ UNCHANGED <<particles, subs, inline, retainPath>>
-----------------------------------------------------------------------------
(* Scans.  A read is [do, at, key, left]: at is the particle held, left    *)
(* the children of it still to visit.  A particle that trim took out stays *)
(* empty, whatever is later put in its place: nothing is read of it.       *)

Read(do, at, key) == [do |-> do, at |-> at, key |-> key, left |-> {}]
Nothing == Read("nothing", <<>>, "")
StillHeld(reads, tree) ==
    [i \in DOMAIN reads |-> IF reads[i].at \in tree \cup {<<>>}
                            THEN [reads[i] EXCEPT !.left = @ \cap tree] ELSE Nothing]

\* scanSubscribers at a particle: the level, "+" and "#" below it.
Visit(topic, at) ==
    IF topic = NoTopic THEN <<>>
    ELSE <<Read("level", at, topic[Len(at) + 1]), Read("level", at, Plus), Read("all", at, Hash)>>

Gather(p) == <<Read("subscriptions", p, ""), Read("shared", p, ""), Read("inline", p, "")>>

\* What a read of scanSubscribers leaves to be read next: the inline
\* subscriptions of the particle itself are read for those of "#" below it.
ReadsSubscribers(topic, r) ==
    LET p == Append(r.at, r.key) IN
    IF r.do \notin {"level", "all", "parent"} \/ p \notin particles THEN <<>>
    ELSE CASE r.do = "level" /\ Len(p) < Len(topic) -> Visit(topic, p)
      [] r.do = "level" /\ Len(p) = Len(topic) ->
           Gather(p) \o (IF r.key = Plus THEN <<>> ELSE <<Read("parent", p, Hash)>>)
      [] r.do = "all" -> Gather(p)
      [] r.do = "parent" -> Front(Gather(p)) \o <<Read("inline", r.at, "")>>

\* Subscriptions with their owner and options.
Held(keys) == {<<e[1], e[2], subs[e]>> : e \in keys}
Handler == [inline |-> TRUE]
HeldInline(keys) == {<<e[1], e[2], Handler>> : e \in keys}

GathersDollar(topic, r) ==   \* a mutant
    IF r.do = "subscriptions" THEN Held({e \in DOMAIN subs : e[1] = r.at}) ELSE {}

\* What it gathers, each with its filter: top-level wildcards do not match a
\* $ topic, but those of shared and inline subscriptions do.
Gathers(topic, r) ==
    CASE r.do = "subscriptions" ->
           Held({e \in DOMAIN subs : /\ e[1] = r.at /\ ~IsSharedFilter(e[1])
                                     /\ ~(topic[1] \in Dollar /\ e[1][1] \in {Plus, Hash})})
      [] r.do = "shared" ->
           Held({e \in DOMAIN subs : IsSharedFilter(e[1]) /\ PathOf(e[1]) = r.at})
      [] r.do = "inline" -> HeldInline({e \in inline : e[1] = r.at})
      [] OTHER -> {}

\* scanMessages at a particle.  Children come in any order (a map), each read
\* before what is below it.
VisitMessages(filter, at) == <<Read("children", at, "")>>

Adjacent(filter, at) ==
    {p \in particles : Front(p) = at /\ ~(at = <<>> /\ Last(p) = SysPrefix)}

Below(filter, at, p) ==
    LET d == Len(at) IN
    (IF HasNext(filter, d) THEN <<>> ELSE <<Read("retainPath", p, "")>>)
    \o (IF HasNext(filter, d) \/ Level(filter, d) = Hash THEN VisitMessages(filter, p) ELSE <<>>)

Each(filter, at, left) ==
    IF left = {} THEN {<<>>}
    ELSE {Below(filter, at, p) \o <<[Read("each", at, "") EXCEPT !.left = left \ {p}]>> : p \in left}

\* The ways a read of scanMessages can go on.
ReadsMessages(filter, r) ==
    LET key == Level(filter, Len(r.at))
        next == Append(r.at, key)
    IN
    IF r.do = "each" THEN Each(filter, r.at, r.left)
    ELSE IF r.do # "children" \/ retained = <<>> \/ Wildcards(filter) = {} THEN {<<>>}
    ELSE IF key \in {Plus, Hash} THEN Each(filter, r.at, Adjacent(filter, r.at))
    ELSE {IF next \in particles /\ HasNext(filter, Len(r.at))
          THEN VisitMessages(filter, next) ELSE <<>>}

\* The topics it looks up in Retained: the filter without wildcards, or the
\* retainPath of a particle, which is the empty topic where nothing is retained.
Path(p) == IF p \in retainPath THEN p ELSE NoTopic
LooksUp(filter, r) ==
    LET next == Append(r.at, Level(filter, Len(r.at))) IN
    IF r.do = "retainPath" THEN {Path(r.at)} \ {NoTopic}
    ELSE IF r.do # "children" \/ retained = <<>> THEN {}
    ELSE IF Wildcards(filter) = {} THEN {filter}
    ELSE IF /\ Last(next) \notin {Plus, Hash} /\ next \in particles
            /\ ~HasNext(filter, Len(r.at)) THEN {Path(next)}
    ELSE {}

Finds(filter, r) ==
    {[topic |-> t, pk |-> retained[t]] : t \in LooksUp(filter, r) \cap DOMAIN retained}
-----------------------------------------------------------------------------
(* What the filters mean. *)

\* Whether the filter's levels match the topic's; "#" also matches nothing.
LevelsMatch(f, t) ==
    LET n == Len(f) IN
    IF f[n] = Hash
    THEN Len(t) >= n - 1 /\ \A i \in 1..(n - 1) : f[i] \in {Plus, t[i]}
    ELSE Len(t) = n /\ \A i \in 1..n : f[i] \in {Plus, t[i]}

\* The parent level of "#", which the scans treat in ways of their own.
MatchesParent(f, t) == Last(f) = Hash /\ Len(f) > 1 /\ Len(t) = Len(f) - 1

\* What matching is: $ topics are hidden from wildcards at the top.
Matches(f, t) ==
    /\ LevelsMatch(PathOf(f), t)
    /\ ~(t[1] \in Dollar /\ PathOf(f)[1] \in {Plus, Hash})

\* What scanSubscribers finds of it: not the parent of "+/#"; a $ topic for
\* shared and inline wildcards; no parent for an inline "#".
Routes(f, t) ==
    /\ LevelsMatch(PathOf(f), t)
    /\ IsSharedFilter(f) \/ Matches(f, t)
    /\ MatchesParent(PathOf(f), t) => PathOf(f)[Len(PathOf(f)) - 1] # Plus
RoutesInline(f, t) == LevelsMatch(f, t) /\ ~MatchesParent(f, t)

\* What scanMessages finds of it: no parent for "#", and of the $ topics only
\* $SYS is hidden.
Reads(f, t) ==
    /\ LevelsMatch(f, t) /\ ~MatchesParent(f, t)
    /\ ~(t[1] = SysPrefix /\ f[1] \in {Plus, Hash})

\* The tree is what its content needs, no more and no less, and the message
\* of a topic can be found from its particle.
WellFormed ==
    /\ particles = UNION {Parents(p) : p \in Content(subs, inline, retainPath)
                                              \cup (DOMAIN retained \cap {NoTopic})}
    /\ DOMAIN retained \ {NoTopic} \subseteq retainPath
=============================================================================
