---------------------------- MODULE Scans_proofs ----------------------------
(***************************************************************************)
(* The scans of the topic tree that run without its lock, for any clients, *)
(* filters, topics and scenarios, however the tree changes under them.     *)
(*                                                                         *)
(* A scan is a stack of reads, each at a particle it holds.  The invariant *)
(* (ScanInv) says of every scan that its reads go only where its topic or  *)
(* filter leads, and that each subscription or message that was there      *)
(* throughout is found already or has a read that leads to it.  A read     *)
(* that is made hands the lead on to those it leaves (TopicLeads,          *)
(* FilterFinds).  A change of the tree by another goroutine cannot cut it: *)
(* what is still selected holds its particles in the tree, so that the     *)
(* particle of the read is not trimmed (TopicStays, FilterStays).          *)
(*                                                                         *)
(* On the scans rests that a subscriber learns what is retained (LearnInv):*)
(* of each message owed to a subscription, some goroutine has either the   *)
(* message or the other of the two in hand until the client hears it.      *)
(***************************************************************************)
EXTENDS Routing_proofs

-----------------------------------------------------------------------------
(* What is still to be read.                                                *)

\* A read to be made: the particle is the root or one below it, and so are the children left.
Place == Paths \cup {<<>>}
Reading(r) == DOMAIN r = {"do", "at", "key", "left"} /\ r.at \in Place /\ r.left \subseteq Paths

\* The reads of a sequence of them.
Pending(s) == {s[i] : i \in DOMAIN s}
IsReads(s) == s \in Seq(Pending(s)) /\ \A r \in Pending(s) : Reading(r)

\* Sequences of reads one after the other.
LEMMA BothPending ==
  ASSUME NEW a, NEW b, IsReads(a), IsReads(b)
  PROVE  IsReads(a \o b) /\ Pending(a \o b) = Pending(a) \cup Pending(b)
PROOF
  <1> DEFINE S == Pending(a) \cup Pending(b)
             c == a \o b
  <1>1. a \in Seq(S) /\ b \in Seq(S)
    BY DEF IsReads, Pending
  <1>2. /\ c \in Seq(S) /\ DOMAIN c = 1 .. Len(a) + Len(b) /\ Len(a) \in Nat /\ Len(b) \in Nat
        /\ DOMAIN a = 1 .. Len(a) /\ DOMAIN b = 1 .. Len(b)
        /\ \A i \in 1 .. Len(a) + Len(b) : c[i] = IF i <= Len(a) THEN a[i] ELSE b[i - Len(a)]
    <2> HIDE DEF S
    <2>1. /\ c \in Seq(S) /\ Len(c) = Len(a) + Len(b)
          /\ \A i \in 1 .. Len(a) + Len(b) : c[i] = IF i <= Len(a) THEN a[i] ELSE b[i - Len(a)]
      BY <1>1, ConcatProperties
    <2> HIDE DEF c
    <2> QED
      BY <1>1, <2>1, LenProperties
  <1> HIDE DEF c
  <1>3. Pending(c) \subseteq S
    <2> SUFFICES ASSUME NEW i \in DOMAIN c PROVE c[i] \in S
      BY DEF Pending
    <2>1. CASE i <= Len(a)
      BY <1>2, <2>1 DEF Pending
    <2>2. CASE ~(i <= Len(a))
      <3>1. i - Len(a) \in DOMAIN b
        BY <1>2, <2>2
      <3> QED
        BY <1>2, <2>2, <3>1 DEF Pending
    <2> QED
      BY <2>1, <2>2
  <1>4. \A i \in DOMAIN a : a[i] \in Pending(c)
    <2>1. \A i \in DOMAIN a : i \in DOMAIN c /\ c[i] = a[i]
      BY <1>2
    <2> QED
      BY <2>1 DEF Pending
  <1>5. \A i \in DOMAIN b : b[i] \in Pending(c)
    <2>1. \A i \in DOMAIN b : i + Len(a) \in DOMAIN c /\ c[i + Len(a)] = b[i]
      <3> SUFFICES ASSUME NEW i \in DOMAIN b PROVE i + Len(a) \in DOMAIN c /\ c[i + Len(a)] = b[i]
        OBVIOUS
      <3>1. i \in Nat /\ i >= 1 /\ i + Len(a) \in 1 .. Len(a) + Len(b) /\ ~(i + Len(a) <= Len(a)) /\ (i + Len(a)) - Len(a) = i
        BY <1>2
      <3> QED
        BY <1>2, <3>1
    <2> QED
      BY <2>1 DEF Pending
  <1>6. Pending(c) = S
    BY <1>3, <1>4, <1>5 DEF Pending
  <1>7. c \in Seq(Pending(c)) /\ \A r \in Pending(c) : Reading(r)
    BY <1>2, <1>6 DEF IsReads
  <1> QED
    BY <1>6, <1>7 DEF IsReads, c

\* The first of the reads, and the others.
LEMMA FirstPending ==
  ASSUME NEW s, IsReads(s), s # <<>>
  PROVE  /\ Head(s) \in Pending(s) /\ IsReads(Tail(s)) /\ Pending(s) = {Head(s)} \cup Pending(Tail(s))
PROOF
  <1> DEFINE S == Pending(s)
             t == Tail(s)
  <1>1. s \in Seq(S) /\ Len(s) \in Nat /\ DOMAIN s = 1 .. Len(s) /\ Len(s) # 0
    BY LenProperties, EmptySeq DEF IsReads
  <1>2. /\ t \in Seq(S) /\ DOMAIN t = 1 .. Len(s) - 1 /\ Head(s) = s[1]
        /\ \A i \in 1 .. Len(s) - 1 : t[i] = s[i + 1]
    <2> HIDE DEF S
    <2>1. t \in Seq(S) /\ Len(t) = Len(s) - 1 /\ Head(s) = s[1] /\ \A i \in 1 .. Len(s) - 1 : t[i] = s[i + 1]
      BY <1>1, HeadTailProperties
    <2> HIDE DEF t
    <2> QED
      BY <2>1, LenProperties
  <1> HIDE DEF t
  <1>3. Head(s) \in S
    BY <1>1, <1>2 DEF Pending
  <1>4. \A i \in DOMAIN t : t[i] \in S
    BY <1>1, <1>2 DEF Pending
  <1>5. \A i \in DOMAIN s : s[i] = Head(s) \/ s[i] \in Pending(t)
    <2> SUFFICES ASSUME NEW i \in DOMAIN s, i # 1 PROVE s[i] \in Pending(t)
      BY <1>2
    <2>1. i - 1 \in DOMAIN t /\ t[i - 1] = s[i]
      BY <1>1, <1>2
    <2> QED
      BY <2>1 DEF Pending
  <1>6. Pending(t) \subseteq S /\ t \in Seq(Pending(t))
    <2>1. \A i \in 1 .. Len(s) - 1 : t[i] \in Pending(t)
      BY <1>2 DEF Pending
    <2>2. t \in Seq(Pending(t))
      BY <1>1, <1>2, <2>1
    <2> QED
      BY <1>4, <2>2 DEF Pending
  <1>7. S = {Head(s)} \cup Pending(t)
    BY <1>3, <1>5, <1>6 DEF Pending
  <1>8. IsReads(t)
    BY <1>6 DEF IsReads
  <1> QED
    BY <1>3, <1>7, <1>8 DEF t

\* Reads one by one.
LEMMA ListedPending ==
  /\ IsReads(<<>>) /\ Pending(<<>>) = {}
  /\ \A x : Reading(x) => IsReads(<<x>>) /\ Pending(<<x>>) = {x}
  /\ \A x, y : Reading(x) /\ Reading(y) => IsReads(<<x, y>>) /\ Pending(<<x, y>>) = {x, y}
  /\ \A x, y, z : Reading(x) /\ Reading(y) /\ Reading(z) =>
       IsReads(<<x, y, z>>) /\ Pending(<<x, y, z>>) = {x, y, z}
PROOF
  <1>1. IsReads(<<>>) /\ Pending(<<>>) = {}
    BY DEF Pending, IsReads
  <1>2. ASSUME NEW x, Reading(x) PROVE IsReads(<<x>>) /\ Pending(<<x>>) = {x}
    BY <1>2 DEF Pending, IsReads
  <1>3. ASSUME NEW x, NEW y, Reading(x), Reading(y) PROVE IsReads(<<x, y>>) /\ Pending(<<x, y>>) = {x, y}
    BY <1>3 DEF Pending, IsReads
  <1>4. ASSUME NEW x, NEW y, NEW z, Reading(x), Reading(y), Reading(z)
        PROVE  IsReads(<<x, y, z>>) /\ Pending(<<x, y, z>>) = {x, y, z}
    BY <1>4 DEF Pending, IsReads
  <1> QED
    BY <1>1, <1>2, <1>3, <1>4

\* Reads that trim left nothing to find for become the read of nothing; the others keep
\* those of the children that are still there.
LEMMA HeldPending ==
  ASSUME NEW s, IsReads(s), NEW tree
  PROVE  /\ IsReads(StillHeld(s, tree))
         /\ \A r \in Pending(StillHeld(s, tree)) :
              r = Nothing \/ \E x \in Pending(s) : r = [x EXCEPT !.left = x.left \cap tree]
         /\ \A x \in Pending(s) : x.at \in tree \cup {<<>>} =>
              [x EXCEPT !.left = x.left \cap tree] \in Pending(StillHeld(s, tree))
PROOF
  <1> DEFINE h == StillHeld(s, tree)
  <1>1. s \in Seq(Pending(s)) /\ Len(s) \in Nat /\ DOMAIN s = 1 .. Len(s)
    BY LenProperties DEF IsReads
  <1>2. /\ h = [i \in 1 .. Len(s) |-> IF s[i].at \in tree \cup {<<>>}
                                       THEN [s[i] EXCEPT !.left = s[i].left \cap tree] ELSE Nothing]
    BY <1>1 DEF StillHeld
  <1> HIDE DEF h
  <1>3. DOMAIN h = 1 .. Len(s) /\ \A i \in 1 .. Len(s) : h[i] \in Pending(h)
    BY <1>2 DEF Pending
  <1>4. h \in Seq(Pending(h))
    <2>1. h \in [1 .. Len(s) -> Pending(h)]
      BY <1>2, <1>3
    <2> QED
      BY <1>1, <2>1, SeqDef
  <1>5. \A r \in Pending(h) : r = Nothing \/ \E x \in Pending(s) : r = [x EXCEPT !.left = x.left \cap tree]
    BY <1>1, <1>2 DEF Pending
  <1>6. Reading(Nothing)
    BY DEF Nothing, Read, Reading, Place
  <1>7. \A x : Reading(x) => Reading([x EXCEPT !.left = x.left \cap tree])
    BY DEF Reading
  <1>8. \A x \in Pending(s) : x.at \in tree \cup {<<>>} => [x EXCEPT !.left = x.left \cap tree] \in Pending(h)
    BY <1>1, <1>2 DEF Pending
  <1> QED
    BY <1>4, <1>5, <1>6, <1>7, <1>8 DEF IsReads, h

-----------------------------------------------------------------------------
(* From a particle to the one below.                                        *)

\* x is p, or above it; the root is above every particle.
Above(x, p) == Len(x) <= Len(p) /\ \A i \in 1 .. Len(x) : x[i] = p[i]

\* A place has levels, as many as it is deep.
LEMMA PlaceLevels ==
  ASSUME NEW p \in Place
  PROVE  p \in Seq(STRING) /\ Len(p) \in Nat /\ DOMAIN p = 1 .. Len(p) /\ (Len(p) = 0 <=> p = <<>>)
PROOF
  <1>1. p \in Seq(STRING)
    BY EmptySeq DEF Place, Paths
  <1>2. Len(p) \in Nat /\ DOMAIN p = 1 .. Len(p)
    BY <1>1, LenProperties
  <1>3. Len(p) = 0 <=> p = <<>>
    BY <1>1, EmptySeq
  <1> QED
    BY <1>1, <1>2, <1>3

\* One level more.
LEMMA NextPlace ==
  ASSUME NEW at \in Place, NEW key
  PROVE  LET q == Append(at, key)
         IN  /\ Len(at) \in Nat /\ Len(q) = Len(at) + 1 /\ q[Len(at) + 1] = key
             /\ \A i \in 1 .. Len(at) : q[i] = at[i]
PROOF
  <1> DEFINE S == STRING \cup {key}
  <1>1. at \in Seq(S)
    BY PlaceLevels
  <1>2. Len(at) \in Nat
    BY PlaceLevels
  <1> HIDE DEF S
  <1>3. key \in S
    BY DEF S
  <1> QED
    BY <1>1, <1>2, <1>3, AppendProperties

\* On the way to p, the next level is that of p, and the particle is one that leads to p.
LEMMA NextAbove ==
  ASSUME NEW at \in Place, NEW key, NEW p \in Paths
  PROVE  LET q == Append(at, key)
         IN  /\ Above(q, p) => Leads(q, p) /\ (Len(q) = Len(p) => q = p)
             /\ Above(at, p) /\ Len(at) < Len(p) /\ key = p[Len(at) + 1] => Above(q, p)
PROOF
  <1> DEFINE q == Append(at, key)
  <1>1. /\ Len(at) \in Nat /\ Len(q) = Len(at) + 1 /\ q[Len(at) + 1] = key
        /\ \A i \in 1 .. Len(at) : q[i] = at[i]
    BY NextPlace
  <1>2. p \in Seq(STRING) /\ Len(p) \in Nat /\ \A i \in 1 .. Len(p) : p[i] \in STRING
    <2>1. p \in Seq(STRING) /\ Len(p) \in Nat
      BY PlaceLevels DEF Place, Paths
    <2> QED
      BY <2>1, ElementOfSeq
  <1>3. ASSUME Above(q, p) PROVE Leads(q, p) /\ (Len(q) = Len(p) => q = p)
    <2>1. key \in STRING
      BY <1>1, <1>2, <1>3 DEF Above
    <2>2. at \in Seq(STRING)
      BY PlaceLevels
    <2>3. q \in Seq(STRING)
      BY <2>1, <2>2, AppendProperties
    <2> HIDE DEF q
    <2>4. q \in Paths
      BY <1>1, <2>3, EmptySeq DEF Paths
    <2>5. Len(q) = Len(p) => q = p
      BY <1>2, <1>3, <2>3, SeqEqual DEF Above
    <2> QED
      BY <1>3, <2>4, <2>5 DEF Above, Leads
  <1>4. ASSUME Above(at, p), Len(at) < Len(p), key = p[Len(at) + 1] PROVE Above(q, p)
    <2> HIDE DEF q
    <2>1. Len(q) <= Len(p)
      BY <1>1, <1>2, <1>4
    <2>2. ASSUME NEW i \in 1 .. Len(q) PROVE q[i] = p[i]
      BY <1>1, <1>4, <2>2 DEF Above
    <2> QED
      BY <2>1, <2>2 DEF Above
  <1> QED
    BY <1>3, <1>4

-----------------------------------------------------------------------------
(* The scan for subscribers.                                                *)

\* Where a scan for a topic goes, and what it gathers.
Follows(p, t) == Len(p) <= Len(t) /\ \A i \in 1 .. Len(p) : p[i] \in {Plus, t[i]}
Gathered(p, t) == p \in Paths /\ LevelsMatch(p, t) /\ (MatchesParent(p, t) => p[Len(p) - 1] # Plus)
FitsTopic(t, r) ==
  \/ r.do = "nothing"
  \/ r.do = "level" /\ Follows(r.at, t) /\ Len(r.at) < Len(t) /\ r.key \in {Plus, t[Len(r.at) + 1]}
  \/ r.do = "all" /\ Follows(r.at, t) /\ Len(r.at) < Len(t) /\ r.key = Hash
  \/ r.do = "parent" /\ Follows(r.at, t) /\ Len(r.at) = Len(t) /\ r.key = Hash /\ r.at[Len(r.at)] # Plus
  \/ r.do \in {"subscriptions", "shared"} /\ Gathered(r.at, t)
  \/ r.do = "inline" /\ r.at \in Paths /\ RoutesInline(r.at, t)

\* A read is of a place.
LEMMA ReadIs ==
  ASSUME NEW do, NEW at \in Place, NEW key
  PROVE  LET r == Read(do, at, key)
         IN  Reading(r) /\ r.do = do /\ r.at = at /\ r.key = key /\ r.left = {}
BY DEF Read, Reading

\* The reads at a particle that is gathered.
LEMMA GatherPending ==
  ASSUME NEW p \in Paths
  PROVE  LET g == Gather(p)
         IN  /\ IsReads(g) /\ \A x \in Pending(g) : x.at = p /\ x.do \in {"subscriptions", "shared", "inline"}
             /\ \A do \in {"subscriptions", "shared", "inline"} : \E x \in Pending(g) : x.at = p /\ x.do = do
PROOF
  <1> DEFINE a == Read("subscriptions", p, "")
             b == Read("shared", p, "")
             c == Read("inline", p, "")
             g == Gather(p)
  <1>1. Reading(a) /\ Reading(b) /\ Reading(c)
    BY ReadIs DEF Place
  <1>2. g = <<a, b, c>>
    BY DEF Gather
  <1>3. a.at = p /\ b.at = p /\ c.at = p /\ a.do = "subscriptions" /\ b.do = "shared" /\ c.do = "inline"
    BY DEF Read
  <1> HIDE DEF a, b, c, g
  <1>4. IsReads(g) /\ Pending(g) = {a, b, c}
    BY <1>1, <1>2, ListedPending
  <1>5. \A x \in Pending(g) : x.at = p /\ x.do \in {"subscriptions", "shared", "inline"}
    BY <1>3, <1>4
  <1>6. \A do \in {"subscriptions", "shared", "inline"} : \E x \in Pending(g) : x.at = p /\ x.do = do
    BY <1>3, <1>4
  <1> QED
    BY <1>4, <1>5, <1>6 DEF g

\* Those for the parent level of "#": the inline subscriptions are those of another particle.
Inline(at) == Read("inline", at, "")
ParentReads(p, at) == Front(Gather(p)) \o <<Inline(at)>>

\* They are of the particle of "#", but for the inline ones.
LEMMA ParentPending ==
  ASSUME NEW p \in Paths, NEW at \in Place
  PROVE  LET h == ParentReads(p, at)
         IN  /\ IsReads(h)
             /\ \A x \in Pending(h) : (x.at = p /\ x.do \in {"subscriptions", "shared"}) \/ (x.at = at /\ x.do = "inline")
             /\ \A do \in {"subscriptions", "shared"} : \E x \in Pending(h) : x.at = p /\ x.do = do
PROOF
  <1> DEFINE a == Read("subscriptions", p, "")
             b == Read("shared", p, "")
             c == Read("inline", p, "")
             d == Inline(at)
             h == ParentReads(p, at)
  <1>1. Reading(a) /\ Reading(b) /\ Reading(d)
    BY ReadIs DEF Place, Inline
  <1>2. h = Front(<<a, b, c>>) \o <<d>>
    BY DEF Gather, ParentReads
  <1>3. a.at = p /\ b.at = p /\ d.at = at /\ a.do = "subscriptions" /\ b.do = "shared" /\ d.do = "inline"
    BY DEF Read, Inline
  <1> HIDE DEF a, b, c, d, h
  <1>4. Front(<<a, b, c>>) = <<a, b>>
    <2>1. /\ <<a, b, c>> \in Seq({a, b, c}) /\ Len(<<a, b, c>>) = 3
          /\ <<a, b, c>>[1] = a /\ <<a, b, c>>[2] = b
      OBVIOUS
    <2> DEFINE f == SubSeq(<<a, b, c>>, 1, 2)
    <2>2. /\ f \in Seq({a, b, c}) /\ Len(f) = 2 /\ f[1] = <<a, b, c>>[1] /\ f[2] = <<a, b, c>>[2]
      BY <2>1, SubSeqProperties
    <2>3. /\ <<a, b>> \in Seq({a, b, c}) /\ Len(<<a, b>>) = 2 /\ <<a, b>>[1] = a /\ <<a, b>>[2] = b
      OBVIOUS
    <2>4. f = <<a, b>>
      <3> HIDE DEF f
      <3> DEFINE y == <<a, b>>
      <3>1. \A i \in 1 .. Len(f) : f[i] = y[i]
        BY <2>1, <2>2, <2>3
      <3>2. y \in Seq({a, b, c}) /\ Len(y) = Len(f)
        BY <2>2, <2>3
      <3> HIDE DEF y
      <3>3. f = y
        BY <2>2, <3>1, <3>2, SeqEqual
      <3> QED
        BY <3>3 DEF y
    <2> QED
      BY <2>1, <2>4 DEF Front
  <1>5. /\ IsReads(<<a, b>>) /\ Pending(<<a, b>>) = {a, b} /\ IsReads(<<d>>) /\ Pending(<<d>>) = {d}
    BY <1>1, ListedPending
  <1>6. IsReads(<<a, b>> \o <<d>>) /\ Pending(<<a, b>> \o <<d>>) = {a, b} \cup {d}
    BY <1>5, BothPending
  <1>7. IsReads(h) /\ Pending(h) = {a, b, d}
    BY <1>2, <1>4, <1>6
  <1>8. \A x \in Pending(h) : (x.at = p /\ x.do \in {"subscriptions", "shared"}) \/ (x.at = at /\ x.do = "inline")
    BY <1>3, <1>7
  <1>9. \A do \in {"subscriptions", "shared"} : \E x \in Pending(h) : x.at = p /\ x.do = do
    BY <1>3, <1>7
  <1> QED
    BY <1>7, <1>8, <1>9 DEF h

\* The reads at a place above what the topic says.
LEMMA VisitPending ==
  ASSUME NEW t, NEW at \in Place
  PROVE  /\ IsReads(Visit(t, at))
         /\ \A x \in Pending(Visit(t, at)) :
              x.at = at /\ ((x.do = "level" /\ x.key \in {Plus, t[Len(at) + 1]}) \/ (x.do = "all" /\ x.key = Hash))
         /\ t # NoTopic =>
              \A key \in {Plus, t[Len(at) + 1]} :
                 \E x \in Pending(Visit(t, at)) : x.do = "level" /\ x.at = at /\ x.key = key
         /\ t # NoTopic => \E x \in Pending(Visit(t, at)) : x.do = "all" /\ x.at = at /\ x.key = Hash
PROOF
  <1> DEFINE a == Read("level", at, t[Len(at) + 1])
             b == Read("level", at, Plus)
             c == Read("all", at, Hash)
             v == Visit(t, at)
  <1>1. Reading(a) /\ Reading(b) /\ Reading(c)
    BY ReadIs
  <1>2. v = IF t = NoTopic THEN <<>> ELSE <<a, b, c>>
    BY DEF Visit
  <1>3. /\ a.at = at /\ b.at = at /\ c.at = at /\ a.do = "level" /\ b.do = "level" /\ c.do = "all"
        /\ a.key = t[Len(at) + 1] /\ b.key = Plus /\ c.key = Hash
    BY DEF Read
  <1> HIDE DEF a, b, c, v
  <1>4. IsReads(<<a, b, c>>) /\ Pending(<<a, b, c>>) = {a, b, c} /\ IsReads(<<>>) /\ Pending(<<>>) = {}
    BY <1>1, ListedPending
  <1>5. CASE t = NoTopic
    <2>1. IsReads(v) /\ Pending(v) = {}
      BY <1>2, <1>4, <1>5
    <2> QED
      BY <1>5, <2>1 DEF v
  <1>6. CASE t # NoTopic
    <2>1. IsReads(v) /\ Pending(v) = {a, b, c}
      BY <1>2, <1>4, <1>6
    <2>2. \A x \in Pending(v) :
            x.at = at /\ ((x.do = "level" /\ x.key \in {Plus, t[Len(at) + 1]}) \/ (x.do = "all" /\ x.key = Hash))
      BY <1>3, <2>1
    <2>3. \A key \in {Plus, t[Len(at) + 1]} : \E x \in Pending(v) : x.do = "level" /\ x.at = at /\ x.key = key
      BY <1>3, <2>1
    <2>4. \E x \in Pending(v) : x.do = "all" /\ x.at = at /\ x.key = Hash
      BY <1>3, <2>1
    <2> QED
      BY <2>1, <2>2, <2>3, <2>4 DEF v
  <1> QED
    BY <1>5, <1>6


\* One level more of what follows the topic, or "#" below it.
LEMMA Reached ==
  ASSUME NEW t \in Paths, NEW at \in Place, NEW key, Append(at, key) \in Paths, Follows(at, t)
  PROVE  LET p == Append(at, key)
         IN  /\ Len(p) = Len(at) + 1
             /\ Len(at) < Len(t) /\ key \in {Plus, t[Len(at) + 1]} =>
                  Follows(p, t) /\ (Len(p) = Len(t) => Gathered(p, t) /\ RoutesInline(p, t))
             /\ Len(at) < Len(t) /\ key = Hash => Gathered(p, t) /\ RoutesInline(p, t)
             /\ Len(at) = Len(t) /\ key = Hash /\ at[Len(at)] # Plus => Gathered(p, t)
PROOF
  <1> DEFINE p == Append(at, key)
  <1>1. /\ Len(at) \in Nat /\ Len(p) = Len(at) + 1 /\ p[Len(at) + 1] = key
        /\ \A i \in 1 .. Len(at) : p[i] = at[i]
    BY NextPlace
  <1>2. Len(t) \in Nat /\ Len(at) <= Len(t) /\ \A i \in 1 .. Len(at) : at[i] \in {Plus, t[i]}
    BY PlaceLevels DEF Place, Follows
  <1>3. p \in Paths /\ Last(p) = key
    BY <1>1 DEF Last
  <1> HIDE DEF p
  <1>4. ASSUME Len(at) < Len(t), key \in {Plus, t[Len(at) + 1]}
        PROVE  Follows(p, t) /\ (Len(p) = Len(t) => Gathered(p, t) /\ RoutesInline(p, t))
    <2>1. \A i \in 1 .. Len(p) : p[i] \in {Plus, t[i]}
      BY <1>1, <1>2, <1>4
    <2>2. Follows(p, t)
      BY <1>1, <1>2, <1>4, <2>1 DEF Follows
    <2>3. ASSUME Len(p) = Len(t) PROVE LevelsMatch(p, t) /\ ~MatchesParent(p, t)
      BY <1>1, <1>2, <2>1, <2>3 DEF LevelsMatch, MatchesParent
    <2> QED
      BY <1>3, <2>2, <2>3 DEF Gathered, RoutesInline
  <1>5. ASSUME key = Hash PROVE LevelsMatch(p, t) /\ (MatchesParent(p, t) => Len(at) = Len(t))
    BY <1>1, <1>2, <1>3, <1>5 DEF LevelsMatch, MatchesParent
  <1>6. ASSUME Len(at) < Len(t), key = Hash PROVE Gathered(p, t) /\ RoutesInline(p, t)
    BY <1>1, <1>2, <1>3, <1>5, <1>6 DEF Gathered, RoutesInline
  <1>7. ASSUME Len(at) = Len(t), key = Hash, at[Len(at)] # Plus PROVE Gathered(p, t)
    <2>1. MatchesParent(p, t) => p[Len(p) - 1] # Plus
      <3>1. MatchesParent(p, t) => Len(at) \in 1 .. Len(at)
        BY <1>1 DEF MatchesParent
      <3> QED
        BY <1>1, <1>7, <3>1
    <2> QED
      BY <1>3, <1>5, <1>7, <2>1 DEF Gathered
  <1> QED
    BY <1>1, <1>4, <1>6, <1>7 DEF p

\* What fits a topic, by what is read.
LEMMA Fitting ==
  ASSUME NEW t, NEW x
  PROVE  /\ x.do \in {"subscriptions", "shared"} /\ Gathered(x.at, t) => FitsTopic(t, x)
         /\ x.do = "inline" /\ x.at \in Paths /\ RoutesInline(x.at, t) => FitsTopic(t, x)
         /\ Follows(x.at, t) /\ Len(x.at) < Len(t) =>
              /\ x.do = "level" /\ x.key \in {Plus, t[Len(x.at) + 1]} => FitsTopic(t, x)
              /\ x.do = "all" /\ x.key = Hash => FitsTopic(t, x)
         /\ x.do = "parent" /\ Follows(x.at, t) /\ Len(x.at) = Len(t) /\ x.key = Hash /\ x.at[Len(x.at)] # Plus => FitsTopic(t, x)
BY DEF FitsTopic

\* A scan for a topic goes where the topic leads (scanSubscribers).
LEMMA TopicFits ==
  ASSUME NEW t \in Paths, NEW r, Reading(r), FitsTopic(t, r), particles \subseteq Paths
  PROVE  /\ IsReads(ReadsSubscribers(t, r))
         /\ \A x \in Pending(ReadsSubscribers(t, r)) : Reading(x) /\ FitsTopic(t, x)
PROOF
  <1> DEFINE p == Append(r.at, r.key)
             next == ReadsSubscribers(t, r)
  <1> SUFFICES IsReads(next) /\ \A x \in Pending(next) : FitsTopic(t, x)
    BY DEF IsReads
  <1>0. r.at \in Place
    BY DEF Reading
  <1>1. CASE r.do \notin {"level", "all", "parent"} \/ p \notin particles
    <2>1. next = <<>>
      BY <1>1 DEF ReadsSubscribers
    <2> QED
      BY <2>1, ListedPending
  <1>2. ASSUME p \in Paths, Gathered(p, t), RoutesInline(p, t)
        PROVE  IsReads(Gather(p)) /\ \A x \in Pending(Gather(p)) : FitsTopic(t, x)
    <2> HIDE DEF p
    <2>1. IsReads(Gather(p)) /\ \A x \in Pending(Gather(p)) : x.at = p /\ x.do \in {"subscriptions", "shared", "inline"}
      BY <1>0, <1>2, GatherPending
    <2> QED
      BY <1>2, <2>1, Fitting
  <1>3. CASE r.do = "level" /\ p \in particles /\ Len(p) < Len(t)
    <2>1. next = Visit(t, p)
      BY <1>3 DEF ReadsSubscribers
    <2>2. Follows(p, t) /\ p \in Place
      BY <1>0, <1>3, Reached DEF FitsTopic, Place
    <2> HIDE DEF p, next
    <2>3. IsReads(next) /\ \A x \in Pending(next) :
            x.at = p /\ \/ x.do = "level" /\ x.key \in {Plus, t[Len(p) + 1]}
                        \/ x.do = "all" /\ x.key = Hash
      BY <2>1, <2>2, VisitPending
    <2> QED
      BY <1>3, <2>2, <2>3, Fitting
  <1>4. CASE r.do = "level" /\ p \in particles /\ ~(Len(p) < Len(t))
    <2>1. Follows(r.at, t) /\ Len(r.at) < Len(t) /\ r.key \in {Plus, t[Len(r.at) + 1]} /\ Len(t) \in Nat /\ Len(r.at) \in Nat
      BY <1>0, <1>4, PlaceLevels DEF FitsTopic, Place
    <2>2. Len(p) = Len(r.at) + 1
      BY <1>0, NextPlace
    <2>3. Len(p) = Len(t)
      BY <1>4, <2>1, <2>2
    <2>4. p \in Paths /\ Follows(p, t) /\ Gathered(p, t) /\ RoutesInline(p, t)
      BY <1>0, <1>4, <2>1, <2>3, Reached
    <2> DEFINE more == IF r.key = Plus THEN <<>> ELSE <<Read("parent", p, Hash)>>
    <2>5. next = Gather(p) \o more
      BY <1>4, <2>3 DEF ReadsSubscribers
    <2>6. p[Len(p)] = r.key /\ p \in Place
      BY <1>0, <2>2, <2>4, NextPlace DEF Place
    <2>7. IsReads(more) /\ \A x \in Pending(more) : FitsTopic(t, x)
      <3>1. CASE r.key = Plus
        BY <3>1, ListedPending
      <3>2. CASE r.key # Plus
        <4>1. Reading(Read("parent", p, Hash)) /\ FitsTopic(t, Read("parent", p, Hash))
          <5> HIDE DEF p
          <5> QED
            BY <2>3, <2>4, <2>6, <3>2 DEF FitsTopic, Read, Reading
        <4> HIDE DEF p
        <4> QED
          BY <3>2, <4>1, ListedPending
      <3> QED
        BY <3>1, <3>2
    <2> HIDE DEF p, more, next
    <2>8. IsReads(next) /\ Pending(next) = Pending(Gather(p)) \cup Pending(more)
      BY <1>2, <2>4, <2>5, <2>7, BothPending
    <2> QED
      BY <1>2, <2>4, <2>7, <2>8
  <1>5. CASE r.do = "all" /\ p \in particles
    <2>1. Gathered(p, t) /\ RoutesInline(p, t) /\ p \in Paths
      BY <1>0, <1>5, Reached DEF FitsTopic
    <2>2. next = Gather(p)
      BY <1>5 DEF ReadsSubscribers
    <2> QED
      BY <1>2, <2>1, <2>2
  <1>6. CASE r.do = "parent" /\ p \in particles
    <2>1. Follows(r.at, t) /\ Len(r.at) = Len(t) /\ r.key = Hash /\ r.at[Len(r.at)] # Plus
      BY <1>6 DEF FitsTopic
    <2>2. Gathered(p, t) /\ p \in Paths
      BY <1>0, <1>6, <2>1, Reached
    <2>3. next = ParentReads(p, r.at)
      BY <1>6 DEF ReadsSubscribers, Inline, ParentReads
    <2>4. r.at \in Paths /\ RoutesInline(r.at, t)
      <3>1. Len(t) \in Nat \ {0} /\ Len(r.at) \in Nat
        BY PartOfPath, PlaceLevels, <1>0
      <3>2. r.at \in Paths
        BY <1>0, <2>1, <3>1, EmptySeq DEF Place
      <3>3. LevelsMatch(r.at, t) /\ ~MatchesParent(r.at, t)
        BY <2>1, <3>1 DEF Follows, LevelsMatch, MatchesParent
      <3> QED
        BY <3>2, <3>3 DEF RoutesInline
    <2> HIDE DEF p, next
    <2>5. IsReads(next) /\ \A x \in Pending(next) : \/ x.at = p /\ x.do \in {"subscriptions", "shared"}
                                                    \/ x.at = r.at /\ x.do = "inline"
      BY <1>0, <2>2, <2>3, ParentPending
    <2> QED
      BY <2>2, <2>4, <2>5, Fitting
  <1> QED
    BY <1>1, <1>3, <1>4, <1>5, <1>6

\* What a topic selects of the subscriptions, and what a filter does of the retained messages.
Chosen(t) == Selects("publish", t, subs, inline, retained)
Readable(f) == Selects("messages", f, subs, inline, retained)

\* What a topic selects, and what a read gathers, one by one.
LEMMA SelectedIs ==
  ASSUME NEW t, NEW s, NEW i, NEW m, NEW e
  PROVE  e \in Selects("publish", t, s, i, m) <=>
           \/ \E k \in DOMAIN s : Routes(k[1], t) /\ e = <<k[1], k[2], s[k]>>
           \/ \E k \in i : RoutesInline(k[1], t) /\ e = <<k[1], k[2], Handler>>
BY DEF Selects, HeldInline

\* What a read gathers is at its particle.
LEMMA GatheredIs ==
  ASSUME NEW t, NEW r, NEW e
  PROVE  e \in Gathers(t, r) <=>
           \/ r.do = "subscriptions" /\ \E k \in DOMAIN subs :
                /\ k[1] = r.at /\ ~IsSharedFilter(k[1])
                /\ ~(t[1] \in Dollar /\ k[1][1] \in {Plus, Hash})
                /\ e = <<k[1], k[2], subs[k]>>
           \/ r.do = "shared" /\ \E k \in DOMAIN subs :
                IsSharedFilter(k[1]) /\ PathOf(k[1]) = r.at /\ e = <<k[1], k[2], subs[k]>>
           \/ r.do = "inline" /\ \E k \in inline : k[1] = r.at /\ e = <<k[1], k[2], Handler>>
PROOF
  <1>1. CASE r.do = "subscriptions"
    BY <1>1 DEF Gathers, Held
  <1>2. CASE r.do = "shared"
    BY <1>2 DEF Gathers, Held
  <1>3. CASE r.do = "inline"
    BY <1>3 DEF Gathers, HeldInline
  <1>4. CASE r.do \notin {"subscriptions", "shared", "inline"}
    BY <1>4 DEF Gathers
  <1> QED
    BY <1>1, <1>2, <1>3, <1>4

\* A handler is no subscription's options.
LEMMA HandlerApart == Handler \notin Subscriptions
PROOF
  <1>1. Subscriptions \subseteq [noLocal : BOOLEAN, handling : 0..2]
    BY Parameters
  <1>2. \A x \in [noLocal : BOOLEAN, handling : 0..2] : "noLocal" \in DOMAIN x
    OBVIOUS
  <1>3. "noLocal" \notin DOMAIN Handler
    BY DEF Handler
  <1> QED
    BY <1>1, <1>2, <1>3

\* A scan for a topic gathers what the topic selects, and nothing else (the gather functions).
LEMMA TopicSound ==
  ASSUME NEW t \in Paths, NEW r, FitsTopic(t, r)
  PROVE  Gathers(t, r) \subseteq Chosen(t)
PROOF
  <1> SUFFICES ASSUME NEW e \in Gathers(t, r)
               PROVE  \/ \E k \in DOMAIN subs : Routes(k[1], t) /\ e = <<k[1], k[2], subs[k]>>
                      \/ \E k \in inline : RoutesInline(k[1], t) /\ e = <<k[1], k[2], Handler>>
    BY SelectedIs DEF Chosen
  <1>1. ASSUME r.do = "subscriptions", NEW k \in DOMAIN subs, k[1] = r.at, ~IsSharedFilter(k[1]),
               ~(t[1] \in Dollar /\ k[1][1] \in {Plus, Hash})
        PROVE  Routes(k[1], t)
    BY <1>1 DEF FitsTopic, Gathered, Routes, Matches, PathOf
  <1>2. ASSUME r.do = "shared", NEW k \in DOMAIN subs, IsSharedFilter(k[1]), PathOf(k[1]) = r.at
        PROVE  Routes(k[1], t)
    BY <1>2 DEF FitsTopic, Gathered, Routes
  <1>3. ASSUME r.do = "inline", NEW k \in inline, k[1] = r.at PROVE RoutesInline(k[1], t)
    BY <1>3 DEF FitsTopic
  <1> QED
    BY <1>1, <1>2, <1>3, GatheredIs

\* Where a subscription is, and which read finds it.
Lookup(e) == IF e[3] = Handler THEN "inline" ELSE IF IsSharedFilter(e[1]) THEN "shared" ELSE "subscriptions"
At(e) == IF e[3] = Handler THEN e[1] ELSE PathOf(e[1])

\* What is selected is in the tree, where its levels match, and its read finds it.
LEMMA SelectedAt ==
  ASSUME IndexOK, NEW t \in Paths, NEW e \in Chosen(t)
  PROVE  /\ At(e) \in Contents /\ At(e) \in Paths /\ LevelsMatch(At(e), t)
         /\ MatchesParent(At(e), t) => e[3] # Handler /\ At(e)[Len(At(e)) - 1] # Plus
         /\ Lookup(e) \in {"subscriptions", "shared", "inline"}
         /\ e[3] # Handler => Lookup(e) \in {"subscriptions", "shared"}
         /\ \A r : r.do = Lookup(e) /\ r.at = At(e) => e \in Gathers(t, r)
PROOF
  <1>0. /\ Lookup(e) \in {"subscriptions", "shared", "inline"}
        /\ e[3] # Handler => Lookup(e) \in {"subscriptions", "shared"}
    BY DEF Lookup
  <1>1. CASE \E k \in DOMAIN subs : Routes(k[1], t) /\ e = <<k[1], k[2], subs[k]>>
    <2>1. PICK k \in DOMAIN subs : Routes(k[1], t) /\ e = <<k[1], k[2], subs[k]>>
      BY <1>1
    <2>2. e[1] = k[1] /\ e[3] = subs[k] /\ subs[k] # Handler /\ k[1] \in Paths
      BY <2>1, HandlerApart DEF IndexOK
    <2>3. At(e) = PathOf(k[1]) /\ Lookup(e) = (IF IsSharedFilter(k[1]) THEN "shared" ELSE "subscriptions")
      BY <2>2 DEF At, Lookup
    <2>4. At(e) \in Contents /\ At(e) \in Paths
      BY <2>1, <2>2, <2>3, ContentOf, PathOfIsPath DEF Contents
    <2>5. LevelsMatch(At(e), t) /\ (MatchesParent(At(e), t) => e[3] # Handler /\ At(e)[Len(At(e)) - 1] # Plus)
      BY <2>1, <2>2, <2>3 DEF Routes
    <2>6. ASSUME NEW r, r.do = Lookup(e), r.at = At(e) PROVE e \in Gathers(t, r)
      <3>1. CASE IsSharedFilter(k[1])
        <4>1. r.do = "shared" /\ PathOf(k[1]) = r.at
          BY <2>3, <2>6, <3>1
        <4> QED
          BY <2>1, <3>1, <4>1, GatheredIs
      <3>2. CASE ~IsSharedFilter(k[1])
        <4>1. r.do = "subscriptions" /\ k[1] = r.at
          BY <2>3, <2>6, <3>2 DEF PathOf
        <4>2. ~(t[1] \in Dollar /\ k[1][1] \in {Plus, Hash})
          BY <2>1, <3>2 DEF Routes, Matches, PathOf
        <4> QED
          BY <2>1, <3>2, <4>1, <4>2, GatheredIs
      <3> QED
        BY <3>1, <3>2
    <2> QED
      BY <1>0, <2>4, <2>5, <2>6
  <1>2. CASE \E k \in inline : RoutesInline(k[1], t) /\ e = <<k[1], k[2], Handler>>
    <2>1. PICK k \in inline : RoutesInline(k[1], t) /\ e = <<k[1], k[2], Handler>>
      BY <1>2
    <2>2. e[1] = k[1] /\ e[3] = Handler /\ k[1] \in Paths
      BY <2>1 DEF IndexOK
    <2>3. At(e) = k[1] /\ Lookup(e) = "inline"
      BY <2>2 DEF At, Lookup
    <2>4. At(e) \in Contents /\ At(e) \in Paths
      BY <2>1, <2>2, <2>3, ContentOf DEF Contents
    <2>5. LevelsMatch(At(e), t) /\ ~MatchesParent(At(e), t)
      BY <2>1, <2>3 DEF RoutesInline
    <2>6. ASSUME NEW r, r.do = Lookup(e), r.at = At(e) PROVE e \in Gathers(t, r)
      BY <2>1, <2>3, <2>6, GatheredIs
    <2> QED
      BY <1>0, <2>4, <2>5, <2>6
  <1> QED
    BY <1>1, <1>2, SelectedIs DEF Chosen

\* A read that leads to a subscription that a topic selects: it finds it, or a read it makes does.
LeadsTopic(t, r, e) ==
  LET p == At(e)
      q == Append(r.at, r.key)
  IN  \/ r.do = "level" /\ Above(q, p) /\ (Len(q) < Len(p) \/ Len(q) = Len(t))
      \/ r.do = "all" /\ q = p
      \/ r.do = "parent" /\ q = p /\ e[3] # Handler
      \/ r.do = Lookup(e) /\ r.at = p

\* From a particle on the way, the reads at the next one lead on.
LEMMA VisitLeads ==
  ASSUME IndexOK, NEW t \in Paths, NEW e \in Chosen(t),
         NEW q \in Place, Above(q, At(e)), Len(q) < Len(t), Len(q) < Len(At(e)), t # NoTopic
  PROVE  \E x \in Pending(Visit(t, q)) : LeadsTopic(t, x, e)
PROOF
  <1> DEFINE p == At(e)
             v == Visit(t, q)
             k == p[Len(q) + 1]
             n == Append(q, k)
  <1>1. p \in Paths /\ LevelsMatch(p, t)
    BY SelectedAt
  <1>2. Len(q) \in Nat /\ Len(p) \in Nat \ {0} /\ Len(t) \in Nat \ {0} /\ Len(n) = Len(q) + 1
    <2>1. Len(n) = Len(q) + 1
      BY NextPlace
    <2> HIDE DEF p, n
    <2> QED
      BY <1>1, <2>1, PlaceLevels, PartOfPath
  <1>3. Above(n, p) /\ (Len(n) = Len(p) => n = p)
    <2>1. Above(q, p) /\ Len(q) < Len(p) /\ k = p[Len(q) + 1]
      OBVIOUS
    <2> HIDE DEF p, k
    <2> QED
      BY <1>1, <2>1, NextAbove
  <1>4. /\ \A key \in {Plus, t[Len(q) + 1]} : \E x \in Pending(v) : x.do = "level" /\ x.at = q /\ x.key = key
        /\ \E x \in Pending(v) : x.do = "all" /\ x.at = q /\ x.key = Hash
    BY VisitPending
  <1> HIDE DEF v
  <1>5. CASE Len(n) = Len(p) /\ p[Len(p)] = Hash
    <2>1. k = Hash
      BY <1>2, <1>5
    <2>2. PICK x \in Pending(v) : x.do = "all" /\ x.at = q /\ x.key = Hash
      BY <1>4
    <2>3. LeadsTopic(t, x, e)
      BY <1>3, <1>5, <2>1, <2>2 DEF LeadsTopic
    <2> QED
      BY <2>3 DEF v
  <1>6. CASE ~(Len(n) = Len(p) /\ p[Len(p)] = Hash)
    <2>1. k \in {Plus, t[Len(q) + 1]} /\ (Len(n) < Len(p) \/ Len(n) = Len(t))
      BY <1>1, <1>2, <1>6 DEF LevelsMatch
    <2>2. PICK x \in Pending(v) : x.do = "level" /\ x.at = q /\ x.key = k
      BY <1>4, <2>1
    <2>3. LeadsTopic(t, x, e)
      BY <1>3, <2>1, <2>2 DEF LeadsTopic
    <2> QED
      BY <2>3 DEF v
  <1> QED
    BY <1>5, <1>6

\* The reads at the particle of a subscription find it.
LEMMA GatherLeads ==
  ASSUME IndexOK, NEW t \in Paths, NEW e \in Chosen(t)
  PROVE  \E x \in Pending(Gather(At(e))) : LeadsTopic(t, x, e)
PROOF
  <1>1. At(e) \in Paths /\ At(e) \in Place /\ Lookup(e) \in {"subscriptions", "shared", "inline"}
    BY SelectedAt DEF Place
  <1>2. PICK x \in Pending(Gather(At(e))) : x.at = At(e) /\ x.do = Lookup(e)
    BY <1>1, GatherPending
  <1> QED
    BY <1>2 DEF LeadsTopic

\* A read of a scan for a topic finds what it leads to, or leaves a read that leads to it.
LEMMA TopicLeads ==
  ASSUME IndexOK, particles = Tree(Contents), Contents \in SUBSET Paths,
         NEW t \in Paths, NEW r, Reading(r), FitsTopic(t, r),
         NEW e \in Chosen(t), LeadsTopic(t, r, e)
  PROVE  e \in Gathers(t, r) \/ \E x \in Pending(ReadsSubscribers(t, r)) : LeadsTopic(t, x, e)
PROOF
  <1> DEFINE p == At(e)
             q == Append(r.at, r.key)
             next == ReadsSubscribers(t, r)
  <1>1. /\ p \in Contents /\ p \in Paths /\ LevelsMatch(p, t)
        /\ MatchesParent(p, t) => e[3] # Handler /\ p[Len(p) - 1] # Plus
        /\ e[3] # Handler => Lookup(e) \in {"subscriptions", "shared"}
    BY SelectedAt
  <1>2. Len(p) \in Nat \ {0} /\ Len(t) \in Nat \ {0} /\ r.at \in Place /\ Len(r.at) \in Nat
    <2> HIDE DEF p
    <2> QED
      BY <1>1, PartOfPath, PlaceLevels DEF Reading
  <1>3. Len(q) = Len(r.at) + 1 /\ q[Len(q)] = r.key
    BY <1>2, NextPlace
  <1>4. Above(q, p) => q \in particles /\ q \in Paths /\ (Len(q) = Len(p) => q = p)
    <2> SUFFICES ASSUME Above(q, p) PROVE q \in particles /\ q \in Paths /\ (Len(q) = Len(p) => q = p)
      OBVIOUS
    <2>1. Leads(q, p) /\ (Len(q) = Len(p) => q = p)
      BY <1>1, <1>2, NextAbove
    <2> QED
      BY <1>1, <2>1, InTree DEF Leads
  <1>5. q = p => Above(q, p)
    BY <1>2 DEF Above
  <1>6. CASE r.do = Lookup(e) /\ r.at = p
    BY <1>6, SelectedAt
  <1>7. CASE r.do = "all" /\ q = p
    <2>1. next = Gather(p)
      BY <1>4, <1>5, <1>7 DEF ReadsSubscribers
    <2> QED
      BY <2>1, GatherLeads
  <1>8. ASSUME q = p, e[3] # Handler, q \in particles, NEW x, x.do = "parent", x.at = r.at, x.key = r.key
        PROVE  \E y \in Pending(ReadsSubscribers(t, x)) : LeadsTopic(t, y, e)
    <2>1. ReadsSubscribers(t, x) = ParentReads(p, r.at)
      BY <1>8 DEF ReadsSubscribers, Inline, ParentReads
    <2>2. Lookup(e) \in {"subscriptions", "shared"}
      BY <1>1, <1>8
    <2>3. PICK y \in Pending(ParentReads(p, r.at)) : y.at = p /\ y.do = Lookup(e)
      <3> HIDE DEF p
      <3> QED
        BY <1>1, <1>2, <2>2, ParentPending
    <2>4. LeadsTopic(t, y, e)
      BY <2>3 DEF LeadsTopic
    <2> QED
      BY <2>1, <2>3, <2>4
  <1>9. CASE r.do = "parent" /\ q = p /\ e[3] # Handler
    BY <1>4, <1>5, <1>8, <1>9
  <1>10. CASE r.do = "level" /\ Above(q, p) /\ Len(q) < Len(t) /\ (Len(q) < Len(p) \/ Len(q) = Len(t))
    <2>1. Len(q) < Len(p) /\ q \in Place /\ t # NoTopic
      <3>1. Len(NoTopic) = 1
        <4>1. Len(<<"">>) = 1
          OBVIOUS
        <4> QED
          BY <4>1 DEF NoTopic
      <3>2. q \in Place
        BY <1>4, <1>10 DEF Place
      <3> HIDE DEF p, q
      <3>3. Len(q) < Len(p) /\ Len(t) > 1
        BY <1>2, <1>3, <1>10
      <3> QED
        BY <3>1, <3>2, <3>3
    <2>2. next = Visit(t, q)
      BY <1>4, <1>10 DEF ReadsSubscribers
    <2> QED
      BY <1>10, <2>1, <2>2, VisitLeads
  <1>11. CASE r.do = "level" /\ Above(q, p) /\ Len(q) = Len(t)
    <2> DEFINE more == IF r.key = Plus THEN <<>> ELSE <<Read("parent", q, Hash)>>
               x == Read("parent", q, Hash)
    <2>1. next = Gather(q) \o more
      BY <1>4, <1>11 DEF ReadsSubscribers
    <2>2. q \in Paths /\ q \in Place /\ q \in particles
      BY <1>4, <1>11 DEF Place
    <2>3. IsReads(Gather(q))
      BY <2>2, GatherPending
    <2>4. Reading(x) /\ x.do = "parent" /\ x.at = q /\ x.key = Hash
      BY <2>2 DEF Read, Reading
    <2>5. IsReads(more) /\ (r.key # Plus => Pending(more) = {x})
      <3> HIDE DEF x
      <3>1. more = IF r.key = Plus THEN <<>> ELSE <<x>>
        BY DEF x
      <3> HIDE DEF more
      <3>2. CASE r.key = Plus
        BY <3>1, <3>2, ListedPending
      <3>3. CASE r.key # Plus
        BY <2>4, <3>1, <3>3, ListedPending
      <3> QED
        BY <3>2, <3>3
    <2> HIDE DEF more, x
    <2>6. Pending(next) = Pending(Gather(q)) \cup Pending(more)
      BY <2>1, <2>3, <2>5, BothPending
    <2>7. CASE Len(q) = Len(p)
      BY <1>4, <1>11, <2>6, <2>7, GatherLeads
    <2>8. CASE Len(q) # Len(p)
      <3>1. Len(p) = Len(t) + 1 /\ p[Len(p)] = Hash
        BY <1>1, <1>2, <1>3, <1>11, <2>8 DEF LevelsMatch, Above
      <3>2. MatchesParent(p, t)
        BY <1>2, <3>1 DEF MatchesParent, Last
      <3>3. q[Len(q)] = p[Len(p) - 1]
        BY <1>2, <1>3, <1>11, <3>1 DEF Above
      <3>4. r.key # Plus /\ e[3] # Handler
        BY <1>1, <1>3, <3>2, <3>3
      <3>5. Append(q, Hash) = p
        <4> HIDE DEF p, q
        <4>1. Above(q, p) /\ Len(q) < Len(p) /\ p[Len(q) + 1] = Hash /\ Len(q) + 1 = Len(p)
          BY <1>2, <1>11, <3>1
        <4>2. Above(Append(q, Hash), p) /\ Len(Append(q, Hash)) = Len(p)
          BY <1>1, <2>2, <4>1, NextAbove, NextPlace
        <4> QED
          BY <1>1, <2>2, <4>2, NextAbove
      <3>6. LeadsTopic(t, x, e)
        BY <2>4, <3>4, <3>5 DEF LeadsTopic
      <3> QED
        BY <2>5, <2>6, <3>4, <3>6
    <2> QED
      BY <2>7, <2>8
  <1>12. r.do = "level" => Len(q) <= Len(t)
    BY <1>2, <1>3 DEF FitsTopic
  <1> QED
    BY <1>2, <1>3, <1>6, <1>7, <1>9, <1>10, <1>11, <1>12 DEF LeadsTopic

-----------------------------------------------------------------------------
(* The scan for messages.                                                   *)

\* Where a scan for a filter goes, and which particles it visits there.
Along(f, p) ==
  /\ \A i \in 1 .. Len(p) : Level(f, i - 1) \in {Plus, Hash, p[i]}
  /\ Len(p) >= Len(f) => Last(f) = Hash
  /\ f[1] \in {Plus, Hash} /\ p # <<>> => p[1] # SysPrefix
Child(at, p) == p \in Paths /\ Front(p) = at /\ (at = <<>> => Last(p) # SysPrefix)
FitsFilter(f, r) ==
  \/ r.do = "nothing"
  \/ r.do = "children" /\ Along(f, r.at)
  \/ r.do = "each" /\ Along(f, r.at) /\ Level(f, Len(r.at)) \in {Plus, Hash} /\ \A p \in r.left : Child(r.at, p)
  \/ r.do = "retainPath" /\ r.at \in Paths /\ Reads(f, r.at)

\* The reads of a particle, by name.
ChildrenOf(at) == Read("children", at, "")
MessageOf(p) == Read("retainPath", p, "")
EachOf(at, left) == [Read("each", at, "") EXCEPT !.left = left]

\* They are of the place.
LEMMA MessageReads ==
  ASSUME NEW at \in Place, NEW left \in SUBSET Paths
  PROVE  /\ Reading(ChildrenOf(at)) /\ ChildrenOf(at).do = "children" /\ ChildrenOf(at).at = at
         /\ Reading(MessageOf(at)) /\ MessageOf(at).do = "retainPath" /\ MessageOf(at).at = at
         /\ Reading(EachOf(at, left)) /\ EachOf(at, left).do = "each" /\ EachOf(at, left).at = at
         /\ EachOf(at, left).left = left
BY DEF Read, Reading, ChildrenOf, MessageOf, EachOf

\* The reads for one of the children.
LEMMA BelowPending ==
  ASSUME NEW f, NEW at, NEW p \in Paths
  PROVE  /\ IsReads(Below(f, at, p))
         /\ \A x \in Pending(Below(f, at, p)) :
              \/ x = MessageOf(p) /\ ~HasNext(f, Len(at))
              \/ x = ChildrenOf(p) /\ (HasNext(f, Len(at)) \/ Level(f, Len(at)) = Hash)
         /\ ~HasNext(f, Len(at)) => MessageOf(p) \in Pending(Below(f, at, p))
         /\ HasNext(f, Len(at)) \/ Level(f, Len(at)) = Hash => ChildrenOf(p) \in Pending(Below(f, at, p))
PROOF
  <1> DEFINE N == HasNext(f, Len(at))
             M == N \/ Level(f, Len(at)) = Hash
             a == IF N THEN <<>> ELSE <<MessageOf(p)>>
             b == IF M THEN <<ChildrenOf(p)>> ELSE <<>>
  <1>1. Below(f, at, p) = a \o b
    BY DEF Below, VisitMessages, MessageOf, ChildrenOf
  <1>2. Reading(MessageOf(p)) /\ Reading(ChildrenOf(p))
    BY MessageReads DEF Place
  <1>3. /\ IsReads(<<MessageOf(p)>>) /\ Pending(<<MessageOf(p)>>) = {MessageOf(p)}
        /\ IsReads(<<ChildrenOf(p)>>) /\ Pending(<<ChildrenOf(p)>>) = {ChildrenOf(p)}
        /\ IsReads(<<>>) /\ Pending(<<>>) = {}
    BY <1>2, ListedPending
  <1> HIDE DEF N, M
  <1>4. IsReads(a) /\ Pending(a) = IF N THEN {} ELSE {MessageOf(p)}
    BY <1>3
  <1>5. IsReads(b) /\ Pending(b) = IF M THEN {ChildrenOf(p)} ELSE {}
    BY <1>3
  <1> HIDE DEF a, b
  <1>6. IsReads(Below(f, at, p)) /\ Pending(Below(f, at, p)) = Pending(a) \cup Pending(b)
    BY <1>1, <1>4, <1>5, BothPending
  <1>7. /\ \A x \in Pending(Below(f, at, p)) : (x = MessageOf(p) /\ ~N) \/ (x = ChildrenOf(p) /\ M)
        /\ ~N => MessageOf(p) \in Pending(Below(f, at, p))
        /\ M => ChildrenOf(p) \in Pending(Below(f, at, p))
    BY <1>4, <1>5, <1>6
  <1> QED
    BY <1>6, <1>7 DEF N, M

\* One of the children, then the others.
Takes(f, at, left, p, next) ==
  IsReads(next) /\ Pending(next) = Pending(Below(f, at, p)) \cup {EachOf(at, left \ {p})}

\* What is read next of the children that are left.
LEMMA EachPending ==
  ASSUME NEW f, NEW at \in Place, NEW left, left \subseteq Paths, NEW next, next \in Each(f, at, left)
  PROVE  (left = {} /\ next = <<>>) \/ \E p \in left : Takes(f, at, left, p, next)
PROOF
  <1>1. CASE left = {}
    BY <1>1 DEF Each
  <1>2. CASE left # {}
    <2>1. PICK p \in left : next = Below(f, at, p) \o <<EachOf(at, left \ {p})>>
      BY <1>2 DEF Each, EachOf
    <2>2. IsReads(Below(f, at, p))
      BY <2>1, BelowPending
    <2> DEFINE x == EachOf(at, left \ {p})
    <2>3. Reading(x)
      BY MessageReads
    <2> HIDE DEF x
    <2>4. IsReads(<<x>>) /\ Pending(<<x>>) = {x}
      BY <2>3, ListedPending
    <2>5. IsReads(Below(f, at, p) \o <<x>>) /\ Pending(Below(f, at, p) \o <<x>>) = Pending(Below(f, at, p)) \cup {x}
      BY <2>2, <2>4, BothPending
    <2>6. Takes(f, at, left, p, next)
      BY <2>1, <2>5 DEF x, Takes
    <2> QED
      BY <2>1, <2>6
  <1> QED
    BY <1>1, <1>2

\* The levels of a filter: "#" is the last one.
LEMMA FilterLevels ==
  ASSUME NEW f \in Paths, ValidFilter(f)
  PROVE  /\ Len(f) \in Nat \ {0} /\ DOMAIN f = 1 .. Len(f) /\ Last(f) = f[Len(f)]
         /\ \A i \in 1 .. Len(f) - 1 : f[i] # Hash
         /\ \A d \in Nat : /\ d < Len(f) => Level(f, d) = f[d + 1]
                           /\ d >= Len(f) => Level(f, d) = f[Len(f)]
PROOF
  <1>1. Len(f) \in Nat \ {0} /\ DOMAIN f = 1 .. Len(f) /\ f \in Seq(STRING)
    BY PartOfPath DEF Paths
  <1>2. Last(f) = f[Len(f)]
    BY DEF Last
  <1>3. Hash \notin ToSet(Front(f))
    BY DEF ValidFilter, IsValidFilter
  <1>4. \A i \in 1 .. Len(f) - 1 : f[i] # Hash
    <2> DEFINE l == Len(f) - 1
               y == SubSeq(f, 1, l)
    <2>1. l \in 0 .. Len(f)
      BY <1>1
    <2>2. y \in Seq(STRING) /\ Len(y) = l /\ \A i \in 1 .. l : y[i] = f[i]
      <3> HIDE DEF l
      <3> QED
        BY <2>1, PartOfPath
    <2>3. Front(f) = y
      BY DEF Front
    <2> HIDE DEF y
    <2>4. DOMAIN y = 1 .. l
      BY <2>2, LenProperties
    <2> QED
      BY <1>3, <2>2, <2>3, <2>4 DEF ToSet
  <1>5. ASSUME NEW d \in Nat
        PROVE  (d < Len(f) => Level(f, d) = f[d + 1]) /\ (d >= Len(f) => Level(f, d) = f[Len(f)])
    BY <1>1 DEF Level
  <1> QED
    BY <1>1, <1>2, <1>4, <1>5

\* A child of a place is one level deeper.
LEMMA ChildLevels ==
  ASSUME NEW at \in Place, NEW p \in Paths, Front(p) = at
  PROVE  /\ Len(at) \in Nat /\ Len(p) = Len(at) + 1 /\ Last(p) = p[Len(p)]
         /\ \A i \in 1 .. Len(at) : p[i] = at[i]
PROOF
  <1> DEFINE l == Len(p) - 1
             y == SubSeq(p, 1, l)
  <1>1. Len(p) \in Nat \ {0} /\ l \in 0 .. Len(p) /\ l + 1 = Len(p)
    BY PartOfPath
  <1>2. Len(y) = l /\ \A i \in 1 .. l : y[i] = p[i]
    <2> HIDE DEF l
    <2> QED
      BY <1>1, PartOfPath
  <1>3. at = y
    BY DEF Front
  <1> HIDE DEF y, l
  <1>4. Len(at) = l /\ \A i \in 1 .. Len(at) : p[i] = at[i]
    BY <1>2, <1>3
  <1> QED
    BY <1>1, <1>4 DEF Last

\* A particle one level deeper, that the next level of the filter takes: the scan goes on there,
\* unless the filter ends, where it reads its message.
LEMMA Extended ==
  ASSUME NEW f \in Paths, ValidFilter(f), NEW at \in Place, Along(f, at), NEW p \in Paths,
         Len(p) = Len(at) + 1, \A i \in 1 .. Len(at) : p[i] = at[i],
         Level(f, Len(at)) \in {Plus, Hash, p[Len(p)]},
         Level(f, Len(at)) \in {Plus, Hash} /\ at = <<>> => p[1] # SysPrefix
  PROVE  /\ HasNext(f, Len(at)) \/ Level(f, Len(at)) = Hash => Along(f, p)
         /\ ~HasNext(f, Len(at)) => Reads(f, p)
PROOF
  <1> DEFINE d == Len(at)
             n == Len(f)
  <1>1. d \in Nat /\ n \in Nat \ {0} /\ (d = 0 <=> at = <<>>)
    BY PlaceLevels, FilterLevels
  <1>2. /\ Last(f) = f[n] /\ \A i \in 1 .. n - 1 : f[i] # Hash
        /\ \A i \in Nat : (i < n => Level(f, i) = f[i + 1]) /\ (i >= n => Level(f, i) = f[n])
    BY FilterLevels
  <1>3. /\ \A i \in 1 .. d : Level(f, i - 1) \in {Plus, Hash, at[i]}
        /\ d >= n => f[n] = Hash
        /\ f[1] \in {Plus, Hash} /\ at # <<>> => at[1] # SysPrefix
    BY <1>2 DEF Along
  <1>4. Len(p) = d + 1 /\ \A i \in 1 .. d + 1 : Level(f, i - 1) \in {Plus, Hash, p[i]}
    <2> SUFFICES ASSUME NEW i \in 1 .. d + 1 PROVE Level(f, i - 1) \in {Plus, Hash, p[i]}
      OBVIOUS
    <2>1. CASE i = d + 1
      <3>1. i - 1 = d /\ Len(p) = i
        BY <1>1, <2>1
      <3> QED
        BY <3>1
    <2>2. CASE i # d + 1
      <3>1. i \in 1 .. d
        BY <1>1, <2>2
      <3> QED
        BY <1>3, <3>1
    <2> QED
      BY <2>1, <2>2
  <1>5. f[1] \in {Plus, Hash} => p[1] # SysPrefix
    <2>1. CASE at = <<>>
      BY <1>1, <1>2, <2>1
    <2>2. CASE at # <<>>
      BY <1>1, <1>3, <2>2
    <2> QED
      BY <2>1, <2>2
  <1>6. ASSUME HasNext(f, d) \/ Level(f, d) = Hash PROVE Along(f, p)
    <2>1. d + 1 >= n => f[n] = Hash
      BY <1>1, <1>2, <1>6 DEF HasNext
    <2> QED
      BY <1>2, <1>4, <1>5, <2>1 DEF Along
  <1>7. ASSUME ~HasNext(f, d) PROVE Reads(f, p)
    <2>1. d + 1 >= n
      BY <1>1, <1>7 DEF HasNext
    <2>2. \A i \in 1 .. n - 1 : f[i] \in {Plus, p[i]}
      <3> SUFFICES ASSUME NEW i \in 1 .. n - 1 PROVE f[i] \in {Plus, p[i]}
        OBVIOUS
      <3>1. i \in 1 .. d + 1 /\ i - 1 \in Nat /\ i - 1 < n /\ (i - 1) + 1 = i
        BY <1>1, <2>1
      <3> QED
        BY <1>2, <1>4, <3>1
    <2>3. ASSUME f[n] # Hash PROVE d + 1 = n /\ f[n] \in {Plus, p[n]}
      <3>1. d + 1 = n
        BY <1>1, <1>3, <2>1, <2>3
      <3>2. Level(f, n - 1) \in {Plus, Hash, p[n]} /\ Level(f, n - 1) = f[n]
        BY <1>1, <1>2, <1>4, <3>1
      <3> QED
        BY <2>3, <3>1, <3>2
    <2>4. LevelsMatch(f, p)
      BY <1>1, <1>4, <2>1, <2>2, <2>3 DEF LevelsMatch
    <2>5. ~MatchesParent(f, p)
      BY <1>1, <1>4, <2>1 DEF MatchesParent
    <2> QED
      BY <1>5, <2>4, <2>5 DEF Reads
  <1> QED
    BY <1>6, <1>7

\* The children of a place that the scan visits, all or those that are left.
LEMMA EachFits ==
  ASSUME NEW f \in Paths, ValidFilter(f), NEW at \in Place, Along(f, at), Level(f, Len(at)) \in {Plus, Hash},
         NEW left \in SUBSET Paths, \A p \in left : Child(at, p), NEW next \in Each(f, at, left)
  PROVE  IsReads(next) /\ \A x \in Pending(next) : FitsFilter(f, x)
PROOF
  <1>1. CASE left = {} /\ next = <<>>
    BY <1>1, ListedPending
  <1>2. CASE \E p \in left : Takes(f, at, left, p, next)
    <2>1. PICK p \in left : IsReads(next) /\ Pending(next) = Pending(Below(f, at, p)) \cup {EachOf(at, left \ {p})}
      BY <1>2 DEF Takes
    <2>2. p \in Paths /\ Child(at, p) /\ p \in Place
      BY <2>1 DEF Place
    <2>3. /\ HasNext(f, Len(at)) \/ Level(f, Len(at)) = Hash => Along(f, p)
          /\ ~HasNext(f, Len(at)) => Reads(f, p)
      <3>1. /\ Len(at) \in Nat /\ Len(p) = Len(at) + 1 /\ Last(p) = p[Len(p)]
            /\ \A i \in 1 .. Len(at) : p[i] = at[i]
        BY <2>2, ChildLevels DEF Child
      <3>2. at = <<>> => p[1] # SysPrefix
        BY <2>2, <3>1, PlaceLevels DEF Child
      <3> QED
        BY <2>2, <3>1, <3>2, Extended
    <2>4. ASSUME NEW x \in Pending(Below(f, at, p)) PROVE FitsFilter(f, x)
      <3>1. CASE x = MessageOf(p) /\ ~HasNext(f, Len(at))
        BY <2>2, <2>3, <3>1, MessageReads DEF FitsFilter
      <3>2. CASE x = ChildrenOf(p) /\ (HasNext(f, Len(at)) \/ Level(f, Len(at)) = Hash)
        BY <2>2, <2>3, <3>2, MessageReads DEF FitsFilter
      <3> QED
        BY <2>2, <2>4, <3>1, <3>2, BelowPending
    <2>5. FitsFilter(f, EachOf(at, left \ {p}))
      <3> DEFINE x == EachOf(at, left \ {p})
      <3>1. x.do = "each" /\ x.at = at /\ x.left = left \ {p}
        BY MessageReads
      <3> HIDE DEF x
      <3>2. FitsFilter(f, x)
        BY <3>1 DEF FitsFilter
      <3> QED
        BY <3>2 DEF x
    <2> QED
      BY <2>1, <2>4, <2>5
  <1> QED
    BY <1>1, <1>2, EachPending

\* A scan for a filter goes where the filter leads (scanMessages).
LEMMA FilterFits ==
  ASSUME NEW f \in Paths, ValidFilter(f), NEW r, Reading(r), FitsFilter(f, r), particles \subseteq Paths,
         NEW next \in ReadsMessages(f, r)
  PROVE  IsReads(next) /\ \A x \in Pending(next) : FitsFilter(f, x)
PROOF
  <1> DEFINE key == Level(f, Len(r.at))
             p == Append(r.at, key)
  <1>1. r.at \in Place /\ r.left \in SUBSET Paths
    BY DEF Reading
  <1>2. CASE next = <<>>
    BY <1>2, ListedPending
  <1>3. CASE r.do = "each"
    <2>1. next \in Each(f, r.at, r.left)
      BY <1>3 DEF ReadsMessages
    <2>2. Along(f, r.at) /\ key \in {Plus, Hash} /\ \A x \in r.left : Child(r.at, x)
      BY <1>3 DEF FitsFilter
    <2> QED
      BY <1>1, <2>1, <2>2, EachFits
  <1>4. CASE r.do = "children" /\ key \in {Plus, Hash} /\ next \in Each(f, r.at, Adjacent(f, r.at))
    <2>1. Along(f, r.at)
      BY <1>4 DEF FitsFilter
    <2>2. Adjacent(f, r.at) \in SUBSET Paths /\ \A x \in Adjacent(f, r.at) : Child(r.at, x)
      BY DEF Adjacent, Child
    <2> QED
      BY <1>1, <1>4, <2>1, <2>2, EachFits
  <1>5. CASE r.do = "children" /\ key \notin {Plus, Hash} /\ p \in particles /\ HasNext(f, Len(r.at)) /\ next = VisitMessages(f, p)
    <2>1. Along(f, r.at) /\ p \in Paths /\ p \in Place
      BY <1>5 DEF FitsFilter, Place
    <2>2. Len(p) = Len(r.at) + 1 /\ p[Len(p)] = key /\ \A i \in 1 .. Len(r.at) : p[i] = r.at[i]
      BY <1>1, NextPlace
    <2>3. Along(f, p)
      <3> HIDE DEF p
      <3>1. /\ Level(f, Len(r.at)) \in {Plus, Hash, p[Len(p)]}
            /\ Level(f, Len(r.at)) \notin {Plus, Hash}
        BY <1>5, <2>2
      <3> QED
        BY <1>1, <1>5, <2>1, <2>2, <3>1, Extended
    <2>4. next = <<ChildrenOf(p)>>
      BY <1>5 DEF VisitMessages, ChildrenOf
    <2> HIDE DEF p
    <2>5. Reading(ChildrenOf(p)) /\ FitsFilter(f, ChildrenOf(p))
      BY <2>1, <2>3, MessageReads DEF FitsFilter
    <2> QED
      BY <2>4, <2>5, ListedPending
  <1>6. r.do = "each" \/ next = <<>> \/ (r.do = "children" /\ key \in {Plus, Hash} /\ next \in Each(f, r.at, Adjacent(f, r.at)))
        \/ (r.do = "children" /\ key \notin {Plus, Hash} /\ p \in particles /\ HasNext(f, Len(r.at)) /\ next = VisitMessages(f, p))
    <2>1. CASE r.do = "each" \/ r.do # "children" \/ retained = <<>> \/ Wildcards(f) = {}
      BY <2>1 DEF ReadsMessages
    <2>2. CASE r.do = "children" /\ retained # <<>> /\ Wildcards(f) # {} /\ key \in {Plus, Hash}
      BY <2>2 DEF ReadsMessages
    <2>3. CASE r.do = "children" /\ retained # <<>> /\ Wildcards(f) # {} /\ key \notin {Plus, Hash}
      BY <2>3 DEF ReadsMessages
    <2> QED
      BY <2>1, <2>2, <2>3
  <1> QED
    BY <1>2, <1>3, <1>4, <1>5, <1>6

\* What a scan for a filter looks up is what the filter reads.
LEMMA FilterSound ==
  ASSUME IndexOK, ~May("unset"), NEW f \in Paths, ValidFilter(f), NEW r, Reading(r), FitsFilter(f, r),
         particles \subseteq Paths
  PROVE  Finds(f, r) \subseteq Readable(f)
PROOF
  <1> DEFINE key == Level(f, Len(r.at))
             p == Append(r.at, key)
  <1> SUFFICES ASSUME NEW t \in LooksUp(f, r), t \in DOMAIN retained PROVE Reads(f, t)
    BY DEF Finds, Readable, Selects
  <1>1. t # NoTopic
    BY DEF IndexOK, Named
  <1>2. CASE r.do = "retainPath"
    <2>1. t = r.at
      BY <1>1, <1>2 DEF LooksUp, Path
    <2> QED
      BY <1>2, <2>1 DEF FitsFilter
  <1>3. CASE r.do = "children" /\ Wildcards(f) = {} /\ t = f
    <2>1. Len(f) \in Nat \ {0} /\ DOMAIN f = 1 .. Len(f) /\ Last(f) = f[Len(f)]
      BY FilterLevels
    <2>2. \A i \in 1 .. Len(f) : f[i] \notin {Plus, Hash}
      BY <1>3, <2>1 DEF Wildcards, ToSet
    <2>3. LevelsMatch(f, f) /\ ~MatchesParent(f, f) /\ f[1] \notin {Plus, Hash}
      <3>1. f[1] \notin {Plus, Hash} /\ f[Len(f)] # Hash
        BY <2>1, <2>2
      <3>2. LevelsMatch(f, f)
        BY <3>1 DEF LevelsMatch
      <3>3. ~MatchesParent(f, f)
        BY <2>1, <3>1 DEF MatchesParent
      <3> QED
        BY <3>1, <3>2, <3>3
    <2> QED
      BY <1>3, <2>3 DEF Reads
  <1>4. CASE r.do = "children" /\ key \notin {Plus, Hash} /\ p \in particles /\ ~HasNext(f, Len(r.at)) /\ t = p
    <2>1. Along(f, r.at) /\ p \in Paths /\ r.at \in Place
      BY <1>4 DEF FitsFilter, Reading
    <2>2. Len(p) = Len(r.at) + 1 /\ p[Len(p)] = key /\ \A i \in 1 .. Len(r.at) : p[i] = r.at[i]
      BY <2>1, NextPlace
    <2> HIDE DEF p
    <2>3. Level(f, Len(r.at)) \in {Plus, Hash, p[Len(p)]} /\ Level(f, Len(r.at)) \notin {Plus, Hash}
      BY <1>4, <2>2
    <2> QED
      BY <1>4, <2>1, <2>2, <2>3, Extended
  <1>5. CASE r.do = "children" /\ Wildcards(f) = {}
    BY <1>3, <1>5 DEF LooksUp
  <1>6. CASE r.do = "children" /\ Wildcards(f) # {}
    <2>1. Last(p) = key
      <3>1. r.at \in Place
        BY DEF Reading
      <3>2. Len(p) = Len(r.at) + 1 /\ p[Len(r.at) + 1] = key
        BY <3>1, NextPlace
      <3> QED
        BY <3>2 DEF Last
    <2>2. key \notin {Plus, Hash} /\ p \in particles /\ ~HasNext(f, Len(r.at)) /\ t = Path(p)
      BY <1>6, <2>1 DEF LooksUp
    <2>3. t = p
      BY <1>1, <2>2 DEF Path
    <2> QED
      BY <1>4, <1>6, <2>2, <2>3
  <1>7. r.do \in {"retainPath", "children"}
    BY DEF LooksUp
  <1> QED
    BY <1>2, <1>5, <1>6, <1>7

\* A read that leads to a message that a filter reads.
LeadsFilter(f, r, e) ==
  \/ r.do = "children" /\ Wildcards(f) = {}
  \/ r.do = "children" /\ Above(r.at, e.topic) /\ Len(r.at) < Len(e.topic)
  \/ r.do = "each" /\ \E p \in r.left : Above(p, e.topic)
  \/ r.do = "retainPath" /\ r.at = e.topic

\* A message that is read has a particle, of whose levels the filter takes as many as it has.
LEMMA ReadableAt ==
  ASSUME IndexOK, ~May("unset"), DOMAIN retained \subseteq retainPath, NEW f \in Paths, ValidFilter(f), NEW e \in Readable(f)
  PROVE  /\ e.topic \in Paths /\ e.topic \in Contents /\ Path(e.topic) = e.topic /\ e.topic # NoTopic
         /\ Reads(f, e.topic) /\ retained # <<>>
         /\ \A r : e.topic \in LooksUp(f, r) => e \in Finds(f, r)
         /\ Len(e.topic) \in Nat \ {0} /\ Len(e.topic) >= Len(f)
         /\ f[Len(f)] # Hash => Len(e.topic) = Len(f)
         /\ \A d \in Nat : d < Len(e.topic) /\ Level(f, d) \notin {Plus, Hash} => Level(f, d) = e.topic[d + 1] /\ d < Len(f)
         /\ f[1] \in {Plus, Hash} => e.topic[1] # SysPrefix
PROOF
  <1>1. PICK t \in DOMAIN retained : Reads(f, t) /\ e = [topic |-> t, pk |-> retained[t]]
    BY DEF Readable, Selects
  <1>2. e.topic = t /\ t \in Paths /\ t \in retainPath /\ t # NoTopic /\ retained # <<>>
    BY <1>1 DEF IndexOK, Named
  <1>3. t \in Contents /\ Path(t) = t
    BY <1>2, ContentOf DEF Contents, Path
  <1>4. \A r : t \in LooksUp(f, r) => e \in Finds(f, r)
    BY <1>1 DEF Finds
  <1>5. Len(t) \in Nat \ {0}
    BY <1>2, PartOfPath
  <1>6. /\ Len(f) \in Nat \ {0} /\ Last(f) = f[Len(f)] /\ \A i \in 1 .. Len(f) - 1 : f[i] # Hash
        /\ \A d \in Nat : (d < Len(f) => Level(f, d) = f[d + 1]) /\ (d >= Len(f) => Level(f, d) = f[Len(f)])
    BY FilterLevels
  <1>7. LevelsMatch(f, t) /\ ~MatchesParent(f, t) /\ (f[1] \in {Plus, Hash} => t[1] # SysPrefix)
    BY <1>1 DEF Reads
  <1>8. Len(t) >= Len(f) /\ (f[Len(f)] # Hash => Len(t) = Len(f))
    BY <1>5, <1>6, <1>7 DEF LevelsMatch, MatchesParent
  <1>9. ASSUME NEW d \in Nat, d < Len(t), Level(f, d) \notin {Plus, Hash} PROVE Level(f, d) = t[d + 1] /\ d < Len(f)
    <2>1. d < Len(f)
      <3>1. CASE f[Len(f)] = Hash
        BY <1>6, <1>9, <3>1
      <3>2. CASE f[Len(f)] # Hash
        BY <1>8, <1>9, <3>2
      <3> QED
        BY <3>1, <3>2
    <2>2. Level(f, d) = f[d + 1]
      BY <1>6, <2>1
    <2>3. CASE f[Len(f)] = Hash
      <3>1. d + 1 \in 1 .. Len(f) - 1
        BY <1>6, <1>9, <2>1, <2>2, <2>3
      <3> QED
        BY <1>7, <1>9, <2>1, <2>2, <2>3, <3>1 DEF LevelsMatch
    <2>4. CASE f[Len(f)] # Hash
      <3>1. d + 1 \in 1 .. Len(f)
        BY <1>6, <2>1
      <3> QED
        BY <1>7, <1>9, <2>1, <2>2, <2>4, <3>1 DEF LevelsMatch
    <2> QED
      BY <2>3, <2>4
  <1> QED
    BY <1>1, <1>2, <1>3, <1>4, <1>5, <1>7, <1>8, <1>9

\* A path above another of as many levels is the same.
LEMMA SamePath ==
  ASSUME NEW p \in Paths, NEW t \in Paths, Above(p, t), Len(p) = Len(t)
  PROVE  p = t
PROOF
  <1>1. p \in Seq(STRING) /\ t \in Seq(STRING)
    BY DEF Paths
  <1> QED
    BY <1>1, SeqEqual DEF Above

\* A child on the way to a message: its reads lead there.
LEMMA BelowLeads ==
  ASSUME IndexOK, ~May("unset"), DOMAIN retained \subseteq retainPath, NEW f \in Paths, ValidFilter(f),
         NEW e \in Readable(f), NEW at \in Place, NEW p \in Paths, Child(at, p), Above(p, e.topic),
         Level(f, Len(at)) \in {Plus, Hash}
  PROVE  \E x \in Pending(Below(f, at, p)) : LeadsFilter(f, x, e)
PROOF
  <1> DEFINE t == e.topic
             d == Len(at)
             n == Len(f)
  <1>1. t \in Paths /\ Len(t) \in Nat \ {0} /\ Len(t) >= n /\ (f[n] # Hash => Len(t) = n)
    BY ReadableAt
  <1>2. d \in Nat /\ Len(p) = d + 1 /\ p \in Place
    BY ChildLevels DEF Child, Place
  <1>3. n \in Nat \ {0} /\ \A i \in Nat : (i < n => Level(f, i) = f[i + 1]) /\ (i >= n => Level(f, i) = f[n])
    BY FilterLevels
  <1>4. CASE Len(p) = Len(t)
    <2>1. p = t
      BY <1>1, <1>4, SamePath
    <2>2. ~HasNext(f, d)
      BY <1>1, <1>2, <1>3, <1>4 DEF HasNext
    <2>3. MessageOf(p) \in Pending(Below(f, at, p))
      BY <2>2, BelowPending
    <2>4. LeadsFilter(f, MessageOf(p), e)
      BY <1>2, <2>1, MessageReads DEF LeadsFilter
    <2> QED
      BY <2>3, <2>4
  <1>5. CASE Len(p) # Len(t)
    <2>1. Len(p) < Len(t)
      BY <1>1, <1>2, <1>5 DEF Above
    <2>2. HasNext(f, d) \/ Level(f, d) = Hash
      <3>1. CASE d + 1 < n
        BY <3>1 DEF HasNext
      <3>2. CASE d + 1 >= n
        <4>1. f[n] = Hash
          BY <1>1, <1>2, <1>3, <2>1, <3>2
        <4>2. Level(f, d) = f[n]
          BY <1>2, <1>3, <3>2
        <4> QED
          BY <4>1, <4>2
      <3> QED
        BY <1>2, <1>3, <3>1, <3>2
    <2>3. ChildrenOf(p) \in Pending(Below(f, at, p))
      BY <2>2, BelowPending
    <2>4. LeadsFilter(f, ChildrenOf(p), e)
      BY <1>2, <2>1, MessageReads DEF LeadsFilter
    <2> QED
      BY <2>3, <2>4
  <1> QED
    BY <1>4, <1>5

\* Whichever child is taken first, one of them leads there.
LEMMA EachLeads ==
  ASSUME IndexOK, ~May("unset"), DOMAIN retained \subseteq retainPath, NEW f \in Paths, ValidFilter(f),
         NEW e \in Readable(f), NEW at \in Place, Level(f, Len(at)) \in {Plus, Hash},
         NEW left \in SUBSET Paths, NEW p \in left, Child(at, p), Above(p, e.topic), NEW next \in Each(f, at, left)
  PROVE  \E x \in Pending(next) : LeadsFilter(f, x, e)
PROOF
  <1>1. PICK c \in left : Takes(f, at, left, c, next)
    BY EachPending
  <1>2. Pending(next) = Pending(Below(f, at, c)) \cup {EachOf(at, left \ {c})}
    BY <1>1 DEF Takes
  <1>3. CASE c = p
    <2>1. \E x \in Pending(Below(f, at, p)) : LeadsFilter(f, x, e)
      BY BelowLeads
    <2> QED
      BY <1>2, <1>3, <2>1
  <1>4. CASE c # p
    <2> DEFINE x == EachOf(at, left \ {c})
    <2>1. x.do = "each" /\ x.left = left \ {c}
      BY MessageReads
    <2> HIDE DEF x
    <2>2. LeadsFilter(f, x, e)
      BY <1>4, <2>1 DEF LeadsFilter
    <2> QED
      BY <1>2, <2>2 DEF x
  <1> QED
    BY <1>3, <1>4

\* A read of a scan for a filter finds the message it leads to, or leaves a read that leads to it.
LEMMA FilterFinds ==
  ASSUME IndexOK, ~May("unset"), particles = Tree(Contents), Contents \in SUBSET Paths,
         DOMAIN retained \subseteq retainPath, NEW f \in Paths, ValidFilter(f),
         NEW r, Reading(r), FitsFilter(f, r), NEW e \in Readable(f), LeadsFilter(f, r, e),
         NEW next \in ReadsMessages(f, r)
  PROVE  e \in Finds(f, r) \/ \E x \in Pending(next) : LeadsFilter(f, x, e)
PROOF
  <1> DEFINE t == e.topic
             d == Len(r.at)
             key == Level(f, d)
             q == Append(r.at, key)
  <1>1. /\ t \in Paths /\ t \in Contents /\ Path(t) = t /\ t # NoTopic /\ Reads(f, t) /\ retained # <<>>
        /\ \A x : t \in LooksUp(f, x) => e \in Finds(f, x)
        /\ Len(t) \in Nat \ {0} /\ Len(t) >= Len(f) /\ (f[Len(f)] # Hash => Len(t) = Len(f))
        /\ \A i \in Nat : i < Len(t) /\ Level(f, i) \notin {Plus, Hash} => Level(f, i) = t[i + 1] /\ i < Len(f)
        /\ f[1] \in {Plus, Hash} => t[1] # SysPrefix
    BY ReadableAt
  <1>2. r.at \in Place /\ d \in Nat /\ (d = 0 <=> r.at = <<>>) /\ r.left \in SUBSET Paths
    BY PlaceLevels DEF Reading
  <1>3. CASE r.do = "retainPath" /\ r.at = t
    <2>1. t \in LooksUp(f, r)
      BY <1>1, <1>3 DEF LooksUp
    <2> QED
      BY <1>1, <2>1
  <1>4. CASE r.do = "each" /\ \E p \in r.left : Above(p, t)
    <2>1. PICK p \in r.left : Above(p, t)
      BY <1>4
    <2>2. key \in {Plus, Hash} /\ Child(r.at, p)
      BY <1>4, <2>1 DEF FitsFilter
    <2>3. next \in Each(f, r.at, r.left)
      BY <1>4 DEF ReadsMessages
    <2> QED
      BY <1>2, <2>1, <2>2, <2>3, EachLeads
  <1>5. CASE r.do = "children" /\ Wildcards(f) = {}
    <2>1. LooksUp(f, r) = {f}
      BY <1>1, <1>5 DEF LooksUp
    <2>2. Len(f) \in Nat \ {0} /\ DOMAIN f = 1 .. Len(f)
      BY FilterLevels
    <2>3. \A i \in 1 .. Len(f) : f[i] \notin {Plus, Hash}
      BY <1>5, <2>2 DEF Wildcards, ToSet
    <2>4. f[Len(f)] # Hash
      BY <2>2, <2>3
    <2>5. Len(t) = Len(f) /\ \A i \in 1 .. Len(f) : f[i] = t[i]
      BY <1>1, <2>3, <2>4 DEF Reads, LevelsMatch
    <2>6. f = t
      <3>1. Above(f, t)
        BY <2>2, <2>5 DEF Above
      <3> HIDE DEF t
      <3> QED
        BY <1>1, <2>5, <3>1, SamePath
    <2> QED
      BY <1>1, <2>1, <2>6
  <1>6. ASSUME r.do = "children", Wildcards(f) # {}, Above(r.at, t), d < Len(t), key \in {Plus, Hash}
        PROVE  \E x \in Pending(next) : LeadsFilter(f, x, e)
    <2> DEFINE p == Append(r.at, t[d + 1])
    <2>1. Len(p) = d + 1 /\ p[d + 1] = t[d + 1] /\ \A i \in 1 .. d : p[i] = r.at[i]
      BY <1>2, NextPlace
    <2>2. Above(p, t) /\ Leads(p, t)
      <3> DEFINE k == t[d + 1]
      <3>1. k = t[Len(r.at) + 1] /\ Above(r.at, t) /\ Len(r.at) < Len(t)
        BY <1>6
      <3> HIDE DEF k, t
      <3>2. Above(Append(r.at, k), t) /\ Leads(Append(r.at, k), t)
        BY <1>1, <1>2, <3>1, NextAbove
      <3> QED
        BY <3>2 DEF k, t
    <2>3. p \in particles /\ p \in Paths
      BY <1>1, <2>2, InTree DEF Leads
    <2> DEFINE left == Adjacent(f, r.at)
    <2>4. Front(p) = r.at
      <3> DEFINE y == SubSeq(p, 1, d)
      <3>1. d \in 0 .. Len(p) /\ Len(p) - 1 = d
        BY <1>2, <2>1
      <3>2. y \in Seq(STRING) /\ Len(y) = d /\ \A i \in 1 .. d : y[i] = p[i]
        <4> HIDE DEF p, d
        <4> QED
          BY <2>3, <3>1, PartOfPath
      <3>3. Front(p) = y
        BY <3>1 DEF Front
      <3> HIDE DEF y
      <3>4. r.at \in Seq(STRING) /\ Len(r.at) = d /\ \A i \in 1 .. d : r.at[i] = y[i]
        BY <1>2, <2>1, <3>2, PlaceLevels
      <3>5. r.at = y
        <4> HIDE DEF d
        <4> DEFINE z == r.at
        <4>1. z \in Seq(STRING) /\ Len(z) = Len(y) /\ \A i \in 1 .. Len(y) : z[i] = y[i]
          BY <3>2, <3>4
        <4> HIDE DEF z
        <4>2. z = y
          BY <3>2, <4>1, SeqEqual
        <4> QED
          BY <4>2 DEF z
      <3> QED
        BY <3>3, <3>5
    <2>5. r.at = <<>> => Last(p) # SysPrefix
      <3> SUFFICES ASSUME r.at = <<>> PROVE Last(p) # SysPrefix
        OBVIOUS
      <3>1. d = 0 /\ Last(p) = t[1]
        BY <1>2, <2>1 DEF Last
      <3>2. key = f[1]
        BY <1>2, <3>1, FilterLevels
      <3> QED
        BY <1>1, <1>6, <3>1, <3>2
    <2> HIDE DEF p
    <2>6. p \in left /\ Child(r.at, p) /\ left \in SUBSET Paths
      <3>1. particles \in SUBSET Paths
        BY InTree
      <3> QED
        BY <2>3, <2>4, <2>5, <3>1 DEF Adjacent, Child
    <2>7. next \in Each(f, r.at, left)
      BY <1>1, <1>6 DEF ReadsMessages
    <2> HIDE DEF left
    <2> QED
      BY <1>2, <1>6, <2>2, <2>6, <2>7, EachLeads
  <1>7. ASSUME r.do = "children", Wildcards(f) # {}, Above(r.at, t), d < Len(t), key \notin {Plus, Hash}
        PROVE  e \in Finds(f, r) \/ \E x \in Pending(next) : LeadsFilter(f, x, e)
    <2>1. key = t[d + 1] /\ d < Len(f)
      BY <1>1, <1>2, <1>7
    <2>2. Len(q) = d + 1 /\ q[d + 1] = key
      BY <1>2, NextPlace
    <2>3. Above(q, t) /\ Leads(q, t) /\ (Len(q) = Len(t) => q = t)
      <3> HIDE DEF t, key
      <3> QED
        BY <1>1, <1>2, <1>7, <2>1, NextAbove
    <2>4. q \in particles /\ q \in Paths /\ q \in Place
      BY <1>1, <2>3, InTree DEF Leads, Place
    <2>5. Len(f) \in Nat \ {0} /\ Level(f, d) = f[d + 1] /\ \A i \in 1 .. Len(f) - 1 : f[i] # Hash
      BY <1>2, <2>1, FilterLevels
    <2>6. CASE HasNext(f, d)
      <3>1. next = <<ChildrenOf(q)>>
        BY <1>1, <1>7, <2>4, <2>6 DEF ReadsMessages, VisitMessages, ChildrenOf
      <3>2. d + 1 < Len(f)
        BY <2>6 DEF HasNext
      <3> HIDE DEF q
      <3>3. Len(q) < Len(t)
        BY <1>1, <1>2, <2>2, <2>5, <3>2
      <3>4. LeadsFilter(f, ChildrenOf(q), e)
        BY <2>3, <2>4, <3>3, MessageReads DEF LeadsFilter
      <3>5. Reading(ChildrenOf(q))
        BY <2>4, MessageReads
      <3> QED
        BY <3>1, <3>4, <3>5, ListedPending
    <2>7. CASE ~HasNext(f, d)
      <3>1. d + 1 = Len(f)
        BY <1>2, <2>1, <2>5, <2>7 DEF HasNext
      <3>2. f[Len(f)] # Hash
        BY <1>7, <2>5, <3>1
      <3>3. q = t
        BY <1>1, <2>2, <2>3, <3>1, <3>2
      <3>4. Last(q) = key
        BY <2>2 DEF Last
      <3>5. LooksUp(f, r) = {Path(q)}
        BY <1>1, <1>7, <2>4, <2>7, <3>4 DEF LooksUp
      <3> QED
        BY <1>1, <3>3, <3>5
    <2> QED
      BY <2>6, <2>7
  <1> QED
    BY <1>3, <1>4, <1>5, <1>6, <1>7 DEF LeadsFilter

-----------------------------------------------------------------------------
(* What a scan has still to find.                                           *)

\* A scan for a topic or for a filter; where it goes, and which read leads to what it wants.
InScan(j) == j.op \in {"publish", "messages"} /\ j.stage = "scan"
Fits(j, r) == IF j.op = "publish" THEN FitsTopic(j.of, r) ELSE FitsFilter(j.of, r)
LeadsOn(j, r, e) == IF j.op = "publish" THEN LeadsTopic(j.of, r, e) ELSE LeadsFilter(j.of, r, e)

\* It found it, or of the handlers with one id another.
Has(j, e) ==
  e \in j.found \/ (j.op = "publish" /\ e[3] = Handler /\ \E x \in j.found : x[2] = e[2] /\ x[3] = Handler)

\* W is what it selects: it has found of it what was there throughout, or a read that is still to
\* be made leads there.
ScanKept(j, W) ==
  /\ IsReads(j.reads) /\ \A r \in Pending(j.reads) : Fits(j, r)
  /\ j.found \subseteq j.ever /\ W \subseteq j.ever /\ j.always \subseteq W
  /\ \A e \in j.always : Has(j, e) \/ \E r \in Pending(j.reads) : LeadsOn(j, r, e)
ScanInv ==
  \A g \in Goroutines : InScan(job[g]) =>
     ScanKept(job[g], Selects(job[g].op, job[g].of, subs, inline, retained))

\* What the two scans select, whatever else there is.
LEMMA SelectsIs ==
  ASSUME NEW op, NEW of, NEW s, NEW i, NEW m
  PROVE  /\ op = "publish" => Selects(op, of, s, i, m) = Selects("publish", of, s, i, <<>>)
         /\ op # "publish" => Selects(op, of, s, i, m) = Selects("messages", of, <<>>, {}, m)
BY DEF Selects

\* The scan of a subscription (publishRetainedToClient, Server.Subscribe).
StartReading(f, by, pk) == Scan("messages", f, by, pk, VisitMessages(f, <<>>))

\* A scan that starts has everything before it.
LEMMA TopicStarts ==
  ASSUME IndexOK, NEW t \in Paths, t # NoTopic, NEW pk, NEW m
  PROVE  LET k == StartRouting(t, pk)
         IN  k.op = "publish" /\ ScanKept(k, Selects(k.op, k.of, subs, inline, m))
PROOF
  <1> DEFINE k == StartRouting(t, pk)
             v == Visit(t, <<>>)
  <1>1. k.op = "publish" /\ k.of = t /\ k.reads = v /\ k.found = {}
    BY DEF StartRouting, Scan
  <1>2. k.always = Chosen(t) /\ k.ever = Chosen(t)
    BY DEF StartRouting, Scan, Wanted, Chosen
  <1> HIDE DEF k, v
  <1>3. Selects(k.op, k.of, subs, inline, m) = Chosen(t)
    BY <1>1 DEF Selects, Chosen
  <1>4. <<>> \in Place /\ Len(<<>>) = 0 /\ Len(t) \in Nat \ {0}
    BY PartOfPath DEF Place
  <1>5. /\ IsReads(v)
        /\ \A x \in Pending(v) :
             x.at = <<>> /\ ((x.do = "level" /\ x.key \in {Plus, t[Len(<<>>) + 1]}) \/ (x.do = "all" /\ x.key = Hash))
    BY <1>4, VisitPending DEF v
  <1>6. \A x \in Pending(v) : Fits(k, x)
    <2>1. Follows(<<>>, t)
      BY <1>4 DEF Follows
    <2> QED
      BY <1>1, <1>4, <1>5, <2>1 DEF Fits, FitsTopic
  <1>7. \A e \in Chosen(t) : \E x \in Pending(v) : LeadsOn(k, x, e)
    <2> SUFFICES ASSUME NEW e \in Chosen(t) PROVE \E x \in Pending(v) : LeadsTopic(t, x, e)
      BY <1>1 DEF LeadsOn
    <2>1. At(e) \in Paths
      BY SelectedAt
    <2>2. Len(At(e)) \in Nat \ {0}
      BY <2>1, PartOfPath
    <2>3. Above(<<>>, At(e))
      BY <1>4, <2>2 DEF Above
    <2> QED
      BY <1>4, <2>2, <2>3, VisitLeads DEF v
  <1>8. ScanKept(k, Chosen(t))
    BY <1>1, <1>2, <1>5, <1>6, <1>7 DEF ScanKept
  <1> QED
    BY <1>1, <1>3, <1>8 DEF k

\* So has one for a filter, in the tree of which every message has its particle.
LEMMA FilterStarts ==
  ASSUME IndexOK, ~May("unset"), DOMAIN retained \subseteq retainPath, NEW f \in Paths, ValidFilter(f),
         NEW by, NEW pk, NEW s, NEW i
  PROVE  LET k == StartReading(f, by, pk)
         IN  k.op = "messages" /\ ScanKept(k, Selects(k.op, k.of, s, i, retained))
PROOF
  <1> DEFINE k == StartReading(f, by, pk)
             c == ChildrenOf(<<>>)
  <1>1. k.op = "messages" /\ k.of = f /\ k.reads = <<c>> /\ k.found = {}
    BY DEF StartReading, Scan, VisitMessages, ChildrenOf
  <1>2. k.always = Readable(f) /\ k.ever = Readable(f)
    BY DEF StartReading, Scan, Wanted, Readable
  <1>3. <<>> \in Place /\ Len(<<>>) = 0 /\ {} \in SUBSET Paths /\ Len(f) \in Nat \ {0}
    BY PartOfPath DEF Place
  <1>4. Reading(c) /\ c.do = "children" /\ c.at = <<>>
    BY <1>3, MessageReads
  <1> HIDE DEF k, c
  <1>5. Selects(k.op, k.of, s, i, retained) = Readable(f)
    BY <1>1 DEF Selects, Readable
  <1>6. IsReads(k.reads) /\ Pending(k.reads) = {c}
    BY <1>1, <1>4, ListedPending
  <1>7. Fits(k, c)
    <2>1. Along(f, <<>>)
      BY <1>3 DEF Along
    <2> QED
      BY <1>1, <1>4, <2>1 DEF Fits, FitsFilter
  <1>8. \A e \in Readable(f) : LeadsOn(k, c, e)
    <2> SUFFICES ASSUME NEW e \in Readable(f) PROVE LeadsFilter(f, c, e)
      BY <1>1 DEF LeadsOn
    <2>1. Len(e.topic) \in Nat \ {0}
      BY ReadableAt
    <2>2. Above(<<>>, e.topic)
      BY <1>3, <2>1 DEF Above
    <2> QED
      BY <1>3, <1>4, <2>1, <2>2 DEF LeadsFilter
  <1>9. ScanKept(k, Readable(f))
    BY <1>1, <1>2, <1>6, <1>7, <1>8 DEF ScanKept
  <1> QED
    BY <1>1, <1>5, <1>9 DEF k

-----------------------------------------------------------------------------
(* A scan goes on.                                                          *)

\* A read made: what it gathers, and what is left to be read. Of the handlers of one id it keeps
\* the last (scanSubscribers, gatherInlineSubscriptions).
Kept(j, r, got) ==
  IF r.do = "inline" THEN {e \in j.found : e[3] = Handler => \A x \in got : x[2] # e[2]} ELSE j.found
Onward(j, r, got, next) == [j EXCEPT !.reads = next \o Tail(@), !.found = Kept(j, r, got) \cup got]

\* The fields of a scan.
IsScan(j) == DOMAIN j = ScanFields

\* Reads go where a scan does.
AllFit(j, s) == \A x \in Pending(s) : Fits(j, x)

\* The scan after it.
Went(j, r, got, next, k) ==
  /\ k.op = j.op /\ k.of = j.of /\ k.always = j.always /\ k.ever = j.ever
  /\ k.found = Kept(j, r, got) \cup got
  /\ IsReads(k.reads) /\ Pending(k.reads) = Pending(next) \cup Pending(Tail(j.reads))
  /\ Pending(j.reads) = {r} \cup Pending(Tail(j.reads))
  /\ AllFit(k, k.reads)

\* Its reads, where the next ones go where the scan goes.
LEMMA OnwardReads ==
  ASSUME NEW j, IsScan(j), IsReads(j.reads), j.reads # <<>>, AllFit(j, j.reads),
         NEW next, IsReads(next), AllFit(j, next), NEW r, r = Head(j.reads), NEW got,
         NEW k, k = Onward(j, r, got, next)
  PROVE  Went(j, r, got, next, k)
PROOF
  <1> DEFINE new == next \o Tail(j.reads)
             all == Kept(j, r, got) \cup got
  <1>1. k = [j EXCEPT !.reads = new, !.found = all]
    BY DEF Onward
  <1>2. IsReads(Tail(j.reads)) /\ Pending(j.reads) = {r} \cup Pending(Tail(j.reads))
    BY FirstPending
  <1>3. IsReads(new) /\ Pending(new) = Pending(next) \cup Pending(Tail(j.reads))
    BY <1>2, BothPending
  <1> HIDE DEF new, all
  <1>4. /\ k.op = j.op /\ k.of = j.of /\ k.always = j.always /\ k.ever = j.ever 
        /\ k.found = all /\ k.reads = new
    BY <1>1 DEF IsScan, ScanFields
  <1>5. \A x \in Pending(new) : Fits(k, x)
    BY <1>2, <1>3, <1>4 DEF Fits, AllFit
  <1> QED
    BY <1>2, <1>3, <1>4, <1>5 DEF all, AllFit, Went

\* What it had it has, or a handler with the same id.
LEMMA StillHas ==
  ASSUME NEW j, NEW r, NEW got, NEW k, k.op = j.op, k.found = Kept(j, r, got) \cup got,
         r.do = "inline" => j.op = "publish" /\ \A x \in got : x[3] = Handler
  PROVE  \A e : Has(j, e) => Has(k, e)
PROOF
  <1> SUFFICES ASSUME NEW e, Has(j, e) PROVE Has(k, e)
    OBVIOUS
  <1>1. CASE r.do # "inline"
    BY <1>1 DEF Kept, Has
  <1>2. ASSUME r.do = "inline", NEW x \in j.found, x[2] = e[2], x[3] = Handler, e[3] = Handler PROVE Has(k, e)
    <2>1. CASE \E y \in got : y[2] = x[2]
      BY <1>2, <2>1 DEF Has
    <2>2. CASE ~ \E y \in got : y[2] = x[2]
      BY <1>2, <2>2 DEF Has, Kept
    <2> QED
      BY <2>1, <2>2
  <1>3. CASE r.do = "inline"
    <2>1. CASE e \in j.found /\ e[3] # Handler
      BY <1>3, <2>1 DEF Has, Kept
    <2>2. CASE e \in j.found /\ e[3] = Handler
      BY <1>2, <1>3, <2>2
    <2>3. CASE e[3] = Handler /\ \E x \in j.found : x[2] = e[2] /\ x[3] = Handler
      BY <1>2, <1>3, <2>3
    <2> QED
      BY <2>1, <2>2, <2>3 DEF Has
  <1> QED
    BY <1>1, <1>3

\* A read of a scan for a topic (scanSubscribers).
LEMMA TopicGoesOn ==
  ASSUME IndexOK, particles = Tree(Contents), Contents \in SUBSET Paths,
         NEW j, IsScan(j),
         j.op = "publish", j.of \in Paths, j.reads # <<>>, ScanKept(j, Chosen(j.of))
  PROVE  LET r == Head(j.reads)
         IN  ScanKept(Onward(j, r, Gathers(j.of, r), ReadsSubscribers(j.of, r)), Chosen(j.of))
PROOF
  <1> DEFINE t == j.of
             r == Head(j.reads)
             got == Gathers(t, r)
             next == ReadsSubscribers(t, r)
             k == Onward(j, r, got, next)
  <1>1. r = Head(j.reads) /\ IsReads(j.reads) /\ r \in Pending(j.reads) /\ \A x \in Pending(j.reads) : Fits(j, x)
    BY FirstPending DEF ScanKept
  <1>2. Reading(r) /\ FitsTopic(t, r)
    BY <1>1 DEF IsReads, Fits
  <1>3. IsReads(next) /\ \A x \in Pending(next) : Fits(j, x)
    <2>1. particles \subseteq Paths
      BY InTree
    <2> QED
      BY <1>2, <2>1, TopicFits DEF Fits
  <1>4. got \subseteq Chosen(t)
    BY <1>2, TopicSound
  <1>5. \A e \in Chosen(t) : LeadsTopic(t, r, e) => e \in got \/ \E x \in Pending(next) : LeadsTopic(t, x, e)
    BY <1>2, TopicLeads
  <1>6. r.do = "inline" => \A x \in got : x[3] = Handler
    BY DEF Gathers, HeldInline
  <1> HIDE DEF k, next, got, r
  <1>7. /\ k.op = j.op /\ k.of = j.of /\ k.always = j.always /\ k.ever = j.ever
        /\ k.found = Kept(j, r, got) \cup got
        /\ IsReads(k.reads) /\ Pending(k.reads) = Pending(next) \cup Pending(Tail(j.reads))
        /\ Pending(j.reads) = {r} \cup Pending(Tail(j.reads))
        /\ AllFit(k, k.reads)
    <2>1. k = Onward(j, r, got, next)
      BY DEF k
    <2>2. AllFit(j, j.reads) /\ AllFit(j, next)
      BY <1>1, <1>3 DEF AllFit
    <2>3. Went(j, r, got, next, k)
      BY <1>1, <1>3, <2>1, <2>2, OnwardReads
    <2> QED
      BY <2>3 DEF Went
  <1>8. k.found \subseteq k.ever
    BY <1>4, <1>7 DEF ScanKept, Kept
  <1>9. ASSUME NEW e \in k.always PROVE Has(k, e) \/ \E x \in Pending(k.reads) : LeadsOn(k, x, e)
    <2>1. e \in Chosen(t) /\ (Has(j, e) \/ \E x \in Pending(j.reads) : LeadsTopic(t, x, e))
      BY <1>7, <1>9 DEF ScanKept, LeadsOn
    <2>2. CASE Has(j, e)
      BY <1>6, <1>7, <2>2, StillHas
    <2>3. CASE \E x \in Pending(Tail(j.reads)) : LeadsTopic(t, x, e)
      BY <1>7, <2>3 DEF LeadsOn
    <2>4. CASE LeadsTopic(t, r, e)
      <3>1. e \in got \/ \E x \in Pending(next) : LeadsTopic(t, x, e)
        BY <1>5, <2>1, <2>4
      <3> QED
        BY <1>7, <3>1 DEF LeadsOn, Has
    <2> QED
      BY <1>7, <2>1, <2>2, <2>3, <2>4
  <1>10. ScanKept(k, Chosen(t))
    BY <1>7, <1>8, <1>9 DEF ScanKept, AllFit
  <1> QED
    BY <1>10 DEF k, next, got, r

\* A read of a scan for a filter (scanMessages).
LEMMA FilterGoesOn ==
  ASSUME IndexOK, ~May("unset"), particles = Tree(Contents), Contents \in SUBSET Paths, DOMAIN retained \subseteq retainPath,
         NEW j, IsScan(j),
         j.op = "messages", j.of \in Paths, ValidFilter(j.of), j.reads # <<>>, ScanKept(j, Readable(j.of)),
         NEW next \in ReadsMessages(j.of, Head(j.reads))
  PROVE  LET r == Head(j.reads)
         IN  ScanKept(Onward(j, r, Finds(j.of, r), next), Readable(j.of))
PROOF
  <1> DEFINE f == j.of
             r == Head(j.reads)
             got == Finds(f, r)
             k == Onward(j, r, got, next)
  <1>0. particles \subseteq Paths
    BY InTree
  <1>1. r = Head(j.reads) /\ IsReads(j.reads) /\ r \in Pending(j.reads) /\ \A x \in Pending(j.reads) : Fits(j, x)
    BY FirstPending DEF ScanKept
  <1>2. Reading(r) /\ FitsFilter(f, r)
    BY <1>1 DEF IsReads, Fits
  <1>3. IsReads(next) /\ \A x \in Pending(next) : Fits(j, x)
    BY <1>0, <1>2, FilterFits DEF Fits
  <1>4. got \subseteq Readable(f)
    BY <1>0, <1>2, FilterSound
  <1>5. \A e \in Readable(f) : LeadsFilter(f, r, e) => e \in got \/ \E x \in Pending(next) : LeadsFilter(f, x, e)
    BY <1>2, FilterFinds
  <1>6. r.do # "inline"
    BY <1>2 DEF FitsFilter
  <1> HIDE DEF k, got, r
  <1>7. /\ k.op = j.op /\ k.of = j.of /\ k.always = j.always /\ k.ever = j.ever
        /\ k.found = Kept(j, r, got) \cup got
        /\ IsReads(k.reads) /\ Pending(k.reads) = Pending(next) \cup Pending(Tail(j.reads))
        /\ Pending(j.reads) = {r} \cup Pending(Tail(j.reads))
        /\ AllFit(k, k.reads)
    <2>1. k = Onward(j, r, got, next)
      BY DEF k
    <2>2. AllFit(j, j.reads) /\ AllFit(j, next)
      BY <1>1, <1>3 DEF AllFit
    <2>3. Went(j, r, got, next, k)
      BY <1>1, <1>3, <2>1, <2>2, OnwardReads
    <2> QED
      BY <2>3 DEF Went
  <1>8. k.found \subseteq k.ever
    BY <1>4, <1>7 DEF ScanKept, Kept
  <1>9. ASSUME NEW e \in k.always PROVE Has(k, e) \/ \E x \in Pending(k.reads) : LeadsOn(k, x, e)
    <2>1. e \in Readable(f) /\ (Has(j, e) \/ \E x \in Pending(j.reads) : LeadsFilter(f, x, e))
      BY <1>7, <1>9 DEF ScanKept, LeadsOn
    <2>2. CASE Has(j, e)
      BY <1>6, <1>7, <2>2, StillHas
    <2>3. CASE \E x \in Pending(Tail(j.reads)) : LeadsFilter(f, x, e)
      BY <1>7, <2>3 DEF LeadsOn
    <2>4. CASE LeadsFilter(f, r, e)
      <3>1. e \in got \/ \E x \in Pending(next) : LeadsFilter(f, x, e)
        BY <1>5, <2>1, <2>4
      <3> QED
        BY <1>7, <3>1 DEF LeadsOn, Has
    <2> QED
      BY <1>7, <2>1, <2>2, <2>3, <2>4
  <1>10. ScanKept(k, Readable(f))
    BY <1>7, <1>8, <1>9 DEF ScanKept, AllFit
  <1> QED
    BY <1>10 DEF k, got, r

-----------------------------------------------------------------------------
(* A scan while others change the tree.                                     *)

\* Where a tree holds what is selected, with what leads there.
Rooted(p, tree) == p \in Paths /\ \A x : Leads(x, p) => x \in tree

\* What is selected has its particles in the tree, and the particles lead to it as the filter does.
TopicRooted(t, tree) == \A e \in Chosen(t) : Rooted(At(e), tree)
Spells(f, p) == \A d \in Nat : d < Len(p) /\ Level(f, d) \notin {Plus, Hash} => Level(f, d) = p[d + 1]
FilterRooted(f, tree) ==
  \A e \in Readable(f) : Rooted(e.topic, tree) /\ Spells(f, e.topic) /\ (f[Len(f)] # Hash => Len(e.topic) = Len(f))

\* In a tree that is well formed.
LEMMA SelectedRooted ==
  IndexOK /\ ~May("unset") /\ WellGrown =>
    /\ \A t \in Paths : TopicRooted(t, particles)
    /\ \A f \in Paths : ValidFilter(f) => FilterRooted(f, particles)
PROOF
  <1> SUFFICES ASSUME IndexOK, ~May("unset"), WellGrown
               PROVE  /\ \A t \in Paths : TopicRooted(t, particles)
                      /\ \A f \in Paths : ValidFilter(f) => FilterRooted(f, particles)
    OBVIOUS
  <1>1. Contents \in SUBSET Paths /\ particles = Tree(Contents) /\ DOMAIN retained \subseteq retainPath
    BY GrownIsFormed DEF WellGrown
  <1>2. \A p \in Contents : Rooted(p, particles)
    <2> SUFFICES ASSUME NEW p \in Contents, NEW x, Leads(x, p) PROVE x \in Tree(Contents)
      BY <1>1 DEF Rooted
    <2> QED
      BY <1>1, InTree
  <1>3. ASSUME NEW t \in Paths PROVE TopicRooted(t, particles)
    BY <1>2, SelectedAt DEF TopicRooted
  <1>4. ASSUME NEW f \in Paths, ValidFilter(f) PROVE FilterRooted(f, particles)
    <2>1. ASSUME NEW e \in Readable(f)
          PROVE  Rooted(e.topic, particles) /\ Spells(f, e.topic) /\ (f[Len(f)] # Hash => Len(e.topic) = Len(f))
      <3>1. /\ e.topic \in Contents /\ (f[Len(f)] # Hash => Len(e.topic) = Len(f))
            /\ \A d \in Nat : d < Len(e.topic) /\ Level(f, d) \notin {Plus, Hash} => Level(f, d) = e.topic[d + 1] /\ d < Len(f)
        BY <1>1, <1>4, <2>1, ReadableAt
      <3> QED
        BY <1>2, <3>1 DEF Spells
    <2> QED
      BY <2>1 DEF FilterRooted
  <1> QED
    BY <1>3, <1>4

\* A particle above one that is in the tree is in it, or is the root.
LEMMA AboveRooted ==
  ASSUME NEW p, NEW tree, Rooted(p, tree), NEW at \in Place, Above(at, p)
  PROVE  at \in tree \cup {<<>>}
BY DEF Rooted, Place, Above, Leads

\* The one below is above p only if it is.
LEMMA AboveNext ==
  ASSUME NEW at \in Place, NEW key, NEW p \in Paths, Above(Append(at, key), p)
  PROVE  Above(at, p)
PROOF
  <1>1. /\ Len(at) \in Nat /\ Len(Append(at, key)) = Len(at) + 1
        /\ \A i \in 1 .. Len(at) : Append(at, key)[i] = at[i]
    BY NextPlace
  <1>2. Len(p) \in Nat
    BY PartOfPath
  <1> QED
    BY <1>1, <1>2 DEF Above

\* A path is above itself.
LEMMA AboveSelf == ASSUME NEW p \in Paths PROVE Above(p, p)
BY PartOfPath DEF Above

\* The read that leads to what is in the tree is of a particle of the tree (trim).
LEMMA TopicStays ==
  ASSUME NEW t, NEW r, Reading(r), NEW e, NEW tree, Rooted(At(e), tree), LeadsTopic(t, r, e)
  PROVE  r.at \in tree \cup {<<>>}
PROOF
  <1> DEFINE p == At(e)
             q == Append(r.at, r.key)
  <1>1. r.at \in Place /\ p \in Paths
    BY DEF Reading, Rooted
  <1>2. Above(q, p) \/ q = p \/ r.at = p
    BY DEF LeadsTopic
  <1>3. Above(r.at, p)
    <2> HIDE DEF p
    <2>1. CASE Above(q, p)
      BY <1>1, <2>1, AboveNext
    <2>2. CASE q = p
      <3>1. Above(q, p)
        BY <1>1, <2>2, AboveSelf
      <3> QED
        BY <1>1, <3>1, AboveNext
    <2>3. CASE r.at = p
      BY <1>1, <2>3, AboveSelf
    <2> QED
      BY <1>2, <2>1, <2>2, <2>3
  <1> QED
    BY <1>1, <1>3, AboveRooted

\* So is that of a scan for a filter, and the child on the way stays among those left.
LEMMA FilterStays ==
  ASSUME NEW f \in Paths, ValidFilter(f), NEW r, Reading(r), FitsFilter(f, r), NEW e, NEW tree,
         Rooted(e.topic, tree), Spells(f, e.topic), f[Len(f)] # Hash => Len(e.topic) = Len(f), LeadsFilter(f, r, e)
  PROVE  /\ r.at \in tree \cup {<<>>}
         /\ \A x : x.do = r.do /\ x.at = r.at /\ x.left = r.left \cap tree => LeadsFilter(f, x, e)
PROOF
  <1> DEFINE p == e.topic
  <1>1. r.at \in Place /\ p \in Paths /\ r.left \subseteq Paths
    BY DEF Reading, Rooted
  <1>2. CASE r.do = "children" /\ Wildcards(f) = {}
    <2>1. \A i \in 1 .. Len(f) : f[i] \notin {Plus, Hash}
      BY <1>2, PartOfPath DEF Wildcards, ToSet
    <2>2. /\ Len(f) \in Nat \ {0} /\ Last(f) = f[Len(f)]
          /\ \A d \in Nat : (d < Len(f) => Level(f, d) = f[d + 1]) /\ (d >= Len(f) => Level(f, d) = f[Len(f)])
      BY FilterLevels
    <2>3. Last(f) # Hash /\ Len(p) = Len(f)
      BY <2>1, <2>2
    <2>4. Along(f, r.at) /\ Len(r.at) \in Nat
      BY <1>1, <1>2, PlaceLevels DEF FitsFilter
    <2>5. Len(r.at) < Len(f)
      BY <2>2, <2>3, <2>4 DEF Along
    <2>6. ASSUME NEW i \in 1 .. Len(r.at) PROVE r.at[i] = p[i]
      <3>1. i \in 1 .. Len(f) /\ i - 1 \in Nat /\ i - 1 < Len(f) /\ (i - 1) + 1 = i
        BY <2>2, <2>4, <2>5
      <3>2. Level(f, i - 1) = f[i] /\ f[i] \notin {Plus, Hash}
        BY <2>1, <2>2, <3>1
      <3>3. Level(f, i - 1) = r.at[i]
        BY <2>4, <3>2 DEF Along
      <3>4. Level(f, i - 1) = p[i]
        BY <2>3, <3>1, <3>2 DEF Spells
      <3> QED
        BY <3>3, <3>4
    <2>7. Above(r.at, p)
      BY <2>3, <2>5, <2>4, <2>2, <2>6 DEF Above
    <2> QED
      BY <1>1, <1>2, <2>7, AboveRooted DEF LeadsFilter
  <1>3. CASE r.do = "children" /\ Above(r.at, p) /\ Len(r.at) < Len(p)
    BY <1>1, <1>3, AboveRooted DEF LeadsFilter
  <1>4. CASE r.do = "each" /\ \E c \in r.left : Above(c, p)
    <2>1. PICK c \in r.left : Above(c, p)
      BY <1>4
    <2>2. c \in Paths /\ Front(c) = r.at
      BY <1>1, <1>4, <2>1 DEF FitsFilter, Child
    <2>3. Leads(c, p)
      BY <2>1, <2>2 DEF Leads, Above
    <2>4. c \in r.left \cap tree
      BY <2>1, <2>3 DEF Rooted
    <2>5. Above(r.at, p)
      <3>1. /\ Len(r.at) \in Nat /\ Len(c) = Len(r.at) + 1 /\ \A i \in 1 .. Len(r.at) : c[i] = r.at[i]
        BY <1>1, <2>2, ChildLevels
      <3>2. Len(p) \in Nat
        BY <1>1, PartOfPath
      <3> QED
        BY <2>1, <3>1, <3>2 DEF Above
    <2> QED
      BY <1>1, <1>4, <2>1, <2>4, <2>5, AboveRooted DEF LeadsFilter
  <1>5. CASE r.do = "retainPath" /\ r.at = p
    <2>1. Above(r.at, p)
      BY <1>1, <1>5, AboveSelf
    <2> QED
      BY <1>1, <1>5, <2>1, AboveRooted DEF LeadsFilter
  <1> QED
    BY <1>2, <1>3, <1>4, <1>5 DEF LeadsFilter

\* What a scan selects is in the tree.
ScanRooted(j, S, tree) ==
  \A e \in S : IF j.op = "publish" THEN Rooted(At(e), tree)
               ELSE Rooted(e.topic, tree) /\ Spells(j.of, e.topic) /\ (j.of[Len(j.of)] # Hash => Len(e.topic) = Len(j.of))

\* A read that is still made is as it was, and goes where the scan goes.
LEMMA StillFits ==
  ASSUME NEW j, NEW r, Reading(r), Fits(j, r), NEW tree, NEW x, x = [r EXCEPT !.left = r.left \cap tree],
         NEW k, k.op = j.op, k.of = j.of
  PROVE  x.do = r.do /\ x.at = r.at /\ x.key = r.key /\ x.left = r.left \cap tree /\ Fits(k, x)
PROOF
  <1>1. x.do = r.do /\ x.at = r.at /\ x.key = r.key /\ x.left = r.left \cap tree
    BY DEF Reading
  <1>2. CASE j.op = "publish"
    <2>1. FitsTopic(j.of, r)
      BY <1>2 DEF Fits
    <2>2. FitsTopic(j.of, x)
      BY <1>1, <2>1 DEF FitsTopic
    <2> QED
      BY <1>1, <1>2, <2>2 DEF Fits
  <1>3. CASE j.op # "publish"
    <2>1. FitsFilter(j.of, r)
      BY <1>3 DEF Fits
    <2>2. FitsFilter(j.of, x)
      BY <1>1, <2>1 DEF FitsFilter
    <2> QED
      BY <1>1, <1>3, <2>2 DEF Fits
  <1> QED
    BY <1>2, <1>3

\* A scan that goes on in another tree, with S as what it selects of it.
In(j, tree, S) ==
  [j EXCEPT !.reads = StillHeld(j.reads, tree), !.always = j.always \cap S, !.ever = j.ever \cup S]
Observes(j, tree, S) == LET k == In(j, tree, S) IN k.op = j.op /\ k.of = j.of /\ ScanKept(k, S)

\* The scan of another after a change: it misses nothing that is still there, and what is there
\* counts as having been there (StillHeld, Observed).
LEMMA ObservedKept ==
  ASSUME NEW j, IsScan(j), InScan(j), j.of \in Paths, j.op = "messages" => ValidFilter(j.of),
         NEW W, ScanKept(j, W), NEW tree, NEW S, ScanRooted(j, S, tree)
  PROVE  Observes(j, tree, S)
PROOF
  <1> DEFINE h == StillHeld(j.reads, tree)
             a == j.always \cap S
             v == j.ever \cup S
             k == In(j, tree, S)
  <1>1. k = [j EXCEPT !.reads = h, !.always = a, !.ever = v]
    BY DEF In
  <1>2. IsReads(j.reads) /\ \A r \in Pending(j.reads) : Reading(r) /\ Fits(j, r)
    BY DEF ScanKept, IsReads
  <1>3. /\ IsReads(h)
        /\ \A r \in Pending(h) : r = Nothing \/ \E x \in Pending(j.reads) : r = [x EXCEPT !.left = x.left \cap tree]
        /\ \A x \in Pending(j.reads) : x.at \in tree \cup {<<>>} => [x EXCEPT !.left = x.left \cap tree] \in Pending(h)
    BY <1>2, HeldPending
  <1> HIDE DEF h, a, v, k
  <1>4. k.op = j.op /\ k.of = j.of /\ k.found = j.found /\ k.reads = h /\ k.always = a /\ k.ever = v
    BY <1>1 DEF IsScan, ScanFields
  <1>5. ASSUME NEW r \in Pending(h) PROVE Fits(k, r)
    <2>1. CASE r = Nothing
      <3>1. r.do = "nothing"
        BY <2>1 DEF Nothing, Read
      <3> QED
        BY <3>1 DEF Fits, FitsTopic, FitsFilter
    <2>2. ASSUME NEW x \in Pending(j.reads), r = [x EXCEPT !.left = x.left \cap tree] PROVE Fits(k, r)
      <3>1. Reading(x) /\ Fits(j, x)
        BY <1>2
      <3> QED
        BY <1>4, <2>2, <3>1, StillFits
    <2> QED
      BY <1>3, <2>1, <2>2
  <1>6. ASSUME NEW e \in a PROVE Has(k, e) \/ \E r \in Pending(h) : LeadsOn(k, r, e)
    <2>1. e \in j.always /\ e \in S
      BY <1>6 DEF a
    <2>2. CASE Has(j, e)
      BY <1>4, <2>2 DEF Has
    <2>3. ASSUME NEW r \in Pending(j.reads), LeadsOn(j, r, e) PROVE \E x \in Pending(h) : LeadsOn(k, x, e)
      <3> DEFINE x == [r EXCEPT !.left = r.left \cap tree]
      <3>1. x.do = r.do /\ x.at = r.at /\ x.key = r.key /\ x.left = r.left \cap tree
        BY <1>2, <1>4, <2>3, StillFits
      <3>2. r.at \in tree \cup {<<>>} => x \in Pending(h)
        BY <1>3, <2>3
      <3> HIDE DEF x
      <3>3. CASE j.op = "publish"
        <4>1. LeadsTopic(j.of, r, e) /\ Rooted(At(e), tree)
          BY <2>1, <2>3, <3>3 DEF LeadsOn, ScanRooted
        <4>2. r.at \in tree \cup {<<>>}
          BY <1>2, <2>3, <4>1, TopicStays
        <4>3. LeadsTopic(j.of, x, e)
          BY <3>1, <4>1 DEF LeadsTopic
        <4> QED
          BY <1>4, <3>2, <3>3, <4>2, <4>3 DEF LeadsOn
      <3>4. CASE j.op = "messages"
        <4>1. LeadsFilter(j.of, r, e) /\ FitsFilter(j.of, r) /\ Reading(r) /\ ValidFilter(j.of)
          BY <1>2, <2>3, <3>4 DEF LeadsOn, Fits
        <4>2. Rooted(e.topic, tree) /\ Spells(j.of, e.topic) /\ (j.of[Len(j.of)] # Hash => Len(e.topic) = Len(j.of))
          BY <2>1, <3>4 DEF ScanRooted
        <4>3. r.at \in tree \cup {<<>>} /\ LeadsFilter(j.of, x, e)
          BY <3>1, <4>1, <4>2, FilterStays
        <4> QED
          BY <1>4, <3>2, <3>4, <4>3 DEF LeadsOn
      <3> QED
        BY <3>3, <3>4 DEF InScan
    <2> QED
      BY <2>1, <2>2, <2>3 DEF ScanKept
  <1>7. k.found \subseteq k.ever /\ S \subseteq k.ever /\ k.always \subseteq S
    BY <1>4 DEF ScanKept, a, v
  <1>8. ScanKept(k, S)
    BY <1>3, <1>4, <1>5, <1>6, <1>7 DEF ScanKept
  <1> QED
    BY <1>4, <1>8 DEF Observes, k

-----------------------------------------------------------------------------
(* Every step keeps every scan.                                             *)

\* What a scan selects after a step is in the tree as it then is.
LEMMA RootedAfter ==
  ASSUME IndexOK', WellGrown', ~May("unset"), scenario' = scenario, NEW j, InScan(j), j.of \in Paths,
         j.op = "messages" => ValidFilter(j.of)
  PROVE  ScanRooted(j, Selects(j.op, j.of, subs', inline', retained'), particles')
PROOF
  <1>1. (IndexOK /\ ~May("unset") /\ WellGrown =>
           /\ \A t \in Paths : TopicRooted(t, particles)
           /\ \A f \in Paths : ValidFilter(f) => FilterRooted(f, particles))'
    BY SelectedRooted, PTL
  <1>2. (~May("unset"))'
    BY DEF May
  <1>3. /\ \A t \in Paths : TopicRooted(t, particles)'
        /\ \A f \in Paths : ValidFilter(f) => FilterRooted(f, particles)'
    BY <1>1, <1>2
  <1>4. \A t \in Paths : \A e \in Selects("publish", t, subs', inline', retained') : Rooted(At(e), particles')
    BY <1>3 DEF TopicRooted, Chosen
  <1>5. \A f \in Paths : ValidFilter(f) => \A e \in Selects("messages", f, subs', inline', retained') :
          /\ Rooted(e.topic, particles') /\ Spells(f, e.topic) /\ (f[Len(f)] # Hash => Len(e.topic) = Len(f))
    BY <1>3 DEF FilterRooted, Readable
  <1>6. CASE j.op = "publish"
    BY <1>4, <1>6 DEF ScanRooted
  <1>7. CASE j.op = "messages"
    BY <1>5, <1>7 DEF ScanRooted
  <1> QED
    BY <1>6, <1>7 DEF InScan

\* A goroutine goes on, to a scan that is as it should be or to something else; where it changed
\* the tree, it does so under the eyes of the other scans.
Onto(g, j) ==
  /\ Becomes(g, j) \/ (Goes(g, j) /\ UNCHANGED index)
  /\ InScan(j) => ScanKept(j, Selects(j.op, j.of, subs', inline', retained'))

\* Then the others' scans are as they should be too.
LEMMA OthersKept ==
  ASSUME Typed, ~May("unset"), ScanInv, IndexOK', WellGrown', scenario' = scenario,
         NEW g \in Goroutines, NEW j, Onto(g, j)
  PROVE  ScanInv'
PROOF
  <1> DEFINE W(k) == Selects(k.op, k.of, subs', inline', retained')
  <1> SUFFICES ASSUME NEW x \in Goroutines, InScan(job'[x]) PROVE ScanKept(job'[x], W(job'[x]))
    BY DEF ScanInv
  <1>0. DOMAIN job = Goroutines /\ JobsOK
    BY DEF Typed, JobsOK
  <1>1. CASE x = g
    <2>1. job'[x] = j
      BY <1>0, <1>1 DEF Onto, Becomes, Goes
    <2> QED
      BY <2>1 DEF Onto
  <1>2. CASE x # g /\ Goes(g, j) /\ UNCHANGED index
    <2>1. job'[x] = job[x]
      BY <1>0, <1>2 DEF Goes
    <2>2. subs' = subs /\ inline' = inline /\ retained' = retained
      BY <1>2 DEF index
    <2> QED
      BY <2>1, <2>2 DEF ScanInv
  <1>3. CASE x # g /\ Becomes(g, j)
    <2>1. job'[x] = Observed(job[x])
      BY <1>3 DEF Becomes
    <2>2. InScan(job[x])
      BY <2>1 DEF Observed, InScan
    <2> DEFINE k == job[x]
               o == Observed(k)
    <2>3. o = In(k, particles', W(k))
      BY <2>2 DEF Observed, InScan, In
    <2>4. Scanning(x, k)
      BY <1>0, <2>2, ScanInHand DEF InScan
    <2>5. IsScan(k) /\ k.of \in Paths /\ (k.op = "messages" => ValidFilter(k.of))
      BY <2>4 DEF Scanning, IsScan
    <2>6. ScanKept(k, Selects(k.op, k.of, subs, inline, retained))
      BY <2>2 DEF ScanInv
    <2> HIDE DEF k, o
    <2>7. InScan(k)
      BY <2>2 DEF k
    <2>8. ScanRooted(k, W(k), particles')
      BY <2>5, <2>7, RootedAfter
    <2> HIDE DEF W
    <2>9. o.op = k.op /\ o.of = k.of /\ ScanKept(o, W(k))
      <3>1. Observes(k, particles', W(k))
        BY <2>5, <2>6, <2>7, <2>8, ObservedKept
      <3> QED
        BY <2>3, <3>1 DEF Observes
    <2>10. W(o) = W(k)
      BY <2>9 DEF W
    <2> QED
      BY <2>1, <2>9, <2>10 DEF o, k
  <1> QED
    BY <1>1, <1>2, <1>3 DEF Onto

\* Somebody goes on as it should.
OneGoesOn == \E g \in Goroutines : \E j : Onto(g, j)

\* To something that is not a scan.
LEMMA NoScan ==
  ASSUME NEW g \in Goroutines, NEW j, j.op \notin {"publish", "messages"} \/ j.stage # "scan",
         Becomes(g, j) \/ (Goes(g, j) /\ UNCHANGED index)
  PROVE  OneGoesOn
BY DEF OneGoesOn, Onto, InScan

\* Who is idle or sends, leaves or expires does not scan.
LEMMA NotScanning ==
  /\ Idle.op \notin {"publish", "messages"}
  /\ \A m : [op |-> "send", stage |-> "next", messages |-> m].op \notin {"publish", "messages"}
  /\ \A m : [op |-> "leave", filters |-> m].op \notin {"publish", "messages"}
  /\ \A m : [op |-> "expire", pks |-> m].op \notin {"publish", "messages"}
BY DEF Idle

\* A subscriber reads what was retained before it subscribed (processSubscribe, Server.Subscribe).
LEMMA ReadingStarts ==
  ASSUME Typed, ~May("unset"), WellGrown, NEW g \in Goroutines, NEW f \in Paths, ValidFilter(f), NEW by, NEW pk,
         retained' = retained, Becomes(g, StartReading(f, by, pk))
  PROVE  OneGoesOn
PROOF
  <1> DEFINE k == StartReading(f, by, pk)
  <1>1. ScanKept(k, Selects(k.op, k.of, subs', inline', retained))
    BY FilterStarts DEF Typed, WellGrown
  <1> HIDE DEF k
  <1>2. ScanKept(k, Selects(k.op, k.of, subs', inline', retained'))
    BY <1>1
  <1>3. Becomes(g, k)
    BY DEF k
  <1> QED
    BY <1>2, <1>3 DEF OneGoesOn, Onto

\* The actions, one after the other: of a subscriber,
LEMMA SubscribeScans ==
  ASSUME Typed, ~May("unset"), WellGrown, NEW c \in Clients, NEW f \in Paths, NEW sub \in Subscriptions, Subscribe(c, f, sub)
  PROVE  OneGoesOn
PROOF
  <1>1. c \in Goroutines /\ ValidFilter(f) /\ retained' = retained
    BY DEF Goroutines, Subscribe, ValidFilter, IndexSubscribe
  <1>2. Becomes(c, StartReading(f, c, sub)) \/ Becomes(c, Idle)
    BY DEF Subscribe, StartReading
  <1>3. Becomes(c, StartReading(f, c, sub)) => OneGoesOn
    BY <1>1, ReadingStarts
  <1>4. Becomes(c, Idle) => OneGoesOn
    BY <1>1, NoScan, NotScanning
  <1> QED
    BY <1>2, <1>3, <1>4

\* of the inline client,
LEMMA InlineScans ==
  ASSUME Typed, ~May("unset"), WellGrown, NEW f \in Paths, NEW id, SubscribeInline(f, id) \/ UnsubscribeInline(f, id)
  PROVE  OneGoesOn
PROOF
  <1>1. InlineClient \in Goroutines
    BY DEF Goroutines
  <1>2. CASE SubscribeInline(f, id)
    <2>1. ValidFilter(f) /\ retained' = retained
      BY <1>2 DEF SubscribeInline, ValidFilter, InlineSubscribe
    <2>2. Becomes(InlineClient, StartReading(f, id, Handler))
      BY <1>2 DEF SubscribeInline, StartReading
    <2> QED
      BY <1>1, <2>1, <2>2, ReadingStarts
  <1>3. CASE UnsubscribeInline(f, id)
    BY <1>1, <1>3, NoScan, NotScanning DEF UnsubscribeInline
  <1> QED
    BY <1>2, <1>3

\* of a client that unsubscribes or leaves (UnsubscribeClient),
LEMMA LeaveScans ==
  ASSUME Typed, NEW c \in Clients, NEW f, Unsubscribe(c, f) \/ UnsubscribeClient(c) \/ UnsubscribeNext(c)
  PROVE  OneGoesOn
PROOF
  <1>1. c \in Goroutines
    BY DEF Goroutines
  <1>2. CASE Unsubscribe(c, f)
    BY <1>1, <1>2, NoScan, NotScanning DEF Unsubscribe
  <1>3. CASE UnsubscribeClient(c)
    <2>1. Goes(c, [op |-> "leave", filters |-> subscribed[c]]) /\ UNCHANGED index
      BY <1>3 DEF UnsubscribeClient
    <2> DEFINE j == [op |-> "leave", filters |-> subscribed[c]]
    <2>2. j.op \notin {"publish", "messages"}
      OBVIOUS
    <2> HIDE DEF j
    <2>3. Goes(c, j)
      BY <2>1 DEF j
    <2> QED
      BY <1>1, <2>1, <2>2, <2>3, NoScan
  <1>4. CASE UnsubscribeNext(c)
    <2>1. job[c].op = "leave" /\ DOMAIN job[c] = {"op", "filters"}
      BY <1>1, <1>4 DEF UnsubscribeNext, Typed, JobsOK, JobOK, Idle, Scanning, Retaining, Sending
    <2>2. ASSUME NEW h \in job[c].filters, Becomes(c, [job[c] EXCEPT !.filters = @ \ {h}]) PROVE OneGoesOn
      <3> DEFINE j == [job[c] EXCEPT !.filters = @ \ {h}]
      <3>1. j.op \notin {"publish", "messages"}
        BY <2>1
      <3> HIDE DEF j
      <3>2. Becomes(c, j)
        BY <2>2 DEF j
      <3> QED
        BY <1>1, <3>1, <3>2, NoScan
    <2>3. \/ \E h \in job[c].filters : Becomes(c, [job[c] EXCEPT !.filters = @ \ {h}])
          \/ Goes(c, Idle) /\ UNCHANGED index
      BY <1>4 DEF UnsubscribeNext
    <2>4. Goes(c, Idle) /\ UNCHANGED index => OneGoesOn
      BY <1>1, NoScan, NotScanning
    <2> QED
      BY <2>2, <2>3, <2>4
  <1> QED
    BY <1>2, <1>3, <1>4

\* A publisher looks for those who are subscribed as it begins to look (publishToSubscribers).
LEMMA RoutingStarts ==
  ASSUME Typed, ~May("unset"), JobsOK', scenario' = scenario, NEW g \in Goroutines, NEW t, NEW pk,
         subs' = subs, inline' = inline,
         Becomes(g, StartRouting(t, pk)) \/ (Goes(g, StartRouting(t, pk)) /\ UNCHANGED index)
  PROVE  OneGoesOn
PROOF
  <1> DEFINE k == StartRouting(t, pk)
  <1>1. k.op = "publish" /\ k.stage = "scan" /\ k.of = t
    BY DEF StartRouting, Scan
  <1> HIDE DEF k
  <1>2. job'[g] = k
    BY DEF Typed, JobsOK, Becomes, Goes, k
  <1>3. t \in Paths /\ t # NoTopic
    <2>1. \A x, y : JobOK(x, y)' = JobOK(x, y)
      BY DEF JobOK, Scanning, Retaining, Sending, Named, May
    <2>2. JobOK(g, k)
      BY <1>2, <2>1 DEF JobsOK
    <2>3. Scanning(g, k)
      BY <1>1, <2>2 DEF JobOK, Idle, Retaining, Sending
    <2> QED
      BY <1>1, <2>3 DEF Scanning, Named
  <1>4. ScanKept(k, Selects(k.op, k.of, subs, inline, retained'))
    BY <1>3, TopicStarts DEF Typed, k
  <1>5. Becomes(g, k) \/ (Goes(g, k) /\ UNCHANGED index)
    BY DEF k
  <1> QED
    BY <1>4, <1>5 DEF OneGoesOn, Onto

\* A publish is retained first, or looks for subscribers at once (processPublish).
LEMMA PublishScans ==
  ASSUME Typed, ~May("unset"), JobsOK', NEW g \in scenario.publishers, NEW t, NEW alias, NEW payload, NEW retain,
         Publish(g, t, alias, payload, retain)
  PROVE  OneGoesOn
PROOF
  <1>1. g \in Goroutines
    BY ScenarioPaths DEF Typed
  <1>2. UNCHANGED index /\ scenario' = scenario
    BY DEF Publish
  <1>3. PICK topic, pk : Goes(g, StartPublish(topic, pk, retain))
    BY DEF Publish
  <1>4. CASE retain
    <2> DEFINE j == [op |-> "publish", stage |-> "retain", of |-> topic, pk |-> pk]
    <2>1. j.stage # "scan"
      OBVIOUS
    <2>2. Goes(g, j)
      BY <1>3, <1>4 DEF StartPublish, StartRetaining
    <2> HIDE DEF j
    <2> QED
      BY <1>1, <1>2, <2>1, <2>2, NoScan
  <1>5. CASE ~retain
    <2>1. Goes(g, StartRouting(topic, pk))
      BY <1>3, <1>5 DEF StartPublish
    <2>2. subs' = subs /\ inline' = inline
      BY <1>2 DEF index
    <2> QED
      BY <1>1, <1>2, <2>1, <2>2, RoutingStarts
  <1> QED
    BY <1>4, <1>5

\* After it is retained it looks for them (retainMessage, publishSysTopics).
LEMMA RetainScans ==
  ASSUME Typed, ~May("unset"), JobsOK', NEW g \in Goroutines, RetainPublished(g) \/ StoreGauge(g)
  PROVE  OneGoesOn
PROOF
  <1> DEFINE r == StartRouting(job[g].of, job[g].pk)
  <1>1. scenario' = scenario
    BY DEF RetainPublished, StoreGauge
  <1>2. CASE RetainPublished(g)
    <2> DEFINE n == Cardinality(DOMAIN retained')
               j == [op |-> "publish", stage |-> "gauge", of |-> job[g].of, pk |-> job[g].pk, len |-> n]
    <2>1. (Becomes(g, r) \/ Becomes(g, j)) /\ subs' = subs /\ inline' = inline
      BY <1>2 DEF RetainPublished, RetainMessage, Retain, Clear
    <2>2. j.stage # "scan"
      <3> HIDE DEF n
      <3> QED
        OBVIOUS
    <2> HIDE DEF j
    <2> QED
      BY <1>1, <2>1, <2>2, NoScan, RoutingStarts
  <1>3. CASE StoreGauge(g)
    <2>1. Goes(g, r) /\ UNCHANGED index
      BY <1>3 DEF StoreGauge
    <2>2. subs' = subs /\ inline' = inline
      BY <2>1 DEF index
    <2> QED
      BY <1>1, <2>1, <2>2, RoutingStarts
  <1> QED
    BY <1>2, <1>3

\* One read more (scanSubscribers, scanMessages).
LEMMA ScanStepScans ==
  ASSUME Typed, ~May("unset"), WellGrown, ScanInv, NEW g \in Goroutines, ScanStep(g)
  PROVE  OneGoesOn
PROOF
  <1> DEFINE k == job[g]
             r == Head(k.reads)
             got == IF k.op = "publish" THEN Gathers(k.of, r) ELSE Finds(k.of, r)
             more == IF k.op = "publish" THEN {ReadsSubscribers(k.of, r)} ELSE ReadsMessages(k.of, r)
  <1>1. /\ UNCHANGED index /\ k.op \in {"publish", "messages"} /\ k.stage = "scan" /\ k.reads # <<>>
        /\ \E next \in more : Goes(g, Onward(k, r, got, next))
    BY DEF ScanStep, Onward, Kept
  <1>2. PICK next \in more : Goes(g, Onward(k, r, got, next))
    BY <1>1
  <1>3. Scanning(g, k)
    BY <1>1, ScanInHand DEF Typed
  <1>4. IsScan(k) /\ k.of \in Paths /\ (k.op = "messages" => ValidFilter(k.of)) /\ InScan(k)
    BY <1>1, <1>3 DEF Scanning, IsScan, InScan
  <1>5. ScanKept(k, Selects(k.op, k.of, subs, inline, retained))
    BY <1>4 DEF ScanInv
  <1>6. /\ IndexOK /\ particles = Tree(Contents) /\ Contents \in SUBSET Paths /\ DOMAIN retained \subseteq retainPath
    BY GrownIsFormed DEF Typed, WellGrown
  <1> DEFINE o == Onward(k, r, got, next)
  <1>7. Goes(g, o)
    BY <1>2
  <1>8. o.op = k.op /\ o.of = k.of
    BY <1>4 DEF Onward, IsScan, ScanFields
  <1> HIDE DEF k
  <1>9. ScanKept(o, Selects(k.op, k.of, subs, inline, retained))
    <2>1. CASE k.op = "publish"
      <3>1. Selects(k.op, k.of, subs, inline, retained) = Chosen(k.of)
        BY <2>1 DEF Chosen
      <3>2. got = Gathers(k.of, r) /\ next = ReadsSubscribers(k.of, r)
        BY <1>2, <2>1
      <3>3. ScanKept(Onward(k, r, Gathers(k.of, r), ReadsSubscribers(k.of, r)), Chosen(k.of))
        BY <1>1, <1>4, <1>5, <1>6, <2>1, <3>1, TopicGoesOn
      <3> QED
        BY <3>1, <3>2, <3>3
    <2>2. CASE k.op = "messages"
      <3>1. Selects(k.op, k.of, subs, inline, retained) = Readable(k.of)
        BY <2>2 DEF Readable
      <3>2. got = Finds(k.of, r) /\ next \in ReadsMessages(k.of, r)
        BY <1>2, <2>2
      <3>3. ScanKept(Onward(k, r, Finds(k.of, r), next), Readable(k.of))
        BY <1>1, <1>4, <1>5, <1>6, <2>2, <3>1, <3>2, FilterGoesOn
      <3> QED
        BY <3>1, <3>2, <3>3
    <2> QED
      BY <1>1, <2>1, <2>2
  <1>10. subs' = subs /\ inline' = inline /\ retained' = retained
    BY <1>1 DEF index
  <1> HIDE DEF o
  <1>11. ScanKept(o, Selects(o.op, o.of, subs', inline', retained'))
    BY <1>8, <1>9, <1>10
  <1> QED
    BY <1>1, <1>7, <1>11 DEF OneGoesOn, Onto

\* A scan that is made is over, and its messages are sent (publishToSubscribers, publishToClient).
LEMMA SendScans ==
  ASSUME Typed, NEW g \in Goroutines, SelectSubscribers(g) \/ SendRetained(g) \/ TakeAlias(g) \/ Queue(g)
  PROVE  OneGoesOn
PROOF
  <1>1. UNCHANGED index
    BY DEF SelectSubscribers, SendRetained, TakeAlias, Queue
  <1>2. \E j : Goes(g, j) /\ j.op \notin {"publish", "messages"}
    <2>1. ASSUME NEW m, Sends(g, m) PROVE \E j : Goes(g, j) /\ j.op \notin {"publish", "messages"}
      BY <2>1, NotScanning DEF Sends
    <2>2. CASE SelectSubscribers(g)
      BY <2>1, <2>2 DEF SelectSubscribers
    <2>3. CASE SendRetained(g)
      BY <2>1, <2>3, NotScanning DEF SendRetained
    <2>4. CASE TakeAlias(g)
      <3>1. PICK m, l, a, n : Goes(g, [op |-> "send", stage |-> "queue", messages |-> l, out |-> m, alias |-> a, named |-> n])
        BY <2>4 DEF TakeAlias
      <3> DEFINE j == [op |-> "send", stage |-> "queue", messages |-> l, out |-> m, alias |-> a, named |-> n]
      <3>2. j.op \notin {"publish", "messages"}
        OBVIOUS
      <3> HIDE DEF j
      <3>3. Goes(g, j)
        BY <3>1 DEF j
      <3> QED
        BY <3>2, <3>3
    <2>5. CASE Queue(g)
      BY <2>1, <2>5 DEF Queue
    <2> QED
      BY <2>2, <2>3, <2>4, <2>5
  <1> QED
    BY <1>1, <1>2, NoScan

\* Nor does the event loop scan (clearExpiredRetainedMessages).
LEMMA ExpireScans ==
  ASSUME ClearExpired \/ ClearNext
  PROVE  OneGoesOn
PROOF
  <1>1. Ticker \in Goroutines
    BY DEF Goroutines
  <1>2. \E j : (Becomes(Ticker, j) \/ (Goes(Ticker, j) /\ UNCHANGED index)) /\ j.op \notin {"publish", "messages"}
    <2>1. CASE ClearExpired
      <3>1. PICK pks : Goes(Ticker, [op |-> "expire", pks |-> pks])
        BY <2>1 DEF ClearExpired
      <3>2. UNCHANGED index
        BY <2>1 DEF ClearExpired
      <3> QED
        BY <3>1, <3>2, NotScanning
    <2>2. CASE ClearNext
      <3>1. PICK t \in DOMAIN job[Ticker].pks :
              Becomes(Ticker, IF Without(job[Ticker].pks, t) = <<>> THEN Idle
                              ELSE [op |-> "expire", pks |-> Without(job[Ticker].pks, t)])
        BY <2>2 DEF ClearNext
      <3> QED
        BY <3>1, NotScanning
    <2> QED
      BY <2>1, <2>2
  <1> QED
    BY <1>1, <1>2, NoScan

\* Whoever makes a step.
LEMMA NextScans ==
  ASSUME Typed, ~May("unset"), WellGrown, ScanInv, JobsOK', Next
  PROVE  OneGoesOn
PROOF
  <1>1. scenario.filters \subseteq Paths
    BY ScenarioPaths DEF Typed
  <1>2. CASE \/ \E c \in Clients \cap scenario.subscribers, f \in scenario.filters :
                  \E sub \in Subscriptions : Subscribe(c, f, sub)
             \/ \E c \in Clients \cap scenario.subscribers, f \in scenario.filters : Unsubscribe(c, f)
             \/ \E c \in Clients \cap scenario.subscribers : UnsubscribeClient(c)
             \/ \E c \in Clients : UnsubscribeNext(c)
    BY <1>1, <1>2, SubscribeScans, LeaveScans
  <1>3. CASE \/ \E f \in scenario.filters, id \in InlineIds : SubscribeInline(f, id)
             \/ \E f \in scenario.filters, id \in InlineIds : UnsubscribeInline(f, id)
    BY <1>1, <1>3, InlineScans
  <1>4. CASE \E g \in scenario.publishers, t \in scenario.topics, retain \in BOOLEAN :
               \E payload \in {Payload} \cup (IF retain THEN {Empty} ELSE {}) :
               \E alias \in IF May("inbound") /\ g \in Publishers THEN 0..MaxInbound ELSE {0} :
                  Publish(g, t, alias, payload, retain)
    <2>1. \E g \in scenario.publishers : \E t, retain, payload, alias : Publish(g, t, alias, payload, retain)
      BY <1>4
    <2> QED
      BY <2>1, PublishScans
  <1>5. CASE \E g \in Goroutines : RetainPublished(g) \/ StoreGauge(g)
    BY <1>5, RetainScans
  <1>6. CASE \E g \in Goroutines : ScanStep(g)
    BY <1>6, ScanStepScans
  <1>7. CASE \E g \in Goroutines : SelectSubscribers(g) \/ SendRetained(g) \/ TakeAlias(g) \/ Queue(g)
    BY <1>7, SendScans
  <1>8. CASE ClearExpired \/ ClearNext
    BY <1>8, ExpireScans
  <1> QED
    BY <1>2, <1>3, <1>4, <1>5, <1>6, <1>7, <1>8 DEF Next

\* The invariant of the scans, where every topic is named.
ScansInv == ~May("unset") => ScanInv

\* Nobody scans at first, and every step keeps the scans.
LEMMA ScansKept ==
  /\ Init => ScansInv
  /\ Typed /\ AliasInv /\ TreeInv /\ ScansInv /\ [Next]_vars => ScansInv'
PROOF
  <1>1. ASSUME Init PROVE ScansInv
    BY <1>1, NotScanning DEF Init, ScansInv, ScanInv, InScan
  <1>2. ASSUME Typed, AliasInv, TreeInv, ScansInv, [Next]_vars PROVE ScansInv'
    <2>1. Typed' /\ TreeInv'
      BY <1>2, StepTyped, TreeKept
    <2>2. CASE Next
      <3>1. scenario' = scenario
        BY <1>2, <2>2, NextDone DEF Done
      <3> SUFFICES ASSUME (~May("unset"))' PROVE ScanInv'
        BY DEF ScansInv
      <3>2. ~May("unset")
        BY <3>1 DEF May
      <3>3. ScanInv /\ WellGrown
        BY <1>2, <3>2, GrownIsFormed DEF ScansInv, TreeInv, TreeWellFormed, Typed
      <3>4. IndexOK' /\ JobsOK'
        BY <2>1 DEF Typed
      <3>5. WellGrown'
        <4>1. (IndexOK /\ ~May("unset") => (WellFormed <=> WellGrown))'
          BY GrownIsFormed, PTL
        <4> QED
          BY <2>1, <3>4, <4>1 DEF TreeInv, TreeWellFormed
      <3>6. OneGoesOn
        BY <1>2, <2>2, <3>2, <3>3, <3>4, NextScans
      <3> QED
        BY <1>2, <3>1, <3>2, <3>3, <3>4, <3>5, <3>6, OthersKept DEF OneGoesOn
    <2>3. CASE UNCHANGED vars
      <3>1. UNCHANGED <<subs, inline, retained, scenario, job>>
        BY <2>3 DEF vars, state, index
      <3> QED
        BY <1>2, <3>1 DEF ScansInv, ScanInv, May
    <2> QED
      BY <1>2, <2>2, <2>3
  <1> QED
    BY <1>1, <1>2

\* The invariants together.
LEMMA ScansHold == Spec => [](Typed /\ AliasInv /\ TreeInv /\ ScansInv)
PROOF
  <1>1. Typed /\ AliasInv /\ TreeInv /\ ScansInv /\ [Next]_vars => (Typed /\ AliasInv /\ TreeInv /\ ScansInv)'
    BY StepTyped, TreeKept, ScansKept
  <1>2. Init => Typed /\ AliasInv /\ TreeInv /\ ScansInv
    BY InitTyped, TreeKept, ScansKept
  <1> QED
    BY <1>1, <1>2, PTL DEF Spec

\* Of what was in place throughout, a scan that is made has found everything.
LEMMA AllFound ==
  ASSUME ScansInv, ~May("unset")
  PROVE  ScanComplete
PROOF
  <1> SUFFICES ASSUME NEW g \in Goroutines, Scanned(g, "publish") \/ Scanned(g, "messages"),
                      NEW e \in job[g].always
               PROVE  \/ e \in job[g].found
                      \/ /\ Scanned(g, "publish") /\ e[3] = Handler
                         /\ \E x \in job[g].found : x[2] = e[2] /\ x[3] = Handler
    BY DEF ScanComplete
  <1>1. InScan(job[g]) /\ job[g].reads = <<>> /\ (job[g].op = "publish" => Scanned(g, "publish"))
    BY DEF Scanned, InScan
  <1>2. Has(job[g], e) \/ \E r \in Pending(job[g].reads) : LeadsOn(job[g], r, e)
    BY <1>1 DEF ScansInv, ScanInv, ScanKept
  <1>3. Pending(job[g].reads) = {}
    BY <1>1, ListedPending
  <1> QED
    BY <1>1, <1>2, <1>3 DEF Has

\* A scan takes one lock of one map at a time and what it holds may be trimmed under it: it still
\* finds nothing that was not subscribed (was not retained) at some time while it ran, or that its
\* topic or filter does not select (gatherSubscriptions and the others).
THEOREM ScansAreSound == Spec => [](~May("unset") => ScanSound)
PROOF
  <1>1. ASSUME ScansInv, ~May("unset") PROVE ScanSound
    BY <1>1 DEF ScansInv, ScanInv, ScanKept, ScanSound, Scanned, InScan
  <1> QED
    BY <1>1, ScansHold, PTL

\* And whatever was in place from its start to its end it finds, however many others subscribe,
\* unsubscribe, retain, clear and trim meanwhile: what leads to it stays in the tree (scanSubscribers,
\* scanMessages, trim).
THEOREM ScansAreComplete == Spec => [](~May("unset") => ScanComplete)
PROOF
  <1>1. ScansInv => (~May("unset") => ScanComplete)
    BY AllFound
  <1> QED
    BY <1>1, ScansHold, PTL

-----------------------------------------------------------------------------
(* Between subscribing and retaining.                                       *)

\* The message pk, retained for t, is owed to the subscription e, made with sub.
Owed(e, sub, t, pk) ==
  /\ ~IsSharedFilter(e[1]) /\ Reads(e[1], t) /\ Routes(e[1], t)
  /\ sub.handling = 0 /\ pk.origin # e[2]

\* The goroutine g, in the handler j, brings it: it sends it, or it reads the tree for the subscriber
\* with the message in its sight, or for the publisher with the subscription, or has still to read.
Brings(g, j, e, sub, t, pk) ==
  \/ /\ j.op = "send"
     /\ Sent(e[2], t, pk) \in j.messages \/ (j.stage = "queue" /\ j.out = Sent(e[2], t, pk))
  \/ /\ j.op = "messages" /\ j.stage = "scan" /\ g = e[2] /\ j.of = e[1]
     /\ [topic |-> t, pk |-> pk] \in j.always
  \/ /\ j.op = "publish" /\ j.of = t /\ j.pk = pk
     /\ j.stage = "gauge" \/ (j.stage = "scan" /\ <<e[1], e[2], sub>> \in j.always)
Got(h, t, pk) == \E i \in DOMAIN h : h[i].of = t /\ h[i].payload = pk.payload

\* What is owed was got or is brought.
Learning ==
  \A e \in DOMAIN subs, t \in DOMAIN retained :
     Owed(e, subs[e], t, retained[t]) =>
       \/ Got(heard[e[2]], t, retained[t])
       \/ \E g \in Goroutines : Brings(g, job[g], e, subs[e], t, retained[t])
LearnInv == ~May("drop") /\ ~May("unset") => Learning

\* A goroutine goes on: what it brought it still brings or has delivered, and what its step makes
\* owed it brings.
Stays(e, t) == e \in DOMAIN subs /\ subs[e] = subs'[e] /\ t \in DOMAIN retained /\ retained[t] = retained'[t]
GoesOn(g, j) == Becomes(g, j) \/ Goes(g, j)
Carries(g, j) ==
  \A e \in DOMAIN subs', t \in DOMAIN retained' :
     Owed(e, subs'[e], t, retained'[t]) =>
       \/ Brings(g, j, e, subs'[e], t, retained'[t])
       \/ Got(heard'[e[2]], t, retained'[t])
       \/ Stays(e, t) /\ ~Brings(g, job[g], e, subs'[e], t, retained'[t])
OneCarries == \E g \in Goroutines : \E j : GoesOn(g, j) /\ Carries(g, j)
HeardGrows == \A c \in Clients : \A t, pk : Got(heard[c], t, pk) => Got(heard'[c], t, pk)

\* The others still bring what they brought.
LEMMA OthersBring ==
  ASSUME JobsOK, NEW g \in Goroutines, NEW j, GoesOn(g, j), NEW x \in Goroutines, x # g,
         NEW e \in DOMAIN subs', NEW t \in DOMAIN retained', Owed(e, subs'[e], t, retained'[t]),
         Brings(x, job[x], e, subs'[e], t, retained'[t])
  PROVE  Brings(x, job'[x], e, subs'[e], t, retained'[t])
PROOF
  <1> DEFINE k == job[x]
  <1>1. job'[x] = k \/ job'[x] = Observed(k)
    BY DEF GoesOn, Becomes, Goes, JobsOK
  <1>2. CASE InScan(k)
    <2> DEFINE S == Selects(k.op, k.of, subs', inline', retained')
               o == Observed(k)
               r == StillHeld(k.reads, particles')
               a == k.always \cap S
               v == k.ever \cup S
    <2>1. DOMAIN k = ScanFields
      BY <1>2, ScanInHand DEF InScan, Scanning
    <2>2. o = [k EXCEPT !.reads = r, !.always = a, !.ever = v]
      BY <1>2 DEF Observed, InScan
    <2>3. k.op = "publish" /\ k.of = t => <<e[1], e[2], subs'[e]>> \in S
      BY DEF Selects, Owed
    <2>4. k.op = "messages" /\ k.of = e[1] => [topic |-> t, pk |-> retained'[t]] \in S
      BY DEF Selects, Owed
    <2> HIDE DEF k, S, r, v
    <2>5. o.op = k.op /\ o.stage = k.stage /\ o.of = k.of /\ o.pk = k.pk /\ o.always = k.always \cap S
      BY <2>1, <2>2 DEF ScanFields
    <2> HIDE DEF o, a
    <2>6. Brings(x, k, e, subs'[e], t, retained'[t])
      BY DEF k
    <2>7. Brings(x, o, e, subs'[e], t, retained'[t])
      BY <1>2, <2>3, <2>4, <2>5, <2>6 DEF Brings, InScan
    <2> QED
      BY <1>1, <2>6, <2>7 DEF o
  <1>3. CASE ~InScan(k)
    BY <1>1, <1>3 DEF Observed, InScan
  <1> QED
    BY <1>2, <1>3

\* So nothing that is owed is lost.
LEMMA LearningKept ==
  ASSUME Learning, JobsOK, IndexOK', OneCarries, HeardGrows
  PROVE  Learning'
PROOF
  <1> SUFFICES ASSUME NEW e \in DOMAIN subs', NEW t \in DOMAIN retained', Owed(e, subs'[e], t, retained'[t])
               PROVE  \/ Got(heard'[e[2]], t, retained'[t])
                      \/ \E g \in Goroutines : Brings(g, job'[g], e, subs'[e], t, retained'[t])
    BY DEF Learning
  <1>1. PICK g \in Goroutines : \E j : GoesOn(g, j) /\ Carries(g, j)
    BY DEF OneCarries
  <1>2. PICK j : GoesOn(g, j) /\ Carries(g, j)
    BY <1>1
  <1>3. job'[g] = j
    BY <1>2 DEF GoesOn, Becomes, Goes, JobsOK
  <1>4. \/ Brings(g, j, e, subs'[e], t, retained'[t])
        \/ Got(heard'[e[2]], t, retained'[t])
        \/ Stays(e, t) /\ ~Brings(g, job[g], e, subs'[e], t, retained'[t])
    BY <1>2 DEF Carries
  <1>5. CASE Stays(e, t) /\ ~Brings(g, job[g], e, subs'[e], t, retained'[t])
    <2>1. \/ Got(heard[e[2]], t, retained'[t])
          \/ \E x \in Goroutines : Brings(x, job[x], e, subs'[e], t, retained'[t])
      <3>1. \/ Got(heard[e[2]], t, retained[t])
            \/ \E x \in Goroutines : Brings(x, job[x], e, subs[e], t, retained[t])
        BY <1>5 DEF Learning, Stays
      <3> QED
        BY <1>5, <3>1 DEF Stays
    <2>2. e[2] \in Clients
      BY DEF IndexOK
    <2>3. CASE Got(heard[e[2]], t, retained'[t])
      BY <2>2, <2>3 DEF HeardGrows
    <2>4. ASSUME NEW x \in Goroutines, Brings(x, job[x], e, subs'[e], t, retained'[t])
          PROVE  Brings(x, job'[x], e, subs'[e], t, retained'[t])
      <3>1. x # g
        BY <1>5, <2>4
      <3> QED
        BY <1>2, <2>4, <3>1, OthersBring
    <2> QED
      BY <2>1, <2>3, <2>4
  <1> QED
    BY <1>3, <1>4, <1>5

-----------------------------------------------------------------------------
(* Step by step.                                                            *)

\* A step that makes nothing owed, of a goroutine that goes on bringing what it brought.
Within(new, old) == \A x \in DOMAIN new : x \in DOMAIN old /\ old[x] = new[x]
LEMMA NothingNew ==
  ASSUME NEW g \in Goroutines, NEW j, GoesOn(g, j), Within(subs', subs), Within(retained', retained),
         \A e \in DOMAIN subs, t \in DOMAIN retained :
            Owed(e, subs[e], t, retained[t]) /\ Brings(g, job[g], e, subs[e], t, retained[t]) =>
              Brings(g, j, e, subs[e], t, retained[t]) \/ Got(heard'[e[2]], t, retained[t])
  PROVE  OneCarries
PROOF
  <1> SUFFICES ASSUME NEW e \in DOMAIN subs', NEW t \in DOMAIN retained', Owed(e, subs'[e], t, retained'[t])
               PROVE  \/ Brings(g, j, e, subs'[e], t, retained'[t])
                      \/ Got(heard'[e[2]], t, retained'[t])
                      \/ Stays(e, t) /\ ~Brings(g, job[g], e, subs'[e], t, retained'[t])
    BY DEF OneCarries, Carries
  <1>1. Stays(e, t)
    BY DEF Within, Stays
  <1>2. e \in DOMAIN subs /\ t \in DOMAIN retained /\ subs'[e] = subs[e] /\ retained'[t] = retained[t]
    BY <1>1 DEF Stays
  <1> QED
    BY <1>1, <1>2

\* Who is idle, leaves, expires or has still to retain brings nothing.
BringsNothing(j) == j.op \in {"idle", "leave", "expire"} \/ (j.op = "publish" /\ j.stage = "retain")
LEMMA NothingBrought ==
  ASSUME NEW g, NEW j, BringsNothing(j)
  PROVE  \A e, sub, t, pk : ~Brings(g, j, e, sub, t, pk)
BY DEF Brings, BringsNothing

\* The tree as it was, or less of it.
LEMMA TreeLess ==
  /\ UNCHANGED index => Within(subs', subs) /\ Within(retained', retained)
  /\ \A f, c : IndexUnsubscribe(f, c) => Within(subs', subs) /\ Within(retained', retained)
  /\ \A f, id : InlineSubscribe(f, id) \/ InlineUnsubscribe(f, id) => Within(subs', subs) /\ Within(retained', retained)
  /\ \A t : DropRetained(t) => Within(subs', subs) /\ Within(retained', retained)
PROOF
  <1>1. UNCHANGED index => Within(subs', subs) /\ Within(retained', retained)
    BY DEF Within, index
  <1>2. ASSUME NEW f, NEW c, IndexUnsubscribe(f, c) PROVE Within(subs', subs) /\ Within(retained', retained)
    BY <1>2 DEF Within, IndexUnsubscribe, Without
  <1>3. ASSUME NEW f, NEW id, InlineSubscribe(f, id) \/ InlineUnsubscribe(f, id)
        PROVE  Within(subs', subs) /\ Within(retained', retained)
    BY <1>3 DEF Within, InlineSubscribe, InlineUnsubscribe
  <1>4. ASSUME NEW t, DropRetained(t) PROVE Within(subs', subs) /\ Within(retained', retained)
    BY <1>4 DEF Within, DropRetained, Without
  <1> QED
    BY <1>1, <1>2, <1>3, <1>4

\* A subscriber that is owed what is retained looks for it (processSubscribe).
LEMMA SubscribeBrings ==
  ASSUME Typed, NEW c \in Clients, NEW f \in Paths, NEW sub, Subscribe(c, f, sub)
  PROVE  OneCarries
PROOF
  <1> DEFINE k == StartReading(f, c, sub)
             j == IF SendsRetained(f, sub, ~IsNew(f, c)) THEN k ELSE Idle
  <1>1. /\ subs' = With(subs, <<f, c>>, sub) /\ retained' = retained /\ Becomes(c, j) /\ c \in Goroutines
        /\ job[c] = Idle
    BY DEF Subscribe, IndexSubscribe, StartReading, Goroutines, Free
  <1>2. /\ k.op = "messages" /\ k.stage = "scan" /\ k.of = f
        /\ k.always = {[topic |-> t, pk |-> retained[t]] : t \in {t \in DOMAIN retained : Reads(f, t)}}
    BY DEF StartReading, Scan, Wanted, Selects
  <1> HIDE DEF k
  <1>3. ASSUME NEW e \in DOMAIN subs', NEW t \in DOMAIN retained', Owed(e, subs'[e], t, retained'[t])
        PROVE  \/ Brings(c, j, e, subs'[e], t, retained'[t])
               \/ Stays(e, t) /\ ~Brings(c, job[c], e, subs'[e], t, retained'[t])
    <2>1. CASE e = <<f, c>>
      <3>1. subs'[e] = sub /\ e[1] = f /\ e[2] = c
        BY <1>1, <2>1 DEF With
      <3>2. j = k
        BY <1>3, <3>1 DEF Owed, SendsRetained
      <3>3. [topic |-> t, pk |-> retained'[t]] \in k.always
        BY <1>1, <1>2, <1>3, <3>1 DEF Owed
      <3> QED
        BY <1>2, <3>1, <3>2, <3>3 DEF Brings
    <2>2. CASE e # <<f, c>>
      <3>1. Stays(e, t)
        BY <1>1, <2>2 DEF With, Stays
      <3>2. BringsNothing(job[c])
        BY <1>1 DEF BringsNothing, Idle
      <3> QED
        BY <3>1, <3>2, NothingBrought
    <2> QED
      BY <2>1, <2>2
  <1> HIDE DEF j
  <1> QED
    BY <1>1, <1>3 DEF OneCarries, Carries, GoesOn

\* The other changes of subscriptions and of what is retained make nothing owed:
LEMMA QuietBrings ==
  ASSUME Typed, NEW g \in Goroutines, NEW j, GoesOn(g, j), BringsNothing(job[g]),
         Within(subs', subs), Within(retained', retained)
  PROVE  OneCarries
PROOF
  <1>1. \A e, sub, t, pk : ~Brings(g, job[g], e, sub, t, pk)
    BY NothingBrought
  <1> QED
    BY <1>1, NothingNew

\* A client that unsubscribes or leaves (UnsubscribeClient),
LEMMA LeaveBrings ==
  ASSUME Typed, NEW c \in Clients, NEW f, Unsubscribe(c, f) \/ UnsubscribeClient(c) \/ UnsubscribeNext(c)
  PROVE  OneCarries
PROOF
  <1>1. c \in Goroutines
    BY DEF Goroutines
  <1>2. BringsNothing(job[c])
    BY DEF BringsNothing, Unsubscribe, UnsubscribeClient, UnsubscribeNext, Free, Idle
  <1>3. \E j : GoesOn(c, j)
    BY DEF GoesOn, Unsubscribe, UnsubscribeClient, UnsubscribeNext
  <1>4. Within(subs', subs) /\ Within(retained', retained)
    BY TreeLess DEF Unsubscribe, UnsubscribeClient, UnsubscribeNext, Unsubscribed
  <1> QED
    BY <1>1, <1>2, <1>3, <1>4, QuietBrings

\* the inline client (Server.Subscribe, Server.Unsubscribe),
LEMMA InlineBrings ==
  ASSUME Typed, NEW f, NEW id, SubscribeInline(f, id) \/ UnsubscribeInline(f, id)
  PROVE  OneCarries
PROOF
  <1>1. InlineClient \in Goroutines
    BY DEF Goroutines
  <1>2. BringsNothing(job[InlineClient])
    <2>1. job[InlineClient] = Idle
      BY DEF SubscribeInline, UnsubscribeInline, Free
    <2> QED
      BY <2>1 DEF BringsNothing, Idle
  <1>3. \E j : GoesOn(InlineClient, j)
    BY DEF GoesOn, SubscribeInline, UnsubscribeInline
  <1>4. Within(subs', subs) /\ Within(retained', retained)
    BY TreeLess DEF SubscribeInline, UnsubscribeInline
  <1> QED
    BY <1>1, <1>2, <1>3, <1>4, QuietBrings

\* and the event loop (clearExpiredRetainedMessages).
LEMMA ExpireBrings ==
  ASSUME Typed, ClearExpired \/ ClearNext
  PROVE  OneCarries
PROOF
  <1>1. Ticker \in Goroutines
    BY DEF Goroutines
  <1>2. BringsNothing(job[Ticker])
    BY DEF BringsNothing, ClearExpired, ClearNext, Free, Idle
  <1>3. \E j : GoesOn(Ticker, j)
    BY DEF GoesOn, ClearExpired, ClearNext
  <1>4. Within(subs', subs) /\ Within(retained', retained)
    BY TreeLess DEF ClearExpired, ClearNext
  <1> QED
    BY <1>1, <1>2, <1>3, <1>4, QuietBrings

\* A publish begins (processPublish): nothing is owed of it before it is retained.
LEMMA PublishBrings ==
  ASSUME Typed, NEW g \in Goroutines, NEW t, NEW alias, NEW payload, NEW retain, Publish(g, t, alias, payload, retain)
  PROVE  OneCarries
PROOF
  <1>1. BringsNothing(job[g]) /\ UNCHANGED index
    BY DEF BringsNothing, Publish, Free, Idle
  <1>2. \E j : GoesOn(g, j)
    BY DEF GoesOn, Publish
  <1> QED
    BY <1>1, <1>2, TreeLess, QuietBrings

\* A publisher that looks for subscribers has in its sight those who are owed the message.
LEMMA RoutingBrings ==
  ASSUME NEW g, NEW e \in DOMAIN subs, NEW t, NEW pk, Owed(e, subs[e], t, pk)
  PROVE  Brings(g, StartRouting(t, pk), e, subs[e], t, pk)
PROOF
  <1> DEFINE k == StartRouting(t, pk)
  <1>1. /\ k.op = "publish" /\ k.stage = "scan" /\ k.of = t /\ k.pk = pk
        /\ k.always = {<<x[1], x[2], subs[x]>> : x \in {x \in DOMAIN subs : Routes(x[1], t)}}
                        \cup HeldInline({x \in inline : RoutesInline(x[1], t)})
    BY DEF StartRouting, Scan, Wanted, Selects
  <1> HIDE DEF k
  <1>2. <<e[1], e[2], subs[e]>> \in k.always
    BY <1>1 DEF Owed
  <1> QED
    BY <1>1, <1>2 DEF Brings, k

\* What is retained is owed, and the publisher looks for subscribers after (retainMessage).
LEMMA RetainBrings ==
  ASSUME Typed, NEW g \in Goroutines, RetainPublished(g)
  PROVE  OneCarries
PROOF
  <1> DEFINE of == job[g].of
             pk == job[g].pk
             n == Cardinality(DOMAIN retained')
             r == StartRouting(of, pk)
             w == [op |-> "publish", stage |-> "gauge", of |-> of, pk |-> pk, len |-> n]
             j == IF g = Ticker THEN r ELSE w
  <1>1. RetainMessage(of, pk) /\ Becomes(g, j) /\ BringsNothing(job[g])
    BY DEF RetainPublished, BringsNothing
  <1>2. /\ subs' = subs /\ \A t \in DOMAIN retained' : t # of => t \in DOMAIN retained /\ retained[t] = retained'[t]
        /\ of \in DOMAIN retained' => retained'[of] = pk
    BY <1>1 DEF RetainMessage, Retain, Clear, With, Without
  <1>3. w.op = "publish" /\ w.stage = "gauge" /\ w.of = of /\ w.pk = pk
    <2> HIDE DEF of, pk, n
    <2> QED
      OBVIOUS
  <1> HIDE DEF r, w
  <1>4. ASSUME NEW e \in DOMAIN subs', NEW t \in DOMAIN retained', Owed(e, subs'[e], t, retained'[t])
        PROVE  \/ Brings(g, j, e, subs'[e], t, retained'[t])
               \/ Stays(e, t) /\ ~Brings(g, job[g], e, subs'[e], t, retained'[t])
    <2>1. CASE t = of
      <3>1. e \in DOMAIN subs /\ retained'[t] = pk /\ Owed(e, subs[e], t, pk)
        BY <1>2, <1>4, <2>1
      <3>2. Brings(g, r, e, subs[e], t, pk)
        BY <2>1, <3>1, RoutingBrings DEF r
      <3>3. Brings(g, w, e, subs[e], t, pk)
        BY <1>3, <2>1 DEF Brings
      <3> QED
        BY <1>2, <3>1, <3>2, <3>3
    <2>2. CASE t # of
      <3>1. Stays(e, t)
        BY <1>2, <2>2 DEF Stays
      <3> QED
        BY <1>1, <3>1, NothingBrought
    <2> QED
      BY <2>1, <2>2
  <1> HIDE DEF j
  <1> QED
    BY <1>1, <1>4 DEF OneCarries, Carries, GoesOn

\* As it then does (processPublish).
LEMMA GaugeBrings ==
  ASSUME Typed, NEW g \in Goroutines, StoreGauge(g)
  PROVE  OneCarries
PROOF
  <1> DEFINE r == StartRouting(job[g].of, job[g].pk)
  <1>1. job[g].op = "publish" /\ job[g].stage = "gauge" /\ Goes(g, r) /\ UNCHANGED index
    BY DEF StoreGauge
  <1>2. ASSUME NEW e \in DOMAIN subs, NEW t \in DOMAIN retained,
               Owed(e, subs[e], t, retained[t]), Brings(g, job[g], e, subs[e], t, retained[t])
        PROVE  Brings(g, r, e, subs[e], t, retained[t])
    <2>1. job[g].of = t /\ job[g].pk = retained[t]
      BY <1>1, <1>2 DEF Brings
    <2> QED
      BY <1>2, <2>1, RoutingBrings
  <1> HIDE DEF r
  <1> QED
    BY <1>1, <1>2, TreeLess, NothingNew DEF GoesOn

\* A scan loses nothing of its sight as it reads (scanSubscribers, scanMessages).
LEMMA ScanStepBrings ==
  ASSUME Typed, NEW g \in Goroutines, ScanStep(g)
  PROVE  OneCarries
PROOF
  <1> DEFINE k == job[g]
             r == Head(k.reads)
             got == IF k.op = "publish" THEN Gathers(k.of, r) ELSE Finds(k.of, r)
             more == IF k.op = "publish" THEN {ReadsSubscribers(k.of, r)} ELSE ReadsMessages(k.of, r)
  <1>1. /\ UNCHANGED index /\ k.op \in {"publish", "messages"} /\ k.stage = "scan"
        /\ \E next \in more : Goes(g, Onward(k, r, got, next))
    BY DEF ScanStep, Onward, Kept
  <1>2. PICK next \in more : Goes(g, Onward(k, r, got, next))
    BY <1>1
  <1>3. DOMAIN k = ScanFields
    BY <1>1, ScanInHand DEF Typed, Scanning
  <1> DEFINE o == Onward(k, r, got, next)
  <1>4. o.op = k.op /\ o.stage = k.stage /\ o.of = k.of /\ o.pk = k.pk /\ o.always = k.always
    BY <1>3 DEF Onward, ScanFields
  <1>5. Goes(g, o)
    BY <1>2
  <1>6. Within(subs', subs) /\ Within(retained', retained)
    BY <1>1, TreeLess
  <1> HIDE DEF o
  <1>7. \A e, sub, t, pk : Brings(g, k, e, sub, t, pk) => Brings(g, o, e, sub, t, pk)
    BY <1>1, <1>4 DEF Brings
  <1> QED
    BY <1>5, <1>6, <1>7, NothingNew DEF GoesOn

\* Who sends messages brings each of them.
LEMMA SendsBrings ==
  ASSUME NEW g, NEW M, Sends(g, M), NEW e, NEW sub, NEW t, NEW pk, Sent(e[2], t, pk) \in M
  PROVE  \E j : Goes(g, j) /\ Brings(g, j, e, sub, t, pk)
PROOF
  <1> DEFINE j == [op |-> "send", stage |-> "next", messages |-> M]
  <1>1. Goes(g, j)
    BY DEF Sends
  <1>2. Brings(g, j, e, sub, t, pk)
    BY DEF Brings
  <1> HIDE DEF j
  <1> QED
    BY <1>1, <1>2

\* Those it has found it sends to, the origin of the message aside (publishToSubscribers).
LEMMA SelectBrings ==
  ASSUME Typed, ScanComplete, NEW g \in Goroutines, SelectSubscribers(g)
  PROVE  OneCarries
PROOF
  <1> DEFINE k == job[g]
             M(pick) == {Sent(c, k.of, k.pk) : c \in Recipients(Merged(k.found, pick), k.pk.origin)}
             after(m) == IF m = {} THEN Idle ELSE [op |-> "send", stage |-> "next", messages |-> m]
  <1>1. UNCHANGED index /\ Scanned(g, "publish")
    BY DEF SelectSubscribers
  <1>2. PICK pick \in Picks(k.found) : Sends(g, M(pick))
    BY DEF SelectSubscribers
  <1>3. Goes(g, after(M(pick)))
    BY <1>2 DEF Sends
  <1>4. ASSUME NEW e \in DOMAIN subs, NEW t \in DOMAIN retained,
               Owed(e, subs[e], t, retained[t]), Brings(g, k, e, subs[e], t, retained[t])
        PROVE  Brings(g, after(M(pick)), e, subs[e], t, retained[t])
    <2> DEFINE x == <<e[1], e[2], subs[e]>>
    <2>1. k.of = t /\ k.pk = retained[t] /\ x \in k.always
      BY <1>1, <1>4 DEF Brings, Scanned
    <2>2. x[3] # Handler
      <3>1. subs[e] \in [noLocal : BOOLEAN, handling : 0..2]
        BY Parameters DEF Typed, IndexOK
      <3> QED
        BY <3>1 DEF Handler
    <2>3. x \in k.found
      BY <1>1, <2>1, <2>2 DEF ScanComplete
    <2>4. x \in Merged(k.found, pick)
      BY <1>4, <2>2, <2>3 DEF Merged, Owed
    <2>5. e[2] \in Recipients(Merged(k.found, pick), k.pk.origin)
      <3>1. k.pk.origin # e[2]
        BY <1>4, <2>1 DEF Owed
      <3>2. x[2] = e[2]
        OBVIOUS
      <3> QED
        BY <2>4, <3>1, <3>2 DEF Recipients
    <2>6. Sent(e[2], t, retained[t]) \in M(pick)
      BY <2>1, <2>5
    <2> HIDE DEF M
    <2> QED
      BY <2>6 DEF Brings
  <1> HIDE DEF after, M
  <1> QED
    BY <1>1, <1>3, <1>4, TreeLess, NothingNew DEF GoesOn

\* So does a subscriber with the messages it has found (publishRetainedToClient).
LEMMA SendRetainedBrings ==
  ASSUME Typed, ScanComplete, InlineClient \notin Clients, NEW g \in Goroutines, SendRetained(g)
  PROVE  OneCarries
PROOF
  <1> DEFINE k == job[g]
             found == {m \in k.found : ~(k.pk.noLocal /\ m.pk.origin = g)}
             M == {Sent(g, m.topic, m.pk) : m \in found}
             j == IF g = InlineClient \/ M = {} THEN Idle ELSE [op |-> "send", stage |-> "next", messages |-> M]
  <1>1. UNCHANGED index /\ Scanned(g, "messages") /\ Goes(g, j)
    BY DEF SendRetained, Sends
  <1>2. ASSUME NEW e \in DOMAIN subs, NEW t \in DOMAIN retained,
               Owed(e, subs[e], t, retained[t]), Brings(g, k, e, subs[e], t, retained[t])
        PROVE  Brings(g, j, e, subs[e], t, retained[t])
    <2> DEFINE m == [topic |-> t, pk |-> retained[t]]
    <2>1. g = e[2] /\ m \in k.always
      BY <1>1, <1>2 DEF Brings, Scanned
    <2>2. g \in Clients
      BY <2>1 DEF Typed, IndexOK
    <2>3. m \in k.found
      BY <1>1, <2>1 DEF ScanComplete, Scanned
    <2>4. m.topic = t /\ m.pk = retained[t] /\ m.pk.origin # g
      BY <1>2, <2>1 DEF Owed
    <2>5. m \in found
      BY <2>3, <2>4
    <2>6. Sent(e[2], t, retained[t]) \in M
      BY <2>1, <2>4, <2>5
    <2> HIDE DEF M
    <2>7. j.op = "send" /\ j.messages = M
      BY <2>2, <2>6
    <2> HIDE DEF j
    <2> QED
      BY <2>6, <2>7 DEF Brings
  <1> HIDE DEF j
  <1> QED
    BY <1>1, <1>2, TreeLess, NothingNew DEF GoesOn

\* A message that takes its alias is the one that is queued next (publishToClient),
LEMMA TakeAliasBrings ==
  ASSUME Typed, NEW g \in Goroutines, TakeAlias(g)
  PROVE  OneCarries
PROOF
  <1> DEFINE k == job[g]
             j(m, a, n) == [op |-> "send", stage |-> "queue", messages |-> k.messages \ {m}, out |-> m,
                            alias |-> a, named |-> n]
  <1>1. k.op = "send" /\ k.stage = "next" /\ UNCHANGED index
    BY DEF TakeAlias
  <1>2. PICK m \in k.messages : \E a, n : Goes(g, j(m, a, n))
    BY DEF TakeAlias
  <1>3. PICK a, n : Goes(g, j(m, a, n))
    BY <1>2
  <1> DEFINE w == j(m, a, n)
  <1>4. w.op = "send" /\ w.stage = "queue" /\ w.messages = k.messages \ {m} /\ w.out = m
    OBVIOUS
  <1>5. Goes(g, w)
    BY <1>3
  <1> HIDE DEF w
  <1>6. \A e, sub, t, pk : Brings(g, k, e, sub, t, pk) => Brings(g, w, e, sub, t, pk)
    BY <1>1, <1>4 DEF Brings
  <1> QED
    BY <1>1, <1>5, <1>6, TreeLess, NothingNew DEF GoesOn

\* What a client heard, it has heard, and what is queued for it, it hears.
LEMMA HearsOne ==
  ASSUME AliasesOK, NEW c \in Clients, NEW news
  PROVE  LET h == Append(heard[c], news)
         IN  /\ \A t, pk : Got(heard[c], t, pk) => Got(h, t, pk)
             /\ \A t, pk : news.of = t /\ news.payload = pk.payload => Got(h, t, pk)
PROOF
  <1> DEFINE S == News \cup {news}
             s == heard[c]
             h == Append(s, news)
  <1>1. s \in Seq(S) /\ news \in S /\ Len(s) \in Nat /\ DOMAIN s = 1 .. Len(s)
    BY LenProperties DEF AliasesOK
  <1> HIDE DEF S
  <1>2. DOMAIN h = 1 .. Len(s) + 1 /\ h[Len(s) + 1] = news /\ \A i \in 1 .. Len(s) : h[i] = s[i]
    <2>1. h \in Seq(S) /\ Len(h) = Len(s) + 1 /\ h[Len(s) + 1] = news /\ \A i \in 1 .. Len(s) : h[i] = s[i]
      BY <1>1, AppendProperties
    <2> HIDE DEF h
    <2> QED
      BY <2>1, LenProperties
  <1> HIDE DEF h
  <1>3. \A i \in DOMAIN s : i \in DOMAIN h /\ h[i] = s[i]
    BY <1>1, <1>2
  <1>4. Len(s) + 1 \in DOMAIN h
    BY <1>1, <1>2
  <1>5. \A t, pk : Got(s, t, pk) => Got(h, t, pk)
    BY <1>3 DEF Got
  <1>6. \A t, pk : news.of = t /\ news.payload = pk.payload => Got(h, t, pk)
    BY <1>2, <1>4 DEF Got
  <1> QED
    BY <1>5, <1>6 DEF h

\* where nothing is dropped (the queue of the client).
LEMMA QueueBrings ==
  ASSUME Typed, ~May("drop"), NEW g \in Goroutines, Queue(g)
  PROVE  OneCarries /\ HeardGrows
PROOF
  <1> DEFINE k == job[g]
             c == k.out.to
             news == [topic |-> Resolve(k), of |-> k.out.topic, payload |-> k.out.payload]
             h == Append(heard[c], news)
             j == IF k.messages = {} THEN Idle ELSE [op |-> "send", stage |-> "next", messages |-> k.messages]
  <1>1. /\ k.op = "send" /\ k.stage = "queue" /\ Goes(g, j) /\ UNCHANGED index
        /\ heard' = [heard EXCEPT ![c] = h]
    BY DEF Queue, Sends
  <1>2. c \in Clients
    BY <1>1 DEF Typed, JobsOK, JobOK, Idle, Scanning, Retaining, Sending, Messages
  <1>3. news.of = k.out.topic /\ news.payload = k.out.payload
    OBVIOUS
  <1> HIDE DEF news
  <1>4. /\ \A t, pk : Got(heard[c], t, pk) => Got(h, t, pk)
        /\ \A t, pk : news.of = t /\ news.payload = pk.payload => Got(h, t, pk)
    BY <1>2, HearsOne DEF Typed
  <1> HIDE DEF h
  <1>5. heard'[c] = h /\ \A d \in Clients : d # c => heard'[d] = heard[d]
    BY <1>1, <1>2 DEF Typed, AliasesOK
  <1>6. HeardGrows
    BY <1>4, <1>5 DEF HeardGrows
  <1>7. ASSUME NEW e \in DOMAIN subs, NEW t \in DOMAIN retained, Brings(g, k, e, subs[e], t, retained[t])
        PROVE  Brings(g, j, e, subs[e], t, retained[t]) \/ Got(heard'[e[2]], t, retained[t])
    <2>1. Sent(e[2], t, retained[t]) \in k.messages \/ k.out = Sent(e[2], t, retained[t])
      BY <1>1, <1>7 DEF Brings
    <2>2. CASE Sent(e[2], t, retained[t]) \in k.messages
      BY <2>2 DEF Brings
    <2>3. CASE k.out = Sent(e[2], t, retained[t])
      <3>1. k.out.to = e[2] /\ k.out.topic = t /\ k.out.payload = retained[t].payload
        BY <2>3 DEF Sent
      <3> QED
        BY <1>3, <1>4, <1>5, <3>1
    <2> QED
      BY <2>1, <2>2, <2>3
  <1> HIDE DEF j
  <1> QED
    BY <1>1, <1>6, <1>7, TreeLess, NothingNew DEF GoesOn

\* Whoever makes a step.
LEMMA NextBrings ==
  ASSUME Typed, ScanComplete, ~May("drop"), InlineClient \notin Clients, Next
  PROVE  OneCarries /\ HeardGrows
PROOF
  <1>1. scenario.filters \subseteq Paths /\ scenario.publishers \subseteq Goroutines
    BY ScenarioPaths DEF Typed
  <1>2. CASE \/ \E c \in Clients \cap scenario.subscribers, f \in scenario.filters :
                  \E sub \in Subscriptions : Subscribe(c, f, sub)
             \/ \E c \in Clients \cap scenario.subscribers, f \in scenario.filters : Unsubscribe(c, f)
             \/ \E c \in Clients \cap scenario.subscribers : UnsubscribeClient(c)
             \/ \E c \in Clients : UnsubscribeNext(c)
    <2>1. OneCarries
      BY <1>1, <1>2, SubscribeBrings, LeaveBrings
    <2>2. heard' = heard
      BY <1>2 DEF Subscribe, Unsubscribe, UnsubscribeClient, UnsubscribeNext
    <2> QED
      BY <2>1, <2>2 DEF HeardGrows
  <1>3. CASE \/ \E f \in scenario.filters, id \in InlineIds : SubscribeInline(f, id)
             \/ \E f \in scenario.filters, id \in InlineIds : UnsubscribeInline(f, id)
    <2>1. OneCarries
      BY <1>3, InlineBrings
    <2>2. heard' = heard
      BY <1>3 DEF SubscribeInline, UnsubscribeInline
    <2> QED
      BY <2>1, <2>2 DEF HeardGrows
  <1>4. CASE \E g \in scenario.publishers, t \in scenario.topics, retain \in BOOLEAN :
               \E payload \in {Payload} \cup (IF retain THEN {Empty} ELSE {}) :
               \E alias \in IF May("inbound") /\ g \in Publishers THEN 0..MaxInbound ELSE {0} :
                  Publish(g, t, alias, payload, retain)
    <2>1. PICK g \in Goroutines : \E t, retain, payload, alias : Publish(g, t, alias, payload, retain)
      BY <1>1, <1>4
    <2>2. OneCarries
      BY <2>1, PublishBrings
    <2>3. heard' = heard
      BY <2>1 DEF Publish
    <2> QED
      BY <2>2, <2>3 DEF HeardGrows
  <1>5. CASE \E g \in Goroutines : RetainPublished(g) \/ StoreGauge(g) \/ ScanStep(g)
    <2>1. OneCarries
      BY <1>5, RetainBrings, GaugeBrings, ScanStepBrings
    <2>2. heard' = heard
      BY <1>5 DEF RetainPublished, StoreGauge, ScanStep
    <2> QED
      BY <2>1, <2>2 DEF HeardGrows
  <1>6. CASE \E g \in Goroutines : SelectSubscribers(g) \/ SendRetained(g) \/ TakeAlias(g)
    <2>1. OneCarries
      BY <1>6, SelectBrings, SendRetainedBrings, TakeAliasBrings
    <2>2. heard' = heard
      BY <1>6 DEF SelectSubscribers, SendRetained, TakeAlias
    <2> QED
      BY <2>1, <2>2 DEF HeardGrows
  <1>7. CASE \E g \in Goroutines : Queue(g)
    BY <1>7, QueueBrings
  <1>8. CASE ClearExpired \/ ClearNext
    <2>1. heard' = heard
      BY <1>8 DEF ClearExpired, ClearNext
    <2> QED
      BY <1>8, <2>1, ExpireBrings DEF HeardGrows
  <1> QED
    BY <1>2, <1>3, <1>4, <1>5, <1>6, <1>7, <1>8 DEF Next

\* At first nothing is owed, and no step leaves it behind.
LEMMA LearnKept ==
  ASSUME InlineClient \notin Clients
  PROVE  /\ Init => LearnInv
         /\ Typed /\ AliasInv /\ TreeInv /\ ScansInv /\ LearnInv /\ [Next]_vars => LearnInv'
PROOF
  <1>1. ASSUME Init PROVE LearnInv
    BY <1>1 DEF Init, IndexInit, LearnInv, Learning
  <1>2. ASSUME Typed, AliasInv, TreeInv, ScansInv, LearnInv, [Next]_vars PROVE LearnInv'
    <2>1. Typed'
      BY <1>2, StepTyped
    <2>2. CASE Next
      <3>1. scenario' = scenario
        BY <1>2, <2>2, NextDone DEF Done
      <3> SUFFICES ASSUME (~May("drop") /\ ~May("unset"))' PROVE Learning'
        BY DEF LearnInv
      <3>2. ~May("drop") /\ ~May("unset")
        BY <3>1 DEF May
      <3>3. Learning /\ ScanComplete
        BY <1>2, <3>2, AllFound DEF LearnInv
      <3>4. OneCarries /\ HeardGrows
        BY <1>2, <2>2, <3>2, <3>3, NextBrings
      <3>5. JobsOK /\ IndexOK'
        BY <1>2, <2>1 DEF Typed
      <3> QED
        BY <3>3, <3>4, <3>5, LearningKept
    <2>3. CASE UNCHANGED vars
      <3>1. UNCHANGED <<subs, retained, heard, job, scenario>>
        BY <2>3 DEF vars, state, index
      <3> QED
        BY <1>2, <3>1 DEF LearnInv, Learning, May
    <2> QED
      BY <1>2, <2>2, <2>3
  <1> QED
    BY <1>1, <1>2

\* However a subscription and a retained publish interleave, the subscriber gets the message, from
\* its own scan of the tree or from the publisher's, unless it is dropped on the way to it: the
\* publisher retains before it looks for subscribers, the subscriber subscribes before it looks for
\* retained messages (processPublish, processSubscribe).
THEOREM SubscribersLearn ==
  ASSUME InlineClient \notin Clients
  PROVE  Spec => [](~May("unset") => SubscriberLearns)
PROOF
  <1>1. Init => LearnInv
    BY LearnKept
  <1>2. Typed /\ AliasInv /\ TreeInv /\ ScansInv /\ LearnInv /\ [Next]_vars => LearnInv'
    BY LearnKept
  <1>3. ASSUME Typed, LearnInv, ~May("unset") PROVE SubscriberLearns
    <2> SUFFICES ASSUME AtRest, ~May("drop"), NEW e \in DOMAIN subs, NEW t \in DOMAIN retained,
                        Owed(e, subs[e], t, retained[t])
                 PROVE  Got(heard[e[2]], t, retained[t])
      BY DEF SubscriberLearns, Owed, Got
    <2>1. \A g \in Goroutines : BringsNothing(job[g])
      BY DEF AtRest, Free, Idle, BringsNothing
    <2> QED
      BY <1>3, <2>1, NothingBrought DEF LearnInv, Learning
  <1> QED
    BY <1>1, <1>2, <1>3, ScansHold, PTL DEF Spec
=============================================================================
