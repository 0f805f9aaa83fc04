--------------------------- MODULE Routing_proofs ---------------------------
(***************************************************************************)
(* The topic tree and the outbound aliases of Routing, for any clients,    *)
(* filters, topics, scenarios and maxima of the alias tables, however the  *)
(* goroutines that subscribe, publish, retain and expire interleave.       *)
(*                                                                         *)
(* The tree rests on one lemma (TrimIsTree): trim takes out of a tree what *)
(* the path that lost its content kept in it, no more and no less.  The    *)
(* aliases rest on what each client was told being what its table says     *)
(* (Told), which no step can undo: a table only grows.  Both need to know  *)
(* what each goroutine has in hand (JobsOK).                               *)
(***************************************************************************)
EXTENDS Routing, TLAPS, SequenceTheorems, FiniteSetTheorems, FunctionTheorems

-----------------------------------------------------------------------------
(* The tree of particles.                                                   *)

\* Paths in the tree: every topic, filter and particle is one.
Paths == Seq(STRING) \ {<<>>}

\* x leads to p: it is p or one of the particles above it.
Leads(x, p) == x \in Paths /\ Len(x) <= Len(p) /\ \A i \in 1 .. Len(x) : x[i] = p[i]

\* A part of a path is a path, of the levels of the whole.
LEMMA PartOfPath ==
  ASSUME NEW p \in Paths, NEW l \in 0 .. Len(p)
  PROVE  /\ SubSeq(p, 1, l) \in Seq(STRING) /\ Len(SubSeq(p, 1, l)) = l
         /\ \A i \in 1 .. l : SubSeq(p, 1, l)[i] = p[i]
         /\ Len(p) \in Nat \ {0} /\ DOMAIN p = 1 .. Len(p)
PROOF
  <1>1. p \in Seq(STRING) /\ Len(p) \in Nat /\ Len(p) # 0 /\ DOMAIN p = 1 .. Len(p)
    BY LenProperties, EmptySeq DEF Paths
  <1>2. \A i \in 1 .. l : p[i] \in STRING
    BY <1>1, ElementOfSeq
  <1> QED
    BY <1>1, <1>2, SubSeqProperties

\* Prefixes, by their levels.
LEMMA ParentsLead ==
  ASSUME NEW p \in Paths
  PROVE  \A x : x \in Parents(p) <=> Leads(x, p)
PROOF
  <1>1. ASSUME NEW x, x \in Parents(p) PROVE Leads(x, p)
    <2>1. PICK l \in 0 .. Len(p) : x = SubSeq(p, 1, l)
      BY <1>1 DEF Parents, Prefixes
    <2>2. x # <<>>
      BY <1>1 DEF Parents
    <2> QED
      BY <2>1, <2>2, PartOfPath DEF Leads, Paths
  <1>2. ASSUME NEW x, Leads(x, p) PROVE x \in Parents(p)
    <2>1. Len(x) \in 0 .. Len(p) /\ x \in Seq(STRING) /\ x # <<>>
      BY <1>2, PartOfPath, LenProperties DEF Leads, Paths
    <2> DEFINE y == SubSeq(p, 1, Len(x))
    <2>2. y \in Seq(STRING) /\ Len(y) = Len(x) /\ \A i \in 1 .. Len(x) : y[i] = x[i]
      BY <1>2, <2>1, PartOfPath DEF Leads
    <2> HIDE DEF y
    <2>3. x = y
      BY <2>1, <2>2, SeqEqual
    <2> QED
      BY <2>1, <2>3 DEF Parents, Prefixes, y
  <1> QED
    BY <1>1, <1>2

\* The particle above a particle.
LEMMA FrontOf ==
  ASSUME NEW p \in Paths, NEW l \in 1 .. Len(p) - 1
  PROVE  Front(SubSeq(p, 1, l + 1)) = SubSeq(p, 1, l)
PROOF
  <1> DEFINE y == SubSeq(p, 1, l + 1)
             z == SubSeq(y, 1, l)
             x == SubSeq(p, 1, l)
  <1>1. l \in 0 .. Len(p) /\ l + 1 \in 0 .. Len(p) /\ l \in 0 .. l + 1 /\ l \in Nat \ {0} /\ (l + 1) - 1 = l
    BY PartOfPath
  <1>2. y \in Seq(STRING) /\ Len(y) = l + 1 /\ \A i \in 1 .. l + 1 : y[i] = p[i]
    BY <1>1, PartOfPath
  <1>3. x \in Seq(STRING) /\ Len(x) = l /\ \A i \in 1 .. l : x[i] = p[i]
    BY <1>1, PartOfPath
  <1> HIDE DEF x, y
  <1>4. y \in Paths
    BY <1>1, <1>2, EmptySeq DEF Paths
  <1>5. z \in Seq(STRING) /\ Len(z) = l /\ \A i \in 1 .. l : z[i] = y[i]
    BY <1>1, <1>2, <1>4, PartOfPath
  <1>6. z = x
    <2> HIDE DEF z
    <2>1. \A i \in 1 .. l : z[i] = x[i]
      BY <1>1, <1>2, <1>3, <1>5
    <2> QED
      BY <1>3, <1>5, <2>1, SeqEqual
  <1>7. Front(y) = z
    BY <1>1, <1>2 DEF Front
  <1> QED
    BY <1>6, <1>7 DEF x, y

\* Two paths that agree on their first n levels agree on as many as they can: they part
\* where one of them ends or the next level differs.
LEMMA Parting ==
  ASSUME NEW p \in Paths, NEW h \in Paths, NEW n \in 1 .. Len(p), n <= Len(h),
         \A i \in 1 .. n : p[i] = h[i]
  PROVE  \E l \in n .. Len(p) :
           /\ l <= Len(h) /\ \A i \in 1 .. l : p[i] = h[i]
           /\ l = Len(p) \/ l = Len(h) \/ p[l + 1] # h[l + 1]
PROOF
  <1>0. Len(p) \in Nat /\ Len(h) \in Nat
    BY PartOfPath
  <1> DEFINE C == {l \in n .. Len(p) : l <= Len(h) /\ \A i \in 1 .. l : p[i] = h[i]}
  <1> SUFFICES ASSUME \A l \in C : l # Len(p) /\ l # Len(h) /\ p[l + 1] = h[l + 1]
               PROVE  FALSE
    OBVIOUS
  <1>1. IsFiniteSet(C) /\ n \in C
    <2>1. IsFiniteSet(n .. Len(p)) /\ C \in SUBSET (n .. Len(p))
      BY <1>0, FS_Interval
    <2> QED
      BY <2>1, <1>0, FS_Subset
  <1>2. \A l \in C : l + 1 \in C \ {n}
    BY <1>0
  <1> DEFINE f == [l \in C |-> l + 1]
  <1>3. f \in Injection(C, C \ {n})
    <2>1. f \in [C -> C \ {n}] /\ \A k, l \in C : f[k] = f[l] => k = l
      BY <1>0, <1>2
    <2> QED
      BY <2>1, Fun_IsInj
  <1> HIDE DEF f, C
  <1>4. Cardinality(C) <= Cardinality(C \ {n}) /\ Cardinality(C \ {n}) = Cardinality(C) - 1 /\ Cardinality(C) \in Nat
    <2>1. IsFiniteSet(C \ {n}) /\ Cardinality(C \ {n}) = Cardinality(C) - 1
      BY <1>1, FS_RemoveElement
    <2>2. Cardinality(C) <= Cardinality(C \ {n})
      BY <1>3, <2>1, FS_Injection
    <2> QED
      BY <1>1, <2>1, <2>2, FS_CardinalityType
  <1> QED
    BY <1>4

\* What leads to the particles of a set.
Tree(K) == UNION {Parents(k) : k \in K}

\* The members of a tree are the paths that lead to what it is of.
LEMMA InTree ==
  ASSUME NEW K \in SUBSET Paths
  PROVE  /\ \A x : x \in Tree(K) <=> \E k \in K : Leads(x, k)
         /\ Tree(K) \subseteq Paths
BY ParentsLead DEF Tree, Leads

\* trim takes out of a tree what p alone kept in it, and nothing else.
LEMMA TrimIsTree ==
  ASSUME NEW p \in Paths, NEW K \in SUBSET Paths, NEW H \in SUBSET Paths, H \subseteq K, K \subseteq H \cup {p}
  PROVE  Trim(p, Tree(K), H) = Tree(H)
PROOF
  <1> DEFINE bare(q) == q \notin H /\ \A c \in Tree(K) : Front(c) = q => c \in Parents(p)
             out == {q \in Parents(p) : \A c \in Parents(p) : Len(c) >= Len(q) => bare(c)}
  <1>1. Trim(p, Tree(K), H) = Tree(K) \ out
    BY DEF Trim
  <1>2. ASSUME NEW x \in Tree(K), x \notin out PROVE x \in Tree(H)
    <2>1. PICK k \in K : Leads(x, k)
      BY <1>2, InTree
    <2>2. CASE k \in H
      BY <2>1, <2>2, InTree
    <2>3. CASE k = p
      <3>1. x \in Parents(p)
        BY <2>1, <2>3, ParentsLead
      <3>2. PICK c \in Parents(p) : Len(c) >= Len(x) /\ ~bare(c)
        BY <1>2, <3>1
      <3>3. Leads(c, p) /\ Leads(x, p) /\ Leads(x, c)
        <4>1. Leads(c, p) /\ Leads(x, p)
          BY <3>1, <3>2, ParentsLead
        <4> QED
          BY <4>1, <3>2, PartOfPath DEF Leads
      <3>4. CASE c \in H
        BY <3>3, <3>4, InTree
      <3>5. CASE \E y \in Tree(K) : Front(y) = c /\ y \notin Parents(p)
        <4>1. PICK y \in Tree(K) : Front(y) = c /\ y \notin Parents(p)
          BY <3>5
        <4>2. PICK h \in K : Leads(y, h)
          BY InTree
        <4>3. h \in H
          BY <4>1, <4>2, ParentsLead
        <4>4. /\ y \in Paths /\ Len(y) \in Nat \ {0} /\ Len(c) = Len(y) - 1
              /\ \A i \in 1 .. Len(c) : c[i] = y[i]
          <5>1. y \in Paths
            BY <4>2 DEF Leads
          <5>2. Len(y) \in Nat \ {0}
            BY <5>1, PartOfPath
          <5>3. Len(y) - 1 \in 0 .. Len(y)
            BY <5>2
          <5> QED
            BY <5>1, <5>2, <5>3, <4>1, PartOfPath DEF Front
        <4>5. Leads(x, h)
          <5>1. x \in Paths /\ Len(x) \in Nat /\ Len(h) \in Nat
            BY <3>3, PartOfPath DEF Leads
          <5>2. Len(x) <= Len(c) /\ \A i \in 1 .. Len(x) : x[i] = c[i]
            BY <3>3 DEF Leads
          <5>3. Len(y) <= Len(h) /\ \A i \in 1 .. Len(y) : y[i] = h[i]
            BY <4>2 DEF Leads
          <5> QED
            BY <5>1, <5>2, <5>3, <4>4 DEF Leads
        <4> QED
          BY <4>3, <4>5, InTree
      <3> QED
        BY <3>2, <3>4, <3>5
    <2> QED
      BY <2>1, <2>2, <2>3
  <1>3. ASSUME NEW x \in Tree(H) PROVE x \in Tree(K) /\ x \notin out
    <2>1. PICK h \in H : Leads(x, h)
      BY InTree
    <2>2. x \in Tree(K) /\ x \in Paths /\ h \in Paths
      BY <2>1, InTree DEF Leads
    <2>3. ASSUME x \in out PROVE FALSE
      <3>1. x \in Parents(p) /\ \A c \in Parents(p) : Len(c) >= Len(x) => bare(c)
        BY <2>3
      <3>2. Leads(x, p)
        BY <3>1, ParentsLead
      <3> DEFINE n == Len(x)
      <3>3. /\ n \in 1 .. Len(p) /\ n <= Len(h) /\ \A i \in 1 .. n : p[i] = h[i]
            /\ Len(h) \in Nat /\ Len(p) \in Nat
        BY <2>1, <2>2, <3>2, PartOfPath DEF Leads
      <3>4. PICK l \in n .. Len(p) :
              /\ l <= Len(h) /\ \A i \in 1 .. l : p[i] = h[i]
              /\ l = Len(p) \/ l = Len(h) \/ p[l + 1] # h[l + 1]
        <4> HIDE DEF n
        <4> QED
          BY <2>2, <3>3, Parting
      <3> DEFINE c == SubSeq(p, 1, l)
                 y == SubSeq(h, 1, l + 1)
      <3>5. c \in Parents(p) /\ Len(c) = l
        <4>1. l \in 0 .. Len(p) /\ l \in Nat \ {0}
          BY <3>3, <3>4
        <4>2. c \in Seq(STRING) /\ Len(c) = l /\ \A i \in 1 .. l : c[i] = p[i]
          BY <4>1, PartOfPath
        <4> HIDE DEF c
        <4>3. c # <<>> /\ l <= Len(p)
          BY <4>1, <4>2, <3>3, EmptySeq
        <4>4. Leads(c, p)
          BY <4>2, <4>3 DEF Leads, Paths
        <4> QED
          BY <4>2, <4>4, ParentsLead
      <3>6. bare(c)
        <4> HIDE DEF c
        <4>1. Len(c) >= Len(x)
          BY <3>4, <3>5
        <4> QED
          BY <3>1, <3>5, <4>1
      <3>7. l # Len(h)
        <4> SUFFICES ASSUME l = Len(h) PROVE c = h
          BY <3>6
        <4>1. l \in 0 .. Len(p)
          BY <3>3, <3>4
        <4>2. c \in Seq(STRING) /\ Len(c) = Len(h) /\ \A i \in 1 .. Len(h) : c[i] = h[i]
          BY <4>1, <3>4, PartOfPath
        <4>3. h \in Seq(STRING)
          BY <2>2 DEF Paths
        <4> HIDE DEF c
        <4> QED
          BY <4>2, <4>3, SeqEqual
      <3>8. l \in 1 .. Len(h) - 1 /\ l \in 0 .. Len(p) /\ l + 1 \in 0 .. Len(h)
        BY <3>3, <3>4, <3>7
      <3>9. y \in Seq(STRING) /\ Len(y) = l + 1 /\ (\A i \in 1 .. l + 1 : y[i] = h[i]) /\ Leads(y, h)
        <4>1. y \in Seq(STRING) /\ Len(y) = l + 1 /\ \A i \in 1 .. l + 1 : y[i] = h[i]
          BY <2>2, <3>8, PartOfPath
        <4> HIDE DEF y
        <4> QED
          BY <4>1, <3>3, <3>8, EmptySeq DEF Leads, Paths
      <3>10. Front(y) = c
        <4>1. Front(y) = SubSeq(h, 1, l)
          BY <2>2, <3>8, FrontOf
        <4> DEFINE d == SubSeq(h, 1, l)
        <4>2. d \in Seq(STRING) /\ Len(d) = l /\ \A i \in 1 .. l : d[i] = h[i]
          BY <2>2, <3>8, PartOfPath
        <4>3. c \in Seq(STRING) /\ Len(c) = l /\ \A i \in 1 .. l : c[i] = p[i]
          BY <3>8, PartOfPath
        <4> HIDE DEF c, d
        <4>4. \A i \in 1 .. l : d[i] = c[i]
          BY <4>2, <4>3, <3>4
        <4>5. d = c
          BY <4>2, <4>3, <4>4, SeqEqual
        <4> QED
          BY <4>1, <4>5 DEF d
      <3>11. y \in Tree(K)
        BY <2>1, <3>9, InTree
      <3>12. Leads(y, p)
        BY <3>6, <3>10, <3>11, ParentsLead
      <3> HIDE DEF y
      <3> QED
        BY <3>4, <3>7, <3>8, <3>9, <3>12, <3>3 DEF Leads
    <2> QED
      BY <2>2, <2>3
  <1> QED
    BY <1>1, <1>2, <1>3

-----------------------------------------------------------------------------
(* Types.                                                                   *)

Packets == [payload : Nat, origin : Goroutines]
Messages == [to : Clients, topic : Paths, payload : Nat]
News == [topic : Paths \cup {Unknown}, of : Paths, payload : Nat]

\* Topics are named, unless an alias that was not set stands for the empty one.
Named(t) == t # NoTopic \/ May("unset")

\* Filters that may be subscribed to.
ValidFilter(f) == IsValidFilter(f, FALSE)

\* What a handler has in hand.
ScanFields == {"op", "stage", "of", "by", "pk", "reads", "found", "always", "ever"}
Scanning(g, j) ==
  /\ DOMAIN j = ScanFields /\ j.stage = "scan" /\ j.of \in Paths
  /\ \/ j.op = "publish" /\ Named(j.of) /\ j.pk \in Packets /\ \A e \in j.found : e[3] = Handler \/ e[2] \in Clients
     \/ /\ j.op = "messages" /\ g \in Clients \cup {InlineClient} /\ ValidFilter(j.of)
        /\ j.found \subseteq [topic : Paths, pk : Packets]
Retaining(j) ==
  j.op = "publish" /\ j.stage \in {"retain", "gauge"} /\ j.of \in Paths /\ Named(j.of) /\ j.pk \in Packets
Sending(j) ==
  /\ j.op = "send" /\ j.messages \subseteq Messages
  /\ \/ j.stage = "next"
     \/ j.stage = "queue" /\ j.out \in Messages /\ j.alias \in Nat
JobOK(g, j) ==
  \/ j = Idle
  \/ Scanning(g, j)
  \/ Retaining(j)
  \/ Sending(j)
  \/ j.op = "leave" /\ DOMAIN j = {"op", "filters"} /\ j.filters \subseteq Paths
  \/ j.op = "expire"

IndexOK ==
  /\ DOMAIN subs \subseteq Paths \X Clients /\ \A e \in DOMAIN subs : subs[e] \in Subscriptions
  /\ inline \subseteq Paths \X InlineIds /\ retainPath \subseteq Paths
  /\ DOMAIN retained \subseteq Paths /\ \A t \in DOMAIN retained : retained[t] \in Packets /\ Named(t)
JobsOK == DOMAIN job = Goroutines /\ \A g \in Goroutines : JobOK(g, job[g])
InboundOK ==
  /\ DOMAIN inbound = Publishers
  /\ \A g \in Publishers : \A a \in DOMAIN inbound[g] : inbound[g][a] \in Paths /\ Named(inbound[g][a])
AliasesOK ==
  /\ outbound \in [Clients -> Seq(Paths)] /\ heard \in [Clients -> Seq(News)]
  /\ DOMAIN learned = Clients /\ \A c \in Clients : \A a \in DOMAIN learned[c] : learned[c][a] \in Paths
Typed ==
  /\ scenario \in Scenarios /\ published \in Nat /\ subscribed \in [Clients -> SUBSET Paths]
  /\ IndexOK /\ JobsOK /\ InboundOK /\ AliasesOK

\* The particle of a filter.
LEMMA PathOfIsPath == ASSUME NEW f \in Paths PROVE PathOf(f) \in Paths
PROOF
  <1>1. f \in Seq(STRING) /\ Len(f) \in Nat \ {0}
    BY PartOfPath DEF Paths
  <1>2. \A i \in 1 .. Len(f) : f[i] \in STRING
    BY <1>1, ElementOfSeq
  <1>3. CASE Len(f) > 2
    <2> DEFINE x == SubSeq(f, 3, Len(f))
    <2>1. x \in Seq(STRING) /\ Len(x) = Len(f) - 2
      BY <1>1, <1>2, <1>3, SubSeqProperties
    <2>2. PathOf(f) \in {x, f}
      BY <1>3 DEF PathOf
    <2> HIDE DEF x
    <2>3. x # <<>>
      BY <1>1, <1>3, <2>1, EmptySeq
    <2> QED
      BY <2>1, <2>2, <2>3 DEF Paths
  <1>4. CASE ~(Len(f) > 2)
    <2>1. <<f[Len(f)]>> \in Seq(STRING) /\ <<f[Len(f)]>> # <<>>
      BY <1>1, <1>2
    <2> QED
      BY <1>4, <2>1 DEF PathOf, Paths, Last
  <1> QED
    BY <1>3, <1>4

\* With and Without change a function at one place.
LEMMA WithOK ==
  ASSUME NEW f, NEW x, NEW y
  PROVE  /\ DOMAIN With(f, x, y) = DOMAIN f \cup {x} /\ With(f, x, y)[x] = y
         /\ \A z \in DOMAIN f : z # x => With(f, x, y)[z] = f[z]
         /\ DOMAIN Without(f, x) = DOMAIN f \ {x}
         /\ \A z \in DOMAIN f : z # x => Without(f, x)[z] = f[z]
BY DEF With, Without

\* Another goroutine's scan goes on, its findings as they are, and nothing else changes.
LEMMA JobStep ==
  ASSUME JobsOK, NEW g \in Goroutines, NEW j, JobOK(g, j), Becomes(g, j) \/ Goes(g, j), scenario' = scenario
  PROVE  /\ JobsOK' /\ job'[g] = j
         /\ \A x \in Goroutines : x # g => job'[x] = job[x] \/ (Scanning(x, job[x]) /\ Scanning(x, job'[x]))
PROOF
  <1>0. \A x, k : JobOK(x, k)' = JobOK(x, k)
    BY DEF JobOK, Scanning, Retaining, Sending, Named, May
  <1>1. CASE Goes(g, j)
    BY <1>1, <1>0 DEF Goes, JobsOK
  <1>2. CASE Becomes(g, j)
    <2>1. ASSUME NEW x \in Goroutines
          PROVE  Observed(job[x]) = job[x] \/ (Scanning(x, job[x]) /\ Scanning(x, Observed(job[x])))
      <3>1. CASE Scanning(x, job[x])
        <4> DEFINE k == job[x]
                   r == StillHeld(k.reads, particles')
                   a == k.always \cap Selects(k.op, k.of, subs', inline', retained')
                   v == k.ever \cup Selects(k.op, k.of, subs', inline', retained')
        <4>1. Observed(k) = [k EXCEPT !.reads = r, !.always = a, !.ever = v]
          BY <3>1 DEF Observed, Scanning
        <4> HIDE DEF r, a, v
        <4>2. Scanning(x, Observed(k))
          BY <3>1, <4>1 DEF Scanning, ScanFields
        <4> QED
          BY <3>1, <4>2
      <3>2. CASE ~Scanning(x, job[x])
        <4>1. job[x].op \notin {"publish", "messages"} \/ job[x].stage # "scan"
          BY <3>2 DEF JobsOK, JobOK, Idle, Retaining, Sending
        <4> QED
          BY <4>1 DEF Observed
      <3> QED
        BY <3>1, <3>2
    <2>2. job' = [x \in Goroutines |-> IF x = g THEN j ELSE Observed(job[x])]
      BY <1>2 DEF Becomes
    <2> QED
      BY <2>1, <2>2, <1>0 DEF JobsOK, JobOK
  <1> QED
    BY <1>1, <1>2

\* Nobody else starts or stops queueing a message.
QueuesKept == \A x \in Goroutines : job'[x].op = "send" /\ job'[x].stage = "queue" => job'[x] = job[x]

\* A goroutine that goes on to anything but queueing leaves what the others queue alone.
LEMMA Moves ==
  ASSUME JobsOK, NEW g \in Goroutines, NEW j, JobOK(g, j), Becomes(g, j) \/ Goes(g, j),
         ~(j.op = "send" /\ j.stage = "queue"), scenario' = scenario
  PROVE  JobsOK' /\ QueuesKept
PROOF
  <1>1. /\ JobsOK' /\ job'[g] = j
        /\ \A x \in Goroutines : x # g => job'[x] = job[x] \/ Scanning(x, job'[x])
    BY <1>1, JobStep
  <1>2. \A x \in Goroutines : Scanning(x, job'[x]) => job'[x].op # "send"
    BY DEF Scanning
  <1> QED
    BY <1>1, <1>2 DEF QueuesKept

\* Only scans are in the stage of a scan.
LEMMA ScanInHand ==
  ASSUME JobsOK, NEW g \in Goroutines, job[g].op \in {"publish", "messages"}, job[g].stage = "scan"
  PROVE  Scanning(g, job[g])
PROOF
  <1>1. JobOK(g, job[g])
    BY DEF JobsOK
  <1>2. job[g].op \notin {"idle", "send", "leave", "expire"} /\ ~Retaining(job[g])
    BY DEF Retaining
  <1> QED
    BY <1>1, <1>2 DEF JobOK, Idle, Sending

\* Scans start with nothing found.
LEMMA ScanOK ==
  ASSUME NEW g, NEW of \in Paths, NEW by, NEW pk, NEW reads
  PROVE  /\ pk \in Packets /\ Named(of) => Scanning(g, Scan("publish", of, by, pk, reads))
         /\ g \in Clients \cup {InlineClient} /\ ValidFilter(of) => Scanning(g, Scan("messages", of, by, pk, reads))
PROOF
  <1>1. ASSUME NEW op \in {"publish", "messages"}, NEW w,
               NEW j, j = [op |-> op, stage |-> "scan", of |-> of, by |-> by, pk |-> pk, reads |-> reads,
                           found |-> {}, always |-> w, ever |-> w]
        PROVE  /\ DOMAIN j = ScanFields /\ j.stage = "scan" /\ j.of = of /\ j.op = op /\ j.pk = pk /\ j.found = {}
    BY <1>1 DEF ScanFields
  <1>2. ASSUME NEW op \in {"publish", "messages"}, NEW j, j = Scan(op, of, by, pk, reads)
        PROVE  /\ DOMAIN j = ScanFields /\ j.stage = "scan" /\ j.of = of /\ j.op = op /\ j.pk = pk /\ j.found = {}
    BY <1>1, <1>2 DEF Scan
  <1>3. ASSUME pk \in Packets, Named(of) PROVE Scanning(g, Scan("publish", of, by, pk, reads))
    BY <1>2, <1>3 DEF Scanning
  <1>4. ASSUME g \in Clients \cup {InlineClient}, ValidFilter(of) PROVE Scanning(g, Scan("messages", of, by, pk, reads))
    BY <1>2, <1>4 DEF Scanning
  <1> QED
    BY <1>3, <1>4

\* What a step may do to the index.
IndexStep ==
  \/ UNCHANGED index
  \/ \E f \in Paths, c \in Clients : (\E sub \in Subscriptions : IndexSubscribe(f, c, sub)) \/ IndexUnsubscribe(f, c)
  \/ \E f \in Paths, id \in InlineIds : InlineSubscribe(f, id) \/ InlineUnsubscribe(f, id)
  \/ \E g \in Goroutines : job[g].op = "publish" /\ Retaining(job[g]) /\ RetainMessage(job[g].of, job[g].pk)
  \/ \E t : DropRetained(t)

\* All but the aliases, after a step.
Done ==
  /\ scenario' = scenario /\ published' \in Nat /\ subscribed' \in [Clients -> SUBSET Paths]
  /\ IndexStep /\ JobsOK' /\ InboundOK'
AliasQuiet == QueuesKept /\ UNCHANGED <<outbound, heard, learned>>

\* The filters and topics of a scenario are paths, its publishers goroutines.
LEMMA ScenarioPaths ==
  ASSUME scenario \in Scenarios
  PROVE  /\ scenario.filters \cup scenario.topics \subseteq Paths
         /\ scenario.publishers \subseteq Goroutines
BY Parameters DEF Paths, Goroutines

\* The actions of subscribers.
LEMMA SubscribeDone ==
  ASSUME Typed, NEW c \in Clients, NEW f \in Paths, NEW sub \in Subscriptions, Subscribe(c, f, sub)
  PROVE  Done /\ AliasQuiet
PROOF
  <1> DEFINE j == IF SendsRetained(f, sub, ~IsNew(f, c)) THEN Scan("messages", f, c, sub, VisitMessages(f, <<>>)) ELSE Idle
  <1>1. /\ IndexSubscribe(f, c, sub) /\ subscribed' = [subscribed EXCEPT ![c] = @ \cup {f}] /\ Becomes(c, j)
        /\ UNCHANGED <<scenario, inbound, outbound, heard, learned, published>>
    BY DEF Subscribe
  <1>2. JobOK(c, j) /\ ~(j.op = "send" /\ j.stage = "queue")
    <2>1. Scanning(c, Scan("messages", f, c, sub, VisitMessages(f, <<>>)))
      BY ScanOK DEF Subscribe, ValidFilter
    <2> QED
      BY <2>1 DEF JobOK, Scanning, Idle
  <1> HIDE DEF j
  <1>3. JobsOK' /\ QueuesKept
    BY <1>1, <1>2, Moves DEF Typed, Goroutines
  <1> QED
    BY <1>1, <1>3 DEF Typed, Done, AliasQuiet, IndexStep, InboundOK, Named, May

\* Unsubscribing trims the tree (processUnsubscribe).
LEMMA UnsubscribeDone ==
  ASSUME Typed, NEW c \in Clients, NEW f \in Paths, Unsubscribe(c, f)
  PROVE  Done /\ AliasQuiet
PROOF
  <1>1. /\ IndexUnsubscribe(f, c) /\ subscribed' = [subscribed EXCEPT ![c] = @ \ {f}] /\ Becomes(c, Idle)
        /\ UNCHANGED <<scenario, inbound, outbound, heard, learned, published>>
    BY DEF Unsubscribe, Unsubscribed
  <1>2. JobOK(c, Idle) /\ Idle.op # "send"
    BY DEF JobOK, Idle
  <1>3. JobsOK' /\ QueuesKept
    BY <1>1, <1>2, Moves DEF Typed, Goroutines
  <1> QED
    BY <1>1, <1>3 DEF Typed, Done, AliasQuiet, IndexStep, InboundOK, Named, May

\* A client that leaves unsubscribes from each of its filters (UnsubscribeClient).
LEMMA LeaveDone ==
  ASSUME Typed, NEW c \in Clients, UnsubscribeClient(c) \/ UnsubscribeNext(c)
  PROVE  Done /\ AliasQuiet
PROOF
  <1>1. CASE UnsubscribeClient(c)
    <2> DEFINE j == [op |-> "leave", filters |-> subscribed[c]]
    <2>1. /\ subscribed' = [subscribed EXCEPT ![c] = {}] /\ Goes(c, j)
          /\ UNCHANGED <<index, scenario, inbound, outbound, heard, learned, published>>
      BY <1>1 DEF UnsubscribeClient
    <2>2. JobOK(c, j) /\ ~(j.op = "send" /\ j.stage = "queue")
      BY DEF JobOK, Typed
    <2> HIDE DEF j
    <2>3. JobsOK' /\ QueuesKept
      BY <1>1, <2>1, <2>2, Moves DEF Typed, Goroutines
    <2> QED
      BY <2>1, <2>3 DEF Typed, Done, AliasQuiet, IndexStep, InboundOK, Named, May
  <1>2. CASE UnsubscribeNext(c)
    <2>1. /\ job[c].op = "leave" /\ UNCHANGED <<scenario, subscribed, inbound, outbound, heard, learned, published>>
      BY <1>2 DEF UnsubscribeNext
    <2>2. DOMAIN job[c] = {"op", "filters"} /\ job[c].filters \subseteq Paths
      BY <2>1 DEF Typed, JobsOK, JobOK, Idle, Scanning, Retaining, Sending, Goroutines
    <2>3. ASSUME NEW f \in job[c].filters, Unsubscribed(f, c), Becomes(c, [job[c] EXCEPT !.filters = @ \ {f}])
          PROVE  JobsOK' /\ QueuesKept
      <3> DEFINE j == [job[c] EXCEPT !.filters = @ \ {f}]
      <3>1. JobOK(c, j) /\ j.op = "leave"
        BY <2>1, <2>2 DEF JobOK
      <3> HIDE DEF j
      <3> QED
        BY <2>1, <2>3, <3>1, Moves DEF Typed, Goroutines, j
    <2>4. ASSUME Goes(c, Idle) PROVE JobsOK' /\ QueuesKept
      <3>1. JobOK(c, Idle) /\ Idle.op # "send"
        BY DEF JobOK, Idle
      <3> QED
        BY <2>1, <2>4, <3>1, Moves DEF Typed, Goroutines
    <2>5. \/ \E f \in job[c].filters : Unsubscribed(f, c) /\ Becomes(c, [job[c] EXCEPT !.filters = @ \ {f}])
          \/ Goes(c, Idle) /\ UNCHANGED index
      BY <1>2 DEF UnsubscribeNext
    <2>6. IndexStep /\ JobsOK' /\ QueuesKept
      BY <2>2, <2>3, <2>4, <2>5 DEF IndexStep, Unsubscribed
    <2> QED
      BY <2>1, <2>6 DEF Typed, Done, AliasQuiet, InboundOK, Named, May
  <1> QED
    BY <1>1, <1>2

\* The inline client subscribes and unsubscribes (Server.Subscribe, Server.Unsubscribe).
LEMMA InlineDone ==
  ASSUME Typed, NEW f \in Paths, NEW id \in InlineIds, SubscribeInline(f, id) \/ UnsubscribeInline(f, id)
  PROVE  Done /\ AliasQuiet
PROOF
  <1> DEFINE s == Scan("messages", f, id, Handler, VisitMessages(f, <<>>))
  <1>1. UNCHANGED <<scenario, subscribed, inbound, outbound, heard, learned, published>> /\ IndexStep
    BY DEF SubscribeInline, UnsubscribeInline, IndexStep
  <1>2. Becomes(InlineClient, s) \/ Becomes(InlineClient, Idle)
    BY DEF SubscribeInline, UnsubscribeInline
  <1>3. Becomes(InlineClient, s) => Scanning(InlineClient, s) \/ Becomes(InlineClient, Idle)
    <2>1. CASE SubscribeInline(f, id)
      BY <2>1, ScanOK DEF SubscribeInline, ValidFilter
    <2>2. CASE UnsubscribeInline(f, id)
      BY <2>2 DEF UnsubscribeInline
    <2> QED
      BY <2>1, <2>2
  <1>4. Scanning(InlineClient, s) => JobOK(InlineClient, s) /\ s.op = "messages"
    <2>1. s.op = "messages"
      BY DEF Scan
    <2> HIDE DEF s
    <2> QED
      BY <1>3, <2>1 DEF JobOK
  <1>5. JobOK(InlineClient, Idle) /\ Idle.op # "send"
    BY DEF JobOK, Idle
  <1> HIDE DEF s
  <1>6. JobsOK' /\ QueuesKept
    BY <1>1, <1>2, <1>3, <1>4, <1>5, Moves DEF Typed, Goroutines
  <1> QED
    BY <1>1, <1>6 DEF Typed, Done, AliasQuiet, InboundOK, Named, May

\* The actions of publishers.
LEMMA PublishDone ==
  ASSUME Typed, NEW g \in scenario.publishers, NEW t \in scenario.topics, NEW retain \in BOOLEAN,
         NEW payload \in {Payload, Empty}, NEW alias \in Nat, Publish(g, t, alias, payload, retain),
         alias # 0 => MaxInbound # 0
  PROVE  Done /\ AliasQuiet
PROOF
  <1> DEFINE topic == IF alias = 0 THEN t ELSE InboundTopic(inbound[g], MaxInbound, alias, t, NoTopic)
             pk == Pk(payload, g)
             j == StartPublish(topic, pk, retain)
  <1>1. /\ published' = published + 1 /\ Goes(g, j) /\ (alias > 0 => g \in Publishers)
        /\ inbound' = IF alias = 0 THEN inbound
                      ELSE [inbound EXCEPT ![g] = InboundSet(@, MaxInbound, alias, t, NoTopic)]
        /\ UNCHANGED <<index, scenario, subscribed, outbound, heard, learned>>
    BY DEF Publish
  <1>0. t = NoTopic => alias # 0 /\ (alias \in DOMAIN inbound[g] \/ May("unset"))
    BY DEF Publish
  <1>2. t \in Paths /\ g \in Goroutines /\ pk \in Packets
    BY ScenarioPaths DEF Typed, Pk, Packets, Payload, Empty
  <1>3. ASSUME alias # 0
        PROVE  /\ topic \in Paths /\ Named(topic)
               /\ \A a \in DOMAIN InboundSet(inbound[g], MaxInbound, alias, t, NoTopic) :
                    LET to == InboundSet(inbound[g], MaxInbound, alias, t, NoTopic)[a]
                    IN  to \in Paths /\ Named(to)
    <2>1. topic \in Paths /\ Named(topic)
      <3>1. g \in Publishers /\ MaxInbound > 0
        BY <1>1, <1>3, Parameters
      <3>2. \A a \in DOMAIN inbound[g] : inbound[g][a] \in Paths /\ Named(inbound[g][a])
        BY <3>1 DEF Typed, InboundOK
      <3>3. CASE t # NoTopic
        BY <1>2, <1>3, <3>3 DEF InboundTopic, Named
      <3>4. CASE t = NoTopic /\ alias \in DOMAIN inbound[g]
        BY <1>3, <3>1, <3>2, <3>4 DEF InboundTopic
      <3>5. CASE t = NoTopic /\ alias \notin DOMAIN inbound[g]
        BY <1>0, <1>2, <1>3, <3>5 DEF InboundTopic, Named
      <3> QED
        BY <3>3, <3>4, <3>5
    <2>2. topic = InboundTopic(inbound[g], MaxInbound, alias, t, NoTopic)
      BY <1>3
    <2> HIDE DEF topic
    <2> QED
      BY <1>1, <1>3, <2>1, <2>2 DEF InboundSet, Typed, InboundOK, Named, May
  <1>4. topic \in Paths /\ Named(topic)
    BY <1>0, <1>2, <1>3 DEF Named
  <1>5. InboundOK'
    BY <1>1, <1>3 DEF Typed, InboundOK, Named, May
  <1> HIDE DEF topic, pk
  <1>6. JobOK(g, j) /\ j.op = "publish"
    <2>1. CASE retain
      <3>1. j = [op |-> "publish", stage |-> "retain", of |-> topic, pk |-> pk]
        BY <2>1 DEF StartPublish, StartRetaining
      <3> HIDE DEF j
      <3> QED
        BY <3>1, <1>2, <1>4 DEF JobOK, Retaining
    <2>2. CASE ~retain
      <3>1. j = Scan("publish", topic, pk.origin, pk, Visit(topic, <<>>))
        BY <2>2 DEF StartPublish, StartRouting
      <3>2. Scanning(g, j)
        BY <1>2, <1>4, <3>1, ScanOK
      <3>3. j.op = "publish"
        BY <3>1 DEF Scan
      <3> HIDE DEF j
      <3> QED
        BY <3>2, <3>3 DEF JobOK
    <2> QED
      BY <2>1, <2>2
  <1> HIDE DEF j
  <1>7. JobsOK' /\ QueuesKept
    BY <1>1, <1>2, <1>6, Moves DEF Typed
  <1> QED
    BY <1>1, <1>5, <1>7 DEF Typed, Done, AliasQuiet, IndexStep

\* A scan for the topic of a message being retained.
LEMMA RoutingOK ==
  ASSUME NEW g, NEW t \in Paths, NEW pk \in Packets, Named(t)
  PROVE  JobOK(g, StartRouting(t, pk)) /\ StartRouting(t, pk).op = "publish"
PROOF
  <1>1. StartRouting(t, pk) = Scan("publish", t, pk.origin, pk, Visit(t, <<>>))
    BY DEF StartRouting
  <1>2. Scanning(g, Scan("publish", t, pk.origin, pk, Visit(t, <<>>)))
    BY ScanOK
  <1>3. Scan("publish", t, pk.origin, pk, Visit(t, <<>>)).op = "publish"
    BY DEF Scan
  <1> QED
    BY <1>1, <1>2, <1>3 DEF JobOK

\* A retained message changes the tree, and then the gauge (retainMessage).
LEMMA RetainDone ==
  ASSUME Typed, NEW g \in Goroutines, RetainPublished(g) \/ StoreGauge(g)
  PROVE  Done /\ AliasQuiet
PROOF
  <1>1. UNCHANGED <<scenario, subscribed, inbound, outbound, heard, learned, published>>
    BY DEF RetainPublished, StoreGauge
  <1>2. job[g].op = "publish" /\ Retaining(job[g])
    BY DEF RetainPublished, StoreGauge, Typed, JobsOK, JobOK, Idle, Scanning, Sending
  <1>3. job[g].of \in Paths /\ job[g].pk \in Packets /\ Named(job[g].of)
    BY <1>2 DEF Retaining
  <1> DEFINE r == StartRouting(job[g].of, job[g].pk)
  <1>4. JobOK(g, r) /\ r.op = "publish"
    BY <1>3, RoutingOK
  <1>5. CASE RetainPublished(g)
    <2> DEFINE n == Cardinality(DOMAIN retained')
               j == [op |-> "publish", stage |-> "gauge", of |-> job[g].of, pk |-> job[g].pk, len |-> n]
    <2>1. RetainMessage(job[g].of, job[g].pk) /\ (Becomes(g, r) \/ Becomes(g, j)) /\ job[g].stage = "retain"
      BY <1>5 DEF RetainPublished
    <2>3. JobOK(g, j) /\ j.op = "publish"
      <3>1. j.op = "publish" /\ j.stage = "gauge" /\ j.of \in Paths /\ Named(j.of) /\ j.pk \in Packets
        BY <1>2, <1>3 DEF Retaining
      <3> HIDE DEF j
      <3> QED
        BY <3>1 DEF JobOK, Retaining
    <2> HIDE DEF r, j
    <2>4. JobsOK' /\ QueuesKept
      BY <1>1, <2>1, <2>3, <1>4, Moves DEF Typed
    <2> QED
      BY <1>1, <1>2, <2>1, <2>4 DEF Typed, Done, AliasQuiet, IndexStep, InboundOK, Named, May
  <1>6. CASE StoreGauge(g)
    <2>1. Goes(g, r) /\ UNCHANGED index
      BY <1>6 DEF StoreGauge
    <2> HIDE DEF r
    <2>2. JobsOK' /\ QueuesKept
      BY <1>1, <2>1, <1>4, Moves DEF Typed
    <2> QED
      BY <1>1, <2>1, <2>2 DEF Typed, Done, AliasQuiet, IndexStep, InboundOK, Named, May
  <1> QED
    BY <1>5, <1>6

\* What a scan gathers are subscriptions of clients and handlers, and retained messages.
LEMMA GathersOK ==
  ASSUME IndexOK, NEW t, NEW r
  PROVE  /\ \A e \in Gathers(t, r) : e[3] = Handler \/ e[2] \in Clients
         /\ Finds(t, r) \subseteq [topic : Paths, pk : Packets]
PROOF
  <1>1. \A K \in SUBSET DOMAIN subs : \A e \in Held(K) : e[2] \in Clients
    BY DEF Held, IndexOK
  <1>2. \A K : \A e \in HeldInline(K) : e[3] = Handler
    BY DEF HeldInline
  <1>3. \A e \in Gathers(t, r) : e[3] = Handler \/ e[2] \in Clients
    BY <1>1, <1>2 DEF Gathers
  <1>4. Finds(t, r) \subseteq [topic : Paths, pk : Packets]
    BY DEF Finds, IndexOK
  <1> QED
    BY <1>3, <1>4

\* A read of a scan leaves what is shared alone (scanSubscribers, scanMessages).
LEMMA ScanDone ==
  ASSUME Typed, NEW g \in Goroutines, ScanStep(g)
  PROVE  Done /\ AliasQuiet
PROOF
  <1> DEFINE k == job[g]
             q == Head(k.reads)
             got == IF k.op = "publish" THEN Gathers(k.of, q) ELSE Finds(k.of, q)
             kept == IF q.do = "inline" THEN {e \in k.found : e[3] = Handler => \A x \in got : x[2] # e[2]} ELSE k.found
             j(n) == [k EXCEPT !.reads = n \o Tail(@), !.found = kept \cup got]
  <1>1. /\ UNCHANGED <<index, scenario, subscribed, inbound, outbound, heard, learned, published>>
        /\ k.op \in {"publish", "messages"} /\ k.stage = "scan"
    BY DEF ScanStep
  <1>2. PICK n : Goes(g, j(n))
    BY DEF ScanStep
  <1>3. Scanning(g, k)
    BY <1>1, ScanInHand DEF Typed
  <1>4. /\ k.op = "publish" => \A e \in kept \cup got : e[3] = Handler \/ e[2] \in Clients
        /\ k.op = "messages" => kept \cup got \subseteq [topic : Paths, pk : Packets]
    <2>1. /\ \A e \in Gathers(k.of, q) : e[3] = Handler \/ e[2] \in Clients
          /\ Finds(k.of, q) \subseteq [topic : Paths, pk : Packets]
      BY GathersOK DEF Typed
    <2>2. kept \subseteq k.found
      OBVIOUS
    <2> HIDE DEF kept
    <2> QED
      BY <1>3, <2>1, <2>2 DEF Scanning
  <1> DEFINE new == n \o Tail(k.reads)
             all == kept \cup got
             l == [k EXCEPT !.reads = new, !.found = all]
  <1>5. Goes(g, l)
    BY <1>2
  <1>6. JobOK(g, l) /\ l.op # "send"
    <2> HIDE DEF all, new
    <2>1. /\ DOMAIN l = DOMAIN k /\ l.stage = k.stage /\ l.of = k.of /\ l.op = k.op /\ l.pk = k.pk /\ l.found = all
      BY <1>3 DEF Scanning, ScanFields
    <2>2. Scanning(g, l)
      BY <1>3, <1>4, <2>1 DEF Scanning, all
    <2> QED
      BY <1>1, <2>1, <2>2 DEF JobOK
  <1> HIDE DEF l
  <1>7. JobsOK' /\ QueuesKept
    BY <1>1, <1>5, <1>6, Moves DEF Typed
  <1> QED
    BY <1>1, <1>7 DEF Typed, Done, AliasQuiet, IndexStep, InboundOK, Named, May

\* Messages that remain to be sent, or none.
LEMMA SendsDone ==
  ASSUME JobsOK, NEW g \in Goroutines, NEW M \in SUBSET Messages, Sends(g, M), scenario' = scenario
  PROVE  JobsOK' /\ QueuesKept
PROOF
  <1> DEFINE j == [op |-> "send", stage |-> "next", messages |-> M]
  <1>1. Goes(g, j) \/ Goes(g, Idle)
    BY DEF Sends
  <1>2. JobOK(g, j) /\ j.stage # "queue"
    BY DEF JobOK, Sending
  <1>3. JobOK(g, Idle) /\ Idle.op # "send"
    BY DEF JobOK, Idle
  <1> HIDE DEF j
  <1> QED
    BY <1>1, <1>2, <1>3, Moves

\* A scan that is made becomes messages to send (publishToSubscribers, publishRetainedToClient).
LEMMA SelectDone ==
  ASSUME Typed, NEW g \in Goroutines, SelectSubscribers(g) \/ SendRetained(g)
  PROVE  Done /\ AliasQuiet
PROOF
  <1>1. UNCHANGED <<index, scenario, subscribed, inbound, outbound, heard, learned, published>>
    BY DEF SelectSubscribers, SendRetained
  <1>2. Scanning(g, job[g])
    BY DEF SelectSubscribers, SendRetained, Scanned, Typed, JobsOK, JobOK, Idle, Retaining, Sending
  <1>3. CASE SelectSubscribers(g)
    <2>1. job[g].op = "publish" /\ job[g].of \in Paths /\ job[g].pk \in Packets /\ job[g].pk.payload \in Nat
      BY <1>2, <1>3 DEF SelectSubscribers, Scanned, Scanning, Packets
    <2>2. PICK pick : Sends(g, {Sent(c, job[g].of, job[g].pk) :
                                  c \in Recipients(Merged(job[g].found, pick), job[g].pk.origin)})
      BY <1>3 DEF SelectSubscribers
    <2>3. Recipients(Merged(job[g].found, pick), job[g].pk.origin) \subseteq Clients
      BY <1>2, <2>1 DEF Recipients, Merged, Scanning
    <2> DEFINE M == {Sent(c, job[g].of, job[g].pk) :
                       c \in Recipients(Merged(job[g].found, pick), job[g].pk.origin)}
    <2>4. M \in SUBSET Messages
      BY <2>1, <2>3 DEF Sent, Messages
    <2> HIDE DEF M
    <2>5. JobsOK' /\ QueuesKept
      BY <1>1, <2>2, <2>4, SendsDone DEF Typed, M
    <2> QED
      BY <1>1, <2>5 DEF Typed, Done, AliasQuiet, IndexStep, InboundOK, Named, May
  <1>4. CASE SendRetained(g)
    <2>1. job[g].op = "messages" /\ g \in Clients \cup {InlineClient}
          /\ job[g].found \subseteq [topic : Paths, pk : Packets]
      BY <1>2, <1>4 DEF SendRetained, Scanned, Scanning
    <2> DEFINE M == {Sent(g, m.topic, m.pk) : m \in {m \in job[g].found : ~(job[g].pk.noLocal /\ m.pk.origin = g)}}
    <2>2. Goes(g, Idle) \/ (g # InlineClient /\ Sends(g, M))
      BY <1>4 DEF SendRetained
    <2>3. JobOK(g, Idle) /\ Idle.op # "send"
      BY DEF JobOK, Idle
    <2>4. g # InlineClient => M \in SUBSET Messages
      BY <2>1 DEF Sent, Messages, Packets
    <2> HIDE DEF M
    <2>5. JobsOK' /\ QueuesKept
      BY <1>1, <2>2, <2>3, <2>4, Moves, SendsDone DEF Typed
    <2> QED
      BY <1>1, <2>5 DEF Typed, Done, AliasQuiet, IndexStep, InboundOK, Named, May
  <1> QED
    BY <1>3, <1>4

\* The actions of the event loop.
LEMMA ExpireDone ==
  ASSUME Typed, ClearExpired \/ ClearNext
  PROVE  Done /\ AliasQuiet
PROOF
  <1>1. UNCHANGED <<scenario, subscribed, inbound, outbound, heard, learned, published>> /\ IndexStep
    BY DEF ClearExpired, ClearNext, IndexStep
  <1>2. PICK pks : \/ Goes(Ticker, [op |-> "expire", pks |-> pks])
                   \/ Becomes(Ticker, [op |-> "expire", pks |-> pks]) \/ Becomes(Ticker, Idle)
    <2>1. CASE ClearExpired
      BY <2>1 DEF ClearExpired
    <2>2. CASE ClearNext
      <3>1. PICK t \in DOMAIN job[Ticker].pks :
              Becomes(Ticker, IF Without(job[Ticker].pks, t) = <<>> THEN Idle
                              ELSE [op |-> "expire", pks |-> Without(job[Ticker].pks, t)])
        BY <2>2 DEF ClearNext
      <3> QED
        BY <3>1
    <2> QED
      BY <2>1, <2>2
  <1> DEFINE j == [op |-> "expire", pks |-> pks]
  <1>3. JobOK(Ticker, j) /\ j.op # "send" /\ JobOK(Ticker, Idle) /\ Idle.op # "send"
    BY DEF JobOK, Idle
  <1>4. Goes(Ticker, j) \/ Becomes(Ticker, j) \/ Becomes(Ticker, Idle)
    BY <1>2
  <1> HIDE DEF j
  <1>5. JobsOK' /\ QueuesKept
    BY <1>1, <1>3, <1>4, Moves DEF Typed, Goroutines
  <1> QED
    BY <1>1, <1>5 DEF Typed, Done, AliasQuiet, InboundOK, Named, May

-----------------------------------------------------------------------------
(* Aliases.                                                                 *)

\* An outbound table only grows, and the alias it gives is that of the topic.
LEMMA AliasGiven ==
  ASSUME NEW table \in Seq(Paths), NEW topic \in Paths, NEW max \in Nat
  PROVE  LET new == OutboundSet(table, max, topic)
             a == OutboundAlias(table, max, topic)
         IN  /\ new \in Seq(Paths) /\ a \in Nat
             /\ \A i \in DOMAIN table : i \in DOMAIN new /\ new[i] = table[i]
             /\ a # 0 => a \in DOMAIN new /\ new[a] = topic
PROOF
  <1> DEFINE new == OutboundSet(table, max, topic)
             a == OutboundAlias(table, max, topic)
  <1> SUFFICES /\ new \in Seq(Paths) /\ a \in Nat
               /\ \A i \in DOMAIN table : i \in DOMAIN new /\ new[i] = table[i]
               /\ a # 0 => a \in DOMAIN new /\ new[a] = topic
    OBVIOUS
  <1>1. Len(table) \in Nat /\ DOMAIN table = 1 .. Len(table)
    BY LenProperties
  <1>2. CASE Aliased(table, topic)
    <2>1. \E i \in DOMAIN table : table[i] = topic
      BY <1>1, <1>2 DEF Aliased, Contains
    <2>2. new = table /\ (max # 0 => a = CHOOSE i \in DOMAIN table : table[i] = topic) /\ (max = 0 => a = 0)
      BY <1>2 DEF OutboundSet, OutboundAlias
    <2> DEFINE i == CHOOSE i \in DOMAIN table : table[i] = topic
    <2>3. i \in DOMAIN table /\ table[i] = topic
      BY <2>1
    <2> HIDE DEF i
    <2> QED
      BY <1>1, <2>2, <2>3 DEF i
  <1>3. CASE ~Aliased(table, topic) /\ Len(table) + 1 > max
    <2>1. new = table /\ a = 0
      BY <1>3 DEF OutboundSet, OutboundAlias
    <2> QED
      BY <2>1
  <1>4. CASE ~Aliased(table, topic) /\ ~(Len(table) + 1 > max)
    <2>0. max # 0
      BY <1>1, <1>4
    <2>1. new = Append(table, topic) /\ a = Len(table) + 1
      BY <1>4, <2>0, Zenon DEF OutboundSet, OutboundAlias
    <2> DEFINE n == Append(table, topic)
    <2>2. n \in Seq(Paths) /\ Len(n) = Len(table) + 1 /\ n[Len(table) + 1] = topic
          /\ \A i \in 1 .. Len(table) : n[i] = table[i]
      BY AppendProperties
    <2>3. DOMAIN n = 1 .. Len(table) + 1
      BY <2>2, LenProperties
    <2> HIDE DEF n
    <2> QED
      BY <1>1, <2>1, <2>2, <2>3 DEF n
  <1> QED
    BY <1>2, <1>3, <1>4

\* What a client was told is what its table says, and so is the alias under which a message is
\* about to be queued: the table gives an alias once and never changes it.
Told ==
  /\ \A c \in Clients : \A a \in DOMAIN learned[c] : a \in DOMAIN outbound[c] /\ learned[c][a] = outbound[c][a]
  /\ \A g \in Goroutines : job[g].op = "send" /\ job[g].stage = "queue" /\ job[g].alias # 0 =>
       /\ job[g].alias \in DOMAIN outbound[job[g].out.to]
       /\ outbound[job[g].out.to][job[g].alias] = job[g].out.topic
AliasInv == Told /\ AliasFaithful

\* The alias a message takes is one the table has for its topic (OutboundTopicAliases.Set).
LEMMA TakeAliasDone ==
  ASSUME Typed, AliasInv, NEW g \in Goroutines, TakeAlias(g)
  PROVE  Done /\ AliasesOK' /\ AliasInv'
PROOF
  <1>1. /\ job[g].op = "send" /\ job[g].stage = "next"
        /\ UNCHANGED <<index, scenario, subscribed, inbound, heard, learned, published>>
    BY DEF TakeAlias
  <1>2. job[g].messages \subseteq Messages
    BY <1>1 DEF Typed, JobsOK, JobOK, Idle, Scanning, Retaining, Sending
  <1>3. PICK m \in job[g].messages :
          /\ outbound' = [outbound EXCEPT ![m.to] = OutboundSet(@, OutboundMax, m.topic)]
          /\ Goes(g, [op |-> "send", stage |-> "queue", messages |-> job[g].messages \ {m}, out |-> m,
                      alias |-> OutboundAlias(outbound[m.to], OutboundMax, m.topic),
                      named |-> ~Aliased(outbound[m.to], m.topic)])
    BY DEF TakeAlias
  <1> DEFINE new == OutboundSet(outbound[m.to], OutboundMax, m.topic)
             a == OutboundAlias(outbound[m.to], OutboundMax, m.topic)
             j == [op |-> "send", stage |-> "queue", messages |-> job[g].messages \ {m}, out |-> m, alias |-> a,
                   named |-> ~Aliased(outbound[m.to], m.topic)]
  <1>4. m \in Messages /\ m.to \in Clients /\ m.topic \in Paths
    BY <1>2, <1>3 DEF Messages
  <1>5. /\ new \in Seq(Paths) /\ a \in Nat
        /\ \A i \in DOMAIN outbound[m.to] : i \in DOMAIN new /\ new[i] = outbound[m.to][i]
        /\ a # 0 => a \in DOMAIN new /\ new[a] = m.topic
    <2>1. OutboundMax \in Nat /\ outbound[m.to] \in Seq(Paths)
      BY <1>4, Parameters DEF OutboundMax, Typed, AliasesOK
    <2> QED
      BY <1>4, <2>1, AliasGiven
  <1>6. outbound' = [outbound EXCEPT ![m.to] = new] /\ Goes(g, j)
    BY <1>3
  <1> HIDE DEF new, a
  <1>7. JobOK(g, j)
    BY <1>2, <1>4, <1>5 DEF JobOK, Sending
  <1>8. /\ JobsOK' /\ job'[g] = j
        /\ \A x \in Goroutines : x # g => job'[x] = job[x] \/ (Scanning(x, job[x]) /\ Scanning(x, job'[x]))
    <2> HIDE DEF j
    <2> QED
      BY <1>1, <1>6, <1>7, JobStep DEF Typed
  <1>9. /\ outbound' \in [Clients -> Seq(Paths)] /\ outbound'[m.to] = new
        /\ \A c \in Clients : \A i \in DOMAIN outbound[c] : i \in DOMAIN outbound'[c] /\ outbound'[c][i] = outbound[c][i]
    BY <1>4, <1>5, <1>6 DEF Typed, AliasesOK
  <1>10. AliasesOK'
    BY <1>1, <1>9 DEF Typed, AliasesOK
  <1>11. Told'
    <2>1. \A c \in Clients : \A i \in DOMAIN learned'[c] : i \in DOMAIN outbound'[c] /\ learned'[c][i] = outbound'[c][i]
      BY <1>1, <1>9 DEF AliasInv, Told
    <2>2. ASSUME NEW x \in Goroutines, job'[x].op = "send", job'[x].stage = "queue", job'[x].alias # 0
          PROVE  /\ job'[x].alias \in DOMAIN outbound'[job'[x].out.to]
                 /\ outbound'[job'[x].out.to][job'[x].alias] = job'[x].out.topic
      <3>1. CASE x = g
        <4>1. job'[x].alias = a /\ job'[x].out = m
          BY <1>8, <3>1
        <4> QED
          BY <2>2, <4>1, <1>5, <1>9
      <3>2. CASE x # g
        <4>1. job'[x] = job[x]
          BY <1>8, <2>2, <3>2 DEF Scanning
        <4>2. job[x].out.to \in Clients
          BY <2>2, <4>1 DEF Typed, JobsOK, JobOK, Idle, Scanning, Retaining, Sending, Messages
        <4> QED
          BY <2>2, <4>1, <4>2, <1>9 DEF AliasInv, Told
      <3> QED
        BY <3>1, <3>2
    <2> QED
      BY <2>1, <2>2 DEF Told
  <1>12. AliasFaithful'
    BY <1>1 DEF AliasInv, AliasFaithful
  <1> QED
    BY <1>1, <1>8, <1>10, <1>11, <1>12 DEF Typed, Done, IndexStep, InboundOK, AliasInv, Named, May

\* The client resolves the alias of a message to its topic, if it was told, and may be told of it.
LEMMA QueueDone ==
  ASSUME Typed, AliasInv, NEW g \in Goroutines, Queue(g)
  PROVE  Done /\ AliasesOK' /\ AliasInv'
PROOF
  <1> DEFINE k == job[g]
             c == k.out.to
             news == [topic |-> Resolve(k), of |-> k.out.topic, payload |-> k.out.payload]
  <1>1. /\ k.op = "send" /\ k.stage = "queue" /\ Sends(g, k.messages)
        /\ UNCHANGED <<index, scenario, subscribed, inbound, outbound, published>>
        /\ \/ /\ heard' = [heard EXCEPT ![c] = Append(@, news)]
              /\ learned' = IF k.alias > 0 /\ k.named
                            THEN [learned EXCEPT ![c] = With(@, k.alias, k.out.topic)] ELSE learned
           \/ UNCHANGED <<heard, learned>>
    BY DEF Queue
  <1>2. k.messages \subseteq Messages /\ k.out \in Messages /\ k.alias \in Nat
    BY <1>1 DEF Typed, JobsOK, JobOK, Idle, Scanning, Retaining, Sending
  <1>3. c \in Clients /\ k.out.topic \in Paths /\ k.out.payload \in Nat
    BY <1>2 DEF Messages
  <1>4. JobsOK' /\ QueuesKept
    BY <1>1, <1>2, SendsDone DEF Typed
  <1>5. k.alias # 0 => k.alias \in DOMAIN outbound[c] /\ outbound[c][k.alias] = k.out.topic
    BY <1>1 DEF AliasInv, Told
  <1>6. Resolve(k) \in {k.out.topic, Unknown}
    <2>1. 0 \notin DOMAIN outbound[c]
      <3>1. outbound[c] \in Seq(Paths)
        BY <1>3 DEF Typed, AliasesOK
      <3> QED
        BY <3>1, LenProperties
    <2>2. \A i \in DOMAIN learned[c] : i \in DOMAIN outbound[c] /\ learned[c][i] = outbound[c][i]
      BY <1>3 DEF AliasInv, Told
    <2> QED
      BY <1>5, <2>1, <2>2 DEF Resolve
  <1>7. news \in News /\ news.topic \in {news.of, Unknown}
    BY <1>3, <1>6 DEF News
  <1>8. /\ DOMAIN learned' = Clients
        /\ \A d \in Clients : \A i \in DOMAIN learned'[d] :
             learned'[d][i] \in Paths /\ i \in DOMAIN outbound[d] /\ learned'[d][i] = outbound[d][i]
    <2> DEFINE told == With(learned[c], k.alias, k.out.topic)
    <2>1. k.alias # 0 => \A i \in DOMAIN told : i \in DOMAIN outbound[c] /\ told[i] \in Paths /\ told[i] = outbound[c][i]
      <3>1. \A i \in DOMAIN learned[c] : learned[c][i] \in Paths /\ i \in DOMAIN outbound[c] /\ learned[c][i] = outbound[c][i]
        BY <1>3 DEF AliasInv, Told, Typed, AliasesOK
      <3> QED
        BY <1>3, <1>5, <3>1 DEF With
    <2>2. learned' = learned \/ (k.alias # 0 /\ learned' = [learned EXCEPT ![c] = told])
      BY <1>1, <1>2
    <2> HIDE DEF told
    <2>3. /\ DOMAIN learned = Clients
          /\ \A d \in Clients : \A i \in DOMAIN learned[d] :
               learned[d][i] \in Paths /\ i \in DOMAIN outbound[d] /\ learned[d][i] = outbound[d][i]
      BY DEF AliasInv, Told, Typed, AliasesOK
    <2>4. CASE k.alias # 0 /\ learned' = [learned EXCEPT ![c] = told]
      <3>1. DOMAIN learned' = Clients /\ learned'[c] = told /\ \A d \in Clients : d # c => learned'[d] = learned[d]
        BY <1>3, <2>3, <2>4
      <3> QED
        BY <2>1, <2>3, <2>4, <3>1
    <2> QED
      BY <2>2, <2>3, <2>4
  <1>9. heard' \in [Clients -> Seq(News)] /\ AliasFaithful'
    <2> HIDE DEF news
    <2> DEFINE s == heard[c]
               t == Append(s, news)
    <2>1. s \in Seq(News) /\ Len(s) \in Nat /\ DOMAIN s = 1 .. Len(s)
      BY <1>3, LenProperties DEF Typed, AliasesOK
    <2>2. t \in Seq(News) /\ DOMAIN t = 1 .. Len(s) + 1 /\ t[Len(s) + 1] = news /\ \A i \in 1 .. Len(s) : t[i] = s[i]
      <3>1. t \in Seq(News) /\ Len(t) = Len(s) + 1 /\ t[Len(s) + 1] = news /\ \A i \in 1 .. Len(s) : t[i] = s[i]
        BY <1>7, <2>1, AppendProperties
      <3> HIDE DEF t
      <3> QED
        BY <3>1, LenProperties
    <2>3. heard' = heard \/ heard' = [heard EXCEPT ![c] = t]
      BY <1>1 DEF news
    <2>4. \A i \in DOMAIN t : t[i].topic \in {t[i].of, Unknown}
      <3>1. \A i \in DOMAIN s : s[i].topic \in {s[i].of, Unknown}
        BY <1>3 DEF AliasInv, AliasFaithful
      <3> HIDE DEF t, s
      <3> QED
        BY <1>7, <2>1, <2>2, <3>1
    <2> HIDE DEF t
    <2>5. CASE heard' = heard
      BY <2>5 DEF AliasInv, AliasFaithful, Typed, AliasesOK
    <2>6. CASE heard' = [heard EXCEPT ![c] = t]
      <3>1. /\ heard' \in [Clients -> Seq(News)] /\ heard'[c] = t
            /\ \A d \in Clients : d # c => heard'[d] = heard[d]
        BY <1>3, <2>2, <2>6 DEF Typed, AliasesOK
      <3>2. \A d \in Clients : d # c => \A i \in DOMAIN heard[d] : heard[d][i].topic \in {heard[d][i].of, Unknown}
        BY DEF AliasInv, AliasFaithful
      <3>3. AliasFaithful'
        BY <2>4, <3>1, <3>2 DEF AliasFaithful
      <3> QED
        BY <3>1, <3>3
    <2> QED
      BY <2>3, <2>5, <2>6
  <1>10. AliasesOK'
    BY <1>1, <1>8, <1>9 DEF Typed, AliasesOK
  <1>11. Told'
    <2>1. \A x \in Goroutines : job'[x].op = "send" /\ job'[x].stage = "queue" => job'[x] = job[x]
      BY <1>4 DEF QueuesKept
    <2> QED
      BY <1>1, <1>8, <2>1 DEF AliasInv, Told
  <1> QED
    BY <1>1, <1>4, <1>9, <1>10, <1>11 DEF Typed, Done, IndexStep, InboundOK, AliasInv, Named, May

-----------------------------------------------------------------------------
(* The invariants hold.                                                     *)

\* What the index holds stays typed.
LEMMA IndexTyped ==
  ASSUME Typed, IndexStep, scenario' = scenario
  PROVE  IndexOK'
PROOF
  <1>0. \A t : Named(t)' = Named(t)
    BY DEF Named, May
  <1> USE DEF Typed, IndexOK
  <1>1. CASE UNCHANGED index
    BY <1>0, <1>1 DEF index
  <1>2. ASSUME NEW f \in Paths, NEW c \in Clients, NEW sub \in Subscriptions, IndexSubscribe(f, c, sub) PROVE IndexOK'
    BY <1>0, <1>2 DEF IndexSubscribe, With
  <1>3. ASSUME NEW f \in Paths, NEW c \in Clients, IndexUnsubscribe(f, c) PROVE IndexOK'
    BY <1>0, <1>3 DEF IndexUnsubscribe, Without
  <1>4. ASSUME NEW f \in Paths, NEW id \in InlineIds, InlineSubscribe(f, id) \/ InlineUnsubscribe(f, id) PROVE IndexOK'
    BY <1>0, <1>4 DEF InlineSubscribe, InlineUnsubscribe
  <1>5. ASSUME NEW t \in Paths, NEW pk \in Packets, Named(t), RetainMessage(t, pk) PROVE IndexOK'
    <2>1. CASE Retain(t, pk)
      BY <1>0, <1>5, <2>1 DEF Retain, With
    <2>2. CASE Clear(t)
      BY <1>0, <2>2 DEF Clear, Without
    <2> QED
      BY <1>5, <2>1, <2>2 DEF RetainMessage
  <1>6. ASSUME NEW t, DropRetained(t) PROVE IndexOK'
    BY <1>0, <1>6 DEF DropRetained, Without
  <1> QED
    BY <1>1, <1>2, <1>3, <1>4, <1>5, <1>6 DEF IndexStep, Retaining

\* The invariants hold initially.
LEMMA InitTyped == Init => Typed /\ AliasInv
PROOF
  <1> SUFFICES ASSUME Init PROVE Typed /\ AliasInv
    OBVIOUS
  <1>1. IndexOK
    BY DEF Init, IndexInit, IndexOK
  <1>2. JobsOK
    BY DEF Init, JobsOK, JobOK
  <1>3. InboundOK
    BY DEF Init, InboundOK, Named, May
  <1>4. AliasesOK
    BY DEF Init, AliasesOK
  <1>5. scenario \in Scenarios /\ published \in Nat /\ subscribed \in [Clients -> SUBSET Paths]
    BY DEF Init
  <1>6. Told /\ AliasFaithful
    BY DEF Init, Told, AliasFaithful, Idle
  <1> QED
    BY <1>1, <1>2, <1>3, <1>4, <1>5, <1>6 DEF Typed, AliasInv

\* A step that leaves the aliases alone keeps what is told of them.
LEMMA AliasesRest ==
  ASSUME Typed, AliasInv, AliasQuiet
  PROVE  AliasesOK' /\ AliasInv'
PROOF
  <1>1. AliasesOK' /\ AliasFaithful'
    BY DEF AliasQuiet, Typed, AliasesOK, AliasInv, AliasFaithful
  <1>2. Told'
    BY DEF AliasQuiet, QueuesKept, AliasInv, Told
  <1> QED
    BY <1>1, <1>2 DEF AliasInv

\* What every step does.
LEMMA NextDone ==
  ASSUME Typed, AliasInv, Next
  PROVE  Done /\ AliasesOK' /\ AliasInv'
PROOF
  <1>1. scenario.filters \subseteq Paths
    BY ScenarioPaths DEF Typed
  <1>2. ASSUME NEW c \in Clients, NEW f \in Paths, (\E sub \in Subscriptions : Subscribe(c, f, sub)) \/ Unsubscribe(c, f)
        PROVE  Done /\ AliasQuiet
    BY <1>2, SubscribeDone, UnsubscribeDone
  <1>3. ASSUME NEW c \in Clients, UnsubscribeClient(c) \/ UnsubscribeNext(c) PROVE Done /\ AliasQuiet
    BY <1>3, LeaveDone
  <1>4. ASSUME NEW f \in Paths, NEW id \in InlineIds, SubscribeInline(f, id) \/ UnsubscribeInline(f, id)
        PROVE  Done /\ AliasQuiet
    BY <1>4, InlineDone
  <1>5. ASSUME NEW g \in scenario.publishers, NEW t \in scenario.topics, NEW retain \in BOOLEAN,
               NEW payload \in {Payload, Empty}, NEW alias \in Nat, Publish(g, t, alias, payload, retain),
               alias # 0 => MaxInbound # 0
        PROVE  Done /\ AliasQuiet
    BY <1>5, PublishDone
  <1>6. ASSUME NEW g \in Goroutines,
               RetainPublished(g) \/ StoreGauge(g) \/ ScanStep(g) \/ SelectSubscribers(g) \/ SendRetained(g)
        PROVE  Done /\ AliasQuiet
    BY <1>6, RetainDone, ScanDone, SelectDone
  <1>7. ASSUME NEW g \in Goroutines, TakeAlias(g) \/ Queue(g) PROVE Done /\ AliasesOK' /\ AliasInv'
    BY <1>7, TakeAliasDone, QueueDone
  <1>8. ASSUME ClearExpired \/ ClearNext PROVE Done /\ AliasQuiet
    BY <1>8, ExpireDone
  <1>9. CASE \E g \in scenario.publishers, t \in scenario.topics, retain \in BOOLEAN :
               \E payload \in {Payload} \cup (IF retain THEN {Empty} ELSE {}) :
               \E alias \in IF May("inbound") /\ g \in Publishers THEN 0..MaxInbound ELSE {0} :
                  Publish(g, t, alias, payload, retain)
    <2>1. PICK g \in scenario.publishers, t \in scenario.topics, retain \in BOOLEAN :
               \E payload \in {Payload} \cup (IF retain THEN {Empty} ELSE {}) :
               \E alias \in IF May("inbound") /\ g \in Publishers THEN 0..MaxInbound ELSE {0} :
                  Publish(g, t, alias, payload, retain)
      BY <1>9
    <2>2. PICK payload \in {Payload, Empty} :
               \E alias \in IF May("inbound") /\ g \in Publishers THEN 0..MaxInbound ELSE {0} :
                  Publish(g, t, alias, payload, retain)
      BY <2>1
    <2>3. PICK alias \in IF May("inbound") /\ g \in Publishers THEN 0..MaxInbound ELSE {0} :
                  Publish(g, t, alias, payload, retain)
      BY <2>2
    <2>4. alias \in Nat /\ (alias # 0 => MaxInbound # 0)
      <3>1. MaxInbound \in Nat
        BY Parameters
      <3> QED
        BY <3>1
    <2>5. Done /\ AliasQuiet
      BY <1>5, <2>1, <2>2, <2>3, <2>4
    <2> QED
      BY <2>5, AliasesRest
  <1>10. (Done /\ AliasQuiet) \/ (Done /\ AliasesOK' /\ AliasInv')
    <2>1. CASE \/ \E c \in Clients \cap scenario.subscribers, f \in scenario.filters :
                    \E sub \in Subscriptions : Subscribe(c, f, sub)
               \/ \E c \in Clients \cap scenario.subscribers, f \in scenario.filters : Unsubscribe(c, f)
      BY <1>1, <1>2, <2>1
    <2>2. CASE \/ \E c \in Clients \cap scenario.subscribers : UnsubscribeClient(c)
               \/ \E c \in Clients : UnsubscribeNext(c)
      BY <1>3, <2>2
    <2>3. CASE \/ \E f \in scenario.filters, id \in InlineIds : SubscribeInline(f, id)
               \/ \E f \in scenario.filters, id \in InlineIds : UnsubscribeInline(f, id)
      BY <1>1, <1>4, <2>3
    <2> QED
      BY <1>6, <1>7, <1>8, <1>9, <1>5, <2>1, <2>2, <2>3 DEF Next
  <1> QED
    BY <1>10, AliasesRest

\* Every step keeps the invariants, those that change nothing included.
LEMMA StepTyped ==
  ASSUME Typed, AliasInv, [Next]_vars
  PROVE  Typed' /\ AliasInv'
PROOF
  <1>1. CASE Next
    <2>1. Done /\ AliasesOK' /\ AliasInv'
      BY <1>1, NextDone
    <2>2. IndexOK'
      BY <2>1, IndexTyped DEF Done
    <2> QED
      BY <2>1, <2>2 DEF Done, Typed
  <1>2. CASE UNCHANGED vars
    <2>1. UNCHANGED <<index, scenario, job, subscribed, inbound, outbound, heard, learned, published>>
      BY <1>2 DEF vars, state
    <2>2. IndexOK'
      BY <2>1, IndexTyped DEF IndexStep
    <2>3. JobsOK'
      BY <2>1 DEF Typed, JobsOK, JobOK, Scanning, Retaining, Sending, Named, May
    <2>4. InboundOK' /\ AliasesOK' /\ AliasInv'
      BY <2>1 DEF Typed, InboundOK, AliasesOK, AliasInv, Told, AliasFaithful, Named, May
    <2> QED
      BY <2>1, <2>2, <2>3, <2>4 DEF Typed
  <1> QED
    BY <1>1, <1>2

\* However deliveries of several goroutines to a client interleave, an alias
\* stands for the topic it was given for, whichever of them names it first (OutboundTopicAliases.Set,
\* publishToClient).
THEOREM AliasesAreFaithful == Spec => []AliasFaithful
PROOF
  <1>1. Typed /\ AliasInv /\ [Next]_vars => (Typed /\ AliasInv)'
    BY StepTyped
  <1>2. AliasInv => AliasFaithful
    BY DEF AliasInv
  <1> QED
    BY <1>1, <1>2, InitTyped, PTL DEF Spec

-----------------------------------------------------------------------------
(* The tree.                                                                *)

\* What the content is of: filters, inline filters and topics.
LEMMA ContentOf ==
  ASSUME NEW s, NEW i, NEW r
  PROVE  \A x : x \in Content(s, i, r) <=>
           (\E e \in DOMAIN s : x = PathOf(e[1])) \/ (\E e \in i : x = e[1]) \/ x \in r
BY DEF Content

\* The content, as the index is.
Contents == Content(subs, inline, retainPath)

\* The tree as WellFormed has it, where every topic is named.
WellGrown == particles = Tree(Contents) /\ DOMAIN retained \subseteq retainPath

\* Where every topic is named, the tree holds what leads to its content.
LEMMA GrownIsFormed ==
  ASSUME IndexOK, ~May("unset")
  PROVE  Contents \in SUBSET Paths /\ (WellFormed <=> WellGrown)
PROOF
  <1>1. DOMAIN retained \cap {NoTopic} = {} /\ DOMAIN retained \ {NoTopic} = DOMAIN retained
    BY DEF IndexOK, Named
  <1>2. Contents \in SUBSET Paths
    BY ContentOf, PathOfIsPath DEF IndexOK, Contents
  <1> QED
    BY <1>1, <1>2 DEF WellFormed, WellGrown, Tree, Contents

\* Particles down to p grow the tree by p.
LEMMA SetGrows ==
  ASSUME NEW K, NEW p, particles = Tree(K)
  PROVE  Set(p) = Tree(K \cup {p})
BY DEF Set, Tree

\* A path leads to itself.
LEMMA Leaf ==
  ASSUME NEW K \in SUBSET Paths, NEW p \in K
  PROVE  p \in Tree(K)
BY InTree DEF Leads

\* A change that takes something out of p, whose particle it trims where there is one.
LEMMA TrimGrown ==
  ASSUME NEW p \in Paths, NEW K \in SUBSET Paths, NEW H \in SUBSET Paths, H \subseteq K, K \subseteq H \cup {p},
         particles = Tree(K), particles' = IF p \in particles THEN Trim(p, particles, H) ELSE particles
  PROVE  particles' = Tree(H)
PROOF
  <1>1. CASE p \in particles
    BY <1>1, TrimIsTree
  <1>2. CASE p \notin particles
    <2>1. p \notin K
      BY <1>2, Leaf
    <2>2. K = H
      BY <2>1
    <2> QED
      BY <1>2, <2>2
  <1> QED
    BY <1>1, <1>2

\* Each change of the index keeps the tree.
LEMMA TreeGrown ==
  ASSUME Typed, ~May("unset"), IndexStep, IndexOK', scenario' = scenario, WellGrown
  PROVE  WellGrown'
PROOF
  <1> USE DEF WellGrown
  <1>0. /\ Contents \in SUBSET Paths /\ Contents' \in SUBSET Paths
        /\ \A x : x \in Contents <=>
             (\E e \in DOMAIN subs : x = PathOf(e[1])) \/ (\E e \in inline : x = e[1]) \/ x \in retainPath
        /\ \A x : x \in Contents' <=>
             (\E e \in DOMAIN subs' : x = PathOf(e[1])) \/ (\E e \in inline' : x = e[1]) \/ x \in retainPath'
    <2>1. (~May("unset"))'
      BY DEF May
    <2>2. Contents' \in SUBSET Paths
      <3>1. (IndexOK /\ ~May("unset") => Contents \in SUBSET Paths)'
        BY GrownIsFormed, PTL
      <3> QED
        BY <2>1, <3>1
    <2>3. Contents \in SUBSET Paths
      BY GrownIsFormed DEF Typed
    <2> QED
      BY <2>2, <2>3, ContentOf DEF Contents
  <1>1. CASE UNCHANGED index
    BY <1>1 DEF index, Contents
  <1>2. ASSUME NEW f \in Paths, NEW c \in Clients, NEW sub, IndexSubscribe(f, c, sub) PROVE WellGrown'
    <2>1. particles' = Set(PathOf(f)) /\ DOMAIN subs' = DOMAIN subs \cup {<<f, c>>} /\ UNCHANGED <<inline, retainPath, retained>>
      BY <1>2 DEF IndexSubscribe, With
    <2>2. \A x : x \in Contents' <=> x \in Contents \/ x = PathOf(f)
      <3>1. /\ \A e \in DOMAIN subs' : e \in DOMAIN subs \/ e[1] = f
            /\ \A e \in DOMAIN subs : e \in DOMAIN subs'
            /\ \E e \in DOMAIN subs' : e[1] = f
        <4> DEFINE n == <<f, c>>
        <4>1. n[1] = f
          OBVIOUS
        <4> HIDE DEF n
        <4>2. DOMAIN subs' = DOMAIN subs \cup {n}
          BY <2>1 DEF n
        <4> QED
          BY <4>1, <4>2
      <3>2. retainPath' = retainPath /\ inline' = inline
        BY <2>1
      <3>3. ASSUME NEW x, x \in Contents' PROVE x \in Contents \/ x = PathOf(f)
        BY <1>0, <3>1, <3>2, <3>3
      <3>4. ASSUME NEW x, x \in Contents PROVE x \in Contents'
        BY <1>0, <3>1, <3>2, <3>4
      <3>5. PathOf(f) \in Contents'
        BY <1>0, <3>1
      <3> QED
        BY <3>3, <3>4, <3>5
    <2>3. Contents' = Contents \cup {PathOf(f)}
      BY <2>2
    <2> QED
      BY <2>1, <2>2, <2>3, SetGrows
  <1>3. ASSUME NEW f \in Paths, NEW c \in Clients, IndexUnsubscribe(f, c) PROVE WellGrown'
    <2>1. /\ particles' = IF PathOf(f) \in particles THEN Trim(PathOf(f), particles, Contents') ELSE particles
          /\ DOMAIN subs' = DOMAIN subs \ {<<f, c>>} /\ UNCHANGED <<inline, retainPath, retained>>
      BY <1>3 DEF IndexUnsubscribe, Without, Existed, Contents
    <2>2. Contents' \subseteq Contents /\ Contents \subseteq Contents' \cup {PathOf(f)}
      BY <1>0, <2>1
    <2>3. PathOf(f) \in Paths
      BY PathOfIsPath
    <2> QED
      BY <1>0, <2>1, <2>2, <2>3, TrimGrown
  <1>4. ASSUME NEW f \in Paths, NEW id \in InlineIds, InlineSubscribe(f, id) PROVE WellGrown'
    <2>1. particles' = Set(f) /\ inline' = inline \cup {<<f, id>>} /\ UNCHANGED <<subs, retainPath, retained>>
      BY <1>4 DEF InlineSubscribe
    <2>2. \A x : x \in Contents' <=> x \in Contents \/ x = f
      <3>1. /\ \A e \in inline' : e \in inline \/ e[1] = f
            /\ \A e \in inline : e \in inline'
            /\ \E e \in inline' : e[1] = f
        <4> DEFINE n == <<f, id>>
        <4>1. n[1] = f
          OBVIOUS
        <4> HIDE DEF n
        <4>2. inline' = inline \cup {n}
          BY <2>1 DEF n
        <4> QED
          BY <4>1, <4>2
      <3>2. retainPath' = retainPath /\ DOMAIN subs' = DOMAIN subs
        BY <2>1
      <3>3. ASSUME NEW x, x \in Contents' PROVE x \in Contents \/ x = f
        BY <1>0, <3>1, <3>2, <3>3
      <3>4. ASSUME NEW x, x \in Contents PROVE x \in Contents'
        BY <1>0, <3>1, <3>2, <3>4
      <3>5. f \in Contents'
        BY <1>0, <3>1
      <3> QED
        BY <3>3, <3>4, <3>5
    <2>3. Contents' = Contents \cup {f}
      BY <2>2
    <2> QED
      BY <2>1, <2>2, <2>3, SetGrows
  <1>5. ASSUME NEW f \in Paths, NEW id \in InlineIds, InlineUnsubscribe(f, id) PROVE WellGrown'
    <2>1. /\ particles' = IF f \in particles THEN Trim(f, particles, Contents') ELSE particles
          /\ inline' = inline \ {<<f, id>>} /\ UNCHANGED <<subs, retainPath, retained>>
      BY <1>5 DEF InlineUnsubscribe, Contents
    <2>2. Contents' \subseteq Contents /\ Contents \subseteq Contents' \cup {f}
      BY <1>0, <2>1
    <2> QED
      BY <1>0, <2>1, <2>2, TrimGrown
  <1>6. ASSUME NEW t \in Paths, NEW pk, t # NoTopic, Retain(t, pk) PROVE WellGrown'
    <2>1. /\ particles' = Set(t) /\ retainPath' = retainPath \cup {t} /\ DOMAIN retained' = DOMAIN retained \cup {t}
          /\ UNCHANGED <<subs, inline>>
      BY <1>6 DEF Retain, With
    <2>2. Contents' = Contents \cup {t}
      BY <1>0, <2>1
    <2> QED
      BY <2>1, <2>2, SetGrows
  <1>7. ASSUME NEW t \in Paths, Clear(t) PROVE WellGrown'
    <2>1. /\ particles' = Trim(t, Set(t), Contents') /\ retainPath' = retainPath \ {t}
          /\ DOMAIN retained' = DOMAIN retained \ {t} /\ UNCHANGED <<subs, inline>>
      BY <1>7 DEF Clear, Without, Contents
    <2>2. Contents' \subseteq Contents \cup {t} /\ Contents \cup {t} \subseteq Contents' \cup {t}
      BY <1>0, <2>1
    <2>3. Set(t) = Tree(Contents \cup {t})
      BY SetGrows
    <2>4. Contents \cup {t} \in SUBSET Paths
      BY <1>0
    <2>5. particles' = Tree(Contents')
      BY <1>0, <2>1, <2>2, <2>3, <2>4, TrimIsTree
    <2> QED
      BY <2>1, <2>5
  <1>8. ASSUME NEW t, DropRetained(t) PROVE WellGrown'
    BY <1>8 DEF DropRetained, Without, Contents
  <1>9. ASSUME NEW g \in Goroutines, Retaining(job[g]), RetainMessage(job[g].of, job[g].pk) PROVE WellGrown'
    <2>1. job[g].of \in Paths /\ job[g].of # NoTopic
      BY <1>9 DEF Retaining, Named
    <2> QED
      BY <1>6, <1>7, <1>9, <2>1 DEF RetainMessage
  <1> QED
    BY <1>1, <1>2, <1>3, <1>4, <1>5, <1>8, <1>9 DEF IndexStep

\* The invariant of the tree: it speaks of the behaviours in which no alias that was not set
\* stands for the empty topic, whose particle no retained path holds.
TreeInv == ~May("unset") => TreeWellFormed

\* The tree starts empty, and a step changes it as its index step does.
LEMMA TreeKept ==
  /\ Init => TreeInv
  /\ Typed /\ AliasInv /\ TreeInv /\ [Next]_vars => TreeInv'
PROOF
  <1>1. ASSUME Init PROVE TreeInv
    <2>1. Content(subs, inline, retainPath) = {}
      BY <1>1, ContentOf DEF Init, IndexInit
    <2> QED
      BY <1>1, <2>1 DEF Init, IndexInit, TreeInv, TreeWellFormed, WellFormed
  <1>2. ASSUME Typed, AliasInv, TreeInv, [Next]_vars PROVE TreeInv'
    <2>1. Typed'
      BY <1>2, StepTyped
    <2>2. IndexStep /\ scenario' = scenario
      <3>1. CASE Next
        BY <1>2, <3>1, NextDone DEF Done
      <3>2. CASE UNCHANGED vars
        BY <3>2 DEF vars, state, IndexStep
      <3> QED
        BY <1>2, <3>1, <3>2
    <2> SUFFICES ASSUME (~May("unset"))' PROVE WellFormed'
      BY DEF TreeInv, TreeWellFormed
    <2>3. ~May("unset")
      BY <2>2 DEF May
    <2>4. WellGrown
      BY <1>2, <2>3, GrownIsFormed DEF TreeInv, TreeWellFormed, Typed
    <2>5. IndexOK'
      BY <2>1 DEF Typed
    <2>6. WellGrown'
      BY <1>2, <2>2, <2>3, <2>4, <2>5, TreeGrown
    <2>7. (IndexOK /\ ~May("unset") => (WellFormed <=> WellGrown))'
      BY GrownIsFormed, PTL
    <2> QED
      BY <2>5, <2>6, <2>7
  <1> QED
    BY <1>1, <1>2

\* Whatever goroutines subscribe, unsubscribe, retain, clear and expire, in whatever order, the tree
\* holds between its changes the particles its content needs and no others, and the message of
\* every topic that is retained is reached from its particle (set, trim, RetainMessage).
THEOREM TreeIsWellFormed == Spec => [](~May("unset") => TreeWellFormed)
PROOF
  <1>1. Typed /\ AliasInv /\ TreeInv /\ [Next]_vars => (Typed /\ AliasInv /\ TreeInv)'
    BY StepTyped, TreeKept
  <1>2. Init => Typed /\ AliasInv /\ TreeInv
    BY InitTyped, TreeKept
  <1>3. TreeInv => (~May("unset") => TreeWellFormed)
    BY DEF TreeInv
  <1> QED
    BY <1>1, <1>2, <1>3, PTL DEF Spec
=============================================================================
