--------------------------- MODULE QosRing_proofs ---------------------------
(***************************************************************************)
(* What the broker acknowledges it has routed, and a client that keeps to  *)
(* its Receive Maximum never meets an exhausted receive quota.             *)
(*                                                                         *)
(* Both rest on the ring of an exchange: for one packet id of the client,  *)
(* what the client waits for, what of it is on the wire upwards, whether   *)
(* the map records a PUBREC, and what is on the wire downwards.  Ring is   *)
(* stated of these four alone, so that each kind of step is a lemma about  *)
(* sequences.  It holds although the broker answers repeated publishes     *)
(* with refusals, resends PUBRECs, and may leave PUBRELs and PUBCOMPs of   *)
(* an exchange that is over on the wires.                                  *)
(***************************************************************************)
EXTENDS QosOnce_proofs

-----------------------------------------------------------------------------
(* The ring of id i: c is the client's end, u the wire upwards, e the type  *)
(* of the entry, d the wire downwards.                                      *)

\* An answer to a publish, and the one that has the client release it.
Answers(pk, i) == pk.id = i /\ pk.t \in {"puback", "pubrec"}
Accepts(pk, i) == Is(pk, "pubrec", i) /\ ~pk.err

\* The publish on the wire is the one the client has under way; a release refuses nothing.
RingOfOne(i, c, u, e) ==
  /\ e \in {"none", "pubrec"}
  /\ \A k \in DOMAIN u : Is(u[k], "publish", i) => c.s # "free" /\ u[k].m = c.m /\ u[k].q = c.q
  /\ \A k, l \in DOMAIN u : Is(u[k], "publish", i) /\ Is(u[l], "publish", i) => k = l
  /\ \A k \in DOMAIN u : Is(u[k], "pubrel", i) => ~u[k].err

\* Nothing is left that could answer, or be answered for, the next publish.
RingFree(i, c, u, e, d) == c.s = "free" =>
  /\ \A k \in DOMAIN u : ~Is(u[k], "publish", i)
  /\ \A k \in DOMAIN d : ~Answers(d[k], i)
  /\ e # "pubrec"

\* Waiting for the first answer: one that ends the exchange either comes after one that
\* accepts, or is the last thing there is of the exchange.
RingPub(i, c, u, e, d) == c.s = "pub" =>
  /\ \A k, l \in DOMAIN u : Is(u[k], "publish", i) /\ Is(u[l], "pubrel", i) => l < k
  /\ e = "pubrec" => c.q = 2 /\ \A k \in DOMAIN u : ~Is(u[k], "pubrel", i)
  /\ \A l \in DOMAIN d : Accepts(d[l], i) =>
       /\ c.q = 2 /\ \A k \in DOMAIN u : ~Is(u[k], "pubrel", i)
       /\ \A k \in DOMAIN d : Is(d[k], "pubcomp", i) => k < l
  /\ \A k \in DOMAIN d : Answers(d[k], i) /\ ~Accepts(d[k], i) =>
       \/ \E l \in DOMAIN d : Accepts(d[l], i) /\ l < k
       \/ /\ e # "pubrec" /\ \A j \in DOMAIN u : ~Is(u[j], "publish", i)
          /\ \A l \in DOMAIN d : Answers(d[l], i) => l = k
  /\ e = "pubrec" /\ (\E k \in DOMAIN u : Is(u[k], "publish", i)) =>
       \E l \in DOMAIN d : Accepts(d[l], i)

\* Waiting for the last answer: repeated publishes come before every release, and a PUBCOMP
\* has nothing behind it.
RingRel(i, c, u, e, d) == c.s = "rel" =>
  /\ c.q = 2
  /\ \A k, l \in DOMAIN u : Is(u[k], "publish", i) /\ Is(u[l], "pubrel", i) => k < l
  /\ \A k \in DOMAIN d : Is(d[k], "pubcomp", i) =>
       /\ e # "pubrec" /\ \A l \in DOMAIN d : Answers(d[l], i) => l < k
       /\ \A j \in DOMAIN u : ~Is(u[j], "publish", i)

Ring(i, c, u, e, d) ==
  RingOfOne(i, c, u, e) /\ RingFree(i, c, u, e, d) /\ RingPub(i, c, u, e, d) /\ RingRel(i, c, u, e, d)

-----------------------------------------------------------------------------
(* What steps do to a wire, by its positions.                               *)

Line(s) == \A k \in DOMAIN s : k \in Nat /\ k >= 1

\* All packets but the first, when it is not one of id i: those of i keep their order.
Kept(s, t, i) ==
  \E z \in 0 .. 1 :
    /\ \A k \in DOMAIN t : k \in Nat /\ (t[k].id = i => k + z \in DOMAIN s /\ t[k] = s[k + z])
    /\ \A k \in DOMAIN s : k \in Nat /\ (s[k].id = i => k - z \in DOMAIN t /\ t[k - z] = s[k])

\* The first is taken; one is added.
Takes(s, t) ==
  /\ Line(s) /\ 1 \in DOMAIN s
  /\ \A k \in DOMAIN t : k \in Nat /\ k >= 1 /\ k + 1 \in DOMAIN s /\ t[k] = s[k + 1]
  /\ \A k \in DOMAIN s : k > 1 => k - 1 \in DOMAIN t /\ t[k - 1] = s[k]
Adds(s, t, pk) ==
  \E n \in Nat :
    /\ \A k \in DOMAIN s : k \in Nat /\ k >= 1 /\ k < n /\ k \in DOMAIN t /\ t[k] = s[k]
    /\ n \in DOMAIN t /\ t[n] = pk /\ n >= 1
    /\ \A k \in DOMAIN t : k = n \/ k \in DOMAIN s
Cleared(t, i) == \A k \in DOMAIN t : t[k].id # i

\* Tail, Append and none are such.
LEMMA TailTakes ==
  ASSUME NEW s \in Seq(Packet), s # <<>>
  PROVE  Takes(s, Tail(s)) /\ s[1] = Head(s)
PROOF
  <1> DEFINE t == Tail(s)
  <1>1. /\ t \in Seq(Packet) /\ Len(t) = Len(s) - 1 /\ \A k \in 1 .. Len(t) : t[k] = s[k + 1]
    BY HeadTailProperties
  <1>2. Len(s) \in Nat /\ DOMAIN s = 1 .. Len(s) /\ Len(t) \in Nat /\ DOMAIN t = 1 .. Len(t)
    BY <1>1, LenProperties
  <1>3. 1 \in DOMAIN s /\ s[1] = Head(s) /\ \A k \in DOMAIN s : k \in Nat /\ k >= 1
    BY HeadAt
  <1> HIDE DEF t, Packet
  <1>4. \A k \in DOMAIN t : k \in Nat /\ k >= 1 /\ k + 1 \in DOMAIN s /\ t[k] = s[k + 1]
    BY <1>1, <1>2
  <1>5. ASSUME NEW k \in DOMAIN s, k > 1 PROVE k - 1 \in DOMAIN t /\ t[k - 1] = s[k]
    <2>1. k - 1 \in 1 .. Len(t) /\ (k - 1) + 1 = k
      BY <1>1, <1>2, <1>5
    <2> QED
      BY <1>1, <1>2, <2>1
  <1> QED
    BY <1>3, <1>4, <1>5 DEF Takes, Line, t

\* Appending adds.
LEMMA AppendAdds ==
  ASSUME NEW s \in Seq(Packet), NEW pk \in Packet
  PROVE  Adds(s, Append(s, pk), pk)
PROOF
  <1> DEFINE t == Append(s, pk)
             n == Len(s) + 1
  <1>1. /\ t \in Seq(Packet) /\ Len(t) = Len(s) + 1
        /\ \A k \in 1 .. Len(s) : t[k] = s[k]
        /\ t[Len(s) + 1] = pk
    BY AppendProperties
  <1>2. Len(s) \in Nat /\ DOMAIN s = 1 .. Len(s) /\ DOMAIN t = 1 .. Len(t)
    BY <1>1, LenProperties
  <1> HIDE DEF t, Packet
  <1>3. n \in Nat /\ n >= 1 /\ n \in DOMAIN t /\ t[n] = pk
    BY <1>1, <1>2
  <1>4. \A k \in DOMAIN s : k \in Nat /\ k >= 1 /\ k < n /\ k \in DOMAIN t /\ t[k] = s[k]
    BY <1>1, <1>2
  <1>5. \A k \in DOMAIN t : k = n \/ k \in DOMAIN s
    BY <1>1, <1>2
  <1> HIDE DEF n
  <1> QED
    BY <1>3, <1>4, <1>5 DEF Adds, t

\* Positions are natural numbers.
LEMMA SeqLine == ASSUME NEW s \in Seq(Packet) PROVE Line(s)
BY LenProperties DEF Line

\* What is left as it is, or gains or loses a packet of another id, is kept.
LEMMA SameKept == ASSUME NEW s, Line(s), NEW i PROVE Kept(s, s, i)
PROOF
  <1>1. \A k \in DOMAIN s : k \in Nat /\ k + 0 = k /\ k - 0 = k
    BY DEF Line
  <1> QED
    BY <1>1 DEF Kept

\* A packet of another id is taken.
LEMMA TakesKept == ASSUME NEW s, NEW t, Takes(s, t), NEW i, s[1].id # i PROVE Kept(s, t, i)
PROOF
  <1>1. \A k \in DOMAIN t : k \in Nat /\ (t[k].id = i => k + 1 \in DOMAIN s /\ t[k] = s[k + 1])
    BY DEF Takes
  <1>2. \A k \in DOMAIN s : k \in Nat /\ (s[k].id = i => k - 1 \in DOMAIN t /\ t[k - 1] = s[k])
    BY DEF Takes, Line
  <1> QED
    BY <1>1, <1>2 DEF Kept

\* A packet of another id is added.
LEMMA AddsKept == ASSUME NEW s, NEW t, NEW pk, Adds(s, t, pk), NEW i, pk.id # i PROVE Kept(s, t, i)
PROOF
  <1>1. PICK n \in Nat :
          /\ \A k \in DOMAIN s : k \in Nat /\ k >= 1 /\ k < n /\ k \in DOMAIN t /\ t[k] = s[k]
          /\ n \in DOMAIN t /\ t[n] = pk /\ n >= 1
          /\ \A k \in DOMAIN t : k = n \/ k \in DOMAIN s
    BY DEF Adds
  <1>2. \A k \in DOMAIN s : k + 0 = k /\ k - 0 = k
    BY <1>1
  <1>3. \A k \in DOMAIN t : k \in Nat /\ (t[k].id = i => k + 0 \in DOMAIN s /\ t[k] = s[k + 0])
    BY <1>1, <1>2
  <1>4. \A k \in DOMAIN s : k \in Nat /\ (s[k].id = i => k - 0 \in DOMAIN t /\ t[k - 0] = s[k])
    BY <1>1, <1>2
  <1> QED
    BY <1>3, <1>4 DEF Kept

\* Nothing of the id was there, and nothing is.
LEMMA ClearedKept == ASSUME NEW s, NEW t, NEW i, Line(s), Line(t), Cleared(s, i), Cleared(t, i) PROVE Kept(s, t, i)
BY DEF Cleared, Kept, Line

-----------------------------------------------------------------------------
(* The ring under each kind of step.                                        *)

\* A step that concerns another id, or expires the entry.
LEMMA RingKept ==
  ASSUME NEW i, NEW c, NEW u, NEW e, NEW d, Ring(i, c, u, e, d),
         NEW v, NEW f \in {"none", "pubrec"}, NEW w,
         Kept(u, v, i), Kept(d, w, i), f = "pubrec" => e = "pubrec"
  PROVE  Ring(i, c, v, f, w)
PROOF
  <1>1. PICK x \in 0 .. 1 :
          /\ \A k \in DOMAIN v : k \in Nat /\ (v[k].id = i => k + x \in DOMAIN u /\ v[k] = u[k + x])
          /\ \A k \in DOMAIN u : k \in Nat /\ (u[k].id = i => k - x \in DOMAIN v /\ v[k - x] = u[k])
    BY DEF Kept
  <1>2. PICK y \in 0 .. 1 :
          /\ \A k \in DOMAIN w : k \in Nat /\ (w[k].id = i => k + y \in DOMAIN d /\ w[k] = d[k + y])
          /\ \A k \in DOMAIN d : k \in Nat /\ (d[k].id = i => k - y \in DOMAIN w /\ w[k - y] = d[k])
    BY DEF Kept
  <1> USE DEF Is, Answers, Accepts
  <1>3. RingOfOne(i, c, v, f)
    <2>1. \A k, l \in DOMAIN v : Is(v[k], "publish", i) /\ Is(v[l], "publish", i) => k = l
      <3>1. SUFFICES ASSUME NEW k \in DOMAIN v, NEW l \in DOMAIN v, Is(v[k], "publish", i), Is(v[l], "publish", i)
                     PROVE  k = l
        OBVIOUS
      <3>2. k + x = l + x
        BY <1>1, <3>1 DEF Ring, RingOfOne
      <3> QED
        BY <1>1, <3>2
    <2> QED
      BY <1>1, <2>1 DEF Ring, RingOfOne
  <1>4. RingFree(i, c, v, f, w)
    BY <1>1, <1>2 DEF Ring, RingFree
  <1>5. RingPub(i, c, v, f, w)
    <2>1. SUFFICES ASSUME c.s = "pub" PROVE RingPub(i, c, v, f, w)
      BY DEF RingPub
    <2>2. \A k, l \in DOMAIN v : Is(v[k], "publish", i) /\ Is(v[l], "pubrel", i) => l < k
      <3>1. SUFFICES ASSUME NEW k \in DOMAIN v, NEW l \in DOMAIN v, Is(v[k], "publish", i), Is(v[l], "pubrel", i)
                     PROVE  l < k
        OBVIOUS
      <3>2. l + x < k + x
        BY <1>1, <2>1, <3>1 DEF Ring, RingPub
      <3> QED
        BY <1>1, <3>2
    <2>3. f = "pubrec" => c.q = 2 /\ \A k \in DOMAIN v : ~Is(v[k], "pubrel", i)
      BY <1>1, <2>1 DEF Ring, RingPub
    <2>4. ASSUME NEW l \in DOMAIN w, Accepts(w[l], i)
          PROVE  /\ c.q = 2 /\ \A k \in DOMAIN v : ~Is(v[k], "pubrel", i)
                 /\ \A k \in DOMAIN w : Is(w[k], "pubcomp", i) => k < l
      <3>1. l + y \in DOMAIN d /\ Accepts(d[l + y], i) /\ l \in Nat
        BY <1>2, <2>4
      <3>2. c.q = 2 /\ \A k \in DOMAIN v : ~Is(v[k], "pubrel", i)
        BY <1>1, <2>1, <3>1 DEF Ring, RingPub
      <3>3. ASSUME NEW k \in DOMAIN w, Is(w[k], "pubcomp", i) PROVE k < l
        <4>1. k + y < l + y
          BY <1>2, <2>1, <3>1, <3>3 DEF Ring, RingPub
        <4> QED
          BY <1>2, <3>1, <4>1
      <3> QED
        BY <3>2, <3>3
    <2>5. ASSUME NEW k \in DOMAIN w, Answers(w[k], i), ~Accepts(w[k], i)
          PROVE  \/ \E l \in DOMAIN w : Accepts(w[l], i) /\ l < k
                 \/ /\ f # "pubrec" /\ \A j \in DOMAIN v : ~Is(v[j], "publish", i)
                    /\ \A l \in DOMAIN w : Answers(w[l], i) => l = k
      <3>1. k + y \in DOMAIN d /\ Answers(d[k + y], i) /\ ~Accepts(d[k + y], i) /\ k \in Nat
        BY <1>2, <2>5
      <3>2. CASE \E l \in DOMAIN d : Accepts(d[l], i) /\ l < k + y
        <4>1. PICK l \in DOMAIN d : Accepts(d[l], i) /\ l < k + y
          BY <3>2
        <4>2. l \in Nat /\ l - y \in DOMAIN w /\ Accepts(w[l - y], i) /\ l - y < k
          BY <1>2, <3>1, <4>1
        <4> QED
          BY <4>2
      <3>3. CASE /\ e # "pubrec" /\ \A j \in DOMAIN u : ~Is(u[j], "publish", i)
                 /\ \A l \in DOMAIN d : Answers(d[l], i) => l = k + y
        <4>1. ASSUME NEW l \in DOMAIN w, Answers(w[l], i) PROVE l = k
          <5>1. l + y = k + y
            BY <1>2, <3>3, <4>1
          <5> QED
            BY <1>2, <3>1, <5>1
        <4> QED
          BY <1>1, <3>3, <4>1
      <3> QED
        BY <2>1, <3>1, <3>2, <3>3 DEF Ring, RingPub
    <2>6. f = "pubrec" /\ (\E k \in DOMAIN v : Is(v[k], "publish", i)) => \E l \in DOMAIN w : Accepts(w[l], i)
      <3>1. SUFFICES ASSUME f = "pubrec", \E k \in DOMAIN v : Is(v[k], "publish", i)
                     PROVE  \E l \in DOMAIN w : Accepts(w[l], i)
        OBVIOUS
      <3>2. \E k \in DOMAIN u : Is(u[k], "publish", i)
        BY <1>1, <3>1
      <3>3. PICK l \in DOMAIN d : Accepts(d[l], i)
        BY <2>1, <3>1, <3>2 DEF Ring, RingPub
      <3> QED
        BY <1>2, <3>3
    <2> QED
      BY <2>2, <2>3, <2>4, <2>5, <2>6 DEF RingPub
  <1>6. RingRel(i, c, v, f, w)
    <2>1. SUFFICES ASSUME c.s = "rel" PROVE RingRel(i, c, v, f, w)
      BY DEF RingRel
    <2>2. \A k, l \in DOMAIN v : Is(v[k], "publish", i) /\ Is(v[l], "pubrel", i) => k < l
      <3>1. SUFFICES ASSUME NEW k \in DOMAIN v, NEW l \in DOMAIN v, Is(v[k], "publish", i), Is(v[l], "pubrel", i)
                     PROVE  k < l
        OBVIOUS
      <3>2. k + x < l + x
        BY <1>1, <2>1, <3>1 DEF Ring, RingRel
      <3> QED
        BY <1>1, <3>2
    <2>3. ASSUME NEW k \in DOMAIN w, Is(w[k], "pubcomp", i)
          PROVE  /\ f # "pubrec" /\ \A l \in DOMAIN w : Answers(w[l], i) => l < k
                 /\ \A j \in DOMAIN v : ~Is(v[j], "publish", i)
      <3>1. k + y \in DOMAIN d /\ Is(d[k + y], "pubcomp", i) /\ k \in Nat
        BY <1>2, <2>3
      <3>2. /\ e # "pubrec" /\ \A l \in DOMAIN d : Answers(d[l], i) => l < k + y
            /\ \A j \in DOMAIN u : ~Is(u[j], "publish", i)
        BY <2>1, <3>1 DEF Ring, RingRel
      <3>3. ASSUME NEW l \in DOMAIN w, Answers(w[l], i) PROVE l < k
        <4>1. l + y < k + y
          BY <1>2, <3>2, <3>3
        <4> QED
          BY <1>2, <3>1, <4>1
      <3> QED
        BY <1>1, <3>2, <3>3
    <2> QED
      BY <2>1, <2>2, <2>3 DEF Ring, RingRel
  <1> QED
    BY <1>3, <1>4, <1>5, <1>6 DEF Ring

\* A publish is read: whatever is answered refuses it, or accepts it where no PUBREC is
\* recorded and then records one, or ends a QoS 1 exchange.
PublishAnswer(i, c, e, d, f, w) ==
  \/ w = d /\ (f = "pubrec" <=> e = "pubrec")
  \/ \E pk : Adds(d, w, pk) /\ Answers(pk, i) /\ ~Accepts(pk, i) /\ (f = "pubrec" <=> e = "pubrec")
  \/ \E pk : Adds(d, w, pk) /\ Accepts(pk, i) /\ c.q = 2 /\ e # "pubrec" /\ f = "pubrec"

\* Nobody else is read of.
LEMMA RingReadsPublish ==
  ASSUME NEW i, NEW c, NEW u, NEW e, NEW d, Ring(i, c, u, e, d), Line(d),
         NEW v, NEW f \in {"none", "pubrec"}, NEW w,
         Takes(u, v), Is(u[1], "publish", i), PublishAnswer(i, c, e, d, f, w)
  PROVE  Ring(i, c, v, f, w) /\ \A k \in DOMAIN v : ~Is(v[k], "publish", i)
PROOF
  <1>1. /\ 1 \in DOMAIN u /\ \A k \in DOMAIN u : k \in Nat /\ k >= 1
        /\ \A k \in DOMAIN v : k \in Nat /\ k >= 1 /\ k + 1 \in DOMAIN u /\ v[k] = u[k + 1]
    BY DEF Takes, Line
  <1>2. \A k \in DOMAIN v : ~Is(v[k], "publish", i)
    <2>1. SUFFICES ASSUME NEW k \in DOMAIN v, Is(v[k], "publish", i) PROVE FALSE
      OBVIOUS
    <2>2. k + 1 = 1
      BY <1>1, <2>1 DEF Ring, RingOfOne
    <2> QED
      BY <1>1, <2>2
  <1>3. c.s # "free"
    BY <1>1 DEF Ring, RingOfOne
  <1>4. RingOfOne(i, c, v, f)
    BY <1>1, <1>2 DEF Ring, RingOfOne
  <1>5. RingFree(i, c, v, f, w)
    BY <1>3 DEF RingFree
  <1>6. RingPub(i, c, v, f, w)
    <2>1. SUFFICES ASSUME c.s = "pub" PROVE RingPub(i, c, v, f, w)
      BY DEF RingPub
    <2>2. \A l \in DOMAIN u : ~Is(u[l], "pubrel", i)
      <3>1. \A l \in DOMAIN u : Is(u[l], "pubrel", i) => l < 1
        BY <1>1, <2>1 DEF Ring, RingPub
      <3> QED
        BY <1>1, <3>1
    <2>3. \A l \in DOMAIN v : ~Is(v[l], "pubrel", i)
      BY <1>1, <2>2
    <2>4. /\ e = "pubrec" => c.q = 2 /\ \E l \in DOMAIN d : Accepts(d[l], i)
          /\ \A l \in DOMAIN d : Accepts(d[l], i) =>
               c.q = 2 /\ \A k \in DOMAIN d : Is(d[k], "pubcomp", i) => k < l
          /\ \A k \in DOMAIN d : Answers(d[k], i) /\ ~Accepts(d[k], i) => \E l \in DOMAIN d : Accepts(d[l], i) /\ l < k
      BY <1>1, <2>1 DEF Ring, RingPub
    <2>5. CASE w = d /\ (f = "pubrec" <=> e = "pubrec")
      BY <1>2, <2>3, <2>4, <2>5 DEF RingPub
    <2>6. ASSUME NEW pk, Adds(d, w, pk), Answers(pk, i), ~Accepts(pk, i), f = "pubrec" <=> e = "pubrec"
          PROVE  RingPub(i, c, v, f, w)
      <3>1. PICK n \in Nat :
              /\ \A k \in DOMAIN d : k \in Nat /\ k >= 1 /\ k < n /\ k \in DOMAIN w /\ w[k] = d[k]
              /\ n \in DOMAIN w /\ w[n] = pk
              /\ \A k \in DOMAIN w : k = n \/ k \in DOMAIN d
        BY <2>6 DEF Adds
      <3>2. ASSUME NEW k \in DOMAIN w, Answers(w[k], i), ~Accepts(w[k], i)
            PROVE  \/ \E l \in DOMAIN w : Accepts(w[l], i) /\ l < k
                   \/ f # "pubrec" /\ \A l \in DOMAIN w : Answers(w[l], i) => l = k
        <4>1. CASE \E l \in DOMAIN d : Accepts(d[l], i)
          <5>1. PICK l \in DOMAIN d : Accepts(d[l], i) /\ (k \in DOMAIN d => l < k)
            BY <2>4, <3>1, <3>2, <4>1
          <5> QED
            BY <3>1, <5>1
        <4>2. CASE ~\E l \in DOMAIN d : Accepts(d[l], i)
          <5>1. \A l \in DOMAIN d : ~Answers(d[l], i)
            BY <2>4, <4>2
          <5> QED
            BY <2>4, <2>6, <3>1, <3>2, <4>2, <5>1
        <4> QED
          BY <4>1, <4>2
      <3>3. ASSUME NEW l \in DOMAIN w, Accepts(w[l], i)
            PROVE  c.q = 2 /\ \A k \in DOMAIN w : Is(w[k], "pubcomp", i) => k < l
        <4>1. l \in DOMAIN d /\ Accepts(d[l], i)
          BY <2>6, <3>1, <3>3
        <4>2. \A k \in DOMAIN w : Is(w[k], "pubcomp", i) => k \in DOMAIN d /\ Is(d[k], "pubcomp", i)
          BY <2>6, <3>1 DEF Is, Answers
        <4> QED
          BY <2>4, <4>1, <4>2
      <3>4. e = "pubrec" => \E l \in DOMAIN w : Accepts(w[l], i)
        BY <2>4, <3>1
      <3> QED
        BY <1>2, <2>3, <2>4, <2>6, <3>2, <3>3, <3>4 DEF RingPub
    <2>7. ASSUME NEW pk, Adds(d, w, pk), Accepts(pk, i), c.q = 2, e # "pubrec", f = "pubrec"
          PROVE  RingPub(i, c, v, f, w)
      <3>1. PICK n \in Nat :
              /\ \A k \in DOMAIN d : k \in Nat /\ k >= 1 /\ k < n /\ k \in DOMAIN w /\ w[k] = d[k]
              /\ n \in DOMAIN w /\ w[n] = pk
              /\ \A k \in DOMAIN w : k = n \/ k \in DOMAIN d
        BY <2>7 DEF Adds
      <3>2. ASSUME NEW k \in DOMAIN w, Answers(w[k], i), ~Accepts(w[k], i)
            PROVE  \E l \in DOMAIN w : Accepts(w[l], i) /\ l < k
        BY <2>4, <2>7, <3>1, <3>2
      <3>3. ASSUME NEW l \in DOMAIN w, Accepts(w[l], i), NEW k \in DOMAIN w, Is(w[k], "pubcomp", i)
            PROVE  k < l
        <4>1. k \in DOMAIN d /\ Is(d[k], "pubcomp", i)
          BY <2>7, <3>1, <3>3 DEF Is, Accepts
        <4> QED
          BY <2>4, <3>1, <3>3, <4>1
      <3> QED
        BY <1>2, <2>3, <2>7, <3>2, <3>3 DEF RingPub
    <2> QED
      BY <2>5, <2>6, <2>7 DEF PublishAnswer
  <1>7. RingRel(i, c, v, f, w)
    <2>1. SUFFICES ASSUME c.s = "rel" PROVE RingRel(i, c, v, f, w)
      BY DEF RingRel
    <2>2. \A k \in DOMAIN d : ~Is(d[k], "pubcomp", i)
      BY <1>1, <2>1 DEF Ring, RingRel
    <2>3. \A k \in DOMAIN w : ~Is(w[k], "pubcomp", i)
      <3>1. CASE w = d
        BY <2>2, <3>1
      <3>2. ASSUME NEW pk, Adds(d, w, pk), Answers(pk, i) \/ Accepts(pk, i)
            PROVE  \A k \in DOMAIN w : ~Is(w[k], "pubcomp", i)
        <4>1. ~Is(pk, "pubcomp", i)
          BY <3>2 DEF Is, Answers, Accepts
        <4>2. \A k \in DOMAIN w : w[k] = pk \/ (k \in DOMAIN d /\ w[k] = d[k])
          BY <3>2 DEF Adds
        <4> QED
          BY <2>2, <4>1, <4>2
      <3> QED
        BY <3>1, <3>2 DEF PublishAnswer
    <2> QED
      BY <1>2, <2>1, <2>3 DEF Ring, RingRel
  <1> QED
    BY <1>2, <1>4, <1>5, <1>6, <1>7 DEF Ring

\* A release is read and answered; no PUBREC is recorded then.
LEMMA RingReadsRelease ==
  ASSUME NEW i, NEW c, c.s \in {"free", "pub", "rel"}, NEW u, NEW e, NEW d, Ring(i, c, u, e, d), Line(d),
         NEW v, NEW w, NEW pk,
         Takes(u, v), Is(u[1], "pubrel", i), Adds(d, w, pk), Is(pk, "pubcomp", i)
  PROVE  Ring(i, c, v, "none", w)
PROOF
  <1>1. /\ 1 \in DOMAIN u /\ \A k \in DOMAIN u : k \in Nat /\ k >= 1
        /\ \A k \in DOMAIN v : k \in Nat /\ k >= 1 /\ k + 1 \in DOMAIN u /\ v[k] = u[k + 1]
    BY DEF Takes, Line
  <1>2. PICK n \in Nat :
          /\ \A k \in DOMAIN d : k \in Nat /\ k >= 1 /\ k < n /\ k \in DOMAIN w /\ w[k] = d[k]
          /\ n \in DOMAIN w /\ w[n] = pk
          /\ \A k \in DOMAIN w : k = n \/ k \in DOMAIN d
    BY DEF Adds
  <1>3. \A k \in DOMAIN w : Answers(w[k], i) \/ Accepts(w[k], i) => k \in DOMAIN d /\ w[k] = d[k]
    BY <1>2 DEF Answers, Accepts, Is
  <1>4. RingOfOne(i, c, v, "none")
    <2>1. \A k, l \in DOMAIN v : Is(v[k], "publish", i) /\ Is(v[l], "publish", i) => k = l
      <3>1. SUFFICES ASSUME NEW k \in DOMAIN v, NEW l \in DOMAIN v, Is(v[k], "publish", i), Is(v[l], "publish", i)
                     PROVE  k = l
        OBVIOUS
      <3>2. k + 1 = l + 1
        BY <1>1, <3>1 DEF Ring, RingOfOne
      <3> QED
        BY <1>1, <3>2
    <2> QED
      BY <1>1, <2>1 DEF Ring, RingOfOne
  <1>5. RingFree(i, c, v, "none", w)
    BY <1>1, <1>3 DEF Ring, RingFree
  <1>6. RingPub(i, c, v, "none", w)
    <2>1. SUFFICES ASSUME c.s = "pub" PROVE RingPub(i, c, v, "none", w)
      BY DEF RingPub
    <2>2. \A l \in DOMAIN d : ~Accepts(d[l], i)
      BY <1>1, <2>1 DEF Ring, RingPub
    <2>3. \A l \in DOMAIN w : ~Accepts(w[l], i)
      BY <1>3, <2>2
    <2>4. \A k, l \in DOMAIN v : Is(v[k], "publish", i) /\ Is(v[l], "pubrel", i) => l < k
      <3>1. SUFFICES ASSUME NEW k \in DOMAIN v, NEW l \in DOMAIN v, Is(v[k], "publish", i), Is(v[l], "pubrel", i)
                     PROVE  l < k
        OBVIOUS
      <3>2. l + 1 < k + 1
        BY <1>1, <2>1, <3>1 DEF Ring, RingPub
      <3> QED
        BY <1>1, <3>2
    <2>5. ASSUME NEW k \in DOMAIN w, Answers(w[k], i)
          PROVE  /\ \A j \in DOMAIN v : ~Is(v[j], "publish", i)
                 /\ \A l \in DOMAIN w : Answers(w[l], i) => l = k
      <3>1. k \in DOMAIN d /\ Answers(d[k], i)
        BY <1>3, <2>5
      <3>2. \A j \in DOMAIN u : ~Is(u[j], "publish", i)
        BY <2>1, <2>2, <3>1 DEF Ring, RingPub
      <3>3. \A l \in DOMAIN d : Answers(d[l], i) => l = k
        BY <2>1, <2>2, <3>1 DEF Ring, RingPub
      <3> QED
        BY <1>1, <1>3, <3>2, <3>3
    <2> QED
      BY <2>3, <2>4, <2>5 DEF RingPub
  <1>7. RingRel(i, c, v, "none", w)
    <2>1. SUFFICES ASSUME c.s = "rel" PROVE RingRel(i, c, v, "none", w)
      BY DEF RingRel
    <2>2. \A k \in DOMAIN u : ~Is(u[k], "publish", i)
      <3>1. \A k \in DOMAIN u : Is(u[k], "publish", i) => k < 1
        BY <1>1, <2>1 DEF Ring, RingRel
      <3> QED
        BY <1>1, <3>1
    <2>3. \A k \in DOMAIN v : ~Is(v[k], "publish", i)
      BY <1>1, <2>2
    <2>4. ASSUME NEW k \in DOMAIN w, Is(w[k], "pubcomp", i), NEW l \in DOMAIN w, Answers(w[l], i) PROVE l < k
      <3>1. l \in DOMAIN d /\ Answers(d[l], i)
        BY <1>3, <2>4
      <3>2. CASE k = n
        BY <1>2, <3>1, <3>2
      <3>3. CASE k \in DOMAIN d
        BY <1>2, <2>1, <2>4, <3>1, <3>3 DEF Ring, RingRel
      <3> QED
        BY <1>2, <3>2, <3>3
    <2> QED
      BY <2>1, <2>3, <2>4 DEF Ring, RingRel
  <1> QED
    BY <1>4, <1>5, <1>6, <1>7 DEF Ring

\* The client reads that its publish is accepted and releases it.
LEMMA RingClientReleases ==
  ASSUME NEW i, NEW c, c.s \in {"free", "pub", "rel"}, NEW u, Line(u), NEW e, NEW d, Ring(i, c, u, e, d),
         NEW b, b.s = "rel", b.m = c.m, b.q = c.q, NEW v, NEW w, NEW pk,
         Takes(d, w), Accepts(d[1], i), Adds(u, v, pk), Is(pk, "pubrel", i), ~pk.err
  PROVE  Ring(i, b, v, e, w)
PROOF
  <1>1. /\ 1 \in DOMAIN d /\ \A k \in DOMAIN d : k \in Nat /\ k >= 1
        /\ \A k \in DOMAIN w : k \in Nat /\ k >= 1 /\ k + 1 \in DOMAIN d /\ w[k] = d[k + 1]
    BY DEF Takes, Line
  <1>2. PICK n \in Nat :
          /\ \A k \in DOMAIN u : k \in Nat /\ k >= 1 /\ k < n /\ k \in DOMAIN v /\ v[k] = u[k]
          /\ n \in DOMAIN v /\ v[n] = pk
          /\ \A k \in DOMAIN v : k = n \/ k \in DOMAIN u
    BY DEF Adds
  <1>3. \A k \in DOMAIN v : Is(v[k], "publish", i) => k \in DOMAIN u /\ v[k] = u[k]
    BY <1>2 DEF Is
  <1>4. c.s # "free"
    BY <1>1 DEF Ring, RingFree, Answers, Accepts, Is
  <1>5. RingOfOne(i, b, v, e)
    BY <1>2, <1>3, <1>4 DEF Ring, RingOfOne
  <1>6. RingFree(i, b, v, e, w) /\ RingPub(i, b, v, e, w)
    BY DEF RingFree, RingPub
  <1>7. RingRel(i, b, v, e, w)
    <2>1. CASE c.s = "pub"
      <3>1. c.q = 2 /\ (\A k \in DOMAIN u : ~Is(u[k], "pubrel", i)) /\ \A k \in DOMAIN d : Is(d[k], "pubcomp", i) => k < 1
        BY <1>1, <2>1 DEF Ring, RingPub
      <3>2. \A k \in DOMAIN w : ~Is(w[k], "pubcomp", i)
        BY <1>1, <3>1
      <3>3. \A k, l \in DOMAIN v : Is(v[k], "publish", i) /\ Is(v[l], "pubrel", i) => k < l
        BY <1>2, <1>3, <3>1
      <3> QED
        BY <3>1, <3>2, <3>3 DEF RingRel
    <2>2. CASE c.s = "rel"
      <3>1. c.q = 2 /\ \A k, l \in DOMAIN u : Is(u[k], "publish", i) /\ Is(u[l], "pubrel", i) => k < l
        BY <2>2 DEF Ring, RingRel
      <3>2. \A k, l \in DOMAIN v : Is(v[k], "publish", i) /\ Is(v[l], "pubrel", i) => k < l
        BY <1>2, <1>3, <3>1
      <3>3. ASSUME NEW k \in DOMAIN w, Is(w[k], "pubcomp", i)
            PROVE  /\ e # "pubrec" /\ \A l \in DOMAIN w : Answers(w[l], i) => l < k
                   /\ \A j \in DOMAIN v : ~Is(v[j], "publish", i)
        <4>1. /\ e # "pubrec" /\ \A l \in DOMAIN d : Answers(d[l], i) => l < k + 1
              /\ \A j \in DOMAIN u : ~Is(u[j], "publish", i)
          BY <1>1, <2>2, <3>3 DEF Ring, RingRel
        <4>2. ASSUME NEW l \in DOMAIN w, Answers(w[l], i) PROVE l < k
          <5>1. l + 1 < k + 1
            BY <1>1, <4>1, <4>2
          <5> QED
            BY <1>1, <5>1
        <4> QED
          BY <1>3, <4>1, <4>2
      <3> QED
        BY <3>1, <3>2, <3>3 DEF RingRel
    <2> QED
      BY <1>4, <2>1, <2>2
  <1> QED
    BY <1>5, <1>6, <1>7 DEF Ring

\* The client reads an answer that ends what it waits for, or that it did not wait for.
LEMMA RingClientReads ==
  ASSUME NEW i, NEW c, c.s \in {"free", "pub", "rel"}, NEW u, NEW e, NEW d, Ring(i, c, u, e, d),
         NEW b, b.m = c.m, b.q = c.q, NEW w, Takes(d, w),
         (Answers(d[1], i) /\ ~Accepts(d[1], i)) \/ Is(d[1], "pubcomp", i),
         b.s = IF c.s = (IF d[1].t = "pubcomp" THEN "rel" ELSE "pub") THEN "free" ELSE c.s
  PROVE  Ring(i, b, u, e, w)
PROOF
  <1>1. /\ 1 \in DOMAIN d /\ \A k \in DOMAIN d : k \in Nat /\ k >= 1
        /\ \A k \in DOMAIN w : k \in Nat /\ k >= 1 /\ k + 1 \in DOMAIN d /\ w[k] = d[k + 1]
        /\ \A k \in DOMAIN d : k > 1 => k - 1 \in DOMAIN w /\ w[k - 1] = d[k]
    BY DEF Takes, Line
  <1>2. CASE c.s = "pub" /\ Answers(d[1], i) /\ ~Accepts(d[1], i)
    <2>1. b.s = "free"
      BY <1>2 DEF Answers
    <2>2. /\ e # "pubrec" /\ \A j \in DOMAIN u : ~Is(u[j], "publish", i)
          /\ \A l \in DOMAIN d : Answers(d[l], i) => l = 1
      BY <1>1, <1>2 DEF Ring, RingPub
    <2>3. \A l \in DOMAIN w : ~Answers(w[l], i)
      <3>1. ASSUME NEW l \in DOMAIN w, Answers(w[l], i) PROVE FALSE
        <4>1. l + 1 = 1
          BY <1>1, <2>2, <3>1
        <4> QED
          BY <1>1, <4>1
      <3> QED
        BY <3>1
    <2> QED
      BY <2>1, <2>2, <2>3 DEF Ring, RingOfOne, RingFree, RingPub, RingRel
  <1>3. CASE c.s = "rel" /\ Is(d[1], "pubcomp", i)
    <2>1. b.s = "free"
      BY <1>3 DEF Is
    <2>2. /\ e # "pubrec" /\ \A j \in DOMAIN u : ~Is(u[j], "publish", i)
          /\ \A l \in DOMAIN d : Answers(d[l], i) => l < 1
      BY <1>1, <1>3 DEF Ring, RingRel
    <2>3. \A l \in DOMAIN w : ~Answers(w[l], i)
      BY <1>1, <2>2
    <2> QED
      BY <2>1, <2>2, <2>3 DEF Ring, RingOfOne, RingFree, RingPub, RingRel
  <1>4. CASE ~(c.s = "pub" /\ Answers(d[1], i) /\ ~Accepts(d[1], i)) /\ ~(c.s = "rel" /\ Is(d[1], "pubcomp", i))
    <2>1. b.s = c.s
      BY <1>4 DEF Answers, Is
    <2>2. RingOfOne(i, b, u, e) /\ RingFree(i, b, u, e, w)
      BY <1>1, <2>1 DEF Ring, RingOfOne, RingFree
    <2>3. RingPub(i, b, u, e, w)
      <3>1. SUFFICES ASSUME c.s = "pub" PROVE RingPub(i, b, u, e, w)
        BY <2>1 DEF RingPub
      <3>2. ~Answers(d[1], i) /\ ~Accepts(d[1], i)
        BY <1>4, <3>1 DEF Answers, Is, Accepts
      <3>3. ASSUME NEW l \in DOMAIN w, Accepts(w[l], i), NEW k \in DOMAIN w, Is(w[k], "pubcomp", i) PROVE k < l
        <4>1. k + 1 < l + 1
          BY <1>1, <3>1, <3>3 DEF Ring, RingPub
        <4> QED
          BY <1>1, <4>1
      <3>4. ASSUME NEW k \in DOMAIN w, Answers(w[k], i), ~Accepts(w[k], i)
            PROVE  \/ \E l \in DOMAIN w : Accepts(w[l], i) /\ l < k
                   \/ /\ e # "pubrec" /\ \A j \in DOMAIN u : ~Is(u[j], "publish", i)
                      /\ \A l \in DOMAIN w : Answers(w[l], i) => l = k
        <4>1. CASE \E l \in DOMAIN d : Accepts(d[l], i) /\ l < k + 1
          <5>1. PICK l \in DOMAIN d : Accepts(d[l], i) /\ l < k + 1
            BY <4>1
          <5>2. l > 1
            BY <1>1, <3>2, <5>1
          <5>3. l - 1 \in DOMAIN w /\ Accepts(w[l - 1], i) /\ l - 1 < k
            BY <1>1, <5>1, <5>2
          <5> QED
            BY <5>3
        <4>2. CASE /\ e # "pubrec" /\ \A j \in DOMAIN u : ~Is(u[j], "publish", i)
                   /\ \A l \in DOMAIN d : Answers(d[l], i) => l = k + 1
          <5>1. ASSUME NEW l \in DOMAIN w, Answers(w[l], i) PROVE l = k
            <6>1. l + 1 = k + 1
              BY <1>1, <4>2, <5>1
            <6> QED
              BY <1>1, <6>1
          <5> QED
            BY <4>2, <5>1
        <4> QED
          BY <1>1, <3>1, <3>4, <4>1, <4>2 DEF Ring, RingPub
      <3>5. (\E l \in DOMAIN d : Accepts(d[l], i)) => \E l \in DOMAIN w : Accepts(w[l], i)
        <4>1. ASSUME NEW l \in DOMAIN d, Accepts(d[l], i) PROVE l - 1 \in DOMAIN w /\ Accepts(w[l - 1], i)
          BY <1>1, <3>2, <4>1
        <4> QED
          BY <4>1
      <3>6. \A l \in DOMAIN w : Accepts(w[l], i) => \E m \in DOMAIN d : Accepts(d[m], i)
        BY <1>1
      <3> QED
        BY <3>1, <3>3, <3>4, <3>5, <3>6 DEF Ring, RingPub
    <2>4. RingRel(i, b, u, e, w)
      <3>1. SUFFICES ASSUME c.s = "rel" PROVE RingRel(i, b, u, e, w)
        BY <2>1 DEF RingRel
      <3>2. ASSUME NEW k \in DOMAIN w, Is(w[k], "pubcomp", i)
            PROVE  /\ e # "pubrec" /\ \A l \in DOMAIN w : Answers(w[l], i) => l < k
                   /\ \A j \in DOMAIN u : ~Is(u[j], "publish", i)
        <4>1. /\ e # "pubrec" /\ \A l \in DOMAIN d : Answers(d[l], i) => l < k + 1
              /\ \A j \in DOMAIN u : ~Is(u[j], "publish", i)
          BY <1>1, <3>1, <3>2 DEF Ring, RingRel
        <4>2. ASSUME NEW l \in DOMAIN w, Answers(w[l], i) PROVE l < k
          <5>1. l + 1 < k + 1
            BY <1>1, <4>1, <4>2
          <5> QED
            BY <1>1, <5>1
        <4> QED
          BY <4>1, <4>2
      <3> QED
        BY <3>1, <3>2 DEF Ring, RingRel
    <2> QED
      BY <2>2, <2>3, <2>4 DEF Ring
  <1> QED
    BY <1>2, <1>3, <1>4

\* The client publishes under an id that is free.
LEMMA RingClientPublishes ==
  ASSUME NEW i, NEW c, c.s = "free", NEW u, Line(u), NEW e, NEW d, Ring(i, c, u, e, d),
         NEW b, b.s = "pub", NEW v, NEW pk, Adds(u, v, pk), Is(pk, "publish", i), pk.m = b.m, pk.q = b.q
  PROVE  Ring(i, b, v, e, d)
PROOF
  <1>1. PICK n \in Nat :
          /\ \A k \in DOMAIN u : k \in Nat /\ k >= 1 /\ k < n /\ k \in DOMAIN v /\ v[k] = u[k]
          /\ n \in DOMAIN v /\ v[n] = pk
          /\ \A k \in DOMAIN v : k = n \/ k \in DOMAIN u
    BY DEF Adds
  <1>2. e # "pubrec" /\ (\A k \in DOMAIN u : ~Is(u[k], "publish", i)) /\ \A k \in DOMAIN d : ~Answers(d[k], i)
    BY DEF Ring, RingFree
  <1>3. \A k \in DOMAIN v : Is(v[k], "publish", i) => k = n
    BY <1>1, <1>2
  <1>4. \A k \in DOMAIN v : Is(v[k], "pubrel", i) => k \in DOMAIN u /\ v[k] = u[k] /\ k < n
    BY <1>1 DEF Is
  <1>5. RingOfOne(i, b, v, e)
    BY <1>1, <1>3, <1>4 DEF Ring, RingOfOne
  <1>6. \A k \in DOMAIN d : ~Accepts(d[k], i)
    BY <1>2 DEF Answers, Accepts, Is
  <1>7. RingPub(i, b, v, e, d)
    BY <1>2, <1>3, <1>4, <1>6 DEF RingPub
  <1> QED
    BY <1>5, <1>7 DEF Ring, RingFree, RingRel

\* The connection is lost.
LEMMA RingCut ==
  ASSUME NEW i, NEW c, NEW u, NEW e, NEW d, Ring(i, c, u, e, d),
         NEW v, NEW w, Cleared(v, i), Cleared(w, i)
  PROVE  Ring(i, c, v, e, w)
BY DEF Ring, RingOfOne, RingFree, RingPub, RingRel, Cleared, Is, Answers, Accepts

\* Both sides send again: the client what it waits for, the broker the PUBREC it records.
LEMMA RingResent ==
  ASSUME NEW i, NEW c, c.s \in {"free", "pub", "rel"}, NEW u, NEW e, NEW d, Ring(i, c, u, e, d),
         NEW v, NEW w,
         \A k \in DOMAIN v : v[k].id = i =>
           /\ \/ c.s = "pub" /\ v[k].t = "publish" /\ v[k].m = c.m /\ v[k].q = c.q
              \/ c.s = "rel" /\ v[k].t = "pubrel" /\ ~v[k].err
           /\ \A l \in DOMAIN v : v[l].id = i => l = k,
         \A k \in DOMAIN w : w[k].id = i => e = "pubrec" /\ w[k].t = "pubrec" /\ ~w[k].err,
         e = "pubrec" => \E k \in DOMAIN w : w[k].id = i
  PROVE  Ring(i, c, v, e, w)
PROOF
  <1>1. e = "pubrec" => c.s # "free" /\ c.q = 2
    BY DEF Ring, RingFree, RingPub, RingRel
  <1>2. \A k \in DOMAIN w : ~Is(w[k], "pubcomp", i) /\ (Answers(w[k], i) => Accepts(w[k], i))
    BY DEF Is, Answers, Accepts
  <1>3. \A k \in DOMAIN v : Is(v[k], "publish", i) => c.s = "pub" /\ v[k].m = c.m /\ v[k].q = c.q
    BY DEF Is
  <1>4. \A k \in DOMAIN v : Is(v[k], "pubrel", i) => c.s = "rel" /\ ~v[k].err
    BY DEF Is
  <1>5. \A k, l \in DOMAIN v : Is(v[k], "publish", i) /\ Is(v[l], "publish", i) => k = l
    BY DEF Is
  <1>6. RingOfOne(i, c, v, e)
    BY <1>3, <1>4, <1>5 DEF Ring, RingOfOne
  <1>7. RingFree(i, c, v, e, w)
    BY <1>1, <1>3 DEF RingFree, Answers
  <1>8. RingPub(i, c, v, e, w)
    <2>1. e = "pubrec" => \E k \in DOMAIN w : Accepts(w[k], i)
      BY DEF Accepts, Is
    <2>2. \A k \in DOMAIN w : Accepts(w[k], i) => e = "pubrec"
      BY DEF Accepts, Is
    <2> QED
      BY <1>1, <1>2, <1>4, <2>1, <2>2 DEF RingPub
  <1>9. RingRel(i, c, v, e, w)
    BY <1>2, <1>3 DEF Ring, RingRel
  <1> QED
    BY <1>6, <1>7, <1>8, <1>9 DEF Ring

-----------------------------------------------------------------------------
(* The steps of the system, seen from one id of the client.                 *)

RingAt(i) == Ring(i, cout[i], up, inflight[i].t, down)

\* Nothing of the client's exchanges is on its way before the broker has resent.
QuietIn == ~conn \/ rd = "resend" => \A k \in DOMAIN down : down[k].id \notin ClientIds
RingInv == QuietIn /\ \A i \in ClientIds : RingAt(i)

\* The wires are sequences and positions of them.
LEMMA Wires ==
  ASSUME TypeOK
  PROVE  /\ up \in Seq(Packet) /\ down \in Seq(Packet) /\ outbound \in Seq(Packet)
         /\ Line(up) /\ Line(down)
         /\ inflight \in [Ids -> Entry] /\ ClientIds \subseteq Ids
         /\ \A i \in ClientIds : cout[i].s \in {"free", "pub", "rel"}
BY SeqLine DEF TypeOK, TypeNet, TypeMap, TypeClient, Ids

\* One step of the others: the client's ends stay, packets under broker ids may come.
LEMMA RingBeside ==
  ASSUME TypeOK, RingInv, ClientIds \cap BrokerIds = {},
         UNCHANGED <<up, cout>>,
         \A i \in ClientIds : inflight'[i].t \in {inflight[i].t, "none"},
         down' = down \/ \E pk \in Packet : pk.id \in BrokerIds /\ down' = Append(down, pk)
  PROVE  /\ \A i \in ClientIds : RingAt(i)'
         /\ (\A k \in DOMAIN down : down[k].id \notin ClientIds) => \A k \in DOMAIN down' : down'[k].id \notin ClientIds
PROOF
  <1>1. ASSUME NEW i \in ClientIds PROVE RingAt(i)'
    <2>1. Kept(up, up', i)
      BY Wires, SameKept
    <2>2. Kept(down, down', i)
      <3>1. CASE down' = down
        BY <3>1, Wires, SameKept
      <3>2. ASSUME NEW pk \in Packet, pk.id \in BrokerIds, down' = Append(down, pk) PROVE Kept(down, down', i)
        <4>1. Adds(down, down', pk) /\ pk.id # i
          BY <3>2, Wires, AppendAdds
        <4> QED
          BY <4>1, AddsKept
      <3> QED
        BY <3>1, <3>2
    <2>3. Ring(i, cout[i], up, inflight[i].t, down) /\ inflight[i].t \in {"none", "pubrec"}
      BY DEF RingInv, RingAt, Ring, RingOfOne
    <2>4. inflight'[i].t \in {"none", "pubrec"} /\ (inflight'[i].t = "pubrec" => inflight[i].t = "pubrec")
      BY <2>3
    <2>5. Ring(i, cout[i], up', inflight'[i].t, down')
      BY <2>1, <2>2, <2>3, <2>4, RingKept
    <2> QED
      BY <2>5 DEF RingAt
  <1>2. ASSUME NEW pk \in Packet, pk.id \in BrokerIds, down' = Append(down, pk),
               \A k \in DOMAIN down : down[k].id \notin ClientIds, NEW k \in DOMAIN down'
        PROVE  down'[k].id \notin ClientIds
    <2>1. (k \in DOMAIN down /\ down'[k] = down[k]) \/ down'[k] = pk
      BY <1>2, Wires, Appended
    <2> QED
      BY <1>2, <2>1
  <1> QED
    BY <1>1, <1>2

\* What publishers, WriteLoop, the tail and expiry do to what the client has under way: nothing,
\* except that an entry may expire.
LEMMA BesideIn ==
  ASSUME TypeOK, IdsApart, ClientIds \cap BrokerIds = {},
         \/ \E p \in Publishers : CheckInflight(p) \/ PublishStep(p)
         \/ WriteLoop \/ NextImmediate \/ ResumeSession \/ (\E i \in Ids : ClearExpiredInflight(i))
         \/ UNCHANGED vars
  PROVE  /\ UNCHANGED <<up, cout>>
         /\ \A i \in ClientIds : \/ inflight'[i] = inflight[i]
                                 \/ inflight'[i].t = "none" /\ MaxExpired # 0
         /\ down' = down \/ \E pk \in Packet : pk.id \in BrokerIds /\ down' = Append(down, pk)
         /\ ~conn' \/ rd' = "resend" => ~conn \/ rd = "resend"
PROOF
  <1> DEFINE Goal == /\ \A i \in ClientIds : \/ inflight'[i] = inflight[i]
                                             \/ inflight'[i].t = "none" /\ MaxExpired # 0
                     /\ down' = down \/ \E pk \in Packet : pk.id \in BrokerIds /\ down' = Append(down, pk)
                     /\ ~conn' \/ rd' = "resend" => ~conn \/ rd = "resend"
  <1> SUFFICES Goal
    BY UpBeside
  <1>1. /\ inflight \in [Ids -> Entry] /\ ClientIds \subseteq Ids /\ \A i \in ClientIds : i \notin BrokerIds
        /\ \A i \in PubIds : i \in BrokerIds
    BY Wires DEF IdsApart, PubIds
  <1>2. ASSUME NEW p \in Publishers, CheckInflight(p) \/ PublishStep(p) PROVE Goal
    <2>1. UNCHANGED <<down, conn, rd>>
      BY <1>2 DEF CheckInflight, PublishStep, NextPacketID, StoreInflight, LoadSendQuota, SubSendQuota, HoldMessage,
           SendOutbound, brokerVars
    <2>2. pub[p].pc \notin {"idle", "nextid"} => pub[p].id \in BrokerIds
      BY DEF TypeOK, TypePublishers, BrokerIds
    <2>3. CASE CheckInflight(p) \/ NextPacketID(p) \/ LoadSendQuota(p) \/ SubSendQuota(p)
      BY <2>1, <2>3 DEF CheckInflight, NextPacketID, LoadSendQuota, SubSendQuota, brokerVars
    <2>4. CASE StoreInflight(p) \/ HoldMessage(p)
      BY <1>1, <2>1, <2>2, <2>4 DEF StoreInflight, HoldMessage, Set
    <2>5. CASE SendOutbound(p)
      BY <1>1, <2>1, <2>2, <2>5 DEF SendOutbound, Delete
    <2> QED
      BY <1>2, <2>3, <2>4, <2>5 DEF PublishStep
  <1>3. CASE WriteLoop
    <2>1. UNCHANGED <<inflight, conn, rd>> /\ outbound # <<>> /\ down' = Append(down, Head(outbound))
      BY <1>3 DEF WriteLoop
    <2>2. Head(outbound) \in Packet /\ Head(outbound).id \in BrokerIds
      BY <2>1, Wires, HeadAt, SeqType DEF IdsApart
    <2>3. ~conn' \/ rd' = "resend" => ~conn \/ rd = "resend"
      BY <2>1
    <2> QED
      BY <2>1, <2>2, <2>3
  <1>4. CASE NextImmediate
    <2>1. /\ UNCHANGED conn /\ rd' = "idle"
          /\ \/ UNCHANGED <<inflight, down>>
             \/ \E i \in Held : /\ inflight' = [inflight EXCEPT ![i] = NoEntry]
                                /\ down' = down \/ down' = Append(down, Stored(i))
      BY <1>4 DEF NextImmediate, Delete
    <2>2. \A i \in Held : i \in PubIds /\ i \in BrokerIds /\ Stored(i).id = i
      BY <1>1 DEF Held, Stored
    <2>3. \A i \in Held : Stored(i) \in Packet
      BY <2>2, StoredType DEF TypeOK
    <2>4. ~conn' \/ rd' = "resend" => ~conn \/ rd = "resend"
      <3>1. rd' # "resend" /\ (~conn' => ~conn)
        BY <2>1
      <3> QED
        BY <3>1
    <2> HIDE DEF Stored
    <2>5. /\ \A i \in ClientIds : inflight'[i] = inflight[i]
          /\ down' = down \/ \E pk \in Packet : pk.id \in BrokerIds /\ down' = Append(down, pk)
      <3>1. CASE UNCHANGED <<inflight, down>>
        BY <3>1
      <3>2. ASSUME NEW j \in Held, inflight' = [inflight EXCEPT ![j] = NoEntry],
                   down' = down \/ down' = Append(down, Stored(j))
            PROVE  /\ \A i \in ClientIds : inflight'[i] = inflight[i]
                   /\ down' = down \/ \E pk \in Packet : pk.id \in BrokerIds /\ down' = Append(down, pk)
        <4>1. \A i \in ClientIds : inflight'[i] = inflight[i]
          BY <1>1, <2>2, <3>2
        <4>2. Stored(j) \in Packet /\ Stored(j).id \in BrokerIds
          BY <2>2, <2>3
        <4> QED
          BY <3>2, <4>1, <4>2
      <3> QED
        BY <2>1, <3>1, <3>2
    <2> QED
      BY <2>4, <2>5
  <1>5. CASE ResumeSession
    BY <1>5 DEF ResumeSession
  <1>6. ASSUME NEW i \in Ids, ClearExpiredInflight(i) PROVE Goal
    <2>1. MaxExpired # 0
      BY <1>6 DEF ClearExpiredInflight, TypeOK, TypeHistory
    <2>2. UNCHANGED <<down, conn, rd>>
      BY <1>6 DEF ClearExpiredInflight
    <2>3. \A j \in Ids : inflight'[j] = inflight[j] \/ inflight'[j] = NoEntry
      BY <1>1, <1>6 DEF ClearExpiredInflight, Delete
    <2> QED
      BY <1>1, <2>1, <2>2, <2>3 DEF NoEntry
  <1>7. CASE UNCHANGED vars
    <2>1. UNCHANGED <<inflight, down, conn, rd>>
      BY <1>7 DEF vars, brokerVars
    <2>2. ~conn' \/ rd' = "resend" => ~conn \/ rd = "resend"
      BY <2>1
    <2> QED
      BY <2>1, <2>2
  <1> QED
    BY <1>2, <1>3, <1>4, <1>5, <1>6, <1>7

\* The client reads an answer: it releases its publish, or is done with it, or ignores it.
LEMMA AckRead ==
  ASSUME TypeOK, RingInv, ClientGetsAck
  PROVE  /\ In.id \in ClientIds /\ \A i \in ClientIds : i # In.id => cout'[i] = cout[i]
         /\ cout'[In.id].m = cout[In.id].m /\ cout'[In.id].q = cout[In.id].q
         /\ \/ /\ Accepts(In, In.id) /\ cout[In.id].s # "free" /\ cout'[In.id].s = "rel"
               /\ \E pk \in Packet : Is(pk, "pubrel", In.id) /\ ~pk.err /\ up' = Append(up, pk)
            \/ /\ UNCHANGED up
               /\ (Answers(In, In.id) /\ ~Accepts(In, In.id)) \/ Is(In, "pubcomp", In.id)
               /\ cout'[In.id].s = IF cout[In.id].s = (IF In.t = "pubcomp" THEN "rel" ELSE "pub")
                                   THEN "free" ELSE cout[In.id].s
PROOF
  <1> DEFINE i == In.id
             pk == [t |-> "pubrel", id |-> In.id, m |-> cout[In.id].m, q |-> 0, err |-> FALSE]
  <1>1. /\ i \in ClientIds /\ In.t \in {"puback", "pubrec", "pubcomp"}
        /\ cout \in [ClientIds -> [s : {"free", "pub", "rel"}, m : Nat, q : 0 .. 2]]
        /\ 1 \in DOMAIN down /\ down[1] = In
    BY InAt DEF ClientGetsAck, TypeOK, TypeClient
  <1>2. CASE In.t = "pubrec" /\ ~In.err
    <2>1. Accepts(In, i) /\ Answers(In, i)
      BY <1>2 DEF Accepts, Answers, Is
    <2>2. Ring(i, cout[i], up, inflight[i].t, down)
      BY <1>1 DEF RingInv, RingAt
    <2> HIDE DEF i
    <2>3. cout[i].s # "free"
      BY <1>1, <2>1, <2>2 DEF Ring, RingFree
    <2>4. cout[i].s \in {"pub", "rel"} /\ cout[i].q = 2
      BY <1>1, <2>1, <2>2, <2>3 DEF Ring, RingPub, RingRel
    <2> USE DEF i
    <2>5. cout' = [cout EXCEPT ![In.id].s = "rel"] /\ up' = Append(up, pk)
      BY <1>2, <2>3, <2>4 DEF ClientGetsAck, Answer
    <2>6. pk \in Packet /\ Is(pk, "pubrel", In.id) /\ ~pk.err
      BY <1>1, ClientPubrelType DEF TypeOK, Is
    <2> HIDE DEF pk
    <2> QED
      BY <1>1, <2>1, <2>3, <2>5, <2>6
  <1>3. CASE ~(In.t = "pubrec" /\ ~In.err)
    <2>1. /\ UNCHANGED up
          /\ cout' = IF cout[In.id].s = (IF In.t = "pubcomp" THEN "rel" ELSE "pub")
                     THEN [cout EXCEPT ![In.id].s = "free"] ELSE cout
      BY <1>3 DEF ClientGetsAck
    <2>2. (Answers(In, i) /\ ~Accepts(In, i)) \/ Is(In, "pubcomp", i)
      BY <1>1, <1>3 DEF Answers, Accepts, Is
    <2> QED
      BY <1>1, <2>1, <2>2
  <1> QED
    BY <1>2, <1>3

\* The client's steps keep the ring.
LEMMA RingClient ==
  ASSUME TypeOK, IdsApart, RingInv, ClientIds \cap BrokerIds = {},
         ClientStep \/ \E j \in ClientIds : ClientPublish(j)
  PROVE  RingInv'
PROOF
  <1>1. QuietIn' /\ UNCHANGED inflight
    <2>1. /\ UNCHANGED <<conn, rd, inflight>> /\ rd # "resend" /\ conn
      BY DEF ClientStep, ClientGetsPublish, ClientGetsPubrel, ClientGetsAck, ClientReads, ClientPublish, clientFrame, brokerVars
    <2>2. ~(~conn' \/ rd' = "resend")
      BY <2>1
    <2> QED
      BY <2>1, <2>2 DEF QuietIn
  <1>2. SUFFICES ASSUME NEW i \in ClientIds PROVE RingAt(i)'
    BY <1>1 DEF RingInv
  <1>3. /\ Ring(i, cout[i], up, inflight[i].t, down) /\ inflight[i].t \in {"none", "pubrec"}
        /\ inflight'[i] = inflight[i] /\ cout[i].s \in {"free", "pub", "rel"}
    BY <1>1, Wires DEF RingInv, RingAt, Ring, RingOfOne
  <1>4. ASSUME ClientReads PROVE Takes(down, down') /\ down[1] = In
    BY <1>4, Wires, TailTakes DEF ClientReads, In
  <1>5. CASE ClientGetsPublish \/ ClientGetsPubrel
    <2>1. UNCHANGED cout /\ ClientReads
      BY <1>5, ClientAnswers DEF ClientGetsPublish, ClientGetsPubrel
    <2>2. In.id # i
      <3>1. In.t \in {"publish", "pubrel"} /\ 1 \in DOMAIN down /\ down[1] = In
        BY <1>5, <2>1, ClientAnswers, InAt
      <3> QED
        BY <3>1 DEF IdsApart
    <2>3. PICK pk \in Packet : up' = Append(up, pk) /\ pk.id = In.id
      BY <1>5, ClientAnswers
    <2>4. Kept(up, up', i)
      BY <2>2, <2>3, Wires, AppendAdds, AddsKept
    <2>5. Kept(down, down', i)
      BY <1>4, <2>1, <2>2, TakesKept
    <2>6. Ring(i, cout[i], up', inflight[i].t, down')
      BY <1>3, <2>4, <2>5, RingKept
    <2> QED
      BY <1>1, <2>1, <2>6 DEF RingAt
  <1>6. CASE ClientGetsAck
    <2>1. Takes(down, down') /\ down[1] = In
      BY <1>4, <1>6 DEF ClientGetsAck
    <2>2. CASE In.id # i
      <3>1. cout'[i] = cout[i] /\ Kept(down, down', i)
        BY <1>6, <2>1, <2>2, AckRead, TakesKept
      <3>2. Kept(up, up', i)
        <4>1. CASE UNCHANGED up
          BY <4>1, Wires, SameKept
        <4>2. ASSUME NEW pk \in Packet, Is(pk, "pubrel", In.id), up' = Append(up, pk) PROVE Kept(up, up', i)
          BY <2>2, <4>2, Wires, AppendAdds, AddsKept DEF Is
        <4> QED
          BY <1>6, <4>1, <4>2, AckRead
      <3>3. Ring(i, cout[i], up', inflight[i].t, down')
        BY <1>3, <3>1, <3>2, RingKept
      <3> QED
        BY <1>1, <3>1, <3>3 DEF RingAt
    <2>3. CASE In.id = i
      <3>1. cout'[i].m = cout[i].m /\ cout'[i].q = cout[i].q
        BY <1>6, <2>3, AckRead
      <3>2. ASSUME NEW pk \in Packet, Accepts(In, i), cout'[i].s = "rel", Is(pk, "pubrel", i), ~pk.err,
                   up' = Append(up, pk)
            PROVE  Ring(i, cout'[i], up', inflight[i].t, down')
        <4>1. Adds(up, up', pk) /\ Line(up)
          BY <3>2, Wires, AppendAdds
        <4> HIDE DEF Packet
        <4> QED
          BY <1>3, <2>1, <3>1, <3>2, <4>1, RingClientReleases
      <3>3. ASSUME UNCHANGED up, (Answers(In, i) /\ ~Accepts(In, i)) \/ Is(In, "pubcomp", i),
                   cout'[i].s = IF cout[i].s = (IF In.t = "pubcomp" THEN "rel" ELSE "pub")
                                THEN "free" ELSE cout[i].s
            PROVE  Ring(i, cout'[i], up', inflight[i].t, down')
        BY <1>3, <2>1, <3>1, <3>3, RingClientReads
      <3>4. Ring(i, cout'[i], up', inflight[i].t, down')
        BY <1>6, <2>3, <3>2, <3>3, AckRead
      <3> QED
        BY <1>1, <3>4 DEF RingAt
    <2> QED
      BY <2>2, <2>3
  <1>7. ASSUME NEW j \in ClientIds, ClientPublish(j) PROVE RingAt(i)'
    <2>1. /\ cout[j].s = "free" /\ cout'[j].s = "pub" /\ cout'[j].m = accepted + 1
          /\ cout'[j].q = QosIn(Qos2In, accepted + 1)
          /\ \A k \in ClientIds : k # j => cout'[k] = cout[k]
      BY <1>7, PublishMoves
    <2>2. PICK pk \in Packet : /\ up' = Append(up, pk) /\ pk.t = "publish" /\ pk.id = j
                               /\ pk.m = accepted + 1 /\ pk.q = QosIn(Qos2In, accepted + 1)
      BY <1>7, PublishMoves
    <2>3. Adds(up, up', pk) /\ Line(up) /\ UNCHANGED down
      BY <1>7, <2>2, Wires, AppendAdds DEF ClientPublish
    <2>4. CASE j = i
      <3>1. Is(pk, "publish", i) /\ pk.m = cout'[i].m /\ pk.q = cout'[i].q
        BY <2>1, <2>2, <2>4 DEF Is
      <3>2. Ring(i, cout'[i], up', inflight[i].t, down)
        BY <1>3, <2>1, <2>3, <2>4, <3>1, RingClientPublishes
      <3> QED
        BY <1>1, <2>3, <3>2 DEF RingAt
    <2>5. CASE j # i
      <3>1. Kept(up, up', i) /\ Kept(down, down', i)
        BY <2>2, <2>3, <2>5, Wires, AddsKept, SameKept
      <3>2. Ring(i, cout[i], up', inflight[i].t, down')
        BY <1>3, <3>1, RingKept
      <3> QED
        BY <1>1, <2>1, <2>5, <3>2 DEF RingAt
    <2> QED
      BY <2>4, <2>5
  <1> QED
    BY <1>5, <1>6, <1>7 DEF ClientStep


-----------------------------------------------------------------------------
(* The steps that concern every id.                                         *)

\* The steps of the others keep the ring.
LEMMA RingOthers ==
  ASSUME TypeOK, IdsApart, RingInv, ClientIds \cap BrokerIds = {},
         \/ \E p \in Publishers : CheckInflight(p) \/ PublishStep(p)
         \/ WriteLoop \/ NextImmediate \/ ResumeSession \/ (\E i \in Ids : ClearExpiredInflight(i))
         \/ UNCHANGED vars
  PROVE  RingInv'
PROOF
  <1>1. /\ UNCHANGED <<up, cout>>
        /\ \A i \in ClientIds : \/ inflight'[i] = inflight[i]
                                \/ inflight'[i].t = "none" /\ MaxExpired # 0
        /\ down' = down \/ \E pk \in Packet : pk.id \in BrokerIds /\ down' = Append(down, pk)
        /\ ~conn' \/ rd' = "resend" => ~conn \/ rd = "resend"
    BY BesideIn
  <1>2. \A i \in ClientIds : inflight'[i].t \in {inflight[i].t, "none"}
    BY <1>1
  <1>3. /\ \A i \in ClientIds : RingAt(i)'
        /\ (\A k \in DOMAIN down : down[k].id \notin ClientIds) => \A k \in DOMAIN down' : down'[k].id \notin ClientIds
    BY <1>1, <1>2, RingBeside
  <1>4. QuietIn'
    BY <1>1, <1>3 DEF QuietIn, RingInv
  <1> QED
    BY <1>3, <1>4 DEF RingInv

\* A lost connection keeps the ring.
LEMMA RingLost ==
  ASSUME RingInv, ConnectionLost
  PROVE  RingInv'
PROOF
  <1>1. up' = <<>> /\ down' = <<>> /\ UNCHANGED <<cout, inflight>>
    BY DEF ConnectionLost, Closed, clientVars
  <1>2. \A i : Cleared(up', i) /\ Cleared(down', i)
    BY <1>1 DEF Cleared
  <1>3. ASSUME NEW i \in ClientIds PROVE RingAt(i)'
    <2>1. Ring(i, cout[i], up', inflight[i].t, down')
      BY <1>2, RingCut DEF RingInv, RingAt
    <2> QED
      BY <1>1, <2>1 DEF RingAt
  <1>4. QuietIn'
    BY <1>1 DEF QuietIn
  <1> QED
    BY <1>3, <1>4 DEF RingInv

\* The second sequence comes behind the first.
LEMMA JoinedAfter ==
  ASSUME NEW s \in Seq(Packet), NEW t \in Seq(Packet)
  PROVE  /\ DOMAIN (s \o t) = 1 .. (Len(s) + Len(t)) /\ Len(s) \in Nat
         /\ \A k \in 1 .. Len(t) : (s \o t)[Len(s) + k] = t[k]
PROOF
  <1>1. /\ s \o t \in Seq(Packet) /\ Len(s \o t) = Len(s) + Len(t)
        /\ \A i \in 1 .. Len(s) + Len(t) : (s \o t)[i] = IF i <= Len(s) THEN s[i] ELSE t[i - Len(s)]
    BY ConcatProperties
  <1>2. Len(s) \in Nat /\ Len(t) \in Nat /\ DOMAIN (s \o t) = 1 .. Len(s \o t)
    BY <1>1, LenProperties
  <1>3. ASSUME NEW k \in 1 .. Len(t) PROVE (s \o t)[Len(s) + k] = t[k]
    <2> DEFINE j == Len(s) + k
               st == s \o t
    <2>1. st[j] = IF j <= Len(s) THEN s[j] ELSE t[j - Len(s)]
      <3>1. j \in 1 .. Len(s) + Len(t)
        BY <1>2, <1>3
      <3> QED
        BY <1>1, <3>1
    <2>2. ~(j <= Len(s)) /\ j - Len(s) = k
      BY <1>2, <1>3
    <2> HIDE DEF j, st
    <2>3. st[j] = t[k]
      BY <2>1, <2>2
    <2> QED
      BY <2>3 DEF j, st
  <1> QED
    BY <1>1, <1>2, <1>3

\* The wire downwards after the broker has resent the map, by its positions.
LEMMA Resends ==
  ASSUME TypeOK, ResendInflightMessages
  PROVE  /\ \A k \in DOMAIN down' : \/ k \in DOMAIN down /\ down'[k] = down[k]
                                    \/ \E j \in InUse : down'[k] = Stored(j)
         /\ \A j \in InUse : \E k \in DOMAIN down' : down'[k] = Stored(j)
PROOF
  <1>1. PICK s \in Orders(InUse) : down' = down \o [k \in 1 .. Len(s) |-> Stored(s[k])]
    BY DEF ResendInflightMessages, ToResend
  <1>2. Len(s) \in Nat /\ DOMAIN s = 1 .. Len(s) /\ \A k \in 1 .. Len(s) : s[k] \in InUse
    BY <1>1, FiniteIds, OrderOnce
  <1>3. \A j \in InUse : \E k \in 1 .. Len(s) : s[k] = j
    BY <1>2 DEF Orders
  <1> DEFINE t == [k \in 1 .. Len(s) |-> Stored(s[k])]
  <1>4. \A k \in 1 .. Len(s) : Stored(s[k]) \in Packet
    BY <1>2 DEF TypeOK, TypeMap, InUse, Stored, Entry, Packet, Acks
  <1>5. t \in Seq(Packet) /\ DOMAIN t = 1 .. Len(s) /\ Len(t) = Len(s) /\ \A k \in 1 .. Len(s) : t[k] = Stored(s[k])
    BY <1>2, <1>4
  <1>6. down \in Seq(Packet) /\ down' = down \o t
    BY <1>1, Wires
  <1> HIDE DEF t, Packet, Stored
  <1>7. \A k \in DOMAIN down' : \/ k \in DOMAIN down /\ down'[k] = down[k]
                                \/ \E l \in DOMAIN t : down'[k] = t[l]
    BY <1>5, <1>6, Joined
  <1>8. /\ Len(down) \in Nat /\ DOMAIN down' = 1 .. (Len(down) + Len(s))
        /\ \A k \in 1 .. Len(s) : down'[Len(down) + k] = t[k]
    <2>1. /\ DOMAIN (down \o t) = 1 .. (Len(down) + Len(t)) /\ Len(down) \in Nat
          /\ \A k \in 1 .. Len(t) : (down \o t)[Len(down) + k] = t[k]
      BY <1>5, <1>6, JoinedAfter
    <2> QED
      BY <1>5, <1>6, <2>1
  <1>9. ASSUME NEW j \in InUse PROVE \E k \in DOMAIN down' : down'[k] = Stored(j)
    <2>1. PICK k \in 1 .. Len(s) : s[k] = j
      BY <1>3
    <2>2. Len(down) + k \in DOMAIN down' /\ down'[Len(down) + k] = Stored(j)
      BY <1>2, <1>5, <1>8, <2>1
    <2> QED
      BY <2>2
  <1> QED
    BY <1>2, <1>5, <1>7, <1>9

\* Both sides send again what is not over.
LEMMA RingResends ==
  ASSUME TypeOK, RingInv, ResendInflightMessages
  PROVE  RingInv'
PROOF
  <1>1. /\ UNCHANGED <<cout, conn>> /\ conn /\ rd = "resend" /\ rd' = "idle"
        /\ \A i \in Ids : inflight[i].t \notin {"puback", "pubcomp"} => inflight'[i] = inflight[i]
    BY DEF ResendInflightMessages, clientVars, TypeOK, TypeMap
  <1>2. QuietIn'
    <2>1. conn' /\ rd' # "resend"
      BY <1>1
    <2> QED
      BY <2>1 DEF QuietIn
  <1>3. SUFFICES ASSUME NEW i \in ClientIds PROVE RingAt(i)'
    BY <1>2 DEF RingInv
  <1>4. /\ Ring(i, cout[i], up, inflight[i].t, down) /\ inflight[i].t \in {"none", "pubrec"}
        /\ i \in Ids /\ cout[i].s \in {"free", "pub", "rel"}
    BY Wires DEF RingInv, RingAt, Ring, RingOfOne
  <1>5. inflight'[i] = inflight[i]
    BY <1>1, <1>4
  <1>6. \A k \in DOMAIN down : down[k].id # i
    BY <1>1 DEF RingInv, QuietIn
  <1>7. \A k \in DOMAIN up' : up'[k].id = i =>
          /\ \/ cout[i].s = "pub" /\ up'[k].t = "publish" /\ up'[k].m = cout[i].m /\ up'[k].q = cout[i].q
             \/ cout[i].s = "rel" /\ up'[k].t = "pubrel" /\ ~up'[k].err
          /\ \A l \in DOMAIN up' : up'[l].id = i => l = k
    <2>1. /\ \A k \in DOMAIN up' : up'[k].id \in ClientBusy /\ up'[k] = ClientResend(up'[k].id)
          /\ \A k, l \in DOMAIN up' : up'[k].id = up'[l].id => k = l
      BY ClientResends
    <2>2. ClientResend(i) = [t |-> IF cout[i].s = "pub" THEN "publish" ELSE "pubrel", id |-> i,
                             m |-> cout[i].m, q |-> cout[i].q, err |-> FALSE]
      BY DEF ClientResend
    <2>3. i \in ClientBusy => cout[i].s # "free"
      BY DEF ClientBusy
    <2> QED
      BY <1>4, <2>1, <2>2, <2>3
  <1>8. \A j : Stored(j).id = j /\ Stored(j).t = inflight[j].t /\ Stored(j).err = FALSE
    BY DEF Stored
  <1>9. /\ \A k \in DOMAIN down' : down'[k].id = i =>
             inflight[i].t = "pubrec" /\ down'[k].t = "pubrec" /\ ~down'[k].err
        /\ inflight[i].t = "pubrec" => \E k \in DOMAIN down' : down'[k].id = i
    <2>1. /\ \A k \in DOMAIN down' : \/ k \in DOMAIN down /\ down'[k] = down[k]
                                     \/ \E j \in InUse : down'[k] = Stored(j)
          /\ \A j \in InUse : \E k \in DOMAIN down' : down'[k] = Stored(j)
      BY Resends
    <2>2. i \in InUse <=> inflight[i].t = "pubrec"
      BY <1>4 DEF InUse
    <2>3. ASSUME NEW k \in DOMAIN down', down'[k].id = i
          PROVE  inflight[i].t = "pubrec" /\ down'[k].t = "pubrec" /\ ~down'[k].err
      <3>1. PICK j \in InUse : down'[k] = Stored(j)
        BY <1>6, <2>1, <2>3
      <3>2. j = i
        BY <1>8, <2>3, <3>1
      <3> QED
        BY <1>8, <2>2, <3>1, <3>2
    <2>4. ASSUME inflight[i].t = "pubrec" PROVE \E k \in DOMAIN down' : down'[k].id = i
      <3>1. PICK k \in DOMAIN down' : down'[k] = Stored(i)
        BY <2>1, <2>2, <2>4
      <3> QED
        BY <1>8, <3>1
    <2> QED
      BY <2>3, <2>4
  <1>10. Ring(i, cout[i], up', inflight[i].t, down')
    BY <1>4, <1>7, <1>9, RingResent
  <1> QED
    BY <1>1, <1>5, <1>10 DEF RingAt

-----------------------------------------------------------------------------
(* The handlers, when no write fails.                                       *)

\* A publish is refused, and what is recorded of its id stays.
PublishRefused ==
  /\ Pk.t = "publish" /\ UNCHANGED <<routed, recvQuota>>
  /\ inflight'[Pk.id].t = inflight[Pk.id].t \/ (inflight[Pk.id].t # "pubrec" /\ inflight'[Pk.id].t = "none")
  /\ down' = down \/ \E ack \in Packet : down' = Append(down, ack) /\ Answers(ack, Pk.id) /\ ack.err

\* A publish is acknowledged and routed; a QoS 2 one is recorded.
PublishTaken ==
  /\ Pk.t = "publish" /\ inflight[Pk.id].t # "pubrec" /\ recvQuota # 0
  /\ "ignore" \notin HookResults => routed' = [routed EXCEPT ![Pk.m] = @ + 1]
  /\ \E ack \in Packet :
       /\ down' = Append(down, ack) /\ ack.id = Pk.id /\ ~ack.err
       /\ \/ /\ Pk.q = 1 /\ ack.t = "puback" /\ inflight'[Pk.id].t = "none"
             /\ recvQuota' = Increased(Decreased(recvQuota), ReceiveMaximum)
          \/ /\ Pk.q # 1 /\ ack.t = "pubrec" /\ inflight'[Pk.id].t = "pubrec"
             /\ recvQuota' = Decreased(recvQuota)

\* A release that refuses nothing is answered, and nothing is recorded afterwards.
ReleaseAnswered ==
  /\ Pk.t = "pubrel" /\ UNCHANGED routed
  /\ UNCHANGED recvQuota \/ recvQuota' = Increased(recvQuota, ReceiveMaximum)
  /\ Pk.err \/ /\ inflight'[Pk.id].t = "none"
               /\ \E ack \in Packet : down' = Append(down, ack) /\ Is(ack, "pubcomp", Pk.id)
               /\ recvQuota' = IF inflight[Pk.id].t = "none" THEN recvQuota
                               ELSE Increased(recvQuota, ReceiveMaximum)

\* The acknowledgements of the broker's own publishes route nothing.
OtherAcked ==
  /\ Pk.t \in {"puback", "pubrec", "pubcomp"} /\ UNCHANGED routed
  /\ \/ Pk.t = "pubrec" \/ UNCHANGED recvQuota \/ recvQuota' = Increased(recvQuota, ReceiveMaximum)

PacketRead ==
  /\ Takes(up, up') /\ UNCHANGED conn /\ rd' = "tail"
  /\ PublishRefused \/ PublishTaken \/ ReleaseAnswered \/ OtherAcked

\* A publish that finds the receive quota exhausted ends the connection.
OverQuota ==
  /\ Pk.t = "publish" /\ recvQuota = 0
  /\ up' = <<>> /\ down' = <<>> /\ ~conn' /\ UNCHANGED <<inflight, routed, recvQuota, rd>>

\* Every handler is one of these.
LEMMA HandlerShape ==
  ASSUME TypeOK, Handler, ~WriteFails
  PROVE  OverQuota \/ PacketRead
PROOF
  <1>1. /\ Pk \in Packet /\ up # <<>> /\ inflight \in [Ids -> Entry] /\ Pk.id \in Ids
        /\ Takes(up, Tail(up))
    BY HandlerReads, Wires, TailTakes DEF Packet
  <1>2. ASSUME Finished PROVE Takes(up, up') /\ UNCHANGED conn /\ rd' = "tail"
    BY <1>1, <1>2 DEF Finished
  <1>3. ASSUME NEW t \in Acks, NEW e \in BOOLEAN, Answered(Ack(t, Pk, e)) \/ Replied(Ack(t, Pk, e))
        PROVE  /\ Finished
               /\ \E ack \in Packet : down' = Append(down, ack) /\ ack.id = Pk.id /\ ack.t = t /\ ack.err = e
    <2>1. Ack(t, Pk, e) \in Packet /\ Ack(t, Pk, e).id = Pk.id /\ Ack(t, Pk, e).t = t /\ Ack(t, Pk, e).err = e
      BY <1>1, AckType DEF Ack
    <2> HIDE DEF Ack, Packet
    <2>2. Replied(Ack(t, Pk, e))
      BY <1>3 DEF Answered, Died
    <2> QED
      BY <2>1, <2>2 DEF Replied
  <1>4. NoReply => Finished /\ down' = down
    BY DEF NoReply
  <1>5. "puback" \in Acks /\ "pubrec" \in Acks /\ "pubrel" \in Acks /\ "pubcomp" \in Acks
    BY DEF Acks
  <1>6. CASE ProcessPublishOverQuota
    BY <1>6 DEF ProcessPublishOverQuota, OverQuota, Reading, Closed
  <1>7. CASE ProcessPublishDuplicate \/ ProcessPublishDenied
    <2>1. PICK t \in {"puback", "pubrec"} : Answered(Refusal(t, Pk))
      BY <1>7 DEF ProcessPublishDuplicate, ProcessPublishDenied
    <2>2. /\ Finished
          /\ \E ack \in Packet : down' = Append(down, ack) /\ ack.id = Pk.id /\ ack.t = t /\ ack.err = TRUE
      <3>1. Answered(Ack(t, Pk, TRUE)) /\ t \in Acks
        BY <1>5, <2>1 DEF Refusal
      <3> HIDE DEF Ack, Acks
      <3> QED
        BY <1>3, <3>1
    <2>3. \E ack \in Packet : down' = Append(down, ack) /\ Answers(ack, Pk.id) /\ ack.err
      BY <2>2 DEF Answers
    <2>4. Pk.t = "publish" /\ UNCHANGED <<routed, recvQuota, inflight>>
      BY <1>7 DEF ProcessPublishDuplicate, ProcessPublishDenied, Reading
    <2> QED
      BY <1>2, <2>2, <2>3, <2>4 DEF PublishRefused, PacketRead
  <1>8. CASE ProcessPublishStopped
    <2>1. Pk.t = "publish" /\ UNCHANGED <<routed, recvQuota>> /\ inflight[Pk.id].t # "pubrec"
      BY <1>8 DEF ProcessPublishStopped, Reading, IsDuplicate
    <2>2. inflight'[Pk.id].t = "none"
      BY <1>1, <1>8 DEF ProcessPublishStopped, Delete, NoEntry
    <2>3. NoReply \/ Answered(Ack("puback", Pk, TRUE))
      BY <1>8 DEF ProcessPublishStopped, Refusal
    <2>4. /\ Finished
          /\ down' = down \/ \E ack \in Packet : down' = Append(down, ack) /\ Answers(ack, Pk.id) /\ ack.err
      BY <1>3, <1>4, <1>5, <2>3 DEF Answers
    <2> QED
      BY <1>2, <2>1, <2>2, <2>4 DEF PublishRefused, PacketRead
  <1>9. ASSUME NEW h \in {"ok", "ignore"}, ProcessPublish(h) PROVE PacketRead
    <2>1. Pk.t = "publish" /\ inflight[Pk.id].t # "pubrec" /\ recvQuota # 0
      BY <1>9 DEF ProcessPublish, Reading, IsDuplicate
    <2>2. "ignore" \notin HookResults => routed' = [routed EXCEPT ![Pk.m] = @ + 1]
      BY <1>9 DEF ProcessPublish
    <2>3. CASE Pk.q = 1
      <3>1. Replied(Ack("puback", Pk, FALSE)) /\ recvQuota' = Increased(Decreased(recvQuota), ReceiveMaximum)
        BY <1>9, <2>3 DEF ProcessPublish
      <3>2. inflight'[Pk.id].t = "none"
        BY <1>1, <1>9, <2>3 DEF ProcessPublish, Delete, NoEntry
      <3>3. /\ Finished
            /\ \E ack \in Packet : down' = Append(down, ack) /\ ack.id = Pk.id /\ ack.t = "puback" /\ ack.err = FALSE
        BY <1>3, <1>5, <3>1
      <3> QED
        BY <1>2, <2>1, <2>2, <2>3, <3>1, <3>2, <3>3 DEF PublishTaken, PacketRead
    <2>4. CASE Pk.q # 1
      <3>1. Replied(Ack("pubrec", Pk, FALSE)) /\ recvQuota' = Decreased(recvQuota)
        BY <1>9, <2>4 DEF ProcessPublish
      <3>2. inflight'[Pk.id].t = "pubrec"
        BY <1>1, <1>9, <2>4 DEF ProcessPublish, Set, AckEntry
      <3>3. /\ Finished
            /\ \E ack \in Packet : down' = Append(down, ack) /\ ack.id = Pk.id /\ ack.t = "pubrec" /\ ack.err = FALSE
        BY <1>3, <1>5, <3>1
      <3> QED
        BY <1>2, <2>1, <2>2, <2>4, <3>1, <3>2, <3>3 DEF PublishTaken, PacketRead
    <2> QED
      BY <2>3, <2>4
  <1>10. CASE ProcessPublishWriteFails
    BY <1>10 DEF ProcessPublishWriteFails, Died
  <1>11. CASE ProcessPuback \/ ProcessPubcomp
    <2>1. Finished /\ UNCHANGED routed /\ Pk.t \in {"puback", "pubcomp"}
          /\ (UNCHANGED recvQuota \/ recvQuota' = Increased(recvQuota, ReceiveMaximum))
      BY <1>4, <1>11 DEF ProcessPuback, ProcessPubcomp, Reading
    <2> QED
      BY <1>2, <2>1 DEF OtherAcked, PacketRead
  <1>12. CASE ProcessPubrec
    <2>1. UNCHANGED routed /\ Pk.t = "pubrec"
      BY <1>12 DEF ProcessPubrec, Reading
    <2>2. NoReply \/ Answered(Ack("pubrel", Pk, TRUE)) \/ Answered(Ack("pubrel", Pk, FALSE))
      BY <1>12 DEF ProcessPubrec, Refusal
    <2>3. Finished
      BY <1>3, <1>4, <1>5, <2>2
    <2> QED
      BY <1>2, <2>1, <2>3 DEF OtherAcked, PacketRead
  <1>13. CASE ProcessPubrel
    <2>1. UNCHANGED routed /\ Pk.t = "pubrel"
      BY <1>13 DEF ProcessPubrel, Reading
    <2>2. CASE Pk.id \notin InUse /\ Answered(Refusal("pubcomp", Pk)) /\ UNCHANGED <<inflight, recvQuota>>
      <3>1. inflight[Pk.id].t = "none" /\ inflight'[Pk.id].t = "none" /\ recvQuota' = recvQuota
        BY <1>1, <2>2 DEF InUse
      <3>2. Finished /\ \E ack \in Packet : down' = Append(down, ack) /\ Is(ack, "pubcomp", Pk.id)
        BY <1>3, <1>5, <2>2 DEF Refusal, Is
      <3> QED
        BY <1>2, <2>1, <3>1, <3>2 DEF ReleaseAnswered, PacketRead
    <2>3. CASE Pk.err /\ NoReply /\ UNCHANGED recvQuota
      BY <1>2, <1>4, <2>1, <2>3 DEF ReleaseAnswered, PacketRead
    <2>4. CASE /\ Pk.id \in InUse /\ Replied(Ack("pubcomp", Pk, FALSE)) /\ inflight' = Delete(Pk.id)
               /\ recvQuota' = Increased(recvQuota, ReceiveMaximum)
      <3>1. inflight[Pk.id].t # "none" /\ inflight'[Pk.id].t = "none"
        BY <1>1, <2>4 DEF InUse, Delete, NoEntry
      <3>2. Finished /\ \E ack \in Packet : down' = Append(down, ack) /\ Is(ack, "pubcomp", Pk.id)
        BY <1>3, <1>5, <2>4 DEF Is
      <3> QED
        BY <1>2, <2>1, <2>4, <3>1, <3>2 DEF ReleaseAnswered, PacketRead
    <2>5. ~Died
      BY DEF Died
    <2> QED
      BY <1>13, <2>2, <2>3, <2>4, <2>5 DEF ProcessPubrel
  <1> QED
    BY <1>6, <1>7, <1>8, <1>9, <1>10, <1>11, <1>12, <1>13 DEF Handler

\* A handler concerns one id: the others see a packet that is not theirs go and perhaps come.
LEMMA ReadKept ==
  ASSUME TypeOK, Handler, PacketRead, NEW i \in ClientIds, i # Pk.id
  PROVE  Kept(up, up', i) /\ Kept(down, down', i) /\ inflight'[i] = inflight[i]
PROOF
  <1>1. Takes(up, up') /\ up[1] = Pk /\ conn /\ conn'
    BY HandlerReads, HandlerWires DEF PacketRead
  <1>2. Kept(up, up', i)
    BY <1>1, TakesKept
  <1>3. down' = down \/ \E ack \in Packet : down' = Append(down, ack) /\ ack.id = Pk.id
    BY <1>1, HandlerWires DEF HandlerAnswer
  <1>4. Kept(down, down', i)
    <2>1. ASSUME NEW ack \in Packet, down' = Append(down, ack), ack.id = Pk.id PROVE Kept(down, down', i)
      BY <2>1, Wires, AppendAdds, AddsKept
    <2> QED
      BY <1>3, <2>1, Wires, SameKept
  <1>5. inflight'[i] = inflight[i]
    BY HandlerMap, Wires DEF HandlerEntry
  <1> QED
    BY <1>2, <1>4, <1>5

\* What is read under an id of the client is a publish of it or its release.
LEMMA ReadOfClient ==
  ASSUME TypeOK, IdsApart, NumberedIn, RingInv, ClientIds \cap BrokerIds = {}, Handler, PacketRead, Pk.id \in ClientIds
  PROVE  /\ Pk.t \in {"publish", "pubrel"} /\ 1 \in DOMAIN up /\ up[1] = Pk /\ Pk.q \in 0 .. 2
         /\ Pk.t = "publish" => /\ Pk.m = cout[Pk.id].m /\ Pk.q = cout[Pk.id].q /\ Pk.q \in {1, 2}
                                /\ cout[Pk.id].s # "free"
         /\ Pk.t = "pubrel" => ~Pk.err
PROOF
  <1>1. 1 \in DOMAIN up /\ up[1] = Pk /\ Pk \in Packet
    BY HandlerReads
  <1>2. Pk.t \notin {"puback", "pubrec", "pubcomp"} /\ Pk.t \in {"publish", "puback", "pubrec", "pubrel", "pubcomp"}
        /\ Pk.q \in 0 .. 2
    BY <1>1 DEF IdsApart, Packet, Acks
  <1>3. RingOfOne(Pk.id, cout[Pk.id], up, inflight[Pk.id].t)
    BY DEF RingInv, RingAt, Ring
  <1>4. ASSUME Pk.t = "publish"
        PROVE  Pk.m = cout[Pk.id].m /\ Pk.q = cout[Pk.id].q /\ cout[Pk.id].s # "free"
    BY <1>1, <1>3, <1>4 DEF RingOfOne, Is
  <1>5. Pk.t = "publish" => Pk.q \in {1, 2}
    BY <1>1 DEF NumberedIn, QosIn
  <1>6. Pk.t = "pubrel" => ~Pk.err
    BY <1>1, <1>3 DEF RingOfOne, Is
  <1> QED
    BY <1>1, <1>2, <1>4, <1>5, <1>6

\* The handlers keep the ring.
LEMMA RingHandler ==
  ASSUME TypeOK, IdsApart, NumberedIn, RingInv, ClientIds \cap BrokerIds = {}, ~WriteFails, Handler
  PROVE  RingInv'
PROOF
  <1>1. UNCHANGED cout /\ conn
    BY HandlerReads, HandlerWires DEF handlerFrame, clientVars
  <1>2. CASE OverQuota
    <2>1. \A i : Cleared(up', i) /\ Cleared(down', i)
      BY <1>2 DEF OverQuota, Cleared
    <2>2. QuietIn' /\ UNCHANGED inflight
      BY <1>2 DEF OverQuota, QuietIn
    <2>3. ASSUME NEW i \in ClientIds PROVE RingAt(i)'
      <3>1. Ring(i, cout[i], up', inflight[i].t, down')
        BY <2>1, RingCut DEF RingInv, RingAt
      <3> QED
        BY <1>1, <2>2, <3>1 DEF RingAt
    <2> QED
      BY <2>2, <2>3 DEF RingInv
  <1>3. CASE PacketRead
    <2>1. QuietIn'
      <3>1. conn' /\ rd' # "resend"
        BY <1>1, <1>3 DEF PacketRead
      <3> QED
        BY <3>1 DEF QuietIn
    <2>2. SUFFICES ASSUME NEW i \in ClientIds PROVE RingAt(i)'
      BY <2>1 DEF RingInv
    <2>3. /\ Ring(i, cout[i], up, inflight[i].t, down) /\ inflight[i].t \in {"none", "pubrec"}
          /\ cout[i].s \in {"free", "pub", "rel"} /\ Line(down)
      BY Wires DEF RingInv, RingAt, Ring, RingOfOne
    <2>4. CASE i # Pk.id
      <3>1. Kept(up, up', i) /\ Kept(down, down', i) /\ inflight'[i] = inflight[i]
        BY <1>3, <2>4, ReadKept
      <3>2. Ring(i, cout[i], up', inflight[i].t, down')
        BY <2>3, <3>1, RingKept
      <3> QED
        BY <1>1, <3>1, <3>2 DEF RingAt
    <2>5. CASE i = Pk.id
      <3>1. /\ Pk.t \in {"publish", "pubrel"} /\ up[1] = Pk
            /\ Pk.t = "publish" => Pk.q = cout[i].q /\ Pk.q \in {1, 2}
            /\ Pk.t = "pubrel" => ~Pk.err
        BY <1>3, <2>5, ReadOfClient
      <3>2. Takes(up, up')
        BY <1>3 DEF PacketRead
      <3> HIDE DEF Packet
      <3>3. ASSUME Pk.t = "publish", inflight'[i].t \in {"none", "pubrec"},
                   PublishAnswer(i, cout[i], inflight[i].t, down, inflight'[i].t, down')
            PROVE  Ring(i, cout[i], up', inflight'[i].t, down')
        <4>1. Is(up[1], "publish", i)
          BY <2>5, <3>1, <3>3 DEF Is
        <4> QED
          BY <2>3, <3>2, <3>3, <4>1, RingReadsPublish
      <3>4. CASE PublishRefused
        <4>1. Pk.t = "publish" /\ inflight'[i].t \in {"none", "pubrec"} /\ (inflight'[i].t = "pubrec" <=> inflight[i].t = "pubrec")
          BY <2>3, <2>5, <3>4 DEF PublishRefused
        <4>2. down' = down \/ \E ack : Adds(down, down', ack) /\ Answers(ack, i) /\ ~Accepts(ack, i)
          <5>1. ASSUME NEW ack \in Packet, down' = Append(down, ack), Answers(ack, Pk.id), ack.err
                PROVE  Adds(down, down', ack) /\ Answers(ack, i) /\ ~Accepts(ack, i)
            BY <2>5, <5>1, Wires, AppendAdds DEF Accepts
          <5> QED
            BY <3>4, <5>1 DEF PublishRefused
        <4>3. PublishAnswer(i, cout[i], inflight[i].t, down, inflight'[i].t, down')
          BY <4>1, <4>2 DEF PublishAnswer
        <4> QED
          BY <1>1, <3>3, <4>1, <4>3 DEF RingAt
      <3>5. CASE PublishTaken
        <4>1. PICK ack \in Packet :
                /\ down' = Append(down, ack) /\ ack.id = Pk.id /\ ~ack.err
                /\ \/ Pk.q = 1 /\ ack.t = "puback" /\ inflight'[Pk.id].t = "none"
                   \/ Pk.q # 1 /\ ack.t = "pubrec" /\ inflight'[Pk.id].t = "pubrec"
          BY <3>5 DEF PublishTaken
        <4>2. Adds(down, down', ack) /\ Pk.t = "publish" /\ inflight[i].t # "pubrec"
          BY <2>5, <3>5, <4>1, Wires, AppendAdds DEF PublishTaken
        <4>3. PublishAnswer(i, cout[i], inflight[i].t, down, inflight'[i].t, down')
          <5>1. CASE Pk.q = 1 /\ ack.t = "puback" /\ inflight'[Pk.id].t = "none"
            <6>1. Answers(ack, i) /\ ~Accepts(ack, i)
              BY <2>5, <4>1, <5>1 DEF Answers, Accepts, Is
            <6> QED
              BY <2>5, <4>2, <5>1, <6>1 DEF PublishAnswer
          <5>2. CASE Pk.q # 1 /\ ack.t = "pubrec" /\ inflight'[Pk.id].t = "pubrec"
            <6>1. Accepts(ack, i) /\ cout[i].q = 2
              BY <2>5, <3>1, <4>1, <4>2, <5>2 DEF Accepts, Is
            <6> QED
              BY <2>5, <4>2, <5>2, <6>1 DEF PublishAnswer
          <5> QED
            BY <4>1, <5>1, <5>2
        <4> QED
          BY <1>1, <2>5, <3>3, <4>1, <4>2, <4>3 DEF RingAt
      <3>6. CASE ReleaseAnswered
        <4>1. inflight'[i].t = "none" /\ Is(up[1], "pubrel", i)
          BY <2>5, <3>1, <3>6 DEF ReleaseAnswered, Is
        <4>2. PICK ack \in Packet : down' = Append(down, ack) /\ Is(ack, "pubcomp", i)
          BY <2>5, <3>1, <3>6 DEF ReleaseAnswered
        <4>3. Adds(down, down', ack)
          BY <4>2, Wires, AppendAdds
        <4>4. Ring(i, cout[i], up', "none", down')
          BY <2>3, <3>2, <4>1, <4>2, <4>3, RingReadsRelease
        <4> QED
          BY <1>1, <4>1, <4>4 DEF RingAt
      <3> QED
        BY <1>3, <3>1, <3>4, <3>5, <3>6 DEF PacketRead, OtherAcked
    <2> QED
      BY <2>4, <2>5
  <1> QED
    BY <1>2, <1>3, HandlerShape

\* Every step keeps the ring, as long as no write fails under a handler.
LEMMA RingStep ==
  ASSUME TypeOK, IdsApart, NumberedIn, RingInv, ClientIds \cap BrokerIds = {}, ~WriteFails, [Next]_vars
  PROVE  RingInv'
BY RingOthers, RingLost, RingResends, RingHandler, RingClient DEF Next, Reader

\* It holds of the first connection.
LEMMA InitRing == Init => RingInv
PROOF
  <1> SUFFICES ASSUME Init PROVE RingInv
    OBVIOUS
  <1>1. up = <<>> /\ down = <<>> /\ \A i \in ClientIds : cout[i].s = "free" /\ inflight[i].t = "none"
    BY DEF Init, Ids, NoEntry
  <1> QED
    BY <1>1 DEF RingInv, QuietIn, RingAt, Ring, RingOfOne, RingFree, RingPub, RingRel

-----------------------------------------------------------------------------
(* What is acknowledged is routed.                                          *)

\* A PUBREC recorded or an answer on its way tells the client that its publish is taken.
Told(i) ==
  inflight[i].t = "pubrec" \/ \E k \in DOMAIN down : Answers(down[k], i) /\ ~down[k].err

\* Whatever the client was told or will be told is routed.
RoutedInv ==
  /\ \A m \in acked : m \in InMsgs /\ routed[m] >= 1
  /\ \A i \in ClientIds : cout[i].s = "rel" \/ (cout[i].s = "pub" /\ Told(i)) => routed[cout[i].m] >= 1

\* Nothing new is told and nothing forgotten.
LEMMA RoutedBeside ==
  ASSUME RoutedInv, UNCHANGED <<cout, acked, routed>>, \A i \in ClientIds : Told(i)' => Told(i)
  PROVE  RoutedInv'
BY DEF RoutedInv

\* The others tell nothing, and neither do a lost connection and a resend.
LEMMA RoutedOthers ==
  ASSUME TypeOK, IdsApart, RingInv, RoutedInv, ClientIds \cap BrokerIds = {},
         \/ \E p \in Publishers : CheckInflight(p) \/ PublishStep(p)
         \/ WriteLoop \/ NextImmediate \/ ResumeSession \/ (\E i \in Ids : ClearExpiredInflight(i))
         \/ UNCHANGED vars
  PROVE  RoutedInv'
PROOF
  <1>1. UNCHANGED <<cout, acked, routed>>
    <2>1. UNCHANGED <<cout, routed>>
      BY UpBeside
    <2>2. UNCHANGED acked
      BY DEF CheckInflight, PublishStep, NextPacketID, StoreInflight, LoadSendQuota, SubSendQuota, HoldMessage, SendOutbound,
         WriteLoop, NextImmediate, ResumeSession, ClearExpiredInflight, vars, clientVars
    <2> QED
      BY <2>1, <2>2
  <1>2. /\ \A i \in ClientIds : inflight'[i] = inflight[i] \/ inflight'[i].t = "none"
        /\ down' = down \/ \E pk \in Packet : pk.id \in BrokerIds /\ down' = Append(down, pk)
    BY BesideIn
  <1>3. \A k \in DOMAIN down' : (k \in DOMAIN down /\ down'[k] = down[k]) \/ down'[k].id \in BrokerIds
    <2>1. ASSUME NEW pk \in Packet, pk.id \in BrokerIds, down' = Append(down, pk), NEW k \in DOMAIN down'
          PROVE  (k \in DOMAIN down /\ down'[k] = down[k]) \/ down'[k].id \in BrokerIds
      BY <2>1, Wires, Appended
    <2> QED
      BY <1>2, <2>1
  <1>4. ASSUME NEW i \in ClientIds, Told(i)' PROVE Told(i)
    <2>1. i \notin BrokerIds
      OBVIOUS
    <2>2. CASE inflight'[i].t = "pubrec"
      BY <1>2, <2>2 DEF Told
    <2>3. ASSUME NEW k \in DOMAIN down', Answers(down'[k], i), ~down'[k].err PROVE Told(i)
      BY <1>3, <2>1, <2>3 DEF Told, Answers
    <2> QED
      BY <1>4, <2>2, <2>3 DEF Told
  <1> QED
    BY <1>1, <1>4, RoutedBeside

\* A lost connection tells nothing.
LEMMA RoutedLost ==
  ASSUME RoutedInv, ConnectionLost
  PROVE  RoutedInv'
PROOF
  <1>1. UNCHANGED <<cout, acked, routed, inflight>> /\ down' = <<>>
    BY DEF ConnectionLost, Closed, clientVars
  <1>2. ASSUME NEW i \in ClientIds, Told(i)' PROVE Told(i)
    BY <1>1, <1>2 DEF Told
  <1> QED
    BY <1>1, <1>2, RoutedBeside

\* The broker tells again what it has recorded.
LEMMA RoutedResends ==
  ASSUME TypeOK, RoutedInv, RingInv, ResendInflightMessages
  PROVE  RoutedInv'
PROOF
  <1>1. /\ UNCHANGED <<cout, acked, routed>>
        /\ \A i \in Ids : inflight'[i] = inflight[i] \/ inflight'[i].t = "none"
    BY DEF ResendInflightMessages, clientVars, NoEntry, TypeOK, TypeMap
  <1>2. \A k \in DOMAIN down' : \/ k \in DOMAIN down /\ down'[k] = down[k]
                                \/ \E j \in InUse : down'[k] = Stored(j)
    BY Resends
  <1>3. \A j : Stored(j).id = j /\ Stored(j).t = inflight[j].t
    BY DEF Stored
  <1>4. ASSUME NEW i \in ClientIds, Told(i)' PROVE Told(i)
    <2>1. inflight[i].t \in {"none", "pubrec"} /\ i \in Ids
      BY Wires DEF RingInv, RingAt, Ring, RingOfOne
    <2>2. CASE inflight'[i].t = "pubrec"
      BY <1>1, <2>1, <2>2 DEF Told
    <2>3. ASSUME NEW k \in DOMAIN down', Answers(down'[k], i), ~down'[k].err PROVE Told(i)
      <3>1. CASE k \in DOMAIN down /\ down'[k] = down[k]
        BY <2>3, <3>1 DEF Told
      <3>2. ASSUME NEW j \in InUse, down'[k] = Stored(j) PROVE Told(i)
        <4>1. j = i /\ inflight[i].t # "none"
          BY <1>3, <2>3, <3>2 DEF Answers, InUse
        <4> QED
          BY <2>1, <4>1 DEF Told
      <3> QED
        BY <1>2, <3>1, <3>2
    <2> QED
      BY <1>4, <2>2, <2>3 DEF Told
  <1> QED
    BY <1>1, <1>4, RoutedBeside

\* A handler tells only what it routes.
LEMMA RoutedHandler ==
  ASSUME TypeOK, IdsApart, NumberedIn, RingInv, RoutedInv, ClientIds \cap BrokerIds = {},
         ~WriteFails, "ignore" \notin HookResults, Handler
  PROVE  RoutedInv'
PROOF
  <1>1. UNCHANGED <<cout, acked>> /\ routed \in [InMsgs -> Nat]
    BY HandlerReads DEF handlerFrame, clientVars, NumberedIn
  <1>2. CASE OverQuota
    <2>1. ASSUME NEW i \in ClientIds, Told(i)' PROVE Told(i)
      BY <1>2, <2>1 DEF OverQuota, Told
    <2> QED
      BY <1>1, <1>2, <2>1, RoutedBeside DEF OverQuota
  <1>3. ASSUME PacketRead, NEW i \in ClientIds, i # Pk.id, Told(i)' PROVE Told(i)
    <2>1. Kept(down, down', i) /\ inflight'[i] = inflight[i]
      BY <1>3, ReadKept
    <2>2. \A k \in DOMAIN down' : down'[k].id = i => \E l \in DOMAIN down : down'[k] = down[l]
      BY <2>1 DEF Kept
    <2> QED
      BY <1>3, <2>1, <2>2 DEF Told, Answers
  <1>4. ASSUME NEW i, NEW ack \in Packet, down' = Append(down, ack), ~(Answers(ack, i) /\ ~ack.err),
               inflight'[i].t = "pubrec" => inflight[i].t = "pubrec", Told(i)'
        PROVE  Told(i)
    <2>1. \A k \in DOMAIN down' : (k \in DOMAIN down /\ down'[k] = down[k]) \/ down'[k] = ack
      BY <1>4, Wires, Appended
    <2>2. ASSUME NEW k \in DOMAIN down', Answers(down'[k], i), ~down'[k].err PROVE Told(i)
      BY <1>4, <2>1, <2>2 DEF Told
    <2> QED
      BY <1>4, <2>2 DEF Told
  <1>5. CASE PacketRead /\ UNCHANGED routed /\ ~PublishTaken
    <2>1. ASSUME NEW i \in ClientIds, i = Pk.id, Told(i)' PROVE Told(i)
      <3>1. CASE PublishRefused
        <4>1. inflight'[i].t = "pubrec" => inflight[i].t = "pubrec"
          BY <2>1, <3>1 DEF PublishRefused
        <4>2. CASE down' = down
          BY <2>1, <4>1, <4>2 DEF Told
        <4>3. ASSUME NEW ack \in Packet, down' = Append(down, ack), ack.err PROVE Told(i)
          BY <1>4, <2>1, <4>1, <4>3
        <4> QED
          BY <3>1, <4>2, <4>3 DEF PublishRefused
      <3>2. CASE ReleaseAnswered
        <4>1. inflight'[i].t = "none" /\ \E ack \in Packet : down' = Append(down, ack) /\ Is(ack, "pubcomp", i)
          BY <1>5, <2>1, <3>2, ReadOfClient DEF ReleaseAnswered
        <4>2. PICK ack \in Packet : down' = Append(down, ack) /\ Is(ack, "pubcomp", i)
          BY <4>1
        <4>3. ~Answers(ack, i)
          BY <4>2 DEF Is, Answers
        <4> QED
          BY <1>4, <2>1, <4>1, <4>2, <4>3
      <3> QED
        BY <1>5, <2>1, <3>1, <3>2, ReadOfClient DEF PacketRead, OtherAcked
    <2> QED
      BY <1>1, <1>3, <1>5, <2>1, RoutedBeside
  <1>6. CASE PacketRead /\ PublishTaken
    <2>1. Pk.t = "publish" /\ routed' = [routed EXCEPT ![Pk.m] = @ + 1]
      BY <1>6 DEF PublishTaken
    <2>2. Pk.id \in ClientIds /\ Pk.m \in InMsgs
      <3>1. 1 \in DOMAIN up /\ up[1] = Pk
        BY HandlerReads
      <3>2. accepted \in 0 .. MaxIn /\ MaxIn \in Nat
        BY QosFlowAssumption DEF TypeOK, TypeHistory
      <3>3. Pk.id \in ClientIds /\ Pk.m \in 1 .. accepted
        BY <2>1, <3>1 DEF IdsApart, NumberedIn
      <3> QED
        BY <3>2, <3>3 DEF InMsgs
    <2>3. Pk.m = cout[Pk.id].m
      BY <1>6, <2>1, <2>2, ReadOfClient
    <2>4. routed'[Pk.m] >= 1 /\ \A m \in InMsgs : routed[m] >= 1 => routed'[m] >= 1
      BY <1>1, <2>1, <2>2
    <2>5. \A m \in acked' : m \in InMsgs /\ routed'[m] >= 1
      BY <1>1, <2>4 DEF RoutedInv
    <2>6. ASSUME NEW i \in ClientIds, cout[i].s = "rel" \/ (cout[i].s = "pub" /\ Told(i)') PROVE routed'[cout[i].m] >= 1
      <3>1. CASE i = Pk.id
        BY <2>3, <2>4, <3>1
      <3>2. CASE i # Pk.id
        <4>1. routed[cout[i].m] >= 1
          BY <1>3, <1>6, <2>6, <3>2 DEF RoutedInv
        <4>2. cout[i].m \in InMsgs
          <5>1. i \in ClientBusy /\ accepted \in 0 .. MaxIn /\ MaxIn \in Nat
            BY <2>6, QosFlowAssumption DEF ClientBusy, TypeOK, TypeHistory
          <5>2. cout[i].m \in 1 .. accepted
            BY <5>1 DEF NumberedIn
          <5> QED
            BY <5>1, <5>2 DEF InMsgs
        <4> QED
          BY <2>4, <4>1, <4>2
      <3> QED
        BY <3>1, <3>2
    <2> QED
      BY <1>1, <2>5, <2>6 DEF RoutedInv
  <1>7. PacketRead => PublishTaken \/ UNCHANGED routed
    BY DEF PacketRead, PublishRefused, ReleaseAnswered, OtherAcked
  <1> QED
    BY <1>2, <1>5, <1>6, <1>7, HandlerShape

\* The client is told only what is routed.
LEMMA RoutedClient ==
  ASSUME TypeOK, IdsApart, NumberedIn, RingInv, RoutedInv, ClientIds \cap BrokerIds = {},
         ClientStep \/ \E j \in ClientIds : ClientPublish(j)
  PROVE  RoutedInv'
PROOF
  <1>1. UNCHANGED <<routed, inflight>>
    BY DEF ClientStep, ClientGetsPublish, ClientGetsPubrel, ClientGetsAck, ClientPublish, clientFrame, brokerVars
  <1>2. ASSUME ClientReads, NEW i, Told(i)' PROVE Told(i)
    <2>1. Takes(down, down')
      BY <1>2, Wires, TailTakes DEF ClientReads
    <2>2. \A k \in DOMAIN down' : k + 1 \in DOMAIN down /\ down'[k] = down[k + 1]
      BY <2>1 DEF Takes
    <2> QED
      BY <1>1, <1>2, <2>2 DEF Told
  <1>3. CASE ClientGetsPublish \/ ClientGetsPubrel
    <2>1. UNCHANGED <<cout, acked>> /\ ClientReads
      BY <1>3 DEF ClientGetsPublish, ClientGetsPubrel
    <2> QED
      BY <1>1, <1>2, <2>1, RoutedBeside
  <1>4. CASE ClientGetsAck
    <2> DEFINE i == In.id
    <2>1. /\ i \in ClientIds /\ ClientReads /\ 1 \in DOMAIN down /\ down[1] = In
          /\ \A j \in ClientIds : cout'[j].m = cout[j].m
          /\ \A j \in ClientIds : j # i => cout'[j] = cout[j]
      BY <1>4, InAt, AckMoves, AckRead DEF ClientGetsAck
    <2>2. acked' = acked \/ (acked' = acked \cup {cout[i].m} /\ ~In.err
                             /\ IF In.t = "pubcomp" THEN cout[i].s = "rel" ELSE cout[i].s = "pub")
      BY <1>4 DEF ClientGetsAck
    <2>3. Answers(In, i) /\ ~In.err => Told(i)
      BY <2>1 DEF Told
    <2>4. In.t \in {"puback", "pubrec", "pubcomp"}
      BY <1>4 DEF ClientGetsAck
    <2>5. cout[i].s # "free" => cout[i].m \in InMsgs
      <3>1. accepted \in 0 .. MaxIn /\ MaxIn \in Nat
        BY QosFlowAssumption DEF TypeOK, TypeHistory
      <3>2. cout[i].s # "free" => cout[i].m \in 1 .. accepted
        BY <2>1 DEF NumberedIn, ClientBusy
      <3> QED
        BY <3>1, <3>2 DEF InMsgs
    <2>6. \A m \in acked' : m \in InMsgs /\ routed'[m] >= 1
      <3>1. CASE acked' = acked
        BY <1>1, <3>1 DEF RoutedInv
      <3>2. CASE /\ acked' = acked \cup {cout[i].m} /\ ~In.err
                 /\ IF In.t = "pubcomp" THEN cout[i].s = "rel" ELSE cout[i].s = "pub"
        <4>1. cout[i].s = "rel" \/ (cout[i].s = "pub" /\ Told(i))
          BY <2>3, <2>4, <3>2 DEF Answers
        <4>2. routed[cout[i].m] >= 1 /\ cout[i].m \in InMsgs
          BY <2>1, <2>5, <4>1 DEF RoutedInv
        <4> QED
          BY <1>1, <3>2, <4>2 DEF RoutedInv
      <3> QED
        BY <2>2, <3>1, <3>2
    <2>7. ASSUME NEW j \in ClientIds, cout'[j].s = "rel" \/ (cout'[j].s = "pub" /\ Told(j)') PROVE routed[cout[j].m] >= 1
      <3>1. cout[j].s = "rel" \/ (cout[j].s = "pub" /\ Told(j))
        <4>1. CASE j # i
          BY <1>2, <2>1, <2>7, <4>1
        <4>2. CASE j = i
          <5>1. CASE cout'[j].s = "pub"
            <6>1. cout[j].s = "pub"
              BY <1>4, <5>1, AckMoves
            <6> QED
              BY <1>2, <2>1, <2>7, <5>1, <6>1
          <5>2. CASE cout'[j].s = "rel"
            <6>1. (Accepts(In, i) /\ cout[i].s # "free") \/ cout[i].s = "rel"
              BY <1>4, <4>2, <5>2, AckRead
            <6>2. cout[i].s \in {"free", "pub", "rel"}
              BY <2>1, Wires
            <6> QED
              BY <2>3, <4>2, <6>1, <6>2 DEF Accepts, Answers, Is
          <5> QED
            BY <2>7, <5>1, <5>2
        <4> QED
          BY <4>1, <4>2
      <3> QED
        BY <3>1 DEF RoutedInv
    <2> QED
      BY <1>1, <2>1, <2>6, <2>7 DEF RoutedInv
  <1>5. ASSUME NEW j \in ClientIds, ClientPublish(j) PROVE RoutedInv'
    <2>1. /\ UNCHANGED <<acked, down>> /\ cout[j].s = "free" /\ cout'[j].s = "pub"
          /\ \A i \in ClientIds : i # j => cout'[i] = cout[i]
      BY <1>5, PublishMoves DEF ClientPublish
    <2>2. \A i \in ClientIds : Told(i)' <=> Told(i)
      BY <1>1, <2>1 DEF Told
    <2>3. ~Told(j)
      BY <2>1 DEF RingInv, RingAt, Ring, RingFree, Told
    <2> QED
      BY <1>1, <2>1, <2>2, <2>3 DEF RoutedInv
  <1> QED
    BY <1>3, <1>4, <1>5 DEF ClientStep

\* Every step keeps it.
LEMMA RoutedStep ==
  ASSUME TypeOK, IdsApart, NumberedIn, RingInv, RoutedInv, ClientIds \cap BrokerIds = {},
         ~WriteFails, "ignore" \notin HookResults, [Next]_vars
  PROVE  RoutedInv'
BY RoutedOthers, RoutedLost, RoutedResends, RoutedHandler, RoutedClient DEF Next, Reader

\* A publish the client was told is taken has been routed, whatever the client repeats, however
\* often the connection is lost, and whether or not entries expire; a connection that dies
\* under the write of an answer, and a hook that routes by itself, are left out.
THEOREM AcknowledgedIsRouted ==
  ASSUME ClientIds \cap BrokerIds = {}, ~WriteFails, "ignore" \notin HookResults
  PROVE  Spec => []AckedIsRouted
PROOF
  <1> DEFINE Inv == IdsApart /\ NumberedIn /\ RingInv /\ RoutedInv
  <1>1. Init => Inv
    <2>1. Init => RoutedInv
      BY DEF Init, RoutedInv
    <2> QED
      BY <2>1, InitIn, InitRing
  <1>2. TypeOK /\ Inv /\ [Next]_vars => Inv'
    BY IdsApartStep, NumberedInStep, RingStep, RoutedStep
  <1>3. Inv => AckedIsRouted
    BY DEF RoutedInv, AckedIsRouted
  <1> QED
    BY <1>1, <1>2, <1>3, TypeCorrect, PTL DEF Spec

-----------------------------------------------------------------------------
(* Without QoS 2 towards the client no PUBREC comes from it, so that the    *)
(* receive quota is taken by its own publishes alone.                       *)

\* Nothing on its way to the client has QoS 2, and it sends no PUBREC.
Level1 ==
  /\ \A p \in Publishers : pub[p].q # 2
  /\ \A i \in Ids : inflight[i].t = "publish" => inflight[i].q # 2
  /\ \A k \in DOMAIN outbound : outbound[k].q # 2
  /\ \A k \in DOMAIN down : down[k].t = "publish" => down[k].q # 2
  /\ \A k \in DOMAIN up : up[k].t # "pubrec"

\* A publisher keeps the QoS of its message until it has none.
LEMMA FewerPublish ==
  ASSUME TypeOK, NEW p \in Publishers, PublishStep(p)
  PROVE  \A o \in Publishers : pub'[o].q \in {pub[o].q, 0}
PROOF
  <1>1. pub \in [Publishers -> PublisherState] /\ Idle.q = 0
    BY DEF TypeOK, TypePublishers, Idle
  <1>2. \/ pub' = [pub EXCEPT ![p] = Idle]
        \/ \E x : pub' = [pub EXCEPT ![p].pc = x]
        \/ \E x, y : pub' = [pub EXCEPT ![p].pc = x, ![p].id = y]
        \/ \E x, y : pub' = [pub EXCEPT ![p].quota = y, ![p].pc = x]
    <2>1. CASE NextPacketID(p)
      BY <2>1 DEF NextPacketID
    <2>2. CASE StoreInflight(p)
      BY <2>2 DEF StoreInflight
    <2>3. CASE LoadSendQuota(p) \/ SubSendQuota(p)
      BY <2>3 DEF LoadSendQuota, SubSendQuota
    <2>4. CASE HoldMessage(p) \/ SendOutbound(p)
      BY <2>4 DEF HoldMessage, SendOutbound
    <2> QED
      BY <2>1, <2>2, <2>3, <2>4 DEF PublishStep
  <1> HIDE DEF Idle
  <1>3. \A o \in Publishers : pub'[o] = pub[o] \/ o = p
    BY <1>1, <1>2
  <1>4. pub'[p].q \in {pub[p].q, 0}
    <2>1. pub[p] \in PublisherState
      BY <1>1
    <2>2. ASSUME NEW x, NEW y, \/ pub' = [pub EXCEPT ![p].pc = x]
                               \/ pub' = [pub EXCEPT ![p].pc = x, ![p].id = y]
                               \/ pub' = [pub EXCEPT ![p].quota = y, ![p].pc = x]
          PROVE  pub'[p].q = pub[p].q
      BY <1>1, <2>1, <2>2 DEF PublisherState
    <2> QED
      BY <1>1, <1>2, <2>2
  <1> QED
    BY <1>3, <1>4

\* The publishers keep it.
LEMMA Level1Publishers ==
  ASSUME TypeOK, Level1, Qos2Msgs = {}, NEW p \in Publishers, CheckInflight(p) \/ PublishStep(p)
  PROVE  Level1'
PROOF
  <1>1. UNCHANGED <<up, down>>
    BY DEF CheckInflight, PublishStep, NextPacketID, StoreInflight, LoadSendQuota, SubSendQuota, HoldMessage, SendOutbound
  <1>2. pub \in [Publishers -> PublisherState] /\ inflight \in [Ids -> Entry] /\ \A m : QosIn(Qos2Msgs, m) = 1
    BY DEF TypeOK, TypePublishers, TypeMap, QosIn
  <1>3. ASSUME \A o \in Publishers : pub'[o].q # 2, UNCHANGED inflight, UNCHANGED outbound PROVE Level1'
    BY <1>1, <1>3 DEF Level1
  <1>4. CASE CheckInflight(p)
    <2>1. UNCHANGED <<inflight, outbound>> /\ (pub' = pub \/ pub' = [pub EXCEPT ![p] = Begun(published + 1)])
      BY <1>4, CheckSteps DEF CheckInflight
    <2>2. Begun(published + 1).q = 1
      BY <1>2 DEF Begun
    <2> HIDE DEF Begun
    <2>3. \A o \in Publishers : pub'[o].q # 2
      BY <1>2, <2>1, <2>2 DEF Level1
    <2> QED
      BY <1>3, <2>1, <2>3
  <1>5. CASE NextPacketID(p) \/ LoadSendQuota(p) \/ SubSendQuota(p)
    <2>1. UNCHANGED <<inflight, outbound>>
      BY <1>5 DEF NextPacketID, LoadSendQuota, SubSendQuota, brokerVars
    <2>2. \A o \in Publishers : pub'[o].q \in {pub[o].q, 0}
      BY <1>5, FewerPublish DEF PublishStep
    <2> QED
      BY <1>3, <2>1, <2>2 DEF Level1
  <1>6. CASE StoreInflight(p) \/ HoldMessage(p)
    <2>1. UNCHANGED outbound /\ \A o \in Publishers : pub'[o].q \in {pub[o].q, 0}
      BY <1>6, FewerPublish, StoreSteps DEF PublishStep
    <2>2. \A i \in Ids : inflight'[i] = inflight[i] \/ inflight'[i].q = pub[p].q
      BY <1>2, <1>6, StoreSteps
    <2> QED
      BY <1>1, <2>1, <2>2 DEF Level1
  <1>7. CASE SendOutbound(p)
    <2>1. \A o \in Publishers : pub'[o].q \in {pub[o].q, 0}
      BY <1>7, FewerPublish DEF PublishStep
    <2>2. \A i \in Ids : inflight'[i] = inflight[i] \/ inflight'[i].t # "publish"
      BY <1>7, SendSteps
    <2>3. \A k \in DOMAIN outbound' : outbound'[k].q # 2
      <3>1. CASE UNCHANGED outbound
        BY <3>1 DEF Level1
      <3>2. ASSUME NEW pk \in Packet, outbound' = Append(outbound, pk), pk.q = pub[p].q
            PROVE  \A k \in DOMAIN outbound' : outbound'[k].q # 2
        <4>1. \A k \in DOMAIN outbound' : (k \in DOMAIN outbound /\ outbound'[k] = outbound[k]) \/ outbound'[k] = pk
          BY <3>2, Wires, Appended
        <4> QED
          BY <3>2, <4>1 DEF Level1
      <3> QED
        BY <1>7, <3>1, <3>2, SendSteps
    <2> QED
      BY <1>1, <2>1, <2>2, <2>3 DEF Level1
  <1> QED
    BY <1>4, <1>5, <1>6, <1>7 DEF PublishStep

\* So do the reader's steps, the writer's and those of the connection.
LEMMA Level1Broker ==
  ASSUME TypeOK, Level1,
         Reader \/ WriteLoop \/ ConnectionLost \/ ResumeSession \/ (\E i \in Ids : ClearExpiredInflight(i))
  PROVE  Level1'
PROOF
  <1>1. UNCHANGED pub
    BY HandlerReads DEF Reader, handlerFrame, NextImmediate, ResendInflightMessages, WriteLoop, ConnectionLost,
       ResumeSession, ClearExpiredInflight
  <1>2. inflight \in [Ids -> Entry] /\ \A j : Stored(j).t = inflight[j].t /\ Stored(j).q = inflight[j].q
    BY DEF TypeOK, TypeMap, Stored
  <1>3. ASSUME \A i \in Ids : inflight'[i] = inflight[i] \/ inflight'[i].t # "publish",
               \A k \in DOMAIN outbound' : \E l \in DOMAIN outbound : outbound'[k] = outbound[l],
               \A k \in DOMAIN down' : \/ \E l \in DOMAIN down : down'[k] = down[l]
                                       \/ down'[k].t # "publish" \/ down'[k].q # 2,
               \A k \in DOMAIN up' : (\E l \in DOMAIN up : up'[k] = up[l]) \/ up'[k].t # "pubrec"
        PROVE  Level1'
    BY <1>1, <1>3 DEF Level1
  <1>4. ASSUME NEW pk \in Packet, down' = Append(down, pk), pk.t # "publish" \/ pk.q # 2
        PROVE  \A k \in DOMAIN down' : \/ \E l \in DOMAIN down : down'[k] = down[l]
                                       \/ down'[k].t # "publish" \/ down'[k].q # 2
    <2>1. \A k \in DOMAIN down' : (k \in DOMAIN down /\ down'[k] = down[k]) \/ down'[k] = pk
      BY <1>4, Wires, Appended
    <2> QED
      BY <1>4, <2>1
  <1>5. CASE Handler
    <2>1. \A i \in Ids : inflight'[i] = inflight[i] \/ inflight'[i].t # "publish"
      BY <1>5, HandlerMap DEF HandlerEntry
    <2>2. \A k \in DOMAIN up' : k + 1 \in DOMAIN up /\ up'[k] = up[k + 1]
      BY <1>5, HandlerReads
    <2>3. \/ UNCHANGED <<down, outbound>>
          \/ down' = <<>> /\ outbound' = <<>>
          \/ UNCHANGED outbound /\ \E ack \in Packet : down' = Append(down, ack) /\ ack.t # "publish"
      BY <1>5, HandlerWires DEF HandlerAnswer, Acks
    <2> QED
      BY <1>3, <1>4, <2>1, <2>2, <2>3
  <1>6. CASE NextImmediate
    <2>1. /\ UNCHANGED <<outbound, up>>
          /\ \A i \in Ids : inflight'[i] = inflight[i] \/ inflight'[i].t # "publish"
          /\ UNCHANGED down \/ \E i \in Held : Stored(i) \in Packet /\ down' = Append(down, Stored(i))
      BY <1>6, TailSteps, UpBeside
    <2>2. \A i \in Held : Stored(i).q # 2
      BY <1>2 DEF Held, PubIds, Level1
    <2> HIDE DEF Stored
    <2> QED
      BY <1>3, <1>4, <2>1, <2>2
  <1>7. CASE ResendInflightMessages
    <2>1. UNCHANGED outbound /\ \A i \in Ids : inflight'[i] = inflight[i] \/ inflight'[i].t # "publish"
      BY <1>2, <1>7 DEF ResendInflightMessages, NoEntry
    <2>2. \A k \in DOMAIN up' : up'[k].t # "pubrec"
      BY <1>7, ClientResends DEF ClientResend
    <2>3. \A k \in DOMAIN down' : \/ \E l \in DOMAIN down : down'[k] = down[l]
                                  \/ down'[k].t # "publish" \/ down'[k].q # 2
      <3>1. \A k \in DOMAIN down' : \/ k \in DOMAIN down /\ down'[k] = down[k]
                                    \/ \E j \in InUse : down'[k] = Stored(j)
        BY <1>7, Resends
      <3>2. \A j \in InUse : Stored(j).t # "publish" \/ Stored(j).q # 2
        BY <1>2 DEF InUse, Level1
      <3> HIDE DEF Stored
      <3> QED
        BY <3>1, <3>2
    <2> QED
      BY <1>3, <2>1, <2>2, <2>3
  <1>8. CASE WriteLoop
    <2>1. UNCHANGED <<inflight, up>> /\ outbound # <<>> /\ down' = Append(down, Head(outbound)) /\ outbound' = Tail(outbound)
      BY <1>8 DEF WriteLoop
    <2>2. \A k \in DOMAIN outbound' : k + 1 \in DOMAIN outbound /\ outbound'[k] = outbound[k + 1]
      BY <2>1, Wires, Shrunk
    <2>3. Head(outbound) \in Packet /\ Head(outbound).q # 2
      BY <2>1, Wires, HeadAt, SeqType DEF Level1
    <2> QED
      BY <1>3, <1>4, <2>1, <2>2, <2>3
  <1>9. CASE ConnectionLost
    <2>1. UNCHANGED inflight /\ up' = <<>> /\ down' = <<>> /\ outbound' = <<>>
      BY <1>9 DEF ConnectionLost, Closed
    <2> QED
      BY <1>3, <2>1
  <1>10. CASE ResumeSession
    BY <1>3, <1>10 DEF ResumeSession
  <1>11. ASSUME NEW i \in Ids, ClearExpiredInflight(i) PROVE Level1'
    <2>1. UNCHANGED <<outbound, down, up>> /\ \A j \in Ids : inflight'[j] = inflight[j] \/ inflight'[j].t # "publish"
      BY <1>2, <1>11 DEF ClearExpiredInflight, Delete, NoEntry
    <2> QED
      BY <1>3, <2>1
  <1> QED
    BY <1>5, <1>6, <1>7, <1>8, <1>9, <1>10, <1>11 DEF Reader

\* So do the client's.
LEMMA Level1Client ==
  ASSUME TypeOK, Level1, ClientStep \/ \E j \in ClientIds : ClientPublish(j)
  PROVE  Level1'
PROOF
  <1>1. UNCHANGED <<pub, inflight, outbound>>
    BY DEF ClientStep, ClientGetsPublish, ClientGetsPubrel, ClientGetsAck, ClientPublish, clientFrame, brokerVars
  <1>2. \A k \in DOMAIN down' : \E l \in DOMAIN down : down'[k] = down[l]
    <2>1. CASE ClientReads
      BY <2>1, InAt
    <2>2. CASE UNCHANGED down
      BY <2>2
    <2> QED
      BY <2>1, <2>2 DEF ClientStep, ClientGetsPublish, ClientGetsPubrel, ClientGetsAck, ClientPublish
  <1>3. up' = up \/ \E pk \in Packet : up' = Append(up, pk) /\ pk.t # "pubrec"
    <2>1. CASE ClientGetsPublish
      <3>1. In.t = "publish" /\ 1 \in DOMAIN down /\ down[1] = In /\ In \in Packet /\ ClientReads
        BY <2>1, InAt DEF ClientGetsPublish
      <3>2. In.q # 2
        BY <3>1 DEF Level1
      <3>3. up' = Append(up, Ack("puback", In, FALSE))
        BY <2>1, <3>2 DEF ClientGetsPublish, Answer
      <3>4. Ack("puback", In, FALSE) \in Packet /\ Ack("puback", In, FALSE).t = "puback"
        BY <3>1, AckType DEF Ack, Acks
      <3> HIDE DEF Ack
      <3> QED
        BY <3>3, <3>4
    <2>2. CASE ClientGetsPubrel
      <3>1. In \in Packet /\ up' = Append(up, Ack("pubcomp", In, FALSE))
        BY <2>2, InAt DEF ClientGetsPubrel, Answer
      <3>2. Ack("pubcomp", In, FALSE) \in Packet /\ Ack("pubcomp", In, FALSE).t = "pubcomp"
        BY <3>1, AckType DEF Ack, Acks
      <3> HIDE DEF Ack
      <3> QED
        BY <3>1, <3>2
    <2>3. CASE ClientGetsAck
      BY <2>3, AckMoves
    <2>4. ASSUME NEW j \in ClientIds, ClientPublish(j)
          PROVE  \E pk \in Packet : up' = Append(up, pk) /\ pk.t # "pubrec"
      BY <2>4, PublishMoves
    <2> QED
      BY <2>1, <2>2, <2>3, <2>4 DEF ClientStep
  <1>4. \A k \in DOMAIN up' : up'[k].t # "pubrec"
    <2>1. ASSUME NEW pk \in Packet, up' = Append(up, pk), pk.t # "pubrec" PROVE \A k \in DOMAIN up' : up'[k].t # "pubrec"
      <3>1. \A k \in DOMAIN up' : (k \in DOMAIN up /\ up'[k] = up[k]) \/ up'[k] = pk
        BY <2>1, Wires, Appended
      <3> QED
        BY <2>1, <3>1 DEF Level1
    <2> QED
      BY <1>3, <2>1 DEF Level1
  <1> QED
    BY <1>1, <1>2, <1>4 DEF Level1

\* Every step keeps it.
LEMMA Level1Step ==
  ASSUME TypeOK, Level1, Qos2Msgs = {}, [Next]_vars
  PROVE  Level1'
PROOF
  <1>1. CASE UNCHANGED vars
    BY <1>1 DEF vars, brokerVars, Level1
  <1> QED
    BY <1>1, Level1Publishers, Level1Broker, Level1Client DEF Next

-----------------------------------------------------------------------------
(* The receive quota.                                                       *)

\* The ids a receive quota may have been taken for: a PUBREC is recorded and no repeated
\* publish is on its way.  (After a reconnect the quota is full again, and a repeated publish
\* is refused before it is charged.)
Charged ==
  {i \in ClientIds : inflight[i].t = "pubrec" /\ \A k \in DOMAIN up : ~Is(up[k], "publish", i)}

\* Whatever was taken from the quota was taken for one of these; the client keeps to it.
QuotaInv ==
  /\ recvQuota + Cardinality(Charged) >= ReceiveMaximum
  /\ Cardinality(ClientBusy) <= ReceiveMaximum
  /\ rd = "resend" => recvQuota = ReceiveMaximum

\* Sets of the client's ids are finite.
LEMMA ClientSets ==
  ASSUME NEW S, S \subseteq ClientIds
  PROVE  /\ IsFiniteSet(S) /\ Cardinality(S) \in Nat
         /\ \A T \in SUBSET S : Cardinality(T) <= Cardinality(S)
         /\ \A x : Cardinality(S \cup {x}) = IF x \in S THEN Cardinality(S) ELSE Cardinality(S) + 1
PROOF
  <1>1. IsFiniteSet(S) /\ Cardinality(S) \in Nat
    BY QosFlowAssumption, FS_Subset, FS_CardinalityType
  <1>2. \A T \in SUBSET S : Cardinality(T) <= Cardinality(S)
    BY <1>1, FS_Subset
  <1>3. \A x : Cardinality(S \cup {x}) = IF x \in S THEN Cardinality(S) ELSE Cardinality(S) + 1
    BY <1>1, FS_AddElement
  <1> QED
    BY <1>1, <1>2, <1>3

\* The quota is a number up to the maximum, and stays one when it is raised.
LEMMA QuotaNumber ==
  ASSUME TypeOK
  PROVE  /\ recvQuota \in 0 .. ReceiveMaximum /\ ReceiveMaximum \in Nat
         /\ Increased(recvQuota, ReceiveMaximum) = IF recvQuota < ReceiveMaximum THEN recvQuota + 1 ELSE recvQuota
BY QosFlowAssumption DEF TypeOK, TypeMap, Increased

\* With no less quota and no fewer ids the sum stays.
LEMMA QuotaKept ==
  ASSUME TypeOK, QuotaInv, recvQuota' \in Int, recvQuota' >= recvQuota, Charged \subseteq Charged'
  PROVE  recvQuota' + Cardinality(Charged') >= ReceiveMaximum
PROOF
  <1>1. Charged' \subseteq ClientIds
    BY DEF Charged
  <1>2. Cardinality(Charged) <= Cardinality(Charged') /\ Cardinality(Charged') \in Nat
    BY <1>1, ClientSets
  <1>3. Cardinality(Charged) \in Nat
    <2>1. Charged \subseteq ClientIds
      BY DEF Charged
    <2> QED
      BY <2>1, ClientSets
  <1>4. recvQuota + Cardinality(Charged) >= ReceiveMaximum /\ recvQuota \in Int /\ ReceiveMaximum \in Int
    BY QuotaNumber DEF QuotaInv
  <1> QED
    BY <1>2, <1>3, <1>4

\* The others take no quota, and a new connection brings a full one.
LEMMA QuotaOthers ==
  ASSUME TypeOK, IdsApart, QuotaInv, ClientIds \cap BrokerIds = {}, MaxExpired = 0,
         \/ \E p \in Publishers : CheckInflight(p) \/ PublishStep(p)
         \/ WriteLoop \/ NextImmediate \/ ResumeSession \/ (\E i \in Ids : ClearExpiredInflight(i))
         \/ UNCHANGED vars
  PROVE  QuotaInv'
PROOF
  <1>1. UNCHANGED <<up, cout>> /\ \A i \in ClientIds : inflight'[i] = inflight[i]
    BY BesideIn
  <1>2. UNCHANGED <<Charged, ClientBusy>>
    BY <1>1 DEF Charged, ClientBusy
  <1>3. (UNCHANGED recvQuota /\ rd' \in {rd, "idle"}) \/ recvQuota' = ReceiveMaximum
    BY DEF CheckInflight, PublishStep, NextPacketID, StoreInflight, LoadSendQuota, SubSendQuota, HoldMessage, SendOutbound,
       WriteLoop, NextImmediate, ResumeSession, ClearExpiredInflight, vars, brokerVars
  <1>4. recvQuota' \in Int /\ recvQuota' >= recvQuota
    BY <1>3, QuotaNumber
  <1>5. rd' = "resend" => recvQuota' = ReceiveMaximum
    BY <1>3 DEF QuotaInv
  <1> QED
    BY <1>2, <1>4, <1>5, QuotaKept DEF QuotaInv

\* A lost connection and a resend take none either.
LEMMA QuotaConnection ==
  ASSUME TypeOK, QuotaInv, ConnectionLost \/ ResendInflightMessages
  PROVE  QuotaInv'
PROOF
  <1>1. UNCHANGED <<cout, recvQuota>> /\ rd' # "resend"
    BY DEF ConnectionLost, ResendInflightMessages, clientVars
  <1>2. CASE ConnectionLost
    <2>1. UNCHANGED inflight /\ up' = <<>>
      BY <1>2 DEF ConnectionLost, Closed
    <2>2. Charged \subseteq Charged'
      BY <2>1 DEF Charged
    <2> QED
      BY <1>1, <2>2, QuotaNumber, QuotaKept DEF QuotaInv, ClientBusy
  <1>3. CASE ResendInflightMessages
    <2>1. recvQuota = ReceiveMaximum
      BY <1>3 DEF ResendInflightMessages, QuotaInv
    <2>2. Charged' \subseteq ClientIds
      BY DEF Charged
    <2>3. Cardinality(Charged') \in Nat
      BY <2>2, ClientSets
    <2> QED
      BY <1>1, <2>1, <2>3, QuotaNumber DEF QuotaInv, ClientBusy
  <1> QED
    BY <1>2, <1>3

\* The client publishes only within its Receive Maximum, and what it sends besides is no publish.
LEMMA QuotaClient ==
  ASSUME TypeOK, IdsApart, RingInv, QuotaInv, ClientStep \/ \E j \in ClientIds : ClientPublish(j)
  PROVE  QuotaInv'
PROOF
  <1>1. UNCHANGED <<inflight, recvQuota, rd>>
    BY DEF ClientStep, ClientGetsPublish, ClientGetsPubrel, ClientGetsAck, ClientPublish, clientFrame, brokerVars
  <1>2. recvQuota' \in Int /\ recvQuota' >= recvQuota
    BY <1>1, QuotaNumber
  <1>3. ASSUME NEW pk \in Packet, up' = Append(up, pk), \A i \in Charged : ~Is(pk, "publish", i)
        PROVE  Charged \subseteq Charged'
    <2>1. \A k \in DOMAIN up' : (k \in DOMAIN up /\ up'[k] = up[k]) \/ up'[k] = pk
      BY <1>3, Wires, Appended
    <2> QED
      BY <1>1, <1>3, <2>1 DEF Charged
  <1>4. CASE ClientStep
    <2>1. up' = up \/ \E pk \in Packet : up' = Append(up, pk) /\ pk.t # "publish"
      BY <1>4, ClientAnswers, AckMoves DEF ClientStep
    <2>2. Charged \subseteq Charged'
      <3>1. CASE up' = up
        BY <1>1, <3>1 DEF Charged
      <3>2. ASSUME NEW pk \in Packet, up' = Append(up, pk), pk.t # "publish" PROVE Charged \subseteq Charged'
        BY <1>3, <3>2 DEF Is
      <3> QED
        BY <2>1, <3>1, <3>2
    <2>3. ClientBusy' \subseteq ClientBusy
      BY <1>4, ClientAnswers, AckMoves DEF ClientStep, ClientBusy
    <2>4. Cardinality(ClientBusy') <= Cardinality(ClientBusy) /\ Cardinality(ClientBusy) \in Nat /\ Cardinality(ClientBusy') \in Nat
      <3>1. ClientBusy \subseteq ClientIds /\ ClientBusy' \subseteq ClientIds
        BY DEF ClientBusy
      <3> QED
        BY <2>3, <3>1, ClientSets
    <2> QED
      BY <1>1, <1>2, <2>2, <2>4, QuotaKept, QuotaNumber DEF QuotaInv
  <1>5. ASSUME NEW j \in ClientIds, ClientPublish(j) PROVE QuotaInv'
    <2>1. PICK pk \in Packet : up' = Append(up, pk) /\ pk.id = j
      BY <1>5, PublishMoves
    <2>2. cout[j].s = "free" /\ \A i \in ClientIds : i # j => cout'[i] = cout[i]
      BY <1>5, PublishMoves
    <2>3. j \notin Charged
      BY <2>2 DEF RingInv, RingAt, Ring, RingFree, Charged
    <2>4. Charged \subseteq Charged'
      BY <1>3, <2>1, <2>3 DEF Is
    <2>5. ClientBusy' \subseteq ClientBusy \cup {j} /\ j \notin ClientBusy /\ ClientBusy \subseteq ClientIds
      BY <2>2 DEF ClientBusy
    <2>6. Cardinality(ClientBusy') <= Cardinality(ClientBusy) + 1 /\ Cardinality(ClientBusy') \in Nat /\ Cardinality(ClientBusy) \in Nat
      <3> DEFINE S == ClientBusy \cup {j}
      <3>1. S \subseteq ClientIds /\ ClientBusy' \in SUBSET S
        BY <2>5
      <3>2. Cardinality(S) = Cardinality(ClientBusy) + 1 /\ Cardinality(ClientBusy) \in Nat
        BY <2>5, ClientSets
      <3> HIDE DEF S
      <3>3. Cardinality(ClientBusy') <= Cardinality(S)
        BY <3>1, ClientSets
      <3>4. ClientBusy' \subseteq ClientIds
        BY <3>1
      <3>5. Cardinality(ClientBusy') \in Nat
        BY <3>4, ClientSets
      <3> QED
        BY <3>2, <3>3, <3>5
    <2>7. Cardinality(ClientBusy) < ReceiveMaximum
      BY <1>5 DEF ClientPublish
    <2>8. Cardinality(ClientBusy') <= ReceiveMaximum
      BY <2>6, <2>7, QuotaNumber
    <2> QED
      BY <1>1, <1>2, <2>4, <2>8, QuotaKept DEF QuotaInv
  <1> QED
    BY <1>4, <1>5

\* A handler takes quota only for a publish it records, and gives it back for what it forgets.
LEMMA QuotaHandler ==
  ASSUME TypeOK, TypeOK', IdsApart, NumberedIn, RingInv, QuotaInv, Level1, ClientIds \cap BrokerIds = {},
         ~WriteFails, Handler
  PROVE  QuotaInv'
PROOF
  <1>1. UNCHANGED cout /\ rd = "idle" /\ rd' \in {"idle", "tail"} /\ recvQuota' \in Int
    BY HandlerReads, HandlerWires DEF handlerFrame, clientVars, TypeOK, TypeMap
  <1>2. SUFFICES recvQuota' + Cardinality(Charged') >= ReceiveMaximum
    BY <1>1 DEF QuotaInv, ClientBusy
  <1>3. CASE OverQuota
    <2>1. Charged \subseteq Charged'
      BY <1>3 DEF OverQuota, Charged
    <2>2. recvQuota' >= recvQuota
      BY <1>3, QuotaNumber DEF OverQuota
    <2> QED
      BY <1>1, <2>1, <2>2, QuotaKept
  <1>4. CASE PacketRead
    <2>1. /\ 1 \in DOMAIN up /\ up[1] = Pk /\ \A k \in DOMAIN up' : k + 1 \in DOMAIN up /\ up'[k] = up[k + 1]
          /\ \A k \in DOMAIN up' : k \in Nat /\ k >= 1
      BY HandlerReads
    <2>2. ASSUME NEW i \in Charged, i # Pk.id PROVE i \in Charged'
      <3>1. i \in ClientIds /\ inflight'[i] = inflight[i]
        BY <1>4, <2>2, ReadKept DEF Charged
      <3> QED
        BY <2>1, <2>2, <3>1 DEF Charged
    <2>3. Pk.t = "publish" => Pk.id \notin Charged /\ Pk.id \in ClientIds
      BY <2>1 DEF Charged, Is, IdsApart
    <2>4. Increased(recvQuota, ReceiveMaximum) >= recvQuota
      BY QuotaNumber
    <2>5. CASE PublishRefused
      <3>1. Charged \subseteq Charged' /\ recvQuota' >= recvQuota
        BY <2>2, <2>3, <2>5, QuotaNumber DEF PublishRefused
      <3> QED
        BY <1>1, <3>1, QuotaKept
    <2>6. CASE PublishTaken
      <3>1. Charged \subseteq Charged' /\ Pk.t = "publish" /\ recvQuota # 0
        BY <2>2, <2>3, <2>6 DEF PublishTaken
      <3>2. CASE recvQuota' = Increased(Decreased(recvQuota), ReceiveMaximum)
        <4>1. recvQuota' >= recvQuota
          BY <3>1, <3>2, QuotaNumber DEF Increased, Decreased
        <4> QED
          BY <1>1, <3>1, <4>1, QuotaKept
      <3>3. CASE inflight'[Pk.id].t = "pubrec" /\ recvQuota' = Decreased(recvQuota)
        <4>1. recvQuota' = recvQuota - 1
          BY <3>1, <3>3, QuotaNumber DEF Decreased
        <4>2. ASSUME NEW i, i = Pk.id PROVE i \in Charged'
          <5>1. i \in ClientIds /\ inflight'[i].t = "pubrec"
            BY <2>3, <3>1, <3>3, <4>2
          <5>2. \A k, l \in DOMAIN up : Is(up[k], "publish", i) /\ Is(up[l], "publish", i) => k = l
            BY <5>1 DEF RingInv, RingAt, Ring, RingOfOne
          <5>3. ASSUME NEW k \in DOMAIN up', Is(up'[k], "publish", i) PROVE FALSE
            <6>1. k + 1 = 1
              BY <2>1, <3>1, <4>2, <5>2, <5>3 DEF Is
            <6> QED
              BY <2>1, <6>1
          <5> QED
            BY <5>1, <5>3 DEF Charged
        <4> DEFINE S == Charged \cup {Pk.id}
        <4>3. S \subseteq Charged' /\ Charged' \subseteq ClientIds /\ Charged \subseteq ClientIds /\ Pk.id \notin Charged
          <5>1. Charged' \subseteq ClientIds /\ Charged \subseteq ClientIds
            BY DEF Charged
          <5>2. \A i \in {Pk.id} : i \in Charged'
            BY <4>2
          <5> QED
            BY <2>3, <3>1, <5>1, <5>2
        <4>4. Cardinality(S) = Cardinality(Charged) + 1 /\ Cardinality(Charged) \in Nat
          BY <4>3, ClientSets
        <4> HIDE DEF S
        <4>5. Cardinality(S) <= Cardinality(Charged') /\ Cardinality(Charged') \in Nat
          BY <4>3, ClientSets
        <4>6. recvQuota + Cardinality(Charged) >= ReceiveMaximum
          BY DEF QuotaInv
        <4> QED
          BY <4>1, <4>4, <4>5, <4>6, QuotaNumber
      <3> QED
        BY <2>6, <3>2, <3>3 DEF PublishTaken
    <2>7. CASE ReleaseAnswered
      <3>1. CASE Charged \subseteq Charged'
        <4>1. recvQuota' >= recvQuota
          BY <2>4, <2>7, QuotaNumber DEF ReleaseAnswered
        <4> QED
          BY <1>1, <3>1, <4>1, QuotaKept
      <3>2. CASE ~(Charged \subseteq Charged')
        <4>1. Pk.id \in Charged
          BY <2>2, <3>2
        <4>2. ~Pk.err /\ inflight[Pk.id].t # "none"
          BY <1>4, <2>7, <4>1, ReadOfClient DEF Charged, ReleaseAnswered
        <4>3. recvQuota' = Increased(recvQuota, ReceiveMaximum)
          BY <2>7, <4>2 DEF ReleaseAnswered
        <4> DEFINE T == Charged \ {Pk.id}
        <4>4. /\ T \subseteq Charged' /\ Charged' \subseteq ClientIds /\ T \subseteq ClientIds
              /\ Charged = T \cup {Pk.id} /\ Pk.id \notin T
          <5>1. Charged' \subseteq ClientIds /\ Charged \subseteq ClientIds
            BY DEF Charged
          <5> QED
            BY <2>2, <4>1, <5>1
        <4> HIDE DEF T
        <4>5. Cardinality(Charged) = Cardinality(T) + 1 /\ Cardinality(T) \in Nat
          BY <4>4, ClientSets
        <4>6. Cardinality(T) <= Cardinality(Charged') /\ Cardinality(Charged') \in Nat
          BY <4>4, ClientSets
        <4>7. recvQuota + Cardinality(Charged) >= ReceiveMaximum
          BY DEF QuotaInv
        <4>8. recvQuota' = IF recvQuota < ReceiveMaximum THEN recvQuota + 1 ELSE recvQuota
          BY <4>3, QuotaNumber
        <4>9. recvQuota \in 0 .. ReceiveMaximum /\ ReceiveMaximum \in Nat
          BY QuotaNumber
        <4> QED
          BY <4>5, <4>6, <4>7, <4>8, <4>9
      <3> QED
        BY <3>1, <3>2
    <2>8. CASE OtherAcked
      <3>1. Pk.id \notin ClientIds /\ Pk.t # "pubrec"
        BY <2>1, <2>8 DEF OtherAcked, IdsApart, Level1
      <3>2. Charged \subseteq Charged'
        <4>1. Charged \subseteq ClientIds
          BY DEF Charged
        <4> QED
          BY <2>2, <3>1, <4>1
      <3>3. recvQuota' >= recvQuota
        BY <2>4, <2>8, <3>1, QuotaNumber DEF OtherAcked
      <3> QED
        BY <1>1, <3>2, <3>3, QuotaKept
    <2> QED
      BY <1>4, <2>5, <2>6, <2>7, <2>8 DEF PacketRead
  <1> QED
    BY <1>3, <1>4, HandlerShape

\* Every step keeps it.
LEMMA QuotaStep ==
  ASSUME TypeOK, TypeOK', IdsApart, NumberedIn, RingInv, QuotaInv, Level1, ClientIds \cap BrokerIds = {},
         ~WriteFails, MaxExpired = 0, [Next]_vars
  PROVE  QuotaInv'
BY QuotaOthers, QuotaConnection, QuotaHandler, QuotaClient DEF Next, Reader

\* A full quota and no exchange are within it.
LEMMA InitQuota == Init => QuotaInv /\ Level1
PROOF
  <1> SUFFICES ASSUME Init PROVE QuotaInv /\ Level1
    OBVIOUS
  <1>1. recvQuota = ReceiveMaximum /\ rd = "idle" /\ ReceiveMaximum \in Nat
    BY QosFlowAssumption DEF Init
  <1>2. ClientBusy = {} /\ Charged \subseteq ClientIds
    BY DEF Init, ClientBusy, Charged
  <1>3. Cardinality(ClientBusy) = 0 /\ Cardinality(Charged) \in Nat
    BY <1>2, ClientSets, FS_EmptySet
  <1>4. Level1
    BY DEF Init, Level1, Idle, NoEntry
  <1> QED
    BY <1>1, <1>3, <1>4 DEF QuotaInv

\* One publish on its way is not charged yet, so that its charge is still there.
LEMMA QuotaLeft ==
  ASSUME TypeOK, IdsApart, RingInv, QuotaInv
  PROVE  NeverOverQuota
PROOF
  <1> SUFFICES ASSUME Reading("publish") PROVE recvQuota > 0
    BY DEF NeverOverQuota
  <1>1. up # <<>> /\ Pk.t = "publish" /\ 1 \in DOMAIN up /\ up[1] = Pk
    BY Wires, HeadAt DEF Reading, Pk
  <1>2. Pk.id \in ClientIds
    BY <1>1 DEF IdsApart
  <1>3. cout[Pk.id].s # "free"
    BY <1>1, <1>2 DEF RingInv, RingAt, Ring, RingOfOne, Is
  <1>4. Pk.id \notin Charged /\ Pk.id \in ClientBusy
    BY <1>1, <1>2, <1>3 DEF Charged, Is, ClientBusy
  <1>5. Charged \subseteq ClientBusy /\ ClientBusy \subseteq ClientIds
    BY DEF Charged, ClientBusy, RingInv, RingAt, Ring, RingFree
  <1> DEFINE S == Charged \cup {Pk.id}
  <1>6. Cardinality(S) = Cardinality(Charged) + 1 /\ Cardinality(Charged) \in Nat
    BY <1>4, <1>5, ClientSets
  <1>7. S \in SUBSET ClientBusy
    BY <1>4, <1>5
  <1> HIDE DEF S
  <1>8. Cardinality(S) <= Cardinality(ClientBusy) /\ Cardinality(ClientBusy) \in Nat
    BY <1>5, <1>7, ClientSets
  <1>9. recvQuota + Cardinality(Charged) >= ReceiveMaximum /\ Cardinality(ClientBusy) <= ReceiveMaximum
    BY DEF QuotaInv
  <1> QED
    BY <1>6, <1>8, <1>9, QuotaNumber

\* A client that keeps to the Receive Maximum it was granted never meets an exhausted receive
\* quota, however often it comes back and repeats itself; messages sent to it with QoS 2, whose
\* PUBRECs take from the same quota, expiry, which returns none, and a connection that dies
\* under the write of an answer are left out.
THEOREM QuotaSuffices ==
  ASSUME ClientIds \cap BrokerIds = {}, ~WriteFails, MaxExpired = 0, Qos2Msgs = {}
  PROVE  Spec => []NeverOverQuota
PROOF
  <1> DEFINE Inv == IdsApart /\ NumberedIn /\ RingInv /\ Level1 /\ QuotaInv
  <1>1. Init => Inv
    BY InitIn, InitRing, InitQuota
  <1>2. TypeOK /\ TypeOK' /\ Inv /\ [Next]_vars => Inv'
    BY IdsApartStep, NumberedInStep, RingStep, Level1Step, QuotaStep
  <1>3. TypeOK /\ Inv => NeverOverQuota
    BY QuotaLeft
  <1> QED
    BY <1>1, <1>2, <1>3, TypeCorrect, PTL DEF Spec
=============================================================================
