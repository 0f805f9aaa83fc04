-------------------------- MODULE QosOnce_proofs --------------------------
(***************************************************************************)
(* Exactly once, in both directions of QosFlow: a QoS 2 publish of the     *)
(* client is routed at most once, and a QoS 2 message reaches the client's *)
(* application at most once.  Both hold for any number of publishers and   *)
(* messages, any ids, quotas and channel size, any answers of the hooks    *)
(* and any number of lost connections.                                     *)
(*                                                                         *)
(* Each direction has an inductive invariant of the whole loop: what the   *)
(* map stores, what is queued, what the wires carry and in which order,    *)
(* and what the other side remembers.  IdsApart, NumberedIn and OnceIn are *)
(* the one of the client's publishes; Quiet, NumberedOut, SentOnce, SameId *)
(* and OnceOut are the one of the messages towards the client.             *)
(***************************************************************************)
EXTENDS QosFlow_proofs, FunctionTheorems

-----------------------------------------------------------------------------
(* The invariants.                                                          *)

\* The ids NextPacketID hands out, and a packet of a type under an id.
BrokerIds == 1 .. MaxPacketID
Is(pk, t, i) == pk.t = t /\ pk.id = i

\* Publishes and their releases go out under the broker's ids, the client's own publishes
\* under the client's, and each side acknowledges under the other's.
IdsApart ==
  /\ \A i \in Ids : inflight[i].t \in {"publish", "pubrel"} => i \in BrokerIds
  /\ \A k \in DOMAIN outbound : outbound[k].t = "publish" /\ outbound[k].id \in BrokerIds
  /\ \A k \in DOMAIN down : down[k].t \in {"publish", "pubrel"} => down[k].id \in BrokerIds
  /\ \A k \in DOMAIN up : up[k].t \in {"puback", "pubrec", "pubcomp"} => up[k].id \in BrokerIds
  /\ \A k \in DOMAIN up : up[k].t = "publish" => up[k].id \in ClientIds

\* The client's publishes are numbered: each is under way under one id and on the wire once.
NumberedIn ==
  /\ routed \in [InMsgs -> Nat]
  /\ \A m \in InMsgs : m > accepted => routed[m] = 0
  /\ \A i \in ClientBusy : cout[i].m \in 1 .. accepted /\ cout[i].q = QosIn(Qos2In, cout[i].m)
  /\ \A i, j \in ClientBusy : cout[i].m = cout[j].m => i = j
  /\ \A k \in DOMAIN up : up[k].t = "publish" =>
       /\ up[k].m \in 1 .. accepted /\ up[k].q = QosIn(Qos2In, up[k].m)
       /\ \A i \in ClientBusy : cout[i].m = up[k].m => up[k].id = i
       /\ \A l \in DOMAIN up : up[l].t = "publish" /\ up[l].m = up[k].m => l = k

\* A QoS 2 publish that was routed and may be read again still has its PUBREC in the map, and
\* no release that would remove it comes first.
OnceIn ==
  /\ \A m \in Qos2In : routed[m] <= 1
  /\ \A k \in DOMAIN up : up[k].t = "publish" /\ up[k].q = 2 /\ routed[up[k].m] > 0 =>
       /\ inflight[up[k].id].t = "pubrec"
       /\ \A j \in DOMAIN up : j < k => ~Is(up[j], "pubrel", up[k].id)
  /\ \A i \in ClientIds : cout[i].s = "pub" /\ cout[i].q = 2 =>
       /\ routed[cout[i].m] > 0 =>
            inflight[i].t = "pubrec" /\ \A j \in DOMAIN up : ~Is(up[j], "pubrel", i)
       /\ \A k \in DOMAIN up : up[k].t = "publish" /\ up[k].m = cout[i].m =>
            \A j \in DOMAIN up : j > k => ~Is(up[j], "pubrel", i)

Busy == {p \in Publishers : pub[p].pc # "idle"}

\* Only a connection carries packets, and nobody publishes before it has resent.
Quiet ==
  /\ ~conn => outbound = <<>> /\ down = <<>>
  /\ rd = "resend" => outbound = <<>> /\ down = <<>> /\ Busy = {}

\* The messages towards the client are numbered: each is in one hand and stored once.
NumberedOut ==
  /\ got \in [Msgs -> Nat]
  /\ \A m \in Msgs : m > published => got[m] = 0
  /\ \A p \in Busy : pub[p].m \in 1 .. published /\ pub[p].q = QosIn(Qos2Msgs, pub[p].m)
  /\ \A p, o \in Busy : pub[p].m = pub[o].m => p = o
  /\ \A i \in PubIds : inflight[i].m \in 1 .. published /\ inflight[i].q = QosIn(Qos2Msgs, inflight[i].m)
  /\ \A i, j \in PubIds : inflight[i].m = inflight[j].m => i = j
  /\ \A k \in DOMAIN outbound :
       /\ outbound[k].t = "publish" /\ outbound[k].m \in 1 .. published
       /\ outbound[k].q = QosIn(Qos2Msgs, outbound[k].m)
  /\ \A k \in DOMAIN down : down[k].t = "publish" =>
       down[k].m \in 1 .. published /\ down[k].q = QosIn(Qos2Msgs, down[k].m)

\* A message that a publisher has in hand, or that is queued, was not sent before, and
\* nobody else will send it.
SentOnce ==
  /\ \A p \in Busy :
       /\ got[pub[p].m] = 0
       /\ \A k \in DOMAIN outbound : outbound[k].m # pub[p].m
       /\ \A k \in DOMAIN down : down[k].t = "publish" => down[k].m # pub[p].m
       /\ \A i \in PubIds : inflight[i].m = pub[p].m =>
            pub[p].pc \notin {"nextid", "set"} /\ i = pub[p].id /\ ~inflight[i].held
  /\ \A k \in DOMAIN outbound :
       /\ got[outbound[k].m] = 0
       /\ \A l \in DOMAIN outbound : outbound[l].m = outbound[k].m => l = k
       /\ \A l \in DOMAIN down : down[l].t = "publish" => down[l].m # outbound[k].m
       /\ \A i \in PubIds : inflight[i].m = outbound[k].m => i = outbound[k].id /\ ~inflight[i].held

\* All copies of a message use one id, and no release of the id comes between them.
SameId ==
  \A k \in DOMAIN down : down[k].t = "publish" =>
    /\ \A i \in PubIds : inflight[i].m = down[k].m =>
         i = down[k].id /\ \A j \in DOMAIN down : j > k => ~Is(down[j], "pubrel", i)
    /\ \A l \in DOMAIN down : l > k /\ down[l].t = "publish" /\ down[l].m = down[k].m =>
         down[l].id = down[k].id /\ \A j \in DOMAIN down : k < j /\ j < l => ~Is(down[j], "pubrel", down[k].id)

\* A QoS 2 message that the client has and that may come again is one whose id it remembers.
OnceOut ==
  /\ \A m \in Qos2Msgs : got[m] <= 1
  /\ \A i \in PubIds : inflight[i].q = 2 /\ got[inflight[i].m] > 0 =>
       i \in cdup /\ \A j \in DOMAIN down : ~Is(down[j], "pubrel", i)
  /\ \A k \in DOMAIN down : down[k].t = "publish" /\ down[k].q = 2 /\ got[down[k].m] > 0 =>
       down[k].id \in cdup /\ \A j \in DOMAIN down : j < k => ~Is(down[j], "pubrel", down[k].id)

-----------------------------------------------------------------------------
(* Sequences by their positions.                                            *)

\* What an appended packet does to the positions.
LEMMA Appended ==
  ASSUME NEW s \in Seq(Packet), NEW pk \in Packet
  PROVE  \A k \in DOMAIN Append(s, pk) :
           \/ k \in DOMAIN s /\ Append(s, pk)[k] = s[k] /\ k <= Len(s)
           \/ k \notin DOMAIN s /\ Append(s, pk)[k] = pk /\ k = Len(s) + 1
PROOF
  <1>1. /\ Append(s, pk) \in Seq(Packet) /\ Len(Append(s, pk)) = Len(s) + 1
        /\ \A i \in 1 .. Len(s) : Append(s, pk)[i] = s[i]
        /\ Append(s, pk)[Len(s) + 1] = pk
    BY AppendProperties
  <1>2. Len(s) \in Nat /\ DOMAIN s = 1 .. Len(s) /\ DOMAIN Append(s, pk) = 1 .. Len(Append(s, pk))
    BY <1>1, LenProperties
  <1> HIDE DEF Packet
  <1> QED
    BY <1>1, <1>2

\* What is left of a sequence whose head is taken, or of one that is emptied.
LEMMA Shrunk ==
  ASSUME NEW s \in Seq(Packet), NEW t, t = <<>> \/ (s # <<>> /\ t = Tail(s))
  PROVE  \A k \in DOMAIN t : k \in Nat /\ k >= 1 /\ k + 1 \in DOMAIN s /\ t[k] = s[k + 1]
PROOF
  <1>1. CASE t = <<>>
    BY <1>1
  <1>2. CASE s # <<>> /\ t = Tail(s)
    <2>1. /\ t \in Seq(Packet) /\ Len(t) = Len(s) - 1
          /\ \A i \in 1 .. Len(t) : t[i] = s[i + 1]
      BY <1>2, HeadTailProperties
    <2>2. Len(s) \in Nat /\ DOMAIN s = 1 .. Len(s) /\ DOMAIN t = 1 .. Len(t)
      BY <2>1, LenProperties
    <2> QED
      BY <2>1, <2>2
  <1> QED
    BY <1>1, <1>2

\* The head is at position 1.
LEMMA HeadAt ==
  ASSUME NEW s \in Seq(Packet), s # <<>>
  PROVE  1 \in DOMAIN s /\ s[1] = Head(s) /\ \A k \in DOMAIN s : k \in Nat /\ k >= 1
PROOF
  <1>1. Len(s) \in Nat /\ DOMAIN s = 1 .. Len(s)
    BY LenProperties
  <1>2. Len(s) # 0 /\ Head(s) = s[1]
    BY HeadTailProperties, EmptySeq
  <1> QED
    BY <1>1, <1>2

-----------------------------------------------------------------------------
(* What a handler does, whichever it is.                                    *)

\* A handler takes the packet at the head; if the connection ends the rest is gone too.
LEMMA HandlerReads ==
  ASSUME TypeOK, Handler
  PROVE  /\ up # <<>> /\ Pk \in Packet /\ 1 \in DOMAIN up /\ up[1] = Pk
         /\ \A k \in DOMAIN up : k \in Nat /\ k >= 1
         /\ \A k \in DOMAIN up' : k \in Nat /\ k >= 1 /\ k + 1 \in DOMAIN up /\ up'[k] = up[k + 1]
         /\ UNCHANGED handlerFrame
PROOF
  <1>1. /\ up # <<>> /\ (up' = <<>> \/ up' = Tail(up)) /\ UNCHANGED handlerFrame
    <2> USE DEF Reading, Answered, Replied, NoReply, Finished, Died, Closed
    <2>1. CASE ProcessPublishOverQuota \/ ProcessPublishDuplicate \/ ProcessPublishDenied
      BY <2>1 DEF ProcessPublishOverQuota, ProcessPublishDuplicate, ProcessPublishDenied
    <2>2. CASE ProcessPublishStopped
      BY <2>2 DEF ProcessPublishStopped
    <2>3. ASSUME NEW h \in {"ok", "ignore"}, ProcessPublish(h)
          PROVE  up # <<>> /\ (up' = <<>> \/ up' = Tail(up)) /\ UNCHANGED handlerFrame
      BY <2>3 DEF ProcessPublish
    <2>4. CASE ProcessPublishWriteFails
      BY <2>4 DEF ProcessPublishWriteFails
    <2>5. CASE ProcessPuback \/ ProcessPubcomp
      BY <2>5 DEF ProcessPuback, ProcessPubcomp
    <2>6. CASE ProcessPubrec
      BY <2>6 DEF ProcessPubrec
    <2>7. CASE ProcessPubrel
      BY <2>7 DEF ProcessPubrel
    <2> QED
      BY <2>1, <2>2, <2>3, <2>4, <2>5, <2>6, <2>7 DEF Handler
  <1>2. up \in Seq(Packet)
    BY DEF TypeOK, TypeNet
  <1> QED
    BY <1>1, <1>2, HeadAt, Shrunk, UpType DEF Pk, TypeOK

\* What a handler changes in the map: the entry of the packet's id, to none or to an ack.
\* A PUBREC goes only by a packet that is no publish, a PUBREL comes only by a PUBREC.
HandlerEntry ==
  /\ \A i \in Ids : \/ inflight'[i] = inflight[i]
                    \/ i = Pk.id /\ inflight'[i].t # "publish"
  /\ \A i \in Ids : inflight'[i].t = "pubrel" => inflight[i].t = "pubrel" \/ (i = Pk.id /\ Pk.t = "pubrec")
  /\ \A i \in Ids : inflight[i].t = "pubrec" =>
                      inflight'[i].t = "pubrec" \/ (i = Pk.id /\ Pk.t # "publish")
  /\ Pk.t = "pubrec" => inflight'[Pk.id].t # "publish"

\* A publish is routed only if no PUBREC is stored, and then a QoS 2 one stores it.
HandlerRoute ==
  \/ UNCHANGED routed
  \/ /\ Pk.t = "publish" /\ inflight[Pk.id].t # "pubrec"
     /\ routed' = [routed EXCEPT ![Pk.m] = @ + 1]
     /\ Pk.q # 1 => inflight'[Pk.id].t = "pubrec"

\* Every handler does this to the map.
LEMMA HandlerMap ==
  ASSUME TypeOK, Handler
  PROVE  HandlerEntry /\ HandlerRoute
PROOF
  <1>1. Pk.id \in Ids /\ inflight \in [Ids -> Entry]
    BY HandlerReads DEF Packet, TypeOK, TypeMap
  <1> USE DEF HandlerEntry, HandlerRoute, Reading, Set, Delete, NoEntry, AckEntry
  <1>2. CASE ProcessPublishOverQuota \/ ProcessPublishDuplicate \/ ProcessPublishDenied
    BY <1>1, <1>2 DEF ProcessPublishOverQuota, ProcessPublishDuplicate, ProcessPublishDenied
  <1>3. CASE ProcessPublishStopped
    BY <1>1, <1>3 DEF ProcessPublishStopped, IsDuplicate
  <1>4. ASSUME NEW h \in {"ok", "ignore"}, ProcessPublish(h)
        PROVE  HandlerEntry /\ HandlerRoute
    <2>1. CASE Pk.q = 1
      BY <1>1, <1>4, <2>1 DEF ProcessPublish, IsDuplicate
    <2>2. CASE Pk.q # 1
      BY <1>1, <1>4, <2>2 DEF ProcessPublish, IsDuplicate
    <2> QED
      BY <2>1, <2>2
  <1>5. CASE ProcessPublishWriteFails
    BY <1>1, <1>5 DEF ProcessPublishWriteFails, IsDuplicate
  <1>6. CASE ProcessPuback \/ ProcessPubcomp
    BY <1>1, <1>6 DEF ProcessPuback, AckedEntryGone, ProcessPubcomp
  <1>7. CASE ProcessPubrec
    <2>1. /\ Pk.t = "pubrec" /\ UNCHANGED routed
          /\ \/ inflight[Pk.id].t = "none" /\ inflight' = inflight
             \/ inflight' = [inflight EXCEPT ![Pk.id] = NoEntry]
             \/ inflight' = [inflight EXCEPT ![Pk.id] = AckEntry("pubrel")]
      BY <1>1, <1>7 DEF ProcessPubrec, ReleaseEntry, InUse
    <2> QED
      BY <1>1, <2>1
  <1>8. CASE ProcessPubrel
    <2>1. /\ Pk.t = "pubrel" /\ UNCHANGED routed
          /\ \/ inflight' = inflight
             \/ inflight' = [inflight EXCEPT ![Pk.id] = NoEntry]
             \/ inflight' = [inflight EXCEPT ![Pk.id] = AckEntry("pubcomp")]
      BY <1>1, <1>8 DEF ProcessPubrel
    <2> QED
      BY <1>1, <2>1
  <1> QED
    BY <1>2, <1>3, <1>4, <1>5, <1>6, <1>7, <1>8 DEF Handler

\* A handler answers with an acknowledgement under the packet's id, with a PUBREL only if it
\* has read a PUBREC; otherwise the wires are as they were or empty.
HandlerAnswer ==
  \/ UNCHANGED <<down, outbound, conn>>
  \/ down' = <<>> /\ outbound' = <<>> /\ ~conn'
  \/ /\ UNCHANGED <<outbound, conn>>
     /\ \E ack \in Packet : /\ down' = Append(down, ack) /\ ack.id = Pk.id /\ ack.t \in Acks
                            /\ ack.t = "pubrel" => Pk.t = "pubrec"

\* Every handler does this to the wires.
LEMMA HandlerWires ==
  ASSUME TypeOK, Handler
  PROVE  HandlerAnswer /\ conn /\ rd = "idle" /\ rd' \in {"idle", "tail"}
PROOF
  <1>1. Pk \in Packet
    BY HandlerReads
  <1>2. ASSUME NEW t \in Acks, NEW e \in BOOLEAN, t = "pubrel" => Pk.t = "pubrec", Answered(Ack(t, Pk, e)), rd = "idle"
        PROVE  HandlerAnswer /\ rd' \in {"idle", "tail"}
    <2>1. Ack(t, Pk, e) \in Packet /\ Ack(t, Pk, e).id = Pk.id /\ Ack(t, Pk, e).t = t
      BY <1>1, AckType DEF Ack
    <2> HIDE DEF Ack, Packet
    <2> QED
      BY <1>2, <2>1 DEF Answered, Replied, Finished, Died, Closed, HandlerAnswer
  <1>3. ASSUME NoReply PROVE HandlerAnswer /\ rd' \in {"idle", "tail"}
    BY <1>3 DEF NoReply, Finished, HandlerAnswer
  <1>4. ASSUME NEW t, Reading(t) PROVE conn /\ rd = "idle" /\ Pk.t = t
    BY <1>4 DEF Reading
  <1> USE DEF Acks, Refusal
  <1>5. CASE ProcessPublishOverQuota
    BY <1>4, <1>5 DEF ProcessPublishOverQuota, HandlerAnswer, Closed
  <1>6. CASE ProcessPublishDuplicate
    BY <1>2, <1>4, <1>6 DEF ProcessPublishDuplicate
  <1>7. CASE ProcessPublishDenied
    BY <1>2, <1>4, <1>7 DEF ProcessPublishDenied
  <1>8. CASE ProcessPublishStopped
    BY <1>2, <1>3, <1>4, <1>8 DEF ProcessPublishStopped
  <1>9. ASSUME NEW h \in {"ok", "ignore"}, ProcessPublish(h)
        PROVE  HandlerAnswer /\ conn /\ rd = "idle" /\ rd' \in {"idle", "tail"}
    <2>1. Answered(Ack("puback", Pk, FALSE)) \/ Answered(Ack("pubrec", Pk, FALSE))
      BY <1>9 DEF ProcessPublish, Answered
    <2> QED
      BY <1>2, <1>4, <1>9, <2>1 DEF ProcessPublish
  <1>10. CASE ProcessPublishWriteFails
    BY <1>4, <1>10 DEF ProcessPublishWriteFails, Died, Closed, HandlerAnswer
  <1>11. CASE ProcessPuback \/ ProcessPubcomp
    BY <1>3, <1>4, <1>11 DEF ProcessPuback, ProcessPubcomp
  <1>12. CASE ProcessPubrec
    BY <1>2, <1>3, <1>4, <1>12 DEF ProcessPubrec
  <1>13. CASE ProcessPubrel
    <2>1. Answered(Ack("pubcomp", Pk, TRUE)) \/ Answered(Ack("pubcomp", Pk, FALSE)) \/ NoReply
      BY <1>13 DEF ProcessPubrel, Answered
    <2> QED
      BY <1>2, <1>3, <1>4, <1>13, <2>1 DEF ProcessPubrel
  <1> QED
    BY <1>5, <1>6, <1>7, <1>8, <1>9, <1>10, <1>11, <1>12, <1>13 DEF Handler

-----------------------------------------------------------------------------
(* What is sent again.                                                      *)

\* An order of a finite set has each element once.
LEMMA OrderOnce ==
  ASSUME NEW S, IsFiniteSet(S), NEW s \in Orders(S)
  PROVE  /\ Len(s) \in Nat /\ DOMAIN s = 1 .. Len(s)
         /\ \A k \in 1 .. Len(s) : s[k] \in S
         /\ \A k, l \in 1 .. Len(s) : s[k] = s[l] => k = l
PROOF
  <1>1. Len(s) \in Nat /\ DOMAIN s = 1 .. Len(s) /\ \A k \in 1 .. Len(s) : s[k] \in S
    BY OrderType
  <1>2. Len(s) = Cardinality(S) /\ s \in Surjection(1 .. Cardinality(S), S)
    <2>1. Cardinality(S) \in Nat
      BY FS_CardinalityType
    <2>2. s \in [1 .. Cardinality(S) -> S] /\ \A x \in S : \E k \in DOMAIN s : s[k] = x
      BY DEF Orders
    <2>3. Len(s) = Cardinality(S)
      BY <2>1, <2>2
    <2> QED
      BY <2>2, <2>3, Fun_IsSurj
  <1>3. s \in Injection(1 .. Cardinality(S), S)
    <2>1. IsFiniteSet(1 .. Len(s)) /\ Cardinality(1 .. Len(s)) = Len(s)
      BY SMTT(30), <1>1, FS_Interval
    <2> QED
      BY <1>2, <2>1, FS_SurjSameCardinalityImpliesInj
  <1> QED
    BY <1>1, <1>2, <1>3 DEF Injection, IsInjective

\* The client repeats each of its publishes once, and nothing else is on the wire.
LEMMA ClientResends ==
  ASSUME TypeOK, ResendInflightMessages
  PROVE  /\ \A k \in DOMAIN up' : /\ k \in Nat /\ up'[k].id \in ClientBusy
                                  /\ up'[k] = ClientResend(up'[k].id)
         /\ \A k, l \in DOMAIN up' : up'[k].id = up'[l].id => k = l
PROOF
  <1>1. PICK s \in Orders(ClientBusy) : up' = [k \in 1 .. Len(s) |-> ClientResend(s[k])]
    BY DEF ResendInflightMessages
  <1>2. IsFiniteSet(ClientBusy)
    BY QosFlowAssumption, FS_Subset DEF ClientBusy
  <1>3. /\ Len(s) \in Nat /\ \A k \in 1 .. Len(s) : s[k] \in ClientBusy
        /\ \A k, l \in 1 .. Len(s) : s[k] = s[l] => k = l
    BY <1>1, <1>2, OrderOnce
  <1>4. DOMAIN up' = 1 .. Len(s) /\ \A k \in 1 .. Len(s) : up'[k] = ClientResend(s[k]) /\ up'[k].id = s[k]
    BY <1>1 DEF ClientResend
  <1> QED
    BY <1>3, <1>4

\* The broker repeats each entry of the map once.
LEMMA BrokerResends ==
  ASSUME TypeOK, down = <<>>, ResendInflightMessages
  PROVE  /\ \A k \in DOMAIN down' : k \in Nat /\ down'[k].id \in InUse /\ down'[k] = Stored(down'[k].id)
         /\ \A k, l \in DOMAIN down' : down'[k].id = down'[l].id => k = l
PROOF
  <1>1. PICK s \in Orders(InUse) : down' = down \o [k \in 1 .. Len(s) |-> Stored(s[k])]
    BY DEF ResendInflightMessages, ToResend
  <1>2. /\ Len(s) \in Nat /\ \A k \in 1 .. Len(s) : s[k] \in InUse
        /\ \A k, l \in 1 .. Len(s) : s[k] = s[l] => k = l
    BY <1>1, FiniteIds, OrderOnce
  <1>3. down' = [k \in 1 .. Len(s) |-> Stored(s[k])]
    <2>1. [k \in 1 .. Len(s) |-> Stored(s[k])] \in Seq(Packet)
      <3>1. \A k \in 1 .. Len(s) : Stored(s[k]) \in Packet
        BY <1>2 DEF TypeOK, TypeMap, InUse, Stored, Entry, Packet, Acks
      <3> QED
        BY <1>2, <3>1
    <2> QED
      BY <1>1, <2>1, ConcatEmptySeq
  <1>4. DOMAIN down' = 1 .. Len(s) /\ \A k \in 1 .. Len(s) : down'[k] = Stored(s[k]) /\ down'[k].id = s[k]
    BY <1>3 DEF Stored
  <1> QED
    BY <1>2, <1>4

-----------------------------------------------------------------------------
(* The ids of both sides.                                                   *)

\* What the steps other than handlers and the client's do to the map: broker ids only.
LEMMA EntriesBeside ==
  ASSUME TypeOK, IdsApart, Next, ~Handler
  PROVE  /\ \A i \in Ids : inflight'[i].t \in {"publish", "pubrel"} => i \in BrokerIds
         /\ MaxExpired = 0 => \A i \in Ids \ BrokerIds : inflight[i].t = "pubrec" => inflight'[i].t = "pubrec"
PROOF
  <1> DEFINE Goal == /\ \A i \in Ids : inflight'[i].t \in {"publish", "pubrel"} => i \in BrokerIds
                     /\ MaxExpired = 0 =>
                          \A i \in Ids \ BrokerIds : inflight[i].t = "pubrec" => inflight'[i].t = "pubrec"
  <1>1. inflight \in [Ids -> Entry] /\ \A i \in Ids : inflight[i].t \in {"publish", "pubrel"} => i \in BrokerIds
    BY DEF TypeOK, TypeMap, IdsApart
  <1>2. \A i \in PubIds : i \in BrokerIds
    BY <1>1 DEF PubIds
  <1>3. CASE UNCHANGED inflight
    BY <1>1, <1>3
  <1>4. ASSUME NEW p \in Publishers, PublishStep(p) PROVE Goal
    <2>1. pub[p].pc \notin {"idle", "nextid"} => pub[p].id \in BrokerIds
      BY DEF TypeOK, TypePublishers, BrokerIds
    <2>2. CASE NextPacketID(p) \/ LoadSendQuota(p) \/ SubSendQuota(p)
      BY <1>3, <2>2 DEF NextPacketID, LoadSendQuota, SubSendQuota, brokerVars
    <2>3. CASE StoreInflight(p) \/ HoldMessage(p)
      BY <1>1, <2>1, <2>3 DEF StoreInflight, HoldMessage, Set
    <2>4. CASE SendOutbound(p)
      BY <1>1, <2>1, <2>4 DEF SendOutbound, Delete, NoEntry
    <2> QED
      BY <1>4, <2>2, <2>3, <2>4 DEF PublishStep
  <1>5. CASE NextImmediate
    BY <1>1, <1>2, <1>5 DEF NextImmediate, Held, Delete, NoEntry
  <1>6. CASE ResendInflightMessages
    BY <1>1, <1>6 DEF ResendInflightMessages, NoEntry
  <1>7. ASSUME NEW i \in Ids, ClearExpiredInflight(i) PROVE Goal
    <2>1. MaxExpired # 0
      BY <1>7 DEF ClearExpiredInflight, TypeOK, TypeHistory
    <2>2. \A j \in Ids : inflight'[j] = inflight[j] \/ inflight'[j] = NoEntry
      BY <1>1, <1>7 DEF ClearExpiredInflight, Delete
    <2> QED
      BY <1>1, <2>1, <2>2 DEF NoEntry
  <1>8. ASSUME NEW p \in Publishers, CheckInflight(p) PROVE UNCHANGED inflight
    BY <1>8 DEF CheckInflight, brokerVars
  <1>9. CASE WriteLoop \/ ConnectionLost \/ ResumeSession
    BY <1>3, <1>9 DEF WriteLoop, ConnectionLost, ResumeSession
  <1>10. CASE ClientStep \/ \E i \in ClientIds : ClientPublish(i)
    BY <1>3, <1>10 DEF ClientStep, ClientGetsPublish, ClientGetsPubrel, ClientGetsAck, ClientPublish, clientFrame,
         brokerVars
  <1> QED
    BY <1>3, <1>4, <1>5, <1>6, <1>7, <1>8, <1>9, <1>10 DEF Next, Reader

\* Steps beside the reader's and the client's leave what they exchange as it is.
LEMMA UpBeside ==
  ASSUME \/ \E p \in Publishers : CheckInflight(p) \/ PublishStep(p)
         \/ WriteLoop \/ NextImmediate \/ ResumeSession \/ (\E i \in Ids : ClearExpiredInflight(i))
         \/ UNCHANGED vars
  PROVE  UNCHANGED <<up, cout, accepted, routed>>
BY DEF CheckInflight, PublishStep, NextPacketID, StoreInflight, LoadSendQuota, SubSendQuota, HoldMessage,
       SendOutbound, WriteLoop, NextImmediate, ResumeSession, ClearExpiredInflight, vars, clientVars

\* The client answers a publish and a release with an acknowledgement under their id.
LEMMA ClientAnswers ==
  ASSUME TypeOK, ClientGetsPublish \/ ClientGetsPubrel
  PROVE  /\ UNCHANGED <<cout, accepted, routed, inflight>>
         /\ In \in Packet /\ In.t \in {"publish", "pubrel"}
         /\ \E pk \in Packet : up' = Append(up, pk) /\ pk.t \in {"puback", "pubrec", "pubcomp"} /\ pk.id = In.id
PROOF
  <1>1. In \in Packet
    BY DownType DEF ClientGetsPublish, ClientGetsPubrel, TypeOK
  <1>2. ASSUME NEW t \in {"puback", "pubrec", "pubcomp"}, NEW e \in BOOLEAN, Answer(Ack(t, In, e))
        PROVE  \E pk \in Packet : up' = Append(up, pk) /\ pk.t \in {"puback", "pubrec", "pubcomp"} /\ pk.id = In.id
    <2>1. Ack(t, In, e) \in Packet
      BY <1>1, AckType DEF Acks
    <2>2. Ack(t, In, e).t = t /\ Ack(t, In, e).id = In.id
      BY DEF Ack
    <2> HIDE DEF Ack, Packet
    <2> QED
      BY <1>2, <2>1, <2>2 DEF Answer
  <1>3. /\ UNCHANGED <<cout, accepted, routed, inflight>> /\ In.t \in {"publish", "pubrel"}
        /\ \E t \in {"puback", "pubrec", "pubcomp"}, e \in BOOLEAN : Answer(Ack(t, In, e))
    BY DEF ClientGetsPublish, ClientGetsPubrel, clientFrame, brokerVars
  <1> QED
    BY <1>1, <1>2, <1>3

\* Where an answer comes from.
LEMMA InAt ==
  ASSUME TypeOK, ClientReads
  PROVE  /\ 1 \in DOMAIN down /\ down[1] = In /\ In \in Packet
         /\ \A k \in DOMAIN down : k \in Nat /\ k >= 1
         /\ \A k \in DOMAIN down' : k \in Nat /\ k >= 1 /\ k + 1 \in DOMAIN down /\ down'[k] = down[k + 1]
PROOF
  <1>1. down \in Seq(Packet) /\ down # <<>> /\ down' = Tail(down)
    BY DEF TypeOK, TypeNet, ClientReads
  <1> QED
    BY <1>1, HeadAt, Shrunk, DownType DEF In, TypeOK

\* Every element of two sequences joined comes from one of them.
LEMMA Joined ==
  ASSUME NEW s \in Seq(Packet), NEW t \in Seq(Packet)
  PROVE  \A k \in DOMAIN (s \o t) : \/ k \in DOMAIN s /\ (s \o t)[k] = s[k]
                                    \/ \E l \in DOMAIN t : (s \o t)[k] = t[l]
PROOF
  <1>1. /\ s \o t \in Seq(Packet) /\ Len(s \o t) = Len(s) + Len(t)
        /\ \A i \in 1 .. Len(s) + Len(t) : (s \o t)[i] = IF i <= Len(s) THEN s[i] ELSE t[i - Len(s)]
    BY ConcatProperties
  <1>2. /\ Len(s) \in Nat /\ DOMAIN s = 1 .. Len(s) /\ Len(t) \in Nat /\ DOMAIN t = 1 .. Len(t)
        /\ DOMAIN (s \o t) = 1 .. Len(s \o t)
    BY <1>1, LenProperties
  <1> DEFINE st == s \o t
  <1>3. SUFFICES ASSUME NEW k \in 1 .. Len(s) + Len(t)
                 PROVE  (k \in 1 .. Len(s) /\ st[k] = s[k]) \/ \E l \in 1 .. Len(t) : st[k] = t[l]
    BY <1>1, <1>2
  <1>4. st[k] = IF k <= Len(s) THEN s[k] ELSE t[k - Len(s)]
    BY <1>1
  <1> HIDE DEF st
  <1>5. CASE k <= Len(s)
    BY <1>2, <1>4, <1>5
  <1>6. CASE ~(k <= Len(s))
    <2>1. k - Len(s) \in 1 .. Len(t)
      BY <1>2, <1>6
    <2> QED
      BY <1>4, <1>6, <2>1
  <1> QED
    BY <1>5, <1>6

\* What a publisher queues and what the tail writes is a publish under a broker id.
LEMMA QueuedApart ==
  ASSUME TypeOK, IdsApart, NEW p \in Publishers, SendOutbound(p)
  PROVE  \A k \in DOMAIN outbound' : outbound'[k].t = "publish" /\ outbound'[k].id \in BrokerIds
PROOF
  <1> DEFINE pk == [t |-> "publish", id |-> pub[p].id, m |-> pub[p].m, q |-> pub[p].q, err |-> FALSE]
  <1>1. outbound' = outbound \/ outbound' = Append(outbound, pk)
    BY DEF SendOutbound
  <1>2. pk \in Packet /\ pk.t = "publish" /\ pk.id \in BrokerIds
    <2>1. pub[p].pc = "send"
      BY DEF SendOutbound
    <2>2. pub[p].id \in BrokerIds
      BY <2>1 DEF TypeOK, TypePublishers, BrokerIds
    <2> QED
      BY <2>1, <2>2, PublishPacketType DEF TypeOK
  <1> HIDE DEF pk
  <1>3. \A k \in DOMAIN outbound : outbound[k].t = "publish" /\ outbound[k].id \in BrokerIds
    BY DEF IdsApart
  <1>4. outbound \in Seq(Packet)
    BY DEF TypeOK, TypeNet
  <1>5. CASE outbound' = outbound
    BY <1>3, <1>5
  <1>6. CASE outbound' = Append(outbound, pk)
    <2>1. \A k \in DOMAIN outbound' : (k \in DOMAIN outbound /\ outbound'[k] = outbound[k]) \/ outbound'[k] = pk
      BY <1>2, <1>4, <1>6, Appended
    <2> QED
      BY <1>2, <1>3, <2>1
  <1> QED
    BY <1>1, <1>5, <1>6

\* The part of IdsApart on the packets to the client.
DownApart == \A k \in DOMAIN down : down[k].t \in {"publish", "pubrel"} => down[k].id \in BrokerIds

\* Every step keeps it.
LEMMA DownApartStep ==
  ASSUME TypeOK, IdsApart, [Next]_vars
  PROVE  DownApart'
PROOF
  <1>1. down \in Seq(Packet) /\ outbound \in Seq(Packet)
    BY DEF TypeOK, TypeNet
  <1>2. \A k \in DOMAIN down : down[k].t \in {"publish", "pubrel"} => down[k].id \in BrokerIds
    BY DEF IdsApart
  <1>3. ASSUME NEW pk \in Packet, down' = Append(down, pk), pk.t \in {"publish", "pubrel"} => pk.id \in BrokerIds
        PROVE  DownApart'
    <2>1. \A k \in DOMAIN down' : (k \in DOMAIN down /\ down'[k] = down[k]) \/ down'[k] = pk
      BY <1>1, <1>3, Appended
    <2> QED
      BY <1>2, <1>3, <2>1 DEF DownApart
  <1>4. CASE UNCHANGED down \/ down' = <<>>
    BY <1>2, <1>4 DEF DownApart
  <1>5. CASE Handler
    <2>1. HandlerAnswer /\ Pk \in Packet
      BY <1>5, HandlerWires, HandlerReads
    <2>2. Pk.t = "pubrec" => Pk.id \in BrokerIds
      BY <1>5, HandlerReads DEF IdsApart
    <2>3. ASSUME NEW ack \in Packet, down' = Append(down, ack), ack.id = Pk.id, ack.t \in Acks,
                 ack.t = "pubrel" => Pk.t = "pubrec"
          PROVE  DownApart'
      BY <1>3, <2>2, <2>3 DEF Acks
    <2> QED
      BY <1>4, <2>1, <2>3 DEF HandlerAnswer
  <1>6. CASE WriteLoop
    <2>1. outbound # <<>> /\ down' = Append(down, Head(outbound))
      BY <1>6 DEF WriteLoop
    <2>2. Head(outbound) \in Packet /\ Head(outbound).id \in BrokerIds
      BY <1>1, <2>1, HeadAt, SeqType DEF IdsApart
    <2> QED
      BY <1>3, <2>1, <2>2
  <1>7. CASE NextImmediate
    <2>1. down' = down \/ \E i \in Held : down' = Append(down, Stored(i))
      BY <1>7 DEF NextImmediate
    <2>2. \A i \in Held : Stored(i) \in Packet /\ Stored(i).id \in BrokerIds
      <3> SUFFICES ASSUME NEW i \in Held PROVE Stored(i) \in Packet /\ i \in BrokerIds
        BY DEF Stored
      <3> QED
        BY DEF TypeOK, TypeMap, IdsApart, Held, PubIds, Stored, Entry, Packet, Acks
    <2> QED
      BY <1>3, <1>4, <2>1, <2>2
  <1>8. CASE ResendInflightMessages
    <2>1. PICK s \in Orders(InUse) : down' = down \o [k \in 1 .. Len(s) |-> Stored(s[k])]
      BY <1>8 DEF ResendInflightMessages, ToResend
    <2>2. Len(s) \in Nat /\ \A k \in 1 .. Len(s) : s[k] \in InUse
      BY FiniteIds, OrderOnce
    <2> DEFINE r == [k \in 1 .. Len(s) |-> Stored(s[k])]
    <2>3. r \in Seq(Packet)
      <3>1. \A k \in 1 .. Len(s) : Stored(s[k]) \in Packet
        BY <2>2 DEF TypeOK, TypeMap, InUse, Stored, Entry, Packet, Acks
      <3> QED
        BY <2>2, <3>1
    <2>4. \A l \in DOMAIN r : r[l].t \in {"publish", "pubrel"} => r[l].id \in BrokerIds
      BY <2>2 DEF Stored, IdsApart, InUse
    <2> HIDE DEF r
    <2>5. \A k \in DOMAIN down' : \/ k \in DOMAIN down /\ down'[k] = down[k]
                                  \/ \E l \in DOMAIN r : down'[k] = r[l]
      BY <1>1, <2>1, <2>3, Joined DEF r
    <2> QED
      BY <1>2, <2>4, <2>5 DEF DownApart
  <1>9. CASE ClientStep
    <2>1. ClientReads
      BY <1>9 DEF ClientStep, ClientGetsPublish, ClientGetsPubrel, ClientGetsAck
    <2> QED
      BY <1>2, <2>1, InAt DEF DownApart
  <1>10. ASSUME NEW p \in Publishers, CheckInflight(p) \/ PublishStep(p) PROVE UNCHANGED down
    BY <1>10 DEF CheckInflight, PublishStep, NextPacketID, StoreInflight, LoadSendQuota, SubSendQuota, HoldMessage,
         SendOutbound
  <1>11. CASE ConnectionLost \/ ResumeSession \/ (\E i \in Ids : ClearExpiredInflight(i)) \/ (\E i \in ClientIds : ClientPublish(i))
              \/ UNCHANGED vars
    BY <1>4, <1>11 DEF ConnectionLost, Closed, ResumeSession, ClearExpiredInflight, ClientPublish, vars
  <1> QED
    BY <1>4, <1>5, <1>6, <1>7, <1>8, <1>9, <1>10, <1>11 DEF Next, Reader

\* The ids of both sides stay apart.
LEMMA IdsApartStep ==
  ASSUME TypeOK, IdsApart, ClientIds \cap BrokerIds = {}, [Next]_vars
  PROVE  IdsApart'
PROOF
  <1> DEFINE Acked(pk)  == pk.t \in {"puback", "pubrec", "pubcomp"} => pk.id \in BrokerIds
             Own(pk)    == pk.t = "publish" => pk.id \in ClientIds
  <1>1. \A i \in Ids : inflight'[i].t \in {"publish", "pubrel"} => i \in BrokerIds
    <2>1. CASE Handler
      BY <2>1, HandlerMap, HandlerReads DEF HandlerEntry, IdsApart
    <2>2. CASE Next /\ ~Handler
      BY <2>2, EntriesBeside
    <2>3. CASE UNCHANGED vars
      BY <2>3 DEF vars, brokerVars, IdsApart
    <2> QED
      BY <2>1, <2>2, <2>3
  <1>2. \A k \in DOMAIN outbound' : outbound'[k].t = "publish" /\ outbound'[k].id \in BrokerIds
    <2>1. CASE UNCHANGED outbound \/ outbound' = <<>>
      BY <2>1 DEF IdsApart
    <2>2. CASE Handler
      BY <2>1, <2>2, HandlerWires DEF HandlerAnswer
    <2>3. ASSUME NEW p \in Publishers, PublishStep(p)
          PROVE  \A k \in DOMAIN outbound' : outbound'[k].t = "publish" /\ outbound'[k].id \in BrokerIds
      <3>1. CASE SendOutbound(p)
        BY <3>1, QueuedApart
      <3>2. CASE ~SendOutbound(p)
        <4>1. UNCHANGED outbound
          BY <2>3, <3>2 DEF PublishStep, NextPacketID, StoreInflight, LoadSendQuota, SubSendQuota, HoldMessage, brokerVars
        <4> QED
          BY <2>1, <4>1
      <3> QED
        BY <3>1, <3>2
    <2>4. CASE WriteLoop
      <3>1. outbound \in Seq(Packet) /\ outbound # <<>> /\ outbound' = Tail(outbound)
        BY <2>4 DEF WriteLoop, TypeOK, TypeNet
      <3>2. \A k \in DOMAIN outbound' : k + 1 \in DOMAIN outbound /\ outbound'[k] = outbound[k + 1]
        BY <3>1, Shrunk
      <3> QED
        BY <3>2 DEF IdsApart
    <2>5. CASE NextImmediate \/ ResendInflightMessages \/ ResumeSession \/ ConnectionLost
      BY <2>1, <2>5 DEF NextImmediate, ResendInflightMessages, ResumeSession, ConnectionLost, Closed
    <2>6. CASE ClientStep \/ (\E i \in ClientIds : ClientPublish(i)) \/ (\E p \in Publishers : CheckInflight(p))
               \/ (\E i \in Ids : ClearExpiredInflight(i)) \/ UNCHANGED vars
      BY <2>1, <2>6 DEF ClientStep, ClientGetsPublish, ClientGetsPubrel, ClientGetsAck, ClientPublish, clientFrame,
           CheckInflight, ClearExpiredInflight, vars, brokerVars
    <2> QED
      BY <2>1, <2>2, <2>3, <2>4, <2>5, <2>6 DEF Next, Reader
  <1>3. \A k \in DOMAIN up' : Acked(up'[k]) /\ Own(up'[k])
    <2>1. \A k \in DOMAIN up : Acked(up[k]) /\ Own(up[k])
      BY DEF IdsApart
    <2>2. up \in Seq(Packet)
      BY DEF TypeOK, TypeNet
    <2> HIDE DEF Acked, Own
    <2>3. CASE UNCHANGED up \/ up' = <<>>
      BY <2>1, <2>3
    <2>4. ASSUME NEW pk \in Packet, up' = Append(up, pk), Acked(pk), Own(pk)
          PROVE  \A k \in DOMAIN up' : Acked(up'[k]) /\ Own(up'[k])
      <3>1. \A k \in DOMAIN up' : (k \in DOMAIN up /\ up'[k] = up[k]) \/ up'[k] = pk
        BY <2>2, <2>4, Appended
      <3> QED
        BY <2>1, <2>4, <3>1
    <2>5. CASE Handler
      BY <2>1, <2>5, HandlerReads
    <2>6. CASE ClientGetsPublish \/ ClientGetsPubrel
      <3>1. In.id \in BrokerIds
        BY <2>6, ClientAnswers, InAt DEF ClientGetsPublish, ClientGetsPubrel, IdsApart
      <3> QED
        BY <2>4, <2>6, <3>1, ClientAnswers DEF Acked, Own
    <2>7. CASE ClientGetsAck
      <3> DEFINE pk == [t |-> "pubrel", id |-> In.id, m |-> cout[In.id].m, q |-> 0,
                        err |-> ~(cout[In.id].s # "free" /\ cout[In.id].q = 2)]
      <3>1. In.id \in ClientIds /\ (UNCHANGED up \/ up' = Append(up, pk))
        BY <2>7 DEF ClientGetsAck, Answer
      <3>2. pk \in Packet /\ Acked(pk) /\ Own(pk)
        BY <3>1 DEF TypeOK, TypeClient, Packet, Acks, Ids, Acked, Own
      <3> HIDE DEF pk
      <3> QED
        BY <2>3, <2>4, <3>1, <3>2
    <2>8. ASSUME NEW i \in ClientIds, ClientPublish(i)
          PROVE  \A k \in DOMAIN up' : Acked(up'[k]) /\ Own(up'[k])
      <3> DEFINE pk == [t |-> "publish", id |-> i, m |-> accepted + 1, q |-> QosIn(Qos2In, accepted + 1), err |-> FALSE]
      <3>1. up' = Append(up, pk)
        BY <2>8 DEF ClientPublish, Answer
      <3>2. pk \in Packet /\ Acked(pk) /\ Own(pk)
        BY QosFlowAssumption DEF TypeOK, TypeHistory, Packet, Acks, Ids, QosIn, Acked, Own
      <3> HIDE DEF pk
      <3> QED
        BY <2>4, <3>1, <3>2
    <2>9. CASE ResendInflightMessages
      BY <2>9, ClientResends DEF ClientResend, ClientBusy, Acked, Own
    <2>10. CASE ConnectionLost
      BY <2>3, <2>10 DEF ConnectionLost, Closed
    <2> QED
      BY <2>3, <2>5, <2>6, <2>7, <2>8, <2>9, <2>10, UpBeside DEF Next, Reader, ClientStep
  <1> QED
    BY <1>1, <1>2, <1>3, DownApartStep DEF IdsApart, DownApart

-----------------------------------------------------------------------------
(* The client's publishes.                                                  *)

\* An answer moves one publish of the client on, and at most a PUBREL is sent.  Only a QoS 2
\* publish that waits for its PUBREC is released: it waits no longer.
LEMMA AckMoves ==
  ASSUME TypeOK, ClientGetsAck
  PROVE  /\ UNCHANGED <<accepted, routed, inflight>>
         /\ \A i \in ClientIds : /\ cout'[i].m = cout[i].m /\ cout'[i].q = cout[i].q
                                 /\ cout'[i].s # "free" => cout[i].s # "free"
                                 /\ cout'[i].s = "pub" => cout[i].s = "pub"
         /\ \/ UNCHANGED up
            \/ \E pk \in Packet : /\ up' = Append(up, pk) /\ pk.t = "pubrel" /\ pk.id \in ClientIds
                                  /\ cout'[pk.id].s = "pub" => cout[pk.id].q # 2
PROOF
  <1>1. cout \in [ClientIds -> [s : {"free", "pub", "rel"}, m : Nat, q : 0 .. 2]] /\ In.id \in ClientIds
    BY DEF TypeOK, TypeClient, ClientGetsAck
  <1>2. UNCHANGED <<accepted, routed, inflight>>
    BY DEF ClientGetsAck, clientFrame, brokerVars
  <1> DEFINE pk == [t |-> "pubrel", id |-> In.id, m |-> cout[In.id].m, q |-> 0,
                    err |-> ~(cout[In.id].s # "free" /\ cout[In.id].q = 2)]
  <1>3. pk \in Packet /\ pk.t = "pubrel" /\ pk.id = In.id
    BY <1>1 DEF Packet, Acks, Ids
  <1>4. /\ \/ cout' = cout
           \/ cout' = [cout EXCEPT ![In.id].s = "free"]
           \/ cout' = [cout EXCEPT ![In.id].s = "rel"] /\ cout[In.id].s # "free"
        /\ \/ UNCHANGED up
           \/ /\ up' = Append(up, pk)
              /\ cout' = IF cout[In.id].s # "free" /\ cout[In.id].q = 2
                         THEN [cout EXCEPT ![In.id].s = "rel"] ELSE cout
    BY DEF ClientGetsAck, Answer
  <1> HIDE DEF pk, Packet
  <1>5. \A i \in ClientIds : /\ cout'[i].m = cout[i].m /\ cout'[i].q = cout[i].q
                             /\ cout'[i].s # "free" => cout[i].s # "free"
                             /\ cout'[i].s = "pub" => cout[i].s = "pub"
    BY <1>1, <1>4
  <1>6. up' = Append(up, pk) /\ ~UNCHANGED up => (cout'[pk.id].s = "pub" => cout[pk.id].q # 2)
    BY <1>1, <1>3, <1>4
  <1> QED
    BY <1>1, <1>2, <1>3, <1>4, <1>5, <1>6

\* A new publish of the client has a number of its own.
LEMMA PublishMoves ==
  ASSUME TypeOK, NEW i \in ClientIds, ClientPublish(i)
  PROVE  /\ accepted' = accepted + 1 /\ accepted \in 0 .. MaxIn - 1 /\ UNCHANGED <<routed, inflight>>
         /\ cout[i].s = "free" /\ cout'[i].m = accepted + 1 /\ cout'[i].q = QosIn(Qos2In, accepted + 1)
         /\ cout'[i].s = "pub" /\ \A j \in ClientIds : j # i => cout'[j] = cout[j]
         /\ \E pk \in Packet : /\ up' = Append(up, pk) /\ pk.t = "publish" /\ pk.id = i
                               /\ pk.m = accepted + 1 /\ pk.q = QosIn(Qos2In, accepted + 1)
PROOF
  <1> DEFINE pk == [t |-> "publish", id |-> i, m |-> accepted + 1, q |-> QosIn(Qos2In, accepted + 1), err |-> FALSE]
  <1>1. pk \in Packet
    BY DEF TypeOK, TypeHistory, Packet, Ids, QosIn
  <1>2. up' = Append(up, pk)
    BY DEF ClientPublish, Answer
  <1>3. /\ accepted' = accepted + 1 /\ accepted \in 0 .. MaxIn - 1 /\ UNCHANGED <<routed, inflight>>
        /\ cout[i].s = "free"
        /\ cout' = [cout EXCEPT ![i] = [s |-> "pub", m |-> accepted + 1, q |-> QosIn(Qos2In, accepted + 1)]]
    BY QosFlowAssumption DEF ClientPublish, clientFrame, brokerVars, TypeOK, TypeHistory
  <1>4. cout \in [ClientIds -> [s : {"free", "pub", "rel"}, m : Nat, q : 0 .. 2]]
    BY DEF TypeOK, TypeClient
  <1> QED
    BY <1>1, <1>2, <1>3, <1>4

\* The client's publishes keep their numbers.
LEMMA NumberedInStep ==
  ASSUME TypeOK, NumberedIn, [Next]_vars
  PROVE  NumberedIn'
PROOF
  <1>1. accepted \in 0 .. MaxIn /\ MaxIn \in Nat /\ up \in Seq(Packet)
    BY QosFlowAssumption DEF TypeOK, TypeHistory, TypeNet
  <1>2. cout \in [ClientIds -> [s : {"free", "pub", "rel"}, m : Nat, q : 0 .. 2]]
    BY DEF TypeOK, TypeClient
  <1> USE DEF NumberedIn, ClientBusy
  <1>3. CASE UNCHANGED <<up, cout, accepted, routed>>
    BY <1>3
  <1>4. CASE ConnectionLost
    BY <1>4 DEF ConnectionLost, Closed, clientVars
  <1>5. CASE Handler
    <2>1. UNCHANGED <<cout, accepted>>
      BY <1>5, HandlerReads DEF handlerFrame, clientVars
    <2>2. /\ 1 \in DOMAIN up /\ up[1] = Pk
          /\ \A k \in DOMAIN up' : k \in Nat /\ k >= 1 /\ k + 1 \in DOMAIN up /\ up'[k] = up[k + 1]
      BY <1>5, HandlerReads
    <2>3. routed' = routed \/ (Pk.t = "publish" /\ routed' = [routed EXCEPT ![Pk.m] = @ + 1])
      BY <1>5, HandlerMap DEF HandlerRoute
    <2>4. routed' \in [InMsgs -> Nat] /\ \A m \in InMsgs : m > accepted => routed'[m] = 0
      <3>1. routed \in [InMsgs -> Nat] /\ \A m \in InMsgs : m > accepted => routed[m] = 0
        OBVIOUS
      <3>2. Pk.t = "publish" => Pk.m \in 1 .. accepted
        BY <2>2
      <3> HIDE DEF NumberedIn
      <3>3. CASE Pk.t = "publish" /\ routed' = [routed EXCEPT ![Pk.m] = @ + 1]
        <4>1. \A m \in InMsgs : routed'[m] = IF m = Pk.m THEN routed[m] + 1 ELSE routed[m]
          BY <3>1, <3>3
        <4>2. routed' \in [InMsgs -> Nat]
          <5>1. Pk.m \in InMsgs /\ routed[Pk.m] + 1 \in Nat
            BY <1>1, <3>1, <3>2, <3>3 DEF InMsgs
          <5> QED
            BY <3>1, <3>3, <5>1
        <4>3. accepted \in Nat /\ InMsgs \subseteq Nat
          BY <1>1 DEF InMsgs
        <4> QED
          BY <3>1, <3>2, <3>3, <4>1, <4>2, <4>3
      <3> QED
        BY <2>3, <3>1, <3>3
    <2> QED
      BY <2>1, <2>2, <2>4
  <1>6. ASSUME NEW pk \in Packet, up' = Append(up, pk), pk.t # "publish"
        PROVE  \A k \in DOMAIN up' : up'[k].t = "publish" => k \in DOMAIN up /\ up'[k] = up[k]
    BY <1>1, <1>6, Appended
  <1>7. CASE ClientGetsPublish \/ ClientGetsPubrel
    <2>1. UNCHANGED <<cout, accepted, routed>>
      BY <1>7, ClientAnswers
    <2>2. \A k \in DOMAIN up' : up'[k].t = "publish" => k \in DOMAIN up /\ up'[k] = up[k]
      BY <1>6, <1>7, ClientAnswers
    <2> QED
      BY <2>1, <2>2
  <1>8. CASE ClientGetsAck
    <2>1. /\ UNCHANGED <<accepted, routed>>
          /\ \A i \in ClientIds : /\ cout'[i].m = cout[i].m /\ cout'[i].q = cout[i].q
                                  /\ cout'[i].s # "free" => cout[i].s # "free"
      BY <1>8, AckMoves
    <2>2. \A k \in DOMAIN up' : up'[k].t = "publish" => k \in DOMAIN up /\ up'[k] = up[k]
      BY <1>6, <1>8, AckMoves
    <2> QED
      BY <2>1, <2>2
  <1>9. ASSUME NEW i \in ClientIds, ClientPublish(i) PROVE NumberedIn'
    <2>1. /\ accepted' = accepted + 1 /\ routed' = routed
          /\ cout[i].s = "free" /\ cout'[i].m = accepted + 1 /\ cout'[i].q = QosIn(Qos2In, accepted + 1)
          /\ \A j \in ClientIds : j # i => cout'[j] = cout[j]
      BY <1>9, PublishMoves
    <2>2. \A k \in DOMAIN up' : \/ k \in DOMAIN up /\ up'[k] = up[k] /\ k <= Len(up)
                                \/ /\ k = Len(up) + 1 /\ up'[k].id = i /\ up'[k].m = accepted + 1
                                   /\ up'[k].q = QosIn(Qos2In, accepted + 1)
      BY <1>1, <1>9, PublishMoves, Appended
    <2>3. \A k \in DOMAIN up' : up'[k].t = "publish" =>
            /\ up'[k].m \in 1 .. accepted' /\ up'[k].q = QosIn(Qos2In, up'[k].m)
            /\ \A j \in ClientBusy' : cout'[j].m = up'[k].m => up'[k].id = j
      BY <1>1, <2>1, <2>2
    <2>4. \A k, l \in DOMAIN up' : up'[k].t = "publish" /\ up'[l].t = "publish" /\ up'[l].m = up'[k].m => l = k
      BY <1>1, <2>2
    <2>5. \A j \in ClientBusy' : cout'[j].m \in 1 .. accepted' /\ cout'[j].q = QosIn(Qos2In, cout'[j].m)
      BY <1>1, <2>1
    <2>6. \A j, l \in ClientBusy' : cout'[j].m = cout'[l].m => j = l
      BY <1>1, <2>1
    <2>7. \A m \in InMsgs : m > accepted' => routed'[m] = 0
      BY <1>1, <2>1 DEF InMsgs
    <2> QED
      BY <2>1, <2>3, <2>4, <2>5, <2>6, <2>7
  <1>10. CASE ResendInflightMessages
    <2>1. UNCHANGED <<cout, accepted, routed>>
      BY <1>10 DEF ResendInflightMessages, clientVars
    <2>2. /\ \A k \in DOMAIN up' : up'[k].id \in ClientBusy /\ up'[k].m = cout[up'[k].id].m /\ up'[k].q = cout[up'[k].id].q
          /\ \A k, l \in DOMAIN up' : up'[k].id = up'[l].id => k = l
      BY <1>10, ClientResends DEF ClientResend
    <2> QED
      BY <2>1, <2>2
  <1> QED
    BY <1>3, <1>4, <1>5, <1>7, <1>8, <1>9, <1>10, UpBeside DEF Next, Reader, ClientStep

\* A QoS 2 publish is routed once.
LEMMA OnceInStep ==
  ASSUME TypeOK, IdsApart, NumberedIn, OnceIn, MaxExpired = 0, ClientIds \cap BrokerIds = {}, [Next]_vars
  PROVE  OnceIn'
PROOF
  <1>1. accepted \in 0 .. MaxIn /\ MaxIn \in Nat /\ up \in Seq(Packet) /\ Qos2In \subseteq InMsgs
    BY QosFlowAssumption DEF TypeOK, TypeHistory, TypeNet, InMsgs
  <1>2. cout \in [ClientIds -> [s : {"free", "pub", "rel"}, m : Nat, q : 0 .. 2]]
    BY DEF TypeOK, TypeClient
  <1>3. /\ \A i \in ClientIds : i \in Ids \ BrokerIds
        /\ \A k \in DOMAIN up : up[k].t = "publish" => up[k].id \in ClientIds
        /\ \A k \in DOMAIN up : up[k].t \in {"puback", "pubrec", "pubcomp"} => up[k].id \in BrokerIds
        /\ \A k \in DOMAIN up : up[k].t = "publish" => up[k].m \in 1 .. accepted /\ up[k].q = QosIn(Qos2In, up[k].m)
        /\ \A m \in 1 .. accepted : m \in InMsgs
        /\ routed \in [InMsgs -> Nat]
    BY <1>1 DEF IdsApart, Ids, NumberedIn, InMsgs
  <1>4. ASSUME UNCHANGED <<up, cout, routed>>,
               \A i \in Ids \ BrokerIds : inflight[i].t = "pubrec" => inflight'[i].t = "pubrec"
        PROVE  OnceIn'
    BY <1>3, <1>4 DEF OnceIn
  <1>5. CASE ConnectionLost
    BY <1>5 DEF ConnectionLost, Closed, clientVars, OnceIn
  <1>6. CASE Handler
    <2>1. UNCHANGED <<cout, accepted>>
      BY <1>6, HandlerReads DEF handlerFrame, clientVars
    <2>2. /\ 1 \in DOMAIN up /\ up[1] = Pk /\ \A k \in DOMAIN up : k \in Nat /\ k >= 1
          /\ \A k \in DOMAIN up' : k \in Nat /\ k >= 1 /\ k + 1 \in DOMAIN up /\ up'[k] = up[k + 1]
      BY <1>6, HandlerReads
    <2>3. /\ \A i \in ClientIds : inflight[i].t = "pubrec" => inflight'[i].t = "pubrec" \/ Is(Pk, "pubrel", i)
      <3>1. \A i \in ClientIds : inflight[i].t = "pubrec" => inflight'[i].t = "pubrec" \/ (i = Pk.id /\ Pk.t # "publish")
        BY <1>3, <1>6, HandlerMap DEF HandlerEntry
      <3>2. Pk \in Packet
        BY <1>6, HandlerReads
      <3> QED
        BY <1>3, <2>2, <3>1, <3>2 DEF Is, Packet, Acks
    <2>4. CASE UNCHANGED routed
      BY <1>3, <2>1, <2>2, <2>3, <2>4 DEF OnceIn
    <2>5. CASE /\ Pk.t = "publish" /\ inflight[Pk.id].t # "pubrec"
               /\ routed' = [routed EXCEPT ![Pk.m] = @ + 1]
               /\ Pk.q # 1 => inflight'[Pk.id].t = "pubrec"
      <3>1. Pk.m \in InMsgs /\ Pk.m \in 1 .. accepted /\ Pk.q = QosIn(Qos2In, Pk.m) /\ Pk.id \in ClientIds
        BY <1>3, <2>2, <2>5
      <3>2. \A m \in InMsgs : m # Pk.m => routed'[m] = routed[m]
        BY <1>3, <2>5
      <3>3. Pk.m \in Qos2In => Pk.q = 2 /\ routed[Pk.m] = 0 /\ routed'[Pk.m] = 1 /\ inflight'[Pk.id].t = "pubrec"
        <4>1. Pk.m \in Qos2In => Pk.q = 2
          BY <3>1 DEF QosIn
        <4>2. Pk.m \in Qos2In => ~(routed[Pk.m] > 0)
          BY <2>2, <2>5, <4>1 DEF OnceIn
        <4>3. routed[Pk.m] \in Nat
          BY <1>3, <3>1
        <4> QED
          BY <1>3, <2>5, <3>1, <4>1, <4>2, <4>3
      <3>4. \A m \in Qos2In : routed'[m] <= 1
        BY <1>1, <3>2, <3>3 DEF OnceIn
      <3>5. \A k \in DOMAIN up' : up'[k].t = "publish" => up'[k].m # Pk.m
        BY <2>2, <2>5 DEF NumberedIn
      <3>6. \A k \in DOMAIN up' : up'[k].t = "publish" /\ up'[k].q = 2 /\ routed'[up'[k].m] > 0 =>
              /\ inflight'[up'[k].id].t = "pubrec"
              /\ \A j \in DOMAIN up' : j < k => ~Is(up'[j], "pubrel", up'[k].id)
        <4>1. \A k \in DOMAIN up' : up'[k].t = "publish" => routed'[up'[k].m] = routed[up'[k].m]
          BY <1>3, <2>2, <3>2, <3>5
        <4> QED
          BY <1>3, <2>2, <2>3, <4>1 DEF OnceIn
      <3>7. ASSUME NEW i \in ClientIds, cout'[i].s = "pub", cout'[i].q = 2
            PROVE  /\ routed'[cout'[i].m] > 0 =>
                        inflight'[i].t = "pubrec" /\ \A j \in DOMAIN up' : ~Is(up'[j], "pubrel", i)
                   /\ \A k \in DOMAIN up' : up'[k].t = "publish" /\ up'[k].m = cout'[i].m =>
                        \A j \in DOMAIN up' : j > k => ~Is(up'[j], "pubrel", i)
        <4>1. cout[i].s = "pub" /\ cout[i].q = 2 /\ cout[i].m \in 1 .. accepted /\ i \in ClientBusy
              /\ cout[i].q = QosIn(Qos2In, cout[i].m)
          BY <2>1, <3>7 DEF NumberedIn, ClientBusy
        <4>2. CASE cout[i].m = Pk.m
          <5>1. Pk.id = i /\ Pk.m \in Qos2In
            BY <1>1, <2>2, <2>5, <3>1, <4>1, <4>2 DEF NumberedIn, QosIn
          <5>2. \A j \in DOMAIN up : j > 1 => ~Is(up[j], "pubrel", i)
            BY <2>2, <2>5, <3>7, <2>1, <4>2 DEF OnceIn
          <5>3. \A j \in DOMAIN up' : ~Is(up'[j], "pubrel", i)
            BY <2>2, <5>2
          <5> QED
            BY <3>3, <5>1, <5>3
        <4>3. CASE cout[i].m # Pk.m
          <5>1. routed'[cout[i].m] = routed[cout[i].m]
            BY <1>3, <3>2, <4>1, <4>3
          <5> QED
            BY <2>1, <2>2, <2>3, <4>1, <5>1 DEF OnceIn
        <4> QED
          BY <4>2, <4>3
      <3> QED
        BY <3>4, <3>6, <3>7 DEF OnceIn
    <2> QED
      BY <1>6, <2>4, <2>5, HandlerMap DEF HandlerRoute
  <1>7. CASE ClientGetsPublish \/ ClientGetsPubrel
    <2>1. UNCHANGED <<cout, accepted, routed, inflight>>
      BY <1>7, ClientAnswers
    <2>2. \A k \in DOMAIN up' : \/ k \in DOMAIN up /\ up'[k] = up[k]
                                \/ up'[k].t \in {"puback", "pubrec", "pubcomp"}
      BY <1>1, <1>7, ClientAnswers, Appended
    <2> QED
      BY <1>3, <2>1, <2>2 DEF OnceIn, Is
  <1>8. CASE ClientGetsAck
    <2>1. /\ UNCHANGED <<accepted, routed, inflight>>
          /\ \A i \in ClientIds : /\ cout'[i].m = cout[i].m /\ cout'[i].q = cout[i].q
                                  /\ cout'[i].s = "pub" => cout[i].s = "pub"
      BY <1>8, AckMoves
    <2>2. CASE UNCHANGED up
      BY <2>1, <2>2 DEF OnceIn
    <2>3. ASSUME NEW pk \in Packet, up' = Append(up, pk), pk.t = "pubrel", pk.id \in ClientIds,
                 cout'[pk.id].s = "pub" => cout[pk.id].q # 2
          PROVE  OnceIn'
      <3>1. \A k \in DOMAIN up' : \/ k \in DOMAIN up /\ up'[k] = up[k] /\ k <= Len(up)
                                  \/ up'[k] = pk /\ k = Len(up) + 1
        BY <1>1, <2>3, Appended
      <3>2. Len(up) \in Nat
        BY <1>1, LenProperties
      <3>3. \A k \in DOMAIN up' : up'[k].t = "publish" /\ up'[k].q = 2 /\ routed'[up'[k].m] > 0 =>
              /\ inflight'[up'[k].id].t = "pubrec"
              /\ \A j \in DOMAIN up' : j < k => ~Is(up'[j], "pubrel", up'[k].id)
        BY <2>1, <2>3, <3>1, <3>2 DEF OnceIn
      <3>4. \A i \in ClientIds : cout'[i].s = "pub" /\ cout'[i].q = 2 => ~Is(pk, "pubrel", i)
        BY <2>1, <2>3 DEF Is
      <3>5. \A i \in ClientIds : cout'[i].s = "pub" /\ cout'[i].q = 2 =>
               /\ routed'[cout'[i].m] > 0 =>
                    inflight'[i].t = "pubrec" /\ \A j \in DOMAIN up' : ~Is(up'[j], "pubrel", i)
               /\ \A k \in DOMAIN up' : up'[k].t = "publish" /\ up'[k].m = cout'[i].m =>
                    \A j \in DOMAIN up' : j > k => ~Is(up'[j], "pubrel", i)
        BY <2>1, <2>3, <3>1, <3>2, <3>4 DEF OnceIn
      <3> QED
        BY <2>1, <3>3, <3>5 DEF OnceIn
    <2> QED
      BY <1>8, <2>2, <2>3, AckMoves
  <1>9. ASSUME NEW i \in ClientIds, ClientPublish(i) PROVE OnceIn'
    <2>1. /\ accepted' = accepted + 1 /\ accepted \in 0 .. MaxIn - 1 /\ routed' = routed /\ inflight' = inflight
          /\ cout'[i].m = accepted + 1 /\ \A j \in ClientIds : j # i => cout'[j] = cout[j]
      BY <1>9, PublishMoves
    <2>2. \A k \in DOMAIN up' : \/ k \in DOMAIN up /\ up'[k] = up[k] /\ k <= Len(up)
                                \/ k = Len(up) + 1 /\ up'[k].t = "publish" /\ up'[k].m = accepted + 1
      BY <1>1, <1>9, PublishMoves, Appended
    <2>3. routed[accepted + 1] = 0 /\ Len(up) \in Nat
      BY <1>1, <2>1, LenProperties DEF NumberedIn, InMsgs
    <2>4. \A k \in DOMAIN up' : up'[k].t = "publish" /\ up'[k].q = 2 /\ routed'[up'[k].m] > 0 =>
            /\ inflight'[up'[k].id].t = "pubrec"
            /\ \A j \in DOMAIN up' : j < k => ~Is(up'[j], "pubrel", up'[k].id)
      BY <2>1, <2>2, <2>3 DEF OnceIn
    <2>5. \A j \in DOMAIN up : up[j].t = "publish" => up[j].m # accepted + 1
      BY <1>1, <1>3
    <2>6. \A c \in ClientIds : cout'[c].s = "pub" /\ cout'[c].q = 2 =>
             /\ routed'[cout'[c].m] > 0 =>
                  inflight'[c].t = "pubrec" /\ \A j \in DOMAIN up' : ~Is(up'[j], "pubrel", c)
             /\ \A k \in DOMAIN up' : up'[k].t = "publish" /\ up'[k].m = cout'[c].m =>
                  \A j \in DOMAIN up' : j > k => ~Is(up'[j], "pubrel", c)
      <3> SUFFICES ASSUME NEW c \in ClientIds, cout'[c].s = "pub", cout'[c].q = 2
                   PROVE  /\ routed'[cout'[c].m] > 0 =>
                               inflight'[c].t = "pubrec" /\ \A j \in DOMAIN up' : ~Is(up'[j], "pubrel", c)
                          /\ \A k \in DOMAIN up' : up'[k].t = "publish" /\ up'[k].m = cout'[c].m =>
                               \A j \in DOMAIN up' : j > k => ~Is(up'[j], "pubrel", c)
        OBVIOUS
      <3>1. CASE c = i
        BY <2>1, <2>2, <2>3, <2>5, <3>1
      <3>2. CASE c # i
        <4>1. \A j \in DOMAIN up' : Is(up'[j], "pubrel", c) => j \in DOMAIN up /\ up'[j] = up[j]
          BY <2>2 DEF Is
        <4>2. cout'[c] = cout[c] /\ cout[c].m \in 1 .. accepted
          BY <2>1, <3>2 DEF NumberedIn, ClientBusy
        <4> QED
          BY <1>1, <2>1, <2>2, <4>1, <4>2 DEF OnceIn
      <3> QED
        BY <3>1, <3>2
    <2> QED
      BY <2>1, <2>4, <2>6 DEF OnceIn
  <1>10. CASE ResendInflightMessages
    <2>1. UNCHANGED <<cout, accepted, routed>>
      BY <1>10 DEF ResendInflightMessages, clientVars
    <2>2. /\ \A k \in DOMAIN up' : /\ k \in Nat /\ up'[k].id \in ClientBusy /\ up'[k].m = cout[up'[k].id].m
                                   /\ up'[k].q = cout[up'[k].id].q
                                   /\ up'[k].t = "publish" => cout[up'[k].id].s = "pub"
          /\ \A k, l \in DOMAIN up' : up'[k].id = up'[l].id => k = l
      BY <1>10, ClientResends DEF ClientResend
    <2>3. \A i \in ClientIds : inflight[i].t = "pubrec" => inflight'[i].t = "pubrec"
      BY <1>3, <1>10 DEF ResendInflightMessages
    <2>4. \A i \in ClientIds : cout[i].s = "pub" => \A j \in DOMAIN up' : ~Is(up'[j], "pubrel", i)
      BY <1>10, ClientResends DEF ClientResend, Is
    <2> QED
      BY <2>1, <2>2, <2>3, <2>4 DEF OnceIn, ClientBusy
  <1>11. CASE \/ \E p \in Publishers : CheckInflight(p) \/ PublishStep(p)
              \/ WriteLoop \/ NextImmediate \/ ResumeSession \/ (\E i \in Ids : ClearExpiredInflight(i))
              \/ UNCHANGED vars
    <2>1. UNCHANGED <<up, cout, routed>>
      BY <1>11, UpBeside
    <2>2. \A i \in Ids \ BrokerIds : inflight[i].t = "pubrec" => inflight'[i].t = "pubrec"
      <3>1. CASE UNCHANGED vars
        BY <3>1 DEF vars, brokerVars
      <3>2. CASE Next /\ ~Handler
        BY <3>2, EntriesBeside
      <3>3. Handler => FALSE
        <4>1. Handler => up' # up
          <5>1. ASSUME Handler PROVE \A k \in DOMAIN up' : k + 1 \in DOMAIN up
            BY <5>1, HandlerReads
          <5>2. ASSUME Handler PROVE Len(up) \in DOMAIN up /\ Len(up) + 1 \notin DOMAIN up
            <6>1. 1 \in DOMAIN up /\ Len(up) \in Nat /\ DOMAIN up = 1 .. Len(up)
              BY <5>2, <1>1, HandlerReads, LenProperties
            <6> QED
              BY <6>1
          <5> QED
            BY <5>1, <5>2
        <4> QED
          BY <2>1, <4>1
      <3> QED
        BY <3>1, <3>2, <3>3
    <2> QED
      BY <1>4, <2>1, <2>2
  <1> QED
    BY <1>5, <1>6, <1>7, <1>8, <1>9, <1>10, <1>11 DEF Next, Reader, ClientStep

\* The invariant holds initially.
LEMMA InitIn == Init => IdsApart /\ NumberedIn /\ OnceIn
PROOF
  <1> SUFFICES ASSUME Init PROVE IdsApart /\ NumberedIn /\ OnceIn
    OBVIOUS
  <1>1. IdsApart
    BY DEF Init, IdsApart, NoEntry
  <1>2. NumberedIn
    BY DEF Init, NumberedIn, ClientBusy
  <1>3. OnceIn
    BY QosFlowAssumption DEF Init, OnceIn, InMsgs
  <1> QED
    BY <1>1, <1>2, <1>3

\* If the client's ids are not those the broker hands out and no entry expires, a QoS 2
\* publish of the client is routed at most once: through lost connections, repeated
\* publishes, failed writes and refusals, its PUBREC stays in the map until nothing that
\* repeats the publish can follow (processPublish, processPubrel).
THEOREM RoutedOnce ==
  ASSUME ClientIds \cap BrokerIds = {}, MaxExpired = 0
  PROVE  Spec => []ExactlyOnceIn
PROOF
  <1>1. TypeOK /\ (IdsApart /\ NumberedIn /\ OnceIn) /\ [Next]_vars => (IdsApart /\ NumberedIn /\ OnceIn)'
    BY IdsApartStep, NumberedInStep, OnceInStep
  <1>2. OnceIn => ExactlyOnceIn
    BY DEF OnceIn, ExactlyOnceIn
  <1> QED
    BY <1>1, <1>2, InitIn, TypeCorrect, PTL DEF Spec

-----------------------------------------------------------------------------
(* What the steps do to the messages towards the client.                    *)

outState == <<inflight, outbound, down, got, cdup, published, rd, conn>>

\* A publisher that takes an id or quota stays in publishToClient with its message, or drops it.
LEMMA PublisherSteps ==
  ASSUME TypeOK, NEW p \in Publishers, NextPacketID(p) \/ LoadSendQuota(p) \/ SubSendQuota(p)
  PROVE  /\ UNCHANGED outState /\ pub[p].pc # "idle"
         /\ \A o \in Publishers : o # p => pub'[o] = pub[o]
         /\ \/ pub'[p].pc = "idle"
            \/ /\ pub'[p].m = pub[p].m /\ pub'[p].q = pub[p].q /\ pub'[p].pc # "idle"
               /\ pub[p].pc # "nextid" => pub'[p].id = pub[p].id /\ pub'[p].pc \notin {"nextid", "set"}
               /\ pub[p].pc \in {"nextid", "set"} => pub[p].pc = "nextid"
PROOF
  <1>1. pub \in [Publishers -> PublisherState]
    BY DEF TypeOK, TypePublishers
  <1>2. CASE NextPacketID(p)
    BY <1>1, <1>2 DEF NextPacketID, outState, clientVars, Idle, PublisherState
  <1>3. CASE LoadSendQuota(p) \/ SubSendQuota(p)
    BY <1>1, <1>3 DEF LoadSendQuota, SubSendQuota, AfterQuota, outState, brokerVars, clientVars, PublisherState
  <1> QED
    BY <1>2, <1>3

\* Storing a message puts it under the publisher's id; storing it once more holds it.
LEMMA StoreSteps ==
  ASSUME TypeOK, NEW p \in Publishers, StoreInflight(p) \/ HoldMessage(p)
  PROVE  /\ UNCHANGED <<outbound, down, got, cdup, published, rd, conn>> /\ pub[p].pc # "idle"
         /\ \A o \in Publishers : o # p => pub'[o] = pub[o]
         /\ \A i \in Ids : i # pub[p].id => inflight'[i] = inflight[i]
         /\ pub[p].id \in Ids /\ inflight'[pub[p].id].t = "publish"
         /\ inflight'[pub[p].id].m = pub[p].m /\ inflight'[pub[p].id].q = pub[p].q
         /\ \/ pub'[p].pc = "idle"
            \/ /\ pub'[p].m = pub[p].m /\ pub'[p].q = pub[p].q /\ pub'[p].id = pub[p].id
               /\ pub'[p].pc \notin {"idle", "nextid", "set"} /\ ~inflight'[pub[p].id].held
PROOF
  <1>1. pub \in [Publishers -> PublisherState] /\ inflight \in [Ids -> Entry]
    BY DEF TypeOK, TypePublishers, TypeMap
  <1>2. pub[p].pc \notin {"idle", "nextid"} /\ pub[p].id \in Ids
    BY PubFields DEF StoreInflight, HoldMessage, TypeOK
  <1>3. CASE StoreInflight(p)
    <2>1. /\ UNCHANGED <<outbound, down, got, cdup, published, rd, conn>>
          /\ inflight' = [inflight EXCEPT ![pub[p].id] = [t |-> "publish", m |-> pub[p].m, q |-> pub[p].q, held |-> FALSE]]
      BY <1>3 DEF StoreInflight, Set, clientVars
    <2>2. \E pc \in {"dec", "hold", "send"} : pub' = [pub EXCEPT ![p].quota = sendQuota, ![p].pc = pc]
      BY <1>3 DEF StoreInflight
    <2> QED
      BY <1>1, <1>2, <2>1, <2>2 DEF PublisherState
  <1>4. CASE HoldMessage(p)
    BY <1>1, <1>2, <1>4 DEF HoldMessage, Set, Idle, clientVars
  <1> QED
    BY <1>3, <1>4

\* A publisher that queues its message, rolls it back or finds no connection is done with it.
LEMMA SendSteps ==
  ASSUME TypeOK, NEW p \in Publishers, SendOutbound(p)
  PROVE  /\ UNCHANGED <<down, got, cdup, published, rd, conn>> /\ pub[p].pc = "send"
         /\ \A o \in Publishers : o # p => pub'[o] = pub[o]
         /\ pub'[p].pc = "idle"
         /\ \A i \in Ids : inflight'[i] = inflight[i] \/ inflight'[i].t # "publish"
         /\ \/ UNCHANGED outbound
            \/ /\ UNCHANGED inflight /\ conn
               /\ \E pk \in Packet : /\ outbound' = Append(outbound, pk)
                                     /\ pk.t = "publish" /\ pk.m = pub[p].m /\ pk.q = pub[p].q /\ pk.id = pub[p].id
PROOF
  <1> DEFINE pk == [t |-> "publish", id |-> pub[p].id, m |-> pub[p].m, q |-> pub[p].q, err |-> FALSE]
  <1>1. pub \in [Publishers -> PublisherState] /\ inflight \in [Ids -> Entry]
    BY DEF TypeOK, TypePublishers, TypeMap
  <1>2. pub[p].pc = "send" /\ pk \in Packet
    BY PublishPacketType DEF SendOutbound, TypeOK
  <1>3. /\ UNCHANGED <<down, got, cdup, published, rd, conn>> /\ pub' = [pub EXCEPT ![p] = Idle]
        /\ \/ UNCHANGED <<inflight, outbound>>
           \/ UNCHANGED inflight /\ outbound' = Append(outbound, pk) /\ conn
           \/ inflight' = [inflight EXCEPT ![pub[p].id] = NoEntry] /\ UNCHANGED outbound
    BY DEF SendOutbound, Delete, clientVars
  <1>4. \A i \in Ids : inflight'[i] = inflight[i] \/ inflight'[i].t # "publish"
    BY <1>1, <1>3 DEF NoEntry
  <1>5. pub'[p].pc = "idle" /\ \A o \in Publishers : o # p => pub'[o] = pub[o]
    BY <1>1, <1>3 DEF Idle
  <1>6. pk.t = "publish" /\ pk.m = pub[p].m /\ pk.q = pub[p].q /\ pk.id = pub[p].id
    OBVIOUS
  <1> HIDE DEF pk, Packet
  <1> QED
    BY <1>2, <1>3, <1>4, <1>5, <1>6

\* The limit is tested with a message of a new number.
LEMMA CheckSteps ==
  ASSUME TypeOK, NEW p \in Publishers, CheckInflight(p)
  PROVE  /\ UNCHANGED <<inflight, outbound, down, got, cdup, rd, conn>>
         /\ published' = published + 1 /\ published \in 0 .. MaxMsgs - 1
         /\ rd = "resend" => PublishDuringResend
         /\ \A o \in Publishers : o # p => pub'[o] = pub[o]
         /\ pub[p].pc = "idle"
         /\ \/ pub'[p].pc = "idle"
            \/ pub'[p].pc = "nextid" /\ pub'[p].m = published + 1 /\ pub'[p].q = QosIn(Qos2Msgs, published + 1)
PROOF
  <1>1. pub \in [Publishers -> PublisherState] /\ published \in 0 .. MaxMsgs /\ MaxMsgs \in Nat
    BY QosFlowAssumption DEF TypeOK, TypePublishers, TypeHistory
  <1>2. /\ UNCHANGED <<inflight, outbound, down, got, cdup, rd, conn>> /\ published' = published + 1
        /\ published < MaxMsgs /\ pub[p].pc = "idle"
        /\ rd = "resend" => PublishDuringResend
        /\ pub' = pub \/ pub' = [pub EXCEPT ![p] = Begun(published + 1)]
    BY DEF CheckInflight, brokerVars, clientVars
  <1> QED
    BY <1>1, <1>2 DEF Begun

\* The tail writes a held message and deletes its entry.
LEMMA TailSteps ==
  ASSUME TypeOK, NextImmediate
  PROVE  /\ UNCHANGED <<pub, outbound, got, cdup, published, conn>> /\ rd = "tail" /\ rd' = "idle"
         /\ \A i \in Ids : inflight'[i] = inflight[i] \/ inflight'[i].t # "publish"
         /\ \/ UNCHANGED down
            \/ \E i \in Held : /\ inflight'[i].t # "publish" /\ conn /\ Stored(i) \in Packet
                               /\ down' = Append(down, Stored(i))
PROOF
  <1>1. inflight \in [Ids -> Entry]
    BY DEF TypeOK, TypeMap
  <1>2. /\ UNCHANGED <<pub, outbound, got, cdup, published, conn>> /\ rd = "tail" /\ rd' = "idle"
        /\ \/ UNCHANGED <<inflight, down>>
           \/ \E i \in Held : /\ inflight' = [inflight EXCEPT ![i] = NoEntry]
                              /\ UNCHANGED down \/ (conn /\ down' = Append(down, Stored(i)))
    BY DEF NextImmediate, Delete, clientVars
  <1>3. \A i \in Held : i \in Ids /\ Stored(i) \in Packet
    BY StoredType DEF Held, PubIds, InUse, TypeOK
  <1> HIDE DEF Packet
  <1> QED
    BY <1>1, <1>2, <1>3 DEF NoEntry

-----------------------------------------------------------------------------
(* Each kind of step keeps the messages towards the client in order.        *)

InvOut == Quiet /\ NumberedOut /\ SentOnce /\ SameId /\ OnceOut

\* The state in the types the steps below need.
LEMMA OutTypes ==
  ASSUME TypeOK
  PROVE  /\ outbound \in Seq(Packet) /\ down \in Seq(Packet) /\ MaxMsgs \in Nat
         /\ published \in 0 .. MaxMsgs /\ Msgs = 1 .. MaxMsgs
         /\ \A p \in Publishers : pub[p].m \in Nat /\ \A i \in Ids : inflight[i].m \in Nat
         /\ \A k \in DOMAIN down : k \in Nat /\ k >= 1
         /\ \A k \in DOMAIN outbound : k \in Nat /\ k >= 1
PROOF
  <1>1. /\ outbound \in Seq(Packet) /\ down \in Seq(Packet)
        /\ pub \in [Publishers -> PublisherState] /\ inflight \in [Ids -> Entry]
        /\ published \in 0 .. MaxMsgs /\ MaxMsgs \in Nat
    BY QosFlowAssumption DEF TypeOK, TypeNet, TypePublishers, TypeMap, TypeHistory
  <1>2. /\ \A k \in DOMAIN down : k \in Nat /\ k >= 1
        /\ \A k \in DOMAIN outbound : k \in Nat /\ k >= 1
    BY <1>1, LenProperties
  <1> QED
    BY <1>1, <1>2 DEF Msgs, PublisherState, Entry

\* Entries may go and publishers may be done, as long as nothing new is stored or sent.
LEMMA NothingNew ==
  ASSUME TypeOK, InvOut,
         UNCHANGED <<outbound, down, got, cdup, published>>,
         \A i \in Ids : inflight'[i] = inflight[i] \/ inflight'[i].t # "publish",
         \A p \in Publishers :
           \/ pub'[p] = pub[p]
           \/ pub'[p].pc = "idle"
           \/ /\ pub'[p].m = pub[p].m /\ pub'[p].q = pub[p].q /\ pub[p].pc # "idle"
              /\ pub[p].pc # "nextid" => pub'[p].id = pub[p].id /\ pub'[p].pc \notin {"nextid", "set"}
              /\ pub[p].pc \in {"nextid", "set"} => pub[p].pc = "nextid"
  PROVE  NumberedOut' /\ SentOnce' /\ SameId' /\ OnceOut'
PROOF
  <1>1. \A i \in PubIds' : i \in PubIds /\ inflight'[i] = inflight[i]
    BY DEF PubIds
  <1>2. \A p \in Busy' : p \in Busy /\ pub'[p].m = pub[p].m /\ pub'[p].q = pub[p].q
    BY DEF Busy
  <1>3. \A p \in Busy' : pub[p].pc \notin {"nextid", "set"} =>
          pub'[p].pc \notin {"nextid", "set"} /\ pub'[p].id = pub[p].id
    BY DEF Busy
  <1>4. NumberedOut'
    BY <1>1, <1>2 DEF InvOut, NumberedOut
  <1>5. SentOnce'
    BY <1>1, <1>2, <1>3 DEF InvOut, SentOnce
  <1>6. SameId' /\ OnceOut'
    BY <1>1 DEF InvOut, SameId, OnceOut, Is
  <1> QED
    BY <1>4, <1>5, <1>6

\* CheckInflight brings a message of a new number.
LEMMA OutCheck ==
  ASSUME TypeOK, InvOut, ~PublishDuringResend, NEW p \in Publishers, CheckInflight(p)
  PROVE  InvOut'
PROOF
  <1>1. /\ UNCHANGED <<inflight, outbound, down, got, cdup, rd, conn>>
        /\ published' = published + 1 /\ published \in 0 .. MaxMsgs - 1
        /\ rd # "resend" /\ \A o \in Publishers : o # p => pub'[o] = pub[o]
        /\ pub[p].pc = "idle"
        /\ \/ pub'[p].pc = "idle"
           \/ pub'[p].pc = "nextid" /\ pub'[p].m = published + 1 /\ pub'[p].q = QosIn(Qos2Msgs, published + 1)
    BY CheckSteps
  <1>2. PubIds' = PubIds
    BY <1>1 DEF PubIds
  <1>3. \A o \in Busy' : \/ o # p /\ o \in Busy /\ pub'[o] = pub[o]
                         \/ o = p /\ pub'[o].m = published + 1 /\ pub'[o].q = QosIn(Qos2Msgs, published + 1)
    BY <1>1 DEF Busy
  <1>4. MaxMsgs \in Nat /\ Msgs = 1 .. MaxMsgs
    BY OutTypes
  <1>5. Quiet'
    BY <1>1 DEF InvOut, Quiet
  <1>6. NumberedOut'
    BY SMTT(30), <1>1, <1>2, <1>3, <1>4 DEF InvOut, NumberedOut
  <1>7. SentOnce'
    <2>1. ASSUME NEW o \in Busy', o # p PROVE o \in Busy /\ pub'[o] = pub[o]
      BY <1>3, <2>1
    <2>2. p \in Busy' => pub'[p].m = published + 1
      BY <1>3
    <2>3. published + 1 \in Msgs /\ got[published + 1] = 0
      BY <1>1, <1>4 DEF InvOut, NumberedOut
    <2>4. /\ \A k \in DOMAIN outbound : outbound[k].m \in 1 .. published
          /\ \A k \in DOMAIN down : down[k].t = "publish" => down[k].m \in 1 .. published
          /\ \A i \in PubIds : inflight[i].m \in 1 .. published
      BY DEF InvOut, NumberedOut
    <2>5. \A n \in 1 .. published : n # published + 1
      BY <1>1
    <2>6. \A o \in Busy' :
       /\ got'[pub'[o].m] = 0
       /\ \A k \in DOMAIN outbound' : outbound'[k].m # pub'[o].m
       /\ \A k \in DOMAIN down' : down'[k].t = "publish" => down'[k].m # pub'[o].m
       /\ \A i \in PubIds' : inflight'[i].m = pub'[o].m =>
            pub'[o].pc \notin {"nextid", "set"} /\ i = pub'[o].id /\ ~inflight'[i].held
      BY <1>1, <1>2, <2>1, <2>2, <2>3, <2>4, <2>5 DEF InvOut, SentOnce
    <2> QED
      BY <1>1, <1>2, <2>6 DEF InvOut, SentOnce
  <1>8. SameId' /\ OnceOut'
    BY <1>1, <1>2 DEF InvOut, SameId, OnceOut, Is
  <1> QED
    BY <1>5, <1>6, <1>7, <1>8 DEF InvOut

\* StoreInflight and HoldMessage store the message that the publisher has in hand.
LEMMA OutStore ==
  ASSUME TypeOK, InvOut, NEW p \in Publishers, StoreInflight(p) \/ HoldMessage(p)
  PROVE  InvOut'
PROOF
  <1> DEFINE d == pub[p].id
  <1>1. /\ UNCHANGED <<outbound, down, got, cdup, published, rd, conn>> /\ p \in Busy
        /\ \A o \in Publishers : o # p => pub'[o] = pub[o]
        /\ \A i \in Ids : i # d => inflight'[i] = inflight[i]
        /\ d \in Ids /\ inflight'[d].t = "publish"
        /\ inflight'[d].m = pub[p].m /\ inflight'[d].q = pub[p].q
        /\ \/ pub'[p].pc = "idle"
           \/ /\ pub'[p].m = pub[p].m /\ pub'[p].q = pub[p].q /\ pub'[p].id = d
              /\ pub'[p].pc \notin {"idle", "nextid", "set"} /\ ~inflight'[d].held
    BY StoreSteps DEF Busy
  <1> HIDE DEF d
  <1>2. \A i \in PubIds' : i = d \/ (i # d /\ i \in PubIds /\ inflight'[i] = inflight[i])
    BY <1>1 DEF PubIds
  <1>3. \A o \in Busy' : /\ o \in Busy /\ pub'[o].m = pub[o].m /\ pub'[o].q = pub[o].q
                         /\ o # p => pub'[o] = pub[o]
                         /\ o = p => pub'[p].id = d /\ pub'[p].pc \notin {"nextid", "set"} /\ ~inflight'[d].held
    BY <1>1 DEF Busy
  <1>4. \A i \in PubIds : inflight[i].m = pub[p].m => i = d
    BY <1>1 DEF InvOut, SentOnce, d
  <1>5. Quiet'
    BY <1>1, <1>3 DEF InvOut, Quiet
  <1>6. NumberedOut'
    <2>1. \A i \in PubIds' : inflight'[i].m \in 1 .. published /\ inflight'[i].q = QosIn(Qos2Msgs, inflight'[i].m)
      BY <1>1, <1>2 DEF InvOut, NumberedOut
    <2>2. \A i, j \in PubIds' : inflight'[i].m = inflight'[j].m => i = j
      BY <1>1, <1>2, <1>4 DEF InvOut, NumberedOut
    <2>3. \A o, n \in Busy' : pub'[o].m = pub'[n].m => o = n
      BY <1>3 DEF InvOut, NumberedOut
    <2> QED
      BY <1>1, <1>3, <2>1, <2>2, <2>3 DEF InvOut, NumberedOut
  <1>7. SentOnce'
    <2>1. \A o \in Busy' :
            /\ got'[pub'[o].m] = 0
            /\ \A k \in DOMAIN outbound' : outbound'[k].m # pub'[o].m
            /\ \A k \in DOMAIN down' : down'[k].t = "publish" => down'[k].m # pub'[o].m
      BY <1>1, <1>3 DEF InvOut, SentOnce
    <2>2. ASSUME NEW o \in Busy', NEW i \in PubIds', inflight'[i].m = pub'[o].m
          PROVE  pub'[o].pc \notin {"nextid", "set"} /\ i = pub'[o].id /\ ~inflight'[i].held
      <3>1. CASE i = d
        <4>1. o = p
          BY <1>1, <1>3, <2>2, <3>1 DEF InvOut, NumberedOut
        <4> QED
          BY <1>3, <3>1, <4>1
      <3>2. CASE i # d
        <4>1. i \in PubIds /\ inflight'[i] = inflight[i] /\ inflight[i].m = pub[o].m
          BY <1>2, <1>3, <2>2, <3>2
        <4>2. o # p
          BY <1>4, <3>2, <4>1
        <4> QED
          BY <1>3, <4>1, <4>2 DEF InvOut, SentOnce
      <3> QED
        BY <3>1, <3>2
    <2>3. \A k \in DOMAIN outbound : outbound[k].m # pub[p].m
      BY <1>1 DEF InvOut, SentOnce
    <2>4. \A k \in DOMAIN outbound : \A i \in PubIds' :
            inflight'[i].m = outbound[k].m => i = outbound[k].id /\ ~inflight'[i].held
      BY <1>1, <1>2, <2>3 DEF InvOut, SentOnce
    <2> QED
      BY <1>1, <2>1, <2>2, <2>4 DEF InvOut, SentOnce
  <1>8. SameId'
    <2>1. \A k \in DOMAIN down : down[k].t = "publish" => down[k].m # pub[p].m
      BY <1>1 DEF InvOut, SentOnce
    <2>2. \A k \in DOMAIN down : down[k].t = "publish" =>
            \A i \in PubIds' : inflight'[i].m = down[k].m => i \in PubIds /\ inflight[i].m = down[k].m
      BY <1>1, <1>2, <2>1
    <2> QED
      BY <1>1, <2>2 DEF InvOut, SameId, Is
  <1>9. OnceOut'
    <2>1. got[pub[p].m] = 0
      BY <1>1 DEF InvOut, SentOnce
    <2>2. \A i \in PubIds' : got[inflight'[i].m] > 0 => i \in PubIds /\ inflight'[i] = inflight[i]
      BY <1>1, <1>2, <2>1
    <2> QED
      BY <1>1, <2>2 DEF InvOut, OnceOut, Is
  <1> QED
    BY <1>5, <1>6, <1>7, <1>8, <1>9 DEF InvOut

\* SendOutbound queues the message, or takes it back.
LEMMA OutSend ==
  ASSUME TypeOK, InvOut, NEW p \in Publishers, SendOutbound(p)
  PROVE  InvOut'
PROOF
  <1>1. /\ UNCHANGED <<down, got, cdup, published, rd, conn>> /\ pub[p].pc = "send"
        /\ \A o \in Publishers : o # p => pub'[o] = pub[o]
        /\ pub'[p].pc = "idle"
        /\ \A i \in Ids : inflight'[i] = inflight[i] \/ inflight'[i].t # "publish"
        /\ \/ UNCHANGED outbound
           \/ /\ UNCHANGED inflight /\ conn
              /\ \E pk \in Packet : /\ outbound' = Append(outbound, pk)
                                    /\ pk.t = "publish" /\ pk.m = pub[p].m /\ pk.q = pub[p].q /\ pk.id = pub[p].id
    BY SendSteps
  <1>2. Busy' \subseteq Busy /\ p \in Busy /\ p \notin Busy' /\ \A o \in Busy' : o # p /\ pub'[o] = pub[o]
    BY <1>1 DEF Busy
  <1>3. CASE UNCHANGED outbound
    <2>1. NumberedOut' /\ SentOnce' /\ SameId' /\ OnceOut'
      BY <1>1, <1>3, NothingNew
    <2>2. Quiet'
      BY <1>1, <1>2, <1>3 DEF InvOut, Quiet
    <2> QED
      BY <2>1, <2>2 DEF InvOut
  <1>4. ASSUME UNCHANGED inflight, conn, NEW pk \in Packet, outbound' = Append(outbound, pk),
               pk.t = "publish", pk.m = pub[p].m, pk.q = pub[p].q, pk.id = pub[p].id
        PROVE  InvOut'
    <2>1. PubIds' = PubIds
      BY <1>4 DEF PubIds
    <2>2. \A k \in DOMAIN outbound' : \/ k \in DOMAIN outbound /\ outbound'[k] = outbound[k] /\ k <= Len(outbound)
                                      \/ k \notin DOMAIN outbound /\ outbound'[k] = pk /\ k = Len(outbound) + 1
      BY <1>4, OutTypes, Appended
    <2>3. Quiet'
      BY <1>1, <1>2, <1>4 DEF InvOut, Quiet
    <2>4. NumberedOut'
      BY <1>1, <1>2, <1>4, <2>1, <2>2 DEF InvOut, NumberedOut
    <2>5. /\ got[pk.m] = 0 /\ \A k \in DOMAIN outbound : outbound[k].m # pk.m
          /\ \A k \in DOMAIN down : down[k].t = "publish" => down[k].m # pk.m
          /\ \A i \in PubIds : inflight[i].m = pk.m => i = pk.id /\ ~inflight[i].held
          /\ \A o \in Busy' : pub[o].m # pk.m
      BY <1>2, <1>4 DEF InvOut, SentOnce, NumberedOut
    <2>6. SentOnce'
      <3>1. \A o \in Busy' : \A k \in DOMAIN outbound' : outbound'[k].m # pub'[o].m
        BY <1>2, <2>2, <2>5 DEF InvOut, SentOnce
      <3>2. \A k, l \in DOMAIN outbound' : outbound'[l].m = outbound'[k].m => l = k
        BY <2>2, <2>5 DEF InvOut, SentOnce
      <3>3. \A k \in DOMAIN outbound' :
              /\ got[outbound'[k].m] = 0
              /\ \A l \in DOMAIN down : down[l].t = "publish" => down[l].m # outbound'[k].m
              /\ \A i \in PubIds : inflight[i].m = outbound'[k].m => i = outbound'[k].id /\ ~inflight[i].held
        BY <2>2, <2>5 DEF InvOut, SentOnce
      <3> QED
        BY <1>1, <1>2, <1>4, <2>1, <3>1, <3>2, <3>3 DEF InvOut, SentOnce
    <2>7. SameId' /\ OnceOut'
      BY <1>1, <1>4, <2>1 DEF InvOut, SameId, OnceOut, Is
    <2> QED
      BY <2>3, <2>4, <2>6, <2>7 DEF InvOut
  <1> QED
    BY <1>1, <1>3, <1>4

\* WriteLoop writes the message at the head of the queue: nobody has it besides.
LEMMA OutWrite ==
  ASSUME TypeOK, InvOut, WriteLoop
  PROVE  InvOut'
PROOF
  <1> DEFINE pk == outbound[1]
  <1>1. /\ UNCHANGED <<inflight, got, cdup, published, rd, conn, pub>> /\ conn
        /\ outbound # <<>> /\ outbound' = Tail(outbound) /\ down' = Append(down, Head(outbound))
    BY DEF WriteLoop, clientVars
  <1>2. 1 \in DOMAIN outbound /\ Head(outbound) = pk
    BY <1>1, OutTypes, HeadAt
  <1>3. \A k \in DOMAIN outbound' : k \in Nat /\ k >= 1 /\ k + 1 \in DOMAIN outbound /\ outbound'[k] = outbound[k + 1]
    BY <1>1, OutTypes, Shrunk
  <1>4. pk \in Packet
    BY <1>2, OutTypes, LenProperties
  <1> HIDE DEF pk
  <1>5. \A k \in DOMAIN down' : \/ k \in DOMAIN down /\ down'[k] = down[k] /\ k <= Len(down)
                                \/ k \notin DOMAIN down /\ down'[k] = pk /\ k = Len(down) + 1
    BY <1>1, <1>2, <1>4, OutTypes, Appended
  <1>6. PubIds' = PubIds /\ Busy' = Busy
    BY <1>1 DEF PubIds, Busy
  <1>7. /\ pk.t = "publish" /\ got[pk.m] = 0 /\ pk.m \in 1 .. published /\ pk.q = QosIn(Qos2Msgs, pk.m)
        /\ \A k \in DOMAIN outbound' : outbound'[k].m # pk.m
        /\ \A k \in DOMAIN down : down[k].t = "publish" => down[k].m # pk.m
        /\ \A i \in PubIds : inflight[i].m = pk.m => i = pk.id
        /\ \A p \in Busy : pub[p].m # pk.m
    BY <1>2, <1>3 DEF InvOut, SentOnce, NumberedOut, pk
  <1>8. Quiet'
    BY <1>1, <1>6 DEF InvOut, Quiet
  <1>9. NumberedOut'
    BY <1>1, <1>3, <1>5, <1>6, <1>7 DEF InvOut, NumberedOut
  <1>10. SentOnce'
    <2>1. \A k, l \in DOMAIN outbound' : outbound'[l].m = outbound'[k].m => l = k
      BY <1>3 DEF InvOut, SentOnce
    <2>2. \A p \in Busy : /\ \A k \in DOMAIN outbound' : outbound'[k].m # pub[p].m
                          /\ \A k \in DOMAIN down' : down'[k].t = "publish" => down'[k].m # pub[p].m
      BY <1>3, <1>5, <1>7 DEF InvOut, SentOnce
    <2>3. \A k \in DOMAIN outbound' :
            /\ got[outbound'[k].m] = 0
            /\ \A l \in DOMAIN down' : down'[l].t = "publish" => down'[l].m # outbound'[k].m
            /\ \A i \in PubIds : inflight[i].m = outbound'[k].m => i = outbound'[k].id /\ ~inflight[i].held
      BY <1>3, <1>5, <1>7 DEF InvOut, SentOnce
    <2> QED
      BY <1>1, <1>6, <2>1, <2>2, <2>3 DEF InvOut, SentOnce
  <1>11. \A k \in DOMAIN down : k \in Nat /\ k >= 1 /\ k <= Len(down)
    BY OutTypes, LenProperties
  <1>12. Len(down) \in Nat
    BY OutTypes, LenProperties
  <1>13. SameId'
    <2>1. ASSUME NEW k \in DOMAIN down', down'[k].t = "publish", NEW i \in PubIds, inflight[i].m = down'[k].m
          PROVE  i = down'[k].id /\ \A j \in DOMAIN down' : j > k => ~Is(down'[j], "pubrel", i)
      BY <1>5, <1>7, <1>11, <1>12, <2>1 DEF InvOut, SameId, Is
    <2>2. ASSUME NEW k \in DOMAIN down', NEW l \in DOMAIN down', l > k,
                 down'[k].t = "publish", down'[l].t = "publish", down'[l].m = down'[k].m
          PROVE  /\ down'[l].id = down'[k].id
                 /\ \A j \in DOMAIN down' : k < j /\ j < l => ~Is(down'[j], "pubrel", down'[k].id)
      BY <1>5, <1>7, <1>11, <1>12, <2>2 DEF InvOut, SameId, Is
    <2> QED
      BY <1>1, <1>6, <2>1, <2>2 DEF SameId
  <1>14. OnceOut'
    BY <1>1, <1>5, <1>6, <1>7, <1>11, <1>12 DEF InvOut, OnceOut, Is
  <1> QED
    BY <1>8, <1>9, <1>10, <1>13, <1>14 DEF InvOut

\* The tail of processPacket writes a held message, which nobody else has in hand, and
\* forgets its entry.
LEMMA OutTail ==
  ASSUME TypeOK, InvOut, NextImmediate
  PROVE  InvOut'
PROOF
  <1>1. /\ UNCHANGED <<pub, outbound, got, cdup, published, conn>> /\ rd = "tail" /\ rd' = "idle"
        /\ \A i \in Ids : inflight'[i] = inflight[i] \/ inflight'[i].t # "publish"
        /\ \/ UNCHANGED down
           \/ \E i \in Held : /\ inflight'[i].t # "publish" /\ conn /\ Stored(i) \in Packet
                              /\ down' = Append(down, Stored(i))
    BY TailSteps
  <1>2. CASE UNCHANGED down
    <2>1. NumberedOut' /\ SentOnce' /\ SameId' /\ OnceOut'
      BY <1>1, <1>2, NothingNew
    <2>2. Quiet'
      BY <1>1, <1>2 DEF InvOut, Quiet
    <2> QED
      BY <2>1, <2>2 DEF InvOut
  <1>3. ASSUME NEW h \in Held, inflight'[h].t # "publish", conn, Stored(h) \in Packet, down' = Append(down, Stored(h))
        PROVE  InvOut'
    <2> DEFINE pk == Stored(h)
    <2>1. /\ h \in PubIds /\ inflight[h].held
          /\ pk.t = "publish" /\ pk.id = h /\ pk.m = inflight[h].m /\ pk.q = inflight[h].q
      BY DEF Held, PubIds, Stored
    <2> HIDE DEF pk
    <2>2. \A k \in DOMAIN down' : \/ k \in DOMAIN down /\ down'[k] = down[k] /\ k <= Len(down)
                                  \/ k \notin DOMAIN down /\ down'[k] = pk /\ k = Len(down) + 1
      BY <1>3, OutTypes, Appended DEF pk
    <2>3. \A i \in PubIds' : i \in PubIds /\ i # h /\ inflight'[i] = inflight[i]
      BY <1>1, <1>3 DEF PubIds
    <2>4. Busy' = Busy
      BY <1>1 DEF Busy
    <2>5. /\ pk.m \in 1 .. published /\ pk.q = QosIn(Qos2Msgs, pk.m)
          /\ \A i \in PubIds' : inflight[i].m # pk.m
          /\ \A p \in Busy : pub[p].m # pk.m
          /\ \A k \in DOMAIN outbound : outbound[k].m # pk.m
          /\ \A k \in DOMAIN down : down[k].t = "publish" /\ down[k].m = pk.m =>
               down[k].id = h /\ \A j \in DOMAIN down : j > k => ~Is(down[j], "pubrel", h)
          /\ pk.q = 2 /\ got[pk.m] > 0 => h \in cdup /\ \A j \in DOMAIN down : ~Is(down[j], "pubrel", h)
      BY <2>1, <2>3 DEF InvOut, NumberedOut, SentOnce, SameId, OnceOut
    <2>6. \A k \in DOMAIN down : k \in Nat /\ k >= 1 /\ k <= Len(down)
      BY OutTypes, LenProperties
    <2>7. Len(down) \in Nat
      BY OutTypes, LenProperties
    <2>8. Quiet'
      BY <1>1, <1>3 DEF InvOut, Quiet
    <2>9. NumberedOut'
      BY <1>1, <2>1, <2>2, <2>3, <2>4, <2>5 DEF InvOut, NumberedOut
    <2>10. SentOnce'
      BY <1>1, <2>1, <2>2, <2>3, <2>4, <2>5 DEF InvOut, SentOnce
    <2>11. SameId'
      <3>1. ASSUME NEW k \in DOMAIN down', down'[k].t = "publish", NEW i \in PubIds', inflight'[i].m = down'[k].m
            PROVE  i = down'[k].id /\ \A j \in DOMAIN down' : j > k => ~Is(down'[j], "pubrel", i)
        BY <2>1, <2>2, <2>3, <2>5, <2>6, <2>7, <3>1 DEF InvOut, SameId, Is
      <3>2. ASSUME NEW k \in DOMAIN down', NEW l \in DOMAIN down', l > k,
                   down'[k].t = "publish", down'[l].t = "publish", down'[l].m = down'[k].m
            PROVE  /\ down'[l].id = down'[k].id
                   /\ \A j \in DOMAIN down' : k < j /\ j < l => ~Is(down'[j], "pubrel", down'[k].id)
        BY <2>1, <2>2, <2>5, <2>6, <2>7, <3>2 DEF InvOut, SameId, Is
      <3> QED
        BY <3>1, <3>2 DEF SameId
    <2>12. OnceOut'
      BY <1>1, <2>1, <2>2, <2>3, <2>5, <2>6, <2>7 DEF InvOut, OnceOut, Is
    <2> QED
      BY <2>8, <2>9, <2>10, <2>11, <2>12 DEF InvOut
  <1> QED
    BY <1>1, <1>2, <1>3

\* A handler deletes entries and adds acknowledgements, a PUBREL only for an id that holds
\* no publish any more, or the wires are emptied.
LEMMA OutHandler ==
  ASSUME TypeOK, InvOut, Handler
  PROVE  InvOut'
PROOF
  <1>1. UNCHANGED <<pub, got, cdup, published>>
    BY HandlerReads DEF handlerFrame, clientVars
  <1>2. /\ \A i \in Ids : inflight'[i] = inflight[i] \/ inflight'[i].t # "publish"
        /\ Pk.t = "pubrec" => inflight'[Pk.id].t # "publish"
    BY HandlerMap DEF HandlerEntry
  <1>3. HandlerAnswer /\ conn /\ rd = "idle" /\ rd' \in {"idle", "tail"}
    BY HandlerWires
  <1>4. \A i \in PubIds' : i \in PubIds /\ inflight'[i] = inflight[i] /\ ~(i = Pk.id /\ Pk.t = "pubrec")
    BY <1>2 DEF PubIds
  <1>5. Busy' = Busy
    BY <1>1 DEF Busy
  <1>6. CASE UNCHANGED <<down, outbound, conn>>
    <2>1. NumberedOut' /\ SentOnce' /\ SameId' /\ OnceOut'
      BY <1>1, <1>2, <1>6, NothingNew
    <2>2. Quiet'
      BY <1>3, <1>6 DEF InvOut, Quiet
    <2> QED
      BY <2>1, <2>2 DEF InvOut
  <1>7. CASE down' = <<>> /\ outbound' = <<>> /\ ~conn'
    <2>1. Quiet'
      BY <1>3, <1>7 DEF Quiet
    <2>2. NumberedOut'
      BY <1>1, <1>4, <1>5, <1>7 DEF InvOut, NumberedOut
    <2>3. SentOnce'
      BY <1>1, <1>4, <1>5, <1>7 DEF InvOut, SentOnce
    <2>4. SameId' /\ OnceOut'
      BY <1>1, <1>4, <1>7 DEF InvOut, SameId, OnceOut
    <2> QED
      BY <2>1, <2>2, <2>3, <2>4 DEF InvOut
  <1>8. ASSUME UNCHANGED <<outbound, conn>>, NEW ack \in Packet, down' = Append(down, ack), ack.id = Pk.id,
               ack.t \in Acks, ack.t = "pubrel" => Pk.t = "pubrec"
        PROVE  InvOut'
    <2>1. ack.t # "publish"
      BY <1>8 DEF Acks
    <2>2. \A k \in DOMAIN down' : \/ k \in DOMAIN down /\ down'[k] = down[k] /\ k <= Len(down)
                                  \/ k \notin DOMAIN down /\ down'[k] = ack /\ k = Len(down) + 1
      BY <1>8, OutTypes, Appended
    <2>3. \A k \in DOMAIN down : k \in Nat /\ k >= 1 /\ k <= Len(down)
      BY OutTypes, LenProperties
    <2>4. Len(down) \in Nat
      BY OutTypes, LenProperties
    <2>5. Quiet'
      BY <1>3, <1>8 DEF Quiet
    <2>6. NumberedOut'
      BY <1>1, <1>4, <1>5, <1>8, <2>1, <2>2 DEF InvOut, NumberedOut
    <2>7. SentOnce'
      BY <1>1, <1>4, <1>5, <1>8, <2>1, <2>2 DEF InvOut, SentOnce
    <2>8. SameId'
      <3>1. ASSUME NEW k \in DOMAIN down', down'[k].t = "publish", NEW i \in PubIds', inflight'[i].m = down'[k].m
            PROVE  i = down'[k].id /\ \A j \in DOMAIN down' : j > k => ~Is(down'[j], "pubrel", i)
        BY <1>4, <1>8, <2>1, <2>2, <3>1 DEF InvOut, SameId, Is
      <3>2. ASSUME NEW k \in DOMAIN down', NEW l \in DOMAIN down', l > k,
                   down'[k].t = "publish", down'[l].t = "publish", down'[l].m = down'[k].m
            PROVE  /\ down'[l].id = down'[k].id
                   /\ \A j \in DOMAIN down' : k < j /\ j < l => ~Is(down'[j], "pubrel", down'[k].id)
        BY <2>1, <2>2, <2>3, <2>4, <3>2 DEF InvOut, SameId, Is
      <3> QED
        BY <3>1, <3>2 DEF SameId
    <2>9. OnceOut'
      BY <1>1, <1>4, <1>8, <2>1, <2>2, <2>3, <2>4 DEF InvOut, OnceOut, Is
    <2> QED
      BY <2>5, <2>6, <2>7, <2>8, <2>9 DEF InvOut
  <1> QED
    BY <1>3, <1>6, <1>7, <1>8 DEF HandlerAnswer

\* The session's new connection starts with what is stored, each entry once.
LEMMA OutResend ==
  ASSUME TypeOK, InvOut, ResendInflightMessages
  PROVE  InvOut'
PROOF
  <1>1. /\ UNCHANGED <<pub, got, cdup, published, outbound, conn>> /\ conn /\ rd = "resend" /\ rd' = "idle"
        /\ inflight' = [i \in Ids |-> IF i \in {j \in InUse : inflight[j].t \in {"puback", "pubcomp"}}
                                      THEN NoEntry ELSE inflight[i]]
    BY DEF ResendInflightMessages, clientVars
  <1>2. outbound = <<>> /\ down = <<>> /\ Busy = {}
    BY <1>1 DEF InvOut, Quiet
  <1>3. /\ \A k \in DOMAIN down' : k \in Nat /\ down'[k].id \in InUse /\ down'[k] = Stored(down'[k].id)
        /\ \A k, l \in DOMAIN down' : down'[k].id = down'[l].id => k = l
    BY <1>2, BrokerResends
  <1>4. Busy' = {}
    BY <1>1, <1>2 DEF Busy
  <1>5. PubIds' = PubIds /\ \A i \in PubIds : inflight'[i] = inflight[i]
    BY <1>1 DEF PubIds, NoEntry, InUse
  <1>6. \A k \in DOMAIN down' : /\ down'[k].t = inflight[down'[k].id].t /\ down'[k].m = inflight[down'[k].id].m
                                /\ down'[k].q = inflight[down'[k].id].q
                                /\ down'[k].t = "publish" <=> down'[k].id \in PubIds
    BY <1>3 DEF Stored, PubIds, InUse
  <1>7. Quiet'
    BY <1>1 DEF Quiet
  <1>8. NumberedOut'
    <2>1. \A k \in DOMAIN down' : down'[k].t = "publish" =>
            down'[k].m \in 1 .. published /\ down'[k].q = QosIn(Qos2Msgs, down'[k].m)
      BY <1>6 DEF InvOut, NumberedOut
    <2>2. /\ \A i \in PubIds' : inflight'[i].m \in 1 .. published' /\ inflight'[i].q = QosIn(Qos2Msgs, inflight'[i].m)
          /\ \A i, j \in PubIds' : inflight'[i].m = inflight'[j].m => i = j
      BY <1>1, <1>5 DEF InvOut, NumberedOut
    <2> QED
      BY <1>1, <1>4, <2>1, <2>2 DEF InvOut, NumberedOut
  <1>9. SentOnce'
    BY <1>1, <1>2, <1>4 DEF SentOnce
  <1>10. \A j \in DOMAIN down' : \A i \in PubIds : ~Is(down'[j], "pubrel", i)
    BY <1>6 DEF Is, PubIds
  <1>11. \A k \in DOMAIN down' : down'[k].t = "publish" =>
           \A i \in PubIds : inflight[i].m = down'[k].m => i = down'[k].id
    BY <1>6 DEF InvOut, NumberedOut
  <1>12. SameId'
    BY <1>3, <1>5, <1>6, <1>10, <1>11 DEF SameId
  <1>13. OnceOut'
    BY <1>1, <1>5, <1>6, <1>10 DEF InvOut, OnceOut
  <1> QED
    BY <1>7, <1>8, <1>9, <1>12, <1>13 DEF InvOut

\* What the connection carried is gone with it, and the map stays.
LEMMA OutConnection ==
  ASSUME TypeOK, InvOut, ConnectionLost \/ ResumeSession
  PROVE  InvOut'
PROOF
  <1>1. UNCHANGED <<inflight, pub, got, cdup, published>>
    BY DEF ConnectionLost, ResumeSession, clientVars
  <1>2. PubIds' = PubIds /\ Busy' = Busy
    BY <1>1 DEF PubIds, Busy
  <1>3. Quiet' /\ down' = <<>> /\ outbound' = <<>>
    <2>1. CASE ConnectionLost
      BY <2>1 DEF ConnectionLost, Closed, Quiet, Busy
    <2>2. CASE ResumeSession
      BY <2>2, <1>2 DEF ResumeSession, InvOut, Quiet, Busy
    <2> QED
      BY <2>1, <2>2
  <1>4. NumberedOut'
    BY <1>1, <1>2, <1>3 DEF InvOut, NumberedOut
  <1>5. SentOnce'
    BY <1>1, <1>2, <1>3 DEF InvOut, SentOnce
  <1>6. SameId' /\ OnceOut'
    BY <1>1, <1>2, <1>3 DEF InvOut, SameId, OnceOut
  <1> QED
    BY <1>3, <1>4, <1>5, <1>6 DEF InvOut

\* A publisher's local step and an entry that expires bring nothing new.
LEMMA OutBeside ==
  ASSUME TypeOK, InvOut,
         \/ \E p \in Publishers : NextPacketID(p) \/ LoadSendQuota(p) \/ SubSendQuota(p)
         \/ \E i \in Ids : ClearExpiredInflight(i)
  PROVE  InvOut'
PROOF
  <1>1. ASSUME NEW p \in Publishers, NextPacketID(p) \/ LoadSendQuota(p) \/ SubSendQuota(p) PROVE InvOut'
    <2>1. /\ UNCHANGED outState /\ pub[p].pc # "idle"
          /\ \A o \in Publishers : o # p => pub'[o] = pub[o]
          /\ \/ pub'[p].pc = "idle"
             \/ /\ pub'[p].m = pub[p].m /\ pub'[p].q = pub[p].q /\ pub'[p].pc # "idle"
                /\ pub[p].pc # "nextid" => pub'[p].id = pub[p].id /\ pub'[p].pc \notin {"nextid", "set"}
                /\ pub[p].pc \in {"nextid", "set"} => pub[p].pc = "nextid"
      BY <1>1, PublisherSteps
    <2>2. NumberedOut' /\ SentOnce' /\ SameId' /\ OnceOut'
      BY <2>1, NothingNew DEF outState
    <2>3. Busy' \subseteq Busy
      BY <2>1 DEF Busy
    <2>4. Quiet'
      BY <2>1, <2>3 DEF outState, InvOut, Quiet
    <2> QED
      BY <2>2, <2>4 DEF InvOut
  <1>2. ASSUME NEW i \in Ids, ClearExpiredInflight(i) PROVE InvOut'
    <2>1. UNCHANGED <<outbound, down, got, cdup, published, pub, rd, conn>> /\ inflight' = [inflight EXCEPT ![i] = NoEntry]
      BY <1>2 DEF ClearExpiredInflight, Delete, clientVars
    <2>2. \A j \in Ids : inflight'[j] = inflight[j] \/ inflight'[j].t # "publish"
      BY <2>1 DEF NoEntry, TypeOK, TypeMap
    <2>3. NumberedOut' /\ SentOnce' /\ SameId' /\ OnceOut'
      BY <2>1, <2>2, NothingNew
    <2>4. Quiet'
      BY <2>1 DEF InvOut, Quiet, Busy
    <2> QED
      BY <2>3, <2>4 DEF InvOut
  <1> QED
    BY <1>1, <1>2

\* What the client does with a publish: it answers, and counts a QoS 2 one whose id is new.
LEMMA ClientTakes ==
  ASSUME TypeOK, ClientGetsPublish
  PROVE  /\ UNCHANGED <<inflight, outbound, pub, conn, published, rd>> /\ ClientReads /\ In.t = "publish"
         /\ \/ UNCHANGED got /\ UNCHANGED cdup
            \/ In.q = 1 /\ got' = [got EXCEPT ![In.m] = @ + 1] /\ UNCHANGED cdup
            \/ In.q = 2 /\ In.id \notin cdup /\ got' = [got EXCEPT ![In.m] = @ + 1] /\ cdup' = cdup \cup {In.id}
PROOF
  <1>1. /\ UNCHANGED <<inflight, outbound, pub, conn, published, rd>> /\ ClientReads /\ In.t = "publish"
        /\ \/ In.q = 1 /\ got' = [got EXCEPT ![In.m] = @ + 1] /\ UNCHANGED cdup
           \/ /\ In.q = 2 /\ cdup' = cdup \cup {In.id}
              /\ got' = IF In.id \in cdup THEN got ELSE [got EXCEPT ![In.m] = @ + 1]
           \/ UNCHANGED <<got, cdup>>
    BY DEF ClientGetsPublish, clientFrame, brokerVars
  <1>2. In.id \in cdup => cdup \cup {In.id} = cdup
    OBVIOUS
  <1> QED
    BY <1>1, <1>2

\* The client takes a message: all its copies use the id the client remembers.
LEMMA OutTaken ==
  ASSUME TypeOK, InvOut, ClientGetsPublish
  PROVE  InvOut'
PROOF
  <1>1. /\ UNCHANGED <<inflight, outbound, pub, conn, published, rd>> /\ ClientReads /\ In.t = "publish"
        /\ \/ UNCHANGED got /\ UNCHANGED cdup
           \/ In.q = 1 /\ got' = [got EXCEPT ![In.m] = @ + 1] /\ UNCHANGED cdup
           \/ In.q = 2 /\ In.id \notin cdup /\ got' = [got EXCEPT ![In.m] = @ + 1] /\ cdup' = cdup \cup {In.id}
    BY ClientTakes
  <1>2. /\ 1 \in DOMAIN down /\ down[1] = In /\ In \in Packet
        /\ \A k \in DOMAIN down : k \in Nat /\ k >= 1
        /\ \A k \in DOMAIN down' : k \in Nat /\ k >= 1 /\ k + 1 \in DOMAIN down /\ down'[k] = down[k + 1]
    BY <1>1, InAt
  <1>3. PubIds' = PubIds /\ Busy' = Busy
    BY <1>1 DEF PubIds, Busy
  <1>4. /\ In.m \in 1 .. published /\ In.m \in Msgs /\ In.q = QosIn(Qos2Msgs, In.m)
        /\ \A p \in Busy : pub[p].m # In.m
        /\ \A k \in DOMAIN outbound : outbound[k].m # In.m
    <2>1. In.m \in 1 .. published /\ In.q = QosIn(Qos2Msgs, In.m)
      BY <1>1, <1>2 DEF InvOut, NumberedOut
    <2>2. In.m \in Msgs
      BY <2>1, OutTypes
    <2> QED
      BY <1>1, <1>2, <2>1, <2>2 DEF InvOut, SentOnce
  <1>5. got \in [Msgs -> Nat] /\ \A m \in Msgs : m > published => got[m] = 0
    BY DEF InvOut, NumberedOut
  <1>6. got' \in [Msgs -> Nat] /\ \A m \in Msgs : m # In.m => got'[m] = got[m]
    <2>1. got[In.m] + 1 \in Nat
      BY <1>4, <1>5
    <2> QED
      BY <1>1, <1>4, <1>5, <2>1
  <1>7. /\ \A k \in DOMAIN down : down[k].t = "publish" => down[k].m \in Msgs /\ down[k].q = QosIn(Qos2Msgs, down[k].m)
        /\ \A k \in DOMAIN outbound : outbound[k].m \in Msgs
        /\ \A p \in Busy : pub[p].m \in Msgs
        /\ \A i \in PubIds : inflight[i].m \in Msgs /\ inflight[i].q = QosIn(Qos2Msgs, inflight[i].m)
    BY OutTypes DEF InvOut, NumberedOut
  <1>8. Quiet'
    <2>1. conn /\ rd # "resend"
      BY <1>1 DEF ClientReads
    <2> QED
      BY <1>1, <2>1 DEF Quiet
  <1>9. NumberedOut'
    <2>1. \A m \in Msgs : m > published => got'[m] = 0
      <3>1. published \in Nat
        BY OutTypes
      <3> QED
        BY <1>4, <1>5, <1>6, <3>1
    <2> QED
      BY <1>1, <1>2, <1>3, <1>6, <2>1 DEF InvOut, NumberedOut
  <1>10. SentOnce'
    BY <1>1, <1>2, <1>3, <1>4, <1>6, <1>7 DEF InvOut, SentOnce
  <1>11. SameId'
    <2>1. ASSUME NEW k \in DOMAIN down', down'[k].t = "publish", NEW i \in PubIds, inflight[i].m = down'[k].m
          PROVE  i = down'[k].id /\ \A j \in DOMAIN down' : j > k => ~Is(down'[j], "pubrel", i)
      BY <1>2, <2>1 DEF InvOut, SameId, Is
    <2>2. ASSUME NEW k \in DOMAIN down', NEW l \in DOMAIN down', l > k,
                 down'[k].t = "publish", down'[l].t = "publish", down'[l].m = down'[k].m
          PROVE  /\ down'[l].id = down'[k].id
                 /\ \A j \in DOMAIN down' : k < j /\ j < l => ~Is(down'[j], "pubrel", down'[k].id)
      BY <1>2, <2>2 DEF InvOut, SameId, Is
    <2> QED
      BY <1>1, <1>3, <2>1, <2>2 DEF SameId
  <1>12. CASE UNCHANGED got /\ UNCHANGED cdup
    <2>1. OnceOut'
      BY <1>1, <1>2, <1>3, <1>12 DEF InvOut, OnceOut, Is
    <2> QED
      BY <1>8, <1>9, <1>10, <1>11, <2>1 DEF InvOut
  <1>13. CASE In.q = 1 /\ UNCHANGED cdup
    <2>1. In.m \notin Qos2Msgs
      BY <1>4, <1>13 DEF QosIn
    <2>2. \A m \in Qos2Msgs : m \in Msgs /\ m # In.m
      BY <2>1, OutTypes, QosFlowAssumption
    <2>3. \A m \in Msgs : QosIn(Qos2Msgs, m) = 2 => m \in Qos2Msgs
      BY DEF QosIn
    <2>4. \A m \in Qos2Msgs : got'[m] = got[m]
      BY <1>6, <2>2
    <2>5. OnceOut'
      BY <1>1, <1>2, <1>3, <1>7, <1>13, <2>3, <2>4 DEF InvOut, OnceOut, Is
    <2> QED
      BY <1>8, <1>9, <1>10, <1>11, <2>5 DEF InvOut
  <1>14. CASE /\ In.q = 2 /\ In.id \notin cdup /\ got' = [got EXCEPT ![In.m] = @ + 1]
              /\ cdup' = cdup \cup {In.id}
    <2>1. got[In.m] = 0
      BY <1>1, <1>2, <1>4, <1>5, <1>14 DEF InvOut, OnceOut
    <2>2. got'[In.m] = 1
      BY <1>4, <1>5, <1>14, <2>1
    <2>3. \A m \in Qos2Msgs : got'[m] <= 1
      <3>1. \A m \in Qos2Msgs : m \in Msgs
        BY OutTypes, QosFlowAssumption
      <3> QED
        BY <1>6, <2>2, <3>1 DEF InvOut, OnceOut
    <2>4. ASSUME NEW i \in PubIds, inflight[i].q = 2, got'[inflight[i].m] > 0
          PROVE  i \in cdup' /\ \A j \in DOMAIN down' : ~Is(down'[j], "pubrel", i)
      <3>1. CASE inflight[i].m = In.m
        <4>1. i = In.id /\ \A j \in DOMAIN down : j > 1 => ~Is(down[j], "pubrel", i)
          BY <1>1, <1>2, <3>1 DEF InvOut, SameId
        <4> QED
          BY <1>2, <1>14, <4>1
      <3>2. CASE inflight[i].m # In.m
        BY <1>2, <1>6, <1>7, <1>14, <2>4, <3>2 DEF InvOut, OnceOut
      <3> QED
        BY <3>1, <3>2
    <2>5. ASSUME NEW k \in DOMAIN down', down'[k].t = "publish", down'[k].q = 2, got'[down'[k].m] > 0
          PROVE  down'[k].id \in cdup' /\ \A j \in DOMAIN down' : j < k => ~Is(down'[j], "pubrel", down'[k].id)
      <3>1. CASE down'[k].m = In.m
        <4>1. /\ down[k + 1].id = In.id
              /\ \A j \in DOMAIN down : 1 < j /\ j < k + 1 => ~Is(down[j], "pubrel", In.id)
          BY <1>1, <1>2, <2>5, <3>1 DEF InvOut, SameId
        <4> QED
          BY <1>2, <1>14, <4>1
      <3>2. CASE down'[k].m # In.m
        <4>1. got[down[k + 1].m] > 0
          BY <1>2, <1>6, <1>7, <2>5, <3>2
        <4> QED
          BY <1>2, <1>14, <2>5, <4>1 DEF InvOut, OnceOut
      <3> QED
        BY <3>1, <3>2
    <2>6. OnceOut'
      BY <1>1, <1>3, <2>3, <2>4, <2>5 DEF OnceOut
    <2> QED
      BY <1>8, <1>9, <1>10, <1>11, <2>6 DEF InvOut
  <1> QED
    BY <1>1, <1>12, <1>13, <1>14

\* The client reads something else: the id it forgets at a PUBREL is one of no publish that
\* it has and may read again.
LEMMA OutRead ==
  ASSUME TypeOK, InvOut, ClientGetsPubrel \/ ClientGetsAck
  PROVE  InvOut'
PROOF
  <1>1. /\ UNCHANGED <<inflight, outbound, pub, conn, published, rd, got>> /\ ClientReads /\ In.t # "publish"
        /\ \/ UNCHANGED cdup
           \/ cdup' = cdup \ {In.id} /\ In.t = "pubrel"
    BY DEF ClientGetsPubrel, ClientGetsAck, clientFrame, brokerVars
  <1>2. /\ 1 \in DOMAIN down /\ down[1] = In
        /\ \A k \in DOMAIN down : k \in Nat /\ k >= 1
        /\ \A k \in DOMAIN down' : k \in Nat /\ k >= 1 /\ k + 1 \in DOMAIN down /\ down'[k] = down[k + 1]
    BY <1>1, InAt
  <1>3. PubIds' = PubIds /\ Busy' = Busy
    BY <1>1 DEF PubIds, Busy
  <1>4. Quiet'
    <2>1. conn /\ rd # "resend"
      BY <1>1 DEF ClientReads
    <2> QED
      BY <1>1, <2>1 DEF Quiet
  <1>5. NumberedOut'
    BY <1>1, <1>2, <1>3 DEF InvOut, NumberedOut
  <1>6. SentOnce'
    BY <1>1, <1>2, <1>3 DEF InvOut, SentOnce
  <1>7. SameId'
    <2>1. ASSUME NEW k \in DOMAIN down', down'[k].t = "publish", NEW i \in PubIds, inflight[i].m = down'[k].m
          PROVE  i = down'[k].id /\ \A j \in DOMAIN down' : j > k => ~Is(down'[j], "pubrel", i)
      BY <1>2, <2>1 DEF InvOut, SameId, Is
    <2>2. ASSUME NEW k \in DOMAIN down', NEW l \in DOMAIN down', l > k,
                 down'[k].t = "publish", down'[l].t = "publish", down'[l].m = down'[k].m
          PROVE  /\ down'[l].id = down'[k].id
                 /\ \A j \in DOMAIN down' : k < j /\ j < l => ~Is(down'[j], "pubrel", down'[k].id)
      BY <1>2, <2>2 DEF InvOut, SameId, Is
    <2> QED
      BY <1>1, <1>3, <2>1, <2>2 DEF SameId
  <1>8. OnceOut'
    <2>1. \A i \in cdup : i \notin cdup' => Is(In, "pubrel", i)
      BY <1>1 DEF Is
    <2>2. ASSUME NEW i \in PubIds, inflight[i].q = 2, got[inflight[i].m] > 0
          PROVE  i \in cdup' /\ \A j \in DOMAIN down' : ~Is(down'[j], "pubrel", i)
      BY <1>2, <2>1, <2>2 DEF InvOut, OnceOut
    <2>3. ASSUME NEW k \in DOMAIN down', down'[k].t = "publish", down'[k].q = 2, got[down'[k].m] > 0
          PROVE  down'[k].id \in cdup' /\ \A j \in DOMAIN down' : j < k => ~Is(down'[j], "pubrel", down'[k].id)
      <3>1. /\ down[k + 1].id \in cdup /\ \A j \in DOMAIN down : j < k + 1 => ~Is(down[j], "pubrel", down[k + 1].id)
        BY <1>2, <2>3 DEF InvOut, OnceOut
      <3> QED
        BY <1>2, <2>1, <3>1
    <2> QED
      BY <1>1, <1>3, <2>2, <2>3 DEF InvOut, OnceOut
  <1> QED
    BY <1>4, <1>5, <1>6, <1>7, <1>8 DEF InvOut

\* At the start nothing is stored, sent or delivered.
LEMMA InitOut ==
  ASSUME Init
  PROVE  InvOut
PROOF
  <1>1. /\ conn /\ outbound = <<>> /\ down = <<>> /\ rd = "idle" /\ PubIds = {} /\ Busy = {}
        /\ got = [m \in Msgs |-> 0]
    BY DEF Init, PubIds, Busy, NoEntry, Idle
  <1>2. \A m \in Qos2Msgs : m \in Msgs
    BY QosFlowAssumption DEF Msgs
  <1> QED
    BY <1>1, <1>2 DEF InvOut, Quiet, NumberedOut, SentOnce, SameId, OnceOut

\* The invariant is kept by every step.
LEMMA OutStep ==
  ASSUME TypeOK, InvOut, ~PublishDuringResend, [Next]_vars
  PROVE  InvOut'
PROOF
  <1>1. CASE UNCHANGED outState /\ UNCHANGED pub
    BY <1>1 DEF outState, InvOut, Quiet, NumberedOut, SentOnce, SameId, OnceOut, PubIds, Busy
  <1>2. CASE UNCHANGED vars
    BY <1>1, <1>2 DEF vars, brokerVars, clientVars, outState
  <1>3. ASSUME NEW p \in Publishers, PublishStep(p) PROVE InvOut'
    BY <1>3, OutBeside, OutStore, OutSend DEF PublishStep
  <1>4. ASSUME NEW i \in ClientIds, ClientPublish(i) PROVE InvOut'
    BY <1>1, <1>4 DEF ClientPublish, clientFrame, brokerVars, outState
  <1> QED
    BY <1>2, <1>3, <1>4, OutCheck, OutWrite, OutHandler, OutTail, OutResend, OutTaken, OutRead, OutConnection, OutBeside
       DEF Next, Reader, ClientStep

\* A QoS 2 message reaches the client's application at most once: whatever the map resends
\* after a loss goes out under the id that the client still remembers, for the PUBREL that
\* lets it forget is only sent when the entry is no publish any more
\* (processPubrec, server.go; ResendInflightMessages, clients.go).
THEOREM DeliveredOnce ==
  ASSUME ~PublishDuringResend
  PROVE  Spec => []ExactlyOnceOut
PROOF
  <1>1. Init => InvOut
    BY InitOut
  <1>2. TypeOK /\ InvOut /\ [Next]_vars => InvOut'
    BY OutStep
  <1>3. InvOut => ExactlyOnceOut
    BY DEF InvOut, OnceOut, ExactlyOnceOut
  <1> QED
    BY <1>1, <1>2, <1>3, TypeCorrect, PTL DEF Spec
=============================================================================
