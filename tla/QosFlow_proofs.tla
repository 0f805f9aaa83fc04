--------------------------- MODULE QosFlow_proofs ---------------------------
(***************************************************************************)
(* Proofs about QosFlow for every number of publishers, messages and ids:  *)
(* type correctness, and the bound on the messages a session stores.       *)
(***************************************************************************)
EXTENDS QosFlow, TLAPS, SequenceTheorems, FiniteSetTheorems

-----------------------------------------------------------------------------
(* What the helpers of QosFlow return.                                      *)

\* An entry read from the map is an entry, whatever id is asked for.
LEMMA EntryType ==
  ASSUME TypeMap, NEW i \in Ids PROVE inflight[i] \in Entry
BY DEF TypeMap

\* Inflight.Set and Inflight.Delete leave a map of entries.
LEMMA SetType ==
  ASSUME TypeMap, NEW i, NEW e \in Entry
  PROVE  Set(i, e) \in [Ids -> Entry]
BY DEF TypeMap, Set

\* A free id holds an entry too.
LEMMA NoEntryType == NoEntry \in Entry
BY DEF NoEntry, Entry, Acks

\* Inflight.Delete leaves a map of entries.
LEMMA DeleteType ==
  ASSUME TypeMap, NEW i
  PROVE  Delete(i) \in [Ids -> Entry]
BY NoEntryType DEF TypeMap, Delete

\* What buildAck stores is an entry.
LEMMA AckEntryType ==
  ASSUME NEW t \in Acks
  PROVE  AckEntry(t) \in Entry
BY DEF AckEntry, NoEntry, Entry, Acks

\* An acknowledgement built for a packet is a packet.
LEMMA AckType ==
  ASSUME NEW t \in Acks, NEW pk \in Packet, NEW e \in BOOLEAN
  PROVE  Ack(t, pk, e) \in Packet
BY DEF Ack, Packet

\* Raising or lowering a receive quota keeps it between zero and its maximum.
LEMMA QuotaType ==
  ASSUME NEW max \in Nat, NEW q \in 0 .. max
  PROVE  Decreased(q) \in 0 .. max /\ Increased(q, max) \in 0 .. max
BY DEF Decreased, Increased

\* The send quota may leave its range, and stays a number: publishers read and lower it in two steps.
LEMMA SendQuotaType ==
  ASSUME NEW max \in Nat, NEW q \in Int
  PROVE  Decreased(q) \in Int /\ Increased(q, max) \in Int
BY DEF Decreased, Increased

\* The gauge stays a number.
LEMMA CountedType ==
  ASSUME TypeMap, NEW i
  PROVE  Counted(i) \in Int
BY DEF TypeMap, Counted

\* The channels and connections that a handler extends or empties hold packets.
LEMMA SeqType ==
  ASSUME NEW s \in Seq(Packet), NEW pk \in Packet
  PROVE  /\ Append(s, pk) \in Seq(Packet)
         /\ s # <<>> => Head(s) \in Packet /\ Tail(s) \in Seq(Packet)
         /\ <<>> \in Seq(Packet)
BY EmptySeq, AppendProperties, HeadTailProperties

\* A handler that answers, is silent, closes or dies leaves the wires typed.
LEMMA HandlerNet ==
  ASSUME TypeNet, TypeHistory, up # <<>>, NEW ack \in Packet,
         Replied(ack) \/ NoReply \/ Died \/ (Closed /\ UNCHANGED <<rd, losses>>)
  PROVE  TypeNet' /\ losses' \in 0 .. MaxLosses
PROOF
  <1>1. Tail(up) \in Seq(Packet) /\ Append(down, ack) \in Seq(Packet) /\ <<>> \in Seq(Packet)
    BY SeqType DEF TypeNet
  <1>2. MaxLosses \in Nat /\ losses \in 0 .. MaxLosses
    BY QosFlowAssumption DEF TypeHistory
  <1>3. CASE Replied(ack) \/ NoReply
    BY <1>1, <1>2, <1>3 DEF Replied, NoReply, Finished, TypeNet
  <1>4. ASSUME Closed, rd' = rd \/ rd' = "idle" PROVE TypeNet'
    <2>1. outbound' \in Seq(Packet) /\ down' \in Seq(Packet) /\ up' \in Seq(Packet)
      BY <1>1, <1>4 DEF Closed
    <2>2. rd' \in {"idle", "tail", "resend"} /\ conn' \in BOOLEAN
      BY <1>4 DEF Closed, TypeNet
    <2> QED
      BY <2>1, <2>2 DEF TypeNet
  <1>5. CASE Died \/ (Closed /\ UNCHANGED <<rd, losses>>)
    BY <1>2, <1>4, <1>5 DEF Died
  <1> QED
    BY <1>3, <1>5

\* A client that reads, and answers or not, leaves the wires typed.
LEMMA ClientNet ==
  ASSUME TypeNet, ClientReads, NEW pk \in Packet, up' \in {up, Append(up, pk)},
         UNCHANGED <<brokerVars, conn>>
  PROVE  TypeNet'
BY SeqType DEF TypeNet, ClientReads, brokerVars

\* A publishing goroutine outside publishToClient is in a publisher state.
LEMMA IdleType == Idle \in PublisherState
BY QosFlowAssumption DEF Idle, PublisherState

\* So is one that has passed the in-flight limit with a message in hand.
LEMMA BegunType == ASSUME NEW m \in Nat PROVE Begun(m) \in PublisherState
BY QosFlowAssumption DEF Begun, QosIn, PublisherState

\* The local variables of a goroutine in publishToClient; past NextPacketID it has an id.
LEMMA PubFields ==
  ASSUME TypePublishers, NEW p \in Publishers
  PROVE  /\ pub[p].m \in Nat /\ pub[p].q \in 0 .. 2 /\ pub[p].id \in 0 .. MaxPacketID
         /\ pub[p].quota \in Int
         /\ pub[p].pc \notin {"idle", "nextid"} => pub[p].id \in Ids
BY QosFlowAssumption DEF TypePublishers, PublisherState, Ids

\* What publishToClient stores, held or not, is an entry.
LEMMA PublishEntryType ==
  ASSUME TypePublishers, NEW p \in Publishers, NEW h \in BOOLEAN
  PROVE  [t |-> "publish", m |-> pub[p].m, q |-> pub[p].q, held |-> h] \in Entry
BY PubFields DEF Entry

\* What publishToClient queues is a packet.
LEMMA PublishPacketType ==
  ASSUME TypePublishers, NEW p \in Publishers, pub[p].pc \notin {"idle", "nextid"}
  PROVE  [t |-> "publish", id |-> pub[p].id, m |-> pub[p].m, q |-> pub[p].q, err |-> FALSE] \in Packet
BY PubFields DEF Packet

\* The reader handles a packet.
LEMMA UpType ==
  ASSUME TypeNet, up # <<>> PROVE Pk \in Packet
BY SeqType DEF TypeNet, Pk

\* The client reads a packet.
LEMMA DownType ==
  ASSUME TypeNet, ClientReads PROVE In \in Packet
BY SeqType DEF TypeNet, ClientReads, In

\* What the map keeps under an id in use can be sent.
LEMMA StoredType ==
  ASSUME TypeMap, NEW i \in PubIds
  PROVE  Stored(i) \in Packet /\ inflight[i].m \in Nat
BY DEF TypeMap, Stored, PubIds, Packet, Entry

\* The client releases a message with a packet.
LEMMA ClientPubrelType ==
  ASSUME TypeClient, NEW i \in ClientIds, NEW e \in BOOLEAN
  PROVE  [t |-> "pubrel", id |-> i, m |-> cout[i].m, q |-> 0, err |-> e] \in Packet
BY DEF TypeClient, Packet, Acks, Ids

\* The client publishes with a packet.
LEMMA ClientPublishType ==
  ASSUME NEW m \in Nat, NEW i \in ClientIds
  PROVE  [t |-> "publish", id |-> i, m |-> m, q |-> QosIn(Qos2In, m), err |-> FALSE] \in Packet
BY DEF Packet, QosIn, Ids

\* Ids are finitely many, and so are those in use.
LEMMA FiniteIds == IsFiniteSet(Ids) /\ IsFiniteSet(InUse) /\ IsFiniteSet(PubIds)
PROOF
  <1>1. IsFiniteSet(1 .. MaxPacketID)
    BY QosFlowAssumption, FS_Interval
  <1>2. IsFiniteSet(Ids)
    BY <1>1, QosFlowAssumption, FS_Union DEF Ids
  <1> QED
    BY <1>2, FS_Subset DEF InUse, PubIds

\* An order of a finite set, mapped to packets, is a sequence of packets.
LEMMA OrderType ==
  ASSUME NEW S, IsFiniteSet(S), NEW s \in Orders(S)
  PROVE  /\ Len(s) \in Nat /\ DOMAIN s = 1 .. Len(s)
         /\ \A k \in 1 .. Len(s) : s[k] \in S
PROOF
  <1>1. Cardinality(S) \in Nat
    BY FS_CardinalityType
  <1>2. s \in [1 .. Cardinality(S) -> S]
    BY DEF Orders
  <1>3. s \in Seq(S) /\ Len(s) = Cardinality(S)
    BY <1>1, <1>2
  <1> QED
    BY <1>1, <1>2, <1>3

-----------------------------------------------------------------------------
(* Each step keeps TypeOK: the parts it changes, then the parts it leaves.  *)

\* publishToClient, step by step.
LEMMA PublisherType ==
  ASSUME TypeOK, NEW p \in Publishers, CheckInflight(p) \/ PublishStep(p)
  PROVE  TypeOK'
PROOF
  <1>1. CASE CheckInflight(p)
    <2>1. TypePublishers'
      BY <1>1, QosFlowAssumption, BegunType DEF TypeOK, TypePublishers, TypeHistory, CheckInflight, Begun
    <2>2. TypeHistory'
      BY <1>1, QosFlowAssumption DEF TypeOK, TypeHistory, CheckInflight, clientVars, history, bounds
    <2>3. (TypeMap /\ TypeNet /\ TypeClient)'
      BY <1>1 DEF CheckInflight, brokerVars, clientVars, bounds, TypeOK, TypeMap, TypeNet, TypeClient
    <2> QED
      BY <2>1, <2>2, <2>3 DEF TypeOK
  <1>2. CASE NextPacketID(p)
    <2>1. TypeMap'
      BY <1>2, QosFlowAssumption DEF TypeOK, TypeMap, NextPacketID, Free
    <2>2. TypePublishers'
      BY <1>2, QosFlowAssumption, IdleType DEF TypeOK, TypePublishers, NextPacketID, Free, Idle, PublisherState
    <2>3. (TypeNet /\ TypeClient /\ TypeHistory)'
      BY <1>2 DEF NextPacketID, brokerVars, clientVars, history, bounds, TypeOK, TypeNet, TypeClient, TypeHistory
    <2> QED
      BY <2>1, <2>2, <2>3 DEF TypeOK
  <1>3. CASE StoreInflight(p)
    <2>1. TypeMap'
      <3>1. inflight' \in [Ids -> Entry]
        BY <1>3, SetType, PublishEntryType DEF TypeOK, TypeMap, StoreInflight, TypePublishers
      <3>2. sendQuota' \in Int /\ recvQuota' \in 0 .. ReceiveMaximum
        BY <1>3 DEF TypeOK, TypeMap, StoreInflight, TypePublishers
      <3>3. packetID' \in 0 .. MaxPacketID
        BY <1>3 DEF TypeOK, TypeMap, StoreInflight, TypePublishers
      <3>4. info' \in Int
        BY <1>3 DEF TypeOK, TypeMap, StoreInflight, TypePublishers
      <3> QED
        BY <3>1, <3>2, <3>3, <3>4 DEF TypeMap
    <2>2. TypePublishers'
      BY <1>3 DEF TypeOK, TypePublishers, StoreInflight, PublisherState, TypeMap
    <2>3. TypeHistory'
      BY <1>3, PubFields DEF TypeOK, TypeHistory, StoreInflight, clientVars, history, bounds, TypePublishers
    <2>4. (TypeNet /\ TypeClient)'
      BY <1>3 DEF StoreInflight, brokerVars, clientVars, bounds, TypeOK, TypeNet, TypeClient
    <2> QED
      BY <2>1, <2>2, <2>3, <2>4 DEF TypeOK
  <1>4. CASE LoadSendQuota(p)
    <2>1. TypePublishers'
      BY <1>4 DEF TypeOK, TypePublishers, LoadSendQuota, AfterQuota, PublisherState
    <2>2. (TypeMap /\ TypeNet /\ TypeClient /\ TypeHistory)'
      BY <1>4 DEF LoadSendQuota, brokerVars, clientVars, history, bounds, TypeOK, TypeMap, TypeNet, TypeClient, TypeHistory
    <2> QED
      BY <2>1, <2>2 DEF TypeOK
  <1>5. CASE SubSendQuota(p)
    <2>1. TypeMap'
      BY <1>5 DEF TypeOK, TypeMap, SubSendQuota
    <2>2. TypePublishers'
      BY <1>5 DEF TypeOK, TypePublishers, SubSendQuota, AfterQuota, PublisherState
    <2>3. (TypeNet /\ TypeClient /\ TypeHistory)'
      BY <1>5 DEF SubSendQuota, brokerVars, clientVars, history, bounds, TypeOK, TypeNet, TypeClient, TypeHistory
    <2> QED
      BY <2>1, <2>2, <2>3 DEF TypeOK
  <1>6. CASE HoldMessage(p)
    <2>1. TypeMap'
      <3>1. inflight' \in [Ids -> Entry]
        BY <1>6, SetType, PublishEntryType DEF TypeOK, TypeMap, HoldMessage
      <3>2. sendQuota' \in Int /\ recvQuota' \in 0 .. ReceiveMaximum
        BY <1>6 DEF TypeOK, TypeMap, HoldMessage
      <3>3. packetID' \in 0 .. MaxPacketID
        BY <1>6 DEF TypeOK, TypeMap, HoldMessage
      <3>4. info' \in Int
        BY <1>6 DEF TypeOK, TypeMap, HoldMessage
      <3> QED
        BY <3>1, <3>2, <3>3, <3>4 DEF TypeMap
    <2>2. TypePublishers'
      BY <1>6, IdleType DEF TypeOK, TypePublishers, HoldMessage, Idle
    <2>3. (TypeNet /\ TypeClient /\ TypeHistory)'
      BY <1>6 DEF HoldMessage, brokerVars, clientVars, history, bounds, TypeOK, TypeNet, TypeClient, TypeHistory
    <2> QED
      BY <2>1, <2>2, <2>3 DEF TypeOK
  <1>7. CASE SendOutbound(p)
    <2>1. TypeMap'
      BY <1>7, QosFlowAssumption, DeleteType, SendQuotaType DEF TypeOK, TypeMap, SendOutbound
    <2>2. TypePublishers'
      BY <1>7, IdleType DEF TypeOK, TypePublishers, SendOutbound, Idle
    <2>3. TypeNet'
      BY <1>7, SeqType, PublishPacketType DEF TypeOK, TypeNet, SendOutbound
    <2>4. TypeHistory'
      BY <1>7 DEF TypeOK, TypeHistory, SendOutbound, clientVars, history, bounds
    <2>5. (TypeClient)'
      BY <1>7 DEF SendOutbound, brokerVars, clientVars, bounds, TypeOK, TypeClient
    <2> QED
      BY <2>1, <2>2, <2>3, <2>4, <2>5 DEF TypeOK
  <1> QED
    BY <1>1, <1>2, <1>3, <1>4, <1>5, <1>6, <1>7 DEF PublishStep

\* The handlers of the packets a client sends.
LEMMA HandlerType ==
  ASSUME TypeOK, Handler
  PROVE  TypeOK'
PROOF
  <1>1. CASE ProcessPublishOverQuota
    <2>1. (TypeNet /\ TypeHistory)'
      BY <1>1, HandlerNet, UpType, AckType DEF TypeOK, TypeNet, TypeHistory, ProcessPublishOverQuota, TypeHistory, Reading, Pk, Answered, Refusal, Acks, handlerFrame, clientVars
    <2>2. (TypeMap /\ TypePublishers /\ TypeClient)'
      BY <1>1 DEF ProcessPublishOverQuota, handlerFrame, clientVars, TypeOK, TypeMap, TypePublishers, TypeClient
    <2> QED
      BY <2>1, <2>2 DEF TypeOK
  <1>2. CASE ProcessPublishDuplicate
    <2>1. (TypeNet /\ TypeHistory)'
      BY <1>2, HandlerNet, UpType, AckType DEF TypeOK, TypeNet, TypeHistory, ProcessPublishDuplicate, TypeHistory, Reading, Pk, Answered, Refusal, Acks, handlerFrame, clientVars
    <2>2. (TypeMap /\ TypePublishers /\ TypeClient)'
      BY <1>2 DEF ProcessPublishDuplicate, handlerFrame, clientVars, TypeOK, TypeMap, TypePublishers, TypeClient
    <2> QED
      BY <2>1, <2>2 DEF TypeOK
  <1>3. CASE ProcessPublishDenied
    <2>1. (TypeNet /\ TypeHistory)'
      BY <1>3, HandlerNet, UpType, AckType DEF TypeOK, TypeNet, TypeHistory, ProcessPublishDenied, TypeHistory, Reading, Pk, Answered, Refusal, Acks, handlerFrame, clientVars
    <2>2. (TypeMap /\ TypePublishers /\ TypeClient)'
      BY <1>3 DEF ProcessPublishDenied, handlerFrame, clientVars, TypeOK, TypeMap, TypePublishers, TypeClient
    <2> QED
      BY <2>1, <2>2 DEF TypeOK
  <1>4. CASE ProcessPublishStopped
    <2>1. TypeMap'
      BY <1>4, DeleteType, CountedType DEF TypeOK, TypeMap, ProcessPublishStopped, handlerFrame
    <2>2. (TypeNet /\ TypeHistory)'
      BY <1>4, HandlerNet, UpType, AckType DEF TypeOK, TypeNet, TypeHistory, ProcessPublishStopped, TypeHistory, Reading, Pk, Answered, Refusal, Acks, handlerFrame, clientVars
    <2>3. (TypePublishers /\ TypeClient)'
      BY <1>4 DEF ProcessPublishStopped, handlerFrame, clientVars, TypeOK, TypePublishers, TypeClient
    <2> QED
      BY <2>1, <2>2, <2>3 DEF TypeOK
  <1>5. ASSUME NEW h \in {"ok", "ignore"}, ProcessPublish(h) PROVE TypeOK'
    <2>1. TypeMap'
      <3>1. inflight' \in [Ids -> Entry]
        BY <1>5, SetType, AckEntryType, DeleteType DEF TypeOK, TypeMap, ProcessPublish, Acks, handlerFrame
      <3>2. sendQuota' \in Int /\ recvQuota' \in 0 .. ReceiveMaximum
        BY <1>5, QosFlowAssumption, QuotaType DEF TypeOK, TypeMap, ProcessPublish, Acks, handlerFrame
      <3>3. packetID' \in 0 .. MaxPacketID
        BY <1>5 DEF TypeOK, TypeMap, ProcessPublish, Acks, handlerFrame
      <3>4. info' \in Int
        <4>1. info' \in {Counted(Pk.id), Counted(Pk.id) + 1}
          BY <1>5 DEF ProcessPublish
        <4> QED
          BY <4>1, CountedType DEF TypeOK, TypeMap
      <3> QED
        BY <3>1, <3>2, <3>3, <3>4 DEF TypeMap
    <2>2. (TypeNet /\ TypeHistory)'
      BY <1>5, HandlerNet, UpType, AckType DEF TypeOK, TypeNet, TypeHistory, ProcessPublish, TypeHistory, Reading, Pk, Answered, Refusal, Acks, handlerFrame, clientVars
    <2>3. (TypePublishers /\ TypeClient)'
      BY <1>5 DEF ProcessPublish, handlerFrame, clientVars, TypeOK, TypePublishers, TypeClient
    <2> QED
      BY <2>1, <2>2, <2>3 DEF TypeOK
  <1>6. CASE ProcessPublishWriteFails
    <2>1. TypeMap'
      <3>1. inflight' \in [Ids -> Entry]
        BY <1>6, SetType, AckEntryType DEF TypeOK, TypeMap, ProcessPublishWriteFails, Acks, handlerFrame
      <3>2. sendQuota' \in Int /\ recvQuota' \in 0 .. ReceiveMaximum
        BY <1>6, QosFlowAssumption, QuotaType DEF TypeOK, TypeMap, ProcessPublishWriteFails, Acks, handlerFrame
      <3>3. packetID' \in 0 .. MaxPacketID
        BY <1>6 DEF TypeOK, TypeMap, ProcessPublishWriteFails, Acks, handlerFrame
      <3>4. info' \in Int
        BY <1>6, CountedType DEF TypeOK, TypeMap, ProcessPublishWriteFails
      <3> QED
        BY <3>1, <3>2, <3>3, <3>4 DEF TypeMap
    <2>2. (TypeNet /\ TypeHistory)'
      BY <1>6, HandlerNet, UpType, AckType DEF TypeOK, TypeNet, TypeHistory, ProcessPublishWriteFails, TypeHistory, Reading, Pk, Answered, Refusal, Acks, handlerFrame, clientVars
    <2>3. (TypePublishers /\ TypeClient)'
      BY <1>6 DEF ProcessPublishWriteFails, handlerFrame, clientVars, TypeOK, TypePublishers, TypeClient
    <2> QED
      BY <2>1, <2>2, <2>3 DEF TypeOK
  <1>7. CASE ProcessPuback
    <2>1. TypeMap'
      BY <1>7, QosFlowAssumption, DeleteType, CountedType, SendQuotaType DEF TypeOK, TypeMap, ProcessPuback, AckedEntryGone, handlerFrame
    <2>2. (TypeNet /\ TypeHistory)'
      BY <1>7, HandlerNet, UpType, AckType DEF TypeOK, TypeNet, TypeHistory, ProcessPuback, TypeHistory, Reading, Pk, Answered, Refusal, Acks, handlerFrame, clientVars
    <2>3. (TypePublishers /\ TypeClient)'
      BY <1>7 DEF ProcessPuback, handlerFrame, clientVars, TypeOK, TypePublishers, TypeClient
    <2> QED
      BY <2>1, <2>2, <2>3 DEF TypeOK
  <1>8. CASE ProcessPubrec
    <2>1. TypeMap'
      <3>1. inflight' \in [Ids -> Entry]
        BY <1>8, SetType, AckEntryType, DeleteType DEF TypeOK, TypeMap, ProcessPubrec, ReleaseEntry, Acks, handlerFrame
      <3>2. sendQuota' \in Int /\ recvQuota' \in 0 .. ReceiveMaximum
        BY <1>8, QosFlowAssumption, QuotaType DEF TypeOK, TypeMap, ProcessPubrec, ReleaseEntry, Acks, handlerFrame
      <3>3. packetID' \in 0 .. MaxPacketID
        BY <1>8 DEF TypeOK, TypeMap, ProcessPubrec, ReleaseEntry, Acks, handlerFrame
      <3>4. info' \in Int
        <4>1. info' \in {info, info - 1}
          BY <1>8 DEF ProcessPubrec
        <4> QED
          BY <4>1, CountedType DEF TypeOK, TypeMap
      <3> QED
        BY <3>1, <3>2, <3>3, <3>4 DEF TypeMap
    <2>2. (TypeNet /\ TypeHistory)'
      <3>1. up # <<>> /\ Pk.m \in Nat
        BY <1>8, UpType DEF ProcessPubrec, Reading, Pk, TypeOK, TypeNet, Packet
      <3>2. refused' \subseteq Nat /\ unacked' \subseteq Nat
        BY <1>8, <3>1 DEF ProcessPubrec, TypeOK, TypeHistory
      <3>3. TypeNet' /\ losses' \in 0 .. MaxLosses
        BY <1>8, <3>1, HandlerNet, UpType, AckType DEF TypeOK, ProcessPubrec, Reading, Pk, Answered, Refusal, Acks
      <3> QED
        BY <1>8, <3>2, <3>3 DEF TypeOK, TypeHistory, ProcessPubrec, handlerFrame, clientVars
    <2>3. (TypePublishers /\ TypeClient)'
      BY <1>8 DEF ProcessPubrec, handlerFrame, clientVars, TypeOK, TypePublishers, TypeClient
    <2> QED
      BY <2>1, <2>2, <2>3 DEF TypeOK
  <1>9. CASE ProcessPubrel
    <2>1. TypeMap'
      <3>1. inflight' \in [Ids -> Entry]
        BY <1>9, SetType, AckEntryType, DeleteType DEF TypeOK, TypeMap, ProcessPubrel, Acks, handlerFrame
      <3>2. sendQuota' \in Int /\ recvQuota' \in 0 .. ReceiveMaximum
        BY <1>9, QosFlowAssumption, QuotaType, SendQuotaType DEF TypeOK, TypeMap, ProcessPubrel, Acks, handlerFrame
      <3>3. packetID' \in 0 .. MaxPacketID
        BY <1>9 DEF TypeOK, TypeMap, ProcessPubrel, Acks, handlerFrame
      <3>4. info' \in Int
        <4>1. info' \in {info, info - 1}
          BY <1>9 DEF ProcessPubrel
        <4> QED
          BY <4>1, CountedType DEF TypeOK, TypeMap
      <3> QED
        BY <3>1, <3>2, <3>3, <3>4 DEF TypeMap
    <2>2. (TypeNet /\ TypeHistory)'
      BY <1>9, HandlerNet, UpType, AckType DEF TypeOK, TypeNet, TypeHistory, ProcessPubrel, TypeHistory, Reading, Pk, Answered, Refusal, Acks, handlerFrame, clientVars
    <2>3. (TypePublishers /\ TypeClient)'
      BY <1>9 DEF ProcessPubrel, handlerFrame, clientVars, TypeOK, TypePublishers, TypeClient
    <2> QED
      BY <2>1, <2>2, <2>3 DEF TypeOK
  <1>10. CASE ProcessPubcomp
    <2>1. TypeMap'
      BY <1>10, QosFlowAssumption, DeleteType, CountedType, QuotaType, SendQuotaType DEF TypeOK, TypeMap, ProcessPubcomp, handlerFrame
    <2>2. (TypeNet /\ TypeHistory)'
      BY <1>10, HandlerNet, UpType, AckType DEF TypeOK, TypeNet, TypeHistory, ProcessPubcomp, TypeHistory, Reading, Pk, Answered, Refusal, Acks, handlerFrame, clientVars
    <2>3. (TypePublishers /\ TypeClient)'
      BY <1>10 DEF ProcessPubcomp, handlerFrame, clientVars, TypeOK, TypePublishers, TypeClient
    <2> QED
      BY <2>1, <2>2, <2>3 DEF TypeOK
  <1> QED
    BY <1>1, <1>2, <1>3, <1>4, <1>5, <1>6, <1>7, <1>8, <1>9, <1>10 DEF Handler

\* NextImmediate, at the end of processPacket.
LEMMA ReaderTailType ==
  ASSUME TypeOK, NextImmediate
  PROVE  TypeOK'
PROOF
  <1>1. CASE NextImmediate
    <2>1. TypeMap'
      BY <1>1, DeleteType DEF TypeOK, TypeMap, NextImmediate, Held, PubIds
    <2>2. TypeNet'
      BY <1>1, SeqType, StoredType DEF TypeOK, TypeNet, NextImmediate, TypeMap, Held, PubIds
    <2>3. TypeHistory'
      <3>1. \A i \in Held : inflight[i].m \in Nat
        BY StoredType DEF TypeOK, Held
      <3>2. unacked' = unacked \/ \E i \in Held : unacked' = unacked \cup {inflight[i].m}
        BY <1>1 DEF NextImmediate
      <3> QED
        BY <1>1, <3>1, <3>2 DEF TypeOK, TypeHistory, NextImmediate, clientVars, history, bounds
    <2>4. (TypePublishers /\ TypeClient)'
      BY <1>1 DEF NextImmediate, brokerVars, clientVars, bounds, TypeOK, TypePublishers, TypeClient
    <2> QED
      BY <2>1, <2>2, <2>3, <2>4 DEF TypeOK
  <1> QED
    BY <1>1 DEF TypeOK

\* The client's own steps.
LEMMA ClientType ==
  ASSUME TypeOK, ClientStep \/ (\E i \in ClientIds : ClientPublish(i))
  PROVE  TypeOK'
PROOF
  <1>1. CASE ClientGetsPublish
    <2>1. TypeNet'
      BY <1>1, ClientNet, DownType, AckType DEF TypeOK, TypeNet, ClientGetsPublish, Answer, clientFrame, Acks
    <2>2. TypeClient'
      BY <1>1, DownType DEF TypeOK, TypeClient, ClientGetsPublish, Packet
    <2>3. (TypeMap /\ TypePublishers /\ TypeHistory)'
      BY <1>1 DEF ClientGetsPublish, clientFrame, brokerVars, history, bounds, TypeOK, TypeMap, TypePublishers, TypeHistory
    <2> QED
      BY <2>1, <2>2, <2>3 DEF TypeOK
  <1>2. CASE ClientGetsPubrel
    <2>1. TypeNet'
      BY <1>2, ClientNet, DownType, AckType DEF TypeOK, TypeNet, ClientGetsPubrel, Answer, clientFrame, Acks
    <2>2. TypeClient'
      BY <1>2, DownType DEF TypeOK, TypeClient, ClientGetsPubrel, Packet
    <2>3. (TypeMap /\ TypePublishers /\ TypeHistory)'
      BY <1>2 DEF ClientGetsPubrel, clientFrame, brokerVars, history, bounds, TypeOK, TypeMap, TypePublishers, TypeHistory
    <2> QED
      BY <2>1, <2>2, <2>3 DEF TypeOK
  <1>3. CASE ClientGetsAck
    <2>1. TypeNet'
      BY <1>3, ClientNet, DownType, ClientPubrelType DEF TypeOK, TypeNet, ClientGetsAck, Answer, clientFrame, TypeClient
    <2>2. TypeClient'
      BY <1>3 DEF TypeOK, TypeClient, ClientGetsAck
    <2>3. TypeHistory'
      BY <1>3 DEF TypeOK, TypeHistory, ClientGetsAck, TypeClient, clientFrame, history, bounds
    <2>4. (TypeMap /\ TypePublishers)'
      BY <1>3 DEF ClientGetsAck, clientFrame, brokerVars, bounds, TypeOK, TypeMap, TypePublishers
    <2> QED
      BY <2>1, <2>2, <2>3, <2>4 DEF TypeOK
  <1>4. ASSUME NEW i \in ClientIds, ClientPublish(i) PROVE TypeOK'
    <2>1. TypeNet'
      BY <1>4, QosFlowAssumption, SeqType, ClientPublishType DEF TypeOK, TypeNet, ClientPublish, Answer, clientFrame, brokerVars, TypeHistory
    <2>2. TypeClient'
      BY <1>4, QosFlowAssumption DEF TypeOK, TypeClient, ClientPublish, QosIn, TypeHistory
    <2>3. TypeHistory'
      BY <1>4, QosFlowAssumption DEF TypeOK, TypeHistory, ClientPublish, clientFrame, history, bounds
    <2>4. (TypeMap /\ TypePublishers)'
      BY <1>4 DEF ClientPublish, clientFrame, brokerVars, bounds, TypeOK, TypeMap, TypePublishers
    <2> QED
      BY <2>1, <2>2, <2>3, <2>4 DEF TypeOK
  <1> QED
    BY <1>1, <1>2, <1>3, <1>4 DEF ClientStep

\* The write loop, a lost connection and the session resumed after it.
LEMMA ConnectionType ==
  ASSUME TypeOK, WriteLoop \/ ConnectionLost \/ ResumeSession
  PROVE  TypeOK'
PROOF
  <1>1. CASE WriteLoop
    <2>1. TypeNet'
      BY <1>1, SeqType DEF TypeOK, TypeNet, WriteLoop
    <2>2. TypeHistory'
      <3>1. Head(outbound).m \in Nat
        <4>1. outbound \in Seq(Packet) /\ outbound # <<>>
          BY <1>1 DEF TypeOK, TypeNet, WriteLoop
        <4>2. Head(outbound) \in Packet
          BY <4>1, HeadTailProperties
        <4> QED
          BY <4>2 DEF Packet
      <3> QED
        BY <1>1, <3>1 DEF TypeOK, TypeHistory, WriteLoop, clientVars, history, bounds
    <2>3. (TypeMap /\ TypePublishers /\ TypeClient)'
      BY <1>1 DEF TypeOK, TypeMap, TypePublishers, TypeClient, WriteLoop, clientVars
    <2> QED
      BY <2>1, <2>2, <2>3 DEF TypeOK
  <1>2. CASE ConnectionLost
    <2>1. TypeNet'
      <3>1. outbound' \in Seq(Packet) /\ down' \in Seq(Packet) /\ up' \in Seq(Packet)
        BY <1>2, EmptySeq DEF ConnectionLost, Closed
      <3>2. rd' \in {"idle", "tail", "resend"} /\ conn' \in BOOLEAN
        BY <1>2 DEF ConnectionLost, Closed, TypeOK, TypeNet
      <3> QED
        BY <3>1, <3>2 DEF TypeNet
    <2>2. TypeHistory'
      BY <1>2, QosFlowAssumption DEF TypeOK, TypeHistory, ConnectionLost, clientVars, history
    <2>3. (TypeMap /\ TypePublishers /\ TypeClient)'
      BY <1>2 DEF TypeOK, TypeMap, TypePublishers, TypeClient, ConnectionLost, clientVars
    <2> QED
      BY <2>1, <2>2, <2>3 DEF TypeOK
  <1>3. CASE ResumeSession
    <2>1. TypeMap'
      <3>1. Cardinality(InUse) \in Nat
        BY FiniteIds, FS_CardinalityType
      <3> QED
        BY <1>3, <3>1, QosFlowAssumption DEF TypeOK, TypeMap, ResumeSession
    <2>2. TypeNet'
      BY <1>3 DEF TypeOK, TypeNet, ResumeSession
    <2>3. (TypePublishers /\ TypeClient /\ TypeHistory)'
      BY <1>3 DEF TypeOK, TypePublishers, TypeClient, TypeHistory, ResumeSession, clientVars, history, bounds
    <2> QED
      BY <2>1, <2>2, <2>3 DEF TypeOK
  <1> QED
    BY <1>1, <1>2, <1>3

\* ResendInflightMessages, in any order of the map.
LEMMA ResendType ==
  ASSUME TypeOK, ResendInflightMessages
  PROVE  TypeOK'
PROOF
  <1>1. TypeMap'
    <2> DEFINE done == {i \in InUse : inflight[i].t \in {"puback", "pubcomp"}}
    <2>1. Cardinality(done) \in Nat
      BY FiniteIds, FS_Subset, FS_CardinalityType
    <2>2. /\ inflight' = [i \in Ids |-> IF i \in done THEN NoEntry ELSE inflight[i]]
          /\ info' = info - Cardinality(done)
          /\ UNCHANGED <<sendQuota, recvQuota, packetID>>
      BY DEF ResendInflightMessages
    <2> QED
      BY <2>1, <2>2, NoEntryType DEF TypeOK, TypeMap
  <1>2. TypeNet'
    <2>1. PICK s \in Orders(ToResend) : down' = down \o [k \in 1 .. Len(s) |-> Stored(s[k])]
      BY DEF ResendInflightMessages
    <2>2. PICK c \in Orders(ClientBusy) : up' = [k \in 1 .. Len(c) |-> ClientResend(c[k])]
      BY DEF ResendInflightMessages
    <2>3. /\ Len(s) \in Nat /\ \A k \in 1 .. Len(s) : s[k] \in InUse
      BY <2>1, FiniteIds, OrderType DEF ToResend
    <2>4. /\ Len(c) \in Nat /\ \A k \in 1 .. Len(c) : c[k] \in ClientIds
      <3>1. IsFiniteSet(ClientBusy)
        BY QosFlowAssumption, FS_Subset DEF ClientBusy
      <3> QED
        BY <2>2, <3>1, OrderType DEF ClientBusy
    <2>5. \A k \in 1 .. Len(s) : Stored(s[k]) \in Packet
      BY <2>3 DEF TypeOK, TypeMap, InUse, Stored, Entry, Packet, Acks
    <2>6. \A k \in 1 .. Len(c) : ClientResend(c[k]) \in Packet
      BY <2>4 DEF TypeOK, TypeClient, ClientResend, Packet, Acks, Ids
    <2>7. [k \in 1 .. Len(s) |-> Stored(s[k])] \in Seq(Packet)
      BY <2>3, <2>5
    <2>8. [k \in 1 .. Len(c) |-> ClientResend(c[k])] \in Seq(Packet)
      BY <2>4, <2>6
    <2>9. down' \in Seq(Packet) /\ up' \in Seq(Packet)
      BY <2>1, <2>2, <2>7, <2>8, ConcatProperties DEF TypeOK, TypeNet
    <2> QED
      BY <2>9 DEF TypeOK, TypeNet, ResendInflightMessages
  <1>3. TypeHistory'
    <2>1. \A i \in PubIds : inflight[i].m \in Nat
      BY StoredType DEF TypeOK
    <2> QED
      BY <2>1 DEF TypeOK, TypeHistory, ResendInflightMessages, clientVars, history, bounds
  <1>4. (TypePublishers /\ TypeClient)'
    BY DEF TypeOK, TypePublishers, TypeClient, ResendInflightMessages, clientVars
  <1> QED
    BY <1>1, <1>2, <1>3, <1>4 DEF TypeOK

\* ClearExpiredInflights.
LEMMA ExpiryType ==
  ASSUME TypeOK, NEW i \in Ids, ClearExpiredInflight(i)
  PROVE  TypeOK'
PROOF
  <1>1. TypeMap'
    BY DeleteType DEF TypeOK, TypeMap, ClearExpiredInflight
  <1>2. TypeHistory'
    <2>1. expired' \in 0 .. MaxExpired
      BY QosFlowAssumption DEF TypeOK, TypeHistory, ClearExpiredInflight
    <2>2. owed' \subseteq Nat
      BY DEF TypeOK, TypeHistory, ClearExpiredInflight
    <2> QED
      BY <2>1, <2>2 DEF TypeOK, TypeHistory, ClearExpiredInflight, clientVars, history
  <1>3. (TypePublishers /\ TypeNet /\ TypeClient)'
    BY DEF TypeOK, TypePublishers, TypeNet, TypeClient, ClearExpiredInflight, clientVars
  <1> QED
    BY <1>1, <1>2, <1>3 DEF TypeOK

\* Every variable of the session keeps its kind, whatever the publishers, the client,
\* the hooks and the network do, for every capability the server is configured with.
THEOREM TypeCorrect == Spec => []TypeOK
PROOF
  <1>1. Init => TypeOK
    <2> SUFFICES ASSUME Init PROVE TypeOK
      OBVIOUS
    <2>1. TypeMap /\ TypeNet
      BY QosFlowAssumption, NoEntryType, EmptySeq DEF Init, TypeMap, TypeNet
    <2>2. TypePublishers /\ TypeClient /\ TypeHistory
      BY QosFlowAssumption, IdleType DEF Init, Idle, TypePublishers, TypeClient, TypeHistory
    <2> QED
      BY <2>1, <2>2 DEF TypeOK
  <1>2. TypeOK /\ [Next]_vars => TypeOK'
    <2> SUFFICES ASSUME TypeOK, [Next]_vars PROVE TypeOK'
      OBVIOUS
    <2>1. ASSUME NEW p \in Publishers, CheckInflight(p) \/ PublishStep(p) PROVE TypeOK'
      BY <2>1, PublisherType
    <2>2. CASE Handler
      BY <2>2, HandlerType
    <2>3. CASE NextImmediate
      BY <2>3, ReaderTailType
    <2>4. CASE ResendInflightMessages
      BY <2>4, ResendType
    <2>5. CASE WriteLoop \/ ConnectionLost \/ ResumeSession
      BY <2>5, ConnectionType
    <2>6. CASE ClientStep \/ (\E i \in ClientIds : ClientPublish(i))
      BY <2>6, ClientType
    <2>7. ASSUME NEW i \in Ids, ClearExpiredInflight(i) PROVE TypeOK'
      BY <2>7, ExpiryType
    <2>8. CASE UNCHANGED vars
      BY <2>8 DEF TypeOK, TypeMap, TypePublishers, TypeNet, TypeClient, TypeHistory, vars,
        brokerVars, clientVars, history, bounds
    <2> QED
      BY <2>1, <2>2, <2>3, <2>4, <2>5, <2>6, <2>7, <2>8 DEF Next, Reader
  <1> QED
    BY <1>1, <1>2, PTL DEF Spec
-----------------------------------------------------------------------------
(* The bound on stored messages.  RoomInv is inductive: a publisher that    *)
(* passed the capacity test keeps one place, which first is in Storing and  *)
(* then its message's id in Taken, and Storing and Holding are disjoint.    *)

\* The sets that RoomInv counts are finite, as the publishers and the ids are.
LEMMA FinitePublishers ==
  /\ IsFiniteSet(Storing) /\ IsFiniteSet(Holding)
  /\ IsFiniteSet(Taken) /\ Cardinality(Taken) <= Cardinality(PubIds) + Cardinality(Holding)
  /\ Cardinality(Taken) \in Nat /\ Cardinality(Storing) \in Nat
  /\ Cardinality(PubIds) \in Nat /\ Cardinality(Holding) \in Nat
PROOF
  <1>1. IsFiniteSet(Storing) /\ IsFiniteSet(Holding)
    BY QosFlowAssumption, FS_Subset DEF Storing, Holding
  <1> DEFINE heldIds == {pub[p].id : p \in Holding}
  <1>2. IsFiniteSet(heldIds) /\ Cardinality(heldIds) <= Cardinality(Holding)
    <2> DEFINE f == [p \in Holding |-> pub[p].id]
    <2>1. f \in Surjection(Holding, heldIds)
      BY DEF Surjection
    <2> QED
      BY <1>1, <2>1, FS_Surjection
  <1>3. IsFiniteSet(Taken)
    BY <1>2, FiniteIds, FS_Union DEF Taken
  <1>4. Cardinality(Taken) = Cardinality(PubIds) + Cardinality(heldIds) - Cardinality(PubIds \cap heldIds)
    BY <1>2, FiniteIds, FS_Union DEF Taken
  <1>5. IsFiniteSet(PubIds \cap heldIds)
    BY FiniteIds, FS_Subset
  <1> QED
    BY <1>1, <1>2, <1>3, <1>4, <1>5, FiniteIds, FS_CardinalityType

\* The bound on stored messages is what RoomInv says of the map alone.
LEMMA RoomBounds == RoomInv => InflightBound
PROOF
  <1>1. Cardinality(PubIds) <= Cardinality(Taken)
    BY FinitePublishers, FS_Subset DEF Taken
  <1> QED
    BY <1>1, FinitePublishers, QosFlowAssumption, FS_CardinalityType DEF RoomInv, InflightBound

\* A step after which no place is used that was not used before.
LEMMA RoomShrinks ==
  ASSUME RoomInv, Taken' \subseteq Taken, Storing' \subseteq Storing
  PROVE  RoomInv'
PROOF
  <1>1. Cardinality(Taken') <= Cardinality(Taken) /\ Cardinality(Taken') \in Nat
    BY FinitePublishers, FS_Subset, FS_CardinalityType
  <1>2. Cardinality(Storing') <= Cardinality(Storing) /\ Cardinality(Storing') \in Nat
    BY FinitePublishers, FS_Subset, FS_CardinalityType
  <1> QED
    BY <1>1, <1>2, FinitePublishers, QosFlowAssumption, FS_CardinalityType DEF RoomInv

\* No step of the reader, the client, the connection or the expiry loop moves a
\* publisher or turns an entry into a publish.
LEMMA RoomWithoutPublisher ==
  ASSUME RoomInv, UNCHANGED pub,
         \A i \in Ids : inflight'[i] = inflight[i] \/ inflight'[i].t # "publish"
  PROVE  RoomInv'
PROOF
  <1>1. PubIds' \subseteq PubIds
    BY DEF PubIds
  <1>2. Holding' = Holding /\ Storing' = Storing
    BY DEF Holding, Storing
  <1>3. Taken' \subseteq Taken
    BY <1>1, <1>2 DEF Taken
  <1> QED
    BY <1>2, <1>3, RoomShrinks

\* Inflight.Delete, and Inflight.Set with an acknowledgement, store no publish.
LEMMA NoPublishStored ==
  ASSUME TypeMap, NEW i, NEW e, e.t # "publish", inflight' \in {inflight, Delete(i), Set(i, e)}
  PROVE  \A j \in Ids : inflight'[j] = inflight[j] \/ inflight'[j].t # "publish"
BY DEF TypeMap, Delete, Set, NoEntry

\* An acknowledgement that is stored is not counted as a stored message.
LEMMA AckIsNoPublish ==
  ASSUME NEW t \in Acks PROVE AckEntry(t).t # "publish"
BY DEF AckEntry, Acks

\* The handlers take no place: they delete entries or store acknowledgements.
LEMMA RoomHandlers ==
  ASSUME TypeOK, RoomInv, Handler
  PROVE  RoomInv'
PROOF
  <1>1. PICK t \in Acks : inflight' \in {inflight, Delete(Pk.id), Set(Pk.id, AckEntry(t))}
    <2>1. CASE ProcessPublishOverQuota \/ ProcessPublishDuplicate \/ ProcessPublishDenied
      BY <2>1 DEF ProcessPublishOverQuota, ProcessPublishDuplicate, ProcessPublishDenied, Acks
    <2>2. CASE ProcessPublishStopped \/ ProcessPuback \/ ProcessPubcomp
      BY <2>2 DEF ProcessPublishStopped, ProcessPuback, ProcessPubcomp, AckedEntryGone, Acks
    <2>3. ASSUME NEW h \in {"ok", "ignore"}, ProcessPublish(h)
          PROVE  \E t \in Acks : inflight' \in {inflight, Delete(Pk.id), Set(Pk.id, AckEntry(t))}
      BY <2>3 DEF ProcessPublish, Acks
    <2>4. CASE ProcessPublishWriteFails
      BY <2>4 DEF ProcessPublishWriteFails, Acks
    <2>5. CASE ProcessPubrec
      BY <2>5 DEF ProcessPubrec, ReleaseEntry, Acks
    <2>6. CASE ProcessPubrel
      BY <2>6 DEF ProcessPubrel, Acks
    <2> QED
      BY <2>1, <2>2, <2>3, <2>4, <2>5, <2>6 DEF Handler
  <1>2. UNCHANGED pub
    BY DEF Handler, ProcessPublishOverQuota, ProcessPublishDuplicate, ProcessPublishDenied,
      ProcessPublishStopped, ProcessPublish, ProcessPublishWriteFails, ProcessPuback,
      ProcessPubrec, ProcessPubrel, ProcessPubcomp, handlerFrame
  <1> QED
    BY <1>1, <1>2, NoPublishStored, AckIsNoPublish, RoomWithoutPublisher DEF TypeOK

\* Nor do the remaining steps outside publishToClient.
LEMMA RoomOthers ==
  ASSUME TypeOK, RoomInv,
         \/ NextImmediate \/ ResendInflightMessages \/ WriteLoop \/ ConnectionLost
         \/ ResumeSession \/ ClientStep \/ (\E i \in ClientIds : ClientPublish(i))
         \/ (\E i \in Ids : ClearExpiredInflight(i)) \/ UNCHANGED vars
  PROVE  RoomInv'
PROOF
  <1>1. UNCHANGED pub
    BY DEF NextImmediate, ResendInflightMessages, WriteLoop, ConnectionLost, ResumeSession,
      ClientStep, ClientGetsPublish, ClientGetsPubrel, ClientGetsAck, ClientPublish,
      ClearExpiredInflight, clientFrame, vars
  <1>2. \A i \in Ids : inflight'[i] = inflight[i] \/ inflight'[i].t # "publish"
    <2>1. ASSUME NEW i, inflight' \in {inflight, Delete(i)}
          PROVE  \A j \in Ids : inflight'[j] = inflight[j] \/ inflight'[j].t # "publish"
      <3>1. NoEntry.t # "publish"
        BY DEF NoEntry
      <3> QED
        BY <2>1, <3>1, NoPublishStored DEF TypeOK
    <2>2. CASE NextImmediate
      BY <2>1, <2>2 DEF NextImmediate
    <2>3. CASE ResendInflightMessages
      BY <2>3 DEF ResendInflightMessages, NoEntry
    <2>4. CASE \E i \in Ids : ClearExpiredInflight(i)
      BY <2>1, <2>4 DEF ClearExpiredInflight
    <2>5. CASE UNCHANGED inflight
      BY <2>5
    <2>6. CASE \/ WriteLoop \/ ConnectionLost \/ ResumeSession \/ ClientStep
               \/ (\E i \in ClientIds : ClientPublish(i)) \/ UNCHANGED vars
      BY <2>5, <2>6 DEF WriteLoop, ConnectionLost, ResumeSession, ClientStep, ClientGetsPublish,
        ClientGetsPubrel, ClientGetsAck, ClientPublish, clientFrame, brokerVars, vars
    <2> QED
      BY <2>2, <2>3, <2>4, <2>6
  <1> QED
    BY <1>1, <1>2, RoomWithoutPublisher

\* A publisher takes a place when it passes the test, and keeps it until it has stored its message or given up.
LEMMA RoomPublishers ==
  ASSUME TypeOK, RoomInv, NEW p \in Publishers, CheckInflight(p) \/ PublishStep(p)
  PROVE  RoomInv'
PROOF
  <1> DEFINE Others == {q \in Publishers : q # p}
  <1>0. /\ pub \in [Publishers -> PublisherState] /\ inflight \in [Ids -> Entry]
        /\ pub' = pub \/ \E s : pub' = [pub EXCEPT ![p] = s]
    <2>1. pub' = pub \/ \E s : pub' = [pub EXCEPT ![p] = s]
      BY DEF PublishStep, CheckInflight, NextPacketID, StoreInflight, LoadSendQuota,
        SubSendQuota, HoldMessage, SendOutbound, TypeOK, TypePublishers
    <2> QED
      BY <2>1 DEF TypeOK, TypePublishers, TypeMap
  <1>1. CASE CheckInflight(p)
    <2>1. CASE AtCapacity
      <3>1. pub' = pub /\ inflight' = inflight
        BY <1>1, <2>1 DEF CheckInflight, brokerVars
      <3> QED
        BY <3>1, RoomWithoutPublisher
    <2>2. CASE ~AtCapacity
      <3>1. /\ pub[p].pc = "idle" /\ inflight' = inflight
            /\ pub' = [pub EXCEPT ![p] = Begun(published + 1)] /\ Begun(published + 1).pc = "nextid"
        BY <1>1, <2>2 DEF CheckInflight, Begun, brokerVars
      <3>2. Storing' = Storing \cup {p} /\ p \notin Storing /\ p \notin Holding
        BY <1>0, <3>1 DEF Storing, Holding
      <3>3. Holding' = Holding /\ \A q \in Holding : pub'[q].id = pub[q].id
        BY <1>0, <3>1 DEF Holding
      <3>4. Taken' = Taken
        BY <3>1, <3>3 DEF Taken, PubIds
      <3>5. Cardinality(Storing') = Cardinality(Storing) + 1
        BY <3>2, FinitePublishers, FS_AddElement
      <3>6. Cardinality(PubIds) <= MaximumInflight - 1
        <4>1. Cardinality(PubIds) <= Cardinality(InUse) /\ Cardinality(InUse) \in Nat
          BY FiniteIds, FS_Subset, FS_CardinalityType DEF PubIds, InUse
        <4> QED
          BY <2>2, <4>1, FinitePublishers, QosFlowAssumption DEF AtCapacity
      <3>7. Cardinality(Holding) + Cardinality(Storing) + 1 <= Cardinality(Publishers)
        <4>1. Holding \cap Storing = {}
          BY DEF Holding, Storing
        <4>2. Cardinality(Holding \cup Storing) = Cardinality(Holding) + Cardinality(Storing)
          <5>1. Cardinality(Holding \cap Storing) = 0
            BY <4>1, FS_EmptySet
          <5>2. Cardinality(Holding \cup Storing)
                  = Cardinality(Holding) + Cardinality(Storing) - Cardinality(Holding \cap Storing)
            BY FinitePublishers, FS_Union
          <5> QED
            BY <5>1, <5>2, FinitePublishers
        <4>3. IsFiniteSet(Holding \cup Storing)
          BY FinitePublishers, FS_Union
        <4>4. Cardinality(Holding \cup Storing \cup {p}) = Cardinality(Holding) + Cardinality(Storing) + 1
          BY <3>2, <4>2, <4>3, FS_AddElement
        <4>5. Holding \cup Storing \cup {p} \subseteq Publishers
          BY DEF Holding, Storing
        <4> QED
          BY <4>4, <4>5, QosFlowAssumption, FS_Subset
      <3> QED
        BY SMTT(30), <3>4, <3>5, <3>6, <3>7, FinitePublishers, QosFlowAssumption, FS_CardinalityType DEF RoomInv
    <2> QED
      BY <2>1, <2>2
  <1>2. CASE NextPacketID(p)
    <2>1. /\ pub[p].pc = "nextid" /\ inflight' = inflight /\ pub'[p].pc \in {"idle", "set"}
          /\ \A q \in Others : pub'[q] = pub[q]
      BY <1>0, <1>2 DEF NextPacketID, Idle, PublisherState
    <2>2. Storing' \subseteq Storing /\ Holding' = Holding /\ \A q \in Holding : pub'[q].id = pub[q].id
      BY <2>1 DEF Storing, Holding
    <2>3. Taken' = Taken
      BY <2>1, <2>2 DEF Taken, PubIds
    <2> QED
      BY <2>2, <2>3, RoomShrinks
  <1>3. CASE StoreInflight(p)
    <2>1. /\ pub[p].pc = "set" /\ pub'[p].pc \in {"dec", "hold", "send"} /\ pub'[p].id = pub[p].id
          /\ \A q \in Others : pub'[q] = pub[q]
      BY <1>0, <1>3 DEF StoreInflight, PublisherState
    <2>2. \A i \in Ids : inflight'[i] = inflight[i] \/ i = pub[p].id
      BY <1>0, <1>3 DEF StoreInflight, Set
    <2>3. Storing' = Storing \ {p} /\ p \in Storing
      BY <2>1 DEF Storing
    <2>4. Taken' \subseteq Taken \cup {pub[p].id}
      <3>1. PubIds' \subseteq PubIds \cup {pub[p].id}
        BY <2>2 DEF PubIds
      <3>2. \A q \in Holding' : q = p \/ q \in Holding
        BY <2>1 DEF Holding
      <3>3. \A q \in Holding' : pub'[q].id = pub[q].id
        BY <2>1 DEF Holding
      <3> QED
        BY <3>1, <3>2, <3>3 DEF Taken
    <2>5. Cardinality(Storing') = Cardinality(Storing) - 1
      BY <2>3, FinitePublishers, FS_RemoveElement
    <2>6. Cardinality(Taken') <= Cardinality(Taken) + 1 /\ Cardinality(Taken') \in Nat
      <3>1. IsFiniteSet(Taken \cup {pub[p].id}) /\ Cardinality(Taken \cup {pub[p].id}) <= Cardinality(Taken) + 1
        <4>1. /\ IsFiniteSet(Taken \cup {pub[p].id})
              /\ Cardinality(Taken \cup {pub[p].id})
                   = IF pub[p].id \in Taken THEN Cardinality(Taken) ELSE Cardinality(Taken) + 1
          BY FinitePublishers, FS_AddElement
        <4>2. Cardinality(Taken) \in Nat
          BY FinitePublishers
        <4> QED
          BY <4>1, <4>2
      <3>2. IsFiniteSet(Taken') /\ Cardinality(Taken') <= Cardinality(Taken \cup {pub[p].id})
        BY <2>4, <3>1, FS_Subset
      <3> QED
        BY <3>1, <3>2, FinitePublishers, FS_CardinalityType
    <2> QED
      BY <2>5, <2>6, FinitePublishers, QosFlowAssumption, FS_CardinalityType DEF RoomInv
  <1>4. CASE LoadSendQuota(p) \/ SubSendQuota(p) \/ HoldMessage(p) \/ SendOutbound(p)
    <2>1. /\ pub[p].pc \in {"dec", "sub", "hold", "send"}
          /\ pub'[p].pc \in {"sub", "hold", "send", "idle"}
          /\ pub'[p].pc \in {"sub", "hold"} => p \in Holding /\ pub'[p].id = pub[p].id
          /\ \A q \in Others : pub'[q] = pub[q]
      BY <1>0, <1>4 DEF LoadSendQuota, SubSendQuota, HoldMessage, SendOutbound, AfterQuota,
        Idle, Holding, PublisherState
    <2>2. \A i \in Ids : \/ inflight'[i] = inflight[i] \/ inflight'[i].t # "publish"
                         \/ (i = pub[p].id /\ p \in Holding)
      <3>1. CASE LoadSendQuota(p) \/ SubSendQuota(p)
        BY <3>1 DEF LoadSendQuota, SubSendQuota, brokerVars
      <3>2. CASE HoldMessage(p)
        BY <1>0, <3>2 DEF HoldMessage, Set, Holding
      <3>3. CASE SendOutbound(p)
        BY <1>0, <3>3 DEF SendOutbound, Delete, NoEntry
      <3> QED
        BY <1>4, <3>1, <3>2, <3>3
    <2>3. Storing' = Storing
      BY <2>1 DEF Storing
    <2>4. Holding' \subseteq Holding /\ \A q \in Holding' : pub'[q].id = pub[q].id
      BY <2>1 DEF Holding
    <2>5. PubIds' \subseteq Taken
      BY <2>2 DEF PubIds, Taken
    <2>6. Taken' \subseteq Taken
      BY <2>4, <2>5 DEF Taken
    <2> QED
      BY <2>3, <2>6, RoomShrinks
  <1> QED
    BY <1>1, <1>2, <1>3, <1>4 DEF PublishStep

\* Concurrent publishers may exceed MaximumInflight by their number less one and by no
\* more, for every capability, client and hook: the test in publishToClient and the later
\* Inflight.Set are not one step, and this is all that the gap costs.
THEOREM StoredMessagesBound == Spec => []InflightBound
PROOF
  <1>1. Init => RoomInv
    <2> SUFFICES ASSUME Init PROVE RoomInv
      OBVIOUS
    <2>1. PubIds = {} /\ Holding = {} /\ Storing = {}
      BY DEF Init, PubIds, Holding, Storing, Idle, NoEntry
    <2>2. Taken = {}
      BY <2>1 DEF Taken
    <2>3. Cardinality(Publishers) \in Nat \ {0}
      BY QosFlowAssumption, FS_CardinalityType, FS_EmptySet
    <2> QED
      BY <2>1, <2>2, <2>3, QosFlowAssumption, FS_EmptySet DEF RoomInv
  <1>2. TypeOK /\ RoomInv /\ [Next]_vars => RoomInv'
    BY RoomPublishers, RoomHandlers, RoomOthers DEF Next, Reader
  <1>3. RoomInv => InflightBound
    BY RoomBounds
  <1> QED
    BY <1>1, <1>2, <1>3, TypeCorrect, PTL DEF Spec
=============================================================================
