---------------------- MODULE PriorityMessaging_proofs ----------------------
(***************************************************************************)
(* Theorems about PriorityMessaging, for any number of publishers, packets *)
(* and priorities, any channel size and any aging threshold.               *)
(*                                                                         *)
(* The inductive invariant IInv says that the goroutines are launched once,*)
(* that the scheduler goes to sleep with its queues empty and sleeps on    *)
(* only while a signal is on its way, that packets keep the order of their *)
(* numbers in each class and queue, and that those aged by a pass stay     *)
(* ahead of the packets that came after it.  The refinement of FifoChannels*)
(* is taken step by step under it.                                         *)
(***************************************************************************)
EXTENDS PriorityMessaging, TLAPS, SequenceTheorems, FiniteSetTheorems, FunctionTheorems

-----------------------------------------------------------------------------
(* What Nth and Kept return.                                                *)

\* Fewer numbers of a finite set lie below its smaller members.
LEMMA RankGrows ==
  ASSUME NEW K \in SUBSET Nat, IsFiniteSet(K), NEW i \in K, NEW j \in K, i < j
  PROVE  Cardinality({x \in K : x < i}) < Cardinality({x \in K : x < j})
PROOF
  <1> DEFINE I == {x \in K : x < i}
             J == {x \in K : x < j}
  <1>1. IsFiniteSet(J) /\ J \in SUBSET K
    BY FS_Subset
  <1>2. I \in SUBSET J /\ i \in J /\ i \notin I
    <2>1. \A x \in K : x < i => x < j
      OBVIOUS
    <2>2. i \in K /\ j \in K /\ ~ (i < i)
      OBVIOUS
    <2> QED
      BY <2>1, <2>2
  <1>3. Cardinality(I) <= Cardinality(J) /\ Cardinality(I) # Cardinality(J) /\ IsFiniteSet(I)
    BY <1>1, <1>2, FS_Subset
  <1>4. Cardinality(I) \in Nat /\ Cardinality(J) \in Nat
    BY <1>1, <1>3, FS_CardinalityType
  <1> QED
    BY <1>3, <1>4

\* Every rank up to the size of the set is that of one of its members: Nth finds it.
LEMMA NthRank ==
  ASSUME NEW K \in SUBSET Nat, IsFiniteSet(K), NEW k \in 1 .. Cardinality(K)
  PROVE  Nth(K, k) \in K /\ Cardinality({x \in K : x < Nth(K, k)}) = k - 1
PROOF
  <1> DEFINE n == Cardinality(K)
             rank == [i \in K |-> Cardinality({x \in K : x < i})]
  <1>1. n \in Nat
    BY FS_CardinalityType
  <1>2. rank \in [K -> 0 .. n - 1]
    <2> SUFFICES ASSUME NEW i \in K PROVE Cardinality({x \in K : x < i}) \in 0 .. n - 1
      OBVIOUS
    <2> DEFINE I == {x \in K : x < i}
    <2>1. I \in SUBSET K /\ i \in K /\ i \notin I
      OBVIOUS
    <2>2. IsFiniteSet(I) /\ Cardinality(I) <= n /\ Cardinality(I) # n
      BY <2>1, FS_Subset
    <2>3. Cardinality(I) \in Nat
      BY <2>2, FS_CardinalityType
    <2> QED
      BY <2>2, <2>3, <1>1
  <1>3. \A i, j \in K : rank[i] = rank[j] => i = j
    <2> SUFFICES ASSUME NEW i \in K, NEW j \in K, i < j PROVE rank[i] # rank[j]
      OBVIOUS
    <2>1. rank[i] < rank[j]
      BY RankGrows
    <2> QED
      BY <2>1, <1>2
  <1>4. rank \in Injection(K, 0 .. n - 1)
    BY <1>2, <1>3, Fun_IsInj
  <1>5. IsFiniteSet(0 .. n - 1) /\ Cardinality(0 .. n - 1) = n
    <2>1. 0 \in Int /\ n - 1 \in Int /\ (0 > n - 1 <=> n = 0)
      BY <1>1
    <2>2. n - 1 - 0 + 1 = n
      BY <1>1
    <2> HIDE DEF n
    <2> QED
      BY <2>1, <2>2, <1>1, FS_Interval
  <1>6. rank \in Surjection(K, 0 .. n - 1)
    BY <1>4, <1>5, FS_Injection
  <1>7. PICK i \in K : rank[i] = k - 1
    <2>1. k - 1 \in 0 .. n - 1
      BY <1>1
    <2>2. \A r \in 0 .. n - 1 : \E i \in K : rank[i] = r
      BY <1>6 DEF Surjection
    <2> QED
      BY <2>1, <2>2
  <1>8. Cardinality({x \in K : x < i}) = k - 1
    BY <1>7
  <1> QED
    BY <1>8 DEF Nth

\* Nth enumerates the set in ascending order.
LEMMA NthAscends ==
  ASSUME NEW K \in SUBSET Nat, IsFiniteSet(K),
         NEW k \in 1 .. Cardinality(K), NEW l \in 1 .. Cardinality(K), k < l
  PROVE  Nth(K, k) < Nth(K, l)
PROOF
  <1> DEFINE i == Nth(K, k)
             j == Nth(K, l)
  <1>1. i \in K /\ Cardinality({x \in K : x < i}) = k - 1
    BY NthRank
  <1>2. j \in K /\ Cardinality({x \in K : x < j}) = l - 1
    BY NthRank
  <1>3. Cardinality(K) \in Nat
    BY FS_CardinalityType
  <1>4. CASE i = j
    BY <1>1, <1>2, <1>3, <1>4
  <1>5. CASE j < i
    <2>1. Cardinality({x \in K : x < j}) < Cardinality({x \in K : x < i})
      BY <1>1, <1>2, <1>5, RankGrows
    <2> QED
      BY <2>1, <1>1, <1>2, <1>3
  <1>6. i \in Nat /\ j \in Nat
    BY <1>1, <1>2
  <1> QED
    BY <1>4, <1>5, <1>6

\* It leaves none of them out.
LEMMA NthCovers ==
  ASSUME NEW K \in SUBSET Nat, IsFiniteSet(K), NEW i \in K
  PROVE  \E k \in 1 .. Cardinality(K) : Nth(K, k) = i
PROOF
  <1> DEFINE I == {x \in K : x < i}
             k == Cardinality(I) + 1
  <1>1. I \in SUBSET K /\ i \in K /\ i \notin I
    OBVIOUS
  <1>2. IsFiniteSet(I) /\ Cardinality(I) <= Cardinality(K) /\ Cardinality(I) # Cardinality(K)
    BY <1>1, FS_Subset
  <1>3. Cardinality(I) \in Nat /\ Cardinality(K) \in Nat
    BY <1>2, FS_CardinalityType
  <1>4. k \in 1 .. Cardinality(K)
    BY <1>2, <1>3
  <1> DEFINE j == Nth(K, k)
  <1>5. j \in K /\ Cardinality({x \in K : x < j}) = k - 1
    BY <1>4, NthRank
  <1> HIDE DEF j
  <1>6. Cardinality({x \in K : x < j}) = Cardinality({x \in K : x < i})
    BY <1>3, <1>5
  <1>7. ~ (i < j)
    <2> SUFFICES ASSUME i < j PROVE FALSE
      OBVIOUS
    <2>1. Cardinality({x \in K : x < i}) < Cardinality({x \in K : x < j})
      BY <1>5, RankGrows
    <2> QED
      BY <2>1, <1>6, <1>3
  <1>8. ~ (j < i)
    <2> SUFFICES ASSUME j < i PROVE FALSE
      OBVIOUS
    <2>1. Cardinality({x \in K : x < j}) < Cardinality({x \in K : x < i})
      BY <1>5, RankGrows
    <2> QED
      BY <2>1, <1>6, <1>3
  <1>9. i = j
    BY <1>5, <1>7, <1>8
  <1> QED
    BY <1>4, <1>9 DEF j

\* The positions of a sequence are a finite set of numbers, and so is any part of them.
LEMMA PositionsFinite ==
  ASSUME NEW S, NEW s \in Seq(S), NEW K \in SUBSET DOMAIN s
  PROVE  K \in SUBSET Nat /\ IsFiniteSet(K) /\ Cardinality(K) \in Nat
PROOF
  <1>1. DOMAIN s = 1 .. Len(s) /\ Len(s) \in Nat
    BY LenProperties
  <1>2. IsFiniteSet(DOMAIN s)
    BY <1>1, FS_Interval
  <1> QED
    BY <1>1, <1>2, FS_Subset, FS_CardinalityType

\* Kept is a subsequence: each of its places stands for one of the positions kept, in order,
\* and each position kept has its place.
LEMMA KeptProperties ==
  ASSUME NEW S, NEW s \in Seq(S), NEW K \in SUBSET DOMAIN s
  PROVE  /\ Kept(s, K) \in Seq(S)
         /\ DOMAIN Kept(s, K) = 1 .. Cardinality(K) /\ Len(Kept(s, K)) = Cardinality(K)
         /\ \A k \in DOMAIN Kept(s, K) : Nth(K, k) \in K /\ Kept(s, K)[k] = s[Nth(K, k)]
         /\ \A k, l \in DOMAIN Kept(s, K) : k < l => Nth(K, k) < Nth(K, l)
         /\ \A i \in K : \E k \in DOMAIN Kept(s, K) : Kept(s, K)[k] = s[i]
PROOF
  <1> DEFINE n == Cardinality(K)
             t == Kept(s, K)
  <1>1. K \in SUBSET Nat /\ IsFiniteSet(K) /\ n \in Nat
    BY PositionsFinite
  <1>2. DOMAIN t = 1 .. n /\ \A k \in 1 .. n : t[k] = s[Nth(K, k)]
    BY DEF Kept
  <1>3. \A k \in 1 .. n : Nth(K, k) \in K
    BY <1>1, NthRank
  <1>4. \A i \in DOMAIN s : s[i] \in S
    BY LenProperties, ElementOfSeq
  <1>5. t \in [1 .. n -> S]
    BY <1>3, <1>4 DEF Kept
  <1>6. t \in Seq(S) /\ Len(t) = n
    <2>1. t \in Seq(S)
      BY <1>1, <1>5, SeqDef
    <2> QED
      BY <2>1, <1>1, <1>2, LenProperties
  <1>7. \A k, l \in 1 .. n : k < l => Nth(K, k) < Nth(K, l)
    BY <1>1, NthAscends
  <1>8. \A i \in K : \E k \in 1 .. n : Nth(K, k) = i
    BY <1>1, NthCovers
  <1> HIDE DEF t, n
  <1> QED
    BY <1>2, <1>3, <1>6, <1>7, <1>8 DEF n, t
-----------------------------------------------------------------------------
(* The inductive invariant.                                                 *)

\* What will be injected next, in order, behind what was: a packet that gets here keeps
\* its place whatever happens.
Holding == IF sched = "inject" THEN <<held>> ELSE <<>>
Line == injected \o Holding \o urgent

\* Publishers with a packet that waits for the mutex.
Entering == {p \in Publishers : mailbox[p].pc = "lock"}
Queued == Elements(Line) \cup Elements(high) \cup Elements(normal)
Everything == Queued \cup {mailbox[p].pk : p \in Entering}

\* Launched once, by the later of Init and SetOpts.
Launched ==
  /\ launches \in {0, 1}
  /\ started <=> launches = 1
  /\ started <=> sched # "off"
  /\ started <=> aging # "off"

\* The scheduler keeps the mutex on its way to sleep: the queues are still empty.
EmptyToWait == sched = "toWait" => Empty

\* A packet that enters is the publisher's own, its last one, and has a number.
Entered ==
  \A p \in Entering :
    /\ mailbox[p].pk \in Packets /\ mailbox[p].pk.from = p
    /\ \A pk \in Queued : pk.from = p => pk.id < mailbox[p].pk.id

\* Each queue has packets of its class (the urgent one of any), numbered by the clock, no
\* two alike.
Classed == /\ \A pk \in Elements(high) : pk.class = "High"
           /\ \A pk \in Elements(normal) : pk.class = "Normal"
Numbered == /\ \A pk \in Everything : pk.id <= stamped
            /\ \A pk, qk \in Everything : pk.id = qk.id => pk = qk

\* Packets of one publisher and class stand in the order of their numbers.
SameSource(pk, qk) == pk.from = qk.from /\ pk.class = qk.class
Ascending(s) == \A i, j \in DOMAIN s : i < j /\ SameSource(s[i], s[j]) => s[i].id < s[j].id
Before(S, T) == \A pk \in S, qk \in T : SameSource(pk, qk) => pk.id < qk.id
Ordered ==
  /\ Ascending(Line) /\ Ascending(high) /\ Ascending(normal)
  /\ Before(Elements(Line), Elements(high) \cup Elements(normal))

\* What stands in line before a promoted packet was in the hook before its promotion, and
\* what has overtakers stands in line.
Promoted ==
  /\ overtakers \in [1 .. MaxMessages -> SUBSET (1 .. MaxMessages)]
  /\ \A k \in DOMAIN Line : overtakers[Line[k].id] # {} =>
       \A j \in 1 .. k - 1 : Line[j].id \in overtakers[Line[k].id]
  /\ \A pk \in Everything \ Elements(Line) : overtakers[pk.id] = {}
  /\ \A m \in 1 .. MaxMessages : m > stamped => overtakers[m] = {}

-----------------------------------------------------------------------------
(* Launch, sleep and types.                                                 *)

\* What AgingPass keeps back or takes out of a queue is a queue.
LEMMA KeptType ==
  ASSUME NEW s \in Seq(Packets)
  PROVE  /\ DueIn(s) \in SUBSET DOMAIN s /\ YoungIn(s) \in SUBSET DOMAIN s
         /\ Kept(s, DueIn(s)) \in Seq(Packets) /\ Kept(s, YoungIn(s)) \in Seq(Packets)
PROOF
  <1>1. DueIn(s) \in SUBSET DOMAIN s /\ YoungIn(s) \in SUBSET DOMAIN s
    BY DEF DueIn, YoungIn
  <1> QED
    BY <1>1, KeptProperties

\* A queue from which something is kept back was not empty.
LEMMA KeptFromSome ==
  ASSUME NEW s \in Seq(Packets), Kept(s, YoungIn(s)) # <<>>
  PROVE  s # <<>>
PROOF
  <1> DEFINE t == Kept(s, YoungIn(s))
  <1>1. t \in Seq(Packets) /\ YoungIn(s) \in SUBSET DOMAIN s
    BY KeptType
  <1>2. DOMAIN t = 1 .. Len(t) /\ Len(t) \in Nat \ {0}
    <2> HIDE DEF t
    <2> QED
      BY <1>1, EmptySeq, LenProperties DEF t
  <1>3. 1 \in DOMAIN t
    <2> HIDE DEF t
    <2> QED
      BY <1>2
  <1>4. Nth(YoungIn(s), 1) \in YoungIn(s)
    BY <1>1, <1>3, KeptProperties
  <1>5. DOMAIN s # {}
    BY <1>1, <1>4
  <1> QED
    BY <1>5

\* The goroutines are launched once, by the later of Init and SetOpts (maybeStart).
LEMMA LaunchedStep ==
  ASSUME TypeOK, Launched, StartedOnce, [Next]_vars
  PROVE  Launched' /\ StartedOnce'
PROOF
  <1> USE DEF Launched, StartedOnce, Ready
  <1>1. ASSUME NEW f \in DOMAIN setup, Prepare(f) PROVE Launched' /\ StartedOnce'
    BY <1>1 DEF Prepare, TypeOK
  <1>2. ASSUME NEW f \in DOMAIN setup, MaybeStart(f) PROVE Launched' /\ StartedOnce'
    BY <1>2 DEF MaybeStart, LaunchOnce, TypeOK
  <1>3. CASE UNCHANGED start /\ UNCHANGED <<sched, aging>>
    BY <1>3 DEF start
  <1>4. ASSUME UNCHANGED start, UNCHANGED aging, sched # "off", sched' # "off" PROVE Launched' /\ StartedOnce'
    BY <1>4 DEF start
  <1>5. ASSUME UNCHANGED start, UNCHANGED aging, sched' = Woken PROVE Launched' /\ StartedOnce'
    BY <1>5 DEF start, Woken
  <1>6. ASSUME NEW p \in Publishers, NEW c \in Classes, ReadClock(p, c) PROVE Launched' /\ StartedOnce'
    BY <1>3, <1>6 DEF ReadClock
  <1>7. ASSUME NEW p \in Publishers, Enqueue(p) PROVE Launched' /\ StartedOnce'
    BY <1>3, <1>7 DEF Enqueue
  <1>8. ASSUME NEW p \in Publishers, Signal(p) PROVE Launched' /\ StartedOnce'
    BY <1>5, <1>8 DEF Signal
  <1>9. CASE Scheduler
    BY <1>4, <1>9 DEF Scheduler, SchedulerCheck, SchedulerWait, SchedulerPop, SchedulerInject
  <1>10. CASE Ager
    <2>1. CASE AgingPass
      BY <2>1 DEF AgingPass, Woken, start
    <2> QED
      BY <2>1, <1>10 DEF Ager, AgingTick, AgingReturn, start
  <1>11. CASE CloseStop
    BY <1>3, <1>11 DEF CloseStop
  <1>12. CASE Broadcast
    BY <1>5, <1>12 DEF Broadcast
  <1>13. CASE UNCHANGED vars
    BY <1>3, <1>13 DEF vars
  <1> QED
    BY <1>1, <1>2, <1>6, <1>7, <1>8, <1>9, <1>10, <1>11, <1>12, <1>13 DEF Next

\* What publishers, the scheduler and the aging pass put in the queues are packets.
LEMMA TypeStep ==
  ASSUME TypeOK, Launched, Entered, [Next]_vars
  PROVE  TypeOK'
PROOF
  <1> USE PriorityAssumption DEF TypeOK, queues, start
  <1>1. ASSUME NEW f \in DOMAIN setup, Prepare(f) PROVE TypeOK'
    BY <1>1 DEF Prepare
  <1>2. ASSUME NEW f \in DOMAIN setup, MaybeStart(f) PROVE TypeOK'
    <2>1. setup' \in [{"Init", "SetOpts"} -> {"assign", "flag", "maybeStart", "done"}]
      BY <1>2 DEF MaybeStart
    <2>2. CASE LaunchOnce
      <3>1. sched = "off"
        BY <2>2 DEF LaunchOnce, Launched
      <3>2. held' = NoPacket /\ sched' = "lock"
        BY <1>2, <2>2, <3>1 DEF MaybeStart
      <3>3. held' \in IF sched' = "inject" THEN Packets ELSE {NoPacket}
        BY <3>2
      <3> QED
        BY <1>2, <2>1, <2>2, <3>2, <3>3 DEF MaybeStart
    <2>3. CASE ~LaunchOnce
      BY <1>2, <2>1, <2>3 DEF MaybeStart
    <2> QED
      BY <2>2, <2>3
  <1>3. ASSUME NEW p \in Publishers, NEW c \in Classes, ReadClock(p, c) PROVE TypeOK'
    <2>1. stamped + 1 \in 1 .. MaxMessages /\ stamped' \in 0 .. MaxMessages
      BY <1>3 DEF ReadClock
    <2>2. [id |-> stamped + 1, from |-> p, class |-> c] \in Packets
      BY <2>1 DEF Packets
    <2> QED
      BY <1>3, <2>1, <2>2 DEF ReadClock
  <1>4. ASSUME NEW p \in Publishers, Enqueue(p) PROVE TypeOK'
    <2>1. mailbox[p].pk \in Packets
      BY <1>4 DEF Enqueue, Entered, Entering
    <2>2. urgent' \in Seq(Packets) /\ high' \in Seq(Packets) /\ normal' \in Seq(Packets)
      BY <1>4, <2>1, AppendProperties DEF Enqueue
    <2>3. mailbox' \in [Publishers -> [pc : {"idle", "lock", "signal"}, pk : Packets \cup {NoPacket}]]
      BY <1>4 DEF Enqueue, ThenSignal
    <2> QED
      BY <1>4, <2>2, <2>3 DEF Enqueue
  <1>5. ASSUME NEW p \in Publishers, Signal(p) PROVE TypeOK'
    BY <1>5 DEF Signal, Woken
  <1>6. CASE SchedulerCheck \/ SchedulerWait
    BY <1>6 DEF SchedulerCheck, SchedulerWait
  <1>7. CASE SchedulerPop
    <2>1. urgent' \in Seq(Packets) /\ high' \in Seq(Packets) /\ normal' \in Seq(Packets)
      <3>1. \A s \in Seq(Packets) : s # <<>> => Tail(s) \in Seq(Packets)
        BY HeadTailProperties
      <3> QED
        BY <1>7, <3>1 DEF SchedulerPop, UrgentBeforeHigh, Empty
    <2>2. held' \in IF sched' = "inject" THEN Packets ELSE {NoPacket}
      BY <1>7, HeadTailProperties DEF SchedulerPop, UrgentBeforeHigh, Empty
    <2> QED
      BY <1>7, <2>1, <2>2 DEF SchedulerPop
  <1>8. CASE SchedulerInject
    BY <1>8, AppendProperties DEF SchedulerInject
  <1>9. CASE AgingTick \/ AgingReturn
    <2>1. age' \in [Aging -> 0 .. MaxMessages]
      BY <1>9 DEF AgingTick, AgingReturn
    <2> QED
      BY <1>9, <2>1 DEF AgingTick, AgingReturn
  <1>10. CASE AgingPass
    <2>1. Starved \in Seq(Packets)
      BY KeptType, ConcatProperties DEF Starved
    <2>2. urgent' \in Seq(Packets)
      BY <1>10, <2>1, ConcatProperties DEF AgingPass, StarvedLast
    <2>3. high' \in Seq(Packets) /\ normal' \in Seq(Packets)
      BY <1>10, KeptType DEF AgingPass
    <2> QED
      BY <1>10, <2>2, <2>3 DEF AgingPass, Woken
  <1>11. CASE CloseStop \/ Broadcast
    BY <1>11 DEF CloseStop, Broadcast, Woken
  <1>12. CASE UNCHANGED vars
    BY <1>12 DEF vars
  <1> QED
    BY <1>1, <1>2, <1>3, <1>4, <1>5, <1>6, <1>7, <1>8, <1>9, <1>10, <1>11, <1>12
    DEF Next, Scheduler, Ager

\* The scheduler falls asleep with the queues empty, whoever adds to them then signals, and
\* an aging pass that fills the urgent queue wakes it (schedulerLoop, OnPublish, agingLoop).
LEMMA SleepStep ==
  ASSUME TypeOK, EmptyToWait, NoSleepOnWork, [Next]_vars
  PROVE  EmptyToWait' /\ NoSleepOnWork'
PROOF
  <1> USE DEF EmptyToWait, NoSleepOnWork, Empty
  <1>1. ASSUME NEW f \in DOMAIN setup, Prepare(f) \/ MaybeStart(f)
        PROVE  EmptyToWait' /\ NoSleepOnWork'
    BY <1>1 DEF Prepare, MaybeStart, queues
  <1>2. ASSUME NEW p \in Publishers, NEW c \in Classes, ReadClock(p, c)
        PROVE  EmptyToWait' /\ NoSleepOnWork'
    BY <1>2 DEF ReadClock, queues, TypeOK
  <1>3. ASSUME NEW p \in Publishers, Enqueue(p) PROVE EmptyToWait' /\ NoSleepOnWork'
    <2>1. mailbox'[p].pc = "signal"
      BY <1>3 DEF Enqueue, ThenSignal, TypeOK
    <2> QED
      BY <1>3, <2>1 DEF Enqueue, Free
  <1>4. ASSUME NEW p \in Publishers, Signal(p) PROVE EmptyToWait' /\ NoSleepOnWork'
    BY <1>4 DEF Signal, Woken, queues
  <1>5. CASE Scheduler
    BY <1>5 DEF Scheduler, SchedulerCheck, SchedulerWait, SchedulerPop, SchedulerInject, queues
  <1>6. CASE AgingTick \/ AgingReturn
    BY <1>6 DEF AgingTick, AgingReturn, queues
  <1>7. CASE AgingPass
    <2>1. CASE urgent' # <<>>
      BY <1>7, <2>1 DEF AgingPass, Woken, Free
    <2>2. CASE urgent' = <<>>
      <3>1. Starved \in Seq(Packets)
        BY KeptType, ConcatProperties DEF Starved, TypeOK
      <3>2. urgent = <<>>
        <4>1. urgent \o Starved = <<>> /\ urgent \in Seq(Packets)
          BY <1>7, <2>2 DEF AgingPass, StarvedLast, TypeOK
        <4> QED
          BY <3>1, <4>1, ConcatEqualIffEmpty
      <3>3. (high' # <<>> => high # <<>>) /\ (normal' # <<>> => normal # <<>>)
        BY <1>7, KeptFromSome DEF AgingPass, TypeOK
      <3> QED
        BY <1>7, <2>2, <3>2, <3>3 DEF AgingPass, Free
    <2> QED
      BY <2>1, <2>2
  <1>8. CASE CloseStop \/ Broadcast
    BY <1>8 DEF CloseStop, Broadcast, Woken, queues
  <1>9. CASE UNCHANGED vars
    BY <1>9 DEF vars, queues
  <1> QED
    BY <1>1, <1>2, <1>3, <1>4, <1>5, <1>6, <1>7, <1>8, <1>9 DEF Next, Ager

-----------------------------------------------------------------------------
(* Sequences of packets.                                                    *)

\* Appending adds one packet, behind those there.
LEMMA ElementsAppend ==
  ASSUME NEW s \in Seq(Packets), NEW pk \in Packets
  PROVE  /\ Append(s, pk) \in Seq(Packets)
         /\ Elements(Append(s, pk)) = Elements(s) \cup {pk}
         /\ Ascending(s) /\ Before(Elements(s), {pk}) => Ascending(Append(s, pk))
PROOF
  <1> DEFINE t == Append(s, pk)
  <1>1. /\ t \in Seq(Packets) /\ Len(t) = Len(s) + 1 /\ Len(s) \in Nat
        /\ DOMAIN s = 1 .. Len(s) /\ DOMAIN t = 1 .. Len(s) + 1
        /\ t[Len(s) + 1] = pk /\ \A i \in 1 .. Len(s) : t[i] = s[i]
    BY AppendProperties, LenProperties
  <1> HIDE DEF t
  <1>2. \A i \in DOMAIN t : i \in DOMAIN s \/ i = Len(s) + 1
    BY <1>1
  <1>3. Elements(t) = Elements(s) \cup {pk}
    BY <1>1, <1>2 DEF Elements
  <1>4. ASSUME Ascending(s), Before(Elements(s), {pk}) PROVE Ascending(t)
    <2> SUFFICES ASSUME NEW i \in DOMAIN t, NEW j \in DOMAIN t, i < j, SameSource(t[i], t[j])
                 PROVE  t[i].id < t[j].id
      BY DEF Ascending
    <2>1. i \in DOMAIN s /\ t[i] = s[i] /\ s[i] \in Elements(s)
      BY <1>1 DEF Elements
    <2>2. CASE j \in DOMAIN s
      BY <2>1, <2>2, <1>1, <1>4 DEF Ascending
    <2>3. CASE j = Len(s) + 1
      BY <2>1, <2>3, <1>1, <1>4 DEF Before
    <2> QED
      BY <1>2, <2>2, <2>3
  <1> QED
    BY <1>1, <1>3, <1>4 DEF t

\* So does joining two sequences.
LEMMA ElementsConcat ==
  ASSUME NEW s \in Seq(Packets), NEW u \in Seq(Packets)
  PROVE  /\ s \o u \in Seq(Packets)
         /\ Elements(s \o u) = Elements(s) \cup Elements(u)
         /\ Ascending(s) /\ Ascending(u) /\ Before(Elements(s), Elements(u)) => Ascending(s \o u)
PROOF
  <1> DEFINE t == s \o u
             n == Len(s)
  <1>1. /\ t \in Seq(Packets) /\ n \in Nat /\ Len(u) \in Nat
        /\ DOMAIN s = 1 .. n /\ DOMAIN u = 1 .. Len(u) /\ DOMAIN t = 1 .. n + Len(u)
        /\ \A i \in 1 .. n : t[i] = s[i]
        /\ \A i \in n + 1 .. n + Len(u) : t[i] = u[i - n]
    <2>1. /\ t \in Seq(Packets) /\ Len(t) = Len(s) + Len(u)
          /\ \A i \in 1 .. Len(s) + Len(u) : t[i] = IF i <= Len(s) THEN s[i] ELSE u[i - Len(s)]
      BY ConcatProperties
    <2> HIDE DEF t
    <2> QED
      BY <2>1, LenProperties
  <1> HIDE DEF t, n
  <1>2. \A i \in DOMAIN t : \/ i \in DOMAIN s /\ t[i] = s[i]
                            \/ i - n \in DOMAIN u /\ t[i] = u[i - n] /\ i > n
    <2>1. \A i \in 1 .. n : i \in DOMAIN s /\ t[i] = s[i]
      BY <1>1
    <2>2. \A i \in n + 1 .. n + Len(u) : i - n \in DOMAIN u /\ t[i] = u[i - n] /\ i > n
      BY <1>1
    <2>3. \A i \in DOMAIN t : i \in 1 .. n \/ i \in n + 1 .. n + Len(u)
      BY <1>1
    <2> QED
      BY <2>1, <2>2, <2>3
  <1>3. \A i \in DOMAIN s : i \in DOMAIN t /\ t[i] = s[i]
    BY <1>1
  <1>4. \A i \in DOMAIN u : i + n \in DOMAIN t /\ t[i + n] = u[i]
    <2> SUFFICES ASSUME NEW i \in DOMAIN u PROVE i + n \in DOMAIN t /\ t[i + n] = u[i]
      OBVIOUS
    <2>1. i + n \in n + 1 .. n + Len(u) /\ (i + n) - n = i
      BY <1>1
    <2> QED
      BY <1>1, <2>1
  <1>5. Elements(t) = Elements(s) \cup Elements(u)
    BY <1>2, <1>3, <1>4 DEF Elements
  <1>6. ASSUME Ascending(s), Ascending(u), Before(Elements(s), Elements(u)) PROVE Ascending(t)
    <2> SUFFICES ASSUME NEW i \in DOMAIN t, NEW j \in DOMAIN t, i < j, SameSource(t[i], t[j])
                 PROVE  t[i].id < t[j].id
      BY DEF Ascending
    <2>1. CASE j \in DOMAIN s
      <3>1. i \in DOMAIN s
        BY <1>1, <2>1
      <3> QED
        BY <2>1, <3>1, <1>3, <1>6 DEF Ascending
    <2>2. CASE i \in DOMAIN s /\ j - n \in DOMAIN u /\ t[j] = u[j - n]
      BY <2>2, <1>3, <1>6 DEF Before, Elements
    <2>3. CASE i - n \in DOMAIN u /\ t[i] = u[i - n] /\ j - n \in DOMAIN u /\ t[j] = u[j - n]
      <3>1. i - n < j - n
        BY <1>1
      <3> QED
        BY <2>3, <3>1, <1>6 DEF Ascending
    <2> QED
      BY <1>2, <2>1, <2>2, <2>3
  <1> QED
    BY <1>1, <1>5, <1>6 DEF t

\* What the scheduler holds and the three queues hold between them.
LEMMA ElementsOfFour ==
  ASSUME NEW s \in Seq(Packets), NEW u \in Seq(Packets), NEW h \in Seq(Packets), NEW n \in Seq(Packets)
  PROVE  /\ s \o u \o h \o n \in Seq(Packets)
         /\ Elements(s \o u \o h \o n) = Elements(s) \cup Elements(u) \cup Elements(h) \cup Elements(n)
PROOF
  <1>1. s \o u \in Seq(Packets) /\ Elements(s \o u) = Elements(s) \cup Elements(u)
    BY ElementsConcat
  <1> DEFINE a == s \o u
  <1> HIDE DEF a
  <1>2. a \o h \in Seq(Packets) /\ Elements(a \o h) = Elements(a) \cup Elements(h)
    BY <1>1, ElementsConcat DEF a
  <1> DEFINE b == a \o h
  <1> HIDE DEF b
  <1>3. b \o n \in Seq(Packets) /\ Elements(b \o n) = Elements(b) \cup Elements(n)
    BY <1>2, ElementsConcat DEF b
  <1> QED
    BY <1>1, <1>2, <1>3 DEF a, b

\* The head of a queue comes before what is behind it.
LEMMA ElementsTail ==
  ASSUME NEW s \in Seq(Packets), s # <<>>
  PROVE  /\ Head(s) \in Packets /\ Tail(s) \in Seq(Packets)
         /\ Elements(s) = {Head(s)} \cup Elements(Tail(s))
         /\ Ascending(s) => Ascending(Tail(s)) /\ Before({Head(s)}, Elements(Tail(s)))
PROOF
  <1> DEFINE t == Tail(s)
  <1>1. /\ Head(s) \in Packets /\ t \in Seq(Packets) /\ Head(s) = s[1]
        /\ Len(s) \in Nat /\ Len(s) > 0 /\ DOMAIN s = 1 .. Len(s) /\ DOMAIN t = 1 .. Len(s) - 1
        /\ \A i \in 1 .. Len(s) - 1 : t[i] = s[i + 1]
    BY HeadTailProperties, LenProperties, EmptySeq
  <1> HIDE DEF t
  <1>2. \A i \in DOMAIN s : i = 1 \/ (i - 1 \in DOMAIN t /\ s[i] = t[i - 1])
    BY <1>1
  <1>3. \A i \in DOMAIN t : i + 1 \in DOMAIN s /\ t[i] = s[i + 1] /\ i + 1 > 1
    BY <1>1
  <1>4. 1 \in DOMAIN s
    BY <1>1
  <1>5. Elements(s) = {Head(s)} \cup Elements(t)
    BY <1>1, <1>2, <1>3, <1>4 DEF Elements
  <1>6. Ascending(s) => Ascending(t)
    BY <1>1, <1>3 DEF Ascending
  <1>7. Ascending(s) => Before({Head(s)}, Elements(t))
    BY <1>1, <1>3, <1>4 DEF Ascending, Before, Elements
  <1> QED
    BY <1>1, <1>5, <1>6, <1>7 DEF t

\* What an aging pass takes and what it leaves are the due and the others, in order.
LEMMA ElementsKept ==
  ASSUME NEW s \in Seq(Packets), NEW K \in SUBSET DOMAIN s
  PROVE  /\ Elements(Kept(s, K)) = {s[i] : i \in K}
         /\ Ascending(s) => Ascending(Kept(s, K))
PROOF
  <1> DEFINE t == Kept(s, K)
             nth == [k \in DOMAIN t |-> Nth(K, k)]
  <1>1. /\ \A k \in DOMAIN t : nth[k] \in K /\ t[k] = s[nth[k]]
        /\ \A k, l \in DOMAIN t : k < l => nth[k] < nth[l]
        /\ \A i \in K : \E k \in DOMAIN t : t[k] = s[i]
    BY KeptProperties
  <1> HIDE DEF t, nth
  <1>2. Elements(t) = {s[i] : i \in K}
    BY <1>1 DEF Elements
  <1>3. Ascending(s) => Ascending(t)
    BY <1>1 DEF Ascending
  <1> QED
    BY <1>2, <1>3 DEF t

-----------------------------------------------------------------------------
(* How the line and the queues change.                                      *)

\* A sequence is its head and then its tail.
LEMMA HeadThenTail ==
  ASSUME NEW s \in Seq(Packets), s # <<>>
  PROVE  <<Head(s)>> \o Tail(s) = s
PROOF
  <1> DEFINE h == <<Head(s)>>
             t == Tail(s)
  <1>1. /\ Head(s) = s[1] /\ t \in Seq(Packets) /\ Len(t) = Len(s) - 1 /\ Len(s) \in Nat
        /\ \A i \in 1 .. Len(s) - 1 : t[i] = s[i + 1]
    BY HeadTailProperties, LenProperties, EmptySeq
  <1>2. h \in Seq(Packets) /\ Len(h) = 1 /\ h[1] = s[1]
    BY <1>1, HeadTailProperties
  <1>3. /\ h \o t \in Seq(Packets) /\ Len(h \o t) = Len(s)
        /\ \A i \in 1 .. Len(s) : (h \o t)[i] = IF i <= 1 THEN h[i] ELSE t[i - 1]
    <2>1. /\ h \o t \in Seq(Packets) /\ Len(h \o t) = Len(h) + Len(t)
          /\ \A i \in 1 .. Len(h) + Len(t) : (h \o t)[i] = IF i <= Len(h) THEN h[i] ELSE t[i - Len(h)]
      BY <1>1, <1>2, ConcatProperties
    <2> HIDE DEF h, t
    <2> QED
      BY <2>1, <1>1, <1>2
  <1> DEFINE u == h \o t
  <1>4. \A i \in 1 .. Len(s) : u[i] = s[i]
    <2> HIDE DEF h, t, u
    <2>1. \A i \in 1 .. Len(s) : i = 1 \/ (i - 1 \in 1 .. Len(s) - 1 /\ ~ (i <= 1) /\ (i - 1) + 1 = i)
      BY <1>1
    <2> QED
      BY <2>1, <1>1, <1>2, <1>3 DEF u
  <1> HIDE DEF h, t
  <1>5. Len(u) = Len(s) /\ u \in Seq(Packets)
    BY <1>3
  <1>6. u = s
    <2> HIDE DEF u
    <2> QED
      BY <1>4, <1>5, SeqEqual
  <1> QED
    BY <1>6 DEF h, t

\* The line consists of packets, and so does what the scheduler holds.
LEMMA LineType ==
  ASSUME TypeOK
  PROVE  Holding \in Seq(Packets) /\ Line \in Seq(Packets)
PROOF
  <1>1. Holding \in Seq(Packets)
    BY DEF TypeOK, Holding
  <1> QED
    BY <1>1, ConcatProperties DEF TypeOK, Line

\* The line as the queues and the scheduler make it up.
LEMMA LineShape ==
  ASSUME TypeOK
  PROVE  /\ sched # "inject" => Line = injected \o urgent
         /\ sched = "inject" => Line = injected \o (<<held>> \o urgent) /\ held \in Packets
         /\ sched = "inject" => Line = Append(injected, held) \o urgent
PROOF
  <1>1. injected \in Seq(Packets) /\ urgent \in Seq(Packets)
    BY DEF TypeOK
  <1>2. CASE sched # "inject"
    <2>1. Holding = <<>>
      BY <1>2 DEF Holding
    <2> QED
      BY <1>1, <1>2, <2>1, ConcatEmptySeq DEF Line
  <1>3. CASE sched = "inject"
    <2>1. held \in Packets /\ <<held>> \in Seq(Packets) /\ Holding = <<held>>
      BY <1>3 DEF TypeOK, Holding
    <2>2. Append(injected, held) = injected \o <<held>>
      BY <1>1, <2>1, AppendIsConcat
    <2>3. (injected \o <<held>>) \o urgent = injected \o (<<held>> \o urgent)
      BY <1>1, <2>1, ConcatAssociative
    <2> QED
      BY <1>3, <2>1, <2>2, <2>3 DEF Line
  <1> QED
    BY <1>2, <1>3

\* A step that leaves everything in its place.
Still ==
  /\ Line' = Line /\ UNCHANGED <<high, normal, stamped, overtakers>>
  /\ Entering' = Entering /\ \A p \in Entering : mailbox'[p].pk = mailbox[p].pk

\* A packet goes to the end of the line.
Joins(pk) == Line' = Append(Line, pk)

\* Injecting a packet, or taking one from the urgent queue, moves nothing in the line.
LEMMA SchedulerLine ==
  ASSUME TypeOK, TypeOK', SchedulerInject \/ (SchedulerPop /\ (~ (sched' = "inject") \/ urgent # <<>>))
  PROVE  Still
PROOF
  <1>1. UNCHANGED <<stamped, overtakers, mailbox>> /\ Entering' = Entering
    BY DEF SchedulerPop, SchedulerInject, Entering
  <1>2. CASE SchedulerInject
    <2>1. Line = Append(injected, held) \o urgent
      BY <1>2, LineShape DEF SchedulerInject
    <2>2. Line' = injected' \o urgent'
      <3>1. sched' # "inject" /\ TypeOK'
        BY <1>2 DEF SchedulerInject
      <3>2. Holding' = <<>>
        BY <3>1 DEF Holding
      <3> QED
        BY <3>1, <3>2, ConcatEmptySeq DEF Line, TypeOK
    <2> QED
      BY <1>1, <1>2, <2>1, <2>2 DEF SchedulerInject, Still, queues
  <1>3. CASE SchedulerPop /\ sched' = "inject" /\ urgent # <<>>
    <2>1. held' = Head(urgent) /\ urgent' = Tail(urgent) /\ UNCHANGED <<high, normal, injected>> /\ sched # "inject"
      BY <1>3 DEF SchedulerPop, UrgentBeforeHigh, queues
    <2>2. Line = injected \o urgent
      BY <2>1, LineShape
    <2>3. Line' = (injected \o <<held'>>) \o urgent'
      BY <1>3, <2>1 DEF Line, Holding
    <2>4. <<held'>> \o urgent' = urgent
      BY <1>3, <2>1, HeadThenTail DEF TypeOK
    <2>5. (injected \o <<held'>>) \o urgent' = injected \o (<<held'>> \o urgent')
      <3>1. injected \in Seq(Packets) /\ <<held'>> \in Seq(Packets) /\ urgent' \in Seq(Packets)
        BY <1>3 DEF TypeOK
      <3> QED
        BY <3>1, ConcatAssociative
    <2> QED
      BY <1>1, <2>1, <2>2, <2>3, <2>4, <2>5 DEF Still
  <1>4. CASE SchedulerPop /\ sched' # "inject"
    BY <1>1, <1>4 DEF SchedulerPop, Still, Line, Holding, queues
  <1> QED
    BY <1>2, <1>3, <1>4

\* With no urgent packet left the scheduler takes one from the high or the normal queue: it
\* joins the line.
LEMMA PopLine ==
  ASSUME TypeOK, TypeOK', SchedulerPop, sched' = "inject", urgent = <<>>
  PROVE  \/ /\ high # <<>> /\ Joins(Head(high)) /\ high' = Tail(high) /\ UNCHANGED normal
         \/ /\ normal # <<>> /\ Joins(Head(normal)) /\ normal' = Tail(normal) /\ UNCHANGED high
PROOF
  <1>1. /\ UNCHANGED <<urgent, injected>> /\ sched # "inject"
        /\ \/ high # <<>> /\ held' = Head(high) /\ high' = Tail(high) /\ UNCHANGED normal
           \/ normal # <<>> /\ held' = Head(normal) /\ normal' = Tail(normal) /\ UNCHANGED high
    BY DEF SchedulerPop, UrgentBeforeHigh, queues, Empty
  <1>2. held' \in Packets /\ injected \in Seq(Packets)
    BY DEF TypeOK
  <1>3. Line = injected
    BY <1>1, <1>2, LineShape, ConcatEmptySeq
  <1>4. Line' = (injected \o <<held'>>) \o <<>>
    BY <1>1 DEF Line, Holding
  <1>5. Line' = Append(injected, held')
    BY <1>2, <1>4, AppendProperties, AppendIsConcat, ConcatEmptySeq
  <1> QED
    BY <1>1, <1>3, <1>5 DEF Joins

\* Whatever is put behind the urgent queue is put behind the line.
LEMMA BehindLine ==
  ASSUME TypeOK, NEW s \in Seq(Packets), urgent' = urgent \o s, UNCHANGED <<injected, held>>,
         sched' = "inject" <=> sched = "inject"
  PROVE  Line' = Line \o s
PROOF
  <1>1. injected \o Holding \in Seq(Packets) /\ urgent \in Seq(Packets)
    BY LineType, ConcatProperties DEF TypeOK
  <1>2. Holding' = Holding
    BY DEF Holding
  <1>3. Line' = (injected \o Holding) \o (urgent \o s)
    BY <1>2 DEF Line
  <1> DEFINE l == injected \o Holding
  <1>4. (l \o urgent) \o s = l \o (urgent \o s)
    <2> HIDE DEF l
    <2> QED
      BY SMTT(30), <1>1, ConcatAssociative DEF l
  <1> QED
    BY <1>3, <1>4 DEF Line

\* OnPublish appends the packet to the queue of its class.
LEMMA EnqueueLine ==
  ASSUME TypeOK, Entered, NEW p \in Publishers, Enqueue(p), NEW pk, pk = mailbox[p].pk
  PROVE  /\ pk \in Packets /\ Entering' = Entering \ {p} /\ p \in Entering
         /\ UNCHANGED <<stamped, overtakers>>
         /\ \A q \in Entering' : mailbox'[q].pk = mailbox[q].pk
         /\ \/ pk.class = "Urgent" /\ Joins(pk) /\ UNCHANGED <<high, normal>>
            \/ pk.class = "High" /\ high' = Append(high, pk) /\ UNCHANGED <<Line, normal>>
            \/ pk.class = "Normal" /\ normal' = Append(normal, pk) /\ UNCHANGED <<Line, high>>
PROOF
  <1>1. pk \in Packets /\ p \in Entering
    BY DEF Enqueue, Entered, Entering
  <1>2. Entering' = Entering \ {p} /\ \A q \in Entering' : mailbox'[q].pk = mailbox[q].pk
    BY DEF Enqueue, Entering, TypeOK, ThenSignal
  <1>3. UNCHANGED <<stamped, overtakers, injected, held, sched>>
    BY DEF Enqueue
  <1>4. CASE pk.class = "Urgent"
    <2>1. urgent' = urgent \o <<pk>> /\ <<pk>> \in Seq(Packets) /\ UNCHANGED <<high, normal>>
      <3>1. urgent' = Append(urgent, pk) /\ UNCHANGED <<high, normal>>
        BY <1>4 DEF Enqueue
      <3> QED
        BY <3>1, <1>1, AppendIsConcat DEF TypeOK
    <2>2. Line' = Line \o <<pk>>
      BY <2>1, <1>3, BehindLine
    <2> QED
      BY <1>1, <1>2, <1>3, <1>4, <2>1, <2>2, LineType, AppendIsConcat DEF Joins
  <1>5. CASE pk.class # "Urgent"
    <2>1. urgent' = urgent /\ Line' = Line
      BY <1>3, <1>5 DEF Enqueue, Line, Holding
    <2> QED
      BY <1>1, <1>2, <1>3, <1>5, <2>1 DEF Enqueue, Packets, Classes
  <1> QED
    BY <1>4, <1>5

\* An aging pass moves the due packets behind the line and leaves the others.
LEMMA AgingLine ==
  ASSUME TypeOK, AgingPass
  PROVE  /\ Starved \in Seq(Packets) /\ Line' = Line \o Starved
         /\ Elements(Starved) = {pk \in Elements(high) \cup Elements(normal) : Due(pk)}
         /\ Elements(high') = {pk \in Elements(high) : ~Due(pk)}
         /\ Elements(normal') = {pk \in Elements(normal) : ~Due(pk)}
         /\ Ascending(high) => Ascending(high') /\ Ascending(Kept(high, DueIn(high)))
         /\ Ascending(normal) => Ascending(normal') /\ Ascending(Kept(normal, DueIn(normal)))
         /\ Elements(Kept(high, DueIn(high))) \subseteq Elements(high)
         /\ Elements(Kept(normal, DueIn(normal))) \subseteq Elements(normal)
PROOF
  <1>1. \A s \in Seq(Packets) :
          /\ Kept(s, DueIn(s)) \in Seq(Packets) /\ Kept(s, YoungIn(s)) \in Seq(Packets)
          /\ Elements(Kept(s, DueIn(s))) = {pk \in Elements(s) : Due(pk)}
          /\ Elements(Kept(s, YoungIn(s))) = {pk \in Elements(s) : ~Due(pk)}
          /\ Ascending(s) => Ascending(Kept(s, DueIn(s))) /\ Ascending(Kept(s, YoungIn(s)))
    <2> SUFFICES ASSUME NEW s \in Seq(Packets)
                 PROVE
          /\ Kept(s, DueIn(s)) \in Seq(Packets) /\ Kept(s, YoungIn(s)) \in Seq(Packets)
          /\ Elements(Kept(s, DueIn(s))) = {pk \in Elements(s) : Due(pk)}
          /\ Elements(Kept(s, YoungIn(s))) = {pk \in Elements(s) : ~Due(pk)}
          /\ Ascending(s) => Ascending(Kept(s, DueIn(s))) /\ Ascending(Kept(s, YoungIn(s)))
      OBVIOUS
    <2>1. DueIn(s) \in SUBSET DOMAIN s /\ YoungIn(s) \in SUBSET DOMAIN s
      BY KeptType
    <2>2. {s[i] : i \in DueIn(s)} = {pk \in Elements(s) : Due(pk)}
      BY DEF DueIn, Elements
    <2>3. {s[i] : i \in YoungIn(s)} = {pk \in Elements(s) : ~Due(pk)}
      BY DEF DueIn, YoungIn, Elements
    <2> QED
      BY <2>1, <2>2, <2>3, KeptType, ElementsKept
  <1>2. high \in Seq(Packets) /\ normal \in Seq(Packets)
    BY DEF TypeOK
  <1>3. /\ high' = Kept(high, YoungIn(high)) /\ normal' = Kept(normal, YoungIn(normal))
        /\ urgent' = urgent \o Starved /\ UNCHANGED <<injected, held>>
        /\ sched' = "inject" <=> sched = "inject"
    BY DEF AgingPass, StarvedLast, Woken
  <1>4. /\ Starved \in Seq(Packets)
        /\ Elements(Starved) = Elements(Kept(normal, DueIn(normal))) \cup Elements(Kept(high, DueIn(high)))
    BY <1>1, <1>2, ElementsConcat DEF Starved
  <1>5. Line' = Line \o Starved
    BY <1>3, <1>4, BehindLine
  <1> QED
    BY <1>1, <1>2, <1>3, <1>4, <1>5

-----------------------------------------------------------------------------
(* Order and promotion.                                                     *)

\* The order of packets, by the places they may be at.
OrderInv == Entered /\ Classed /\ Numbered /\ Ordered /\ Promoted

\* Everything that has entered and what is queued are packets, with a number.
LEMMA EverythingType ==
  ASSUME TypeOK, Entered
  PROVE  /\ Everything \subseteq Packets /\ Queued \subseteq Everything
         /\ \A pk \in Everything : pk.id \in 1 .. MaxMessages
         /\ \A k \in DOMAIN Line : Line[k] \in Elements(Line)
         /\ DOMAIN Line = 1 .. Len(Line) /\ Len(Line) \in Nat
PROOF
  <1>1. \A s \in Seq(Packets) : Elements(s) \subseteq Packets
    BY LenProperties, ElementOfSeq DEF Elements
  <1>2. Queued \subseteq Packets
    BY <1>1, LineType DEF Queued, TypeOK
  <1>3. Everything \subseteq Packets
    BY <1>2 DEF Everything, Entered
  <1>4. \A pk \in Packets : pk.id \in 1 .. MaxMessages
    BY DEF Packets
  <1> QED
    BY <1>3, <1>4, LineType, LenProperties DEF Everything, Elements

\* A packet that stands in line is in no other queue, and one that enters is in none.
LEMMA OnePlace ==
  ASSUME TypeOK, OrderInv
  PROVE  /\ \A pk \in Elements(Line) : pk \notin Elements(high) /\ pk \notin Elements(normal)
         /\ \A p \in Entering : mailbox[p].pk \notin Queued
PROOF
  <1>1. \A pk \in Everything : pk.id \in Nat /\ ~ (pk.id < pk.id)
    BY EverythingType, PriorityAssumption DEF OrderInv
  <1>2. \A pk \in Elements(Line) : pk \notin Elements(high) /\ pk \notin Elements(normal)
    BY <1>1 DEF OrderInv, Ordered, Before, SameSource, Everything, Queued
  <1>3. \A p \in Entering : mailbox[p].pk \notin Queued
    BY <1>1 DEF OrderInv, Entered, Everything
  <1> QED
    BY <1>2, <1>3

\* Nothing moves.
LEMMA StillOrder ==
  ASSUME OrderInv, Still
  PROVE  OrderInv'
PROOF
  <1>1. /\ UNCHANGED <<Line, high, normal, stamped, overtakers, Entering>>
        /\ \A p \in Entering : mailbox'[p].pk = mailbox[p].pk
    BY DEF Still
  <1>2. UNCHANGED <<Queued, Everything>>
    BY <1>1 DEF Queued, Everything, Elements
  <1>3. Entered'
    BY <1>1, <1>2 DEF OrderInv, Entered
  <1>4. Classed' /\ Numbered'
    BY <1>1, <1>2 DEF OrderInv, Classed, Numbered, Elements
  <1>5. Ordered'
    BY <1>1 DEF OrderInv, Ordered, Ascending, Before, Elements
  <1>6. Promoted'
    BY <1>1, <1>2 DEF OrderInv, Promoted, Elements
  <1> QED
    BY <1>3, <1>4, <1>5, <1>6 DEF OrderInv

\* A new packet has the next number, and nobody has overtaken it yet.
LEMMA ReadClockOrder ==
  ASSUME TypeOK, OrderInv, NEW p \in Publishers, NEW c \in Classes, ReadClock(p, c)
  PROVE  OrderInv'
PROOF
  <1> DEFINE new == [id |-> stamped + 1, from |-> p, class |-> c]
  <1>1. /\ UNCHANGED <<urgent, high, normal, injected, held, sched, overtakers>>
        /\ stamped' = stamped + 1 /\ stamped \in Nat /\ stamped + 1 <= MaxMessages
        /\ mailbox'[p].pc = "lock" /\ mailbox'[p].pk = new
        /\ \A q \in Publishers \ {p} : mailbox'[q] = mailbox[q]
        /\ new \in Packets /\ new.from = p /\ new.id = stamped + 1
    BY PriorityAssumption DEF ReadClock, TypeOK, queues, Packets
  <1> HIDE DEF new
  <1>2. UNCHANGED <<Line, Queued>>
    BY <1>1 DEF Line, Holding, Queued, Elements
  <1>3. /\ Entering' = Entering \cup {p} /\ p \notin Entering
        /\ \A q \in Entering : mailbox'[q].pk = mailbox[q].pk
    BY <1>1 DEF Entering, ReadClock
  <1>4. Everything' = Everything \cup {new}
    BY <1>1, <1>2, <1>3 DEF Everything
  <1>5. \A pk \in Everything : pk.id <= stamped /\ pk.id \in Nat
    BY EverythingType, PriorityAssumption DEF OrderInv, Numbered
  <1>6. Entered'
    <2> SUFFICES ASSUME NEW q \in Entering'
                 PROVE  /\ mailbox'[q].pk \in Packets /\ mailbox'[q].pk.from = q
                        /\ \A pk \in Queued : pk.from = q => pk.id < mailbox'[q].pk.id
      BY <1>2 DEF Entered
    <2>1. CASE q = p
      BY <2>1, <1>1, <1>5 DEF Everything
    <2>2. CASE q # p
      BY <2>2, <1>1, <1>3 DEF OrderInv, Entered, Entering
    <2> QED
      BY <2>1, <2>2
  <1>7. Classed'
    BY <1>1 DEF OrderInv, Classed, Elements
  <1>8. Numbered'
    <2>1. \A pk \in Everything : pk.id # new.id
      BY <1>1, <1>5
    <2> QED
      BY <2>1, <1>1, <1>4, <1>5 DEF OrderInv, Numbered
  <1>9. Ordered'
    BY <1>1, <1>2 DEF OrderInv, Ordered, Ascending, Before, Elements
  <1>10. Promoted'
    <2>1. overtakers[new.id] = {}
      BY <1>1 DEF OrderInv, Promoted
    <2>2. \A pk \in Everything' \ Elements(Line) : overtakers[pk.id] = {}
      BY <1>4, <2>1 DEF OrderInv, Promoted
    <2> QED
      BY <1>1, <1>2, <2>2 DEF OrderInv, Promoted, Elements
  <1> QED
    BY <1>6, <1>7, <1>8, <1>9, <1>10 DEF OrderInv

\* A packet that entered the hook moves to its queue: the latest of its publisher there.
LEMMA EnqueueOrder ==
  ASSUME TypeOK, OrderInv, NEW p \in Publishers, Enqueue(p)
  PROVE  OrderInv'
PROOF
  <1> DEFINE pk == mailbox[p].pk
  <1>1. /\ pk \in Packets /\ Entering' = Entering \ {p} /\ p \in Entering
        /\ UNCHANGED <<stamped, overtakers>>
        /\ \A q \in Entering' : mailbox'[q].pk = mailbox[q].pk
        /\ \/ pk.class = "Urgent" /\ Joins(pk) /\ UNCHANGED <<high, normal>>
           \/ pk.class = "High" /\ high' = Append(high, pk) /\ UNCHANGED <<Line, normal>>
           \/ pk.class = "Normal" /\ normal' = Append(normal, pk) /\ UNCHANGED <<Line, high>>
    BY EnqueueLine DEF OrderInv
  <1>2. /\ pk \in Everything /\ pk \notin Queued /\ pk.from = p
        /\ \A qk \in Queued : qk.from = p => qk.id < pk.id
    BY <1>1, OnePlace DEF OrderInv, Entered, Everything
  <1> HIDE DEF pk
  <1>3. Line \in Seq(Packets) /\ high \in Seq(Packets) /\ normal \in Seq(Packets)
    BY LineType DEF TypeOK
  <1>4. /\ Before(Elements(Line), {pk}) /\ Before(Elements(high), {pk}) /\ Before(Elements(normal), {pk})
    BY <1>2 DEF Before, SameSource, Queued
  <1>11. \A s \in {Line, high, normal} :
           /\ Elements(Append(s, pk)) = Elements(s) \cup {pk} /\ Ascending(Append(s, pk))
    <2>1. \A s \in {Line, high, normal} : s \in Seq(Packets) /\ Ascending(s) /\ Before(Elements(s), {pk})
      BY <1>3, <1>4 DEF OrderInv, Ordered
    <2> QED
      BY <2>1, <1>1, ElementsAppend
  <1>5. Queued' = Queued \cup {pk}
    <2>1. Queued' = Elements(Line') \cup Elements(high') \cup Elements(normal')
      BY DEF Queued, Elements
    <2> QED
      BY <2>1, <1>1, <1>11 DEF Queued, Joins
  <1>6. Everything' \subseteq Everything
    BY <1>1, <1>2, <1>5 DEF Everything
  <1>7. Entered'
    <2> SUFFICES ASSUME NEW q \in Entering'
                 PROVE  /\ mailbox[q].pk \in Packets /\ mailbox[q].pk.from = q
                        /\ \A qk \in Queued \cup {pk} : qk.from = q => qk.id < mailbox[q].pk.id
      BY <1>1, <1>5 DEF Entered
    <2>1. q \in Entering /\ q # p
      BY <1>1
    <2> QED
      BY <2>1, <1>2 DEF OrderInv, Entered
  <1>8. Numbered'
    BY <1>1, <1>6 DEF OrderInv, Numbered
  <1>9. CASE pk.class = "Urgent"
    <2>1. /\ Line' = Append(Line, pk) /\ high' = high /\ normal' = normal
          /\ Elements(Line') = Elements(Line) \cup {pk}
      BY <1>1, <1>11, <1>9 DEF Joins
    <2>2. Classed'
      BY <2>1 DEF OrderInv, Classed, Elements
    <2>3. Ascending(Line')
      BY <2>1, <1>11
    <2>4. Before(Elements(Line'), Elements(high) \cup Elements(normal))
      BY <2>1, <1>9 DEF OrderInv, Ordered, Classed, Before, SameSource, Elements
    <2>5. Ordered'
      BY <2>1, <2>3, <2>4 DEF OrderInv, Ordered, Ascending, Elements
    <2>6. overtakers[pk.id] = {}
      BY <1>2 DEF OrderInv, Promoted, Queued
    <2>7. /\ Len(Line) \in Nat /\ DOMAIN Line = 1 .. Len(Line) /\ DOMAIN Line' = 1 .. Len(Line) + 1
          /\ Line'[Len(Line) + 1] = pk /\ \A k \in 1 .. Len(Line) : Line'[k] = Line[k]
      BY <2>1, <1>1, <1>3, AppendProperties, LenProperties
    <2>8. ASSUME NEW k \in DOMAIN Line', overtakers[Line'[k].id] # {}, NEW j \in 1 .. k - 1
          PROVE  Line'[j].id \in overtakers[Line'[k].id]
      <3>1. k \in DOMAIN Line
        BY <2>6, <2>7, <2>8
      <3>2. Line'[k] = Line[k] /\ Line'[j] = Line[j]
        BY <2>7, <3>1
      <3> QED
        BY <2>8, <3>1, <3>2 DEF OrderInv, Promoted
    <2>9. Promoted'
      BY <2>1, <2>8, <1>1, <1>6 DEF OrderInv, Promoted, Elements
    <2> QED
      BY <1>7, <1>8, <2>2, <2>5, <2>9 DEF OrderInv
  <1>10. CASE pk.class # "Urgent"
    <2>1. /\ Line' = Line
          /\ \/ /\ pk.class = "High" /\ high' = Append(high, pk) /\ normal' = normal
                /\ Elements(high') = Elements(high) \cup {pk} /\ Ascending(high')
             \/ /\ pk.class = "Normal" /\ normal' = Append(normal, pk) /\ high' = high
                /\ Elements(normal') = Elements(normal) \cup {pk} /\ Ascending(normal')
      <3>1. CASE pk.class = "High"
        BY <3>1, <1>1, <1>11
      <3>2. CASE pk.class = "Normal"
        BY <3>2, <1>1, <1>11
      <3> QED
        BY <3>1, <3>2, <1>1, <1>10
    <2>2. Classed'
      BY <2>1 DEF OrderInv, Classed, Elements
    <2>3. /\ Elements(high') \cup Elements(normal') = (Elements(high) \cup Elements(normal)) \cup {pk}
          /\ Elements(Line') = Elements(Line)
      BY <2>1 DEF Elements
    <2>4. Before(Elements(Line'), Elements(high') \cup Elements(normal'))
      BY <2>3, <1>4 DEF OrderInv, Ordered, Before
    <2>5. Ordered'
      BY <2>1, <2>4 DEF OrderInv, Ordered, Ascending, Elements
    <2>6. Promoted'
      BY <2>1, <2>3, <1>1, <1>6 DEF OrderInv, Promoted, Elements
    <2> QED
      BY <1>7, <1>8, <2>2, <2>5, <2>6 DEF OrderInv
  <1> QED
    BY <1>9, <1>10

\* A packet that the scheduler takes from the high or the normal queue stands behind those
\* of its source in the line and before those left in the queue.
LEMMA PopOrder ==
  ASSUME TypeOK, TypeOK', OrderInv, SchedulerPop, sched' = "inject", urgent = <<>>
  PROVE  OrderInv'
PROOF
  <1>1. PICK pk \in Packets :
          /\ Joins(pk) /\ pk \in Elements(high) \cup Elements(normal)
          /\ \/ high # <<>> /\ pk = Head(high) /\ high' = Tail(high) /\ UNCHANGED normal
             \/ normal # <<>> /\ pk = Head(normal) /\ normal' = Tail(normal) /\ UNCHANGED high
    BY PopLine, ElementsTail DEF TypeOK
  <1>2. Line \in Seq(Packets) /\ high \in Seq(Packets) /\ normal \in Seq(Packets)
    BY LineType DEF TypeOK
  <1>3. /\ UNCHANGED <<stamped, overtakers, Entering>>
        /\ \A p \in Entering : mailbox'[p].pk = mailbox[p].pk
    BY DEF SchedulerPop, Entering
  <1>4. /\ pk \in Queued /\ pk \notin Elements(Line) /\ overtakers[pk.id] = {}
        /\ Before(Elements(Line), {pk})
    <2>1. pk \in Queued /\ pk \in Everything
      BY <1>1 DEF Queued, Everything
    <2>2. pk \notin Elements(Line)
      BY <1>1, OnePlace
    <2>3. overtakers[pk.id] = {}
      BY <2>1, <2>2 DEF OrderInv, Promoted
    <2>4. Before(Elements(Line), {pk})
      BY <1>1 DEF OrderInv, Ordered, Before
    <2> QED
      BY <2>1, <2>2, <2>3, <2>4
  <1>5. /\ Elements(high') \cup Elements(normal') \subseteq Elements(high) \cup Elements(normal)
        /\ Elements(high') \subseteq Elements(high) /\ Elements(normal') \subseteq Elements(normal)
        /\ Elements(high) \cup Elements(normal) = Elements(high') \cup Elements(normal') \cup {pk}
        /\ Ascending(high') /\ Ascending(normal')
        /\ Before({pk}, Elements(high') \cup Elements(normal'))
    <2>1. CASE high # <<>> /\ pk = Head(high) /\ high' = Tail(high) /\ UNCHANGED normal
      <3>1. /\ Elements(high) = {pk} \cup Elements(high') /\ Ascending(high')
            /\ Before({pk}, Elements(high'))
        BY <1>2, <2>1, ElementsTail DEF OrderInv, Ordered
      <3>2. Before({pk}, Elements(normal))
        BY <2>1, <3>1 DEF OrderInv, Classed, Before, SameSource
      <3> QED
        BY <2>1, <3>1, <3>2 DEF OrderInv, Ordered, Before
    <2>2. CASE normal # <<>> /\ pk = Head(normal) /\ normal' = Tail(normal) /\ UNCHANGED high
      <3>1. /\ Elements(normal) = {pk} \cup Elements(normal') /\ Ascending(normal')
            /\ Before({pk}, Elements(normal'))
        BY <1>2, <2>2, ElementsTail DEF OrderInv, Ordered
      <3>2. Before({pk}, Elements(high))
        BY <2>2, <3>1 DEF OrderInv, Classed, Before, SameSource
      <3> QED
        BY <2>2, <3>1, <3>2 DEF OrderInv, Ordered, Before
    <2> QED
      BY <1>1, <2>1, <2>2
  <1>6. /\ Line' = Append(Line, pk) /\ Elements(Line') = Elements(Line) \cup {pk}
        /\ Ascending(Line')
    BY <1>1, <1>2, <1>4, ElementsAppend DEF Joins, OrderInv, Ordered
  <1>7. Queued' = Queued /\ Everything' = Everything
    <2>1. Queued' = Elements(Line') \cup Elements(high') \cup Elements(normal')
      BY DEF Queued, Elements
    <2>2. Queued' = Queued
      BY <2>1, <1>5, <1>6 DEF Queued
    <2> QED
      BY <2>2, <1>3 DEF Everything
  <1>8. Entered' /\ Numbered'
    BY <1>3, <1>7 DEF OrderInv, Entered, Numbered
  <1>9. Classed'
    <2>1. \A qk \in Elements(high') : qk.class = "High"
      BY <1>5 DEF OrderInv, Classed
    <2>2. \A qk \in Elements(normal') : qk.class = "Normal"
      BY <1>5 DEF OrderInv, Classed
    <2> QED
      BY <2>1, <2>2 DEF Classed, Elements
  <1>10. Ordered'
    <2>1. Before(Elements(Line'), Elements(high') \cup Elements(normal'))
      BY <1>5, <1>6 DEF OrderInv, Ordered, Before
    <2> QED
      BY <2>1, <1>5, <1>6 DEF Ordered, Ascending, Before, Elements
  <1>11. Promoted'
    <2>1. /\ Len(Line) \in Nat /\ DOMAIN Line = 1 .. Len(Line) /\ DOMAIN Line' = 1 .. Len(Line) + 1
          /\ Line'[Len(Line) + 1] = pk /\ \A k \in 1 .. Len(Line) : Line'[k] = Line[k]
      BY <1>2, <1>6, AppendProperties, LenProperties
    <2>2. ASSUME NEW k \in DOMAIN Line', overtakers[Line'[k].id] # {}, NEW j \in 1 .. k - 1
          PROVE  Line'[j].id \in overtakers[Line'[k].id]
      <3>1. k \in DOMAIN Line
        BY <1>4, <2>1, <2>2
      <3>2. Line'[k] = Line[k] /\ Line'[j] = Line[j]
        BY <2>1, <3>1
      <3> QED
        BY <2>2, <3>1, <3>2 DEF OrderInv, Promoted
    <2>3. \A qk \in Everything \ Elements(Line') : overtakers[qk.id] = {}
      BY <1>6 DEF OrderInv, Promoted
    <2> QED
      BY <2>2, <2>3, <1>3, <1>7 DEF OrderInv, Promoted, Elements
  <1> QED
    BY <1>8, <1>9, <1>10, <1>11 DEF OrderInv

\* An aging pass sends the due packets to the end of the line, behind all that was there
\* and before the younger ones of their source.
LEMMA AgingOrder ==
  ASSUME TypeOK, TypeOK', OrderInv, AgingPass
  PROVE  OrderInv'
PROOF
  <1>1. /\ Starved \in Seq(Packets) /\ Line' = Line \o Starved
        /\ Elements(Starved) = {pk \in Elements(high) \cup Elements(normal) : Due(pk)}
        /\ Elements(high') = {pk \in Elements(high) : ~Due(pk)}
        /\ Elements(normal') = {pk \in Elements(normal) : ~Due(pk)}
        /\ Ascending(high') /\ Ascending(normal')
    BY AgingLine DEF OrderInv, Ordered
  <1>2. UNCHANGED <<stamped, Entering, mailbox>>
    BY DEF AgingPass, Entering
  <1>3. Ascending(Starved)
    <2> DEFINE n == Kept(normal, DueIn(normal))
               h == Kept(high, DueIn(high))
    <2>1. /\ n \in Seq(Packets) /\ h \in Seq(Packets) /\ Ascending(n) /\ Ascending(h)
          /\ Elements(n) \subseteq Elements(normal) /\ Elements(h) \subseteq Elements(high)
      BY AgingLine, KeptType DEF OrderInv, Ordered, TypeOK
    <2>2. Starved = n \o h
      BY DEF Starved
    <2> HIDE DEF n, h
    <2>3. Before(Elements(n), Elements(h))
      BY <2>1 DEF OrderInv, Classed, Before, SameSource
    <2> QED
      BY <2>1, <2>2, <2>3, ElementsConcat
  <1>4. Before(Elements(Line), Elements(Starved))
    BY <1>1 DEF OrderInv, Ordered, Before
  <1>5. Elements(Line') = Elements(Line) \cup Elements(Starved) /\ Ascending(Line')
    BY <1>1, <1>3, <1>4, LineType, ElementsConcat DEF OrderInv, Ordered
  <1>6. Queued' = Queued /\ Everything' = Everything
    <2>1. Queued' = Elements(Line') \cup Elements(high') \cup Elements(normal')
      BY DEF Queued, Elements
    <2>2. Queued' = Queued
      BY <2>1, <1>1, <1>5 DEF Queued
    <2> QED
      BY <2>2, <1>2 DEF Everything
  <1>7. Entered' /\ Numbered'
    BY <1>2, <1>6 DEF OrderInv, Entered, Numbered
  <1>8. Classed'
    <2>1. \A qk \in Elements(high') : qk.class = "High"
      BY <1>1 DEF OrderInv, Classed
    <2>2. \A qk \in Elements(normal') : qk.class = "Normal"
      BY <1>1 DEF OrderInv, Classed
    <2> QED
      BY <2>1, <2>2 DEF Classed, Elements
  <1>9. Ordered'
    <2>1. ASSUME NEW pk \in Elements(Starved), NEW qk \in Elements(high') \cup Elements(normal'),
                 SameSource(pk, qk)
          PROVE  pk.id < qk.id
      <3>1. pk.class = qk.class /\ Due(pk) /\ ~Due(qk) /\ qk.class \in Aging
        BY <1>1, <2>1 DEF SameSource, OrderInv, Classed, Aging
      <3>2. pk.id \in Nat /\ qk.id \in Nat /\ age[qk.class] \in Nat
        <4>1. pk \in Everything /\ qk \in Everything
          BY <1>1 DEF Everything, Queued
        <4> QED
          <5>1. pk.id \in 1 .. MaxMessages /\ qk.id \in 1 .. MaxMessages
            BY <4>1, EverythingType DEF OrderInv
          <5>2. age[qk.class] \in 0 .. MaxMessages
            BY <3>1 DEF TypeOK
          <5> QED
            BY <5>1, <5>2, PriorityAssumption
      <3> QED
        BY <3>1, <3>2 DEF Due
    <2>2. Before(Elements(Line'), Elements(high') \cup Elements(normal'))
      BY <2>1, <1>1, <1>5 DEF OrderInv, Ordered, Before
    <2> QED
      BY <2>2, <1>1, <1>5 DEF Ordered, Ascending, Before, Elements
  <1>10. Promoted'
    <2> DEFINE ahead == {pk.id : pk \in Elements(injected \o InHook)}
               starved(m) == \E pk \in Elements(Starved) : pk.id = m
    <2>1. overtakers' = [m \in 1 .. MaxMessages |-> IF starved(m) THEN ahead ELSE overtakers[m]]
      BY DEF AgingPass
    <2>2. ahead = {pk.id : pk \in Queued}
      <3>1. /\ Holding \in Seq(Packets) /\ urgent \in Seq(Packets) /\ high \in Seq(Packets)
            /\ normal \in Seq(Packets) /\ injected \in Seq(Packets)
        BY LineType DEF TypeOK
      <3>3. /\ InHook \in Seq(Packets)
            /\ Elements(InHook) = Elements(Holding) \cup Elements(urgent) \cup Elements(high) \cup Elements(normal)
        <4>1. InHook = Holding \o urgent \o high \o normal
          BY DEF InHook, Holding
        <4> QED
          BY <3>1, <4>1, ElementsOfFour
      <3>4. Elements(injected \o InHook) = Elements(injected) \cup Elements(InHook)
        BY <3>1, <3>3, ElementsConcat
      <3>5. Elements(Line) = Elements(injected) \cup Elements(Holding) \cup Elements(urgent)
        <4>1. /\ injected \o Holding \in Seq(Packets)
              /\ Elements(injected \o Holding) = Elements(injected) \cup Elements(Holding)
          BY <3>1, ElementsConcat
        <4> DEFINE a == injected \o Holding
        <4> HIDE DEF a
        <4>2. Elements(a \o urgent) = Elements(a) \cup Elements(urgent)
          BY <3>1, <4>1, ElementsConcat DEF a
        <4> QED
          BY <4>1, <4>2 DEF a, Line
      <3> QED
        BY <3>3, <3>4, <3>5 DEF Queued
    <2> HIDE DEF ahead
    <2>3. \A pk \in Everything : pk.id \in 1 .. MaxMessages /\ pk.id <= stamped
      BY EverythingType DEF OrderInv, Numbered
    <2>4. \A pk \in Everything : pk \notin Elements(Starved) => ~ starved(pk.id)
      BY <1>1 DEF OrderInv, Numbered, Everything, Queued
    <2>5. ahead \subseteq 1 .. MaxMessages
      BY <2>2, <2>3 DEF Everything
    <2>6. overtakers' \in [1 .. MaxMessages -> SUBSET (1 .. MaxMessages)]
      <3> HIDE DEF starved
      <3> QED
        BY <2>1, <2>5 DEF OrderInv, Promoted
    <2>7. ASSUME NEW k \in DOMAIN Line', overtakers'[Line'[k].id] # {}, NEW j \in 1 .. k - 1
          PROVE  Line'[j].id \in overtakers'[Line'[k].id]
      <3>1. Line' \in Seq(Packets) /\ DOMAIN Line' = 1 .. Len(Line')
        BY <1>1, LineType, ConcatProperties, LenProperties
      <3>2. j \in DOMAIN Line' /\ Line'[j] \in Queued /\ Line'[k] \in Queued
        <4>1. j \in DOMAIN Line' /\ Line'[j] \in Elements(Line') /\ Line'[k] \in Elements(Line')
          BY <3>1 DEF Elements
        <4>2. Elements(Line') \subseteq Queued
          BY <1>1, <1>5 DEF Queued
        <4> QED
          BY <4>1, <4>2
      <3>3. CASE Line'[k] \in Elements(Starved)
        <4>1. starved(Line'[k].id) /\ Line'[k].id \in 1 .. MaxMessages
          BY <3>2, <3>3, <2>3 DEF Everything
        <4>2. overtakers'[Line'[k].id] = ahead
          BY <2>1, <4>1
        <4> QED
          BY <3>2, <4>2, <2>2
      <3>4. CASE Line'[k] \notin Elements(Starved)
        <4>1. overtakers'[Line'[k].id] = overtakers[Line'[k].id]
          BY <2>1, <2>3, <2>4, <3>2, <3>4 DEF Everything
        <4>2. /\ Len(Line) \in Nat /\ DOMAIN Line = 1 .. Len(Line) /\ Len(Starved) \in Nat
              /\ Len(Line') = Len(Line) + Len(Starved) /\ DOMAIN Starved = 1 .. Len(Starved)
              /\ \A i \in 1 .. Len(Line) + Len(Starved) :
                    Line'[i] = IF i <= Len(Line) THEN Line[i] ELSE Starved[i - Len(Line)]
          BY <1>1, LineType, ConcatProperties, LenProperties
        <4>3. k \in DOMAIN Line
          <5> SUFFICES ASSUME k > Len(Line) PROVE FALSE
            BY <4>2, <3>1
          <5>1. Line'[k] = Starved[k - Len(Line)] /\ k - Len(Line) \in DOMAIN Starved
            BY <4>2, <3>1
          <5> QED
            BY <5>1, <3>4 DEF Elements
        <4>4. Line'[k] = Line[k] /\ Line'[j] = Line[j]
          BY <4>2, <4>3
        <4> QED
          BY <2>7, <4>1, <4>3, <4>4 DEF OrderInv, Promoted
      <3> QED
        BY <3>3, <3>4
    <2>8. ASSUME NEW pk \in Everything \ Elements(Line') PROVE overtakers'[pk.id] = {}
      BY <2>1, <2>3, <2>4, <1>5 DEF OrderInv, Promoted
    <2>9. ASSUME NEW m \in 1 .. MaxMessages, m > stamped PROVE overtakers'[m] = {}
      <3>1. ~ starved(m)
        <4>1. \A pk \in Elements(Starved) : pk.id <= stamped
          BY <1>1, <2>3 DEF Everything, Queued
        <4>2. stamped \in Nat
          BY PriorityAssumption DEF TypeOK
        <4> QED
          BY <4>1, <4>2, <2>9
      <3> QED
        BY <2>1, <2>9, <3>1 DEF OrderInv, Promoted
    <2> QED
      BY <2>6, <2>7, <2>8, <2>9, <1>2, <1>6 DEF Promoted, Elements
  <1> QED
    BY <1>7, <1>8, <1>9, <1>10 DEF OrderInv

\* Every step of the hook keeps the order.
LEMMA OrderStep ==
  ASSUME TypeOK, TypeOK', Launched, OrderInv, [Next]_vars
  PROVE  OrderInv'
PROOF
  <1>1. ASSUME UNCHANGED <<queues, injected, held, mailbox, stamped, overtakers>>,
               sched' = "inject" <=> sched = "inject"
        PROVE  OrderInv'
    <2>1. Still
      BY <1>1 DEF Still, Line, Holding, Entering, queues
    <2> QED
      BY <2>1, StillOrder
  <1>2. ASSUME NEW f \in DOMAIN setup, Prepare(f) PROVE OrderInv'
    BY <1>1, <1>2 DEF Prepare
  <1>3. ASSUME NEW f \in DOMAIN setup, MaybeStart(f) PROVE OrderInv'
    BY <1>1, <1>3 DEF MaybeStart, LaunchOnce, Launched
  <1>4. ASSUME NEW p \in Publishers, NEW c \in Classes, ReadClock(p, c) PROVE OrderInv'
    BY <1>4, ReadClockOrder
  <1>5. ASSUME NEW p \in Publishers, Enqueue(p) PROVE OrderInv'
    BY <1>5, EnqueueOrder
  <1>6. ASSUME NEW p \in Publishers, Signal(p) PROVE OrderInv'
    <2>1. Entering' = Entering /\ \A q \in Entering : mailbox'[q].pk = mailbox[q].pk
      BY <1>6 DEF Signal, Entering, TypeOK
    <2>2. UNCHANGED <<queues, injected, held, stamped, overtakers>> /\ (sched' = "inject" <=> sched = "inject")
      BY <1>6 DEF Signal, Woken
    <2>3. Still
      BY <2>1, <2>2 DEF Still, Line, Holding, queues
    <2> QED
      BY <2>3, StillOrder
  <1>7. CASE SchedulerCheck \/ SchedulerWait
    BY <1>1, <1>7 DEF SchedulerCheck, SchedulerWait
  <1>8. CASE SchedulerPop \/ SchedulerInject
    <2>1. CASE SchedulerPop /\ sched' = "inject" /\ urgent = <<>>
      BY <2>1, PopOrder
    <2>2. CASE ~ (SchedulerPop /\ sched' = "inject" /\ urgent = <<>>)
      <3>1. Still
        BY <1>8, <2>2, SchedulerLine
      <3> QED
        BY <3>1, StillOrder
    <2> QED
      BY <2>1, <2>2
  <1>9. CASE AgingTick \/ AgingReturn
    BY <1>1, <1>9 DEF AgingTick, AgingReturn
  <1>10. CASE AgingPass
    BY <1>10, AgingOrder
  <1>11. CASE CloseStop \/ Broadcast
    BY <1>1, <1>11 DEF CloseStop, Broadcast, Woken
  <1>12. CASE UNCHANGED vars
    BY <1>1, <1>12 DEF vars
  <1> QED
    BY <1>2, <1>3, <1>4, <1>5, <1>6, <1>7, <1>8, <1>9, <1>10, <1>11, <1>12
    DEF Next, Scheduler, Ager

-----------------------------------------------------------------------------
(* The theorems.                                                            *)

\* The inductive invariant.
IInv == TypeOK /\ Launched /\ StartedOnce /\ EmptyToWait /\ NoSleepOnWork /\ OrderInv

\* Before Init and SetOpts there are neither goroutines nor packets.
LEMMA InitIInv == Init => IInv
PROOF
  <1> SUFFICES ASSUME Init PROVE IInv
    OBVIOUS
  <1> USE PriorityAssumption DEF Init
  <1>1. TypeOK
    <2>1. /\ urgent \in Seq(Packets) /\ high \in Seq(Packets) /\ normal \in Seq(Packets)
          /\ injected \in Seq(Packets)
      BY EmptySeq
    <2>2. mailbox \in [Publishers -> [pc : {"idle", "lock", "signal"}, pk : Packets \cup {NoPacket}]]
      OBVIOUS
    <2>3. age \in [Aging -> 0 .. MaxMessages]
      OBVIOUS
    <2>4. setup \in [{"Init", "SetOpts"} -> {"assign", "flag", "maybeStart", "done"}]
      OBVIOUS
    <2>5. held \in IF sched = "inject" THEN Packets ELSE {NoPacket}
      OBVIOUS
    <2>6. sched = "off" /\ aging = "off" /\ stop = "open" /\ launches \in Nat
      OBVIOUS
    <2>7. stamped \in 0 .. MaxMessages
      OBVIOUS
    <2>8. started \in BOOLEAN
      BY Zenon
    <2> HIDE DEF Init
    <2> QED
      BY <2>1, <2>2, <2>3, <2>4, <2>5, <2>6, <2>7, <2>8 DEF TypeOK
  <1>2. Launched /\ StartedOnce /\ EmptyToWait /\ NoSleepOnWork
    BY DEF Launched, StartedOnce, EmptyToWait, NoSleepOnWork, Ready
  <1>3. Line = <<>>
    <2>1. injected = <<>> /\ Holding = <<>> /\ urgent = <<>> /\ <<>> \in Seq(Packets)
      BY EmptySeq DEF Holding
    <2> QED
      BY <2>1, ConcatEmptySeq DEF Line
  <1>4. /\ DOMAIN Line = {} /\ Elements(Line) = {} /\ Elements(high) = {} /\ Elements(normal) = {}
        /\ DOMAIN high = {} /\ DOMAIN normal = {}
    BY <1>3 DEF Elements
  <1>5. Entering = {} /\ Queued = {} /\ Everything = {}
    BY <1>4 DEF Entering, Queued, Everything
  <1>6. OrderInv
    <2>1. Entered /\ Classed /\ Numbered
      BY <1>4, <1>5 DEF Entered, Classed, Numbered
    <2>2. Ordered
      BY <1>4 DEF Ordered, Ascending, Before
    <2>3. Promoted
      BY <1>4, <1>5 DEF Promoted
    <2> QED
      BY <2>1, <2>2, <2>3 DEF OrderInv
  <1> QED
    BY <1>1, <1>2, <1>6 DEF IInv

\* Every step keeps the invariant.
LEMMA StepIInv == IInv /\ [Next]_vars => IInv'
PROOF
  <1> SUFFICES ASSUME IInv, [Next]_vars PROVE IInv'
    OBVIOUS
  <1> USE DEF IInv
  <1>1. TypeOK'
    BY TypeStep DEF OrderInv
  <1>2. Launched' /\ StartedOnce'
    BY LaunchedStep
  <1>3. EmptyToWait' /\ NoSleepOnWork'
    BY SleepStep
  <1>4. OrderInv'
    BY <1>1, OrderStep
  <1> QED
    BY <1>1, <1>2, <1>3, <1>4

\* The inductive invariant holds throughout.
THEOREM Invariant == Spec => []IInv
PROOF
  <1> QED
    BY InitIInv, StepIInv, PTL DEF Spec

\* Every variable of the hook keeps its type; the scheduler has a packet in hand exactly
\* while it injects one (schedulerLoop).
THEOREM TypeCorrect == Spec => []TypeOK
PROOF
  <1>1. IInv => TypeOK
    BY DEF IInv
  <1> QED
    BY <1>1, Invariant, PTL

\* However Init and SetOpts interleave, the later of them launches the goroutines, once
\* (maybeStart).
THEOREM LaunchedOnce == Spec => []StartedOnce
PROOF
  <1>1. IInv => StartedOnce
    BY DEF IInv
  <1> QED
    BY <1>1, Invariant, PTL

\* Signalling after the mutex is released loses no wake-up: a scheduler that sleeps while a
\* packet is queued is about to be signalled (OnPublish, schedulerLoop, agingLoop).
THEOREM NoLostWakeup == Spec => []NoSleepOnWork
PROOF
  <1>1. IInv => NoSleepOnWork
    BY DEF IInv
  <1> QED
    BY <1>1, Invariant, PTL

\* A packet that an aging pass has promoted is overtaken by packets only that were in the
\* hook by then, whatever comes later (agingLoop).
THEOREM NoStarvation == Spec => []AgedFirst
PROOF
  <1>1. IInv => AgedFirst
    <2> SUFFICES ASSUME IInv, NEW k \in DOMAIN injected, overtakers[injected[k].id] # {},
                        NEW j \in 1 .. k - 1
                 PROVE  injected[j].id \in overtakers[injected[k].id]
      BY DEF AgedFirst
    <2>1. /\ injected \in Seq(Packets) /\ Holding \o urgent \in Seq(Packets)
          /\ Line = injected \o (Holding \o urgent)
      <3>1. injected \in Seq(Packets) /\ Holding \in Seq(Packets) /\ urgent \in Seq(Packets)
        BY LineType DEF IInv, TypeOK
      <3>2. (injected \o Holding) \o urgent = injected \o (Holding \o urgent)
        BY <3>1, ConcatAssociative
      <3> QED
        BY <3>1, <3>2, ConcatProperties DEF Line
    <2> DEFINE rest == Holding \o urgent
    <2> HIDE DEF rest
    <2>2. /\ Len(injected) \in Nat /\ DOMAIN injected = 1 .. Len(injected) /\ Len(rest) \in Nat
          /\ DOMAIN Line = 1 .. Len(injected) + Len(rest)
          /\ \A i \in 1 .. Len(injected) + Len(rest) :
                Line[i] = IF i <= Len(injected) THEN injected[i] ELSE rest[i - Len(injected)]
      BY <2>1, ConcatProperties, LenProperties DEF rest
    <2>3. k \in DOMAIN Line /\ Line[k] = injected[k] /\ Line[j] = injected[j]
      BY <2>2
    <2> QED
      BY <2>3 DEF IInv, OrderInv, Promoted
  <1> QED
    BY <1>1, Invariant, PTL

-----------------------------------------------------------------------------
(* The hook implements one channel per publisher and class.                 *)

\* A member of the set is the one of its rank.
LEMMA NthOfRank ==
  ASSUME NEW K \in SUBSET Nat, IsFiniteSet(K), NEW k \in 1 .. Cardinality(K),
         NEW i \in K, Cardinality({x \in K : x < i}) = k - 1
  PROVE  Nth(K, k) = i
PROOF
  <1> DEFINE j == Nth(K, k)
  <1>1. j \in K /\ Cardinality({x \in K : x < j}) = k - 1
    BY NthRank
  <1> HIDE DEF j
  <1>2. k - 1 \in Nat /\ i \in Nat /\ j \in Nat
    BY <1>1, FS_CardinalityType
  <1>3. ~ (i < j)
    <2> SUFFICES ASSUME i < j PROVE FALSE
      OBVIOUS
    <2>1. Cardinality({x \in K : x < i}) < Cardinality({x \in K : x < j})
      BY <1>1, RankGrows
    <2> QED
      BY <2>1, <1>1, <1>2
  <1>4. ~ (j < i)
    <2> SUFFICES ASSUME j < i PROVE FALSE
      OBVIOUS
    <2>1. Cardinality({x \in K : x < j}) < Cardinality({x \in K : x < i})
      BY <1>1, RankGrows
    <2> QED
      BY <2>1, <1>1, <1>2
  <1> QED
    BY <1>2, <1>3, <1>4 DEF j

\* A channel has a packet for each number.
LEMMA ChannelType ==
  ASSUME NEW K \in SUBSET (1 .. MaxMessages), NEW p \in Publishers, NEW c \in Classes
  PROVE  /\ Channel(K, p, c) \in Seq(Packets) /\ Len(Channel(K, p, c)) = Cardinality(K)
         /\ IsFiniteSet(K) /\ K \in SUBSET Nat /\ Cardinality(K) \in Nat
         /\ Elements(Channel(K, p, c)) = {[id |-> m, from |-> p, class |-> c] : m \in K}
PROOF
  <1> DEFINE t == Channel(K, p, c)
             n == Cardinality(K)
  <1>1. IsFiniteSet(K) /\ K \in SUBSET Nat /\ n \in Nat
    <2>1. IsFiniteSet(1 .. MaxMessages)
      BY PriorityAssumption, FS_Interval
    <2>2. IsFiniteSet(K)
      BY <2>1, FS_Subset
    <2>3. K \in SUBSET Nat
      BY PriorityAssumption
    <2> QED
      BY <2>2, <2>3, FS_CardinalityType
  <1>2. \A k \in 1 .. n : Nth(K, k) \in K
    BY <1>1, NthRank
  <1>3. DOMAIN t = 1 .. n /\ \A k \in 1 .. n : t[k] = [id |-> Nth(K, k), from |-> p, class |-> c]
    BY DEF Channel
  <1>4. t \in [1 .. n -> Packets]
    BY <1>2 DEF Channel, Packets
  <1>5. t \in Seq(Packets) /\ Len(t) = n
    <2>1. t \in Seq(Packets)
      BY <1>1, <1>4, SeqDef
    <2> QED
      BY <2>1, <1>1, <1>3, LenProperties
  <1>6. \A m \in K : \E k \in 1 .. n : Nth(K, k) = m
    BY <1>1, NthCovers
  <1> HIDE DEF t, n
  <1>7. Elements(t) = {[id |-> m, from |-> p, class |-> c] : m \in K}
    BY <1>2, <1>3, <1>6 DEF Elements
  <1> QED
    BY <1>1, <1>5, <1>7 DEF t, n

\* A packet with a greater number joins its channel at the end.
LEMMA ChannelAppend ==
  ASSUME NEW K \in SUBSET (1 .. MaxMessages), NEW p \in Publishers, NEW c \in Classes,
         NEW m \in 1 .. MaxMessages, \A x \in K : x < m
  PROVE  Channel(K \cup {m}, p, c) = Append(Channel(K, p, c), [id |-> m, from |-> p, class |-> c])
PROOF
  <1> DEFINE L == K \cup {m}
             n == Cardinality(K)
             pk == [id |-> m, from |-> p, class |-> c]
             s == Channel(K, p, c)
             t == Channel(L, p, c)
  <1>1. L \in SUBSET (1 .. MaxMessages)
    OBVIOUS
  <1>2. IsFiniteSet(K) /\ K \in SUBSET Nat /\ n \in Nat /\ s \in Seq(Packets) /\ Len(s) = n
    BY ChannelType
  <1>3. IsFiniteSet(L) /\ L \in SUBSET Nat /\ t \in Seq(Packets) /\ Len(t) = Cardinality(L)
    BY <1>1, ChannelType
  <1>4. m \notin K /\ m \in Nat
    BY PriorityAssumption
  <1>5. Cardinality(L) = n + 1
    BY <1>2, <1>4, FS_AddElement
  <1>6. \A k \in 1 .. n : Nth(L, k) = Nth(K, k)
    <2> SUFFICES ASSUME NEW k \in 1 .. n PROVE Nth(L, k) = Nth(K, k)
      OBVIOUS
    <2> DEFINE i == Nth(K, k)
    <2>1. i \in K /\ Cardinality({x \in K : x < i}) = k - 1
      BY <1>2, NthRank
    <2> HIDE DEF i
    <2>2. {x \in L : x < i} = {x \in K : x < i}
      <3>1. i < m /\ i \in Nat /\ m \in Nat
        BY <1>2, <1>4, <2>1
      <3> QED
        BY <3>1
    <2>3. k \in 1 .. Cardinality(L)
      BY <1>2, <1>5
    <2> HIDE DEF L
    <2>4. Nth(L, k) = i
      BY <1>3, <2>1, <2>2, <2>3, NthOfRank DEF L
    <2> QED
      BY <2>4 DEF i
  <1>7. Nth(L, n + 1) = m
    <2>1. {x \in L : x < m} = K
      <3>1. ~ (m < m)
        BY <1>4
      <3>2. \A x \in L : x < m <=> x \in K
        BY <3>1, <1>4
      <3> QED
        BY <3>2
    <2>2. n + 1 \in 1 .. Cardinality(L) /\ (n + 1) - 1 = n
      BY <1>2, <1>5
    <2>3. m \in L
      OBVIOUS
    <2> HIDE DEF L
    <2> QED
      BY <1>3, <2>1, <2>2, <2>3, NthOfRank
  <1>8. pk \in Packets
    BY DEF Packets
  <1> DEFINE u == Append(s, pk)
  <1>9. /\ u \in Seq(Packets) /\ Len(u) = n + 1 /\ u[n + 1] = pk
        /\ \A k \in 1 .. n : u[k] = s[k]
    <2> HIDE DEF s, pk
    <2> QED
      BY <1>2, <1>8, AppendProperties
  <1>10. \A k \in 1 .. n + 1 : t[k] = u[k]
    <2>1. \A k \in 1 .. n : s[k] = [id |-> Nth(K, k), from |-> p, class |-> c]
      BY DEF Channel
    <2>2. \A k \in 1 .. n + 1 : t[k] = [id |-> Nth(L, k), from |-> p, class |-> c]
      BY <1>5 DEF Channel
    <2>3. \A k \in 1 .. n + 1 : k \in 1 .. n \/ k = n + 1
      BY <1>2
    <2>4. n + 1 \in 1 .. n + 1 /\ \A k \in 1 .. n : k \in 1 .. n + 1
      BY <1>2
    <2> HIDE DEF t, u, s, L, n
    <2> QED
      BY <2>1, <2>2, <2>3, <2>4, <1>6, <1>7, <1>9 DEF pk
  <1> HIDE DEF t, u, n
  <1>11. t = u
    BY <1>3, <1>5, <1>9, <1>10, SeqEqual
  <1> QED
    BY <1>11 DEF t, u

\* The sequence s is x followed by t.
StartsWith(s, x, t) == s # <<>> /\ Head(s) = x /\ Tail(s) = t

\* The packet with the least number is the head of its channel.
LEMMA ChannelTail ==
  ASSUME NEW K \in SUBSET (1 .. MaxMessages), NEW p \in Publishers, NEW c \in Classes,
         NEW m \in K, \A x \in K \ {m} : m < x
  PROVE  StartsWith(Channel(K, p, c), [id |-> m, from |-> p, class |-> c], Channel(K \ {m}, p, c))
PROOF
  <1> DEFINE L == K \ {m}
             n == Cardinality(L)
             pk == [id |-> m, from |-> p, class |-> c]
             s == Channel(K, p, c)
             t == Channel(L, p, c)
  <1>1. L \in SUBSET (1 .. MaxMessages)
    OBVIOUS
  <1>2. IsFiniteSet(K) /\ K \in SUBSET Nat /\ s \in Seq(Packets) /\ Len(s) = Cardinality(K)
    BY ChannelType
  <1>3. IsFiniteSet(L) /\ L \in SUBSET Nat /\ n \in Nat /\ t \in Seq(Packets) /\ Len(t) = n
    BY <1>1, ChannelType
  <1>4. Cardinality(K) = n + 1
    <2>1. K = L \cup {m} /\ m \notin L
      OBVIOUS
    <2> HIDE DEF L
    <2> QED
      BY <1>3, <2>1, FS_AddElement
  <1>5. Nth(K, 1) = m
    <2>1. {x \in K : x < m} = {}
      <3>1. m \in Nat /\ \A x \in K : x \in Nat
        BY <1>2
      <3>2. \A x \in K : ~ (x < m)
        BY <3>1
      <3> QED
        BY <3>2
    <2>2. Cardinality({x \in K : x < m}) = 1 - 1
      BY <2>1, FS_EmptySet
    <2>3. 1 \in 1 .. Cardinality(K)
      BY <1>3, <1>4
    <2> QED
      BY <1>2, <2>2, <2>3, NthOfRank
  <1>6. \A k \in 1 .. n : Nth(K, k + 1) = Nth(L, k)
    <2> SUFFICES ASSUME NEW k \in 1 .. n PROVE Nth(K, k + 1) = Nth(L, k)
      OBVIOUS
    <2> DEFINE i == Nth(L, k)
               I == {x \in L : x < i}
    <2>1. i \in L /\ Cardinality(I) = k - 1
      BY <1>3, NthRank
    <2> HIDE DEF i
    <2>2. {x \in K : x < i} = I \cup {m} /\ m \notin I
      BY <1>2, <2>1
    <2>3. IsFiniteSet(I)
      BY <1>3, FS_Subset
    <2>4. Cardinality({x \in K : x < i}) = (k + 1) - 1
      <3> HIDE DEF I
      <3>1. Cardinality(I \cup {m}) = (k - 1) + 1
        BY <2>1, <2>2, <2>3, FS_AddElement
      <3> QED
        BY <3>1, <2>2
    <2>5. k + 1 \in 1 .. Cardinality(K)
      BY <1>3, <1>4
    <2>6. i \in K
      BY <2>1
    <2>7. Nth(K, k + 1) = i
      BY <1>2, <2>4, <2>5, <2>6, NthOfRank
    <2> QED
      BY <2>7 DEF i
  <1>7. \A k \in 1 .. n + 1 : s[k] = [id |-> Nth(K, k), from |-> p, class |-> c]
    BY <1>4 DEF Channel
  <1>8. \A k \in 1 .. n : t[k] = [id |-> Nth(L, k), from |-> p, class |-> c]
    BY DEF Channel
  <1> HIDE DEF s, t, L, n
  <1>9. Len(s) = n + 1
    BY <1>2, <1>4
  <1>10. s # <<>>
    BY <1>9, <1>3, <1>2, EmptySeq
  <1> DEFINE u == Tail(s)
  <1>11. /\ Head(s) = s[1] /\ u \in Seq(Packets) /\ Len(u) = n
         /\ \A k \in 1 .. n : u[k] = s[k + 1]
    <2>1. /\ u \in Seq(Packets) /\ Len(u) = Len(s) - 1
          /\ \A k \in 1 .. Len(u) : u[k] = s[k + 1]
      BY <1>2, <1>10, HeadTailProperties
    <2>2. Len(u) = n
      BY <2>1, <1>9, <1>3
    <2> HIDE DEF u
    <2> QED
      BY <2>1, <2>2
  <1> HIDE DEF u
  <1>12. 1 \in 1 .. n + 1 /\ \A k \in 1 .. n : k + 1 \in 1 .. n + 1
    BY <1>3
  <1>13. Head(s) = pk
    BY <1>5, <1>7, <1>11, <1>12
  <1>14. \A k \in 1 .. n : u[k] = t[k]
    BY <1>6, <1>7, <1>8, <1>11, <1>12
  <1>15. u = t
    BY <1>3, <1>11, <1>14, SeqEqual
  <1> QED
    BY <1>10, <1>13, <1>15 DEF StartsWith, s, t, u, L

\* The numbers of the packets of one publisher and class in a set of packets.
NumbersIn(H, p, c) == {pk.id : pk \in {q \in H : q.from = p /\ q.class = c}}

\* The channels that a set of packets in the hook stands for.
ChannelsIn(H) ==
  [pc \in Publishers \X Classes |-> Channel(NumbersIn(H, pc[1], pc[2]), pc[1], pc[2])]

\* A channel stands for the packets of its publisher and class, now and after a step.
LEMMA ChannelsAt ==
  Channels = ChannelsIn(Elements(InHook)) /\ Channels' = ChannelsIn(Elements(InHook'))
BY DEF Channels, ChannelsIn, NumbersIn, Elements

\* What is in the hook: packets, each given by its number, publisher and class.
LEMMA InHookType ==
  ASSUME TypeOK, OrderInv
  PROVE  /\ InHook \in Seq(Packets) /\ Elements(InHook) \subseteq Packets
         /\ Elements(InHook) = Elements(Holding) \cup Elements(urgent) \cup Elements(high) \cup Elements(normal)
         /\ Queued = Elements(injected) \cup Elements(InHook)
         /\ Elements(Line) = Elements(injected) \cup Elements(Holding) \cup Elements(urgent)
PROOF
  <1>1. /\ Holding \in Seq(Packets) /\ urgent \in Seq(Packets) /\ high \in Seq(Packets)
        /\ normal \in Seq(Packets) /\ injected \in Seq(Packets)
    BY LineType DEF TypeOK
  <1>2. InHook = Holding \o urgent \o high \o normal
    BY DEF InHook, Holding
  <1>3. /\ InHook \in Seq(Packets)
        /\ Elements(InHook) = Elements(Holding) \cup Elements(urgent) \cup Elements(high) \cup Elements(normal)
    BY <1>1, <1>2, ElementsOfFour
  <1>4. Elements(Line) = Elements(injected) \cup Elements(Holding) \cup Elements(urgent)
    <2>1. /\ injected \o Holding \in Seq(Packets)
          /\ Elements(injected \o Holding) = Elements(injected) \cup Elements(Holding)
      BY <1>1, ElementsConcat
    <2> DEFINE a == injected \o Holding
    <2> HIDE DEF a
    <2>2. Elements(a \o urgent) = Elements(a) \cup Elements(urgent)
      BY <1>1, <2>1, ElementsConcat DEF a
    <2> QED
      BY <2>1, <2>2 DEF a, Line
  <1>5. Queued = Elements(injected) \cup Elements(InHook)
    BY <1>3, <1>4 DEF Queued
  <1> QED
    BY <1>3, <1>4, <1>5, EverythingType DEF OrderInv

\* The numbers of a channel are those of packets that are in the set.
LEMMA NumbersType ==
  ASSUME NEW H \in SUBSET Packets, NEW p \in Publishers, NEW c \in Classes
  PROVE  /\ NumbersIn(H, p, c) \in SUBSET (1 .. MaxMessages)
         /\ \A m \in NumbersIn(H, p, c) : [id |-> m, from |-> p, class |-> c] \in H
BY DEF NumbersIn, Packets

\* One channel of a set of packets; what it holds are packets of the set.
LEMMA ChannelOf ==
  ASSUME NEW H \in SUBSET Packets, NEW p \in Publishers, NEW c \in Classes
  PROVE  /\ ChannelsIn(H)[<<p, c>>] = Channel(NumbersIn(H, p, c), p, c)
         /\ Elements(ChannelsIn(H)[<<p, c>>]) \subseteq H
PROOF
  <1>1. ChannelsIn(H)[<<p, c>>] = Channel(NumbersIn(H, p, c), p, c)
    BY DEF ChannelsIn
  <1> DEFINE N == NumbersIn(H, p, c)
             s == Channel(N, p, c)
  <1>2. N \in SUBSET (1 .. MaxMessages) /\ \A m \in N : [id |-> m, from |-> p, class |-> c] \in H
    BY NumbersType
  <1> HIDE DEF N
  <1>3. /\ DOMAIN s = 1 .. Cardinality(N)
        /\ \A k \in 1 .. Cardinality(N) : s[k] = [id |-> Nth(N, k), from |-> p, class |-> c] /\ Nth(N, k) \in N
    <2>1. IsFiniteSet(N) /\ N \in SUBSET Nat
      BY <1>2, ChannelType
    <2>2. \A k \in 1 .. Cardinality(N) : Nth(N, k) \in N
      BY <2>1, NthRank
    <2> QED
      BY <2>2 DEF Channel
  <1> HIDE DEF s
  <1>4. Elements(s) \subseteq H
    BY <1>2, <1>3 DEF Elements
  <1> QED
    BY <1>1, <1>4 DEF s, N

\* A packet with a greater number than its publisher's others goes to the end of its channel.
LEMMA ChannelsGrow ==
  ASSUME NEW H \in SUBSET Packets, NEW pk \in Packets,
         \A q \in H : q.from = pk.from => q.id < pk.id
  PROVE  ChannelsIn(H \cup {pk})
           = [ChannelsIn(H) EXCEPT ![<<pk.from, pk.class>>] = Append(@, pk)]
PROOF
  <1> DEFINE p == pk.from
             c == pk.class
             N == NumbersIn(H, p, c)
             G == H \cup {pk}
  <1>1. p \in Publishers /\ c \in Classes /\ pk.id \in 1 .. MaxMessages /\ pk = [id |-> pk.id, from |-> p, class |-> c]
    BY DEF Packets
  <1>2. N \in SUBSET (1 .. MaxMessages) /\ \A m \in N : m < pk.id
    <2>1. N \in SUBSET (1 .. MaxMessages) /\ \A m \in N : [id |-> m, from |-> p, class |-> c] \in H
      BY <1>1, NumbersType
    <2> QED
      BY <2>1
  <1>3. NumbersIn(G, p, c) = N \cup {pk.id}
    BY DEF NumbersIn
  <1>4. \A q \in Publishers, d \in Classes : <<q, d>> # <<p, c>> => NumbersIn(G, q, d) = NumbersIn(H, q, d)
    BY DEF NumbersIn
  <1> DEFINE i == pk.id
  <1>5. Channel(N \cup {i}, p, c) = Append(Channel(N, p, c), [id |-> i, from |-> p, class |-> c])
    <2>1. p \in Publishers /\ c \in Classes /\ i \in 1 .. MaxMessages
      BY <1>1
    <2> HIDE DEF p, c, i, N
    <2>2. \A m \in N : m < i
      BY <1>2 DEF i
    <2> QED
      BY <1>2, <2>1, <2>2, ChannelAppend
  <1>6. ChannelsIn(H)[<<p, c>>] = Channel(N, p, c)
    BY <1>1, ChannelOf
  <1>7. ChannelsIn(G)[<<p, c>>] = Append(ChannelsIn(H)[<<p, c>>], pk)
    <2>1. ChannelsIn(G)[<<p, c>>] = Channel(NumbersIn(G, p, c), p, c)
      BY <1>1, ChannelOf
    <2> HIDE DEF G, N, p, c
    <2> QED
      BY <1>1, <1>3, <1>5, <1>6, <2>1
  <1>8. \A pc \in Publishers \X Classes : pc # <<p, c>> => ChannelsIn(G)[pc] = ChannelsIn(H)[pc]
    <2> SUFFICES ASSUME NEW pc \in Publishers \X Classes, pc # <<p, c>>
                 PROVE  ChannelsIn(G)[pc] = ChannelsIn(H)[pc]
      OBVIOUS
    <2>1. pc[1] \in Publishers /\ pc[2] \in Classes /\ pc = <<pc[1], pc[2]>>
      OBVIOUS
    <2>2. NumbersIn(G, pc[1], pc[2]) = NumbersIn(H, pc[1], pc[2])
      BY <1>4, <2>1
    <2> HIDE DEF G
    <2> QED
      BY <2>2 DEF ChannelsIn
  <1>9. ChannelsIn(G) = [pc \in Publishers \X Classes |-> ChannelsIn(G)[pc]] /\ ChannelsIn(H) = [pc \in Publishers \X Classes |-> ChannelsIn(H)[pc]]
    BY DEF ChannelsIn
  <1> HIDE DEF G, p, c, N
  <1> QED
    BY <1>1, <1>7, <1>8, <1>9 DEF G, p, c

\* The packet with its channel's least number is its head, and leaves the rest of it.
LEMMA ChannelsShrink ==
  ASSUME NEW H \in SUBSET Packets, NEW pk \in H,
         \A q \in H \ {pk} : q.from = pk.from /\ q.class = pk.class => pk.id < q.id
  PROVE  /\ ChannelsIn(H)[<<pk.from, pk.class>>] # <<>>
         /\ Head(ChannelsIn(H)[<<pk.from, pk.class>>]) = pk
         /\ ChannelsIn(H \ {pk}) = [ChannelsIn(H) EXCEPT ![<<pk.from, pk.class>>] = Tail(@)]
PROOF
  <1> DEFINE p == pk.from
             c == pk.class
             i == pk.id
             N == NumbersIn(H, p, c)
             G == H \ {pk}
  <1>1. p \in Publishers /\ c \in Classes /\ i \in 1 .. MaxMessages /\ pk = [id |-> i, from |-> p, class |-> c]
    BY DEF Packets
  <1>2. N \in SUBSET (1 .. MaxMessages) /\ i \in N /\ \A m \in N \ {i} : i < m
    <2>1. N \in SUBSET (1 .. MaxMessages) /\ \A m \in N : [id |-> m, from |-> p, class |-> c] \in H
      BY <1>1, NumbersType
    <2>2. i \in N
      BY DEF NumbersIn
    <2>3. \A m \in N \ {i} : i < m
      <3> SUFFICES ASSUME NEW m \in N, m # i PROVE i < m
        OBVIOUS
      <3>1. PICK q \in H : q = [id |-> m, from |-> p, class |-> c]
        BY <2>1
      <3>2. q \in H \ {pk} /\ q.from = pk.from /\ q.class = pk.class /\ q.id = m
        BY <3>1
      <3> QED
        BY <3>2
    <2> QED
      BY <2>1, <2>2, <2>3
  <1>3. NumbersIn(G, p, c) = N \ {i}
    <2>1. \A q \in H : q.from = p /\ q.class = c /\ q.id = i => q = pk
      BY <1>1 DEF Packets
    <2> QED
      BY <2>1 DEF NumbersIn
  <1>4. \A q \in Publishers, d \in Classes : <<q, d>> # <<p, c>> => NumbersIn(G, q, d) = NumbersIn(H, q, d)
    BY DEF NumbersIn
  <1> DEFINE s == Channel(N, p, c)
  <1>5. s # <<>> /\ Head(s) = [id |-> i, from |-> p, class |-> c] /\ Tail(s) = Channel(N \ {i}, p, c)
    <2>1. p \in Publishers /\ c \in Classes
      BY <1>1
    <2> HIDE DEF p, c, i, N
    <2>2. \A x \in N \ {i} : i < x
      BY <1>2
    <2>3. N \in SUBSET (1 .. MaxMessages) /\ i \in N
      BY <1>2
    <2>4. StartsWith(Channel(N, p, c), [id |-> i, from |-> p, class |-> c], Channel(N \ {i}, p, c))
      BY <2>1, <2>2, <2>3, ChannelTail
    <2> HIDE DEF s
    <2> QED
      BY <2>4 DEF StartsWith, s
  <1>6. ChannelsIn(H)[<<p, c>>] = s
    BY <1>1, ChannelOf
  <1>7. ChannelsIn(G)[<<p, c>>] = Tail(s)
    <2>1. ChannelsIn(G)[<<p, c>>] = Channel(NumbersIn(G, p, c), p, c)
      BY <1>1, ChannelOf
    <2> HIDE DEF G, N, p, c, i
    <2> QED
      BY <1>3, <1>5, <2>1
  <1>8. \A pc \in Publishers \X Classes : pc # <<p, c>> => ChannelsIn(G)[pc] = ChannelsIn(H)[pc]
    <2> SUFFICES ASSUME NEW pc \in Publishers \X Classes, pc # <<p, c>>
                 PROVE  ChannelsIn(G)[pc] = ChannelsIn(H)[pc]
      OBVIOUS
    <2>1. pc[1] \in Publishers /\ pc[2] \in Classes /\ pc = <<pc[1], pc[2]>>
      OBVIOUS
    <2>2. NumbersIn(G, pc[1], pc[2]) = NumbersIn(H, pc[1], pc[2])
      BY <1>4, <2>1
    <2> HIDE DEF G
    <2> QED
      BY <2>2 DEF ChannelsIn
  <1>9. ChannelsIn(G) = [pc \in Publishers \X Classes |-> ChannelsIn(G)[pc]] /\ ChannelsIn(H) = [pc \in Publishers \X Classes |-> ChannelsIn(H)[pc]]
    BY DEF ChannelsIn
  <1> HIDE DEF G, s
  <1>10. ChannelsIn(G) = [ChannelsIn(H) EXCEPT ![<<p, c>>] = Tail(@)]
    <2> HIDE DEF p, c, N
    <2> QED
      BY <1>1, <1>6, <1>7, <1>8, <1>9
  <1> QED
    BY <1>1, <1>5, <1>6, <1>10 DEF G

\* A packet that enters is new and goes to the end of its channel.
LEMMA EnqueueAccepts ==
  ASSUME TypeOK, TypeOK', OrderInv, OrderInv', NEW p \in Publishers, Enqueue(p)
  PROVE  mailbox[p].pk \in Packets /\ Fifo!Accept(mailbox[p].pk)
PROOF
  <1> DEFINE pk == mailbox[p].pk
             c == pk.class
             H == Elements(InHook)
  <1>1. /\ pk \in Packets /\ pk.from = p /\ c \in Classes /\ pk.id \in 1 .. MaxMessages
        /\ p \in Entering /\ pk \notin Queued
        /\ \A qk \in Queued : qk.from = p => qk.id < pk.id
    BY OnePlace DEF Enqueue, Entering, Entered, OrderInv, Packets
  <1>2. /\ H \subseteq Packets /\ H \subseteq Queued /\ Elements(injected) \subseteq Queued
    BY InHookType
  <1> HIDE DEF pk
  <1>3. Elements(InHook') = H \cup {pk}
    <2>1. UNCHANGED <<injected, Holding>>
      BY DEF Enqueue, Holding
    <2>2. /\ urgent' = IF c = "Urgent" THEN Append(urgent, pk) ELSE urgent
          /\ high' = IF c = "High" THEN Append(high, pk) ELSE high
          /\ normal' = IF c = "Normal" THEN Append(normal, pk) ELSE normal
      BY DEF Enqueue, pk
    <2>3. \A s \in Seq(Packets) : Elements(Append(s, pk)) = Elements(s) \cup {pk}
      BY <1>1, ElementsAppend
    <2>4. /\ Elements(urgent') \cup Elements(high') \cup Elements(normal')
              = Elements(urgent) \cup Elements(high) \cup Elements(normal) \cup {pk}
      <3>1. urgent \in Seq(Packets) /\ high \in Seq(Packets) /\ normal \in Seq(Packets)
        BY DEF TypeOK
      <3>2. c = "Urgent" \/ c = "High" \/ c = "Normal"
        BY <1>1 DEF Classes
      <3> QED
        BY <2>2, <2>3, <3>1, <3>2
    <2>5. InHook' = Holding' \o urgent' \o high' \o normal'
      BY DEF InHook, Holding
    <2>6. Holding \in Seq(Packets) /\ urgent' \in Seq(Packets) /\ high' \in Seq(Packets) /\ normal' \in Seq(Packets)
      BY LineType DEF TypeOK
    <2>7. Elements(InHook') = Elements(Holding) \cup Elements(urgent') \cup Elements(high') \cup Elements(normal')
      BY <2>1, <2>5, <2>6, ElementsOfFour
    <2> QED
      BY <2>4, <2>7, InHookType
  <1> HIDE DEF H
  <1>4. Channels = ChannelsIn(H) /\ Channels' = ChannelsIn(H \cup {pk})
    BY <1>3, ChannelsAt DEF H
  <1>5. Channels' = [Channels EXCEPT ![<<p, c>>] = Append(@, pk)]
    BY <1>1, <1>2, <1>4, ChannelsGrow
  <1>6. Channels'[<<p, c>>] = Append(Channels[<<p, c>>], pk)
    BY <1>1, <1>4, <1>5 DEF ChannelsIn
  <1>7. pk \notin Fifo!Everything
    <2>1. \A q \in Publishers, d \in Classes : Elements(Channels[<<q, d>>]) \subseteq H
      BY <1>2, <1>4, ChannelOf
    <2>2. pk \notin Elements(injected)
      BY <1>1, <1>2
    <2>3. \A q \in Publishers, d \in Classes : pk \notin Elements(Channels[<<q, d>>])
      BY <2>1, <1>1, <1>2
    <2>4. \A pc \in Publishers \X Classes : pk \notin Elements(Channels[pc])
      BY <2>3
    <2>5. Fifo!Everything = Elements(injected) \cup UNION {Elements(Channels[pc]) : pc \in Publishers \X Classes}
      BY DEF Fifo!Everything, Elements
    <2> QED
      BY <2>2, <2>4, <2>5
  <1>8. UNCHANGED injected
    BY DEF Enqueue
  <1> QED
    BY <1>1, <1>5, <1>6, <1>7, <1>8 DEF Fifo!Accept, pk

\* The injected packet was the head of its channel.
LEMMA InjectDelivers ==
  ASSUME TypeOK, TypeOK', OrderInv, OrderInv', SchedulerInject
  PROVE  \E pc \in Publishers \X Classes : Fifo!Deliver(pc)
PROOF
  <1> DEFINE H == Elements(InHook)
             R == Elements(urgent) \cup Elements(high) \cup Elements(normal)
             pc == <<held.from, held.class>>
  <1>1. /\ held \in Packets /\ Holding = <<held>> /\ Holding' = <<>>
        /\ injected' = Append(injected, held) /\ UNCHANGED <<urgent, high, normal>>
    BY DEF SchedulerInject, TypeOK, Holding, queues
  <1>2. H \subseteq Packets /\ H = {held} \cup R
    <2>1. Elements(<<held>>) = {held}
      BY DEF Elements
    <2> QED
      BY <1>1, <2>1, InHookType
  <1>3. Elements(InHook') = R
    <2>1. Holding' \in Seq(Packets) /\ urgent' \in Seq(Packets) /\ high' \in Seq(Packets) /\ normal' \in Seq(Packets)
      BY <1>1, LineType DEF TypeOK
    <2>2. InHook' = Holding' \o urgent' \o high' \o normal'
      BY DEF InHook, Holding
    <2>3. Elements(InHook') = Elements(Holding') \cup Elements(urgent') \cup Elements(high') \cup Elements(normal')
      BY <2>1, <2>2, ElementsOfFour
    <2>4. Elements(Holding') = {}
      BY <1>1 DEF Elements
    <2> QED
      BY <2>3, <2>4, <1>1
  <1>4. \A q \in R : q.from = held.from /\ q.class = held.class => held.id < q.id
    <2> DEFINE f == Append(injected, held)
    <2>1. Line = f \o urgent
      BY LineShape DEF SchedulerInject
    <2>2. /\ f \in Seq(Packets) /\ Len(f) \in Nat /\ Len(f) \in DOMAIN f /\ f[Len(f)] = held
          /\ urgent \in Seq(Packets)
      <3>1. injected \in Seq(Packets) /\ urgent \in Seq(Packets) /\ Len(injected) \in Nat
        BY DEF TypeOK
      <3>2. f \in Seq(Packets) /\ Len(f) = Len(injected) + 1 /\ f[Len(injected) + 1] = held
        BY <1>1, <3>1, AppendProperties
      <3> HIDE DEF f
      <3> QED
        BY <3>1, <3>2
    <2> HIDE DEF f
    <2> DEFINE n == Len(f)
    <2>3. /\ DOMAIN Line = 1 .. n + Len(urgent) /\ DOMAIN urgent = 1 .. Len(urgent) /\ Len(urgent) \in Nat
          /\ n \in DOMAIN Line /\ Line[n] = held
          /\ \A i \in 1 .. Len(urgent) : n + i \in DOMAIN Line /\ n < n + i /\ Line[n + i] = urgent[i]
      <3>1. /\ Len(Line) = n + Len(urgent) /\ Line \in Seq(Packets)
            /\ \A i \in 1 .. n + Len(urgent) : Line[i] = IF i <= n THEN f[i] ELSE urgent[i - n]
        BY <2>1, <2>2, ConcatProperties
      <3>2. DOMAIN Line = 1 .. n + Len(urgent) /\ DOMAIN urgent = 1 .. Len(urgent) /\ Len(urgent) \in Nat /\ n \in 1 .. n
        BY <3>1, <2>2
      <3> HIDE DEF n
      <3>3. \A i \in 1 .. Len(urgent) : n + i \in 1 .. n + Len(urgent) /\ ~ (n + i <= n) /\ (n + i) - n = i /\ n < n + i
        BY <3>2, <2>2 DEF n
      <3> QED
        BY SMTT(30), <3>1, <3>2, <3>3, <2>2 DEF n
    <2>4. held \in Elements(Line)
      BY <2>3 DEF Elements
    <2>5. \A q \in Elements(urgent) : SameSource(held, q) => held.id < q.id
      <3> SUFFICES ASSUME NEW i \in DOMAIN urgent, SameSource(held, urgent[i]) PROVE held.id < urgent[i].id
        BY DEF Elements
      <3> QED
        BY <2>3 DEF OrderInv, Ordered, Ascending
    <2>6. \A q \in Elements(high) \cup Elements(normal) : SameSource(held, q) => held.id < q.id
      BY <2>4 DEF OrderInv, Ordered, Before
    <2> QED
      BY <2>5, <2>6 DEF SameSource
  <1>5. held \notin R
    BY <1>1, <1>4 DEF Packets
  <1>6. H \ {held} = R /\ held \in H
    BY <1>2, <1>5
  <1>7. Channels = ChannelsIn(H) /\ Channels' = ChannelsIn(H \ {held})
    BY <1>3, <1>6, ChannelsAt
  <1> HIDE DEF H, R
  <1>8. \A q \in H \ {held} : q.from = held.from /\ q.class = held.class => held.id < q.id
    BY <1>4, <1>6
  <1>9. /\ Channels[pc] # <<>> /\ Head(Channels[pc]) = held
        /\ Channels' = [Channels EXCEPT ![pc] = Tail(@)]
    BY <1>2, <1>6, <1>7, <1>8, ChannelsShrink
  <1>10. pc \in Publishers \X Classes
    BY <1>1 DEF Packets
  <1>11. Fifo!Deliver(pc)
    BY <1>1, <1>9 DEF Fifo!Deliver
  <1> QED
    BY <1>10, <1>11

\* Every other step leaves in the hook what was in it: the channels do not change.
LEMMA OthersStutter ==
  ASSUME TypeOK, TypeOK', OrderInv, OrderInv', Launched, [Next]_vars, ~SchedulerInject,
         \A p \in Publishers : ~Enqueue(p)
  PROVE  UNCHANGED <<Channels, injected>>
PROOF
  <1>1. SUFFICES Elements(InHook') = Elements(InHook) /\ UNCHANGED injected
    BY ChannelsAt
  <1>2. CASE UNCHANGED <<queues, held, injected>> /\ (sched' = "inject" <=> sched = "inject")
    <2>1. InHook' = InHook
      BY <1>2 DEF InHook, queues
    <2> QED
      BY <2>1, <1>2
  <1>3. CASE SchedulerPop
    <2>1. sched # "inject" /\ UNCHANGED injected
      BY <1>3 DEF SchedulerPop
    <2>2. CASE sched' # "inject"
      BY <1>2, <1>3, <2>1, <2>2 DEF SchedulerPop
    <2>3. CASE sched' = "inject"
      <3>1. /\ Holding = <<>> /\ Holding' = <<held'>>
            /\ urgent \in Seq(Packets) /\ high \in Seq(Packets) /\ normal \in Seq(Packets)
        BY <2>1, <2>3 DEF Holding, TypeOK
      <3>2. \/ urgent # <<>> /\ held' = Head(urgent) /\ urgent' = Tail(urgent) /\ UNCHANGED <<high, normal>>
            \/ high # <<>> /\ held' = Head(high) /\ high' = Tail(high) /\ UNCHANGED <<urgent, normal>>
            \/ normal # <<>> /\ held' = Head(normal) /\ normal' = Tail(normal) /\ UNCHANGED <<urgent, high>>
        BY <1>3, <2>3 DEF SchedulerPop, UrgentBeforeHigh, Empty
      <3>3. Elements(InHook) = Elements(urgent) \cup Elements(high) \cup Elements(normal)
        <4>1. Elements(<<>>) = {}
          BY DEF Elements
        <4> QED
          BY <3>1, <4>1, InHookType
      <3>4. Elements(InHook') = {held'} \cup Elements(urgent') \cup Elements(high') \cup Elements(normal')
        <4>1. Holding' \in Seq(Packets) /\ urgent' \in Seq(Packets) /\ high' \in Seq(Packets) /\ normal' \in Seq(Packets)
          BY <2>3, <3>1 DEF TypeOK
        <4>2. InHook' = Holding' \o urgent' \o high' \o normal'
          BY DEF InHook, Holding
        <4>3. Elements(InHook') = Elements(Holding') \cup Elements(urgent') \cup Elements(high') \cup Elements(normal')
          BY <4>1, <4>2, ElementsOfFour
        <4>4. Elements(Holding') = {held'}
          BY <3>1 DEF Elements
        <4> QED
          BY <4>3, <4>4
      <3>5. \A s \in Seq(Packets) : s # <<>> => Elements(s) = {Head(s)} \cup Elements(Tail(s))
        BY ElementsTail
      <3> QED
        BY <2>1, <3>1, <3>2, <3>3, <3>4, <3>5
    <2> QED
      BY <2>2, <2>3
  <1>4. CASE AgingPass
    <2>1. UNCHANGED <<held, injected>> /\ (sched' = "inject" <=> sched = "inject")
      BY <1>4 DEF AgingPass, Woken
    <2>2. Holding' = Holding
      BY <2>1 DEF Holding
    <2>3. urgent' = urgent \o Starved
      BY <1>4 DEF AgingPass, StarvedLast
    <2>4. Elements(urgent') = Elements(urgent) \cup Elements(Starved)
      BY <1>4, <2>3, AgingLine, ElementsConcat DEF TypeOK
    <2>5. Elements(urgent') \cup Elements(high') \cup Elements(normal')
            = Elements(urgent) \cup Elements(high) \cup Elements(normal)
      BY <1>4, <2>4, AgingLine
    <2>6. Holding' \in Seq(Packets) /\ urgent' \in Seq(Packets) /\ high' \in Seq(Packets) /\ normal' \in Seq(Packets)
      BY <2>2, LineType DEF TypeOK
    <2>7. InHook' = Holding' \o urgent' \o high' \o normal'
      BY DEF InHook, Holding
    <2>8. Elements(InHook') = Elements(Holding') \cup Elements(urgent') \cup Elements(high') \cup Elements(normal')
      BY <2>6, <2>7, ElementsOfFour
    <2> QED
      BY <2>1, <2>2, <2>5, <2>8, InHookType
  <1>5. CASE ~SchedulerPop /\ ~AgingPass
    <2> SUFFICES UNCHANGED <<queues, held, injected>> /\ (sched' = "inject" <=> sched = "inject")
      BY <1>2
    <2>1. ASSUME NEW f \in DOMAIN setup, Prepare(f) \/ MaybeStart(f)
          PROVE  UNCHANGED <<queues, held, injected>> /\ (sched' = "inject" <=> sched = "inject")
      BY <2>1 DEF Prepare, MaybeStart, LaunchOnce, Launched, queues
    <2>2. ASSUME NEW p \in Publishers, (\E c \in Classes : ReadClock(p, c)) \/ Signal(p)
          PROVE  UNCHANGED <<queues, held, injected>> /\ (sched' = "inject" <=> sched = "inject")
      BY <2>2 DEF ReadClock, Signal, Woken, queues
    <2>3. CASE SchedulerCheck \/ SchedulerWait
      BY <2>3 DEF SchedulerCheck, SchedulerWait, queues
    <2>4. CASE AgingTick \/ AgingReturn
      BY <2>4 DEF AgingTick, AgingReturn, queues
    <2>5. CASE CloseStop \/ Broadcast
      BY <2>5 DEF CloseStop, Broadcast, Woken, queues
    <2>6. CASE UNCHANGED vars
      BY <2>6 DEF vars, queues
    <2> QED
      BY <1>5, <2>1, <2>2, <2>3, <2>4, <2>5, <2>6 DEF Next, Scheduler, Ager
  <1> QED
    BY <1>3, <1>4, <1>5

\* The hook implements one first-in first-out channel for each publisher and class: whatever
\* the schedulers, the aging passes and the publishers do, a publisher's packets of a class
\* are injected in the order in which it handed them over, each once (priority_messaging.go).
THEOREM Refinement == Spec => ImplementsFifo
PROOF
  <1>1. Init => Fifo!Init
    <2> SUFFICES ASSUME Init PROVE Fifo!Init
      OBVIOUS
    <2>1. InHook = <<>> /\ injected = <<>>
      BY DEF Init, InHook
    <2>2. Elements(InHook) = {}
      BY <2>1 DEF Elements
    <2>3. \A p \in Publishers, c \in Classes : NumbersIn({}, p, c) = {}
      BY DEF NumbersIn
    <2>4. \A p \in Publishers, c \in Classes : Channel({}, p, c) = <<>>
      BY FS_EmptySet DEF Channel
    <2>5. Channels = [pc \in Publishers \X Classes |-> <<>>]
      BY <2>2, <2>3, <2>4, ChannelsAt DEF ChannelsIn
    <2> QED
      BY <2>1, <2>5 DEF Fifo!Init
  <1>2. IInv /\ IInv' /\ [Next]_vars => [Fifo!Next]_<<Channels, injected>>
    <2> SUFFICES ASSUME IInv, IInv', [Next]_vars PROVE [Fifo!Next]_<<Channels, injected>>
      OBVIOUS
    <2>1. TypeOK /\ TypeOK' /\ OrderInv /\ OrderInv' /\ Launched
      BY DEF IInv
    <2>2. CASE \E p \in Publishers : Enqueue(p)
      BY <2>1, <2>2, EnqueueAccepts DEF Fifo!Next
    <2>3. CASE SchedulerInject
      BY <2>1, <2>3, InjectDelivers DEF Fifo!Next
    <2>4. CASE ~SchedulerInject /\ \A p \in Publishers : ~Enqueue(p)
      BY <2>1, <2>4, OthersStutter
    <2> QED
      BY <2>2, <2>3, <2>4
  <1> QED
    BY <1>1, <1>2, Invariant, PTL DEF Spec, ImplementsFifo, Fifo!Spec
=============================================================================
