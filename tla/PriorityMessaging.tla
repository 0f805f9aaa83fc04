------------------------- MODULE PriorityMessaging -------------------------
(***************************************************************************)
(* The priority-messaging hook (broker/modules/routing): publishes wait in *)
(* three queues under one mutex, a scheduler goroutine that sleeps on a    *)
(* condition variable injects them in strict priority order, an aging      *)
(* goroutine moves starved ones to the urgent queue.                       *)
(*                                                                         *)
(* OnPublish runs on the reader goroutine of each publishing client.  It   *)
(* reads the clock before it takes the mutex and signals after it released *)
(* it, so the three steps interleave with everything else.  A message is   *)
(* numbered by its reading of the clock.  The mutex is held across two     *)
(* steps only by a scheduler about to wait; other critical sections are    *)
(* one step.  Publishes marked priority-processed never touch this state.  *)
(***************************************************************************)
EXTENDS Integers, Sequences, FiniteSets

CONSTANTS
  Publishers,  \* reader goroutines that run OnPublish
  MaxMessages, \* bound: messages that enter OnPublish
  MayStop      \* may the server stop the hook

ASSUME PriorityAssumption ==
  /\ IsFiniteSet(Publishers) /\ MaxMessages \in Nat /\ MayStop \in BOOLEAN

VARIABLES
  urgent, high, normal, \* the three queues
  mailbox,   \* publisher -> its place in OnPublish and the packet it carries
  sched,     \* the scheduler goroutine
  held,      \* the packet it has popped and not injected yet
  aging,     \* the aging goroutine
  age,       \* class -> its last tick finds packets numbered up to it past their threshold
  stop,      \* the goroutine that runs Stop; the stop channel is closed unless "open"
  setup,     \* Init and SetOpts: how far each has come
  started,   \* h.started
  launches,  \* history: times maybeStart launched the goroutines
  stamped,   \* messages that have read the clock
  injected,  \* history: what InjectPublish routed, in order
  overtakers \* history: promoted message -> those accepted before its promotion

queues == <<urgent, high, normal>>
start  == <<setup, started, launches>>
vars == <<queues, mailbox, sched, held, aging, age, stop, start, stamped, injected,
          overtakers>>

Classes  == {"Urgent", "High", "Normal"}
Aging    == {"High", "Normal"}
Packets  == [id : 1 .. MaxMessages, from : Publishers, class : Classes]
NoPacket == [id |-> 0, from |-> "none", class |-> "none"]

Init ==
  /\ urgent = <<>> /\ high = <<>> /\ normal = <<>>
  /\ mailbox = [p \in Publishers |-> [pc |-> "idle", pk |-> NoPacket]]
  /\ sched = "off" /\ held = NoPacket /\ aging = "off"
  /\ age = [c \in Aging |-> 0]
  /\ stop = "open" /\ setup = [f \in {"Init", "SetOpts"} |-> "assign"]
  /\ started = FALSE /\ launches = 0
  /\ stamped = 0 /\ injected = <<>> /\ overtakers = [m \in 1 .. MaxMessages |-> {}]

Elements(s) == {s[k] : k \in DOMAIN s}
\* The k-th smallest of the numbers K, and the elements that s has at the positions K, in
\* order: SelectSeq without its recursion.
Nth(K, k) == CHOOSE i \in K : Cardinality({j \in K : j < i}) = k - 1
Kept(s, K) == [k \in 1 .. Cardinality(K) |-> s[Nth(K, k)]]
InHook  == (IF sched = "inject" THEN <<held>> ELSE <<>>) \o urgent \o high \o normal
Empty   == urgent = <<>> /\ high = <<>> /\ normal = <<>>
Free    == sched # "toWait"  \* nobody keeps the mutex
Stopped == stop # "open"     \* the stop channel is closed
WokenBusy == IF sched \in {"waiting", "inject"} THEN "lock" ELSE sched
Woken   == IF sched = "waiting" THEN "lock" ELSE sched

-----------------------------------------------------------------------------
(* Init, SetOpts and maybeStart: each call assigns its field, raises its    *)
(* flag, and then tries to launch.                                          *)

Ready == (\A f \in DOMAIN setup : setup[f] \notin {"assign", "flag"})
LaunchAgain == Ready
LaunchOnce == Ready /\ ~started

Prepare(f) ==
  /\ setup[f] \in {"assign", "flag"}
  /\ setup' = [setup EXCEPT ![f] = IF @ = "assign" THEN "flag" ELSE "maybeStart"]
  /\ UNCHANGED <<queues, mailbox, sched, held, aging, age, stop, started, launches,
                 stamped, injected, overtakers>>

MaybeStart(f) ==
  /\ setup[f] = "maybeStart"
  /\ setup' = [setup EXCEPT ![f] = "done"]
  /\ IF LaunchOnce
     THEN /\ started' = TRUE /\ launches' = launches + 1
          /\ sched' = "lock" /\ aging' = "idle"
     ELSE UNCHANGED <<started, launches, sched, aging>>
  /\ UNCHANGED <<queues, mailbox, held, age, stop, stamped, injected, overtakers>>

-----------------------------------------------------------------------------
(* OnPublish.                                                              *)

ReadClock(p, c) ==
  /\ mailbox[p].pc = "idle" /\ stamped < MaxMessages
  /\ \A f \in DOMAIN setup : setup[f] = "done"  \* AddHook has returned
  /\ stamped' = stamped + 1
  /\ mailbox' = [mailbox EXCEPT ![p] =
       [pc |-> "lock", pk |-> [id |-> stamped + 1, from |-> p, class |-> c]]]
  /\ UNCHANGED <<queues, sched, held, aging, age, stop, start, injected, overtakers>>

NoSignal == "idle"
ThenSignal == "signal"

Enqueue(p) ==
  /\ mailbox[p].pc = "lock" /\ Free
  /\ LET pk == mailbox[p].pk
     IN /\ urgent' = IF pk.class = "Urgent" THEN Append(urgent, pk) ELSE urgent
        /\ high'   = IF pk.class = "High" THEN Append(high, pk) ELSE high
        /\ normal' = IF pk.class = "Normal" THEN Append(normal, pk) ELSE normal
  /\ mailbox' = [mailbox EXCEPT ![p] = [pc |-> ThenSignal, pk |-> NoPacket]]
  /\ UNCHANGED <<sched, held, aging, age, stop, start, stamped, injected, overtakers>>

\* cond.Signal wakes the scheduler if it waits and is forgotten otherwise.
Signal(p) ==
  /\ mailbox[p].pc = "signal"
  /\ mailbox' = [mailbox EXCEPT ![p].pc = "idle"]
  /\ sched' = Woken
  /\ UNCHANGED <<queues, held, aging, age, stop, start, stamped, injected, overtakers>>

-----------------------------------------------------------------------------
(* schedulerLoop.                                                          *)

\* With the queues empty the scheduler looks at the stop channel once and then waits;
\* with the mutex its own, only Stop can move in between.
SchedulerCheck ==
  /\ sched = "lock" /\ Empty
  /\ sched' = IF Stopped THEN "returned" ELSE "toWait"
  /\ UNCHANGED <<queues, mailbox, held, aging, age, stop, start, stamped, injected,
                 overtakers>>

SchedulerWait ==
  /\ sched = "toWait"
  /\ sched' = "waiting"
  /\ UNCHANGED <<queues, mailbox, held, aging, age, stop, start, stamped, injected,
                 overtakers>>

\* Strict priority.
HighBeforeUrgent == IF high # <<>> THEN "High" ELSE IF urgent # <<>> THEN "Urgent" ELSE "Normal"
UrgentBeforeHigh == IF urgent # <<>> THEN "Urgent" ELSE IF high # <<>> THEN "High" ELSE "Normal"

SchedulerPop ==
  /\ sched = "lock" /\ ~Empty
  /\ \/ /\ Stopped
        /\ sched' = "returned"
        /\ UNCHANGED <<queues, held>>
     \/ /\ ~Stopped
        /\ sched' = "inject"
        /\ \/ /\ UrgentBeforeHigh = "Urgent"
              /\ held' = Head(urgent) /\ urgent' = Tail(urgent)
              /\ UNCHANGED <<high, normal>>
           \/ /\ UrgentBeforeHigh = "High"
              /\ held' = Head(high) /\ high' = Tail(high)
              /\ UNCHANGED <<urgent, normal>>
           \/ /\ UrgentBeforeHigh = "Normal"
              /\ held' = Head(normal) /\ normal' = Tail(normal)
              /\ UNCHANGED <<urgent, high>>
  /\ UNCHANGED <<mailbox, aging, age, stop, start, stamped, injected, overtakers>>

\* InjectPublish runs without the mutex.
SchedulerInject ==
  /\ sched = "inject"
  /\ sched' = "lock" /\ held' = NoPacket
  /\ injected' = Append(injected, held)
  /\ UNCHANGED <<queues, mailbox, aging, age, stop, start, stamped, overtakers>>

-----------------------------------------------------------------------------
(* agingLoop.                                                              *)

\* Since the last tick more packets of a class have reached its threshold, the earlier
\* stamped first.  A tick carries the time at which it fired, not the time the mutex is
\* obtained.  With the stop channel closed too, select takes either.
AgingTick ==
  /\ aging = "idle"
  /\ aging' = "tick"
  /\ age' \in {a \in [Aging -> 0 .. stamped] : \A c \in Aging : a[c] >= age[c]}
  /\ UNCHANGED <<queues, mailbox, sched, held, stop, start, stamped, injected, overtakers>>

AgingReturn ==
  /\ aging = "idle" /\ Stopped
  /\ aging' = "returned"
  /\ UNCHANGED <<queues, mailbox, sched, held, age, stop, start, stamped, injected,
                 overtakers>>

Due(pk) == pk.class \in Aging /\ pk.id <= age[pk.class]
DueIn(s) == {k \in DOMAIN s : Due(s[k])}
YoungIn(s) == DOMAIN s \ DueIn(s)
Starved == Kept(normal, DueIn(normal)) \o Kept(high, DueIn(high))
StarvedFirst == Starved \o urgent
StarvedLast  == urgent \o Starved

\* Due normal packets and then due high ones move to the end of the urgent queue.
AgingPass ==
  /\ aging = "tick" /\ Free
  /\ aging' = "idle"
  /\ urgent' = StarvedLast
  /\ normal' = Kept(normal, YoungIn(normal)) /\ high' = Kept(high, YoungIn(high))
  /\ sched' = IF urgent' # <<>> THEN Woken ELSE sched
  /\ overtakers' = [m \in 1 .. MaxMessages |->
       IF \E pk \in Elements(Starved) : pk.id = m
       THEN {pk.id : pk \in Elements(injected \o InHook)}
       ELSE overtakers[m]]
  /\ UNCHANGED <<mailbox, held, age, stop, start, stamped, injected>>

-----------------------------------------------------------------------------
\* Stop closes the channel and then broadcasts, without the mutex.
CloseStop ==
  /\ MayStop /\ stop = "open" /\ started
  /\ stop' = "broadcast"
  /\ UNCHANGED <<queues, mailbox, sched, held, aging, age, start, stamped, injected,
                 overtakers>>

Broadcast ==
  /\ stop = "broadcast"
  /\ stop' = "done"
  /\ sched' = Woken
  /\ UNCHANGED <<queues, mailbox, held, aging, age, start, stamped, injected, overtakers>>

-----------------------------------------------------------------------------
Scheduler == SchedulerCheck \/ SchedulerWait \/ SchedulerPop \/ SchedulerInject
Ager == AgingTick \/ AgingReturn \/ AgingPass

Next ==
  \/ \E f \in DOMAIN setup : Prepare(f) \/ MaybeStart(f)
  \/ \E p \in Publishers : (\E c \in Classes : ReadClock(p, c)) \/ Enqueue(p) \/ Signal(p)
  \/ Scheduler
  \/ Ager
  \/ CloseStop \/ Broadcast

Spec == Init /\ [][Next]_vars

\* Goroutines run; a Go mutex is starvation free, so a publisher that keeps finding it
\* free gets it (strong: the scheduler may take it away in between).  Nothing is assumed
\* of the ticker.
FairSpec ==
  /\ Spec
  /\ \A f \in {"Init", "SetOpts"} : WF_vars(Prepare(f) \/ MaybeStart(f))
  /\ \A p \in Publishers : SF_vars(Enqueue(p)) /\ WF_vars(Signal(p))
  /\ WF_vars(Scheduler) /\ WF_vars(Broadcast)

-----------------------------------------------------------------------------
(* What the hook promises.                                                 *)

\* Every variable holds a value of its kind, and the scheduler has a packet in hand
\* exactly while it injects one: a wake-up never makes it drop the packet.
TypeOK ==
  /\ urgent \in Seq(Packets) /\ high \in Seq(Packets) /\ normal \in Seq(Packets)
  /\ mailbox \in [Publishers -> [pc : {"idle", "lock", "signal"}, pk : Packets \cup {NoPacket}]]
  /\ sched \in {"off", "lock", "toWait", "waiting", "inject", "returned"}
  /\ held \in IF sched = "inject" THEN Packets ELSE {NoPacket}
  /\ aging \in {"off", "idle", "tick", "returned"}
  /\ age \in [Aging -> 0 .. MaxMessages]
  /\ stop \in {"open", "broadcast", "done"}
  /\ setup \in [{"Init", "SetOpts"} -> {"assign", "flag", "maybeStart", "done"}]
  /\ started \in BOOLEAN /\ launches \in Nat /\ stamped \in 0 .. MaxMessages
  /\ injected \in Seq(Packets)

\* "exactly once": the goroutines are launched by the later of Init and SetOpts and
\* never a second time.
StartedOnce ==
  /\ launches <= 1
  /\ launches = 1 => Ready
  /\ (\A f \in DOMAIN setup : setup[f] = "done") => launches = 1

\* The scheduler never sleeps on a packet, unless a publisher is about to signal:
\* signalling after the mutex is released loses no wake-up.
NoSleepOnWork ==
  sched = "waiting" /\ ~Empty => \E p \in Publishers : mailbox[p].pc = "signal"

\* The anti-starvation promise: once a pass has promoted a packet, only packets that
\* entered the hook before that pass are injected ahead of it, whatever their class.
AgedFirst ==
  \A k \in DOMAIN injected : overtakers[injected[k].id] # {} =>
    \A j \in 1 .. k - 1 : injected[j].id \in overtakers[injected[k].id]

\* Each publisher's packets of one class leave in the order they came, none lost, none
\* twice, through aging and reinjection: the hook implements FifoChannels.  A publisher
\* reads the clock once for each packet, so its packets came in the order of their numbers.
Channel(K, p, c) == [k \in 1 .. Cardinality(K) |-> [id |-> Nth(K, k), from |-> p, class |-> c]]
Channels ==
  LET packets == Elements(InHook)
  IN [pc \in Publishers \X Classes |->
        Channel({pk.id : pk \in {q \in packets : q.from = pc[1] /\ q.class = pc[2]}}, pc[1], pc[2])]
Fifo == INSTANCE FifoChannels WITH chan <- Channels, out <- injected
ImplementsFifo == Fifo!Spec

\* Every queued packet is injected, unless the hook is stopped.
EveryPacketInjected ==
  \A m \in 1 .. MaxMessages :
    (\E pk \in Elements(urgent \o high \o normal) : pk.id = m)
      ~> (Stopped \/ \E pk \in Elements(injected) : pk.id = m)

\* "Stop halts the background scheduler."
\* (Does not hold: README, disagreements.)
StopHalts == (stop = "done") ~> (sched = "returned")
=============================================================================
