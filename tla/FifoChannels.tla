---------------------------- MODULE FifoChannels ----------------------------
(***************************************************************************)
(* What a publisher may expect of the priority-messaging hook: between     *)
(* OnPublish and InjectPublish there is one first-in first-out channel for *)
(* each publisher and priority.  Channels may overtake each other in any   *)
(* way; a channel loses, repeats and reorders nothing.                     *)
(***************************************************************************)
EXTENDS Naturals, Sequences

CONSTANTS Publishers, Classes, Packets  \* a packet has fields from and class

VARIABLES chan, out

Everything == {out[k] : k \in DOMAIN out}
              \cup UNION {{chan[pc][k] : k \in DOMAIN chan[pc]} : pc \in Publishers \X Classes}

Init ==
  /\ chan = [pc \in Publishers \X Classes |-> <<>>]
  /\ out = <<>>

\* Its first two conjuncts reject cheaply what the fourth would (TLC tries every packet).
Accept(pk) ==
  LET pc == <<pk.from, pk.class>>
  IN /\ UNCHANGED out
     /\ chan'[pc] = Append(chan[pc], pk)
     /\ pk \notin Everything
     /\ chan' = [chan EXCEPT ![pc] = Append(@, pk)]

Deliver(pc) ==
  /\ chan[pc] # <<>>
  /\ out' = Append(out, Head(chan[pc]))
  /\ chan' = [chan EXCEPT ![pc] = Tail(@)]

Next ==
  \/ \E pk \in Packets : Accept(pk)
  \/ \E pc \in Publishers \X Classes : Deliver(pc)

Spec == Init /\ [][Next]_<<chan, out>>
=============================================================================
