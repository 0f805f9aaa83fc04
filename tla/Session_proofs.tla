--------------------------- MODULE Session_proofs ---------------------------
(***************************************************************************)
(* Theorems about Session, for every value of its constants.               *)
(*                                                                         *)
(* Whatever overlaps, every variable keeps its type, the broker counts the *)
(* connections that are attached, and a will is published at most once.    *)
(*                                                                         *)
(* Without overlap and expiry, for any number of connections, filters and  *)
(* messages and for every kind of session, the session is what its client  *)
(* may expect.  The invariant Serial follows the handshake of the one      *)
(* connection that is joining: until it registers, the client it found is  *)
(* registered, stopped and on its way out, and subscriptions and messages  *)
(* are at one of the two or, where the session ends, owed to nobody.       *)
(***************************************************************************)
EXTENDS Session, TLAPS, FiniteSetTheorems
-----------------------------------------------------------------------------
(* For all constants: types, the count of connections, wills.               *)

\* attachClient has counted the connection and has not returned.
Counted == {c \in Conns : at[c] \notin {"new", "authenticate", "gone"}}

\* Info.ClientsConnected counts them.
CountIsRight == connected = Cardinality(Counted)

\* The client that inheritClientSession, a publish or the event loop has in hand.
WithOld == {"kick", "takeSubs", "unindex", "clear", "mark", "markInherit", "clone",
            "resubscribe", "orphan", "forget"}
InHand ==
  /\ \A c \in Conns : at[c] \in WithOld => old[c] \in Conns
  /\ route.at # "idle" => route.m \in Msgs
  /\ route.at = "publish" => route.c \in Conns
  /\ loop.at \in {"will", "willSent"} => loop.c \in Conns

\* The connection's will has not been handed over, neither to a publish nor to the loop.
Untouched(c) ==
  /\ willSent[c] = 0 /\ delayed # c
  /\ loop.at \in {"will", "willSent"} => loop.c # c

\* Places of a goroutine from which it may still issue the will.
BeforeWill == {"new", "authenticate", "noWill"} \cup InHandshake \cup Established

\* The will is untouched up to sendLWT, which a second CONNECT runs twice: what the first
\* run published or delayed the second one does not publish.  A delayed will is the loop's
\* until it has sent it.  A client that said DISCONNECT never gets to sendLWT.
WillAccount ==
  \A c \in Conns :
    /\ at[c] \in BeforeWill => Untouched(c)
    /\ at[c] = "lwt" =>
         /\ loop.at \in {"will", "willSent"} => loop.c # c
         /\ willSent[c] = 0 \/ (willSent[c] = 1 /\ will[c] = "none" /\ delayed # c)
         /\ delayed = c => will[c] # "now"
    /\ c \in goodbye => /\ Untouched(c) /\ ~open[c]
                        /\ at[c] \in {"top", "noWill", "gone"} \cup (InCleanup \ {"lwt"})
    /\ willSent[c] \in {0, 1}
    /\ delayed = c /\ willSent[c] = 1 => loop = [at |-> "willSent", c |-> c]
    /\ loop = [at |-> "will", c |-> c] => willSent[c] = 0

\* Every variable but the count holds a value of its kind.
Typed ==
  /\ clients \in 0 .. MaxConns /\ delayed \in 0 .. MaxConns /\ index \subseteq Filters
  /\ at \in [Conns -> {"new", "authenticate", "gone"} \cup InHandshake \cup Established
                      \cup InCleanup]
  /\ kind \in [Conns -> AllKinds \cup {"none"}]
  /\ open \in [Conns -> BOOLEAN] /\ takenOver \in [Conns -> BOOLEAN]
  /\ subs \in [Conns -> SUBSET Filters] /\ bag \in [Conns -> SUBSET Filters]
  /\ stored \in [Conns -> SUBSET Msgs] /\ out \in [Conns -> SUBSET Msgs]
  /\ will \in [Conns -> {"none", "now", "delayed"}]
  /\ old \in [Conns -> 0 .. MaxConns] /\ present \in [Conns -> BOOLEAN]
  /\ route \in [at : {"idle", "get", "publish"}, c : 0 .. MaxConns, m : 0 .. MaxMsgs]
  /\ loop \in [at : {"idle", "expire", "will", "willSent"}, c : 0 .. MaxConns]
  /\ session \subseteq Filters /\ remembered \in BOOLEAN
  /\ owed \subseteq Msgs /\ got \subseteq Msgs
  /\ willSent \in [Conns -> Nat] /\ goodbye \subseteq Conns


\* Every step keeps the types.
LEMMA TypeStep ==
  ASSUME Typed, InHand, [Next]_vars
  PROVE  Typed'
PROOF
  <1> USE SessionAssumption DEF Goes, Idle, server, client, local, history, InHandshake, Established, InCleanup
  <1>0. /\ 0 \in 0 .. MaxConns /\ \A c \in Conns : c \in 0 .. MaxConns /\ c # 0
        /\ \A c \in 0 .. MaxConns : c # 0 => c \in Conns
        /\ MaxMsgs \in Nat /\ {} \subseteq Filters /\ {} \subseteq Msgs
    BY DEF Conns
  <1>1. ASSUME NEW c \in Conns, NEW k \in Kinds, NEW w \in Wills, Connect(c, k, w) PROVE Typed'
    <2>1. /\ UNCHANGED <<server, takenOver, subs, stored, out, local, route, loop, history>>
          /\ kind' = [kind EXCEPT ![c] = k] /\ will' = [will EXCEPT ![c] = w]
          /\ \/ at' = [at EXCEPT ![c] = "gone"] /\ open' = [open EXCEPT ![c] = FALSE]
             \/ at' = [at EXCEPT ![c] = "authenticate"] /\ UNCHANGED open
      BY <1>1 DEF Connect
    <2> QED
      BY ZenonT(40), <1>0, <2>1 DEF Typed
  <1>2. ASSUME NEW c \in Conns, Refuse(c) PROVE Typed'
    BY <1>2, <1>0 DEF Refuse, CountAfterRefusal, Typed, InHand, WithOld
  <1>3. ASSUME NEW c \in Conns, Authenticate(c) PROVE Typed'
    BY <1>3, <1>0 DEF Authenticate, Typed, InHand, WithOld
  <1>4. ASSUME NEW c \in Conns, GetExisting(c) PROVE Typed'
    BY <1>4, <1>0 DEF GetExisting, Typed, InHand, WithOld
  <1>5. ASSUME NEW c \in Conns, DisconnectExisting(c) PROVE Typed'
    BY <1>5, <1>0 DEF DisconnectExisting, Stopped, Typed, InHand, WithOld
  <1>6. ASSUME NEW c \in Conns, TakeSubs(c) PROVE Typed'
    BY <1>6, <1>0 DEF TakeSubs, Typed, InHand, WithOld
  <1>7. ASSUME NEW c \in Conns, Unindex(c) PROVE Typed'
    BY <1>7, <1>0 DEF Unindex, DroppedFromIndex, Typed, InHand, WithOld
  <1>8. ASSUME NEW c \in Conns, ClearExisting(c) PROVE Typed'
    BY <1>8, <1>0 DEF ClearExisting, Typed, InHand, WithOld
  <1>9. ASSUME NEW c \in Conns, MarkAbandoned(c) PROVE Typed'
    BY <1>9, <1>0 DEF MarkAbandoned, Typed, InHand, WithOld
  <1>10. ASSUME NEW c \in Conns, MarkInherited(c) PROVE Typed'
    BY <1>10, <1>0 DEF MarkInherited, Typed, InHand, WithOld
  <1>11. ASSUME NEW c \in Conns, CloneInflight(c) PROVE Typed'
    BY <1>11, <1>0 DEF CloneInflight, Cloned, Typed, InHand, WithOld
  <1>12. ASSUME NEW c \in Conns, InheritSubs(c) PROVE Typed'
    BY <1>12, <1>0 DEF InheritSubs, Typed, InHand, WithOld
  <1>13. ASSUME NEW c \in Conns, OrphanSubs(c) PROVE Typed'
    BY <1>13, <1>0 DEF OrphanSubs, LeftInIndex, Typed, InHand, WithOld
  <1>14. ASSUME NEW c \in Conns, ForgetInflight(c) PROVE Typed'
    BY <1>14, <1>0 DEF ForgetInflight, SessionPresent, Typed, InHand, WithOld
  <1>15. ASSUME NEW c \in Conns, Register(c) PROVE Typed'
    BY <1>15, <1>0 DEF Register, Typed, InHand, WithOld
  <1>16. ASSUME NEW c \in Conns, SendConnack(c) PROVE Typed'
    BY <1>16, <1>0 DEF SendConnack, Typed, InHand, WithOld
  <1>17. ASSUME NEW c \in Conns, HandshakeFails(c) PROVE Typed'
    BY <1>17, <1>0 DEF HandshakeFails, Typed, InHand, WithOld
  <1>18. ASSUME NEW c \in Conns, UndelayWill(c) PROVE Typed'
    BY <1>18, <1>0 DEF UndelayWill, Typed, InHand, WithOld
  <1>19. ASSUME NEW c \in Conns, ResendInflight(c) PROVE Typed'
    BY <1>19, <1>0 DEF ResendInflight, Typed, InHand, WithOld
  <1>20. ASSUME NEW c \in Conns, ReadTop(c) PROVE Typed'
    BY <1>20, <1>0 DEF ReadTop, Typed, InHand, WithOld
  <1>21. ASSUME NEW c \in Conns, AddSubscription(c) PROVE Typed'
    BY <1>21, <1>0 DEF AddSubscription, Typed, InHand, WithOld
  <1>22. ASSUME NEW c \in Conns, AckSubscribe(c) PROVE Typed'
    BY <1>22, <1>0 DEF AckSubscribe, Typed, InHand, WithOld
  <1>23. ASSUME NEW c \in Conns, DeleteSubscription(c) PROVE Typed'
    BY <1>23, <1>0 DEF DeleteSubscription, Typed, InHand, WithOld
  <1>24. ASSUME NEW c \in Conns, SendLWT(c) PROVE Typed'
    BY <1>24, <1>0 DEF SendLWT, IssueWill, FlagReset, Typed, InHand, WithOld
  <1>25. ASSUME NEW c \in Conns, DropWill(c) PROVE Typed'
    BY <1>25, <1>0 DEF DropWill, Typed, InHand, WithOld
  <1>26. ASSUME NEW c \in Conns, OnDisconnect(c) PROVE Typed'
    <2>1. CASE EndsSession(c)
      <3>1. /\ at' = [at EXCEPT ![c] = "clearOwn"] /\ session' = {} /\ owed' = {} /\ remembered' = FALSE
            /\ UNCHANGED <<server, client, local, route, loop, got, willSent, goodbye, faults>>
        BY <1>26, <2>1 DEF OnDisconnect
      <3> QED
        BY <1>0, <3>1 DEF Typed
    <2>2. CASE ~EndsSession(c)
      BY <1>0, <1>26, <2>2 DEF OnDisconnect, Typed
    <2> QED
      BY <2>1, <2>2
  <1>27. ASSUME NEW c \in Conns, ClearOwn(c) PROVE Typed'
    BY <1>27, <1>0 DEF ClearOwn, Typed, InHand, WithOld
  <1>28. ASSUME NEW c \in Conns, TakeOwnSubs(c) PROVE Typed'
    BY <1>28, <1>0 DEF TakeOwnSubs, Typed, InHand, WithOld
  <1>29. ASSUME NEW c \in Conns, UnindexOwn(c) PROVE Typed'
    BY <1>29, <1>0 DEF UnindexOwn, DroppedFromIndex, Typed, InHand, WithOld
  <1>30. ASSUME NEW c \in Conns, Delete(c) PROVE Typed'
    BY <1>30, <1>0 DEF Delete, Typed, InHand, WithOld
  <1>31. ASSUME NEW c \in Conns, ReadFails(c) PROVE Typed'
    BY <1>31, <1>0 DEF ReadFails, Typed, InHand, WithOld
  <1>32. ASSUME NEW c \in Conns, NEW f \in Filters, Subscribe(c, f) PROVE Typed'
    BY <1>32, <1>0 DEF Subscribe, Typed, InHand, WithOld
  <1>33. ASSUME NEW c \in Conns, NEW f \in Filters, Unsubscribe(c, f) PROVE Typed'
    BY <1>33, <1>0 DEF Unsubscribe, Typed, InHand, WithOld
  <1>34. ASSUME NEW c \in Conns, NEW m \in Msgs, Puback(c, m) PROVE Typed'
    BY <1>34, <1>0 DEF Puback, Typed, InHand, WithOld
  <1>35. ASSUME NEW c \in Conns, NEW k \in AllKinds, Disconnect(c, k) PROVE Typed'
    BY <1>35, <1>0 DEF Disconnect, Shortened, Typed, InHand, WithOld
  <1>36. ASSUME NEW c \in Conns, SecondConnect(c) PROVE Typed'
    BY <1>36, <1>0 DEF SecondConnect, IssueWill, FlagReset, Typed, InHand, WithOld
  <1>37. ASSUME NEW c \in Conns, NEW m \in Msgs, WriteLoop(c, m) PROVE Typed'
    BY <1>37, <1>0 DEF WriteLoop, Typed, InHand, WithOld
  <1>38. ASSUME MatchSubscribers PROVE Typed'
    BY <1>38, <1>0 DEF MatchSubscribers, Typed, InHand, WithOld
  <1>39. ASSUME GetSubscriber PROVE Typed'
    BY <1>39, <1>0 DEF GetSubscriber, Typed, InHand, WithOld
  <1>40. ASSUME PublishToClient PROVE Typed'
    <2>1. route.m \in Msgs /\ route.c \in Conns
      BY <1>40 DEF PublishToClient, InHand
    <2>2. /\ route' = [route EXCEPT !.at = "idle", !.c = 0]
          /\ stored' = [stored EXCEPT ![route.c] = @ \cup {route.m}]
          /\ UNCHANGED <<server, at, kind, open, takenOver, subs, will, local, loop, session,
                         remembered, got, willSent, goodbye, faults>>
      BY <1>40 DEF PublishToClient
    <2>3. out' = out \/ out' = [out EXCEPT ![route.c] = @ \cup {route.m}]
      BY <1>40 DEF PublishToClient
    <2>4. owed' = owed \/ owed' = owed \cup {route.m}
      BY <1>40 DEF PublishToClient
    <2>5. route' \in [at : {"idle", "get", "publish"}, c : 0 .. MaxConns, m : 0 .. MaxMsgs]
      BY <1>0, <2>2 DEF Typed
    <2>6. stored' \in [Conns -> SUBSET Msgs] /\ out' \in [Conns -> SUBSET Msgs] /\ owed' \subseteq Msgs
      BY <2>1, <2>2, <2>3, <2>4 DEF Typed
    <2> QED
      BY <2>2, <2>5, <2>6 DEF Typed
  <1>41. ASSUME FindExpired PROVE Typed'
    BY <1>41, <1>0 DEF FindExpired, Typed, InHand, WithOld
  <1>42. ASSUME DeleteExpired PROVE Typed'
    BY <1>42, <1>0 DEF DeleteExpired, Typed, InHand, WithOld
  <1>43. ASSUME FindDueWill PROVE Typed'
    BY <1>43, <1>0 DEF FindDueWill, Typed, InHand, WithOld
  <1>44. ASSUME SendDelayedLWT PROVE Typed'
    <2>1. loop.c \in Conns /\ (clients = 0 \/ clients \in Conns)
      BY <1>0, <1>44 DEF SendDelayedLWT, InHand, Typed
    <2>2. /\ loop' = [loop EXCEPT !.at = "willSent"]
          /\ willSent' = [willSent EXCEPT ![loop.c] = @ + 1]
          /\ will' = will \/ (clients # 0 /\ will' = [will EXCEPT ![clients] = "none"])
          /\ UNCHANGED <<server, at, kind, open, takenOver, subs, stored, out, local, route,
                         session, remembered, owed, got, goodbye>>
      BY <1>44 DEF SendDelayedLWT
    <2> QED
      BY <1>0, <2>1, <2>2 DEF Typed
  <1>45. ASSUME DeleteSentWill PROVE Typed'
    BY <1>45, <1>0 DEF DeleteSentWill, Typed, InHand, WithOld
  <1>46. CASE UNCHANGED vars
    BY <1>46 DEF vars, Typed, InHand, WithOld
  <1> QED
    BY <1>1, <1>2, <1>3, <1>4, <1>5, <1>6, <1>7, <1>8, <1>9, <1>10, <1>11, <1>12, <1>13, <1>14, <1>15, <1>16, <1>17, <1>18, <1>19, <1>20, <1>21, <1>22, <1>23, <1>24, <1>25, <1>26, <1>27, <1>28, <1>29, <1>30, <1>31, <1>32, <1>33, <1>34, <1>35, <1>36, <1>37, <1>38, <1>39, <1>40, <1>41, <1>42, <1>43, <1>44, <1>45, <1>46
       DEF Next, Handshake, ClientPacket, Attached, EventLoop

\* Every step keeps what is in hand.
LEMMA InHandStep ==
  ASSUME Typed, InHand, [Next]_vars
  PROVE  InHand'
PROOF
  <1> USE SessionAssumption DEF Goes, Idle, server, client, local, history, InHandshake, Established, InCleanup
  <1>0. /\ 0 \in 0 .. MaxConns /\ \A c \in Conns : c \in 0 .. MaxConns /\ c # 0
        /\ \A c \in 0 .. MaxConns : c # 0 => c \in Conns
        /\ \A m \in 0 .. MaxMsgs : m < MaxMsgs => m + 1 \in Msgs
    BY DEF Conns, Msgs
  <1>1. ASSUME NEW c \in Conns, NEW k \in Kinds, NEW w \in Wills, Connect(c, k, w) PROVE InHand'
    BY <1>1, <1>0 DEF Connect, Typed, InHand, WithOld
  <1>2. ASSUME NEW c \in Conns, Refuse(c) PROVE InHand'
    BY <1>2, <1>0 DEF Refuse, CountAfterRefusal, Typed, InHand, WithOld
  <1>3. ASSUME NEW c \in Conns, Authenticate(c) PROVE InHand'
    BY <1>3, <1>0 DEF Authenticate, Typed, InHand, WithOld
  <1>4. ASSUME NEW c \in Conns, GetExisting(c) PROVE InHand'
    BY <1>4, <1>0 DEF GetExisting, Typed, InHand, WithOld
  <1>5. ASSUME NEW c \in Conns, DisconnectExisting(c) PROVE InHand'
    BY <1>5, <1>0 DEF DisconnectExisting, Stopped, Typed, InHand, WithOld
  <1>6. ASSUME NEW c \in Conns, TakeSubs(c) PROVE InHand'
    BY <1>6, <1>0 DEF TakeSubs, Typed, InHand, WithOld
  <1>7. ASSUME NEW c \in Conns, Unindex(c) PROVE InHand'
    BY <1>7, <1>0 DEF Unindex, DroppedFromIndex, Typed, InHand, WithOld
  <1>8. ASSUME NEW c \in Conns, ClearExisting(c) PROVE InHand'
    BY <1>8, <1>0 DEF ClearExisting, Typed, InHand, WithOld
  <1>9. ASSUME NEW c \in Conns, MarkAbandoned(c) PROVE InHand'
    BY <1>9, <1>0 DEF MarkAbandoned, Typed, InHand, WithOld
  <1>10. ASSUME NEW c \in Conns, MarkInherited(c) PROVE InHand'
    BY <1>10, <1>0 DEF MarkInherited, Typed, InHand, WithOld
  <1>11. ASSUME NEW c \in Conns, CloneInflight(c) PROVE InHand'
    BY <1>11, <1>0 DEF CloneInflight, Cloned, Typed, InHand, WithOld
  <1>12. ASSUME NEW c \in Conns, InheritSubs(c) PROVE InHand'
    BY <1>12, <1>0 DEF InheritSubs, Typed, InHand, WithOld
  <1>13. ASSUME NEW c \in Conns, OrphanSubs(c) PROVE InHand'
    BY <1>13, <1>0 DEF OrphanSubs, LeftInIndex, Typed, InHand, WithOld
  <1>14. ASSUME NEW c \in Conns, ForgetInflight(c) PROVE InHand'
    BY <1>14, <1>0 DEF ForgetInflight, SessionPresent, Typed, InHand, WithOld
  <1>15. ASSUME NEW c \in Conns, Register(c) PROVE InHand'
    BY <1>15, <1>0 DEF Register, Typed, InHand, WithOld
  <1>16. ASSUME NEW c \in Conns, SendConnack(c) PROVE InHand'
    BY <1>16, <1>0 DEF SendConnack, Typed, InHand, WithOld
  <1>17. ASSUME NEW c \in Conns, HandshakeFails(c) PROVE InHand'
    BY <1>17, <1>0 DEF HandshakeFails, Typed, InHand, WithOld
  <1>18. ASSUME NEW c \in Conns, UndelayWill(c) PROVE InHand'
    BY <1>18, <1>0 DEF UndelayWill, Typed, InHand, WithOld
  <1>19. ASSUME NEW c \in Conns, ResendInflight(c) PROVE InHand'
    BY <1>19, <1>0 DEF ResendInflight, Typed, InHand, WithOld
  <1>20. ASSUME NEW c \in Conns, ReadTop(c) PROVE InHand'
    BY <1>20, <1>0 DEF ReadTop, Typed, InHand, WithOld
  <1>21. ASSUME NEW c \in Conns, AddSubscription(c) PROVE InHand'
    BY <1>21, <1>0 DEF AddSubscription, Typed, InHand, WithOld
  <1>22. ASSUME NEW c \in Conns, AckSubscribe(c) PROVE InHand'
    BY <1>22, <1>0 DEF AckSubscribe, Typed, InHand, WithOld
  <1>23. ASSUME NEW c \in Conns, DeleteSubscription(c) PROVE InHand'
    BY <1>23, <1>0 DEF DeleteSubscription, Typed, InHand, WithOld
  <1>24. ASSUME NEW c \in Conns, SendLWT(c) PROVE InHand'
    BY <1>24, <1>0 DEF SendLWT, IssueWill, FlagReset, Typed, InHand, WithOld
  <1>25. ASSUME NEW c \in Conns, DropWill(c) PROVE InHand'
    BY <1>25, <1>0 DEF DropWill, Typed, InHand, WithOld
  <1>26. ASSUME NEW c \in Conns, OnDisconnect(c) PROVE InHand'
    BY <1>26, <1>0 DEF OnDisconnect, Typed, InHand, WithOld
  <1>27. ASSUME NEW c \in Conns, ClearOwn(c) PROVE InHand'
    BY <1>27, <1>0 DEF ClearOwn, Typed, InHand, WithOld
  <1>28. ASSUME NEW c \in Conns, TakeOwnSubs(c) PROVE InHand'
    BY <1>28, <1>0 DEF TakeOwnSubs, Typed, InHand, WithOld
  <1>29. ASSUME NEW c \in Conns, UnindexOwn(c) PROVE InHand'
    BY <1>29, <1>0 DEF UnindexOwn, DroppedFromIndex, Typed, InHand, WithOld
  <1>30. ASSUME NEW c \in Conns, Delete(c) PROVE InHand'
    BY <1>30, <1>0 DEF Delete, Typed, InHand, WithOld
  <1>31. ASSUME NEW c \in Conns, ReadFails(c) PROVE InHand'
    BY <1>31, <1>0 DEF ReadFails, Typed, InHand, WithOld
  <1>32. ASSUME NEW c \in Conns, NEW f \in Filters, Subscribe(c, f) PROVE InHand'
    BY <1>32, <1>0 DEF Subscribe, Typed, InHand, WithOld
  <1>33. ASSUME NEW c \in Conns, NEW f \in Filters, Unsubscribe(c, f) PROVE InHand'
    BY <1>33, <1>0 DEF Unsubscribe, Typed, InHand, WithOld
  <1>34. ASSUME NEW c \in Conns, NEW m \in Msgs, Puback(c, m) PROVE InHand'
    BY <1>34, <1>0 DEF Puback, Typed, InHand, WithOld
  <1>35. ASSUME NEW c \in Conns, NEW k \in AllKinds, Disconnect(c, k) PROVE InHand'
    BY <1>35, <1>0 DEF Disconnect, Shortened, Typed, InHand, WithOld
  <1>36. ASSUME NEW c \in Conns, SecondConnect(c) PROVE InHand'
    BY <1>36, <1>0 DEF SecondConnect, IssueWill, FlagReset, Typed, InHand, WithOld
  <1>37. ASSUME NEW c \in Conns, NEW m \in Msgs, WriteLoop(c, m) PROVE InHand'
    BY <1>37, <1>0 DEF WriteLoop, Typed, InHand, WithOld
  <1>38. ASSUME MatchSubscribers PROVE InHand'
    BY <1>38, <1>0 DEF MatchSubscribers, Typed, InHand, WithOld
  <1>39. ASSUME GetSubscriber PROVE InHand'
    BY <1>39, <1>0 DEF GetSubscriber, Typed, InHand, WithOld
  <1>40. ASSUME PublishToClient PROVE InHand'
    BY <1>40, <1>0 DEF PublishToClient, Typed, InHand, WithOld
  <1>41. ASSUME FindExpired PROVE InHand'
    BY <1>41, <1>0 DEF FindExpired, Typed, InHand, WithOld
  <1>42. ASSUME DeleteExpired PROVE InHand'
    BY <1>42, <1>0 DEF DeleteExpired, Typed, InHand, WithOld
  <1>43. ASSUME FindDueWill PROVE InHand'
    BY <1>43, <1>0 DEF FindDueWill, Typed, InHand, WithOld
  <1>44. ASSUME SendDelayedLWT PROVE InHand'
    BY <1>44, <1>0 DEF SendDelayedLWT, Typed, InHand, WithOld
  <1>45. ASSUME DeleteSentWill PROVE InHand'
    BY <1>45, <1>0 DEF DeleteSentWill, Typed, InHand, WithOld
  <1>46. CASE UNCHANGED vars
    BY <1>46 DEF vars, Typed, InHand, WithOld
  <1> QED
    BY <1>1, <1>2, <1>3, <1>4, <1>5, <1>6, <1>7, <1>8, <1>9, <1>10, <1>11, <1>12, <1>13, <1>14, <1>15, <1>16, <1>17, <1>18, <1>19, <1>20, <1>21, <1>22, <1>23, <1>24, <1>25, <1>26, <1>27, <1>28, <1>29, <1>30, <1>31, <1>32, <1>33, <1>34, <1>35, <1>36, <1>37, <1>38, <1>39, <1>40, <1>41, <1>42, <1>43, <1>44, <1>45, <1>46
       DEF Next, Handshake, ClientPacket, Attached, EventLoop

\* Every step keeps the account of the wills.
LEMMA WillStep ==
  ASSUME Typed, InHand, WillAccount, [Next]_vars
  PROVE  WillAccount'
PROOF
  <1> USE SessionAssumption DEF Goes, Idle, server, client, local, history, InHandshake, Established, InCleanup
  <1>0. 0 \notin Conns /\ \A c \in 0 .. MaxConns : c # 0 => c \in Conns
    BY DEF Conns
  <1>1. ASSUME NEW c \in Conns, NEW k \in Kinds, NEW w \in Wills, Connect(c, k, w) PROVE WillAccount'
    BY <1>1, <1>0 DEF Connect, Typed, InHand, WithOld, WillAccount, Untouched, BeforeWill
  <1>2. ASSUME NEW c \in Conns, Refuse(c) PROVE WillAccount'
    BY <1>2, <1>0 DEF Refuse, CountAfterRefusal, Typed, InHand, WithOld, WillAccount, Untouched, BeforeWill
  <1>3. ASSUME NEW c \in Conns, Authenticate(c) PROVE WillAccount'
    BY <1>3, <1>0 DEF Authenticate, Typed, InHand, WithOld, WillAccount, Untouched, BeforeWill
  <1>4. ASSUME NEW c \in Conns, GetExisting(c) PROVE WillAccount'
    BY <1>4, <1>0 DEF GetExisting, Typed, InHand, WithOld, WillAccount, Untouched, BeforeWill
  <1>5. ASSUME NEW c \in Conns, DisconnectExisting(c) PROVE WillAccount'
    BY <1>5, <1>0 DEF DisconnectExisting, Stopped, Typed, InHand, WithOld, WillAccount, Untouched, BeforeWill
  <1>6. ASSUME NEW c \in Conns, TakeSubs(c) PROVE WillAccount'
    BY <1>6, <1>0 DEF TakeSubs, Typed, InHand, WithOld, WillAccount, Untouched, BeforeWill
  <1>7. ASSUME NEW c \in Conns, Unindex(c) PROVE WillAccount'
    BY <1>7, <1>0 DEF Unindex, DroppedFromIndex, Typed, InHand, WithOld, WillAccount, Untouched, BeforeWill
  <1>8. ASSUME NEW c \in Conns, ClearExisting(c) PROVE WillAccount'
    BY <1>8, <1>0 DEF ClearExisting, Typed, InHand, WithOld, WillAccount, Untouched, BeforeWill
  <1>9. ASSUME NEW c \in Conns, MarkAbandoned(c) PROVE WillAccount'
    BY <1>9, <1>0 DEF MarkAbandoned, Typed, InHand, WithOld, WillAccount, Untouched, BeforeWill
  <1>10. ASSUME NEW c \in Conns, MarkInherited(c) PROVE WillAccount'
    BY <1>10, <1>0 DEF MarkInherited, Typed, InHand, WithOld, WillAccount, Untouched, BeforeWill
  <1>11. ASSUME NEW c \in Conns, CloneInflight(c) PROVE WillAccount'
    BY <1>11, <1>0 DEF CloneInflight, Cloned, Typed, InHand, WithOld, WillAccount, Untouched, BeforeWill
  <1>12. ASSUME NEW c \in Conns, InheritSubs(c) PROVE WillAccount'
    BY <1>12, <1>0 DEF InheritSubs, Typed, InHand, WithOld, WillAccount, Untouched, BeforeWill
  <1>13. ASSUME NEW c \in Conns, OrphanSubs(c) PROVE WillAccount'
    BY <1>13, <1>0 DEF OrphanSubs, LeftInIndex, Typed, InHand, WithOld, WillAccount, Untouched, BeforeWill
  <1>14. ASSUME NEW c \in Conns, ForgetInflight(c) PROVE WillAccount'
    BY <1>14, <1>0 DEF ForgetInflight, SessionPresent, Typed, InHand, WithOld, WillAccount, Untouched, BeforeWill
  <1>15. ASSUME NEW c \in Conns, Register(c) PROVE WillAccount'
    BY <1>15, <1>0 DEF Register, Typed, InHand, WithOld, WillAccount, Untouched, BeforeWill
  <1>16. ASSUME NEW c \in Conns, SendConnack(c) PROVE WillAccount'
    <2>1. at[c] = "connack" /\ at' = [at EXCEPT ![c] = "undelay"] /\ UNCHANGED <<open, will, delayed, loop, willSent, goodbye>>
      BY <1>16 DEF SendConnack
    <2> QED
      BY <1>0, <2>1 DEF Typed, WillAccount, Untouched, BeforeWill
  <1>17. ASSUME NEW c \in Conns, HandshakeFails(c) PROVE WillAccount'
    BY <1>17, <1>0 DEF HandshakeFails, Typed, InHand, WithOld, WillAccount, Untouched, BeforeWill
  <1>18. ASSUME NEW c \in Conns, UndelayWill(c) PROVE WillAccount'
    BY <1>18, <1>0 DEF UndelayWill, Typed, InHand, WithOld, WillAccount, Untouched, BeforeWill
  <1>19. ASSUME NEW c \in Conns, ResendInflight(c) PROVE WillAccount'
    BY <1>19, <1>0 DEF ResendInflight, Typed, InHand, WithOld, WillAccount, Untouched, BeforeWill
  <1>20. ASSUME NEW c \in Conns, ReadTop(c) PROVE WillAccount'
    BY <1>20, <1>0 DEF ReadTop, Typed, InHand, WithOld, WillAccount, Untouched, BeforeWill
  <1>21. ASSUME NEW c \in Conns, AddSubscription(c) PROVE WillAccount'
    BY <1>21, <1>0 DEF AddSubscription, Typed, InHand, WithOld, WillAccount, Untouched, BeforeWill
  <1>22. ASSUME NEW c \in Conns, AckSubscribe(c) PROVE WillAccount'
    BY <1>22, <1>0 DEF AckSubscribe, Typed, InHand, WithOld, WillAccount, Untouched, BeforeWill
  <1>23. ASSUME NEW c \in Conns, DeleteSubscription(c) PROVE WillAccount'
    BY <1>23, <1>0 DEF DeleteSubscription, Typed, InHand, WithOld, WillAccount, Untouched, BeforeWill
  <1>24. ASSUME NEW c \in Conns, SendLWT(c) PROVE WillAccount'
    BY <1>24, <1>0 DEF SendLWT, IssueWill, FlagReset, Typed, InHand, WithOld, WillAccount, Untouched, BeforeWill
  <1>25. ASSUME NEW c \in Conns, DropWill(c) PROVE WillAccount'
    <2>1. /\ at[c] = "noWill" /\ at' = [at EXCEPT ![c] = "disconnected"] /\ will' = [will EXCEPT ![c] = "none"]
          /\ UNCHANGED <<open, delayed, loop, willSent, goodbye>>
      BY <1>25 DEF DropWill
    <2> QED
      BY <1>0, <2>1 DEF Typed, WillAccount, Untouched, BeforeWill
  <1>26. ASSUME NEW c \in Conns, OnDisconnect(c) PROVE WillAccount'
    BY <1>26, <1>0 DEF OnDisconnect, Typed, InHand, WithOld, WillAccount, Untouched, BeforeWill
  <1>27. ASSUME NEW c \in Conns, ClearOwn(c) PROVE WillAccount'
    BY <1>27, <1>0 DEF ClearOwn, Typed, InHand, WithOld, WillAccount, Untouched, BeforeWill
  <1>28. ASSUME NEW c \in Conns, TakeOwnSubs(c) PROVE WillAccount'
    BY <1>28, <1>0 DEF TakeOwnSubs, Typed, InHand, WithOld, WillAccount, Untouched, BeforeWill
  <1>29. ASSUME NEW c \in Conns, UnindexOwn(c) PROVE WillAccount'
    BY <1>29, <1>0 DEF UnindexOwn, DroppedFromIndex, Typed, InHand, WithOld, WillAccount, Untouched, BeforeWill
  <1>30. ASSUME NEW c \in Conns, Delete(c) PROVE WillAccount'
    BY <1>30, <1>0 DEF Delete, Typed, InHand, WithOld, WillAccount, Untouched, BeforeWill
  <1>31. ASSUME NEW c \in Conns, ReadFails(c) PROVE WillAccount'
    BY <1>31, <1>0 DEF ReadFails, Typed, InHand, WithOld, WillAccount, Untouched, BeforeWill
  <1>32. ASSUME NEW c \in Conns, NEW f \in Filters, Subscribe(c, f) PROVE WillAccount'
    BY <1>32, <1>0 DEF Subscribe, Typed, InHand, WithOld, WillAccount, Untouched, BeforeWill
  <1>33. ASSUME NEW c \in Conns, NEW f \in Filters, Unsubscribe(c, f) PROVE WillAccount'
    BY <1>33, <1>0 DEF Unsubscribe, Typed, InHand, WithOld, WillAccount, Untouched, BeforeWill
  <1>34. ASSUME NEW c \in Conns, NEW m \in Msgs, Puback(c, m) PROVE WillAccount'
    BY <1>34, <1>0 DEF Puback, Typed, InHand, WithOld, WillAccount, Untouched, BeforeWill
  <1>35. ASSUME NEW c \in Conns, NEW k \in AllKinds, Disconnect(c, k) PROVE WillAccount'
    BY <1>35, <1>0 DEF Disconnect, Shortened, Typed, InHand, WithOld, WillAccount, Untouched, BeforeWill
  <1>36. ASSUME NEW c \in Conns, SecondConnect(c) PROVE WillAccount'
    BY <1>36, <1>0 DEF SecondConnect, IssueWill, FlagReset, Typed, InHand, WithOld, WillAccount, Untouched, BeforeWill
  <1>37. ASSUME NEW c \in Conns, NEW m \in Msgs, WriteLoop(c, m) PROVE WillAccount'
    BY <1>37, <1>0 DEF WriteLoop, Typed, InHand, WithOld, WillAccount, Untouched, BeforeWill
  <1>38. ASSUME MatchSubscribers PROVE WillAccount'
    BY <1>38, <1>0 DEF MatchSubscribers, Typed, InHand, WithOld, WillAccount, Untouched, BeforeWill
  <1>39. ASSUME GetSubscriber PROVE WillAccount'
    BY <1>39, <1>0 DEF GetSubscriber, Typed, InHand, WithOld, WillAccount, Untouched, BeforeWill
  <1>40. ASSUME PublishToClient PROVE WillAccount'
    BY <1>40, <1>0 DEF PublishToClient, Typed, InHand, WithOld, WillAccount, Untouched, BeforeWill
  <1>41. ASSUME FindExpired PROVE WillAccount'
    BY <1>41, <1>0 DEF FindExpired, Typed, InHand, WithOld, WillAccount, Untouched, BeforeWill
  <1>42. ASSUME DeleteExpired PROVE WillAccount'
    BY <1>42, <1>0 DEF DeleteExpired, Typed, InHand, WithOld, WillAccount, Untouched, BeforeWill
  <1>43. ASSUME FindDueWill PROVE WillAccount'
    BY <1>43, <1>0 DEF FindDueWill, Typed, InHand, WithOld, WillAccount, Untouched, BeforeWill
  <1>44. ASSUME SendDelayedLWT PROVE WillAccount'
    <2>0. loop.at = "will"
      BY <1>44 DEF SendDelayedLWT
    <2>1. loop.at = "will" /\ loop.c \in Conns /\ (clients = 0 \/ clients \in Conns)
      BY <1>0, <2>0 DEF InHand, Typed
    <2>2. /\ loop' = [loop EXCEPT !.at = "willSent"]
          /\ willSent' = [willSent EXCEPT ![loop.c] = @ + 1]
          /\ will' = will \/ (clients # 0 /\ will' = [will EXCEPT ![clients] = "none"])
          /\ UNCHANGED <<at, open, delayed, goodbye>>
      BY <1>44 DEF SendDelayedLWT
    <2> QED
      BY <1>0, <2>1, <2>2 DEF Typed, WillAccount, Untouched, BeforeWill
  <1>45. ASSUME DeleteSentWill PROVE WillAccount'
    BY <1>45, <1>0 DEF DeleteSentWill, Typed, InHand, WithOld, WillAccount, Untouched, BeforeWill
  <1>46. CASE UNCHANGED vars
    BY <1>46 DEF vars, Typed, InHand, WithOld, WillAccount, Untouched, BeforeWill
  <1> QED
    BY <1>1, <1>2, <1>3, <1>4, <1>5, <1>6, <1>7, <1>8, <1>9, <1>10, <1>11, <1>12, <1>13, <1>14, <1>15, <1>16, <1>17, <1>18, <1>19, <1>20, <1>21, <1>22, <1>23, <1>24, <1>25, <1>26, <1>27, <1>28, <1>29, <1>30, <1>31, <1>32, <1>33, <1>34, <1>35, <1>36, <1>37, <1>38, <1>39, <1>40, <1>41, <1>42, <1>43, <1>44, <1>45, <1>46
       DEF Next, Handshake, ClientPacket, Attached, EventLoop
\* Every step keeps the count of connections.
LEMMA CountStep ==
  ASSUME Typed, CountIsRight, [Next]_vars
  PROVE  CountIsRight'
PROOF
  <1> DEFINE Still == UNCHANGED connected /\ Counted' = Counted
  <1> USE DEF Goes, server, client, local, history, InHandshake, Established, InCleanup, Typed, Counted
  <1>1. IsFiniteSet(Counted) /\ Cardinality(Counted) \in Nat
    <2>1. IsFiniteSet(Conns)
      BY SessionAssumption, FS_Interval DEF Conns
    <2> QED
      BY <2>1, FS_Subset, FS_CardinalityType
  <1>2. CASE Still
    BY <1>2 DEF CountIsRight
  <1>3. ASSUME NEW c \in Conns, Authenticate(c) PROVE CountIsRight'
    <2>1. connected' = connected + 1 /\ Counted' = Counted \cup {c} /\ c \notin Counted
      BY <1>3 DEF Authenticate
    <2> HIDE DEF Counted
    <2> QED
      BY <1>1, <2>1, FS_AddElement DEF CountIsRight
  <1>4. ASSUME NEW c \in Conns, HandshakeFails(c) \/ (OnDisconnect(c) /\ ~Still) \/ Delete(c) PROVE CountIsRight'
    <2>1. connected' = connected - 1 /\ Counted' = Counted \ {c} /\ c \in Counted
      BY <1>4 DEF HandshakeFails, OnDisconnect, Delete
    <2> HIDE DEF Counted
    <2> QED
      BY <1>1, <2>1, FS_RemoveElement DEF CountIsRight
  <1>5. ASSUME NEW c \in Conns, NEW k \in Kinds, NEW w \in Wills, Connect(c, k, w) PROVE Still
    <2>1. UNCHANGED connected /\ at[c] = "new" /\ (at' = [at EXCEPT ![c] = "gone"] \/ at' = [at EXCEPT ![c] = "authenticate"])
      BY <1>5 DEF Connect
    <2> QED
      BY <2>1
  <1>6. ASSUME NEW c \in Conns, Handshake(c), ~Authenticate(c), ~HandshakeFails(c) PROVE Still
    BY ZenonT(40), <1>6 DEF Handshake, Refuse, CountAfterRefusal, GetExisting, DisconnectExisting, TakeSubs, Unindex, ClearExisting,
         MarkAbandoned, MarkInherited, CloneInflight, InheritSubs, OrphanSubs, ForgetInflight, Register, SendConnack,
         UndelayWill, ResendInflight
  <1>7. ASSUME NEW c \in Conns, Attached(c), ~OnDisconnect(c), ~Delete(c) PROVE Still
    BY ZenonT(40), <1>7 DEF Attached, ReadTop, AddSubscription, AckSubscribe, DeleteSubscription, SendLWT, IssueWill, DropWill, ClearOwn,
         TakeOwnSubs, UnindexOwn
  <1>8. ASSUME NEW c \in Conns, ReadFails(c) \/ ClientPacket(c) PROVE Still
    BY <1>8 DEF ReadFails, ClientPacket, Subscribe, Unsubscribe, Puback, Disconnect, SecondConnect, IssueWill
  <1>9. ASSUME NEW c \in Conns, NEW m \in Msgs, WriteLoop(c, m) PROVE Still
    BY <1>9 DEF WriteLoop
  <1>10. ASSUME MatchSubscribers \/ GetSubscriber \/ PublishToClient \/ EventLoop PROVE Still
    BY <1>10 DEF MatchSubscribers, GetSubscriber, PublishToClient, EventLoop, FindExpired, DeleteExpired, FindDueWill,
         SendDelayedLWT, DeleteSentWill
  <1>11. CASE UNCHANGED vars
    BY <1>11, <1>2 DEF vars
  <1> HIDE DEF Still
  <1> QED
    BY <1>2, <1>3, <1>4, <1>5, <1>6, <1>7, <1>8, <1>9, <1>10, <1>11 DEF Next

\* What holds throughout, whatever overlaps.
Accounts == Typed /\ InHand /\ CountIsRight /\ WillAccount

\* The accounts hold initially.
LEMMA InitAccounts == Init => Accounts
PROOF
  <1> SUFFICES ASSUME Init PROVE Accounts
    OBVIOUS
  <1>1. Typed
    <2>1. 0 \in 0 .. MaxConns /\ 0 \in 0 .. MaxMsgs
      BY SessionAssumption
    <2>2. route \in [at : {"idle", "get", "publish"}, c : 0 .. MaxConns, m : 0 .. MaxMsgs]
      BY <2>1 DEF Init
    <2>3. loop \in [at : {"idle", "expire", "will", "willSent"}, c : 0 .. MaxConns]
      BY <2>1 DEF Init, Idle
    <2>4. at \in [Conns -> {"new", "authenticate", "gone"} \cup InHandshake \cup Established \cup InCleanup]
      BY DEF Init
    <2>5. open \in [Conns -> BOOLEAN] /\ takenOver \in [Conns -> BOOLEAN] /\ present \in [Conns -> BOOLEAN] /\ remembered \in BOOLEAN
      BY DEF Init
    <2>6. /\ kind \in [Conns -> AllKinds \cup {"none"}] /\ will \in [Conns -> {"none", "now", "delayed"}]
          /\ old \in [Conns -> 0 .. MaxConns] /\ willSent \in [Conns -> Nat]
      BY <2>1 DEF Init
    <2> QED
      BY <2>1, <2>2, <2>3, <2>4, <2>5, <2>6 DEF Init, Typed
  <1>2. InHand
    BY DEF Init, InHand, WithOld, Idle
  <1>3. CountIsRight
    <2>1. Counted = {}
      BY DEF Init, Counted
    <2> QED
      BY <2>1, FS_EmptySet DEF Init, CountIsRight
  <1>4. WillAccount
    BY DEF Init, WillAccount, Untouched, Conns, Idle
  <1> QED
    BY <1>1, <1>2, <1>3, <1>4 DEF Accounts

\* Every step keeps the accounts.
LEMMA StepAccounts == Accounts /\ [Next]_vars => Accounts'
BY TypeStep, InHandStep, CountStep, WillStep DEF Accounts

\* The accounts hold throughout.
THEOREM AccountsHold == Spec => []Accounts
BY InitAccounts, StepAccounts, PTL DEF Spec

\* Every variable keeps its type, whatever overlaps: the broker's count of connected clients
\* is that of the goroutines in attachClient, each counted once and discounted once.
THEOREM TypeCorrect == Spec => []TypeOK
PROOF
  <1>1. Accounts => TypeOK
    <2> SUFFICES ASSUME Accounts PROVE TypeOK
      OBVIOUS
    <2>1. connected \in 0 .. MaxConns
      <3>1. IsFiniteSet(Conns) /\ Cardinality(Conns) = MaxConns
        BY SessionAssumption, FS_Interval DEF Conns
      <3>2. Cardinality(Counted) \in Nat /\ Cardinality(Counted) <= Cardinality(Conns)
        BY <3>1, FS_Subset, FS_CardinalityType DEF Counted
      <3> QED
        BY <3>1, <3>2, SessionAssumption DEF Accounts, CountIsRight
    <2> QED
      BY <2>1 DEF Accounts, Typed, TypeOK
  <1> QED
    BY <1>1, AccountsHold, PTL

\* The will of a connection is published at most once, by sendLWT or by the event loop, and
\* never after its DISCONNECT, whatever overlaps.
THEOREM WillPublishedOnce == Spec => []WillOnce
PROOF
  <1>1. Accounts => WillOnce
    BY DEF Accounts, WillAccount, Untouched, WillOnce
  <1> QED
    BY <1>1, AccountsHold, PTL

-----------------------------------------------------------------------------
(* With no overlap and no expiry: the session.                              *)

Joining == {"get"} \cup WithOld \cup {"add"}
Joined  == {"connack", "undelay", "resend"}
Ending  == {"clearOwn", "takeOwn", "unindexOwn", "delete"}

NoSession == session = {} /\ owed = {} /\ ~remembered

\* Stopped and on its way out.
Kicked(d) == ~open[d] /\ at[d] \in {"read", "lwt", "noWill", "disconnected", "gone"}

\* One handshake at a time, none beside a publish or a connection whose session ends with it.
Alone ==
  /\ \A c, d \in Handshakes : c = d
  /\ Handshakes # {} => route.at = "idle"
  /\ \A c \in Handshakes : \A d \in Conns \ {c} :
       Expires(kind[d]) => at[d] \in {"new", "authenticate", "gone"}
  /\ loop.at # "expire"

\* Before it registers, nobody knows a connection, and it has nothing but what it inherits.
Unknown ==
  \A c \in Conns : at[c] \in {"new", "authenticate"} \cup Joining =>
    /\ clients # c /\ ~takenOver[c] /\ route.c # c /\ (\A d \in Conns : old[d] # c)
    /\ at[c] \notin {"orphan", "forget", "add"} => subs[c] = {}
    /\ at[c] \notin {"resubscribe", "orphan", "forget", "add"} => stored[c] = {}
    /\ at[c] # "add" => ~present[c]
    /\ ~present[c] /\ at[c] = "add" => subs[c] = {} 

\* Who is attached and was not taken over is registered; who was taken over is on its way out.
Registered ==
  /\ \A d \in Conns : takenOver[d] => Kicked(d)
  /\ \A d \in Conns : at[d] \in Joined \cup Established \cup InCleanup /\ ~takenOver[d] => clients = d
  /\ clients # 0 /\ takenOver[clients] =>
       \E c \in Conns : at[c] \in {"clone", "resubscribe", "orphan", "forget", "add"}

\* A handshake has the registered client in hand and has stopped it.
Inherits ==
  \A c \in Conns :
    /\ at[c] \in WithOld => clients # 0
    /\ at[c] \in WithOld \cup {"add"} => old[c] = clients
    /\ at[c] \in (WithOld \cup {"add"}) \ {"kick"} /\ clients # 0 => Kicked(clients)
    /\ at[c] \in {"clone", "resubscribe", "orphan", "forget", "add"} /\ clients # 0 => takenOver[clients]
    /\ at[c] \in {"takeSubs", "unindex", "clear", "mark"} => CleanStart(kind[c]) \/ NoSession
    /\ at[c] \in {"markInherit", "clone", "resubscribe", "orphan", "forget"} => ~CleanStart(kind[c])
    /\ at[c] \in {"add"} \cup Joined /\ present[c] => ~CleanStart(kind[c])
    /\ at[c] = "add" /\ ~present[c] => CleanStart(kind[c]) \/ NoSession
    /\ at[c] = "connack" /\ remembered => present[c]
    /\ at[c] = "resend" => present[c]

\* Who takes its own session apart is registered and the session has ended.
Ends ==
  /\ \A d \in Conns : at[d] \in Ending => clients = d /\ Expires(kind[d]) /\ ~takenOver[d] /\ NoSession
  /\ \A d \in Conns : at[d] \in {"unindexOwn", "delete"} => subs[d] = {}
  /\ clients = 0 => NoSession
  /\ clients # 0 /\ CleanVersion3(kind[clients]) /\ at[clients] \in {"connack", "gone"} => NoSession

\* What the index holds of a registered client, by the place of its goroutine.
Owns(d) == IF at[d] = "subAdd" THEN subs[d] \cup bag[d]
           ELSE IF at[d] = "unsubDelete" THEN subs[d] \ bag[d]
           ELSE IF at[d] = "unindexOwn" THEN bag[d] ELSE subs[d]

\* ... and in the course of a handshake.
Indexed ==
  /\ \A c \in Conns : at[c] = "unindex" => index = bag[c]
  /\ \A c \in Conns : at[c] \in {"clear", "mark"} => index = {}
  /\ \A c \in Conns : at[c] \in {"orphan", "forget", "add"} => index = subs[c]
  /\ (\A c \in Conns : at[c] \notin {"unindex", "clear", "mark", "orphan", "forget", "add"})
       => index = IF clients = 0 THEN {} ELSE Owns(clients)
  /\ \A d \in Conns : at[d] = "subAck" => bag[d] \subseteq subs[d]

\* Granted subscriptions are in the index unless a handshake is about to end the session.
Granted ==
  (\A c \in Conns : at[c] \notin {"unindex", "clear", "mark"} /\ (at[c] = "add" => present[c]))
    => session \subseteq index

\* Owed messages are with the client, or stored with the registered or the inheriting connection.
Stored ==
  /\ (\A c \in Conns : at[c] \notin {"mark", "resubscribe", "orphan", "forget", "add"})
       => owed \subseteq got \cup (IF clients = 0 THEN {} ELSE stored[clients])
  /\ \A c \in Conns : at[c] \in {"resubscribe", "orphan", "forget"} \/ (at[c] = "add" /\ present[c])
       => owed \subseteq got \cup stored[c]
  /\ route.at = "publish" => route.c = clients \/ ~remembered

\* The invariant of a session that nothing overlaps.
Serial ==
  /\ Alone /\ Unknown /\ Registered /\ Inherits /\ Ends /\ Indexed /\ Granted /\ Stored
  /\ SessionRemembered

\* What the steps of the wills and of the event loop leave alone; got grows.
Aside ==
  /\ UNCHANGED <<clients, index, at, kind, open, takenOver, subs, stored, local, route,
                 session, remembered, owed>>
  /\ got \subseteq got' /\ loop'.at # "expire"

\* A goroutine on its way out of the read loop, or back to its top.
Leaves(c) ==
  /\ \/ Goes(c, "top", IF open[c] THEN "read" ELSE "noWill") /\ UNCHANGED open
     \/ Goes(c, "read", "lwt") /\ UNCHANGED open
     \/ Goes(c, "lwt", "disconnected") /\ open' = [open EXCEPT ![c] = FALSE]
     \/ Goes(c, "noWill", "disconnected") /\ UNCHANGED open
  /\ UNCHANGED <<clients, index, kind, takenOver, subs, stored, local, route, loop, session, remembered, owed, got>>

\* With nothing expiring, the event loop, the writers and the wills stand aside.
LEMMA AsideSteps ==
  ASSUME ~MayExpire, Alone, EventLoop \/ (\E c \in Conns, m \in Msgs : WriteLoop(c, m)) \/ UNCHANGED vars
  PROVE  Aside
PROOF
  <1> USE DEF Aside, Alone, Idle, server, client, local, history
  <1>1. CASE FindExpired \/ DeleteExpired
    BY <1>1 DEF FindExpired, DeleteExpired
  <1>2. CASE FindDueWill \/ DeleteSentWill
    BY <1>2 DEF FindDueWill, DeleteSentWill
  <1>3. CASE SendDelayedLWT
    <2>1. /\ UNCHANGED <<clients, index, at, kind, open, takenOver, subs, stored, local, route, session, remembered, owed, got>>
          /\ loop.at = "will" /\ loop' = [loop EXCEPT !.at = "willSent"]
      BY <1>3 DEF SendDelayedLWT
    <2> QED
      BY <2>1
  <1>4. CASE \E c \in Conns, m \in Msgs : WriteLoop(c, m)
    BY <1>4 DEF WriteLoop
  <1>5. CASE UNCHANGED vars
    BY <1>5 DEF vars
  <1> QED
    BY <1>1, <1>2, <1>3, <1>4, <1>5 DEF EventLoop

\* The steps by which a goroutine leaves the read loop (Read, sendLWT, attachClient).
LEMMA LeavingSteps ==
  ASSUME NEW c \in Conns, ReadTop(c) \/ ReadFails(c) \/ SecondConnect(c) \/ SendLWT(c) \/ DropWill(c)
  PROVE  Leaves(c)
PROOF
  <1> USE DEF Leaves, IssueWill, server, client, local, history
  <1>1. CASE ReadTop(c) \/ ReadFails(c)
    BY <1>1 DEF ReadTop, ReadFails
  <1>2. CASE SecondConnect(c)
    BY <1>2 DEF SecondConnect
  <1>3. CASE SendLWT(c)
    BY <1>3 DEF SendLWT
  <1>4. CASE DropWill(c)
    BY <1>4 DEF DropWill
  <1> QED
    BY <1>1, <1>2, <1>3, <1>4

\* What sending the CONNACK does, without the events it may record.
LEMMA ConnackStep ==
  ASSUME NEW c \in Conns, SendConnack(c)
  PROVE  /\ open[c] /\ Goes(c, "connack", "undelay")
         /\ session' = IF present[c] THEN session ELSE {}
         /\ owed' = IF present[c] THEN owed ELSE {}
         /\ remembered' = ~Expires(kind[c])
         /\ UNCHANGED <<clients, index, kind, open, takenOver, subs, stored, local, route, loop, got>>
BY DEF SendConnack, server, client, local

\* Every step keeps handshakes apart from each other, from publishes and from ending sessions.
LEMMA AloneStep ==
  ASSUME Overlaps = {}, ~MayExpire, Typed, Alone, [Next]_vars
  PROVE  Alone'
PROOF
  <1> USE DEF Typed, Alone
  <1> USE DEF Goes, server, client, local, history, InHandshake, Established, InCleanup, Joining, Joined,
     Ending, WithOld, Handshakes, Others, Kicked, NoSession,
              CleanStart, Expires, CleanVersion3
  <1>0. 0 \notin Conns /\ \A c \in 0 .. MaxConns : c # 0 => c \in Conns
    BY DEF Conns
  <1>1. ASSUME NEW c \in Conns, NEW k \in Kinds, NEW w \in Wills, Connect(c, k, w)
        PROVE  Alone'
    BY <1>0, <1>1 DEF Connect
  <1>2. ASSUME NEW c \in Conns, Refuse(c) \/ Authenticate(c)
        PROVE  Alone'
    BY <1>0, <1>2 DEF Refuse, Authenticate, CountAfterRefusal
  <1>3. ASSUME NEW c \in Conns, GetExisting(c) \/ DisconnectExisting(c)
        PROVE  Alone'
    BY <1>0, <1>3 DEF GetExisting, DisconnectExisting, Stopped, Abandons
  <1>4. ASSUME NEW c \in Conns, TakeSubs(c) \/ Unindex(c)
        PROVE  Alone'
    BY <1>0, <1>4 DEF TakeSubs, Unindex, DroppedFromIndex
  <1>5. ASSUME NEW c \in Conns, ClearExisting(c) \/ MarkAbandoned(c)
        PROVE  Alone'
    BY <1>0, <1>5 DEF ClearExisting, MarkAbandoned
  <1>6. ASSUME NEW c \in Conns, MarkInherited(c) \/ CloneInflight(c)
        PROVE  Alone'
    BY <1>0, <1>6 DEF MarkInherited, CloneInflight, Cloned
  <1>7. ASSUME NEW c \in Conns, InheritSubs(c) \/ OrphanSubs(c) \/ ForgetInflight(c)
        PROVE  Alone'
    BY <1>0, <1>7 DEF InheritSubs, OrphanSubs, ForgetInflight, LeftInIndex, SessionPresent
  <1>8. ASSUME NEW c \in Conns, Register(c)
        PROVE  Alone'
    BY <1>0, <1>8 DEF Register
  <1>9. ASSUME NEW c \in Conns, SendConnack(c)
        PROVE  Alone'
    BY <1>0, <1>9, ConnackStep
  <1>10. ASSUME NEW c \in Conns, HandshakeFails(c) \/ UndelayWill(c) \/ ResendInflight(c)
        PROVE  Alone'
    BY <1>0, <1>10 DEF HandshakeFails, UndelayWill, ResendInflight
  <1>11. ASSUME NEW c \in Conns, Leaves(c)
        PROVE  Alone'
    BY <1>0, <1>11 DEF Leaves
  <1>12. ASSUME NEW c \in Conns, (\E f \in Filters : Subscribe(c, f)) \/ AddSubscription(c) \/ AckSubscribe(c)
        PROVE  Alone'
    BY <1>0, <1>12 DEF Subscribe, Receives, AddSubscription, AckSubscribe
  <1>13. ASSUME NEW c \in Conns, (\E f \in Filters : Unsubscribe(c, f)) \/ DeleteSubscription(c)
        PROVE  Alone'
    BY <1>0, <1>13 DEF Unsubscribe, Receives, DeleteSubscription
  <1>14. ASSUME NEW c \in Conns, NEW m \in Msgs, Puback(c, m)
        PROVE  Alone'
    BY <1>0, <1>14 DEF Puback, Receives
  <1>15. ASSUME NEW c \in Conns, NEW k \in AllKinds, Disconnect(c, k)
        PROVE  Alone'
    BY <1>0, <1>15 DEF Disconnect, Receives, Shortened
  <1>16. ASSUME NEW c \in Conns, OnDisconnect(c)
        PROVE  Alone'
    BY <1>0, <1>16 DEF OnDisconnect, EndsSession
  <1>17. ASSUME NEW c \in Conns, ClearOwn(c) \/ TakeOwnSubs(c)
        PROVE  Alone'
    BY <1>0, <1>17 DEF ClearOwn, TakeOwnSubs
  <1>18. ASSUME NEW c \in Conns, UnindexOwn(c) \/ Delete(c)
        PROVE  Alone'
    BY <1>0, <1>18 DEF UnindexOwn, Delete, DroppedFromIndex
  <1>19. ASSUME MatchSubscribers \/ GetSubscriber \/ PublishToClient
        PROVE  Alone'
    <2>1. CASE MatchSubscribers
      BY <1>0, <2>1 DEF MatchSubscribers
    <2>2. CASE GetSubscriber
      BY <1>0, <2>2 DEF GetSubscriber
    <2>3. CASE PublishToClient
      BY <1>0, <2>3 DEF PublishToClient
    <2> QED
      BY <1>19, <2>1, <2>2, <2>3
  <1>20. ASSUME Aside
        PROVE  Alone'
    BY <1>0, <1>20 DEF Aside
  <1>21. ASSUME EventLoop \/ (\E c \in Conns, m \in Msgs : WriteLoop(c, m)) \/ UNCHANGED vars
         PROVE  Alone'
    BY <1>20, <1>21, AsideSteps
  <1>22. ASSUME NEW c \in Conns, ReadTop(c) \/ ReadFails(c) \/ SecondConnect(c) \/ SendLWT(c) \/ DropWill(c)
         PROVE  Alone'
    BY <1>11, <1>22, LeavingSteps
  <1> HIDE DEF Goes, server, client, local, history
  <1> QED
    BY <1>1, <1>2, <1>3, <1>4, <1>5, <1>6, <1>7, <1>8, <1>9, <1>10, <1>12, <1>13, <1>14, <1>15, <1>16,
       <1>17, <1>18, <1>19, <1>21, <1>22
       DEF Next, Handshake, ClientPacket, Attached

\* Every step keeps a connection unknown until it registers.
LEMMA UnknownStep ==
  ASSUME Overlaps = {}, ~MayExpire, Typed, Alone, Unknown, [Next]_vars
  PROVE  Unknown'
PROOF
  <1> USE DEF Typed, Alone, Unknown
  <1> USE DEF Goes, server, client, local, history, InHandshake, Established, InCleanup, Joining, Joined,
     Ending, WithOld, Handshakes, Others, Kicked, NoSession,
              CleanStart, Expires, CleanVersion3
  <1>0. 0 \notin Conns /\ \A c \in 0 .. MaxConns : c # 0 => c \in Conns
    BY DEF Conns
  <1>1. ASSUME NEW c \in Conns, NEW k \in Kinds, NEW w \in Wills, Connect(c, k, w)
        PROVE  Unknown'
    BY <1>0, <1>1 DEF Connect
  <1>2. ASSUME NEW c \in Conns, Refuse(c) \/ Authenticate(c)
        PROVE  Unknown'
    BY <1>0, <1>2 DEF Refuse, Authenticate, CountAfterRefusal
  <1>3. ASSUME NEW c \in Conns, GetExisting(c) \/ DisconnectExisting(c)
        PROVE  Unknown'
    BY <1>0, <1>3 DEF GetExisting, DisconnectExisting, Stopped, Abandons
  <1>4. ASSUME NEW c \in Conns, TakeSubs(c) \/ Unindex(c)
        PROVE  Unknown'
    BY <1>0, <1>4 DEF TakeSubs, Unindex, DroppedFromIndex
  <1>5. ASSUME NEW c \in Conns, ClearExisting(c) \/ MarkAbandoned(c)
        PROVE  Unknown'
    BY <1>0, <1>5 DEF ClearExisting, MarkAbandoned
  <1>6. ASSUME NEW c \in Conns, MarkInherited(c) \/ CloneInflight(c)
        PROVE  Unknown'
    BY <1>0, <1>6 DEF MarkInherited, CloneInflight, Cloned
  <1>7. ASSUME NEW c \in Conns, InheritSubs(c) \/ OrphanSubs(c) \/ ForgetInflight(c)
        PROVE  Unknown'
    BY <1>0, <1>7 DEF InheritSubs, OrphanSubs, ForgetInflight, LeftInIndex, SessionPresent
  <1>8. ASSUME NEW c \in Conns, Register(c)
        PROVE  Unknown'
    BY <1>0, <1>8 DEF Register
  <1>9. ASSUME NEW c \in Conns, SendConnack(c)
        PROVE  Unknown'
    BY <1>0, <1>9, ConnackStep
  <1>10. ASSUME NEW c \in Conns, HandshakeFails(c) \/ UndelayWill(c) \/ ResendInflight(c)
        PROVE  Unknown'
    BY <1>0, <1>10 DEF HandshakeFails, UndelayWill, ResendInflight
  <1>11. ASSUME NEW c \in Conns, Leaves(c)
        PROVE  Unknown'
    BY <1>0, <1>11 DEF Leaves
  <1>12. ASSUME NEW c \in Conns, (\E f \in Filters : Subscribe(c, f)) \/ AddSubscription(c) \/ AckSubscribe(c)
        PROVE  Unknown'
    BY <1>0, <1>12 DEF Subscribe, Receives, AddSubscription, AckSubscribe
  <1>13. ASSUME NEW c \in Conns, (\E f \in Filters : Unsubscribe(c, f)) \/ DeleteSubscription(c)
        PROVE  Unknown'
    BY <1>0, <1>13 DEF Unsubscribe, Receives, DeleteSubscription
  <1>14. ASSUME NEW c \in Conns, NEW m \in Msgs, Puback(c, m)
        PROVE  Unknown'
    BY <1>0, <1>14 DEF Puback, Receives
  <1>15. ASSUME NEW c \in Conns, NEW k \in AllKinds, Disconnect(c, k)
        PROVE  Unknown'
    BY <1>0, <1>15 DEF Disconnect, Receives, Shortened
  <1>16. ASSUME NEW c \in Conns, OnDisconnect(c)
        PROVE  Unknown'
    BY <1>0, <1>16 DEF OnDisconnect, EndsSession
  <1>17. ASSUME NEW c \in Conns, ClearOwn(c) \/ TakeOwnSubs(c)
        PROVE  Unknown'
    BY <1>0, <1>17 DEF ClearOwn, TakeOwnSubs
  <1>18. ASSUME NEW c \in Conns, UnindexOwn(c) \/ Delete(c)
        PROVE  Unknown'
    BY <1>0, <1>18 DEF UnindexOwn, Delete, DroppedFromIndex
  <1>19. ASSUME MatchSubscribers \/ GetSubscriber \/ PublishToClient
        PROVE  Unknown'
    <2>1. CASE MatchSubscribers
      BY <1>0, <2>1 DEF MatchSubscribers
    <2>2. CASE GetSubscriber
      BY <1>0, <2>2 DEF GetSubscriber
    <2>3. CASE PublishToClient
      BY <1>0, <2>3 DEF PublishToClient
    <2> QED
      BY <1>19, <2>1, <2>2, <2>3
  <1>20. ASSUME Aside
        PROVE  Unknown'
    BY <1>0, <1>20 DEF Aside
  <1>21. ASSUME EventLoop \/ (\E c \in Conns, m \in Msgs : WriteLoop(c, m)) \/ UNCHANGED vars
         PROVE  Unknown'
    BY <1>20, <1>21, AsideSteps
  <1>22. ASSUME NEW c \in Conns, ReadTop(c) \/ ReadFails(c) \/ SecondConnect(c) \/ SendLWT(c) \/ DropWill(c)
         PROVE  Unknown'
    BY <1>11, <1>22, LeavingSteps
  <1> HIDE DEF Goes, server, client, local, history
  <1> QED
    BY <1>1, <1>2, <1>3, <1>4, <1>5, <1>6, <1>7, <1>8, <1>9, <1>10, <1>12, <1>13, <1>14, <1>15, <1>16,
       <1>17, <1>18, <1>19, <1>21, <1>22
       DEF Next, Handshake, ClientPacket, Attached

\* Every step keeps who is attached registered and who was taken over on its way out.
LEMMA RegisteredStep ==
  ASSUME Overlaps = {}, ~MayExpire, Typed, Alone, Registered, Inherits, [Next]_vars
  PROVE  Registered'
PROOF
  <1> USE DEF Typed, Alone, Registered, Inherits
  <1> USE DEF Goes, server, client, local, history, InHandshake, Established, InCleanup, Joining, Joined,
     Ending, WithOld, Handshakes, Others, Kicked, NoSession,
              CleanStart, Expires, CleanVersion3
  <1>0. 0 \notin Conns /\ \A c \in 0 .. MaxConns : c # 0 => c \in Conns
    BY DEF Conns
  <1>1. ASSUME NEW c \in Conns, NEW k \in Kinds, NEW w \in Wills, Connect(c, k, w)
        PROVE  Registered'
    BY <1>0, <1>1 DEF Connect
  <1>2. ASSUME NEW c \in Conns, Refuse(c) \/ Authenticate(c)
        PROVE  Registered'
    BY <1>0, <1>2 DEF Refuse, Authenticate, CountAfterRefusal
  <1>3. ASSUME NEW c \in Conns, GetExisting(c) \/ DisconnectExisting(c)
        PROVE  Registered'
    BY <1>0, <1>3 DEF GetExisting, DisconnectExisting, Stopped, Abandons
  <1>4. ASSUME NEW c \in Conns, TakeSubs(c) \/ Unindex(c)
        PROVE  Registered'
    BY <1>0, <1>4 DEF TakeSubs, Unindex, DroppedFromIndex
  <1>5. ASSUME NEW c \in Conns, ClearExisting(c) \/ MarkAbandoned(c)
        PROVE  Registered'
    BY <1>0, <1>5 DEF ClearExisting, MarkAbandoned
  <1>6. ASSUME NEW c \in Conns, MarkInherited(c) \/ CloneInflight(c)
        PROVE  Registered'
    BY <1>0, <1>6 DEF MarkInherited, CloneInflight, Cloned
  <1>7. ASSUME NEW c \in Conns, InheritSubs(c) \/ OrphanSubs(c) \/ ForgetInflight(c)
        PROVE  Registered'
    BY <1>0, <1>7 DEF InheritSubs, OrphanSubs, ForgetInflight, LeftInIndex, SessionPresent
  <1>8. ASSUME NEW c \in Conns, Register(c)
        PROVE  Registered'
    BY <1>0, <1>8 DEF Register
  <1>9. ASSUME NEW c \in Conns, SendConnack(c)
        PROVE  Registered'
    BY <1>0, <1>9, ConnackStep
  <1>10. ASSUME NEW c \in Conns, HandshakeFails(c) \/ UndelayWill(c) \/ ResendInflight(c)
        PROVE  Registered'
    BY <1>0, <1>10 DEF HandshakeFails, UndelayWill, ResendInflight
  <1>11. ASSUME NEW c \in Conns, Leaves(c)
        PROVE  Registered'
    BY <1>0, <1>11 DEF Leaves
  <1>12. ASSUME NEW c \in Conns, (\E f \in Filters : Subscribe(c, f)) \/ AddSubscription(c) \/ AckSubscribe(c)
        PROVE  Registered'
    BY <1>0, <1>12 DEF Subscribe, Receives, AddSubscription, AckSubscribe
  <1>13. ASSUME NEW c \in Conns, (\E f \in Filters : Unsubscribe(c, f)) \/ DeleteSubscription(c)
        PROVE  Registered'
    BY <1>0, <1>13 DEF Unsubscribe, Receives, DeleteSubscription
  <1>14. ASSUME NEW c \in Conns, NEW m \in Msgs, Puback(c, m)
        PROVE  Registered'
    BY <1>0, <1>14 DEF Puback, Receives
  <1>15. ASSUME NEW c \in Conns, NEW k \in AllKinds, Disconnect(c, k)
        PROVE  Registered'
    BY <1>0, <1>15 DEF Disconnect, Receives, Shortened
  <1>16. ASSUME NEW c \in Conns, OnDisconnect(c)
        PROVE  Registered'
    BY <1>0, <1>16 DEF OnDisconnect, EndsSession
  <1>17. ASSUME NEW c \in Conns, ClearOwn(c) \/ TakeOwnSubs(c)
        PROVE  Registered'
    <2>1. CASE ClearOwn(c)
      BY <1>0, <2>1 DEF ClearOwn
    <2>2. CASE TakeOwnSubs(c)
      BY <1>0, <2>2 DEF TakeOwnSubs
    <2> QED
      BY <1>17, <2>1, <2>2
  <1>18. ASSUME NEW c \in Conns, UnindexOwn(c) \/ Delete(c)
        PROVE  Registered'
    BY <1>0, <1>18 DEF UnindexOwn, Delete, DroppedFromIndex
  <1>19. ASSUME MatchSubscribers \/ GetSubscriber \/ PublishToClient
        PROVE  Registered'
    <2>1. CASE MatchSubscribers
      BY <1>0, <2>1 DEF MatchSubscribers
    <2>2. CASE GetSubscriber
      BY <1>0, <2>2 DEF GetSubscriber
    <2>3. CASE PublishToClient
      BY <1>0, <2>3 DEF PublishToClient
    <2> QED
      BY <1>19, <2>1, <2>2, <2>3
  <1>20. ASSUME Aside
        PROVE  Registered'
    BY <1>0, <1>20 DEF Aside
  <1>21. ASSUME EventLoop \/ (\E c \in Conns, m \in Msgs : WriteLoop(c, m)) \/ UNCHANGED vars
         PROVE  Registered'
    BY <1>20, <1>21, AsideSteps
  <1>22. ASSUME NEW c \in Conns, ReadTop(c) \/ ReadFails(c) \/ SecondConnect(c) \/ SendLWT(c) \/ DropWill(c)
         PROVE  Registered'
    BY <1>11, <1>22, LeavingSteps
  <1> HIDE DEF Goes, server, client, local, history
  <1> QED
    BY <1>1, <1>2, <1>3, <1>4, <1>5, <1>6, <1>7, <1>8, <1>9, <1>10, <1>12, <1>13, <1>14, <1>15, <1>16,
       <1>17, <1>18, <1>19, <1>21, <1>22
       DEF Next, Handshake, ClientPacket, Attached

\* Every step keeps what a handshake has in hand.
LEMMA InheritsStep ==
  ASSUME Overlaps = {}, ~MayExpire, Typed, Alone, Unknown, Registered, Inherits, Ends, [Next]_vars
  PROVE  Inherits'
PROOF
  <1> USE DEF Typed, Alone, Unknown, Registered, Inherits, Ends
  <1> USE DEF Goes, server, client, local, history, InHandshake, Established, InCleanup, Joining, Joined,
     Ending, WithOld, Handshakes, Others, Kicked, NoSession,
              CleanStart, Expires, CleanVersion3
  <1>0. 0 \notin Conns /\ \A c \in 0 .. MaxConns : c # 0 => c \in Conns
    BY DEF Conns
  <1>1. ASSUME NEW c \in Conns, NEW k \in Kinds, NEW w \in Wills, Connect(c, k, w)
        PROVE  Inherits'
    BY <1>0, <1>1 DEF Connect
  <1>2. ASSUME NEW c \in Conns, Refuse(c) \/ Authenticate(c)
        PROVE  Inherits'
    BY <1>0, <1>2 DEF Refuse, Authenticate, CountAfterRefusal
  <1>3. ASSUME NEW c \in Conns, GetExisting(c) \/ DisconnectExisting(c)
        PROVE  Inherits'
    BY <1>0, <1>3 DEF GetExisting, DisconnectExisting, Stopped, Abandons
  <1>4. ASSUME NEW c \in Conns, TakeSubs(c) \/ Unindex(c)
        PROVE  Inherits'
    BY <1>0, <1>4 DEF TakeSubs, Unindex, DroppedFromIndex
  <1>5. ASSUME NEW c \in Conns, ClearExisting(c) \/ MarkAbandoned(c)
        PROVE  Inherits'
    BY <1>0, <1>5 DEF ClearExisting, MarkAbandoned
  <1>6. ASSUME NEW c \in Conns, MarkInherited(c) \/ CloneInflight(c)
        PROVE  Inherits'
    BY <1>0, <1>6 DEF MarkInherited, CloneInflight, Cloned
  <1>7. ASSUME NEW c \in Conns, InheritSubs(c) \/ OrphanSubs(c) \/ ForgetInflight(c)
        PROVE  Inherits'
    BY <1>0, <1>7 DEF InheritSubs, OrphanSubs, ForgetInflight, LeftInIndex, SessionPresent
  <1>8. ASSUME NEW c \in Conns, Register(c)
        PROVE  Inherits'
    BY <1>0, <1>8 DEF Register
  <1>9. ASSUME NEW c \in Conns, SendConnack(c)
        PROVE  Inherits'
    BY <1>0, <1>9, ConnackStep
  <1>10. ASSUME NEW c \in Conns, HandshakeFails(c) \/ UndelayWill(c) \/ ResendInflight(c)
        PROVE  Inherits'
    BY <1>0, <1>10 DEF HandshakeFails, UndelayWill, ResendInflight
  <1>11. ASSUME NEW c \in Conns, Leaves(c)
        PROVE  Inherits'
    BY <1>0, <1>11 DEF Leaves
  <1>12. ASSUME NEW c \in Conns, (\E f \in Filters : Subscribe(c, f)) \/ AddSubscription(c) \/ AckSubscribe(c)
        PROVE  Inherits'
    BY <1>0, <1>12 DEF Subscribe, Receives, AddSubscription, AckSubscribe
  <1>13. ASSUME NEW c \in Conns, (\E f \in Filters : Unsubscribe(c, f)) \/ DeleteSubscription(c)
        PROVE  Inherits'
    BY <1>0, <1>13 DEF Unsubscribe, Receives, DeleteSubscription
  <1>14. ASSUME NEW c \in Conns, NEW m \in Msgs, Puback(c, m)
        PROVE  Inherits'
    BY <1>0, <1>14 DEF Puback, Receives
  <1>15. ASSUME NEW c \in Conns, NEW k \in AllKinds, Disconnect(c, k)
        PROVE  Inherits'
    BY <1>0, <1>15 DEF Disconnect, Receives, Shortened
  <1>16. ASSUME NEW c \in Conns, OnDisconnect(c)
        PROVE  Inherits'
    BY <1>0, <1>16 DEF OnDisconnect, EndsSession
  <1>17. ASSUME NEW c \in Conns, ClearOwn(c) \/ TakeOwnSubs(c)
        PROVE  Inherits'
    BY <1>0, <1>17 DEF ClearOwn, TakeOwnSubs
  <1>18. ASSUME NEW c \in Conns, UnindexOwn(c) \/ Delete(c)
        PROVE  Inherits'
    BY <1>0, <1>18 DEF UnindexOwn, Delete, DroppedFromIndex
  <1>19. ASSUME MatchSubscribers \/ GetSubscriber \/ PublishToClient
        PROVE  Inherits'
    <2>1. CASE MatchSubscribers
      BY <1>0, <2>1 DEF MatchSubscribers
    <2>2. CASE GetSubscriber
      BY <1>0, <2>2 DEF GetSubscriber
    <2>3. CASE PublishToClient
      BY <1>0, <2>3 DEF PublishToClient
    <2> QED
      BY <1>19, <2>1, <2>2, <2>3
  <1>20. ASSUME Aside
        PROVE  Inherits'
    BY <1>0, <1>20 DEF Aside
  <1>21. ASSUME EventLoop \/ (\E c \in Conns, m \in Msgs : WriteLoop(c, m)) \/ UNCHANGED vars
         PROVE  Inherits'
    BY <1>20, <1>21, AsideSteps
  <1>22. ASSUME NEW c \in Conns, ReadTop(c) \/ ReadFails(c) \/ SecondConnect(c) \/ SendLWT(c) \/ DropWill(c)
         PROVE  Inherits'
    BY <1>11, <1>22, LeavingSteps
  <1> HIDE DEF Goes, server, client, local, history
  <1> QED
    BY <1>1, <1>2, <1>3, <1>4, <1>5, <1>6, <1>7, <1>8, <1>9, <1>10, <1>12, <1>13, <1>14, <1>15, <1>16,
       <1>17, <1>18, <1>19, <1>21, <1>22
       DEF Next, Handshake, ClientPacket, Attached

\* Every step keeps what holds where a session ends.
LEMMA EndsStep ==
  ASSUME Overlaps = {}, ~MayExpire, Typed, Alone, Unknown, Registered, Inherits, Ends, [Next]_vars
  PROVE  Ends'
PROOF
  <1> USE DEF Typed, Alone, Unknown, Registered, Inherits, Ends
  <1> USE DEF Goes, server, client, local, history, InHandshake, Established, InCleanup, Joining, Joined,
     Ending, WithOld, Handshakes, Others, Kicked, NoSession,
              CleanStart, Expires, CleanVersion3
  <1>0. 0 \notin Conns /\ \A c \in 0 .. MaxConns : c # 0 => c \in Conns
    BY DEF Conns
  <1>1. ASSUME NEW c \in Conns, NEW k \in Kinds, NEW w \in Wills, Connect(c, k, w)
        PROVE  Ends'
    BY <1>0, <1>1 DEF Connect
  <1>2. ASSUME NEW c \in Conns, Refuse(c) \/ Authenticate(c)
        PROVE  Ends'
    BY <1>0, <1>2 DEF Refuse, Authenticate, CountAfterRefusal
  <1>3. ASSUME NEW c \in Conns, GetExisting(c) \/ DisconnectExisting(c)
        PROVE  Ends'
    BY <1>0, <1>3 DEF GetExisting, DisconnectExisting, Stopped, Abandons
  <1>4. ASSUME NEW c \in Conns, TakeSubs(c) \/ Unindex(c)
        PROVE  Ends'
    BY <1>0, <1>4 DEF TakeSubs, Unindex, DroppedFromIndex
  <1>5. ASSUME NEW c \in Conns, ClearExisting(c) \/ MarkAbandoned(c)
        PROVE  Ends'
    BY <1>0, <1>5 DEF ClearExisting, MarkAbandoned
  <1>6. ASSUME NEW c \in Conns, MarkInherited(c) \/ CloneInflight(c)
        PROVE  Ends'
    BY <1>0, <1>6 DEF MarkInherited, CloneInflight, Cloned
  <1>7. ASSUME NEW c \in Conns, InheritSubs(c) \/ OrphanSubs(c) \/ ForgetInflight(c)
        PROVE  Ends'
    BY <1>0, <1>7 DEF InheritSubs, OrphanSubs, ForgetInflight, LeftInIndex, SessionPresent
  <1>8. ASSUME NEW c \in Conns, Register(c)
        PROVE  Ends'
    BY <1>0, <1>8 DEF Register
  <1>9. ASSUME NEW c \in Conns, SendConnack(c)
        PROVE  Ends'
    BY <1>0, <1>9, ConnackStep
  <1>10. ASSUME NEW c \in Conns, HandshakeFails(c) \/ UndelayWill(c) \/ ResendInflight(c)
        PROVE  Ends'
    BY <1>0, <1>10 DEF HandshakeFails, UndelayWill, ResendInflight
  <1>11. ASSUME NEW c \in Conns, Leaves(c)
        PROVE  Ends'
    BY <1>0, <1>11 DEF Leaves
  <1>12. ASSUME NEW c \in Conns, (\E f \in Filters : Subscribe(c, f)) \/ AddSubscription(c) \/ AckSubscribe(c)
        PROVE  Ends'
    BY <1>0, <1>12 DEF Subscribe, Receives, AddSubscription, AckSubscribe
  <1>13. ASSUME NEW c \in Conns, (\E f \in Filters : Unsubscribe(c, f)) \/ DeleteSubscription(c)
        PROVE  Ends'
    BY <1>0, <1>13 DEF Unsubscribe, Receives, DeleteSubscription
  <1>14. ASSUME NEW c \in Conns, NEW m \in Msgs, Puback(c, m)
        PROVE  Ends'
    BY <1>0, <1>14 DEF Puback, Receives
  <1>15. ASSUME NEW c \in Conns, NEW k \in AllKinds, Disconnect(c, k)
        PROVE  Ends'
    BY <1>0, <1>15 DEF Disconnect, Receives, Shortened
  <1>16. ASSUME NEW c \in Conns, OnDisconnect(c)
        PROVE  Ends'
    BY <1>0, <1>16 DEF OnDisconnect, EndsSession
  <1>17. ASSUME NEW c \in Conns, ClearOwn(c) \/ TakeOwnSubs(c)
        PROVE  Ends'
    BY <1>0, <1>17 DEF ClearOwn, TakeOwnSubs
  <1>18. ASSUME NEW c \in Conns, UnindexOwn(c) \/ Delete(c)
        PROVE  Ends'
    BY <1>0, <1>18 DEF UnindexOwn, Delete, DroppedFromIndex
  <1>19. ASSUME MatchSubscribers \/ GetSubscriber \/ PublishToClient
        PROVE  Ends'
    <2>1. CASE MatchSubscribers
      BY <1>0, <2>1 DEF MatchSubscribers
    <2>2. CASE GetSubscriber
      BY <1>0, <2>2 DEF GetSubscriber
    <2>3. CASE PublishToClient
      BY <1>0, <2>3 DEF PublishToClient
    <2> QED
      BY <1>19, <2>1, <2>2, <2>3
  <1>20. ASSUME Aside
        PROVE  Ends'
    BY <1>0, <1>20 DEF Aside
  <1>21. ASSUME EventLoop \/ (\E c \in Conns, m \in Msgs : WriteLoop(c, m)) \/ UNCHANGED vars
         PROVE  Ends'
    BY <1>20, <1>21, AsideSteps
  <1>22. ASSUME NEW c \in Conns, ReadTop(c) \/ ReadFails(c) \/ SecondConnect(c) \/ SendLWT(c) \/ DropWill(c)
         PROVE  Ends'
    BY <1>11, <1>22, LeavingSteps
  <1> HIDE DEF Goes, server, client, local, history
  <1> QED
    BY <1>1, <1>2, <1>3, <1>4, <1>5, <1>6, <1>7, <1>8, <1>9, <1>10, <1>12, <1>13, <1>14, <1>15, <1>16,
       <1>17, <1>18, <1>19, <1>21, <1>22
       DEF Next, Handshake, ClientPacket, Attached

\* Every step keeps the index with the registered client, or with the handshake that moves it.
LEMMA IndexedStep ==
  ASSUME Overlaps = {}, ~MayExpire, Typed, Alone, Unknown, Registered, Inherits, Ends, Indexed, [Next]_vars
  PROVE  Indexed'
PROOF
  <1> USE DEF Typed, Alone, Unknown, Registered, Inherits, Ends, Indexed, Owns
  <1> USE DEF Goes, server, client, local, history, InHandshake, Established, InCleanup, Joining, Joined,
     Ending, WithOld, Handshakes, Others, Kicked, NoSession,
              CleanStart, Expires, CleanVersion3
  <1>0. 0 \notin Conns /\ \A c \in 0 .. MaxConns : c # 0 => c \in Conns
    BY DEF Conns
  <1>1. ASSUME NEW c \in Conns, NEW k \in Kinds, NEW w \in Wills, Connect(c, k, w)
        PROVE  Indexed'
    BY <1>0, <1>1 DEF Connect
  <1>2. ASSUME NEW c \in Conns, Refuse(c) \/ Authenticate(c)
        PROVE  Indexed'
    <2>1. CASE Refuse(c)
      BY <1>0, <2>1 DEF Refuse, CountAfterRefusal
    <2>2. CASE Authenticate(c)
      BY <1>0, <2>2 DEF Authenticate
    <2> QED
      BY <1>2, <2>1, <2>2
  <1>3. ASSUME NEW c \in Conns, GetExisting(c) \/ DisconnectExisting(c)
        PROVE  Indexed'
    <2>1. CASE GetExisting(c)
      <3>1. at[c] = "get" /\ \A d \in Conns \ {c} : at[d] \notin InHandshake
        BY <2>1 DEF GetExisting
      <3>2. subs[c] = {}
        BY <3>1
      <3>3. UNCHANGED <<index, subs, clients, bag>>
        BY <2>1 DEF GetExisting
      <3>4. index = IF clients = 0 THEN {} ELSE Owns(clients)
        BY <3>1
      <3>5. at' = [at EXCEPT ![c] = IF clients = 0 THEN "add" ELSE "kick"] /\ (clients # 0 => clients # c /\ clients \in Conns)
        BY <1>0, <2>1, <3>1 DEF GetExisting
      <3>6. clients # 0 => Owns(clients)' = Owns(clients)
        BY <3>3, <3>5
      <3> QED
        BY <3>1, <3>2, <3>3, <3>4, <3>5, <3>6
    <2>2. CASE DisconnectExisting(c)
      BY <1>0, <2>2 DEF DisconnectExisting, Stopped, Abandons
    <2> QED
      BY <1>3, <2>1, <2>2
  <1>4. ASSUME NEW c \in Conns, TakeSubs(c) \/ Unindex(c)
        PROVE  Indexed'
    <2>1. CASE TakeSubs(c)
      BY <1>0, <2>1 DEF TakeSubs
    <2>2. CASE Unindex(c)
      BY <1>0, <2>2 DEF Unindex, DroppedFromIndex
    <2> QED
      BY <1>4, <2>1, <2>2
  <1>5. ASSUME NEW c \in Conns, ClearExisting(c) \/ MarkAbandoned(c)
        PROVE  Indexed'
    <2>1. CASE ClearExisting(c)
      BY <1>0, <2>1 DEF ClearExisting
    <2>2. CASE MarkAbandoned(c)
      <3>1. at[c] = "mark" /\ \A d \in Conns \ {c} : at[d] \notin InHandshake
        BY <2>2 DEF MarkAbandoned
      <3>2. subs[c] = {}
        BY <3>1
      <3>3. UNCHANGED <<index, subs, clients, bag>>
        BY <2>2 DEF MarkAbandoned
      <3>4. at' = [at EXCEPT ![c] = "add"] /\ index = {}
        BY <2>2 DEF MarkAbandoned
      <3> QED
        BY <3>1, <3>2, <3>3, <3>4
    <2> QED
      BY <1>5, <2>1, <2>2
  <1>6. ASSUME NEW c \in Conns, MarkInherited(c) \/ CloneInflight(c)
        PROVE  Indexed'
    <2>1. CASE MarkInherited(c)
      BY <1>0, <2>1 DEF MarkInherited
    <2>2. CASE CloneInflight(c)
      BY <1>0, <2>2 DEF CloneInflight, Cloned
    <2> QED
      BY <1>6, <2>1, <2>2
  <1>7. ASSUME NEW c \in Conns, InheritSubs(c) \/ OrphanSubs(c) \/ ForgetInflight(c)
        PROVE  Indexed'
    <2>1. CASE InheritSubs(c)
      BY <1>0, <2>1 DEF InheritSubs
    <2>2. CASE OrphanSubs(c)
      BY <1>0, <2>2 DEF OrphanSubs, LeftInIndex
    <2>3. CASE ForgetInflight(c)
      BY <1>0, <2>3 DEF ForgetInflight, SessionPresent
    <2> QED
      BY <1>7, <2>1, <2>2, <2>3
  <1>8. ASSUME NEW c \in Conns, Register(c)
        PROVE  Indexed'
    BY <1>0, <1>8 DEF Register
  <1>9. ASSUME NEW c \in Conns, SendConnack(c)
        PROVE  Indexed'
    BY <1>0, <1>9, ConnackStep
  <1>10. ASSUME NEW c \in Conns, HandshakeFails(c) \/ UndelayWill(c) \/ ResendInflight(c)
        PROVE  Indexed'
    <2>1. CASE HandshakeFails(c)
      BY <1>0, <2>1 DEF HandshakeFails
    <2>2. CASE UndelayWill(c)
      BY <1>0, <2>2 DEF UndelayWill
    <2>3. CASE ResendInflight(c)
      BY <1>0, <2>3 DEF ResendInflight
    <2> QED
      BY <1>10, <2>1, <2>2, <2>3
  <1>11. ASSUME NEW c \in Conns, Leaves(c)
        PROVE  Indexed'
    BY <1>0, <1>11 DEF Leaves
  <1>12. ASSUME NEW c \in Conns, (\E f \in Filters : Subscribe(c, f)) \/ AddSubscription(c) \/ AckSubscribe(c)
        PROVE  Indexed'
    <2>1. CASE (\E f \in Filters : Subscribe(c, f))
      BY <1>0, <2>1 DEF Subscribe, Receives
    <2>2. CASE AddSubscription(c)
      BY <1>0, <2>2 DEF AddSubscription
    <2>3. CASE AckSubscribe(c)
      BY <1>0, <2>3 DEF AckSubscribe
    <2> QED
      BY <1>12, <2>1, <2>2, <2>3
  <1>13. ASSUME NEW c \in Conns, (\E f \in Filters : Unsubscribe(c, f)) \/ DeleteSubscription(c)
        PROVE  Indexed'
    <2>1. CASE (\E f \in Filters : Unsubscribe(c, f))
      BY <1>0, <2>1 DEF Unsubscribe, Receives
    <2>2. CASE DeleteSubscription(c)
      BY <1>0, <2>2 DEF DeleteSubscription
    <2> QED
      BY <1>13, <2>1, <2>2
  <1>14. ASSUME NEW c \in Conns, NEW m \in Msgs, Puback(c, m)
        PROVE  Indexed'
    BY <1>0, <1>14 DEF Puback, Receives
  <1>15. ASSUME NEW c \in Conns, NEW k \in AllKinds, Disconnect(c, k)
        PROVE  Indexed'
    BY <1>0, <1>15 DEF Disconnect, Receives, Shortened
  <1>16. ASSUME NEW c \in Conns, OnDisconnect(c)
        PROVE  Indexed'
    BY <1>0, <1>16 DEF OnDisconnect, EndsSession
  <1>17. ASSUME NEW c \in Conns, ClearOwn(c) \/ TakeOwnSubs(c)
        PROVE  Indexed'
    <2>1. CASE ClearOwn(c)
      BY <1>0, <2>1 DEF ClearOwn
    <2>2. CASE TakeOwnSubs(c)
      BY <1>0, <2>2 DEF TakeOwnSubs
    <2> QED
      BY <1>17, <2>1, <2>2
  <1>18. ASSUME NEW c \in Conns, UnindexOwn(c) \/ Delete(c)
        PROVE  Indexed'
    <2>1. CASE UnindexOwn(c)
      BY <1>0, <2>1 DEF UnindexOwn, DroppedFromIndex
    <2>2. CASE Delete(c)
      BY <1>0, <2>2 DEF Delete
    <2> QED
      BY <1>18, <2>1, <2>2
  <1>19. ASSUME MatchSubscribers \/ GetSubscriber \/ PublishToClient
        PROVE  Indexed'
    <2>1. CASE MatchSubscribers
      BY <1>0, <2>1 DEF MatchSubscribers
    <2>2. CASE GetSubscriber
      BY <1>0, <2>2 DEF GetSubscriber
    <2>3. CASE PublishToClient
      BY <1>0, <2>3 DEF PublishToClient
    <2> QED
      BY <1>19, <2>1, <2>2, <2>3
  <1>20. ASSUME Aside
        PROVE  Indexed'
    BY <1>0, <1>20 DEF Aside
  <1>21. ASSUME EventLoop \/ (\E c \in Conns, m \in Msgs : WriteLoop(c, m)) \/ UNCHANGED vars
         PROVE  Indexed'
    BY <1>20, <1>21, AsideSteps
  <1>22. ASSUME NEW c \in Conns, ReadTop(c) \/ ReadFails(c) \/ SecondConnect(c) \/ SendLWT(c) \/ DropWill(c)
         PROVE  Indexed'
    BY <1>11, <1>22, LeavingSteps
  <1> HIDE DEF Goes, server, client, local, history
  <1> QED
    BY <1>1, <1>2, <1>3, <1>4, <1>5, <1>6, <1>7, <1>8, <1>9, <1>10, <1>12, <1>13, <1>14, <1>15, <1>16,
       <1>17, <1>18, <1>19, <1>21, <1>22
       DEF Next, Handshake, ClientPacket, Attached

\* Every step keeps the granted subscriptions indexed.
LEMMA GrantedStep ==
  ASSUME Overlaps = {}, ~MayExpire, Typed, Alone, Unknown, Registered, Inherits, Ends, Indexed, Granted,
     [Next]_vars
  PROVE  Granted'
PROOF
  <1> USE DEF Typed, Alone, Unknown, Registered, Inherits, Ends, Indexed, Granted, Owns
  <1> USE DEF Goes, server, client, local, history, InHandshake, Established, InCleanup, Joining, Joined,
     Ending, WithOld, Handshakes, Others, Kicked, NoSession,
              CleanStart, Expires, CleanVersion3
  <1>0. 0 \notin Conns /\ \A c \in 0 .. MaxConns : c # 0 => c \in Conns
    BY DEF Conns
  <1>1. ASSUME NEW c \in Conns, NEW k \in Kinds, NEW w \in Wills, Connect(c, k, w)
        PROVE  Granted'
    BY <1>0, <1>1 DEF Connect
  <1>2. ASSUME NEW c \in Conns, Refuse(c) \/ Authenticate(c)
        PROVE  Granted'
    BY <1>0, <1>2 DEF Refuse, Authenticate, CountAfterRefusal
  <1>3. ASSUME NEW c \in Conns, GetExisting(c) \/ DisconnectExisting(c)
        PROVE  Granted'
    BY <1>0, <1>3 DEF GetExisting, DisconnectExisting, Stopped, Abandons
  <1>4. ASSUME NEW c \in Conns, TakeSubs(c) \/ Unindex(c)
        PROVE  Granted'
    BY <1>0, <1>4 DEF TakeSubs, Unindex, DroppedFromIndex
  <1>5. ASSUME NEW c \in Conns, ClearExisting(c) \/ MarkAbandoned(c)
        PROVE  Granted'
    BY <1>0, <1>5 DEF ClearExisting, MarkAbandoned
  <1>6. ASSUME NEW c \in Conns, MarkInherited(c) \/ CloneInflight(c)
        PROVE  Granted'
    BY <1>0, <1>6 DEF MarkInherited, CloneInflight, Cloned
  <1>7. ASSUME NEW c \in Conns, InheritSubs(c) \/ OrphanSubs(c) \/ ForgetInflight(c)
        PROVE  Granted'
    BY <1>0, <1>7 DEF InheritSubs, OrphanSubs, ForgetInflight, LeftInIndex, SessionPresent
  <1>8. ASSUME NEW c \in Conns, Register(c)
        PROVE  Granted'
    BY <1>0, <1>8 DEF Register
  <1>9. ASSUME NEW c \in Conns, SendConnack(c)
        PROVE  Granted'
    BY <1>0, <1>9, ConnackStep
  <1>10. ASSUME NEW c \in Conns, HandshakeFails(c) \/ UndelayWill(c) \/ ResendInflight(c)
        PROVE  Granted'
    BY <1>0, <1>10 DEF HandshakeFails, UndelayWill, ResendInflight
  <1>11. ASSUME NEW c \in Conns, Leaves(c)
        PROVE  Granted'
    BY <1>0, <1>11 DEF Leaves
  <1>12. ASSUME NEW c \in Conns, (\E f \in Filters : Subscribe(c, f)) \/ AddSubscription(c) \/ AckSubscribe(c)
        PROVE  Granted'
    BY <1>0, <1>12 DEF Subscribe, Receives, AddSubscription, AckSubscribe
  <1>13. ASSUME NEW c \in Conns, (\E f \in Filters : Unsubscribe(c, f)) \/ DeleteSubscription(c)
        PROVE  Granted'
    BY <1>0, <1>13 DEF Unsubscribe, Receives, DeleteSubscription
  <1>14. ASSUME NEW c \in Conns, NEW m \in Msgs, Puback(c, m)
        PROVE  Granted'
    BY <1>0, <1>14 DEF Puback, Receives
  <1>15. ASSUME NEW c \in Conns, NEW k \in AllKinds, Disconnect(c, k)
        PROVE  Granted'
    BY <1>0, <1>15 DEF Disconnect, Receives, Shortened
  <1>16. ASSUME NEW c \in Conns, OnDisconnect(c)
        PROVE  Granted'
    BY <1>0, <1>16 DEF OnDisconnect, EndsSession
  <1>17. ASSUME NEW c \in Conns, ClearOwn(c) \/ TakeOwnSubs(c)
        PROVE  Granted'
    BY <1>0, <1>17 DEF ClearOwn, TakeOwnSubs
  <1>18. ASSUME NEW c \in Conns, UnindexOwn(c) \/ Delete(c)
        PROVE  Granted'
    BY <1>0, <1>18 DEF UnindexOwn, Delete, DroppedFromIndex
  <1>19. ASSUME MatchSubscribers \/ GetSubscriber \/ PublishToClient
        PROVE  Granted'
    <2>1. CASE MatchSubscribers
      BY <1>0, <2>1 DEF MatchSubscribers
    <2>2. CASE GetSubscriber
      BY <1>0, <2>2 DEF GetSubscriber
    <2>3. CASE PublishToClient
      BY <1>0, <2>3 DEF PublishToClient
    <2> QED
      BY <1>19, <2>1, <2>2, <2>3
  <1>20. ASSUME Aside
        PROVE  Granted'
    BY <1>0, <1>20 DEF Aside
  <1>21. ASSUME EventLoop \/ (\E c \in Conns, m \in Msgs : WriteLoop(c, m)) \/ UNCHANGED vars
         PROVE  Granted'
    BY <1>20, <1>21, AsideSteps
  <1>22. ASSUME NEW c \in Conns, ReadTop(c) \/ ReadFails(c) \/ SecondConnect(c) \/ SendLWT(c) \/ DropWill(c)
         PROVE  Granted'
    BY <1>11, <1>22, LeavingSteps
  <1> HIDE DEF Goes, server, client, local, history
  <1> QED
    BY <1>1, <1>2, <1>3, <1>4, <1>5, <1>6, <1>7, <1>8, <1>9, <1>10, <1>12, <1>13, <1>14, <1>15, <1>16,
       <1>17, <1>18, <1>19, <1>21, <1>22
       DEF Next, Handshake, ClientPacket, Attached

\* Every step keeps the owed messages stored or received.
LEMMA StoredStep ==
  ASSUME Overlaps = {}, ~MayExpire, Typed, Alone, Unknown, Inherits, Ends, Stored, [Next]_vars
  PROVE  Stored'
PROOF
  <1> USE DEF Typed, Alone, Unknown, Inherits, Ends, Stored
  <1> USE DEF Goes, server, client, local, history, InHandshake, Established, InCleanup, Joining, Joined,
     Ending, WithOld, Handshakes, Others, Kicked, NoSession,
              CleanStart, Expires, CleanVersion3
  <1>0. 0 \notin Conns /\ \A c \in 0 .. MaxConns : c # 0 => c \in Conns
    BY DEF Conns
  <1>1. ASSUME NEW c \in Conns, NEW k \in Kinds, NEW w \in Wills, Connect(c, k, w)
        PROVE  Stored'
    BY <1>0, <1>1 DEF Connect
  <1>2. ASSUME NEW c \in Conns, Refuse(c) \/ Authenticate(c)
        PROVE  Stored'
    BY <1>0, <1>2 DEF Refuse, Authenticate, CountAfterRefusal
  <1>3. ASSUME NEW c \in Conns, GetExisting(c) \/ DisconnectExisting(c)
        PROVE  Stored'
    BY <1>0, <1>3 DEF GetExisting, DisconnectExisting, Stopped, Abandons
  <1>4. ASSUME NEW c \in Conns, TakeSubs(c) \/ Unindex(c)
        PROVE  Stored'
    BY <1>0, <1>4 DEF TakeSubs, Unindex, DroppedFromIndex
  <1>5. ASSUME NEW c \in Conns, ClearExisting(c) \/ MarkAbandoned(c)
        PROVE  Stored'
    BY <1>0, <1>5 DEF ClearExisting, MarkAbandoned
  <1>6. ASSUME NEW c \in Conns, MarkInherited(c) \/ CloneInflight(c)
        PROVE  Stored'
    BY <1>0, <1>6 DEF MarkInherited, CloneInflight, Cloned
  <1>7. ASSUME NEW c \in Conns, InheritSubs(c) \/ OrphanSubs(c) \/ ForgetInflight(c)
        PROVE  Stored'
    BY <1>0, <1>7 DEF InheritSubs, OrphanSubs, ForgetInflight, LeftInIndex, SessionPresent
  <1>8. ASSUME NEW c \in Conns, Register(c)
        PROVE  Stored'
    BY <1>0, <1>8 DEF Register
  <1>9. ASSUME NEW c \in Conns, SendConnack(c)
        PROVE  Stored'
    BY <1>0, <1>9, ConnackStep
  <1>10. ASSUME NEW c \in Conns, HandshakeFails(c) \/ UndelayWill(c) \/ ResendInflight(c)
        PROVE  Stored'
    BY <1>0, <1>10 DEF HandshakeFails, UndelayWill, ResendInflight
  <1>11. ASSUME NEW c \in Conns, Leaves(c)
        PROVE  Stored'
    BY <1>0, <1>11 DEF Leaves
  <1>12. ASSUME NEW c \in Conns, (\E f \in Filters : Subscribe(c, f)) \/ AddSubscription(c) \/ AckSubscribe(c)
        PROVE  Stored'
    BY <1>0, <1>12 DEF Subscribe, Receives, AddSubscription, AckSubscribe
  <1>13. ASSUME NEW c \in Conns, (\E f \in Filters : Unsubscribe(c, f)) \/ DeleteSubscription(c)
        PROVE  Stored'
    BY <1>0, <1>13 DEF Unsubscribe, Receives, DeleteSubscription
  <1>14. ASSUME NEW c \in Conns, NEW m \in Msgs, Puback(c, m)
        PROVE  Stored'
    BY <1>0, <1>14 DEF Puback, Receives
  <1>15. ASSUME NEW c \in Conns, NEW k \in AllKinds, Disconnect(c, k)
        PROVE  Stored'
    BY <1>0, <1>15 DEF Disconnect, Receives, Shortened
  <1>16. ASSUME NEW c \in Conns, OnDisconnect(c)
        PROVE  Stored'
    BY <1>0, <1>16 DEF OnDisconnect, EndsSession
  <1>17. ASSUME NEW c \in Conns, ClearOwn(c) \/ TakeOwnSubs(c)
        PROVE  Stored'
    BY <1>0, <1>17 DEF ClearOwn, TakeOwnSubs
  <1>18. ASSUME NEW c \in Conns, UnindexOwn(c) \/ Delete(c)
        PROVE  Stored'
    BY <1>0, <1>18 DEF UnindexOwn, Delete, DroppedFromIndex
  <1>19. ASSUME MatchSubscribers \/ GetSubscriber \/ PublishToClient
        PROVE  Stored'
    <2>1. CASE MatchSubscribers
      BY <1>0, <2>1 DEF MatchSubscribers
    <2>2. CASE GetSubscriber
      BY <1>0, <2>2 DEF GetSubscriber
    <2>3. CASE PublishToClient
      BY <1>0, <2>3 DEF PublishToClient
    <2> QED
      BY <1>19, <2>1, <2>2, <2>3
  <1>20. ASSUME Aside
        PROVE  Stored'
    BY <1>0, <1>20 DEF Aside
  <1>21. ASSUME EventLoop \/ (\E c \in Conns, m \in Msgs : WriteLoop(c, m)) \/ UNCHANGED vars
         PROVE  Stored'
    BY <1>20, <1>21, AsideSteps
  <1>22. ASSUME NEW c \in Conns, ReadTop(c) \/ ReadFails(c) \/ SecondConnect(c) \/ SendLWT(c) \/ DropWill(c)
         PROVE  Stored'
    BY <1>11, <1>22, LeavingSteps
  <1> HIDE DEF Goes, server, client, local, history
  <1> QED
    BY <1>1, <1>2, <1>3, <1>4, <1>5, <1>6, <1>7, <1>8, <1>9, <1>10, <1>12, <1>13, <1>14, <1>15, <1>16,
       <1>17, <1>18, <1>19, <1>21, <1>22
       DEF Next, Handshake, ClientPacket, Attached

\* No step without overlap tells a remembered client that it has no session.
LEMMA RememberedStep ==
  ASSUME Inherits, SessionRemembered, [Next]_vars
  PROVE  SessionRemembered'
PROOF
  <1> USE DEF SessionRemembered, history
  <1>1. ASSUME NEW c \in Conns, SendConnack(c) PROVE SessionRemembered'
    BY <1>1 DEF SendConnack, Goes, Inherits
  <1>2. ASSUME NEW c \in Conns, DropWill(c) PROVE SessionRemembered'
    <2>1. faults' \subseteq faults \cup {"will dropped"}
      BY <1>2 DEF DropWill
    <2>2. "session forgotten" # "will dropped"
      OBVIOUS
    <2> QED
      BY <2>1, <2>2, Zenon
  <1>10. ASSUME NEW c \in Conns, NEW m \in Msgs, WriteLoop(c, m) PROVE SessionRemembered'
    <2>1. faults' \subseteq faults \cup {"publish before connack"}
      BY <1>10 DEF WriteLoop
    <2>2. "session forgotten" # "publish before connack"
      OBVIOUS
    <2> QED
      BY <2>1, <2>2, Zenon
  <1>3. CASE SendDelayedLWT
    BY <1>3 DEF SendDelayedLWT
  <1>4. ASSUME NEW c \in Conns, Handshake(c), ~SendConnack(c) PROVE UNCHANGED faults
    BY <1>4 DEF Handshake, Refuse, Authenticate, GetExisting, DisconnectExisting, TakeSubs, Unindex, ClearExisting,
         MarkAbandoned, MarkInherited, CloneInflight, InheritSubs, OrphanSubs, ForgetInflight, Register, HandshakeFails,
         UndelayWill, ResendInflight
  <1>5. ASSUME NEW c \in Conns, Attached(c), ~DropWill(c) PROVE UNCHANGED faults
    BY <1>5 DEF Attached, ReadTop, AddSubscription, AckSubscribe, DeleteSubscription, SendLWT, OnDisconnect, ClearOwn,
         TakeOwnSubs, UnindexOwn, Delete
  <1>6. ASSUME NEW c \in Conns, ReadFails(c) \/ ClientPacket(c) PROVE UNCHANGED faults
    BY <1>6 DEF ReadFails, ClientPacket, Subscribe, Unsubscribe, Puback, Disconnect, SecondConnect
  <1>7. ASSUME NEW c \in Conns, NEW k \in Kinds, NEW w \in Wills, Connect(c, k, w) PROVE UNCHANGED faults
    BY <1>7 DEF Connect
  <1>8. ASSUME MatchSubscribers \/ GetSubscriber \/ PublishToClient \/ (EventLoop /\ ~SendDelayedLWT) PROVE UNCHANGED faults
    BY <1>8 DEF MatchSubscribers, GetSubscriber, PublishToClient, EventLoop, FindExpired, DeleteExpired, FindDueWill, DeleteSentWill
  <1>9. CASE UNCHANGED vars
    BY <1>9 DEF vars
  <1> QED
    BY <1>1, <1>2, <1>3, <1>4, <1>5, <1>6, <1>7, <1>8, <1>9, <1>10 DEF Next

\* The session's invariant holds initially.
LEMMA InitSerial == Init => Serial
PROOF
  <1> SUFFICES ASSUME Init PROVE Serial
    OBVIOUS
  <1> USE DEF Init, Idle, InHandshake, Established, InCleanup, Joining, Joined, Ending, WithOld, Handshakes, NoSession
  <1>1. Alone
    BY DEF Alone
  <1>2. Unknown
    BY DEF Unknown, Conns
  <1>3. Registered /\ Inherits /\ Ends
    BY DEF Registered, Inherits, Ends
  <1>4. Indexed /\ Granted
    BY DEF Indexed, Granted
  <1>5. Stored /\ SessionRemembered
    BY DEF Stored, SessionRemembered
  <1> QED
    BY <1>1, <1>2, <1>3, <1>4, <1>5 DEF Serial

\* If no handshake is overlapped by another one, by a publish, by the clean-up of a session
\* that ends or by a packet of the client taken over, and no session expires meanwhile, the
\* session's invariant holds throughout (attachClient, inheritClientSession, UnsubscribeClient).
THEOREM SerialHolds ==
  ASSUME Overlaps = {}, ~MayExpire
  PROVE  Spec => []Serial
PROOF
  <1>1. Accounts /\ Serial /\ [Next]_vars => Serial'
    BY AloneStep, UnknownStep, RegisteredStep, InheritsStep, EndsStep, IndexedStep, GrantedStep, StoredStep, RememberedStep
       DEF Accounts, Serial
  <1> QED
    BY <1>1, InitSerial, AccountsHold, PTL DEF Spec

\* If nothing overlaps a handshake and no session expires, a live connection is the only
\* live one of its client id and the one that publishes are routed to (Clients.Add,
\* Clients.Delete).
THEOREM OneLiveConnection ==
  ASSUME Overlaps = {}, ~MayExpire
  PROVE  Spec => []LiveIsRegistered
PROOF
  <1>1. Serial => LiveIsRegistered
    BY DEF Serial, Registered, Kicked, LiveIsRegistered
  <1> QED
    BY <1>1, SerialHolds, PTL

\* If nothing overlaps a handshake and no session expires, takeovers, clean starts and ended
\* sessions leave nothing behind in the topics index and take nothing from it that the
\* registered client still has (UnsubscribeClient).
THEOREM IndexBelongsToClient ==
  ASSUME Overlaps = {}, ~MayExpire
  PROVE  Spec => []IndexIsOwned
PROOF
  <1>1. Accounts /\ Serial => IndexIsOwned
    <2> SUFFICES ASSUME Accounts, Serial, Settled PROVE index = IF clients = 0 THEN {} ELSE subs[clients]
      BY DEF IndexIsOwned
    <2>1. \A c \in Conns : at[c] \in {"new", "authenticate", "top", "read", "gone"}
      BY DEF Settled
    <2>2. index = IF clients = 0 THEN {} ELSE Owns(clients)
      BY <2>1 DEF Serial, Indexed
    <2>3. clients # 0 => clients \in Conns
      BY DEF Accounts, Typed, Conns
    <2> QED
      BY <2>1, <2>2, <2>3 DEF Owns
  <1> QED
    BY <1>1, SerialHolds, AccountsHold, PTL

\* If nothing overlaps a handshake and no session expires, subscriptions granted in a session
\* outlive the connection, whoever takes it over (inheritClientSession).
THEOREM SubscriptionsSurvive ==
  ASSUME Overlaps = {}, ~MayExpire
  PROVE  Spec => []SessionKept
PROOF
  <1>1. Serial => SessionKept
    BY DEF Serial, Granted, SessionKept, Settled
  <1> QED
    BY <1>1, SerialHolds, PTL

\* If nothing overlaps a handshake and no session expires, a client whose session the broker
\* must keep is never told that it has none (SendConnack).
THEOREM SessionIsRemembered ==
  ASSUME Overlaps = {}, ~MayExpire
  PROVE  Spec => []SessionRemembered
PROOF
  <1>1. Serial => SessionRemembered
    BY DEF Serial
  <1> QED
    BY <1>1, SerialHolds, PTL

\* If nothing overlaps a handshake and no session expires, a message stored for the session
\* stays until the client has it, through takeovers (Inflight.Clone, ClearInflights).
THEOREM MessagesSurvive ==
  ASSUME Overlaps = {}, ~MayExpire
  PROVE  Spec => []NoMessageLost
PROOF
  <1>1. Serial => NoMessageLost
    <2> SUFFICES ASSUME Serial, Settled, NEW m \in owed PROVE m \in got \/ (clients # 0 /\ m \in stored[clients])
      BY DEF NoMessageLost
    <2>1. owed \subseteq got \cup (IF clients = 0 THEN {} ELSE stored[clients])
      BY DEF Serial, Stored, Settled
    <2> QED
      BY <2>1
  <1> QED
    BY <1>1, SerialHolds, PTL
=============================================================================
