------------------------------- MODULE HookChain -------------------------------
(***************************************************************************)
(* How the events of the broker pass through the hooks that are enabled    *)
(* (broker/hooks.go), in the order broker/cmd/main.go adds them.  guard is *)
(* the state of them all, cl is [conn, id, ip, username, password, remote].*)
(***************************************************************************)
EXTENDS AuthDefense, EbpfFilter, PropertyValidator, WildcardTokens, MessageIntegrity, AuthLedger

AllHooks == {"allow-all", "auth-ledger", "property-validator", "auth-defense",
             "message-integrity", "ebpf-filter", "wildcard-tokens"}

GuardInit(ips, active) ==
    [auth |-> AuthDefenseInit(ips, active), trackers |-> EbpfInit(ips),
     budgets |-> [id \in {} |-> 0], tokens |-> [id \in {} |-> <<>>]]

Using(uses, new, old) == IF uses THEN new ELSE old

OnSessionEstablished(hooks, g, cl) ==
    [g EXCEPT !.auth = Using("auth-defense" \in hooks, Authenticated(g.auth, cl), @)]
OnDisconnect(hooks, g, cl) ==
    [g EXCEPT !.budgets = Using("property-validator" \in hooks, ForgetBudget(g.budgets, cl.id), @),
              !.auth = Using("auth-defense" \in hooks, ForgetConnection(g.auth, cl), @),
              !.tokens = Using("wildcard-tokens" \in hooks, DropToken(g.tokens, cl.id), @)]

OnAuthPacket(hooks, g, cl) == [g EXCEPT !.auth = Using("auth-defense" \in hooks, CountAuth(g.auth, cl), @)]
OnAuthPacketRejects(hooks, g, cl) == "auth-defense" \in hooks /\ AuthRejected(g.auth, cl)

OnPacketEncode(hooks, cl, pk) ==
    IF "wildcard-tokens" \in hooks /\ pk.type = "Connack" /\ pk.reason = 0 /\ TokenProperty(cl.id) # <<>>
    THEN LET user == IF "User" \in DOMAIN pk.props THEN pk.props["User"] ELSE <<>>
         IN [pk EXCEPT !.props = [name \in DOMAIN pk.props \cup {"User"} |->
                 IF name = "User" THEN user \o TokenProperty(cl.id) ELSE pk.props[name]]]
    ELSE pk

OnSubscribe(hooks, g, cl, user) ==
    [g EXCEPT !.tokens = Using("wildcard-tokens" \in hooks, TakeToken(g.tokens, cl.id, user), @)]
KeepsToken(hooks, g, cl) == g   \* a mutant
OnSubscribed(hooks, g, cl) ==
    [g EXCEPT !.tokens = Using("wildcard-tokens" \in hooks, DropToken(g.tokens, cl.id), @)]

\* The first that rejects ends the chain: what it has charged stays charged.
OnPublish(hooks, g, cl, user) ==
    [g EXCEPT !.budgets = Using("property-validator" \in hooks, Charge(g.budgets, cl.id, user), @)]
OnPublishRejects(hooks, g, cl, topic, payload, user) ==
    \/ "property-validator" \in hooks /\ PropertiesRejected(g.budgets, cl.id, user)
    \/ "message-integrity" \in hooks /\ SignatureRejected(cl.id, topic, payload, user)

\* One that allows is enough; the ledger may answer either way.
OnConnectAuthenticate(hooks, cl) ==
    "allow-all" \in hooks \/ ("auth-ledger" \in hooks /\ AuthOk(cl))
OnACLCheck(hooks, g, cl, topic, write) ==
    IF \/ "allow-all" \in hooks
       \/ "wildcard-tokens" \in hooks /\ TokenAllows(g.tokens, cl.id, topic, write)
    THEN {TRUE}
    ELSE IF "auth-ledger" \in hooks THEN ACLOk(cl, <<topic>>, write) ELSE {FALSE}
================================================================================
