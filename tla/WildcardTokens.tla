---------------------------- MODULE WildcardTokens ----------------------------
(* Capability tokens for wildcard subscriptions                               *)
(* (broker/modules/security/wildcard_tokens.go).  Tokens gives the filters a  *)
(* correctly signed token allows; a string outside its domain is no token.    *)
EXTENDS Sequences, Functions, SequencesExt

CONSTANTS Permissions, Tokens

UserValues(user, key) == [i \in DOMAIN SelectSeq(user, LAMBDA p : p[1] = key) |->
                            SelectSeq(user, LAMBDA p : p[1] = key)[i][2]]

generateToken(allowed) == CHOOSE token \in DOMAIN Tokens : Tokens[token] = allowed
\* A client has the permission under its id, or else under some key that ends in * and
\* begins like the id (of several, the first that a range over the map comes to).
FitsPrefix(key, id) ==
    LET n == Len(key) IN
    n > 0 /\ SubSeq(key, n, n) = "*" /\ Len(id) >= n - 1 /\ SubSeq(id, 1, n - 1) = SubSeq(key, 1, n - 1)
PermissionKeys(id) ==
    IF id \in DOMAIN Permissions THEN {id} ELSE {key \in DOMAIN Permissions : FitsPrefix(key, id)}
\* What a successful CONNACK carries, and the others do not.
TokenProperty(id) ==
    IF PermissionKeys(id) = {} THEN <<>>
    ELSE <<<<"wildcard-token", generateToken(Permissions[CHOOSE key \in PermissionKeys(id) : TRUE])>>>>

\* OnSubscribe remembers the first token of the packet by client id, if it verifies.
TakeToken(active, id, user) ==
    LET given == UserValues(user, "wildcard-token") IN
    IF given = <<>> \/ given[1] \notin DOMAIN Tokens THEN active
    ELSE [i \in DOMAIN active \cup {id} |-> IF i = id THEN Tokens[given[1]] ELSE active[i]]
IsWildcard(filter) == \E i \in 1..Len(filter) : SubSeq(filter, i, i) \in {"+", "#"}
TokenAllows(active, id, filter, write) ==
    \/ write \/ ~IsWildcard(filter)
    \/ id \in DOMAIN active /\ Contains(active[id], filter)
DropToken(active, id) == Restrict(active, DOMAIN active \ {id})
===============================================================================
