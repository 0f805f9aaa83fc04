------------------------------ MODULE AuthLedger ------------------------------
(***************************************************************************)
(* The rules of the auth ledger (broker/hooks/auth/ledger.go).  Filters    *)
(* and topics are sequences of levels; who is [id, username, password,     *)
(* remote].  Users maps user names to [password, disallow, acl], where acl *)
(* maps filters to an access; Auth and ACL are sequences of rules.         *)
(***************************************************************************)
EXTENDS Naturals, Sequences, SequencesExt

CONSTANTS Users, Auth, ACL

Deny == 0
ReadOnly == 1
WriteOnly == 2
ReadWrite == 3
Grants(access, write) == access \in {ReadWrite, IF write THEN WriteOnly ELSE ReadOnly}

\* "*" and "" match anything, "p*" what is longer than p and starts with it.
Matches(rule, a) ==
    \/ rule \in {"", "*", a}
    \/ \E i \in 2..Len(rule) :
          /\ SubSeq(rule, i, i) = "*" /\ \A j \in 1..i - 1 : SubSeq(rule, j, j) # "*"
          /\ Len(a) >= i /\ SubSeq(a, 1, i - 1) = SubSeq(rule, 1, i - 1)

\* Level by level up to the first "#": the topic may be longer than the filter,
\* and "#" stands for at least one level.
MatchTopic(filter, topic) ==
    LET hashes == {i \in DOMAIN filter : filter[i] = "#"}
        compared == {i \in DOMAIN filter : \A h \in hashes : i <= h}
    IN \A i \in compared : i <= Len(topic) /\ filter[i] \in {"+", "#", topic[i]}

\* A user of the map who gives the password there is judged by the map alone.
Known(who) == /\ who.username \in DOMAIN Users
              /\ who.password # "" /\ who.password = Users[who.username].password
Applies(rule, who) ==
    Matches(rule.client, who.id) /\ Matches(rule.username, who.username) /\ Matches(rule.remote, who.remote)
AuthOk(who) ==
    IF Known(who) THEN ~Users[who.username].disallow
    ELSE LET rules == SelectSeq(Auth, LAMBDA r : Applies(r, who) /\ Matches(r.password, who.password))
         IN rules # <<>> /\ rules[1].allow

\* The filters of a user are read in the order of a map: any that matches may decide.
UserAnswers(who, topic, write) ==
    IF who.username \notin DOMAIN Users THEN {}
    ELSE LET acl == Users[who.username].acl
         IN {Grants(acl[f], write) : f \in {g \in DOMAIN acl : MatchTopic(g, topic)}}
Decides(rule, who, topic) ==
    Applies(rule, who) /\ (rule.filters = <<>> \/ \E f \in DOMAIN rule.filters : MatchTopic(f, topic))
RuleAllows(rule, topic, write) ==
    rule.filters = <<>>
    \/ \E f \in DOMAIN rule.filters : MatchTopic(f, topic) /\ Grants(rule.filters[f], write)
ACLOk(who, topic, write) ==
    IF UserAnswers(who, topic, write) # {} THEN UserAnswers(who, topic, write)
    ELSE LET rules == SelectSeq(ACL, LAMBDA r : Decides(r, who, topic))
         IN {rules = <<>> \/ RuleAllows(rules[1], topic, write)}
===============================================================================
