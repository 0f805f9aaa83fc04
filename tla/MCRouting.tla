------------------------------ MODULE MCRouting ------------------------------
(* An instance of Routing for TLC. *)
EXTENDS Routing

MCSubscriptions == {[noLocal |-> FALSE, handling |-> 0]}
MCOptions == {[noLocal |-> FALSE, handling |-> 0], [noLocal |-> TRUE, handling |-> 1]}

A == <<"a">>
AB == <<"a", "b">>
S(flags, filters, topics, subscribers, publishers, subscribing, publishing) ==
    [flags |-> flags, filters |-> filters, topics |-> topics, subscribers |-> subscribers,
     publishers |-> publishers, maxChanges |-> subscribing, maxPublishes |-> publishing]

\* Filters in two branches of the tree that are set and trimmed under a scan.
MCRoute == S({"plain", "unsubscribe"}, {AB, <<"a", "+">>, <<"a", "#">>, <<"+", "#">>},
             {AB}, {"c1"}, {"p"}, 4, 1)
\* Ordinary, shared and inline subscriptions at one particle.
MCShared == S({"plain", "unsubscribe"}, {A, <<"$share", "g", "a">>},
              {A}, {"c1", "c2", "inline"}, {"p"}, 3, 1)
\* A session that ends, and one that hears itself.
MCLeave == S({"plain", "leave"}, {A, <<"a", "#">>}, {A}, {"c1"}, {"c1", "inline"}, 3, 2)
\* Two publishers of a retained message, one of them a subscriber.
MCRetain == S({"retain", "unsubscribe"}, {AB, <<"+", "b">>}, {AB}, {"c1"}, {"p", "c1"}, 2, 2)
\* Retained messages above and below each other, and the inline client.
MCDeep == S({"retain"}, {<<"#">>, <<"a", "#">>}, {A, AB}, {"c1", "inline"}, {"p"}, 1, 3)
MCExpire == S({"retain", "expire"}, {<<"a", "#">>}, {AB}, {"c1"}, {"p"}, 3, 2)
MCSys == S({"retain"}, {<<"#">>, <<"$SYS", "#">>}, {<<"$SYS", "x">>}, {"c1"}, {"ticker"}, 2, 2)
\* Aliases of two publishers and one client; aliases without a topic.
MCAlias == S({"plain", "alias", "drop"}, {<<"#">>}, {A, <<"b">>}, {"c1"}, {"p", "q"}, 1, 3)
MCInbound == S({"plain", "inbound", "alias"}, {<<"#">>}, {A, NoTopic}, {"c1"}, {"p"}, 1, 3)
MCScenarios == {MCRoute, MCShared, MCLeave, MCRetain, MCDeep, MCExpire, MCSys, MCAlias, MCInbound}
=============================================================================
