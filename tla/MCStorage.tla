------------------------------ MODULE MCStorage ------------------------------
(* An instance of Storage for TLC. *)
EXTENDS Storage

MCIds == {<<"a">>}
MCFilters == {<<"f">>, <<"g">>}
MCTopics == {<<"t">>}

\* A session that stays, of MQTT 3 and 5; one that ends with its connection.
MCKinds ==
    {[v5 |-> FALSE, clean |-> FALSE, expiry |-> 0, will |-> TRUE],
     [v5 |-> TRUE, clean |-> TRUE, expiry |-> 1, will |-> FALSE],
     [v5 |-> TRUE, clean |-> FALSE, expiry |-> 0, will |-> FALSE]}
MCStays == {props \in MCKinds : ~Expires(props)}

\* Two clients whose subscriptions can have one key.
MCTwins == {<<"a">>, <<"a", ":", "b">>}
MCTwinFilters == {<<"f">>, <<"b", ":", "f">>}
=============================================================================
