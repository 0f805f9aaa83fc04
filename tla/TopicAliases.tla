---------------------------- MODULE TopicAliases ----------------------------
(* The two alias tables of a connection (TopicAliases in topics.go), as     *)
(* values: inbound is alias -> topic, outbound the topics in the order they *)
(* got their aliases, so that the cursor is its length; max is its maximum.  *)
EXTENDS Naturals, Sequences, SequencesExt

\* InboundTopicAliases.Set: an alias without a topic stands for the one it was
\* set to; one that was not set becomes an alias of the empty topic.
InboundTopic(table, max, alias, topic, none) ==
    IF topic = none /\ alias \in DOMAIN table /\ max > 0 THEN table[alias] ELSE topic
InboundSet(table, max, alias, topic, none) ==
    IF max = 0 THEN table
    ELSE [a \in DOMAIN table \cup {alias} |->
            IF a = alias THEN InboundTopic(table, max, alias, topic, none) ELSE table[a]]

\* OutboundTopicAliases.Set: the alias of the topic, 0 when none is left, and
\* whether it had one.
Aliased(table, topic) == Contains(table, topic)
OutboundAlias(table, max, topic) ==
    IF max = 0 THEN 0
    ELSE IF Aliased(table, topic) THEN CHOOSE i \in DOMAIN table : table[i] = topic
    ELSE IF Len(table) + 1 > max THEN 0 ELSE Len(table) + 1

\* A table that starts over with alias 1 when it is full.
OutboundWraps(table, max, topic) ==   \* a mutant
    IF Aliased(table, topic) \/ max = 0 THEN table
    ELSE IF Len(table) + 1 > max THEN <<topic>> ELSE Append(table, topic)
OutboundSet(table, max, topic) ==
    IF Aliased(table, topic) \/ Len(table) + 1 > max THEN table
    ELSE Append(table, topic)
=============================================================================
