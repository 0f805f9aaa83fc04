--------------------------- MODULE StorageRecords ---------------------------
(***************************************************************************)
(* The records the storage hooks keep (broker/hooks/storage/storage.go) and *)
(* the key-value operations the four of them are written in.  A record has *)
(* the fields that a restart depends on; a key is the sequence of the parts *)
(* it is put together from, so that two keys are equal exactly when their  *)
(* texts are.  A callback of a hook is the sequence of writes it makes.    *)
(***************************************************************************)
EXTENDS Integers, Sequences, TLC

ClientKey == "CL"
SubscriptionKey == "SUB"
RetainedKey == "RET"
InflightKey == "IFM"
SysInfoKey == "SYS"

\* storage.Client.  No updateClient fills in SessionExpiryIntervalFlag.
StoredClient(cl) ==
    [t |-> ClientKey, id |-> cl.id, v5 |-> cl.props.v5, clean |-> cl.props.clean,
     expiry |-> cl.props.expiry, flag |-> FALSE, will |-> cl.props.will]

\* storage.Subscription: its QoS is the reason code, whatever that says.
StoredSubscription(id, filter, code) ==
    [t |-> SubscriptionKey, client |-> id, filter |-> filter, qos |-> code]

\* storage.Message, in flight or retained.  It has no field for Expiry nor
\* for ProtocolVersion.
StoredInflight(id, pid) == [t |-> InflightKey, client |-> id, pid |-> pid]
StoredRetained(topic, payload) ==
    [t |-> RetainedKey, topic |-> topic, payload |-> payload]

StoredSystem(subscriptions) ==
    [t |-> SysInfoKey, subscriptions |-> subscriptions]

\* Message.ToPacket: the packet a stored retained message becomes.  Its own
\* expiry is gone, and a PUBLISH of no version never expires by itself.
ToPacket(record) == [payload |-> record.payload, expires |-> FALSE]

FormatID(pid) == <<ToString(pid)>>

Put(key, value) == [op |-> "put", key |-> key, value |-> value]
Del(key) == [op |-> "del", key |-> key]

\* setKv and delKv: what a write does to the store.
Apply(db, w) ==
    IF w.op = "put"
    THEN [k \in DOMAIN db \cup {w.key} |-> IF k = w.key THEN w.value ELSE db[k]]
    ELSE [k \in DOMAIN db \ {w.key} |-> db[k]]
=============================================================================
