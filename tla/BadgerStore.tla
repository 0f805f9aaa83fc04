------------------------------ MODULE BadgerStore ------------------------------
(***************************************************************************)
(* broker/hooks/storage/badger: every write is a transaction of its own.   *)
(* A write survives the death of the process (the value log is mapped).    *)
(***************************************************************************)
EXTENDS StorageRecords

clientKey(id) == <<ClientKey, "_">> \o id
subscriptionKey(id, filter) == <<SubscriptionKey, "_">> \o id \o <<":">> \o filter
retainedKey(topic) == <<RetainedKey, "_">> \o topic
inflightKey(id, pid) == <<InflightKey, "_">> \o id \o <<":">> \o FormatID(pid)
sysInfoKey == <<SysInfoKey>>

UpdateClient(cl) == <<Put(clientKey(cl.id), StoredClient(cl))>>
OnSessionEstablished(cl) == UpdateClient(cl)
OnWillSent(cl) == UpdateClient(cl)

\* The record is written again whatever ended the connection, a takeover
\* included.
OnDisconnect(cl, expire, takenOver) ==
    UpdateClient(cl)
        \o (IF expire /\ ~takenOver THEN <<Del(clientKey(cl.id))>> ELSE <<>>)

OnSubscribed(cl, filters, codes) ==
    [i \in DOMAIN filters |->
        Put(subscriptionKey(cl.id, filters[i]),
            StoredSubscription(cl.id, filters[i], codes[i]))]
OnUnsubscribed(cl, filters) ==
    [i \in DOMAIN filters |-> Del(subscriptionKey(cl.id, filters[i]))]

OnRetainMessage(topic, payload, r) ==
    IF r = -1 THEN <<Del(retainedKey(topic))>>
    ELSE <<Put(retainedKey(topic), StoredRetained(topic, payload))>>
OnRetainedExpired(topic) == <<Del(retainedKey(topic))>>

OnQosPublish(cl, pid) == <<Put(inflightKey(cl.id, pid), StoredInflight(cl.id, pid))>>
OnQosComplete(cl, pid) == <<Del(inflightKey(cl.id, pid))>>
OnQosDropped(cl, pid) == OnQosComplete(cl, pid)

OnSysInfoTick(info) == <<Put(sysInfoKey, StoredSystem(info))>>
OnClientExpired(cl) == <<Del(clientKey(cl.id))>>

\* The values under the keys that begin with a prefix.
IterKv(db, prefix) == {db[k] : k \in {k \in DOMAIN db : k[1] = prefix}}
StoredClients(db) == IterKv(db, ClientKey)
StoredSubscriptions(db) == IterKv(db, SubscriptionKey)
StoredRetainedMessages(db) == IterKv(db, RetainedKey)
StoredInflightMessages(db) == IterKv(db, InflightKey)

\* getKv, an absent key counting as a system that was just started.
StoredSysInfo(db) ==
    IF sysInfoKey \in DOMAIN db THEN db[sysInfoKey] ELSE StoredSystem(0)
=============================================================================
