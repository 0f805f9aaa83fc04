------------------------------ MODULE PebbleStore ------------------------------
(***************************************************************************)
(* broker/hooks/storage/pebble: a write is on disk when the callback       *)
(* returns only in mode "Sync"; the default, NoSync, leaves it to the      *)
(* library to log it, in order and later (Storage's Flush).                *)
(***************************************************************************)
EXTENDS StorageRecords

clientKey(id) == <<ClientKey, "_">> \o id
subscriptionKey(id, filter) == <<SubscriptionKey, "_">> \o id \o <<":">> \o filter
retainedKey(topic) == <<RetainedKey, "_">> \o topic
inflightKey(id, pid) == <<InflightKey, "_">> \o id \o <<":">> \o FormatID(pid)
sysInfoKey == <<SysInfoKey>>

UpdateClient(cl) == <<Put(clientKey(cl.id), StoredClient(cl))>>
OnSessionEstablished(cl) == UpdateClient(cl)
OnWillSent(cl) == UpdateClient(cl)

\* The record is written again whatever ended the connection, a takeover
\* included.
OnDisconnect(cl, expire, takenOver) ==
    UpdateClient(cl)
        \o (IF expire /\ ~takenOver THEN <<Del(clientKey(cl.id))>> ELSE <<>>)

OnSubscribed(cl, filters, codes) ==
    [i \in DOMAIN filters |->
        Put(subscriptionKey(cl.id, filters[i]),
            StoredSubscription(cl.id, filters[i], codes[i]))]
OnUnsubscribed(cl, filters) ==
    [i \in DOMAIN filters |-> Del(subscriptionKey(cl.id, filters[i]))]

OnRetainMessage(topic, payload, r) ==
    IF r = -1 THEN <<Del(retainedKey(topic))>>
    ELSE <<Put(retainedKey(topic), StoredRetained(topic, payload))>>
OnRetainedExpired(topic) == <<Del(retainedKey(topic))>>

OnQosPublish(cl, pid) == <<Put(inflightKey(cl.id, pid), StoredInflight(cl.id, pid))>>
OnQosComplete(cl, pid) == <<Del(inflightKey(cl.id, pid))>>
OnQosDropped(cl, pid) == OnQosComplete(cl, pid)

OnSysInfoTick(info) == <<Put(sysInfoKey, StoredSystem(info))>>
OnClientExpired(cl) == <<Del(clientKey(cl.id))>>

\* NewIter between a prefix and keyUpperBound of it.
Between(db, prefix) == {db[k] : k \in {k \in DOMAIN db : k[1] = prefix}}
StoredClients(db) == Between(db, ClientKey)
StoredSubscriptions(db) == Between(db, SubscriptionKey)
StoredRetainedMessages(db) == Between(db, RetainedKey)
StoredInflightMessages(db) == Between(db, InflightKey)

\* An absent key counting as a system that was just started.
StoredSysInfo(db) ==
    IF sysInfoKey \in DOMAIN db THEN db[sysInfoKey] ELSE StoredSystem(0)
=============================================================================
