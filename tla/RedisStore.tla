------------------------------ MODULE RedisStore ------------------------------
(***************************************************************************)
(* broker/hooks/storage/redis: a hash for every kind of record (hKey); a   *)
(* key here is the hash's name and then the field.  The server the hook    *)
(* talks to is taken to keep what it acknowledged.                         *)
(***************************************************************************)
EXTENDS StorageRecords

clientKey(id) == <<ClientKey>> \o id
subscriptionKey(id, filter) == <<SubscriptionKey>> \o id \o <<":">> \o filter
retainedKey(topic) == <<RetainedKey>> \o topic
inflightKey(id, pid) == <<InflightKey>> \o id \o <<":">> \o FormatID(pid)
sysInfoKey == <<SysInfoKey, SysInfoKey>>

UpdateClient(cl) == <<Put(clientKey(cl.id), StoredClient(cl))>>
OnSessionEstablished(cl) == UpdateClient(cl)
OnWillSent(cl) == UpdateClient(cl)

OnDisconnect(cl, expire, takenOver) ==
    IF expire /\ ~takenOver THEN <<Del(clientKey(cl.id))>> ELSE <<>>

OnSubscribed(cl, filters, codes) ==
    [i \in DOMAIN filters |->
        Put(subscriptionKey(cl.id, filters[i]),
            StoredSubscription(cl.id, filters[i], codes[i]))]
OnUnsubscribed(cl, filters) ==
    [i \in DOMAIN filters |-> Del(subscriptionKey(cl.id, filters[i]))]

OnRetainMessage(topic, payload, r) ==
    IF r = -1 THEN <<Del(retainedKey(topic))>>
    ELSE <<Put(retainedKey(topic), StoredRetained(topic, payload))>>
OnRetainedExpired(topic) == <<Del(retainedKey(topic))>>

\* The record is built without its PacketID, which stays 0.
OnQosPublish(cl, pid) == <<Put(inflightKey(cl.id, pid), StoredInflight(cl.id, 0))>>
OnQosComplete(cl, pid) == <<Del(inflightKey(cl.id, pid))>>
OnQosDropped(cl, pid) == OnQosComplete(cl, pid)

OnSysInfoTick(info) == <<Put(sysInfoKey, StoredSystem(info))>>
OnClientExpired(cl) == <<Del(clientKey(cl.id))>>

\* HGetAll of a hash.
HGetAll(db, hash) == {db[k] : k \in {k \in DOMAIN db : k[1] = hash}}
StoredClients(db) == HGetAll(db, ClientKey)
StoredSubscriptions(db) == HGetAll(db, SubscriptionKey)
StoredRetainedMessages(db) == HGetAll(db, RetainedKey)
StoredInflightMessages(db) == HGetAll(db, InflightKey)

\* HGet, an absent field counting as a system that was just started.
StoredSysInfo(db) ==
    IF sysInfoKey \in DOMAIN db THEN db[sysInfoKey] ELSE StoredSystem(0)
=============================================================================
