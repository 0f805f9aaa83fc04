------------------------------ MODULE EbpfFilter ------------------------------
(* The connection rate of an address, and its ban, which nothing lifts        *)
(* (broker/modules/defense/ebpf/ebpf_hook.go).  The kernel's own blocking of  *)
(* a banned address (backend.go) only keeps what is refused here away.        *)
EXTENDS Naturals

CONSTANT MaxConnectionsPerSecond

EbpfInit(ips) == [ip \in ips |-> [count |-> 0, banned |-> FALSE]]
Floods(trackers, ip) == trackers[ip].count >= MaxConnectionsPerSecond
Bans(trackers, ip) == trackers[ip].banned \/ Floods(trackers, ip)
Track(trackers, ip) ==
    IF trackers[ip].banned THEN trackers
    ELSE [trackers EXCEPT ![ip] = [count |-> @.count + 1, banned |-> Floods(trackers, ip)]]
TrackerResets(trackers, ip) == [trackers EXCEPT ![ip].count = 0]
===============================================================================
