----------------------------- MODULE AuthDefense -----------------------------
(***************************************************************************)
(* The authentication defence (broker/modules/defense/auth_defense.go) as  *)
(* operators on its state: the count of connections, a count per address   *)
(* and second, and per client id the state of an authentication with the   *)
(* timer of the connection that started it.  cl is [conn, id, ip].         *)
(***************************************************************************)
EXTENDS Integers, Functions

CONSTANTS MaxConcurrentConn, MaxConnPerSec, MaxAuthPerConn

AuthDefenseInit(ips, active) ==
    [active |-> active, rates |-> [ip \in ips |-> 0], states |-> [id \in {} |-> 0], timers |-> {}]

\* OnConnect adds first and takes it back when it refuses.
CountConnection(a) == [a EXCEPT !.active = @ + 1]
TooMany(a, cl, current) == current > MaxConcurrentConn \/ a.rates[cl.ip] >= MaxConnPerSec
ClientState(cl) == [timer |-> cl.conn, authCount |-> 0, isAuthed |-> FALSE]
RefuseConnection(a, cl, current) ==
    [a EXCEPT !.active = @ - 1,
              !.rates[cl.ip] = IF current > MaxConcurrentConn THEN @ ELSE @ + 1]
AdmitConnection(a, cl) ==
    [a EXCEPT !.rates[cl.ip] = @ + 1, !.timers = @ \cup {cl.conn},
              !.states = [id \in DOMAIN @ \cup {cl.id} |-> IF id = cl.id THEN ClientState(cl) ELSE @[id]]]

SecondPasses(a, ip) == [a EXCEPT !.rates[ip] = 0]

\* The timer looks its client up by id.
TimesOut(a, cl) == cl.id \in DOMAIN a.states /\ ~a.states[cl.id].isAuthed

Authenticated(a, cl) ==
    IF cl.id \notin DOMAIN a.states THEN a
    ELSE [a EXCEPT !.states[cl.id].isAuthed = TRUE, !.timers = @ \ {a.states[cl.id].timer}]

AuthRejected(a, cl) ==
    cl.id \notin DOMAIN a.states \/ a.states[cl.id].authCount >= MaxAuthPerConn
CountAuth(a, cl) ==
    IF cl.id \notin DOMAIN a.states THEN a ELSE [a EXCEPT !.states[cl.id].authCount = @ + 1]

ForgetConnection(a, cl) ==
    IF cl.id \notin DOMAIN a.states THEN [a EXCEPT !.active = @ - 1]
    ELSE [a EXCEPT !.active = @ - 1, !.timers = @ \ {a.states[cl.id].timer},
                   !.states = Restrict(@, DOMAIN @ \ {cl.id})]
==============================================================================
