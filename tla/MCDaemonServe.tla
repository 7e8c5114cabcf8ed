---- MODULE MCDaemonServe ----
EXTENDS DaemonServe

\* Two daemons and a client; a daemon and two clients; a daemon, a client and a
\* daemon of an older version.
Cast(daemons, clients) ==
    /\ \A d \in Daemons : pc[d] = "off" <=> d \in daemons
    /\ \A c \in Clients : client[c] = "idle" <=> c \in clients

Init ==
    /\ DaemonInit
    /\ path["d1"] = ClientPath
    /\ \/ Cast({"d1", "d2"}, {"c1"}) /\ legacy = "dead"
       \/ Cast({"d1"}, {"c1", "c2"}) /\ legacy = "dead" /\ path["d2"] = ClientPath
       \/ Cast({"d1"}, {"c1"}) /\ legacy = "alive" /\ path["d2"] = ClientPath

Spec == Init /\ [][DaemonNext]_vars /\ DaemonFairness
====
