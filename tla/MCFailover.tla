----------------------------- MODULE MCFailover -----------------------------
(* Two threads, one of which runs commands, under every upset at once.      *)
EXTENDS Failover

CONSTANTS c1, c2, k1, t1, t2

OneClient == {c1}
TwoClients == {c1, c2}
OneCmd == {k1}
TwoProbers == {t1, t2}

Everything == AllUpsets
=============================================================================
