----------------------------- MODULE MCConsole -----------------------------
(* Instances of Console.                                                    *)
EXTENDS Console, TLC

CONSTANTS c1, c2, m1, m2

TwoClients == {c1, c2}
OneRunner == {c1}
TwoMonitors == {m1, m2}
Commands == {{"run", "type", "deaf"}, {"run", "deaf", "uboot"}, {"run", "type", "unplug"},
             {"run", "crash"}}
Reconnecting == {{"run", "rebind"}}
Panicking == {{"panic", "type", "mute", "close"}, {"panic", "close", "slow"}}
Mixed == Commands \cup Reconnecting \cup Panicking
=============================================================================
