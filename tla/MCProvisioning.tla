---------------------------- MODULE MCProvisioning ----------------------------
(* Two workers and a bench on one host PC.                                   *)
EXTENDS Tezi, TLC

CONSTANTS w1, w2

TwoWorkers == {w1, w2}
WorkersOnly == {TwoWorkers \union {"killer"}}
BesideBench == {TwoWorkers \union {"bench"}}
Installing == {{w, "killer", "bench", "usb"} : w \in TwoWorkers}
\* The workers by themselves, two beside the recovery that takes no lock, and one
\* beside a whole installation.
AllCasts == WorkersOnly \union BesideBench \union Installing
Symmetry == Permutations(TwoWorkers)
===============================================================================
