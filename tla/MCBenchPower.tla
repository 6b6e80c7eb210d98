---------------------------- MODULE MCBenchPower ----------------------------
(* Stations on which BenchPower is checked.                                 *)
EXTENDS BenchPower

SomeVolts == {0, 3, 6}     \* off, 1.5 V and 3 V, which is above the rating
TwoLimits == {2, 3}      \* the higher is more than a DPS150 delivers
OneStep == {2}
Bench(vendor, preset, draw, upsets) ==
    [vendor |-> vendor, preset |-> preset, draw |-> draw, upsets |-> upsets]

EStopped == {{"estop"}, {"estop", "gpio"}, {"estop", "slow"}}
Troubled == EStopped \cup {{"io"}, {"badread"}, {"io", "estop"}, {"log", "estop"}}

\* A board that is fine and one that is a short circuit; a
\* DPS150 also with a default voltage above its rating.
Benches ==
    {Bench("scpi", 4, d, u) : d \in {1, 9}, u \in Troubled}
    \cup {Bench("fnirsi", v, d, u) : v \in {4, 6}, d \in {1, 9}, u \in Troubled}
=============================================================================
