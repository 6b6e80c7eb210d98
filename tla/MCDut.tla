-------------------------------- MODULE MCDut --------------------------------
(* Stations and fault hypotheses on which DutStateMachine is checked.        *)
EXTENDS DutStateMachine

OneMedium == {"default"}
TwoMediums == {"default", "sd"}

\* A lab station: supply, manual straps, autoboot, no faults.
Lab == [psu |-> TRUE, gpio |-> FALSE, strapped |-> Mediums, headless |-> FALSE,
        autoboot |-> TRUE, faults |-> {}]

\* Everything that can happen to a board and its links when the readings and
\* the commands of the supply can be relied on.
BoardFaults == {"hang", "selfboot", "silent", "slow", "missed", "rebind", "uart",
                "net", "lostreboot"}
\* Faults of the host side only: the board itself never restarts or hangs.
LinkFaults == {"silent", "slow", "missed", "rebind", "uart", "net", "lostreboot",
               "sensor"}
\* A desk without a supply: the operator may ignore a prompt.
DeskFaults == {"hang", "selfboot", "silent", "missed", "operator"}
StationFaults == {"hang", "psu", "rebind", "sensor"}

Bench == [Lab EXCEPT !.faults = BoardFaults]
SecureBench == [Lab EXCEPT !.autoboot = FALSE, !.faults = LinkFaults]
Rack == [Lab EXCEPT !.gpio = TRUE, !.autoboot = FALSE, !.faults = CleanFaults]
Desk == [Lab EXCEPT !.psu = FALSE, !.faults = DeskFaults]
Runner == [Lab EXCEPT !.headless = TRUE, !.autoboot = FALSE, !.faults = StationFaults]
\* A runner that has been set up for a job it cannot do: no supply, one medium
\* without straps.
BareRunner == [Lab EXCEPT !.psu = FALSE, !.gpio = TRUE, !.headless = TRUE,
                          !.strapped = {"default"}, !.faults = {"rebind"}]
\* Every combination of equipment, without faults.
Faultless == {[Lab EXCEPT !.psu = p, !.gpio = g, !.headless = h, !.autoboot = a] :
                 p, g, h, a \in BOOLEAN}
\* Whatever a board does by itself, on a station whose equipment works.
Steady == [Lab EXCEPT !.gpio = TRUE,
                      !.faults = {"hang", "selfboot", "sensor", "lostreboot"}]
\* Pins that cannot be set; currents that cannot be read.
WornPins == [Lab EXCEPT !.gpio = TRUE, !.faults = {"gpio"}]
WornMeter == [Lab EXCEPT !.gpio = TRUE, !.autoboot = FALSE, !.faults = {"garbled"}]

AllStations ==
    {Bench, SecureBench, Rack, Desk, Runner, BareRunner, Steady, WornPins, WornMeter}
      \cup Faultless
==============================================================================
