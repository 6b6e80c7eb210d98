--------------------------- MODULE MCOrchestrator ---------------------------
(* Test sessions on which Orchestrator is checked.                          *)
EXTENDS MCDut, Orchestrator

SessionTargets == RoutedStates \cup {"RECOVERY", "none"}
\* A board whose supply and links work; one with the trap that nothing is in
\* doubt on; and a desk where almost everything fails but the console.
SessionStations ==
    {[Lab EXCEPT !.faults = {"hang", "selfboot", "silent", "missed"}],
     [Lab EXCEPT !.gpio = TRUE, !.autoboot = FALSE, !.faults = CleanFaults],
     [Lab EXCEPT !.psu = FALSE, !.faults = AllFaults \ {"slow", "uart", "garbled", "gpio"}]}
=============================================================================
