---------------------------- MODULE MCDutHistory ----------------------------
(* The stations and faults of MCDut, for the state machine with history.    *)
EXTENDS MCDut, DutHistory
=============================================================================
