-------------------------------- MODULE MCMcu --------------------------------
(* Every kind of probe, chosen in the initial state.                         *)
EXTENDS McuBench

AllProbes == {"probe_rs", "pyocd", "openocd"}
=============================================================================
