------------------------------ MODULE MCVacuum ------------------------------
(* The instance of Vacuum that TLC checks: its constants are numbers, given  *)
(* in the configuration.                                                    *)
EXTENDS Vacuum
=============================================================================
