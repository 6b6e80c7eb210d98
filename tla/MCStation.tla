------------------------------ MODULE MCStation ------------------------------
(* Two identifiers that may name the one bench, and two overlapping calls of *)
(* one tool from each group.                                                 *)
EXTENDS StationServer, TLC

CONSTANTS i1, i2, b1, c1, c2

TwoIds == {i1, i2}
OneBench == {b1}
TwoCallers == {c1, c2}
Representatives ==
    {"board_run", "fsm_boot_to_recovery", "fsm_power_off", "fsm_energize", "fsm_mark_dirty",
     "psu_enable_output", "psu_disable_output", "sd_mux_set_mode", "flash_tezi"}
Symmetry == Permutations(TwoIds) \cup Permutations(TwoCallers)
=============================================================================
