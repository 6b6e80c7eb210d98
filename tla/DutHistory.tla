----------------------------- MODULE DutHistory -----------------------------
(***************************************************************************)
(* The state machine with history variables, to say what a trigger did on   *)
(* the way to the state it reports:                                         *)
(*   visited  the phases the board has been in since the trigger was fired  *)
(*   booted   the straps that were read when the board last woke up         *)
(***************************************************************************)
EXTENDS DutStateMachine

VARIABLES visited, booted

histvars == <<vars, visited, booted>>

HistInit ==
    /\ Init
    /\ visited = {}
    /\ booted = strap

Remember ==
    /\ visited' = CASE ~Idle -> visited \cup {phys'}
                    [] Idle /\ todo' # <<>> -> {phys'}
                    [] OTHER -> visited
    /\ booted' = IF phys' # phys /\ phys' \in {"spl", "rom"} THEN strap ELSE booted

HistNext == Next /\ Remember

HistSpec == HistInit /\ [][HistNext]_histvars

\* The callback runs on, and the board boots on, by themselves.
HistFairSpec ==
    /\ HistSpec
    /\ WF_vars(CallStep /\ UNCHANGED station)
    /\ WF_vars(BoardBoots /\ UNCHANGED station)

\* No board is reset by a pin that then raises, or made out to be off by a reading
\* of -1.0 A, and no test reboots, by itself, a board on which a command in doubt
\* may have left the trap.
Undoubted ==
    /\ Faults \cap {"garbled", "gpio"} = {}
    /\ Clean \/ Autoboot \/ "selfboot" \notin Faults

\* boot_to_os reports OS_USERLAND only of a board that was in userland at some
\* time since the trigger was fired: every way to the end of _hw_boot_to_os
\* leads past a shell prompt or a heartbeat that was answered.  Excluded are boards
\* that come to their U-Boot prompt while the old session is still open
\* (Undoubted): the prompt echoes the heartbeat of _try_resume_existing_os.
OsCommitBacked ==
    [][Undoubted /\ At("commit") /\ op.trig = "boot_to_os"
         => visited \cap Userland # {}]_histvars

\* Between triggers a board that is reported at its bootloader or in its OS, and
\* that runs, was started from context.active_boot_medium: the straps change
\* only while it is off, and a trigger that raises between power-off, strapping
\* and power-on does not leave the medium of one boot beside the state of
\* another.  Where a boot can fail with the board running (the state is then
\* still POWER_OFF and the next callback straps without a power-off), or set_pin
\* can raise half-way, it is not so.
RunsFromMedium ==
    (/\ HasPsu /\ Autoboot
     /\ HasGpio => Strapped = Mediums
     /\ Faults \subseteq {"hang", "selfboot", "sensor", "lostreboot"}
     /\ Idle /\ state \in {"BOOTLOADER", "OS_USERLAND"}
     /\ phys \notin {"off", "hung"})
      => booted = medium
=============================================================================
