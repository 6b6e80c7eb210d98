------------------------------ MODULE McuBench ------------------------------
(***************************************************************************)
(* A bare-metal bench: BareMetalStateMachine of mcu_state_machine.py, the   *)
(* debug probes it drives (probe_rs_client.py, pyocd_client.py, and the     *)
(* OpenOCD daemon behind provisioning/jtag.py) and the McuProvisioner of    *)
(* provisioning/mcu_flasher.py.  One thread makes all calls; what varies is *)
(* the order of the calls and what the supply and the probe do.             *)
(*                                                                         *)
(*   power   the supply is on; unsure if its last command raised            *)
(*   core    what the processor does                                        *)
(*   flag    the OTA flag is in its memory                                  *)
(*   image   its flash: the old image, half of the new one, all of it, or   *)
(*           all of it with wrong bytes that the tool did not notice        *)
(*   state   the state the state machine records                            *)
(*   probe   the kind of probe; open is its session (is_connected)          *)
(*   flash   where flash_firmware is, and with which kind of file           *)
(*   out     how the last flash_firmware ended (rejected: before anything    *)
(*           was programmed), until another call is made                    *)
(***************************************************************************)
EXTENDS Naturals

CONSTANT Probes    \* the kinds of probe on the bench

ASSUME ProbesAssumption == Probes \subseteq {"probe_rs", "pyocd", "openocd"}

VARIABLES power, unsure, core, flag, image, state, probe, open, flash, out

supply == <<power, unsure>>
target == <<core, flag, image>>
flasher == <<flash, out>>
mcuvars == <<supply, target, state, probe, open, flasher>>

McuStates == {"POWER_OFF", "ENERGIZED", "RUNNING", "HALTED", "OTA_UPDATE", "FAILED_OTA"}
NoFlash == [at |-> "idle", file |-> "none"]

Free == flash = NoFlash
OtherCall == Free /\ out' = "none" /\ UNCHANGED <<flash, probe>>
-----------------------------------------------------------------------------
(* The probes.  A command that raises may still have reached the target.     *)

\* The probe can act on the processor.  The OpenOCD provisioner has no halt(),
\* resume(), reset() or write_memory(): calling them raises.
Attached == power /\ (probe = "probe_rs" \/ (probe = "pyocd" /\ open))

\* pyOCD without a session accepts every command and does nothing.
Ignored == probe = "pyocd" /\ ~open /\ UNCHANGED core

\* halt(): the probe-rs command line cannot halt and resets instead.
Halted == core' = IF probe = "probe_rs" THEN "run" ELSE "halt"
HaltDone == (Attached /\ Halted) \/ Ignored
HaltRaises == (Attached /\ Halted) \/ UNCHANGED core

\* resume() and reset() leave the program running; _run_cli repeats a failed
\* probe-rs command, and every repetition starts the program again.
Restarted == core' = "run"
RunDone == (Attached /\ Restarted) \/ Ignored
RunRaises == (Attached /\ Restarted) \/ UNCHANGED core

\* write_memory of the OTA flag, if one is configured, then reset().
OtaDone ==
    /\ RunDone
    /\ flag' \in {flag, flag \/ Attached}

\* connect() and disconnect() of the probe.
ProbeConnect ==
    /\ OtherCall
    /\ \/ power /\ open' = TRUE
       \/ UNCHANGED open
    /\ UNCHANGED <<supply, target, state>>

ProbeDisconnect ==
    /\ OtherCall
    /\ open' = FALSE
    /\ UNCHANGED <<supply, target, state>>

\* read_memory, read_u32 and read_core_register change nothing; a direct
\* halt(), resume() or reset() goes past the state machine.
ProbeDirect ==
    /\ OtherCall /\ probe # "openocd"
    /\ HaltRaises \/ RunRaises
    /\ UNCHANGED <<supply, flag, image, state, open>>

\* McuProvisioner.reset, past the state machine too; it raises without a reset().
reset ==
    /\ OtherCall
    /\ RunDone \/ RunRaises
    /\ UNCHANGED <<supply, flag, image, state, open>>
-----------------------------------------------------------------------------
(* BareMetalStateMachine.  The hardware callback runs before the change of   *)
(* state, so that an exception keeps the state.                              *)

PoweredOn == power' = TRUE /\ core' = (IF power THEN core ELSE "run") /\ UNCHANGED flag
PoweredOff == power' = FALSE /\ core' = "off" /\ flag' = FALSE
\* The supply's session raised, before or after the supply obeyed.
SupplyRaises(Effect) == unsure' = TRUE /\ (Effect \/ UNCHANGED <<power, core, flag>>)

_hw_energize(next) ==
    \/ PoweredOn /\ unsure' = FALSE /\ state' = next
    \/ SupplyRaises(PoweredOn) /\ UNCHANGED state

_hw_power_off(next) ==
    \/ PoweredOff /\ unsure' = FALSE /\ state' = next
    \/ SupplyRaises(PoweredOff) /\ UNCHANGED state

energize ==
    /\ OtherCall /\ state = "POWER_OFF"
    /\ _hw_energize("ENERGIZED")
    /\ UNCHANGED <<image, open>>

power_off ==
    /\ OtherCall
    /\ _hw_power_off("POWER_OFF")
    /\ UNCHANGED <<image, open>>

\* Transitions without a hardware callback.
Soft ==
    /\ OtherCall
    /\ \/ state = "ENERGIZED" /\ state' = "RUNNING"         \* auto_run
       \/ state = "OTA_UPDATE" /\ state' = "FAILED_OTA"     \* ota_corrupt
       \/ state = "OTA_UPDATE" /\ state' = "RUNNING"        \* ota_success
    /\ UNCHANGED <<supply, target, open>>

halt_core ==
    /\ OtherCall /\ state \in {"ENERGIZED", "RUNNING"}
    /\ \/ HaltDone /\ state' = "HALTED"
       \/ HaltRaises /\ UNCHANGED state
    /\ UNCHANGED <<supply, flag, image, open>>

resume_core ==
    /\ OtherCall /\ state = "HALTED"
    /\ \/ RunDone /\ state' = "RUNNING"
       \/ RunRaises /\ UNCHANGED state
    /\ UNCHANGED <<supply, flag, image, open>>

trigger_ota ==
    /\ OtherCall /\ state \in {"RUNNING", "ENERGIZED"}
    /\ \/ OtaDone /\ state' = "OTA_UPDATE"
       \/ RunRaises /\ flag' \in {flag, flag \/ Attached} /\ UNCHANGED state
    /\ UNCHANGED <<supply, image, open>>

\* Mutant: the way out of a failed update forgets the supply.
recover_ota_soft ==
    /\ OtherCall /\ state = "FAILED_OTA"
    /\ state' = "POWER_OFF"
    /\ UNCHANGED <<supply, target, open>>

recover_ota ==
    /\ OtherCall /\ state = "FAILED_OTA"
    /\ _hw_power_off("POWER_OFF")
    /\ UNCHANGED <<image, open>>
-----------------------------------------------------------------------------
(* McuProvisioner.flash_firmware                                             *)

Step(s) == flash' = [flash EXCEPT !.at = s] /\ UNCHANGED out
FlashEnds(o) == flash' = NoFlash /\ out' = o

\* _validate_firmware_file and _sha256: a missing or empty file ends the call.
flash_firmware ==
    /\ Free
    /\ \/ \E f \in {"bin", "hex"} : flash' = [at |-> "prepare", file |-> f] /\ out' = "none"
       \/ out' = "rejected" /\ UNCHANGED flash
    /\ UNCHANGED <<supply, target, state, probe, open>>

\* Mutant: pyOCD programs a processor that was not halted.
_dispatch_flash_running ==
    /\ flash.at = "prepare"
    /\ \/ power /\ open' = (open \/ probe = "pyocd") /\ UNCHANGED core /\ Step("program")
       \/ UNCHANGED <<open, core>> /\ FlashEnds("rejected")
    /\ UNCHANGED <<supply, flag, image, state, probe>>

\* What each backend does before it programs: pyOCD attaches and halts, OpenOCD
\* executes reset halt, probe-rs leaves it to the download command.
_dispatch_flash ==
    /\ flash.at = "prepare"
    /\ \/ /\ power
          /\ open' = (open \/ probe = "pyocd")
          /\ core' = IF probe = "probe_rs" THEN core ELSE "halt"
          /\ Step("program")
       \/ UNCHANGED <<open, core>> /\ FlashEnds("rejected")
    /\ UNCHANGED <<supply, flag, image, state, probe>>

\* download, FileProgrammer.program, or program ... verify.  A tool may report
\* success for a flash with wrong bytes (the OpenOCD one when the daemon goes
\* away after "wrote"); a failure leaves any amount of the image behind.
Program ==
    /\ flash.at = "program"
    /\ \/ image' \in {"new", "bad"} /\ Step("restart")
       \/ image' \in {image, "half", "new"} /\ FlashEnds("error")
    /\ UNCHANGED <<supply, core, flag, state, probe, open>>

\* The reset and resume at the end of every backend.
Restart ==
    /\ flash.at = "restart"
    /\ \/ core' = "run" /\ Step("verify")
       \/ core' \in {core, "run"} /\ FlashEnds("error")
    /\ UNCHANGED <<supply, flag, image, state, probe, open>>

\* Ctrl-C inside the backend: _safe_halt, whose failure is ignored.
Interrupted ==
    /\ flash.at \in {"prepare", "program", "restart"}
    /\ image' \in IF flash.at = "program" THEN {image, "half", "new"} ELSE {image}
    /\ (probe # "openocd" /\ HaltDone) \/ UNCHANGED core
    /\ FlashEnds(IF flash.at = "prepare" THEN "rejected" ELSE "interrupted")
    /\ UNCHANGED <<supply, flag, state, probe, open>>

\* _verify_flash: only a .bin file, only with a probe that reads memory, and
\* only its first 256 bytes.  A short readback raises, and so do wrong bytes if
\* they are among those; a read that itself raises is only logged.
_verify_flash ==
    /\ flash.at = "verify"
    /\ \/ FlashEnds("ok")
       \/ flash.file = "bin" /\ probe # "openocd" /\ FlashEnds("error")
    /\ UNCHANGED <<supply, target, state, probe, open>>
-----------------------------------------------------------------------------
McuInit ==
    /\ power = FALSE /\ unsure = FALSE
    /\ core = "off" /\ flag = FALSE /\ image = "old"
    /\ state = "POWER_OFF"
    /\ probe \in Probes /\ open = FALSE
    /\ flash = NoFlash /\ out = "none"

FsmCall == energize \/ power_off \/ Soft \/ halt_core \/ resume_core \/ trigger_ota \/ recover_ota
ProbeCall == ProbeConnect \/ ProbeDisconnect \/ ProbeDirect \/ reset
FlashStep == flash_firmware \/ _dispatch_flash \/ Program \/ Restart \/ Interrupted \/ _verify_flash

McuNext == FsmCall \/ ProbeCall \/ FlashStep
McuSpec == McuInit /\ [][McuNext]_mcuvars
-----------------------------------------------------------------------------
\* The recorded power state is the real one, whatever calls were made and
\* refused, unless the last command to the supply raised.
PowerAgrees == unsure \/ (state = "POWER_OFF") = ~power

\* A flash_firmware() that failed or was interrupted does not leave the
\* processor executing half of an image, with a probe that can halt it.
HalfNotExecuted ==
    out \in {"error", "interrupted"} /\ image = "half" /\ probe # "probe_rs" => core # "run"
=============================================================================
