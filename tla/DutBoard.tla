------------------------------ MODULE DutBoard ------------------------------
(***************************************************************************)
(* The device under test as the framework sees it: a powered board that    *)
(* boots through a secondary loader, U-Boot and a kernel to a login prompt  *)
(* or a shell, talks on a UART and answers SSH once userland is up.  The    *)
(* board is not code of the repository: its behaviour is taken from how     *)
(* state_machine.py drives and observes it.                                 *)
(*                                                                         *)
(*   phys    where the board is ("off" is no supply voltage)                *)
(*   nv      the U-Boot environment in flash: bootcmd and mes_prev_bootcmd  *)
(*   ram     the copy of nv U-Boot works on (only differs at its prompt)    *)
(*   strap   the boot medium selected by the strap pins / DIP switches      *)
(*   pin     the recovery strap is asserted                                 *)
(*   serial  EphemeralSerialClient.is_connected                             *)
(*   rawq    classes of the chunks waiting in _default_raw_queue            *)
(*   ssh     EphemeralSSHClient.is_connected: "no", "live", or "stale"      *)
(*           (still reported as connected although the board has left the   *)
(*           userland it was opened to)                                     *)
(*   station the equipment around the board and the faults that may happen;  *)
(*           never changes                                                  *)
(***************************************************************************)
EXTENDS Naturals, Sequences

CONSTANTS
    Mediums,    \* boot media; "default" is one of them
    QMax,       \* capacity of _default_raw_queue, in chunks
    Stations    \* the stations the board may be on

AllFaults == {"hang",      \* the board stops answering (panic, lock-up)
              "selfboot",  \* a test body reboots or boots the board itself
              "silent",    \* the console is quiet while the board boots
              "slow",      \* a boot outlasts cold_boot_timeout_s
              "missed",    \* a countdown or a prompt is over before it is looked at
              "psu",       \* the power supply raises on a command
              "rebind",    \* the serial port does not come back
              "uart",      \* a console command or its answer is lost
              "net",       \* SSH cannot connect, or a session is severed
              "lostreboot",\* the reboot command is lost
              "operator",  \* a manual prompt is interrupted, nothing is done
              "sensor",    \* the PSU current cannot be measured
              "garbled",   \* a current reply is no number and counts as -1.0 A
              "gpio"}      \* gpio.set_pin raises, with the pin set or not

\* Faults that never leave it in doubt whether a command was carried out.
CleanFaults == {"hang", "selfboot", "silent", "sensor", "missed"}

Station == [psu : BOOLEAN,       \* a programmable supply is present
            gpio : BOOLEAN,      \* a controller with reset and recovery pins
            strapped : SUBSET Mediums,  \* media boot_straps_gpio_map has pins for
            headless : BOOLEAN,  \* no terminal: a manual prompt is an error
            autoboot : BOOLEAN,  \* autoboot_enabled
            faults : SUBSET AllFaults]

ASSUME BoardAssumption ==
    /\ "default" \in Mediums
    /\ QMax \in Nat \ {0}
    /\ Stations \subseteq Station

VARIABLES station, phys, nv, ram, strap, pin, serial, rawq, ssh

Faults == station.faults

board == <<phys, nv, ram, strap, pin, serial, rawq, ssh>>

Phase == {"off", "spl", "uboot", "kernel", "login", "shell", "hung", "rom"}
Userland == {"login", "shell"}
Chunk == {"shell", "uboot", "text"}
Cmd == {"orig", "trap", "none"}
UbootEnv == [bootcmd : Cmd, prev : Cmd]

Powered == phys # "off"

\* One more chunk for the permanent subscriber: drop-oldest when it is full.
Push(q, c) == IF Len(q) < QMax THEN Append(q, c) ELSE Append(Tail(q), c)

\* What the board prints on entering a phase, and what reaches the queue.
Prints(p) == CASE p = "uboot" -> "uboot" [] p = "shell" -> "shell" [] OTHER -> "text"
Rx(p) == IF serial THEN Push(rawq, Prints(p)) ELSE rawq

\* A session survives only while userland does.
SshAcross(p) == IF ssh = "live" /\ p \notin Userland THEN "stale" ELSE ssh

\* The phase a board wakes up in.
WakeUp == IF pin THEN "rom" ELSE "spl"

\* A session starts with the board in one of the phases of start.
BoardInit(start) ==
    /\ station \in Stations
    /\ phys \in start
    /\ nv = [bootcmd |-> "orig", prev |-> "none"]
    /\ ram = nv
    /\ strap = "default"
    /\ pin = FALSE
    /\ serial = FALSE
    /\ rawq = <<>>
    /\ ssh = "no"

\* The board moves to phase p by itself and prints.
Enter(p) ==
    /\ phys' = p
    /\ rawq' = Rx(p)
    /\ ssh' = SshAcross(p)
    /\ ram' = nv
    /\ UNCHANGED <<nv, strap, pin, serial>>

\* U-Boot runs bootcmd after its countdown: the trap, like an empty bootcmd,
\* ends at the prompt.
BoardRunsBootcmd ==
    /\ phys = "spl"
    /\ Enter(IF nv.bootcmd = "orig" THEN "kernel" ELSE "uboot")

BoardReachesUserland ==
    /\ phys = "kernel"
    /\ \E p \in Userland : Enter(p)

\* A board that stops answering, or whose reset pin was left asserted.
BoardHangs ==
    /\ {"hang", "gpio"} \cap Faults # {}
    /\ phys \in {"spl", "kernel", "login", "shell"}
    /\ Enter("hung")

\* TCP notices that the peer is gone.
BoardDropsSsh ==
    /\ \/ ssh = "stale"
       \/ ssh = "live" /\ "net" \in Faults
    /\ ssh' = "no"
    /\ UNCHANGED <<phys, nv, ram, strap, pin, serial, rawq>>

BoardTypeOK ==
    /\ station \in Stations
    /\ phys \in Phase
    /\ nv \in UbootEnv
    /\ ram \in UbootEnv
    /\ strap \in Mediums
    /\ pin \in BOOLEAN
    /\ serial \in BOOLEAN
    /\ rawq \in Seq(Chunk)
    /\ Len(rawq) <= QMax
    /\ ssh \in {"no", "live", "stale"}
=============================================================================
