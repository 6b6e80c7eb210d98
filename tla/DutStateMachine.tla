--------------------------- MODULE DutStateMachine ---------------------------
(***************************************************************************)
(* EmbeddedLinuxStateMachine of state_machine.py.                           *)
(*                                                                         *)
(* A trigger (power_off, energize, ...) runs its "before" callback, which   *)
(* drives the board through a series of blocking calls, and only then does  *)
(* the transitions library set the destination state.  An exception in the  *)
(* callback leaves the state as the callback last set it.  The callback's   *)
(* remaining calls are the sequence todo; every call is one action, between *)
(* which the board moves on its own.                                        *)
(*                                                                         *)
(*   state   the machine's state                                           *)
(*   medium  context.active_boot_medium                                    *)
(*   op      the trigger being executed and its medium argument             *)
(*   todo    the calls still to make; empty between triggers                *)
(*   exc     the last trigger ended in an exception                        *)
(***************************************************************************)
EXTENDS DutBoard

VARIABLES state, medium, op, todo, exc

fsm == <<state, medium, op, todo, exc>>
vars == <<station, board, fsm>>

HasPsu == station.psu
HasGpio == station.gpio
Strapped == station.strapped
Headless == station.headless
\* AutobootStrategy, else TrapRebootStrategy
Autoboot == station.autoboot

DutState == {"POWER_OFF", "ENERGIZED", "BOOTLOADER", "OS_USERLAND", "RECOVERY", "DIRTY"}
Dest == [power_off |-> "POWER_OFF", energize |-> "ENERGIZED",
         boot_to_bootloader |-> "BOOTLOADER", boot_to_os |-> "OS_USERLAND",
         boot_to_recovery |-> "RECOVERY"]
Trigger == DOMAIN Dest
NoOp == [trig |-> "none", medium |-> "default"]
Calls == {"align", "route", "power_off", "strap", "energize", "reset", "pin_on",
          "pin_off", "soft_reboot", "reboot", "trap_save", "trap_set",
          "restore_bootcmd", "restore_prev", "restore_save", "wait_uboot",
          "boot_cmd", "wait_os", "hot_wait", "finalize", "resume",
          "set_energized", "set_dirty", "commit"}

Idle == todo = <<>>
At(c) == todo # <<>> /\ Head(todo) = c

\* The call returns; or the rest of the callback is decided to be p.
Return == todo' = Tail(todo) /\ UNCHANGED <<op, exc>>
Instead(p) == todo' = p /\ UNCHANGED <<op, exc>>

\* The call raises: the trigger is over, the state is what it was.
Raise ==
    /\ todo' = <<>>
    /\ op' = NoOp
    /\ exc' = TRUE
    /\ UNCHANGED <<state, medium>>

Quiet == UNCHANGED <<state, medium>>
-----------------------------------------------------------------------------
(* BootStrategy                                                             *)

\* Mutant: the trap is set before the original bootcmd is saved.
cold_boot_to_bootloader_unsaved ==
    IF Autoboot
    THEN <<"energize", "wait_uboot", "commit">>
    ELSE <<"energize", "wait_os", "finalize", "trap_set", "trap_save", "reboot",
           "wait_uboot", "commit">>

cold_boot_to_bootloader ==
    IF Autoboot
    THEN <<"energize", "wait_uboot", "commit">>
    ELSE <<"energize", "wait_os", "finalize", "trap_save", "trap_set", "reboot",
           "wait_uboot", "commit">>

cold_boot_to_os ==
    IF Autoboot
    THEN <<"energize", "wait_uboot", "boot_cmd", "wait_os", "finalize", "commit">>
    ELSE <<"energize", "wait_os", "finalize", "commit">>

\* Mutant: the restored environment is not saved.
resume_bootloader_to_os_volatile ==
    IF Autoboot
    THEN <<"boot_cmd", "wait_os", "finalize", "commit">>
    ELSE <<"restore_bootcmd", "restore_prev", "boot_cmd", "wait_os", "finalize",
           "commit">>

resume_bootloader_to_os ==
    IF Autoboot
    THEN <<"boot_cmd", "wait_os", "finalize", "commit">>
    ELSE <<"restore_bootcmd", "restore_prev", "restore_save", "boot_cmd",
           "wait_os", "finalize", "commit">>

\* Mutant: the recovery pin is never released.
trigger_recovery_held == <<"pin_on", "energize", "commit">>

trigger_recovery == <<"pin_on", "energize", "pin_off", "commit">>

(* What each callback does once the state is aligned.                       *)
needs_strap_change == op.medium # medium

_hw_power_off ==
    IF state = "POWER_OFF" THEN <<"commit">> ELSE <<"power_off", "commit">>

\* Mutant: POWER_OFF is taken for a state that is already energized.
_hw_energize_from_off ==
    CASE needs_strap_change \/ state = "RECOVERY"
           -> <<"power_off", "strap", "energize", "commit">>
      [] ~needs_strap_change /\ state # "RECOVERY" /\ state # "DIRTY" -> <<"commit">>
      [] OTHER -> <<"strap", "energize", "commit">>

_hw_energize ==
    CASE needs_strap_change \/ state = "RECOVERY"
           -> <<"power_off", "strap", "energize", "commit">>
      [] ~needs_strap_change /\ state \in {"ENERGIZED", "BOOTLOADER", "OS_USERLAND"}
           -> <<"commit">>
      [] OTHER -> <<"strap", "energize", "commit">>

\* Mutant: the medium is changed without a power cycle.
_hw_boot_to_bootloader_hot ==
    CASE needs_strap_change \/ state = "RECOVERY" -> <<"strap">> \o cold_boot_to_bootloader
      [] ~needs_strap_change /\ state = "BOOTLOADER" -> <<"commit">>
      [] ~needs_strap_change /\ state = "OS_USERLAND" -> <<"reboot", "wait_uboot", "commit">>
      [] OTHER -> <<"power_off">> \o cold_boot_to_bootloader

_hw_boot_to_bootloader ==
    CASE needs_strap_change \/ state = "RECOVERY"
           -> <<"power_off", "strap">> \o cold_boot_to_bootloader
      [] ~needs_strap_change /\ state = "BOOTLOADER" -> <<"commit">>
      [] ~needs_strap_change /\ state = "OS_USERLAND"
           -> IF Autoboot THEN <<"reboot", "wait_uboot", "commit">>
              ELSE <<"trap_save", "trap_set", "reboot", "wait_uboot", "commit">>
      [] ~needs_strap_change /\ state = "ENERGIZED"
           -> IF HasPsu THEN <<"power_off">> \o cold_boot_to_bootloader
              ELSE <<"soft_reboot", "wait_uboot", "commit">>
      [] OTHER -> cold_boot_to_bootloader

\* Mutant: a board in recovery is booted without a power cycle.
_hw_boot_to_os_warm ==
    CASE state = "OS_USERLAND" -> <<"resume", "commit">>
      [] state = "ENERGIZED" -> <<"hot_wait", "finalize", "commit">>
      [] state = "BOOTLOADER" -> resume_bootloader_to_os
      [] OTHER -> <<"strap">> \o cold_boot_to_os

_hw_boot_to_os ==
    CASE state = "OS_USERLAND" -> <<"resume", "commit">>
      [] state = "ENERGIZED" -> <<"hot_wait", "finalize", "commit">>
      [] state = "BOOTLOADER" -> resume_bootloader_to_os
      [] state = "POWER_OFF" -> <<"strap">> \o cold_boot_to_os
      [] OTHER -> <<"power_off", "strap">> \o cold_boot_to_os

_hw_to_recovery ==
    CASE state = "RECOVERY" -> <<"commit">>
      [] state = "POWER_OFF" -> trigger_recovery
      [] OTHER -> <<"power_off">> \o trigger_recovery

Callback ==
    CASE op.trig = "power_off" -> _hw_power_off
      [] op.trig = "energize" -> _hw_energize
      [] op.trig = "boot_to_bootloader" -> _hw_boot_to_bootloader
      [] op.trig = "boot_to_os" -> _hw_boot_to_os
      [] OTHER -> _hw_to_recovery
-----------------------------------------------------------------------------
(* Triggers                                                                 *)

\* The callbacks of power_off and boot_to_recovery take no medium; the other
\* default to the current one.
Fire(t, m) ==
    /\ Idle
    /\ t \in {"power_off", "boot_to_recovery"} => m = medium
    /\ op' = [trig |-> t, medium |-> m]
    /\ todo' = <<"align", "route">>
    /\ exc' = FALSE
    /\ UNCHANGED <<board, state, medium>>

mark_dirty ==
    /\ Idle
    /\ state' = "DIRTY"
    /\ UNCHANGED <<board, medium, op, todo, exc>>

\* Between triggers a test body uses the shell, or the U-Boot prompt.
TestBoots ==
    /\ Idle
    /\ "selfboot" \in Faults
    /\ \/ phys = "shell" /\ Enter("spl")
       \/ phys = "uboot" /\ ram.bootcmd = "orig" /\ Enter("kernel")
    /\ UNCHANGED fsm

Route ==
    /\ At("route")
    /\ Instead(Callback)
    /\ UNCHANGED board /\ Quiet

Commit ==
    /\ At("commit")
    /\ state' = Dest[op.trig]
    /\ todo' = <<>>
    /\ op' = NoOp
    /\ UNCHANGED <<board, medium, exc>>

set_state ==
    /\ \/ At("set_energized") /\ state' = "ENERGIZED"
       \/ At("set_dirty") /\ state' = "DIRTY"
    /\ Return
    /\ UNCHANGED <<board, medium>>
-----------------------------------------------------------------------------
(* _align_to_physical_state and _probe_hardware_state                       *)

SkipProbe ==
    \/ HasPsu /\ state # "DIRTY"
    \/ state \in {"RECOVERY", "BOOTLOADER", "POWER_OFF"}

Align(s) == state' = s /\ UNCHANGED medium /\ Return

AlignSkipped ==
    /\ At("align") /\ SkipProbe
    /\ Align(state)
    /\ UNCHANGED board

\* Power domain: no current, or a reply that counts as less than none.
ProbePower ==
    /\ At("align") /\ ~SkipProbe
    /\ HasPsu
    /\ ~Powered \/ "garbled" \in Faults
    /\ Align("POWER_OFF")
    /\ UNCHANGED board

\* The power domain did not settle it.
PowerInconclusive == Powered \/ ~HasPsu \/ "sensor" \in Faults

\* Network domain: an open session is believed; else the daemon's banner.
ProbeNetwork ==
    /\ At("align") /\ ~SkipProbe
    /\ PowerInconclusive
    /\ ssh # "no" \/ phys \in Userland
    /\ Align("OS_USERLAND")
    /\ UNCHANGED board

NetworkInconclusive == ssh = "no"

\* Serial domain: one chunk of the raw queue, the oldest, decides alone.
ProbePassive ==
    /\ At("align") /\ ~SkipProbe
    /\ PowerInconclusive /\ NetworkInconclusive
    /\ serial /\ rawq # <<>>
    /\ Align(CASE Head(rawq) = "shell" -> "OS_USERLAND"
               [] Head(rawq) = "uboot" -> "BOOTLOADER"
               [] OTHER -> "ENERGIZED")
    /\ rawq' = Tail(rawq)
    /\ UNCHANGED <<phys, nv, ram, strap, pin, serial, ssh>>

\* What a newline on the console brings back.
ActiveAnswers ==
    (CASE phys = "shell" -> {"OS_USERLAND"}
       [] phys = "uboot" -> {"BOOTLOADER"}
       [] phys = "login" -> {"ENERGIZED"}
       [] phys \in {"spl", "kernel"}
            -> {"ENERGIZED"} \cup IF "silent" \in Faults THEN {"POWER_OFF"} ELSE {}
       [] OTHER -> {"POWER_OFF"})
    \cup IF "uart" \in Faults THEN {"POWER_OFF"} ELSE {}

ProbeActive ==
    /\ At("align") /\ ~SkipProbe
    /\ PowerInconclusive /\ NetworkInconclusive
    /\ serial => rawq = <<>>
    /\ \E s \in ActiveAnswers : Align(s)
    /\ serial' = TRUE
    /\ rawq' = <<>>
    /\ UNCHANGED <<phys, nv, ram, strap, pin, ssh>>

\* The port is closed and cannot be opened.
ProbeRaises ==
    /\ At("align") /\ ~SkipProbe
    /\ PowerInconclusive /\ NetworkInconclusive
    /\ ~serial /\ "rebind" \in Faults
    /\ Raise
    /\ UNCHANGED board
-----------------------------------------------------------------------------
(* Power, straps and pins                                                   *)

\* A manual prompt: an error without a terminal, and without effect when the
\* operator interrupts it.
PromptObeyed == ~Headless
PromptIgnored == ~Headless /\ "operator" \in Faults

\* Mutant: the session is left open.
CloseSsh_kept == ssh' = SshAcross("off")

\* ssh.disconnect() if connected.
CloseSsh == ssh' = "no"

\* _do_power_off: the SSH session and the context go before the supply does.
do_power_off ==
    /\ At("power_off")
    /\ CloseSsh
    /\ \/ /\ HasPsu \/ PromptObeyed
          /\ phys' = "off" /\ ram' = nv
          /\ Return /\ Quiet
       \/ /\ ~HasPsu /\ PromptIgnored
          /\ UNCHANGED <<phys, ram>>
          /\ Return /\ Quiet
       \/ /\ HasPsu /\ "psu" \in Faults
          /\ (phys' = "off" /\ ram' = nv) \/ UNCHANGED <<phys, ram>>
          /\ Raise
       \/ /\ ~HasPsu /\ Headless
          /\ UNCHANGED <<phys, ram>>
          /\ Raise
    /\ UNCHANGED <<nv, strap, pin, serial, rawq>>

\* context.active_boot_medium follows the straps.
SetMedium(m) == medium' = m /\ UNCHANGED state /\ Return

\* _do_apply_bootstrap, then the assignment of context.active_boot_medium
\* that follows it in every callback.  A pin that cannot be set may leave the
\* straps at any medium.
do_apply_bootstrap ==
    /\ At("strap")
    /\ LET m == op.medium
           skip == m = "default" /\ medium = "default"
       IN \/ /\ skip \/ (HasGpio /\ m \notin Strapped) \/ (~HasGpio /\ PromptIgnored)
             /\ UNCHANGED strap
             /\ SetMedium(m)
          \/ /\ ~skip
             /\ (HasGpio /\ m \in Strapped) \/ (~HasGpio /\ PromptObeyed)
             /\ strap' = m
             /\ SetMedium(m)
          \/ /\ ~skip /\ ~HasGpio /\ Headless
             /\ UNCHANGED strap
             /\ Raise
          \/ /\ ~skip /\ HasGpio /\ m \in Strapped /\ "gpio" \in Faults
             /\ strap' \in Mediums
             /\ Raise
    /\ UNCHANGED <<phys, nv, ram, pin, serial, rawq, ssh>>

\* Supply voltage is applied: only a board that was off wakes up.
ApplyPower ==
    /\ phys' = IF Powered THEN phys ELSE WakeUp
    /\ ram' = IF Powered THEN ram ELSE nv

\* _rebind_serial_port: the port is reopened and its buffers are flushed.
rebind_serial_port ==
    /\ rawq' = <<>>
    /\ \/ serial' = TRUE /\ Return /\ Quiet
       \/ "rebind" \in Faults /\ serial' = FALSE /\ Raise

\* _do_energize: a supply that raises may have switched the board on.
do_energize ==
    /\ At("energize")
    /\ \/ (HasPsu \/ PromptObeyed) /\ ApplyPower /\ rebind_serial_port
       \/ ~HasPsu /\ PromptIgnored /\ UNCHANGED <<phys, ram>> /\ rebind_serial_port
       \/ /\ HasPsu /\ "psu" \in Faults
          /\ ApplyPower \/ UNCHANGED <<phys, ram>>
          /\ UNCHANGED <<serial, rawq>> /\ Raise
       \/ /\ ~HasPsu /\ Headless
          /\ UNCHANGED <<phys, ram, serial, rawq>> /\ Raise
    /\ UNCHANGED <<nv, strap, pin, ssh>>

\* _do_hardware_reset: the reset pin, else a power cycle.  (It is only called
\* in OS_USERLAND and ENERGIZED, so its early return in POWER_OFF is not met.)
do_hardware_reset ==
    /\ At("reset")
    /\ \/ /\ HasGpio
          /\ IF Powered THEN Enter(WakeUp) ELSE UNCHANGED board
          /\ Return /\ Quiet
       \/ /\ HasGpio /\ "gpio" \in Faults
          /\ (Powered /\ Enter(WakeUp)) \/ UNCHANGED board
          /\ Raise
       \/ /\ ~HasGpio
          /\ Instead(<<"power_off", "energize">> \o Tail(todo))
          /\ UNCHANGED board /\ Quiet

\* GpioRecoveryStrategy.trigger_recovery around _do_energize: the pin, or a
\* button that an operator holds and lets go.
recovery_pin ==
    /\ \/ At("pin_on") /\ (HasGpio \/ PromptObeyed) /\ pin' = TRUE /\ Return /\ Quiet
       \/ At("pin_on") /\ ~HasGpio /\ PromptIgnored /\ UNCHANGED pin /\ Return /\ Quiet
       \/ At("pin_on") /\ ~HasGpio /\ Headless /\ UNCHANGED pin /\ Raise
       \/ At("pin_off") /\ pin' = FALSE /\ Return /\ Quiet
       \/ /\ At("pin_on") \/ At("pin_off")
          /\ HasGpio /\ "gpio" \in Faults
          /\ pin' \in BOOLEAN
          /\ Raise
       \/ At("pin_off") /\ ~HasGpio /\ PromptIgnored /\ UNCHANGED pin /\ Return /\ Quiet
    /\ UNCHANGED <<phys, nv, ram, strap, serial, rawq, ssh>>

\* release_recovery, after a payload was delivered: the GPIO strategy does
\* nothing, a manual station asks for the jumper to be removed.
release_recovery ==
    /\ Idle
    /\ ~HasGpio /\ PromptObeyed
    /\ pin' = FALSE
    /\ UNCHANGED <<phys, nv, ram, strap, serial, rawq, ssh, fsm>>
-----------------------------------------------------------------------------
(* Commands to a running Linux, and to U-Boot                               *)

\* The property transport: SSH if connected, else the console.
ShellReachable == ssh = "live" \/ (ssh = "no" /\ serial /\ phys = "shell")
CommandFails == {"uart", "net"} \cap Faults # {}

\* The two fw_setenv of _set_uboot_trap_and_reboot, with check_exit_code: an
\* answer that does not come is an error, whether or not the write was made.
FwSetenv(c, env) ==
    /\ At(c)
    /\ \/ /\ ShellReachable
          /\ nv' = env
          /\ Return /\ Quiet
       \/ /\ ShellReachable /\ CommandFails
          /\ nv' \in {nv, env}
          /\ Raise
       \/ /\ ~ShellReachable
          /\ UNCHANGED nv
          /\ Raise
    /\ ram' = IF phys = "uboot" THEN ram ELSE nv'
    /\ UNCHANGED <<phys, strap, pin, serial, rawq, ssh>>

trap_save == FwSetenv("trap_save", [nv EXCEPT !.prev = nv.bootcmd])
trap_set == FwSetenv("trap_set", [nv EXCEPT !.bootcmd = "trap"])

\* reboot over the best transport; errors are swallowed, SSH is closed.
reboot ==
    /\ At("reboot")
    /\ \/ /\ ShellReachable
          /\ phys' = "spl" /\ rawq' = Rx("spl")
       \/ /\ ~ShellReachable \/ "lostreboot" \in Faults
          /\ UNCHANGED <<phys, rawq>>
    /\ CloseSsh
    /\ Return /\ Quiet
    /\ UNCHANGED <<nv, ram, strap, pin, serial>>

\* _do_soft_reboot: logs in on the console blindly, then reboots.
do_soft_reboot ==
    /\ At("soft_reboot")
    /\ IF serial
       THEN /\ IF phys \in Userland THEN Enter("spl") ELSE UNCHANGED board
            /\ Return /\ Quiet
       ELSE UNCHANGED board /\ Raise

\* A U-Boot command of _restore_uboot_trap: its result is not looked at.
UbootRun(c, env) ==
    /\ At(c)
    /\ IF serial
       THEN /\ \/ phys = "uboot" /\ ram' = env /\ rawq' = <<"uboot">>
               \/ (phys # "uboot" \/ "uart" \in Faults) /\ ram' = ram /\ rawq' = <<>>
            /\ Return /\ Quiet
       ELSE UNCHANGED <<ram, rawq>> /\ Raise
    /\ UNCHANGED <<phys, nv, strap, pin, serial, ssh>>

restore_bootcmd == UbootRun("restore_bootcmd", [ram EXCEPT !.bootcmd = ram.prev])
restore_prev == UbootRun("restore_prev", [ram EXCEPT !.prev = "none"])
restore_save ==
    /\ At("restore_save")
    /\ IF serial
       THEN /\ \/ phys = "uboot" /\ nv' = ram /\ rawq' = <<"uboot">>
               \/ (phys # "uboot" \/ "uart" \in Faults) /\ nv' = nv /\ rawq' = <<>>
            /\ Return /\ Quiet
       ELSE UNCHANGED <<nv, rawq>> /\ Raise
    /\ UNCHANGED <<phys, ram, strap, pin, serial, ssh>>

\* The boot command at the prompt; typed into anything else it is lost.
BootCmd ==
    IF phys = "uboot" /\ ram.bootcmd = "orig"
    THEN phys' = "kernel" /\ ram' = nv
    ELSE UNCHANGED <<phys, ram>>

boot_cmd ==
    /\ At("boot_cmd")
    /\ BootCmd
    /\ rawq' = IF serial /\ phys' = "kernel" THEN <<"text">> ELSE <<>>
    /\ Return /\ Quiet
    /\ UNCHANGED <<nv, strap, pin, serial, ssh>>
-----------------------------------------------------------------------------
(* Waiting on the UART event stream                                         *)

TimesOut(progressing) == "slow" \in Faults \/ phys \notin progressing

\* event_wait_for_bootloader: the countdown is sniped when autoboot is on.
\* Only then is a silent console pinged: without it, a prompt that was printed
\* before the stream was opened is missed.
SnipeAutoboot ==
    /\ At("wait_uboot") /\ Autoboot
    /\ serial /\ phys = "spl"
    /\ Enter("uboot")
    /\ UNCHANGED fsm

wait_uboot ==
    /\ At("wait_uboot")
    /\ \/ /\ serial /\ phys = "uboot"
          /\ rawq' = <<"uboot">>
          /\ Return /\ Quiet
       \/ \* panic, failed echo synchronisation, or timeout
          /\ \/ TimesOut({"spl", "uboot"}) \/ ~serial
             \/ phys = "uboot" /\ ~Autoboot /\ "missed" \in Faults
             \/ phys = "uboot" /\ "uart" \in Faults
          /\ rawq' = <<>>
          /\ Raise
    /\ UNCHANGED <<phys, nv, ram, strap, pin, serial, ssh>>

\* event_wait_for_os_shell: logs in at a login prompt, types boot at a
\* U-Boot prompt, returns at a shell.
OsProgressing == {"spl", "kernel", "login", "shell"} \cup
                 IF ram.bootcmd = "orig" THEN {"uboot"} ELSE {}

LogIn ==
    /\ At("wait_os") \/ At("hot_wait")
    /\ serial /\ phys = "login"
    /\ Enter("shell")
    /\ UNCHANGED fsm

InjectBoot ==
    /\ At("wait_os") \/ At("hot_wait")
    /\ serial /\ phys = "uboot" /\ ram.bootcmd = "orig"
    /\ Enter("kernel")
    /\ UNCHANGED fsm

ShellSeen ==
    /\ At("wait_os") \/ At("hot_wait")
    /\ serial /\ phys = "shell"
    /\ Return /\ Quiet
    /\ UNCHANGED board

KernelPanic ==
    /\ At("wait_os") \/ At("hot_wait")
    /\ serial /\ phys = "hung"
    /\ Raise
    /\ UNCHANGED board

\* Mutant: a failed hot login is tried again.
WaitTimesOut_again ==
    /\ TimesOut(OsProgressing) \/ ~serial
    /\ \/ At("wait_os") /\ Raise
       \/ At("hot_wait") /\ Instead(<<"reset">> \o todo) /\ Quiet
    /\ UNCHANGED board

\* A timeout ends the trigger, except in _try_hot_login, which falls back to
\* a reset and then to the cold boot from DIRTY.
WaitTimesOut ==
    /\ TimesOut(OsProgressing) \/ ~serial
    /\ \/ At("wait_os") /\ Raise
       \/ /\ At("hot_wait")
          /\ Instead(<<"reset", "set_dirty", "power_off", "strap">> \o cold_boot_to_os)
          /\ Quiet
    /\ UNCHANGED board
-----------------------------------------------------------------------------
(* SSH                                                                      *)

SshAnswers == phys \in Userland

\* finalize_os_boot: an open session is taken as it is.
finalize_os_boot ==
    /\ At("finalize")
    /\ \/ /\ ssh # "no"
          /\ UNCHANGED <<ssh, rawq>> /\ Return /\ Quiet
       \/ /\ ssh = "no" /\ SshAnswers
          /\ ssh' = "live"
          /\ rawq' = IF serial THEN <<Prints(phys)>> ELSE rawq
          /\ Return /\ Quiet
       \/ /\ ssh = "no" /\ (~SshAnswers \/ CommandFails)
          /\ UNCHANGED <<ssh, rawq>> /\ Raise
    /\ UNCHANGED <<phys, nv, ram, strap, pin, serial>>

\* A console answers a heartbeat by echoing it: a prompt that merely echoes
\* the typed line (getty, U-Boot) cannot be told from a shell that runs it.
ConsoleEchoes == serial /\ phys \in {"shell", "login", "uboot"}

\* _try_resume_existing_os: heartbeat over SSH, then over the console.  A dead
\* session may be severed, or time out and stay open.
SshHeartbeat ==
    \/ ssh = "live" /\ UNCHANGED ssh
    \/ ssh = "no" /\ SshAnswers /\ ssh' = "live"
SshHeartbeatFails ==
    /\ ssh = "stale" \/ (ssh = "no" /\ ~SshAnswers) \/ "net" \in Faults
    /\ ssh' \in {ssh, "no"}

ResumeAlive ==
    /\ At("resume")
    /\ \/ SshHeartbeat /\ UNCHANGED rawq
       \/ SshHeartbeatFails /\ ConsoleEchoes /\ rawq' = <<Prints(phys)>>
    /\ Instead(<<"finalize", "commit">>)
    /\ UNCHANGED <<phys, nv, ram, strap, pin, serial>> /\ Quiet

\* Mutant: a session without a heartbeat is taken for a running OS.
ResumeDead_believed ==
    /\ At("resume")
    /\ SshHeartbeatFails
    /\ ~ConsoleEchoes \/ "uart" \in Faults
    /\ rawq' = <<>>
    /\ Instead(<<"commit">>)
    /\ UNCHANGED <<phys, nv, ram, strap, pin, serial>> /\ Quiet

ResumeDead ==
    /\ At("resume")
    /\ SshHeartbeatFails
    /\ ~ConsoleEchoes \/ "uart" \in Faults
    /\ rawq' = <<>>
    /\ Instead(<<"reset", "set_energized", "hot_wait", "finalize", "commit">>)
    /\ UNCHANGED <<phys, nv, ram, strap, pin, serial>> /\ Quiet
-----------------------------------------------------------------------------
Init ==
    /\ BoardInit(IF HasPsu THEN {"off"} ELSE {"off", "uboot", "login", "shell"})
    /\ state = "DIRTY"
    /\ medium = "default"
    /\ op = NoOp
    /\ todo = <<>>
    /\ exc = FALSE

Client ==
    \/ \E t \in Trigger, m \in Mediums : Fire(t, m)
    \/ mark_dirty
    \/ release_recovery

ProbeStep ==
    \/ AlignSkipped \/ ProbePower \/ ProbeNetwork
    \/ ProbePassive \/ ProbeActive \/ ProbeRaises

WaitStep ==
    \/ SnipeAutoboot \/ wait_uboot
    \/ LogIn \/ InjectBoot \/ ShellSeen \/ KernelPanic \/ WaitTimesOut

CallStep ==
    \/ Route \/ Commit \/ set_state
    \/ ProbeStep
    \/ do_power_off \/ do_apply_bootstrap \/ do_energize
    \/ do_hardware_reset \/ recovery_pin
    \/ trap_save \/ trap_set \/ reboot \/ do_soft_reboot
    \/ restore_bootcmd \/ restore_prev \/ restore_save
    \/ boot_cmd
    \/ WaitStep
    \/ finalize_os_boot \/ ResumeAlive \/ ResumeDead

\* The board boots on by itself; unless the countdown is missed, a snipe that
\* is waiting for it comes first.
BoardBoots ==
    /\ \/ /\ BoardRunsBootcmd
          /\ (At("wait_uboot") /\ Autoboot /\ serial) => "missed" \in Faults
       \/ BoardReachesUserland
    /\ UNCHANGED fsm

World ==
    \/ BoardBoots
    \/ (BoardHangs \/ BoardDropsSsh) /\ UNCHANGED fsm
    \/ TestBoots

Next == (Client \/ CallStep \/ World) /\ UNCHANGED station

Spec == Init /\ [][Next]_vars

TypeOK ==
    /\ BoardTypeOK
    /\ state \in DutState
    /\ medium \in Mediums
    /\ op \in [trig : Trigger \cup {"none"}, medium : Mediums]
    /\ todo \in Seq(Calls)
    /\ exc \in BOOLEAN
-----------------------------------------------------------------------------
(* Properties                                                               *)

\* The faults that may happen on the station leave no command in doubt.
Clean == Faults \subseteq CleanFaults
\* Nobody has to be asked, or somebody answers: no prompt raises on a step that
\* needs a controller or a supply.
PinsServed == HasGpio \/ ~Headless
PowerServed == HasPsu \/ ~Headless

\* Between triggers a board said to be energized, at its bootloader or in its
\* OS has supply voltage, whatever failed on the way there, as long as power-off
\* is not followed by a prompt or a strap pin that raises.
OnMeansPowered ==
    HasPsu /\ PinsServed /\ Faults \cap {"psu", "sensor", "gpio"} = {} /\ Idle
      => (state \in {"ENERGIZED", "BOOTLOADER", "OS_USERLAND"} => Powered)

\* The bootcmd the board came with is never lost: it is in bootcmd, or in
\* mes_prev_bootcmd from which _restore_uboot_trap takes it back.
OriginalBootcmdKept == Clean /\ HasPsu => "orig" \in {nv.bootcmd, nv.prev}

\* boot_to_os does not return with the trap still in the stored environment:
\* the next power cycle boots Linux again.
OsIsUntrapped ==
    [][Clean /\ At("commit") /\ op.trig = "boot_to_os" => nv.bootcmd = "orig"]_vars

\* Between triggers the recovery strap of a controller is released ("pin was
\* cleared during trigger"), if neither energizing the board nor set_pin raises.
PinReleased ==
    HasGpio /\ PowerServed /\ Faults \cap {"rebind", "psu", "gpio"} = {} /\ Idle => ~pin

\* When boot_to_os returns, the SSH client is not holding on to a session of
\* a boot that is over (finalize_os_boot keeps any session it finds open), if
\* only the framework restarts the board and no reset pin is pulled after a
\* heartbeat that was lost.
FreshSession ==
    [][(/\ Faults \cap {"hang", "selfboot", "operator", "gpio"} = {}
        /\ HasGpio => "net" \notin Faults
        /\ At("commit") /\ op.trig = "boot_to_os")
       => ssh # "stale"]_vars

\* Every trigger ends, in its destination or in an exception: the fallbacks of
\* _hw_boot_to_os (resume, hot login, cold boot) do not go round in circles.
TriggerTerminates == ~Idle ~> Idle

\* What is asked of boot_to_os can be done: whoever has to switch or to strap is
\* there, POWER_OFF and BOOTLOADER are not said of a board that is elsewhere, and
\* the stored bootcmd boots, or is the trap that resume_bootloader_to_os restores.
Feasible ==
    /\ PowerServed
    /\ PinsServed \/ (op.medium = "default" /\ medium = "default")
    /\ state = "POWER_OFF" => ~Powered
    /\ state = "BOOTLOADER" => phys = "uboot"
    /\ IF state = "BOOTLOADER" /\ ~Autoboot THEN ram.prev = "orig"
       ELSE nv.bootcmd = "orig"

\* Without faults boot_to_os reaches the OS from every state it is routed from,
\* through resume, hot login, restoration of the trap or cold boot, and on every
\* station that can do what is asked of it.
BootSucceeds ==
    Faults = {} /\ op.trig = "boot_to_os" /\ At("route") /\ Feasible
      ~> Idle /\ state = "OS_USERLAND" /\ ~exc
=============================================================================
