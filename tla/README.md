# A TLA+ model of pytest-mes-core

pytest-mes-core is a pytest plugin for manufacturing test stations: it powers
boards, boots them through their boot chain, talks to them over a console and
SSH, and routes every test to a board in the state the test asks for.  This
directory models the parts of it that keep state and run concurrently, checks
them with TLC on small stations, and proves the properties that matter most
with TLAPS for every station.  Source paths below are relative to
`src/src/pytest_mes_core/`.

1. [The system](#the-system)
2. [Modules](#modules)
3. [What is checked](#what-is-checked)
4. [What is proved](#what-is-proved)
5. [What the code does that its documentation does not say](#disagreements)
6. [Not modelled, and the plan](#not-modelled-and-the-plan)

## The system

| Component | State it keeps | Operations | Talks to |
|---|---|---|---|
| `EmbeddedLinuxStateMachine` (`state_machine.py`) | reported state, boot medium, boot and recovery strategy | five triggers, `mark_dirty`, `release_recovery`, probe/align, heartbeat | supply, GPIO or operator, console, SSH, U-Boot environment |
| Orchestrator plugin (`plugins/orchestrator.py`) | marker of the running test | session fixture, `enforce_physical_state`, teardown | the state machine |
| `FailoverTransport` (`transports/failover.py`) | failover flag, recovery thread, `_connect_lock` | `connect`, `disconnect`, `safe_run`, `_probe_primary_recovery`, `_on_panic` | SSH client, serial client, watchdog |
| `EphemeralSerialClient` (`transports/serial_client.py`) | port, RX daemon, subscribers, `_tx_lock` | `connect`, `disconnect`, `safe_run`, `expect`, `write_line`, `raw_write`, `flush_buffers` | board console, every subscriber |
| `UartKernelWatchdog` (`transports/watchdog.py`) | monitor thread, rolling window, muted/panicked flags | `start`, `stop`, `mute`, `unmute`, monitor loop | serial client, panic callbacks |
| `EphemeralSSHClient` (`transports/ssh.py`) | session | `connect`, `safe_run`, `disconnect` | sshd of the board |
| `ScpiPowerSupply`, `SafePowerController` (`instruments/power_supplies.py`), `LiveVoltageSweeper` (`instruments/shmoo.py`) | output, setpoints | setters, ramp, sweep, contexts, `close` | the supply |
| `DPS150` (`instruments/fnirsi_dps150.py`) | output, setpoints, cached rating | the same, range checks, sweeps, telemetry thread | the supply |
| `psu_hardware` (`plugins/hardware.py`), `EStopWatchdog` (`host_adapters/safety.py`) | the session's supply; polling thread and error counter | setup, teardown; poll, SIGINT, hard kill | the supply; the main thread |
| `HostSideBuffer` (`transports/chunking.py`) under `run_binary` (`protocols/executable.py`) | line count, buffer, polling thread; the program on the board and its log | `start`, `stop`, poll; run, scrape, clean up | any transport |
| `StationManager` (`mcp/station_manager.py`) and the tools (`mcp/server.py`) | registry of sessions | `connect`, `disconnect`, some forty tools | state machine, supply, multiplexer, links |
| `BareMetalStateMachine` (`mcu_state_machine.py`), debug probes, `McuProvisioner` (`provisioning/mcu_flasher.py`) | power and core state, probe session | eight triggers, halt/resume/reset, `flash_firmware`, `reset` | supply, probe-rs, pyOCD, OpenOCD |
| `SecureAssetFetcher`, `hardware_mutex`, `HostUsbSdMuxAdapter`, the provisioners | cached artifact, lock files, side of the SD card | fetch, lock, switch, write, release | worker processes, bmaptool, IPECMD |
| `SdMuxRecoveryStrategy`, `UuuTeziProvisioner` | recovery strap, progress of the installation | recovery, push, follow the console | multiplexer, uuu, dfu-util, board |
| pytest hooks (`plugins/core_config.py`, `plugins/telemetry_hooks.py`) and exporters (`telemetry/`) | armed watchdog, telemetry sink, reports of the item, counters | configure, session start, one record per test, unconfigure | pytest, E-Stop, disk |

Calls run in the main thread of pytest.  Threads that interleave with it are the
RX daemon of the port, the watchdog's monitor, the recovery thread of the
failover, the thread of a log buffer, the E-Stop poller (through SIGINT), the
overlapping tool calls of the MCP server and whatever thread a station adds;
worker processes of pytest-xdist share the host's media and its artifact cache;
the board moves on its own all the time.  Almost every operation is a series of
blocking calls each of which may raise, so what is hard is not the single call
but the state a series leaves behind when it ends in the middle, the state that
was read before a blocking call and used after it, threads given up on by a
`join` with a timeout, and answers that arrive for someone else.  The 40 places
where this bites are listed with their lines under `hazards` in `PROJECT.json`.

What makes each component correct:

* the state machine reports a state the board really reached, keeps medium,
  recovery pin and U-Boot environment consistent however a trigger ends,
  and every trigger ends;
* the orchestrator starts a test body only in the state its marker names;
* the failover repeats only commands that may be repeated, has one recovery
  thread, returns from every call and goes back to a network that is back;
* the console gives a command its own exit code, does not run it twice, never
  mixes up two writers, and lets no panic go unreported;
* the supply is off when a session is over, raises the voltage gently, respects
  the rating, cuts a short circuit, and stops on the E-Stop;
* the log of a program arrives without gaps and without another run's lines, and
  the caller returns although the thread hangs;
* the server hands out only sessions that are open, and an output that is on has
  an owner;
* the MCU machine knows whether the board is powered, and half an image is not
  left running;
* one process writes a medium at a time, success means that the image is there,
  and an installation is not reported before its end;
* a passed test is on record, and a certificate tells the truth.

## Modules

`DutBoard` is the device under test and the station around it, modelled from how
`state_machine.py` drives and observes them (external): the phase of the boot
chain, the U-Boot environment in flash and its copy in RAM, straps, recovery pin,
console queue and SSH session.  A *station* is a record of the equipment
(programmable supply, GPIO, strap pins, operator, autoboot) and the faults that
may happen there; it is chosen initially and never changes.

`DutStateMachine` extends it with the machine.  A trigger is fired (`Fire`), its
"before" callback is a sequence of calls still to make (`todo`), each call is one
action named after the method (`do_energize`, `wait_uboot`, `finalize_os_boot`,
...), and between any two the board moves.  `Route` decides the sequence once
the state was aligned with the probe (`Align`, `Probe...`); a call that raises
(`Raise`) leaves the state as the callback last set it, which is what the
`transitions` library does.  Only the last call, `commit`, sets the destination.
A GPIO driver may raise at any pin, which leaves the straps set in part or the
recovery pin as it was (fault `gpio`); an unreadable current counts as -1.0 A, as
in `measure_current` (fault `garbled`).

`DutHistory` adds history variables, the phases visited during a trigger and the
straps that were read when the board last woke up, so that "reports only what
happened" and "runs from the medium that is reported" can be said.

`Orchestrator` composes it with the routing fixture: an action per branch of
`enforce_physical_state`, test bodies that boot the board or fail, session end.

`Failover` models the clients of a `FailoverTransport` and its recovery threads,
one action per stretch of code between two blocking calls or lock operations.
`CommandChannel` is what `DutTransport.safe_run` promises its callers: a call, the
sending of a copy while the call lasts, the execution or the loss of a copy at any
time, also after the return, and a return.  `Failover` instantiates it (`Channel`)
with its own record of commands; `ImplementsChannel` is the refinement, checked and
proved.  A line that was typed and not answered in time stays under way: the board
may run it after `safe_run` has returned and during the next command.

`Console` models the serial client with its client threads, the RX daemon that
copies every chunk to each subscriber, and the watchdog's monitor threads.  A
line is typed in two halves, a panic arrives in two chunks, an exit marker
carries the command it belongs to.  A console at a U-Boot prompt runs its last
command again on an empty line.  The watchdog's window is cut to its length before
it is searched, so that one long read can push a panic out.  `connect` opens the
port and types its newline without the lock, and drops the answer later
(`ConnectDrained`).

`BenchPower` models sessions on a power supply.  The main thread has a place
(`at`) and calls to make (`todo`); `Unwind` says where an exception leads from
each place, which is the semantics of `with`, `try/finally` and fixtures: a
context whose `__enter__` raised is not exited.  SIGINT from the watchdog becomes
a `KeyboardInterrupt` between any two calls.  A rig has the current its board
would draw and a default voltage, neither of which the configuration checks; the
current the supply delivers is the smaller of what the board draws and the limit,
and the controller compares its reading with 95 % of the limit it was given.

`Vacuum` models `HostSideBuffer` and its caller `run_binary`: the polling thread,
the caller, the program on the board and the link interleave.  A line is who
wrote it, whether it is blank (not counted by the code), plain, or such that the
console's `safe_run` takes it for a message of the kernel or a prompt and drops it,
and whether it is complete: a `tail` may read the last line while it is written.
`TailFrom`, what `tail` prints, is defined by its order and its lines, not by a
recursion, so that it can be reasoned about.

`StationServer` models the MCP server with overlapping calls.  A session is the
dictionary that `connect()` makes; a call keeps the one it looked up.  The tools
fall into groups by what they do to the bench: most only send commands (what
becomes of a command is `Failover`'s), some switch the supply, move the card or
change the state machine.  `loose` records the ways in which the code lets go of
an output, so that the property can say there are no others.

`McuBench` models `BareMetalStateMachine`, the three probes and the flasher.
One thread makes the calls; their order and what the supply and the probe do are
arbitrary.  The bench has a supply and a probe.

`Provisioning` models the worker processes: the artifact cache, the lock, the
adapter's `with` block, the safety check, bmaptool, sync, IPECMD, and a worker that
is killed.  A medium holds whose artifact it is, which file that was, and whether
it is there in part, in the buffers of the host or stored.  `Tezi`
composes it with a bench that enters recovery, which takes the SD card without
the lock, pushes the installer and follows it on the console.

`Session` models a pytest session from `pytest_configure` to
`pytest_unconfigure`: the hooks, `mes_record`, the composite of two exporters,
reruns, interrupts and the hard kill; an E-Stop that is armed, fails to arm, or,
without gpiod, is not armed and does not fail.  What pytest does with a report, and the
rerun plugin, are external.

The modules `MC...` hold the instances, the modules `...Proofs` the theorems:
`DutStateMachineProofs` those about the state machine, its history and the
orchestrator, `ProvisioningProofs` those about what gets onto boards (`Provisioning`,
`Tezi` and, which shares nothing with them, `McuBench`).  Definitions named
`X_something` next to `X` are mutants: plausible bugs in `X` that a property must
notice.  `PROJECT.json` maps every definition to the lines it translates.

## What is checked

| Run | Instance | States | Result |
|---|---|---|---|
| `Dut_triggers` | nine faulty stations and all sixteen fault-free ones, two media, queue of two, fairness | 831 487 | holds |
| `Orch_session` | sessions of tests with every marker and without; on a sound board, on one with the trap, and at a desk where all but the console fails | 384 491 | holds |
| `Failover_all` | two clients, one of which runs commands, two recovery threads, every upset, fairness | 209 856 | holds |
| `Console_mux` | two clients, two monitors, seven mixes of events, fairness | 941 639 | holds |
| `Power_safety` | both supplies, sound and shorted boards, defaults within and above the rating, seven mixes of upsets, fairness | 81 848 | holds |
| `Vacuum_log` | two runs, two lines, one console line, fairness | 2 145 549 | holds |
| `Station_calls` | two identifiers, one bench, two overlapping calls, two sessions, symmetric | 3 511 374 | holds |
| `Mcu_flash` | each of the three probes | 4 872 | holds |
| `Provision_media` | two workers and a recovery, or one worker and a whole installation; a kill | 2 830 602 | holds |
| `Provision_tezi` | a bench with an installation beside a worker | - | violated, see below |
| `Session_records` | two tests, one rerun each | 997 356 | holds |
| `Session_cert` | the same | - | violated, see below |

`Dut_triggers`: between triggers a board that is said to be in its bootloader or OS
runs from the medium the machine reports (`RunsFromMedium`), a board said to be on
is powered (`OnMeansPowered`), the recovery pin is released (`PinReleased`), the
original bootcmd is still somewhere (`OriginalBootcmdKept`); when `boot_to_os`
returns, the OS was really reached since it was fired (`OsCommitBacked`), the trap
is gone (`OsIsUntrapped`), and SSH does not hold on to a session of an earlier boot
(`FreshSession`).  Every trigger ends (`TriggerTerminates`), through the chain
resume, reset, hot login, reset, cold boot; without faults `boot_to_os` succeeds on
every combination of equipment that can do what is asked (`BootSucceeds`, whose
`Feasible` says what that is: in particular the stored bootcmd must boot, which on
a secure-boot board that was switched off in its bootloader it does not).  Each
property has its hypotheses in its definition (which faults, which equipment):
without them TLC finds the behaviours listed under "Observed".  The stations: a
bench with a supply and everything a board and its links can do to it; the same
with secure boot (no autoboot) and link faults; a rack with GPIO; a desk without a
supply, whose operator may ignore prompts; a headless runner with failing supply
and port; a runner that lacks equipment; a station whose equipment works while the
board hangs and restarts; one with failing pins; one with garbled readings; and all
sixteen combinations of equipment without faults.

`Orch_session`: `BodyRunsInTarget`, and `OsBodyIsAlive`, an OS test only gets a
board that was in userland since `boot_to_os` was fired for it, or that is there
when only its heartbeat was asked for.

`Failover_all`: `AtMostOnce`, `OneProber`, `ImplementsChannel`, `CallsReturn`,
`FailsBack`.  `Console_mux`: `OwnExitCode`, `RunsOnce` (a Linux console never starts
a command again that ran to its end), `WholeLines`, `OneMonitor`, `PanicReported`.

`Power_safety`: `OffAtTheEnd`, `ShortIsCut` (no test body runs on a board that holds
the supply at its limit, if its current could be read), `WithinRating`, `NoSurge` (switched
on at 0 V, then at most a volt at a time, whatever earlier tests left set), and
`EStopHalts`, also when the button can no longer be read.

`Vacuum_log`: `NothingSkipped` (not counting blank lines, or lines the console
dropped, repeats lines but passes over none), `FreshLog`, `RunReturns`.  `Station_calls`: `RegisteredIsLive`,
`OutputHasOwner`.  `Mcu_flash`: `PowerAgrees`, `HalfNotExecuted`.
`Provision_media`: `OneWriter`, and `OkMeansWritten`, a flash that returned True has
all of the right artifact stored on its medium, but for two named exceptions.
`Session_records`: `NoSilentDrop`.

### Bounds

* `QMax` 1 or 2 stands for the 2048 chunks of the permanent subscriber: a probe
  reads one chunk and drops the rest, so what matters is that a chunk can be
  stale, that there can be two different ones, and that the queue can be full.
  (For a stale prompt of U-Boot to be probed after a whole boot the queue must hold
  three; no property depends on its being absent.)
* Two media, so that a trigger may or may not change the straps.
* `MaxCmds` 2: the second command meets what the first one left behind.
  With `WireMax` and `TtyMax` 2 and `WindowMax` 3 the two chunks of a panic can
  be read apart, fit the window together, and be pushed out of it.
* Two clients and two thread identities: enough for every pairwise race; a third
  thread identity cannot be taken while `OneProber` holds, and a new thread takes
  the name of one that has ended (`Fresh`), as names do not matter.  One command at
  a time is enough for its copies to be left behind and to run late; the theorems
  are about any number.  In `Failover_all` the second client only connects and disconnects: commands of two clients share
  nothing but the flags that the first client's own calls and the recovery
  thread change as well.  Symmetry is used only where no fairness is.
* Voltages in half volts, 0, 1.5 V and 3 V against a rating of 2.5 V: no ramp, a
  ramp whose last step is a fraction, and one that exceeds the rating in
  its middle.  A `DPS150` assumes more until it was asked (4 V); its default voltage
  is 2 V or, above the rating, 3 V.  A board draws less than every limit or more.
* The E-Stop is pressed once per session; sessions follow one another for ever.
* `Vacuum`: two lines, of which the first can be blank or dropped by the console and
  the second be read in part; two runs, so that the second meets what the first one
  left; one console line per run is enough to spoil the count.
* `StationServer`: one bench under two identifiers, two calls and two sessions
  give every pairwise race of `connect`, `disconnect` and a tool; one tool stands
  for each group with the same effect.
* `Provisioning`: two attempts, so that the first can leave something for the
  second; one kill; one unread text on the console, as only the first unread one
  is looked at, and `OsPrints` and `TeziInstalls` may still add their pairs.
* `Session`: two tests and one rerun, so that a rerun, a record and an abort can
  each come before or after another test.

### Fairness

Weak fairness of the calls of a trigger: every blocking call in the code has a
timeout, but for the prompts to the operator (`input()`), of which it is assumed
that somebody presses Enter, if only without having done what was asked (fault
`operator`).  Weak fairness of the board's boot steps, as the board is a clock of its
own, but not of any fault.  In `Failover` weak fairness of every thread, and
strong fairness of taking `_connect_lock`, which others hold only for a short
time and release again and again; nothing is assumed of the network: `FailsBack`
has "the network stays up" as its hypothesis.  In `Console` weak fairness of the
RX daemon and of the monitors, both loops with short timeouts, and none of the
clients.  In `BenchPower` weak fairness of the main thread's calls, of the
delivery of a pending signal and of the polling thread.  In `Vacuum` weak fairness
of the caller, whose calls have timeouts, and none of the polling thread, which
may hang in a dead socket.

## What is proved

| Module | Theorem | Establishes |
|---|---|---|
| `DutStateMachineProofs` | `TypeCorrect` | `[]TypeOK` |
| | `RecoveryStrapReleased` | `[]PinReleased` |
| | `OnIsPowered` | `[]OnMeansPowered` |
| | `OsLeavesNoTrap` | `OsIsUntrapped` |
| | `SessionsAreFresh` | `FreshSession` |
| | `BootcmdIsKept` | `[]OriginalBootcmdKept` |
| | `OsIsSeen` | `HistSpec => OsCommitBacked` |
| | `TestsStartInTheirState` | `OrchSpec => BodyRunsInTarget` |
| | `OsTestsStartAlive` | `OrchSpec => OsBodyIsAlive` |
| `FailoverProofs` | `TypeCorrect` | `[]TypeOK` |
| | `RetriesOnlyIdempotent` | `[]AtMostOnce` |
| | `NoDoubleSpawn` | `[]OneProber` |
| | `ChannelRefinement` | `ImplementsChannel`: `Spec => Channel!Spec` |
| `ConsoleProofs` | `TypeCorrect` | `[]TypeOKConsole` |
| | `ExitCodeIsOwn` | `[]OwnExitCode` |
| | `CommandsRunOnce` | `RunsOnce` |
| | `LinesAreWhole` | `[]WholeLines` |
| | `OneMonitorAlive` | `[]OneMonitor` |
| `BenchPowerProofs` | `TypeCorrect` | `[]TypeOKPower` |
| | `RatingKept` | `[]WithinRating` |
| | `OffWhenOver` | `[]OffAtTheEnd` |
| | `ShortsAreCut` | `[]ShortIsCut` |
| | `RampsAreGentle` | `NoSurge` |
| `VacuumProofs` | `NoLineSkipped` | `[]NothingSkipped` |
| | `LogIsFresh` | `[]FreshLog` |
| `StationProofs` | `RegistryIsLive` | `[]RegisteredIsLive` |
| | `OutputsAreOwned` | `[]OutputHasOwner` |
| `ProvisioningProofs` | `CardWrittenByOne` | `[]OneWriter` |
| | `OkIsWritten` | `[]OkMeansWritten` |
| | `PowerIsRecorded` | `McuSpec => []PowerAgrees` |
| | `HalfImageHalted` | `McuSpec => []HalfNotExecuted` |
| `SessionProofs` | `PassedOnRecord` | `[]NoSilentDrop` |

All are theorems of the specification without fairness, for every value of the
constants that satisfies the assumptions of the modules they are about: any set
of media and stations and any queue (`BoardAssumption`), any set of markers
(`OrchAssumption`), any number of clients and threads (`FailoverAssumption`),
any number of clients, monitors and commands, any queues and any mix of events
(`ConsoleAssumption`),
any voltages, steps, loads and defaults (`PowerAssumption`), any number of runs and lines
(`VacuumAssumption`), any number of identifiers, benches, calls and sessions
(`StationAssumption`), any set of probes (`ProbesAssumption`), any number of
workers, attempts and kills and any cast (`WorkersAssumption`,
`CastsAssumption`), any list of tests and any number of reruns
(`SessionAssumption`).  The assumptions say that bounds are numbers, that choices
are among the ones the module knows, and that a name it reserves is not used for
something else; `PowerAssumption` adds that no step is 0, and `ConsoleAssumption`
that a queue and the window hold at least two chunks.

*State machine.* `TypeOK` becomes inductive with the fact that a running callback
belongs to a trigger, as `commit` looks up `Dest[op.trig]` (`FsmInv`).
`PinReleased` needs to
know what is left to do while the pin is asserted: `PlanInv` says that a sequence
with `pin_on` is one of the two recovery plans, `PinInv` that the pin is asserted
only while `energize, pin_off, commit` or `pin_off, commit` is left; where
energizing cannot raise, the pin is therefore off when nothing is left.

The other theorems rest on the control flow of the callbacks.  `Follows(t, a, b)`
is the graph of which call may come after which in the callback of trigger `t`;
`FlowInv` says that the calls left are a path in it that ends in `commit` or in
the routing, and each decision of the code (`Route`, the fallbacks, the reset)
is shown once to start such a path (`CallbackPath`, `OsPlans`, `ResetPath`).  On
top of it:

* `OffInv`: while the board is off, what is left to do switches it on or reports
  it off (`OnIsPowered`);
* `TrapInv`: a trapped board stops at U-Boot, has no session but while the reboot
  that springs the trap is due, and U-Boot's copy of the environment differs from
  the stored one only during the restoration (`OsLeavesNoTrap`);
* `FreshInv`: a session of an earlier boot is open only on the way to the
  power-off that closes it (`SessionsAreFresh`);
* `KeepInv`: the original bootcmd would be lost if the restoration met U-Boot half
  way, so a trapped board that is still booting must not be taken to be at its
  prompt, neither by the state nor by an old chunk in the console queue
  (`BootcmdIsKept`); `AutoInv` says that autoboot stations are never trapped;
* `HistInv`: while a callback runs, the phase the board is in is in the history;
* `ShutInv`, `LostInv` and `SeenInv`: a U-Boot prompt echoes the heartbeat as a
  shell does, and `finalize_os_boot` takes any open session as it is; so a session
  open to a board at that prompt, or bound for it, must be about to be closed, and
  then every way to the end of `boot_to_os` leads past userland (`OsIsSeen`);
* `OrchInv`: while the fixture's trigger runs it is the one for the marker, and
  when it is over it has raised or the marker's state is set
  (`TestsStartInTheirState`); `CallEnds` gives the ways in which a call can end
  a trigger;
* `BackedInv` and `ToldInv`: the invariants behind `OsIsSeen` survive the fixture's
  heartbeats as well (`PastInductive`), so a setup that ran `boot_to_os` and did not
  raise has userland in its history; where only the heartbeat was asked for, which a
  U-Boot prompt echoes too, no board is at that prompt between triggers while the
  state is `OS_USERLAND`, because the queue of a board there holds no old shell
  prompt and a trigger that stopped the countdown does not raise any more
  (`OsTestsStartAlive`).

*Failover.* `Counting` gives, for each place in `safe_run`, how many copies of the
command there are, under way or run (`Copies`): none before the primary was tried,
at most one until the retry, none on the fallback for a command without
`auto_retry`; and never more than the limit, also after the return.  `Tracked`
says that a live recovery thread is the one `_recovery_thread` names, so that
`_start_recovery_thread`, which looks only at that one, never starts a second.
The refinement uses the same invariant: a step of anyone who is not inside
`safe_run` leaves the commands as they are (`OthersQuiet`), a step inside is a
`Call`, `Send`, `Return` or stutter for that command alone (`RunSimulates`), what
the board and the links do to a copy is `Execute` or `Lose`, and `Counting` is what
keeps `Send` within its limit when the fallback repeats a command.

*Console.* `Known` says that a monitor thread that is alive is the one the watchdog
knows of, which is what makes `start` safe (`OneMonitorAlive`).  For the lines,
`Locked` is the mutual exclusion of `_tx_lock`, and `Alone` says that nobody is in
a transaction while the port is closed, so that `connect`, the one writer without
the lock, meets no line half typed; `HalfTyped` then keeps the first part of a line
the last thing typed until the second follows, while the board reads from the front
and may restart in between (`LinesAreWhole`).  `OnceInv` follows a command from the
client to the board: before its client types it nothing of it is there (`Unrun`),
then its line is typed once, and once it runs or has run its line is gone
(`CommandsRunOnce`; at a U-Boot prompt the line may run again, so this is about Linux
consoles).  There a command therefore ends once, so a marker that was true stays
true: everything on the wire, in the queues and in the buffers is honest (`Said`),
and the token in the marker does the rest (`ExitCodeIsOwn`).  These hold with
interrupts that a command survives, with failing writes and with reconnects by other
threads; only `WholeLines` excludes the last.

*Power.* Types need that a watchdog that still polls has counted fewer than three
errors (`StillCounting`).  `RatingInv`: until the supply was asked for its rating
the session has made no other call (`Unasked`), so nothing is checked against the
default.  `OffInv` gives for each place the calls that can be left there and why
the output is off when none would switch it off; between tests the output may be
on only in a session that was interrupted, and `OneSignal` (the watchdog signals
once) makes sure that the teardown of that session is not interrupted again.
`ControllerInv` gives what is left of `SafePowerController.__enter__` at each of its
calls: limit, 0 V, on, a ramp of steps of at most a volt of which each can be
followed by the next (`RampAfter`), and the measurement against the limit that was
set first (`Against`), which at the final voltage reads that limit on a board that
draws as much and leads to the trip.  `ShortIsCut` and `NoSurge` follow from it.

*Log buffer.* `Watermark`: there is a line of the file up to which every plain line
is kept, whole or in part, and nothing after it, and `_lines_read` does not pass it,
as blank lines and lines the console dropped are not counted; `TailMark` says the
same of what the last `tail` printed and the thread has not kept yet, while the
program goes on writing.  `Between` says what may be left on the board between runs.

*Server.* Sessions are numbered as `connect()` makes them (`Numbered`); a call
that is about to register a session is the only one that knows it, and one that
tears it down has taken it from the registry (`CallKnows`, `OneTeardown`).
`LiveIsKnown` and `Owned` then say that an output that is on has an owner that is
live or is just being switched off.

*MCU.* A backend that reported success wrote an image to its end (`Reported`), and
pyOCD and OpenOCD program only a halted core (`ProgramsHalted`).

*Provisioning.* A worker in the `with` block of a medium holds its lock
(`HoldsLock`); what it resolved is not the file whose hash was wrong (`RightFile`);
the card is on the host's side unless the bench took it (`OnlyBenchTakes`); and as
long as nobody was killed the medium it writes is its own, from the first byte
through the buffers of the host to the end of sync (`WritesAlone`).

*Session.* The `finally` of `mes_record` finds the reports of its attempt
(`ReportsThere`); the tests that passed are no more than those counted neither as
failed nor as skipped.

Only model-checked: everything under fairness (`TriggerTerminates`,
`BootSucceeds`, `CallsReturn`, `FailsBack`, `PanicReported`, `EStopHalts`,
`RunReturns`), which is out of the prover's reach, and `RunsFromMedium`.  Every
other property of a passing run is a theorem.

<a name="disagreements"></a>
## What the code does that its documentation does not say

`Session_cert`: `session_passed` is documented as "True if all tests passed", but
`pytest_unconfigure` computes it as "no test failed".  A session that ended before
its tests ran (a locked serial port, Ctrl+C, the E-Stop) is certified PASS.

`Provision_tezi`: three texts on the console are "conclusive proof of a successful
flash whenever they appear - they cannot occur pre-install"
(`provisioning/tezi_uuu.py:373-376`).  The kernel of the installer prints
"Restarting system" (295) on any software reboot, and a board that leaves the
installer by itself shows the login prompt of the system it had: `provision` returns
True and sets ENERGIZED without a new image.

Observed while modelling, without a run of its own; the models have the behaviour
and the properties exclude it by hypothesis:

* the repository's README (line 12) promises a hard power reboot for a board marked
  DIRTY; `_hw_boot_to_os` probes it and resumes it if it answers
  (`state_machine.py:1065`);
* `_restore_uboot_trap` overwrites bootcmd with an unset `mes_prev_bootcmd` on a
  secure-boot board that was found at its prompt (841);
* `disconnect()` gives up on a slow recovery thread after a second; the next
  `connect()` takes it for its own, it then ends, and nothing ever fails back
  (`transports/failover.py:72`, against 79);
* `flush_buffers` empties the queues of all subscribers, so the watchdog can miss
  a panic (`transports/serial_client.py:364`, against "zero data loss" in
  `transports/watchdog.py:13`); and the monitor cuts its window to the last 1024
  bytes before it searches, so that a longer read hides a panic at its head
  (`transports/watchdog.py:102-105`);
* the newline with which `expect` pings a silent console "to redraw prompt"
  (`transports/serial_client.py:236`, 238) makes U-Boot repeat its last command;
* an exception in the ramp of `SafePowerController.__enter__`, such as a target
  above the rating of a `DPS150`, leaves the output on, and `DPS150.close` does
  not switch it off (`instruments/power_supplies.py:206`, against 190);
* a powered but silent board is taken for POWER_OFF (`state_machine.py:646`), and
  POWER_OFF is never probed again (669); so is one whose current reply is garbled,
  as `measure_current` then returns -1.0 A (`instruments/power_supplies.py:76`,
  `state_machine.py:588`); `boot_to_os` from a POWER_OFF that is not true straps and
  energizes a running board;
* a `set_pin` that raises (399, 402, 703, 734) leaves the recovery pin asserted, or
  the straps of two media mixed, and ENERGIZED as the state of a board that is off;
  as default to default is skipped (698), nothing restores straps that were left so
  on the way from the default medium;
* the passive probe reads one chunk, the oldest, and answers BOOTLOADER if it holds
  the prompt of U-Boot, of a board that may have long left it (609-617, against "The
  dynamically detected physical state", 581);
* a secure-boot board on which a lost answer left the trap, and which a test then
  reboots, stops at its prompt and echoes the heartbeat; with the old session still
  open `boot_to_os` reports OS_USERLAND of it (`_try_resume_existing_os`,
  `finalize_os_boot`); the proof of `OsCommitBacked` led to this one;
* a secure-boot board whose prompt was printed before it was waited for makes
  `boot_to_bootloader` raise in OS_USERLAND; the next test marked OS_USERLAND is
  then run at the U-Boot prompt, which echoes the heartbeat of
  `enforce_physical_state` (`plugins/orchestrator.py`); the proof of
  `OsBodyIsAlive` led to this one;
* `boot_to_os` from OS_USERLAND or BOOTLOADER ignores a changed medium, although it
  logs `forcing_hard_reboot` (1064);
* the recovery pin stays asserted when energizing raises (400);
* a `boot_to_bootloader` repeated after a lost reboot saves the trap as the
  original bootcmd (829); a secure-boot board power-cycled in the bootloader
  stays trapped, without any fault, as `cold_boot_to_os` never removes the trap
  (360, against "Full boot sequence", 316);
* `requires_state(RECOVERY)` is not routed (`plugins/orchestrator.py:131`);
* "permanently" failed over is not permanent (`transports/failover.py:11`, 44);
  a recovery thread that outlasts `disconnect()` reopens SSH (117);
* two monitors share a window after a slow panic callback; a window kept over a
  restart reports an old panic again; `connect()` writes a newline without
  `_tx_lock`; in U-Boot, which prints no exit codes, a stale prompt is reported
  as success (`transports/serial_client.py`, `transports/watchdog.py`);
* a `safe_run` on the serial console that timed out leaves its line typed, and the
  board may start the command after the call has given up, until the Ctrl-C of the
  next call; `CommandChannel` therefore lets copies run late;
* a `connect()` that comes after `disconnect()` has set `_stop_recovery` and before
  it looks for the thread clears the event and arms a thread that `disconnect()` then
  joins in vain (`transports/failover.py:115-117`, 74);
* a sweep of `LiveVoltageSweeper` with step 0 does not end; the hard kill five
  seconds after an E-Stop can come before the output is off;
* console lines that the log buffer keeps while failed over are counted as lines
  of the file, and as many of its lines are skipped when the link is back
  (`transports/chunking.py:87`); a line that `tail` read while it was being written is
  counted, and its rest is never fetched (97-101, against "Guarantees data survival",
  13); the console drops lines of the log that look like messages of the kernel or
  hold its prompt (`transports/serial_client.py:328-332`); a run whose clean-up did not reach the board
  leaves its program and log to the next (`protocols/executable.py:108`);
* two `connect()` calls with one identifier both succeed, and the first session is
  pushed out while open; one that raises leaves the supply open; a supply that
  refuses to switch off is reported as disconnected (`mcp/station_manager.py:42`,
  166, 224);
* `halt()` of probe-rs resets the processor (`transports/probe_rs_client.py:127`),
  so that after a failed flash the half-written image runs; pyOCD without a
  session accepts commands and does nothing, so that HALTED can be reported of a
  running core; the verification of a flash reads its first 256 bytes only
  (`provisioning/mcu_flasher.py:280`);
* `recovery_assert` does nothing when the multiplexer's driver is missing, and the
  board then boots its system (`host_adapters/sd_mux.py:158`);
* the recovery strategy switches the card to the board without the lock
  (`host_adapters/sd_mux.py:405`): between the check and bmaptool it makes bmaptool
  fill a plain file, between bmaptool and sync what is in RAM does not reach the
  card, and `provision` returns True (`provisioning/block_device.py:82-104`, against
  "Enforces a final POSIX 'sync'", 69);
* the bmaptool of a killed worker goes on writing beside the next worker's, which got
  the lock the kernel released (`host_adapters/mutex.py:56`, against "Prevents
  parallel pytest-xdist workers from colliding", 30);
* a worker that found a wrong hash removes the file after another has renamed a good
  one into its place and returned its path (`provisioning/secure_fetch.py:71`,
  against "atomic file locks", 20): the flash of that one then fails;
* `EStopWatchdog.__enter__` only warns when gpiod cannot be imported
  (`host_adapters/safety.py:42-44`), which `_arm_estop_watchdog` takes for armed: tests
  run unwatched on a station whose E-Stop is required (`plugins/core_config.py:35-36`,
  against "Refusing to run high-voltage tests unmonitored", 45-46);
* a test whose setup fails before `mes_record` starts has no record, although it
  "wraps EVERY test" (`plugins/telemetry_hooks.py:108`); an interrupted test is
  recorded as unknown; a rerun keeps the report of the attempt before it; an
  `end_session` that fails skips the copy of the spool.

## Not modelled, and the plan

Left out of the modelled parts: logging, texts and formats; drawing of graphs,
boot metrics and custom states of the state machine; currents and times (a
timeout is a choice); the journal of SSH; the line parser of the console; the
frame codec, protections, presets, telemetry thread and command line of the
`DPS150`; the SCPI dialects.

Of the newer modules: options, log formats and HTML reports of the session; parsing
of tool output; the wiring of `StationManager.discover` and the prompts, which
keep no state; the times of polls and deadlines.

Not modelled at all, with the reasons in `PROJECT.json`: the MQTT and UDP
transports, the RPC protocols (COBS framing is a recursive function over bytes),
the MCU application machine and its log parser, the other board protocols and host
adapters, the stand-in supply and the time server, the station configuration and
the desktop application.  They are thin wrappers, data classes, output, or shell
commands over a transport that is modelled.

Worth doing next:

1. A proof of `RunsFromMedium`.
2. `McuAppStateMachine`, whose `wait_for` races the thread that feeds it.
3. The MQTT client's replies against its requests.
