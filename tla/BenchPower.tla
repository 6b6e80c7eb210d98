----------------------------- MODULE BenchPower -----------------------------
(***************************************************************************)
(* The power supply of a station: the drivers ScpiPowerSupply and DPS150,   *)
(* the psu_hardware fixture that owns one of them for a session, the two    *)
(* contexts that energize a board (SafePowerController, LiveVoltageSweeper),*)
(* the sweeps of DPS150 and the E-Stop watchdog.  The main thread of pytest *)
(* makes one call after the other; the watchdog's SIGINT is delivered       *)
(* between any two of them, and every call may raise.  Sessions follow one  *)
(* another on the same supply.                                              *)
(*                                                                         *)
(*   rig      the station: its supply, its board, what may go wrong there;   *)
(*            never changes                                                 *)
(*   out, volts, amps  output switch and setpoints of the supply (volts in   *)
(*            half volts)                                                   *)
(*   cap      the driver's _max_voltage                                     *)
(*   at       where the main thread is; todo is the calls still to make     *)
(*   ctx      the context manager in use                                    *)
(*   tries    failed attempts to connect                                    *)
(*   halt     pytest was interrupted and runs no further tests              *)
(*   sig      SIGINT is pending                                             *)
(*   est      the watchdog thread; errs is its consecutive_errors           *)
(*   pressed  the E-Stop button                                             *)
(***************************************************************************)
EXTENDS Integers, Sequences

CONSTANTS
    Volts,       \* voltages the tests ask for, in half volts
    Amps,        \* current limits they ask for
    Steps,       \* step widths of sweeps
    MaxVoltage,  \* what a DPS150 can deliver
    MaxCurrent,  \* also DEFAULT_MAX_CURRENT
    DefaultCap,  \* DEFAULT_MAX_VOLTAGE, assumed until the supply has answered
    DefaultA,    \* default_current of a station
    Rigs         \* the stations to consider

AllUpsets == {"io",       \* a call to the supply may raise
              "badread",  \* a reply may be unreadable
              "estop",    \* the E-Stop is configured, and pressed
              "gpio",     \* reading the button may fail
              "slow",     \* the teardown may outlast five seconds
              "log"}      \* the log of the supply is wanted and cannot be stored

\* A station: the kind of its supply, its default_voltage (any number: the
\* configuration is not checked), the current its board would draw if nothing
\* limited it, and what may go wrong.
Rig == [vendor : {"scpi", "fnirsi"}, preset : Nat, draw : Nat, upsets : SUBSET AllUpsets]

ASSUME PowerAssumption ==
    /\ Volts \subseteq Nat /\ Amps \subseteq Nat /\ Steps \subseteq Nat \ {0}
    /\ MaxVoltage \in Nat /\ DefaultCap \in Nat
    /\ MaxCurrent \in Nat
    /\ DefaultA \in Nat
    /\ Rigs \subseteq Rig

VARIABLES rig, out, volts, amps, cap, at, todo, ctx, tries, halt, sig, est, errs, pressed

supply == <<out, volts, amps>>
main == <<at, todo, ctx, tries, halt>>
estop == <<sig, est, errs, pressed>>
vars == <<rig, supply, cap, main, estop>>

Upsets == rig.upsets
Scpi == rig.vendor = "scpi"

Place == {"over", "setup", "idle", "enter", "body", "exit",
          "sweep_on", "sweep", "sweep_off", "teardown"}
Context == {"none", "controller", "shmoo"}

Volt(v) == [do |-> "volt", x |-> v]
Amp(a) == [do |-> "amp", x |-> a]
MeasureAgainst(a) == [do |-> "measure", x |-> a]
Op(d) == [do |-> d, x |-> 0]
Call == [do : {"volt", "amp", "on", "off", "open", "close", "measure", "trip", "try"}, x : Nat]

At(d) == todo # <<>> /\ Head(todo).do = d
Arg == Head(todo).x
Goes(p, calls) == at' = p /\ todo' = calls
Returns == todo' = Tail(todo) /\ UNCHANGED <<at, ctx, tries, halt>>
-----------------------------------------------------------------------------
(* The calls each operation makes                                           *)

\* psu_hardware, before its yield: ScpiPowerSupply.connect switches the output
\* off, DPS150 leaves it and gets its setpoints.
Setup == IF Scpi THEN <<Op("open"), Op("off")>>
         ELSE <<Op("open"), Volt(rig.preset), Amp(DefaultA)>>

\* Mutants: close only ends the session; the voltage is not ramped.
Teardown_open == <<Op("close")>>
Ramp_none(t) == <<Volt(t)>>

\* ... and after it: close switches a ScpiPowerSupply off, not a DPS150.
Teardown == IF Scpi THEN <<Op("off"), Op("close")>> ELSE <<Op("close")>>

\* SafePowerController.__enter__: full volts first, then the target.
Ramp(t) == [i \in 1 .. t \div 2 |-> Volt(2 * i)] \o <<Volt(t)>>

\* Mutant: the current is measured before the ramp.
ControllerEnter_early(t, a) ==
    <<Amp(a), Volt(0), Op("on"), MeasureAgainst(a)>> \o Ramp(t)

ControllerEnter(t, a) ==
    <<Amp(a), Volt(0), Op("on")>> \o Ramp(t) \o <<MeasureAgainst(a)>>

\* LiveVoltageSweeper.__enter__
ShmooEnter(t, a) == <<Amp(a), Volt(t), Op("on")>>

\* __exit__
ExitCalls == IF ctx = "shmoo" THEN <<Volt(0), Op("off")>> ELSE <<Op("off")>>

\* The setpoints of a sweep from x to y.
Points(x, y, s) ==
    IF x <= y THEN [i \in 1 .. ((y - x) \div s) + 1 |-> x + (i - 1) * s]
    ELSE [i \in 1 .. ((x - y) \div s) + 1 |-> x - (i - 1) * s]
VoltSweep(x, y, s) == [i \in DOMAIN Points(x, y, s) |-> Volt(Points(x, y, s)[i])]
AmpSweep(x, y, s) == [i \in DOMAIN Points(x, y, s) |-> Amp(Points(x, y, s)[i])]
-----------------------------------------------------------------------------
(* Exceptions                                                               *)

\* Where an exception leads from each place: a with statement calls __exit__
\* only after __enter__ has returned, the sweeps switch off in their finally,
\* the fixture closes the supply only if it was set up.  pytest runs no
\* further test after a KeyboardInterrupt.
Unwind(stopping) ==
    /\ halt' = (halt \/ stopping)
    /\ UNCHANGED ctx
    /\ CASE at = "setup" ->
              IF Scpi /\ ~stopping /\ tries < 2
              THEN Goes("setup", Setup) /\ tries' = tries + 1
              ELSE Goes("over", <<>>) /\ UNCHANGED tries
         [] at = "body" -> Goes("exit", ExitCalls) /\ UNCHANGED tries
         [] at = "sweep" -> Goes("sweep_off", <<Op("off")>>) /\ UNCHANGED tries
         [] at = "teardown" -> Goes("over", <<>>) /\ UNCHANGED tries
         [] OTHER -> Goes("idle", <<>>) /\ UNCHANGED tries

Raises == Unwind(FALSE)

\* A call to the supply fails.
CallRaises ==
    /\ "io" \in Upsets
    /\ todo # <<>> /\ Head(todo).do \notin {"trip", "try", "close"}
    /\ Raises
    /\ UNCHANGED <<supply, cap, estop>>

\* The test fails, or the callback of a sweep does or asks it to stop.
TestFails ==
    /\ at \in {"body", "sweep"}
    /\ Raises
    /\ UNCHANGED <<supply, cap, estop>>

\* download_data_log in the finally of psu_hardware, ahead of close: its mkdir
\* is not guarded.
DownloadFails ==
    /\ "log" \in Upsets /\ Scpi
    /\ at = "teardown" /\ todo = Teardown
    /\ Raises
    /\ UNCHANGED <<supply, cap, estop>>

\* The pending SIGINT becomes a KeyboardInterrupt in the main thread.
Interrupted ==
    /\ sig
    /\ at # "over"
    /\ sig' = FALSE
    /\ Unwind(TRUE)
    /\ UNCHANGED <<supply, cap, est, errs, pressed>>
-----------------------------------------------------------------------------
(* The driver                                                               *)

\* connect: a DPS150 is asked for its rating.
Open ==
    /\ At("open")
    /\ \/ Scpi /\ UNCHANGED cap
       \/ ~Scpi /\ cap' = MaxVoltage
       \/ ~Scpi /\ "badread" \in Upsets /\ UNCHANGED cap
    /\ Returns
    /\ UNCHANGED <<supply, estop>>

\* Mutant: the setpoint is not checked.
InRange_unchecked(v) == TRUE

\* DPS150 checks a voltage against the rating it knows of.
InRange(v) == Scpi \/ v <= cap

SetVoltage ==
    /\ At("volt")
    /\ IF InRange(Arg) THEN volts' = Arg /\ Returns
       ELSE UNCHANGED volts /\ Raises
    /\ UNCHANGED <<out, amps, cap, estop>>

SetCurrent ==
    /\ At("amp")
    /\ IF Scpi \/ Arg <= MaxCurrent THEN amps' = Arg /\ Returns
       ELSE UNCHANGED amps /\ Raises
    /\ UNCHANGED <<out, volts, cap, estop>>

Switch ==
    /\ At("on") \/ At("off")
    /\ out' = At("on")
    /\ Returns
    /\ UNCHANGED <<volts, amps, cap, estop>>

Close ==
    /\ At("close")
    /\ Returns
    /\ UNCHANGED <<supply, cap, estop>>

\* What the supply delivers: what the board draws, up to the limit that is set.
Current ==
    IF out /\ volts > 0
    THEN IF rig.draw < amps THEN rig.draw ELSE amps
    ELSE 0

\* What measure_current returns.  A reply that cannot be read counts as -1.0, or
\* as 0.0 from a DPS150.
Readings == {Current} \cup IF "badread" \in Upsets THEN {IF Scpi THEN -1 ELSE 0} ELSE {}

\* idle_current >= current_limit_a * 0.95
TooMuch(idle, limit) == 20 * idle >= 19 * limit

\* The measurement after the ramp.
Measure ==
    /\ At("measure")
    /\ \E idle \in Readings :
         \/ /\ TooMuch(idle, Arg)
            /\ todo' = <<Op("off"), Op("trip")>>
            /\ UNCHANGED <<at, ctx, tries, halt>>
         \/ ~TooMuch(idle, Arg) /\ Returns
    /\ UNCHANGED <<supply, cap, estop>>

\* InstrumentShortCircuitError
Trip ==
    /\ At("trip")
    /\ Raises
    /\ UNCHANGED <<supply, cap, estop>>
-----------------------------------------------------------------------------
(* The session                                                              *)

\* A new pytest process.  An E-Stop that cannot be armed ends it, unless it is
\* not required.
Start ==
    /\ at = "over"
    /\ Goes("setup", Setup)
    /\ est' \in IF "estop" \notin Upsets THEN {"off"}
                ELSE IF "gpio" \in Upsets THEN {"poll", "off"} ELSE {"poll"}
    /\ cap' = DefaultCap
    /\ ctx' = "none" /\ tries' = 0 /\ halt' = FALSE
    /\ sig' = FALSE /\ errs' = 0 /\ pressed' = FALSE
    /\ UNCHANGED supply

NextTest == at = "idle" /\ ~halt
Begins(p, calls, c) ==
    /\ Goes(p, calls)
    /\ ctx' = c
    /\ UNCHANGED <<supply, cap, tries, halt, estop>>

EnterController == NextTest /\ \E t \in Volts, a \in Amps :
                     Begins("enter", ControllerEnter(t, a), "controller")
EnterShmoo == NextTest /\ \E t \in Volts, a \in Amps :
                Begins("enter", ShmooEnter(t, a), "shmoo")

\* DPS150.sweep_voltage and sweep_current: the arguments are checked first.
SweepVoltage ==
    /\ NextTest /\ ~Scpi
    /\ \E x, y \in Volts, s \in Steps, a \in Amps :
         /\ InRange(x) /\ InRange(y) /\ a <= MaxCurrent
         /\ Begins("sweep_on", <<Amp(a), Volt(x), Op("on"), Op("try")>> \o VoltSweep(x, y, s),
                   "none")

SweepCurrent ==
    /\ NextTest /\ ~Scpi
    /\ \E x, y \in Amps, s \in Steps, v \in Volts :
         /\ x <= MaxCurrent /\ y <= MaxCurrent /\ InRange(v)
         /\ Begins("sweep_on", <<Volt(v), Amp(x), Op("on"), Op("try")>> \o AmpSweep(x, y, s),
                   "none")

\* Their try block begins once the output is on.
SweepTry ==
    /\ At("try")
    /\ Goes("sweep", Tail(todo))
    /\ UNCHANGED <<ctx, tries, halt, supply, cap, estop>>

\* LiveVoltageSweeper.sweep in the body of its with statement.
ShmooSweep ==
    /\ at = "body" /\ ctx = "shmoo" /\ todo = <<>>
    /\ \E x, y \in Volts, s \in Steps : todo' = VoltSweep(x, y, s)
    /\ UNCHANGED <<at, ctx, tries, halt, supply, cap, estop>>

\* The calls of one place are done.
Proceeds ==
    /\ todo = <<>>
    /\ \/ at = "setup" /\ Goes("idle", <<>>)
       \/ at = "enter" /\ Goes("body", <<>>)
       \/ at = "body" /\ Goes("exit", ExitCalls)
       \/ at = "exit" /\ Goes("idle", <<>>)
       \/ at = "sweep" /\ Goes("sweep_off", <<Op("off")>>)
       \/ at = "sweep_off" /\ Goes("idle", <<>>)
       \/ at = "idle" /\ Goes("teardown", Teardown)
       \/ at = "teardown" /\ Goes("over", <<>>)
    /\ ctx' = IF at \in {"enter", "body"} THEN ctx ELSE "none"
    /\ UNCHANGED <<tries, halt, supply, cap, estop>>
-----------------------------------------------------------------------------
(* EStopWatchdog                                                            *)

Press ==
    /\ "estop" \in Upsets /\ ~pressed /\ at # "over"
    /\ pressed' = TRUE
    /\ UNCHANGED <<supply, cap, main, sig, est, errs>>

\* _monitor reads the button; pressed, it signals the process and waits.
Poll ==
    /\ est = "poll" /\ at # "over"
    /\ IF pressed THEN sig' = TRUE /\ est' = "sent" ELSE UNCHANGED <<sig, est>>
    /\ errs' = 0
    /\ UNCHANGED <<supply, cap, main, pressed>>

MaxErrors == 3
GivesUp == errs + 1 >= MaxErrors

\* Mutant: after too many errors the thread ends without a word.
PollFails_quiet ==
    /\ est = "poll" /\ at # "over" /\ "gpio" \in Upsets
    /\ errs' = errs + 1
    /\ est' = IF GivesUp THEN "off" ELSE est
    /\ UNCHANGED <<supply, cap, main, pressed, sig>>

PollFails ==
    /\ est = "poll" /\ at # "over" /\ "gpio" \in Upsets
    /\ errs' = errs + 1
    /\ IF GivesUp THEN sig' = TRUE /\ est' = "off" ELSE UNCHANGED <<sig, est>>
    /\ UNCHANGED <<supply, cap, main, pressed>>

\* Five seconds after the signal the process is killed.
HardKill ==
    /\ est = "sent" /\ at # "over" /\ "slow" \in Upsets
    /\ Goes("over", <<>>)
    /\ est' = "off"
    /\ UNCHANGED <<supply, cap, ctx, tries, halt, sig, errs, pressed>>
-----------------------------------------------------------------------------
Init ==
    /\ rig \in Rigs
    /\ out = FALSE /\ volts = 0 /\ amps = 0
    /\ cap = DefaultCap
    /\ at = "over" /\ todo = <<>> /\ ctx = "none" /\ tries = 0 /\ halt = FALSE
    /\ sig = FALSE /\ est = "off" /\ errs = 0 /\ pressed = FALSE

CallStep == Open \/ SetVoltage \/ SetCurrent \/ Switch \/ Close \/ Measure \/ Trip
TestStep == EnterController \/ EnterShmoo \/ SweepVoltage \/ SweepCurrent \/ SweepTry \/ ShmooSweep
MainStep == CallStep \/ CallRaises \/ TestStep \/ TestFails \/ DownloadFails \/ Proceeds \/ Interrupted
WatchStep == Poll \/ PollFails \/ HardKill

Next ==
    /\ MainStep \/ WatchStep \/ Start \/ Press
    /\ UNCHANGED rig

Spec == Init /\ [][Next]_vars

\* The main thread goes on and takes a signal between two calls; the watchdog
\* thread polls.
FairSpec ==
    /\ Spec
    /\ WF_vars((CallStep \/ Proceeds \/ SweepTry) /\ UNCHANGED rig)
    /\ WF_vars(Interrupted /\ UNCHANGED rig)
    /\ WF_vars((Poll \/ PollFails) /\ UNCHANGED rig)

TypeOKPower ==
    /\ rig \in Rigs
    /\ out \in BOOLEAN /\ volts \in Nat /\ amps \in Nat
    /\ cap \in {MaxVoltage, DefaultCap}
    /\ at \in Place
    /\ todo \in Seq(Call)
    /\ ctx \in Context
    /\ tries \in 0 .. 2
    /\ halt \in BOOLEAN
    /\ sig \in BOOLEAN
    /\ est \in {"off", "poll", "sent"}
    /\ errs \in 0 .. MaxErrors
    /\ pressed \in BOOLEAN
-----------------------------------------------------------------------------
(* Properties                                                               *)

\* SafePowerController switches on at 0 V and then never raises the voltage by
\* more than a volt at a time, whatever an earlier test left behind ("defends
\* against capacitive inrush currents by ramping voltage").
NoSurge ==
    [][at = "enter" /\ ctx = "controller" =>
         /\ out /\ out' => volts' <= volts + 2
         /\ ~out /\ out' => volts = 0]_vars

\* When a session with a ScpiPowerSupply is over its output is off: also when
\* it was interrupted by the E-Stop in the middle of a ramp, whose context is
\* never left, or while it was closing the supply.  Only a failing instrument,
\* a log that cannot be stored and the hard kill are excluded.
OffAtTheEnd ==
    Scpi /\ Upsets \cap {"io", "slow", "log"} = {} /\ at = "over" => ~out

\* The supply is at its limit: the board takes all it can get.
Limiting == out /\ volts > 0 /\ rig.draw >= amps

\* No test body runs on a board that holds the supply at its current limit
\* ("Board acting as a short circuit!"), unless the current could not be read.
\* The limit compared with is the one the supply got, and the measurement comes
\* when the board is at its voltage.
ShortIsCut ==
    at = "body" /\ ctx = "controller" /\ Limiting => "badread" \in Upsets

\* A DPS150 is never asked for more than it can deliver once it has told its
\* rating: neither by a ramp, nor by a sweep, nor by the default voltage of a
\* station, which may be any number.
WithinRating ==
    ~Scpi /\ "badread" \notin Upsets => volts <= MaxVoltage

\* A pressed E-Stop that is being watched ends the session, also when the
\* button can no longer be read.
EStopHalts == est = "poll" /\ pressed ~> at = "over"
=============================================================================
