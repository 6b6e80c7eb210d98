------------------------------- MODULE Session -------------------------------
(***************************************************************************)
(* A pytest session: the hooks of plugins/core_config.py, the autouse       *)
(* fixture mes_record of plugins/telemetry_hooks.py and the exporters of    *)
(* telemetry/ behind the composite router.  pytest itself, its rerun plugin *)
(* and the fixtures mes_record depends on are external.                     *)
(*                                                                         *)
(*   stage     where pytest is                                              *)
(*   estop     the e_stop section of the station file; watchdog is polling   *)
(*   sink      the telemetry sink is set; kind is its second exporter       *)
(*   todo      the tests not finished yet, in order; done is what pytest    *)
(*             reported of a finished one                                   *)
(*   attempt   attempts of the first test of todo; rep_setup and rep_call   *)
(*             are the attributes of its item, kept from attempt to attempt *)
(*   stream    the records in the JSONL file, which are on disk             *)
(*   receipt   the counters of the second exporter                          *)
(*   failed    pytest counted a failure (testsfailed)                       *)
(*   cert      the status in the name of the receipt                        *)
(*   target    the spool was copied to the target directory                 *)
(*   pressed   the E-Stop was hit: SIGINT was sent, the kill is 5 s away    *)
(***************************************************************************)
EXTENDS Naturals, Sequences, SequencesExt

CONSTANTS Tests,       \* the collected tests, in order
          Reruns       \* of the hardware_retry marker

ASSUME SessionAssumption == Tests \in Seq(STRING) /\ Reruns \in Nat

VARIABLES stage, estop, watchdog, sink, kind, todo, done, attempt, rep_setup,
          rep_call, stream, receipt, failed, cert, target, pressed

station == <<estop, sink, kind>>
reports == <<done, attempt, rep_setup, rep_call, todo>>
disk == <<stream, receipt, cert, target>>
vars == <<stage, station, watchdog, reports, disk, failed, pressed>>

t == Head(todo)
Goes(from, to) == stage = from /\ stage' = to

\* pytest.exit in a hook: nothing but pytest_unconfigure follows.
Exit == stage' = "unconfigure"

Init ==
    /\ stage = "configure"
    /\ estop \in {"off", "optional", "required"}
    /\ watchdog = FALSE /\ sink = FALSE
    /\ kind \in {"receipt", "markdown"}
    /\ todo = Tests /\ done = [x \in ToSet(Tests) |-> "none"]
    /\ attempt = 1 /\ rep_setup = "none" /\ rep_call = "none"
    /\ stream = {} /\ receipt = [total |-> 0, failed |-> 0, skipped |-> 0]
    /\ failed = FALSE /\ cert = "none" /\ target = FALSE /\ pressed = FALSE
-----------------------------------------------------------------------------
(* pytest_configure and pytest_sessionstart.                                 *)

\* No station file, or one that does not load: the session goes on without
\* E-Stop and without telemetry.
LoadConfig ==
    /\ \/ Goes("configure", "arm") /\ UNCHANGED estop
       \/ Goes("configure", "start") /\ estop' = "unknown"
    /\ UNCHANGED <<watchdog, sink, kind, reports, disk, failed, pressed>>

\* __enter__ spawns the monitor; or gpiod is not installed and it returns without
\* one; or it raises, which ends the session if the E-Stop is required.
_arm_estop_watchdog ==
    /\ \/ estop # "off" /\ watchdog' = TRUE /\ Goes("arm", "telemetry")
       \/ UNCHANGED watchdog /\ Goes("arm", "telemetry")
       \/ estop = "required" /\ UNCHANGED watchdog /\ stage = "arm" /\ Exit
    /\ UNCHANGED <<station, reports, disk, failed, pressed>>

\* The exporters start and the sink is set (what follows may fail and is then
\* only logged); no JSONL exporter is configured, or an exception before the
\* exporters is logged; start_session raises.
StartTelemetry ==
    /\ \/ Goes("telemetry", "start") /\ sink' = TRUE
       \/ Goes("telemetry", "start") /\ UNCHANGED sink
       \/ stage = "telemetry" /\ Exit /\ UNCHANGED sink
    /\ UNCHANGED <<estop, kind, watchdog, reports, disk, failed, pressed>>

\* A serial port held by another process ends the session.
pytest_sessionstart ==
    /\ \/ Goes("start", "between")
       \/ stage = "start" /\ estop # "unknown" /\ Exit
    /\ UNCHANGED <<station, watchdog, reports, disk, failed, pressed>>
-----------------------------------------------------------------------------
(* One attempt of a test.  The rerun plugin repeats an attempt with a failed *)
(* report; only the last attempt can count as a failure.                     *)

Reported(outcome) ==
    IF outcome = "failed" /\ attempt <= Reruns
    THEN attempt' = attempt + 1 /\ UNCHANGED <<done, todo, rep_setup, rep_call, failed>>
    ELSE /\ attempt' = 1 /\ todo' = Tail(todo)
         /\ rep_setup' = "none" /\ rep_call' = "none"
         /\ done' = [done EXCEPT ![t] = outcome]
         /\ failed' = (failed \/ outcome = "failed")

\* A skip marker, or a fixture mes_record depends on that skips or fails
\* (the board did not reach the required state): mes_record never starts.
SetupWithoutRecord ==
    /\ stage = "between" /\ todo # <<>>
    /\ Reported("failed") \/ Reported("skipped")
    /\ UNCHANGED <<stage, station, watchdog, disk, pressed>>

\* mes_record is set up; a fixture after it may fail or skip.
Setup ==
    /\ todo # <<>>
    /\ \/ Goes("between", "call") /\ rep_setup' = "passed"
       \/ Goes("between", "teardown") /\ rep_setup' \in {"failed", "skipped"}
    /\ UNCHANGED <<station, watchdog, done, attempt, rep_call, todo, disk, failed, pressed>>

\* pytest_runtest_makereport keeps the report on the item.
Call ==
    /\ Goes("call", "teardown")
    /\ rep_call' \in {"passed", "failed", "skipped"}
    /\ UNCHANGED <<station, watchdog, done, attempt, rep_setup, todo, disk, failed, pressed>>

\* The record mes_record makes at the end of the test.
Harvest ==
    [test |-> t, iteration |-> attempt,
     outcome |-> CASE rep_setup \in {"failed", "skipped"} -> rep_setup
                   [] rep_setup = "passed" /\ rep_call # "none" -> rep_call
                   [] OTHER -> "unknown"]

\* The JSONL line, locked, flushed and synced; one that cannot be written goes
\* to an emergency dump, and the exporter raises all the same.
Streamed == stream' = stream \union {Harvest}

\* The counters of the receipt, or a section of the Markdown report.
Counted ==
    receipt' = [total |-> receipt.total + 1,
                failed |-> receipt.failed
                           + (IF Harvest.outcome \in {"failed", "unknown"} THEN 1 ELSE 0),
                skipped |-> receipt.skipped + (IF Harvest.outcome = "skipped" THEN 1 ELSE 0)]

\* The composite hands the record to both exporters, whatever one of them does,
\* and raises if one did.  Counting cannot fail, writing the Markdown file can.
Emitted == Streamed /\ Counted

EmitFails ==
    \/ UNCHANGED stream /\ Counted
    \/ kind = "markdown" /\ (Streamed \/ UNCHANGED stream) /\ UNCHANGED receipt

\* What pytest makes of the attempt when nothing failed after the call.
Verdict == IF rep_setup = "passed" THEN rep_call ELSE rep_setup

\* Mutant: the composite logs what an exporter raised and goes on.
Teardown_logged ==
    /\ stage = "teardown"
    /\ (~sink /\ UNCHANGED <<stream, receipt>>) \/ (sink /\ (Emitted \/ EmitFails))
    /\ Reported(Verdict)
    /\ stage' = "between"
    /\ UNCHANGED <<station, watchdog, cert, target, pressed>>

\* The finally of mes_record: the record is emitted or the test fails.  Another
\* fixture's teardown may fail as well.
Teardown ==
    /\ stage = "teardown"
    /\ \/ /\ (~sink /\ UNCHANGED <<stream, receipt>>) \/ (sink /\ Emitted)
          /\ Reported(Verdict) \/ Reported("failed")
       \/ sink /\ EmitFails /\ Reported("failed")
    /\ stage' = "between"
    /\ UNCHANGED <<station, watchdog, cert, target, pressed>>

\* Ctrl+C or the signal of the E-Stop.  pytest makes no report of the phase; a
\* mes_record whose finally did not run runs it at the end of the session.
Interrupt ==
    /\ \/ stage = "between" /\ stage' = "unconfigure"
       \/ stage = "call" /\ stage' = "finish"
       \/ stage = "teardown" /\ stage' = "unconfigure"
    /\ UNCHANGED <<station, watchdog, reports, disk, failed, pressed>>

FinishTeardown ==
    /\ Goes("finish", "unconfigure")
    /\ (sink /\ (Emitted \/ EmitFails)) \/ (~sink /\ UNCHANGED <<stream, receipt>>)
    /\ UNCHANGED <<station, watchdog, reports, cert, target, failed, pressed>>

SessionFinish ==
    /\ Goes("between", "unconfigure") /\ todo = <<>>
    /\ UNCHANGED <<station, watchdog, reports, disk, failed, pressed>>
-----------------------------------------------------------------------------
(* pytest_unconfigure, and the E-Stop's own end of the process.              *)

\* The receipt, or the Markdown certificate, carries the verdict in its name.
Certified == cert' = IF failed THEN "FAIL" ELSE "PASS"

\* The watchdog is disarmed; end_session of every exporter runs, and what one
\* raised ends the hook.
EndSession ==
    /\ stage = "unconfigure"
    /\ watchdog' = FALSE
    /\ \/ ~sink /\ stage' = "over" /\ UNCHANGED cert
       \/ sink /\ stage' = "sync" /\ Certified
       \/ sink /\ stage' = "over" /\ UNCHANGED cert
    /\ UNCHANGED <<station, reports, stream, receipt, target, failed, pressed>>

\* The HTML report is moved and the spool is copied; a failure is only logged.
SyncSpool ==
    /\ Goes("sync", "over")
    /\ target' = TRUE \/ UNCHANGED target
    /\ UNCHANGED <<station, watchdog, reports, stream, receipt, cert, failed, pressed>>

\* The button is hit while the watchdog polls it.
EStopPressed ==
    /\ watchdog /\ ~pressed
    /\ pressed' = TRUE
    /\ UNCHANGED <<stage, station, watchdog, reports, disk, failed>>

\* Five seconds later the monitor ends the process, wherever it is: nothing
\* stops the monitor between the signal and the kill.
HardKill ==
    /\ pressed /\ stage # "over"
    /\ stage' = "over"
    /\ watchdog' = FALSE
    /\ UNCHANGED <<station, reports, disk, failed, pressed>>

Over == stage = "over" /\ UNCHANGED vars

Next ==
    \/ LoadConfig \/ _arm_estop_watchdog \/ StartTelemetry \/ pytest_sessionstart
    \/ SetupWithoutRecord \/ Setup \/ Call \/ Teardown
    \/ Interrupt \/ FinishTeardown \/ SessionFinish
    \/ EndSession \/ SyncSpool
    \/ EStopPressed \/ HardKill \/ Over

Spec == Init /\ [][Next]_vars
-----------------------------------------------------------------------------
(* Properties.                                                               *)

\* No silent loss: a test that pytest reported as passed has its record on disk,
\* with that outcome, and is counted as passed, whatever the exporters did in
\* that attempt and however the session ended.
NoSilentDrop ==
    LET Passed == {x \in ToSet(Tests) : done[x] = "passed"} IN
    sink => /\ \A x \in Passed : \E r \in stream : r.test = x /\ r.outcome = "passed"
            /\ Cardinality(Passed) <= receipt.total - receipt.failed - receipt.skipped

\* The certificate says PASS when all tests passed (or were skipped).
PassMeansAllPassed ==
    cert = "PASS" => \A x \in ToSet(Tests) : done[x] \in {"passed", "skipped"}
===============================================================================
