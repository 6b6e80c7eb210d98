------------------------------- MODULE Vacuum -------------------------------
(***************************************************************************)
(* HostSideBuffer of transports/chunking.py, the thread that copies a log   *)
(* file of the board into host memory, under its caller run_binary of       *)
(* protocols/executable.py.  The thread, the caller, the program on the     *)
(* board and the link interleave between blocking calls.                    *)
(*                                                                         *)
(*   file      the log on the board: who wrote each line, what it looks      *)
(*             like and whether it is complete; a line begins with its       *)
(*             first character that is not white space                       *)
(*   alive     the runs whose program still runs on the board               *)
(*   link      the fast link works; over is transport.is_failed_over        *)
(*   console   complete lines waiting in the fallback's parser              *)
(*   thr       where _poll_loop is; got is its new_lines                    *)
(*   stopped   _stop_event; buf is _buffer and kept is _lines_read          *)
(*   pc        where run_binary is, in run number n; res is its verdict     *)
(*   log       whose lines it reports (0 for the console's)                 *)
(*   uncleaned runs whose killall and rm did not reach the board            *)
(*                                                                         *)
(* Every run makes a HostSideBuffer of its own, so the thread that outlives *)
(* stop() keeps extending a buffer nobody reads: both are dropped when      *)
(* run_binary returns.                                                      *)
(***************************************************************************)
EXTENDS Naturals, Sequences, FiniteSets

CONSTANTS
    MaxRuns,     \* calls of run_binary
    MaxLines,    \* lines in the log file
    MaxConsole   \* console lines that a run's buffer takes

ASSUME VacuumAssumption == {MaxRuns, MaxLines, MaxConsole} \subseteq Nat

VARIABLES file, alive, link, over, console, thr, got, stopped, buf, kept,
          pc, n, res, log, uncleaned

board == <<file, alive>>
wire == <<link, over, console>>
thread == <<thr, got, buf, kept>>
caller == <<pc, n, res, log, uncleaned>>
vars == <<board, wire, thread, stopped, caller>>

Reachable == link \/ over      \* a failed-over transport answers on the console
FromConsole == [run |-> 0, at |-> 0, whole |-> TRUE]
Buffered == {buf[k] : k \in DOMAIN buf}

\* Lines are blank, plain, or such that safe_run of the console takes them for a
\* message of the kernel or for its prompt.
Kind == {"blank", "plain", "kernel"}

\* The lines of the output of tail -n +first that are kept, without the ones that
\* are hidden: whose line each is, where it stands in the file, and whether all of
\* it was there, in the order of the file.  (A set of one sequence.)
TailFrom(first, hidden) ==
    LET shown == {i \in first .. Len(file) : file[i].kind \notin hidden}
        order == {s \in [1 .. Cardinality(shown) -> shown] :
                     /\ {s[k] : k \in DOMAIN s} = shown
                     /\ \A j, k \in DOMAIN s : j < k => s[j] < s[k]}
    IN  {[k \in 1 .. Cardinality(shown) |->
            [run |-> file[s[k]].run, at |-> s[k], whole |-> file[s[k]].whole]] : s \in order}

\* There is room for another line of the console.
RoomForConsole == Cardinality({k \in DOMAIN buf : buf[k] = FromConsole}) < MaxConsole
-----------------------------------------------------------------------------
(* The board and the link                                                   *)

\* The last line is being written: what a program writes next belongs to it.
Unfinished == file # <<>> /\ ~file[Len(file)].whole

WriteLine ==
    /\ Len(file) < MaxLines
    /\ ~Unfinished
    /\ \E r \in alive, t \in Kind, w \in BOOLEAN :
          /\ t = "blank" => w
          /\ file' = Append(file, [run |-> r, kind |-> t, whole |-> w])
    /\ UNCHANGED <<alive, wire, thread, stopped, caller>>

\* The rest of a line: only now it may look like a message of the kernel.
EndLine ==
    /\ Unfinished /\ alive # {}
    /\ \E t \in {file[Len(file)].kind, "kernel"} :
          file' = [file EXCEPT ![Len(file)] = [@ EXCEPT !.kind = t, !.whole = TRUE]]
    /\ UNCHANGED <<alive, wire, thread, stopped, caller>>

LinkDrops ==
    /\ link
    /\ link' = FALSE
    /\ over' \in BOOLEAN
    /\ UNCHANGED <<board, console, thread, stopped, caller>>

LinkReturns ==
    /\ ~link
    /\ link' = TRUE /\ over' = FALSE
    /\ UNCHANGED <<board, console, thread, stopped, caller>>

ConsoleLine ==
    /\ console = 0 /\ RoomForConsole
    /\ console' = console + 1
    /\ UNCHANGED <<board, link, over, thread, stopped, caller>>
-----------------------------------------------------------------------------
(* _poll_loop                                                               *)

PollTop ==
    /\ thr = "top"
    /\ thr' = IF stopped THEN "dead" ELSE IF over THEN "passive" ELSE "run"
    /\ UNCHANGED <<board, wire, got, buf, kept, stopped, caller>>

\* Failed over: the lines the console parser holds are kept, and counted as
\* lines of the file.
Passive ==
    /\ thr = "passive"
    /\ buf' = buf \o [i \in 1 .. console |-> FromConsole]
    /\ kept' = kept + console
    /\ console' = 0
    /\ thr' = "top"
    /\ UNCHANGED <<board, link, over, got, stopped, caller>>

\* What safe_run("tail -n +first") gives the thread: all that is not blank over
\* the fast link.  The console's safe_run drops what looks like a message of the
\* kernel or like its prompt, and takes another line printed meanwhile for output.
Output(first) ==
    IF link THEN TailFrom(first, {"blank"})
    ELSE LET clean == TailFrom(first, {"blank", "kernel"})
         IN  clean \cup IF RoomForConsole THEN {Append(g, FromConsole) : g \in clean} ELSE {}

\* Mutant: the first line asked for is the one after the next.
RunTail_late ==
    /\ thr = "run"
    /\ \/ Reachable /\ got' \in Output(kept + 2) /\ thr' = "keep"
       \/ Reachable /\ UNCHANGED got /\ thr' = "top"
       \/ UNCHANGED got /\ thr' = "dead"
    /\ UNCHANGED <<board, wire, buf, kept, stopped, caller>>

\* The board runs tail from start_line, or tail fails (there is no file); a
\* severed link and any other exception end the thread.  Nobody but the thread
\* changes _lines_read, so start_line is still one more than it.  The transport
\* may have failed over since is_failed_over was read.
RunTail ==
    /\ thr = "run"
    /\ \/ Reachable /\ got' \in Output(kept + 1) /\ thr' = "keep"
       \/ Reachable /\ UNCHANGED got /\ thr' = "top"
       \/ UNCHANGED got /\ thr' = "dead"
    /\ UNCHANGED <<board, wire, buf, kept, stopped, caller>>

\* Only lines that are not blank are kept and counted.
Keep ==
    /\ thr = "keep"
    /\ buf' = buf \o got
    /\ kept' = kept + Len(got)
    /\ got' = <<>>
    /\ thr' = "top"
    /\ UNCHANGED <<board, wire, stopped, caller>>
-----------------------------------------------------------------------------
(* run_binary, with start() and stop()                                      *)

\* test -x: without an answer, or without the program, nothing was started.
Preflight ==
    /\ pc = "idle" /\ n < MaxRuns
    /\ n' = n + 1 /\ log' = {}
    /\ \/ Reachable /\ pc' = "arm" /\ UNCHANGED res
       \/ pc' = "idle" /\ res' = "failed"
    /\ UNCHANGED <<board, wire, thread, stopped, uncleaned>>

\* A new HostSideBuffer, and its start().
Start ==
    /\ pc = "arm"
    /\ thr' = "top" /\ got' = <<>> /\ buf' = <<>> /\ kept' = 0
    /\ stopped' = FALSE
    /\ pc' = "spawn"
    /\ UNCHANGED <<board, wire, n, res, log, uncleaned>>

Spawn ==
    /\ pc = "spawn"
    /\ IF Reachable
       THEN alive' = alive \cup {n} /\ pc' = "exec" /\ UNCHANGED res
       ELSE pc' = "stop" /\ res' = "severed" /\ UNCHANGED alive
    /\ UNCHANGED <<file, wire, thread, stopped, n, log, uncleaned>>

\* safe_run of the program: it ends, it does not end in time, or the link breaks.
Exec ==
    /\ pc = "exec"
    /\ \/ /\ Reachable
          /\ res' \in {"passed", "failed", "signal"}
          /\ alive' = alive \ {n}
       \/ res' = "timeout" /\ UNCHANGED alive
       \/ ~Reachable /\ res' = "severed" /\ UNCHANGED alive
    /\ pc' = "stop"
    /\ UNCHANGED <<file, wire, thread, stopped, n, log, uncleaned>>

StopCall ==
    /\ pc = "stop"
    /\ stopped' = TRUE
    /\ pc' = "join"
    /\ UNCHANGED <<board, wire, thread, n, res, log, uncleaned>>

\* Mutant: the join has no timeout.
StopReturn_unbounded ==
    /\ pc = "join" /\ thr = "dead"
    /\ log' = {e.run : e \in Buffered}
    /\ pc' = IF res = "signal" THEN "dmesg" ELSE "cleanup"
    /\ UNCHANGED <<board, wire, thread, stopped, n, res, uncleaned>>

\* The thread ended, or join() gave up on it: stop() returns a copy either way.
StopReturn ==
    /\ pc = "join"
    /\ log' = {e.run : e \in Buffered}
    /\ pc' = IF res = "signal" THEN "dmesg" ELSE "cleanup"
    /\ UNCHANGED <<board, wire, thread, stopped, n, res, uncleaned>>

\* After a fatal signal the kernel log is read; a link that breaks now sends
\* the call to the handlers of the exceptions, which call stop() again.
ScrapeDmesg ==
    /\ pc = "dmesg"
    /\ \/ Reachable /\ pc' = "cleanup" /\ res' = "failed"
       \/ pc' = "stop" /\ res' \in {"timeout", "severed"}
    /\ UNCHANGED <<board, wire, thread, stopped, n, log, uncleaned>>

\* Mutant: the log file is left on the board.
Cleanup_norm ==
    /\ pc = "cleanup"
    /\ IF Reachable
       THEN alive' = {} /\ UNCHANGED uncleaned
       ELSE uncleaned' = uncleaned \cup {n} /\ UNCHANGED alive
    /\ pc' = "idle"
    /\ thr' = "dead" /\ got' = <<>> /\ buf' = <<>> /\ kept' = 0
    /\ UNCHANGED <<file, wire, stopped, n, res, log>>

\* finally: killall and rm if the transport is connected; what they raise is
\* only logged.  killall ends every program of that name.
Cleanup ==
    /\ pc = "cleanup"
    /\ \/ Reachable /\ alive' = {} /\ file' = <<>> /\ UNCHANGED uncleaned
       \/ alive' \in {alive, {}} /\ uncleaned' = uncleaned \cup {n} /\ UNCHANGED file
    /\ pc' = "idle"
    /\ thr' = "dead" /\ got' = <<>> /\ buf' = <<>> /\ kept' = 0
    /\ UNCHANGED <<wire, stopped, n, res, log>>
-----------------------------------------------------------------------------
Init ==
    /\ file = <<>> /\ alive = {}
    /\ link = TRUE /\ over = FALSE /\ console = 0
    /\ thr = "dead" /\ got = <<>> /\ buf = <<>> /\ kept = 0
    /\ stopped = FALSE
    /\ pc = "idle" /\ n = 0 /\ res = "failed" /\ log = {} /\ uncleaned = {}

Env == WriteLine \/ EndLine \/ LinkDrops \/ LinkReturns \/ ConsoleLine
Poll == PollTop \/ Passive \/ RunTail \/ Keep
Caller == \/ Start \/ Spawn \/ Exec \/ StopCall \/ StopReturn \/ ScrapeDmesg \/ Cleanup
Next == Env \/ Poll \/ Preflight \/ Caller

Spec == Init /\ [][Next]_vars

\* The caller is a thread whose calls have timeouts.  Nothing is assumed of the
\* polling thread, which may hang in a dead socket.
FairSpec == Spec /\ WF_vars(Caller)
-----------------------------------------------------------------------------
\* As long as no console line has been counted as a line of the file, no plain line
\* before the last one that was kept is missing: lines that are blank, or that the
\* console took for messages of the kernel, make _poll_loop ask again for what it
\* has, never skip.  (It may have only the first part of one that was being
\* written.)
NothingSkipped ==
    (pc \in {"exec", "stop", "join", "dmesg", "cleanup"} /\ FromConsole \notin Buffered) =>
        \A k \in DOMAIN buf : \A i \in 1 .. buf[k].at :
            file[i].kind = "plain" => \E j \in DOMAIN buf : buf[j].at = i

\* The log a run reports holds a line of an earlier run only if that run could
\* not reach the board to kill its program and remove its log.
FreshLog == log \subseteq {0, n} \cup uncleaned

\* run_binary returns, whatever the thread, the program and the link do.
RunReturns == pc # "idle" ~> pc = "idle"
=============================================================================
