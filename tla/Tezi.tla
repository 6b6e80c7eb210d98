--------------------------------- MODULE Tezi ---------------------------------
(***************************************************************************)
(* UuuTeziProvisioner of provisioning/tezi_uuu.py beside the workers of     *)
(* Provisioning: a bench puts its board into USB recovery with the          *)
(* SdMuxRecoveryStrategy of host_adapters/sd_mux.py, pushes the installer   *)
(* (TEZI) into RAM with uuu and follows the installation on the console.    *)
(* The installer reads its image from the SD card.                          *)
(*                                                                         *)
(*   pin     the recovery strap: "low" is asserted                          *)
(*   board   what the board runs; emmc is what its eMMC holds               *)
(*   uart    the signatures printed since the stream was opened, unread     *)
(*   tz      the provisioner: where it is, the transmit probe, the media    *)
(*           check and whether tezi.log is taken to be tailed (tail_sent)   *)
(*   result  what the last provision returned                               *)
(*   fsm     the state the board's state machine records                    *)
(*   cast    who takes part: workers, "killer" if they may be killed,       *)
(*           "bench", and "usb" if the board's USB cable is plugged, so that *)
(*           the installer can be pushed                                    *)
(***************************************************************************)
EXTENDS Provisioning, Sequences, SequencesExt

CONSTANTS MaxUart,     \* bound on the unread signatures
          Casts        \* who may take part in a session

ASSUME CastsAssumption == Casts \subseteq SUBSET (Workers \union {"killer", "bench", "usb"})

VARIABLES pin, board, emmc, uart, tz, result, fsm, cast

bench == <<pin, board, emmc, uart, tz, result, fsm>>

Idle == [at |-> "idle", probe |-> "no", media |-> "no", tail |-> FALSE]

TeziInit ==
    /\ Init
    /\ pin = "high" /\ board = "off" /\ emmc = "old" /\ uart = <<>>
    /\ tz = Idle /\ result = "none" /\ fsm = "POWER_OFF"
    /\ cast \in Casts

At(from, to) == tz.at = from /\ tz' = [tz EXCEPT !.at = to]

\* provision raises; what it had learnt is forgotten with its frame.
Raises == tz' = Idle /\ result' = "raised" /\ UNCHANGED fsm
-----------------------------------------------------------------------------
(* SdMuxRecoveryStrategy.trigger_recovery, without the lock of the mux.      *)

\* The card goes to the board, whoever uses it.
RecoveryMux ==
    /\ tz.at = "idle"
    /\ result' = "none"
    /\ \/ ToDut /\ At("idle", "assert")
       \/ UNCHANGED <<mux, media, pc, orphan, tz>>      \* usbsdmux raised
    /\ UNCHANGED <<cache, lock, tries, ok, kills, pin, board, emmc, uart, fsm>>

\* The GPIO is driven, or left as it is: without a driver _set_gpio does nothing
\* and says so in the log only, and a driver that fails raises.
_set_gpio(level) == pin' \in {pin, level}

\* Where the board is once it starts with the strap at this level.
Started(level) ==
    IF level = "low" THEN "rom" ELSE IF emmc = "part" THEN "dead" ELSE "os"

\* recovery_assert and _do_energize; what raises here leaves the strap as it is.
RecoveryPower ==
    /\ _set_gpio("low")
    /\ \/ At("assert", "latch") /\ board' = Started(pin') /\ UNCHANGED result
       \/ tz.at = "assert" /\ Raises /\ board' \in {board, Started(pin')}
    /\ UNCHANGED <<vars, emmc, uart, fsm>>

\* The latch time is over: recovery_release, and boot_to_recovery commits.
RecoveryRelease ==
    /\ _set_gpio("high")
    /\ \/ At("latch", "poll") /\ fsm' = "RECOVERY" /\ UNCHANGED result
       \/ tz.at = "latch" /\ Raises
    /\ UNCHANGED <<vars, board, emmc, uart>>
-----------------------------------------------------------------------------
(* provision up to the console.                                              *)

\* lsusb or uuu shows the BootROM of the board.
_is_device_in_recovery == board = "rom" /\ "usb" \in cast

\* The payload directory, then the USB bus is polled until a BootROM shows: an
\* NXP one, or a TI one, which needs its boot loaders first.
PollUsb ==
    /\ \/ /\ _is_device_in_recovery
          /\ At("poll", "push") \/ At("poll", "dfu")
          /\ UNCHANGED result
       \/ tz.at = "poll" /\ Raises
    /\ UNCHANGED <<vars, pin, board, emmc, uart, fsm>>

\* The exit code of a dfu-util that writes is ignored; only a missing answer,
\* or a device that does not enumerate next, raises.
_run_ti_dfu_sequence ==
    /\ \/ At("dfu", "push") /\ board' \in {"dead", "spl"} /\ UNCHANGED result
       \/ tz.at = "dfu" /\ Raises /\ UNCHANGED board
    /\ UNCHANGED <<vars, pin, emmc, uart, fsm>>

\* uuu must exit with 0, print a Done and no Fail.  Then the strap is released
\* (it already is); without a serial client this is the result.
Uuu ==
    /\ \/ /\ board \in {"rom", "spl"} /\ board' = "tezi"
          /\ \/ At("push", "open") /\ UNCHANGED result
             \/ tz.at = "push" /\ tz' = Idle /\ result' = "pushed"
       \/ tz.at = "push" /\ Raises /\ UNCHANGED board
    /\ UNCHANGED <<vars, pin, emmc, uart, fsm>>

\* The console is flushed and the event stream opened.
OpenStream ==
    /\ At("open", "stream")
    /\ uart' = <<>>
    /\ UNCHANGED <<vars, pin, board, emmc, result, fsm>>
-----------------------------------------------------------------------------
(* One event of the stream.  The deadlines are looked at on every event, an  *)
(* idle tick included, before the event itself.                              *)

Streaming == tz.at = "stream"

\* _report_flash_success.
Success == tz' = Idle /\ result' = "True" /\ fsm' = "ENERGIZED"

Follows(t) == tz' = t /\ UNCHANGED <<result, fsm>>

\* Trusted whenever they appear.  The text login: is yielded twice, first as the
\* caller's success_prompt, which counts only once the log is tailed.
Conclusive(e) == e \in {"installed", "restarting", "login"}

\* The branch of an event, given what the deadlines left in t.
Handle(t, e) ==
    CASE e = "panic" -> tz' = Idle /\ result' = "False" /\ UNCHANGED fsm
      [] e = "shell" /\ t.probe = "no" /\ ~t.tail ->
            Follows([t EXCEPT !.probe = "sent"]) \/ Follows([t EXCEPT !.tail = TRUE])
      [] Conclusive(e) -> Success
      [] e = "prompt" /\ t.tail -> Success
      [] e = "echo" /\ t.probe = "sent" ->
            \/ Follows([t EXCEPT !.probe = "done", !.media = "sent"])
            \/ Follows([t EXCEPT !.probe = "done", !.tail = TRUE])
      [] e = "media_ok" /\ t.media = "sent" ->
            \/ Follows([t EXCEPT !.media = "done", !.tail = TRUE])
            \/ Follows([t EXCEPT !.media = "done"])
      [] e = "media_missing" /\ t.media = "sent" -> Raises
      [] OTHER -> Follows(t)

StreamEvent ==
    /\ Streaming /\ uart # <<>>
    /\ Handle(tz, Head(uart))
    /\ uart' = IF tz'.at = "stream" THEN Tail(uart) ELSE <<>>
    /\ UNCHANGED <<vars, pin, board, emmc>>

\* A tick after a deadline: no echo in 10 s, no media answer in 15 s, no shell
\* in 15 s; or the stream itself is over.
StreamTick ==
    /\ Streaming
    /\ \/ tz.probe = "sent" /\ Follows([tz EXCEPT !.probe = "done", !.tail = TRUE])
       \/ tz.media = "sent" /\ Raises
       \/ tz.probe = "no" /\ ~tz.tail /\ Follows([tz EXCEPT !.tail = TRUE])
       \/ tz' = Idle /\ result' = "False" /\ UNCHANGED fsm
    /\ uart' = IF tz'.at = "stream" THEN uart ELSE <<>>
    /\ UNCHANGED <<vars, pin, board, emmc>>
-----------------------------------------------------------------------------
(* The board.  It prints while the stream is open.                           *)

Prints(text) ==
    uart' = IF Streaming /\ Len(uart) < MaxUart THEN uart \o text ELSE uart

\* The installer's shell, and its answers to what was written to it.
TeziAnswers ==
    /\ board = "tezi" /\ Streaming /\ Len(uart) < MaxUart
    /\ \/ tz.probe = "no" /\ ~Contains(uart, "shell") /\ Prints(<<"shell">>)
       \/ tz.probe = "sent" /\ ~Contains(uart, "echo") /\ Prints(<<"echo">>)
       \/ /\ tz.media = "sent"
          /\ ~Contains(uart, "media_ok") /\ ~Contains(uart, "media_missing")
          /\ Prints(IF mux = "dut" THEN <<"media_ok">> ELSE <<"media_missing">>)
    /\ UNCHANGED <<vars, pin, board, emmc, tz, result, fsm>>

\* The installer copies the image from the card and prints its line at the end.
TeziInstalls ==
    /\ board = "tezi" /\ mux = "dut"
    /\ \/ emmc = "old" /\ emmc' = "part" /\ UNCHANGED <<board, uart>>
       \/ emmc = "part" /\ emmc' = "new" /\ Prints(<<"installed">>) /\ UNCHANGED board
       \/ emmc = "new" /\ board' = Started(pin) /\ Prints(<<"restarting">>) /\ UNCHANGED emmc
    /\ UNCHANGED <<vars, pin, tz, result, fsm>>

\* The board starts again by itself, installed or not: with the strap high it
\* boots what the eMMC holds.  The kernel announces a reboot of its own; a
\* watchdog or a dip of the supply does not wait for it.
BoardResets ==
    /\ board = "tezi"
    /\ board' = Started(pin)
    /\ Prints(<<"restarting">>) \/ UNCHANGED uart
    /\ UNCHANGED <<vars, pin, emmc, tz, result, fsm>>

OsPrints ==
    /\ board = "os" /\ Streaming
    /\ ~Contains(uart, "login") /\ Len(uart) < MaxUart
    /\ Prints(<<"prompt", "login">>)
    /\ UNCHANGED <<vars, pin, board, emmc, tz, result, fsm>>

KernelPanics ==
    /\ board \in {"tezi", "os"} /\ Streaming /\ Len(uart) < MaxUart
    /\ board' = "dead"
    /\ Prints(<<"panic">>)
    /\ UNCHANGED <<vars, pin, emmc, tz, result, fsm>>

\* The next unit is put on the bench.
NextUnit ==
    /\ tz.at = "idle" /\ result # "none"
    /\ board' = "off" /\ emmc' = "old" /\ fsm' = "POWER_OFF" /\ result' = "none"
    /\ UNCHANGED <<vars, pin, uart, tz>>

BenchStep ==
    \/ RecoveryMux \/ RecoveryPower \/ RecoveryRelease
    \/ PollUsb \/ _run_ti_dfu_sequence \/ Uuu \/ OpenStream
    \/ StreamEvent \/ StreamTick
    \/ TeziAnswers \/ TeziInstalls \/ BoardResets \/ OsPrints \/ KernelPanics
    \/ NextUnit

Next ==
    /\ \/ /\ \/ \E w \in Workers \intersect cast :
                   WorkerStep(w) \/ ("killer" \in cast /\ Kill(w))
             \/ OrphanEnds
          /\ UNCHANGED bench
       \/ "bench" \in cast /\ BenchStep
    /\ UNCHANGED cast

Spec == TeziInit /\ [][Next]_<<vars, bench, cast>>
-----------------------------------------------------------------------------
(* Properties.                                                               *)

\* As long as the with-block of a provision that returned True is open, the
\* medium holds all of the right artifact and nothing of another worker's, past
\* the cache, sync and failed switches; of two things it cannot know: the bench
\* took the card away, and the bmaptool of a killed worker spoilt it.
OkMeansWritten ==
    \A w \in Workers : ok[w] =>
        \/ kills > 0
        \/ lock["card"] = w /\ "bench" \in cast /\ mux = "dut"
        \/ \E d \in Media : lock[d] = w /\ Written(w, d)

\* "These three signatures are conclusive proof of a successful flash whenever
\* they appear - they cannot occur pre-install" (provisioning/tezi_uuu.py):
\* violated, the installer's kernel announces every reboot and an old system has
\* a login prompt too.
TrueMeansInstalled == result = "True" => emmc = "new"
===============================================================================
