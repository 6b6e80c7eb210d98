----------------------------- MODULE Provisioning -----------------------------
(***************************************************************************)
(* How firmware reaches the media of a bench, with several worker processes *)
(* of pytest-xdist on one host PC:                                          *)
(*   provisioning/secure_fetch.py    the artifact cache, shared by workers  *)
(*   host_adapters/mutex.py          the lock of a device, held by a process *)
(*   host_adapters/sd_mux.py         the SD card that is at the PC or at the *)
(*                                   board, and its recovery strategy       *)
(*   provisioning/block_device.py    bmaptool writes the card               *)
(*   host_adapters/microchip.py and provisioning/microchip.py  IPECMD       *)
(*                                   programs a PIC through a probe         *)
(* A worker runs one of the two flashing procedures at a time.  The media   *)
(* are named after their locks.                                             *)
(*                                                                         *)
(*   dest     the file of the artifact in .mes_cache/artifacts              *)
(*   lock     per medium, the process that holds its flock                  *)
(*   media    per medium, the worker whose image was last begun on it, what *)
(*            that image is (good: the artifact the configuration names),   *)
(*            and whether it is there in part, all of it buffered in the    *)
(*            PC's memory, or all of it, and nothing else, stored           *)
(*   mux      the side the SD card is switched to                           *)
(*   pc       what a worker does; tries counts its attempts, img is the     *)
(*            payload it resolved, ok that provision returned True in the   *)
(*            with-block it is still in                                     *)
(*   orphan   a bmaptool whose parent was killed and that still writes      *)
(*   kills    the workers killed so far                                     *)
(***************************************************************************)
EXTENDS Naturals

CONSTANTS Workers,     \* the worker processes
          Attempts,    \* attempts of fetch_and_verify and of an ICSP flash
          MaxKills     \* bound on kills

VARIABLES dest, lock, media, mux, pc, tries, img, ok, orphan, kills

cache == <<dest, img>>
worker == <<pc, tries, ok>>
vars == <<cache, lock, media, mux, worker, orphan, kills>>

Media == {"card", "pic"}
Nobody == "nobody"

ASSUME WorkersAssumption == Attempts \in Nat \ {0} /\ Nobody \notin Workers

\* The file a tool of w opens: a local payload, or what is at dest by then.
Artifact(w) == IF img[w] = "local" THEN "good" ELSE dest

Content(w, what, where) == [by |-> w, art |-> what, at |-> where]

Goes(w, from, to) == pc[w] = from /\ pc' = [pc EXCEPT ![w] = to]

\* The procedure is over, by an exception or at its end.
Ends(w, from) == Goes(w, from, "idle") /\ img' = [img EXCEPT ![w] = "none"]

Init ==
    /\ dest \in {"none", "stale", "good"}
    /\ lock = [d \in Media |-> Nobody]
    /\ media = [d \in Media |-> Content(Nobody, "none", "stored")]
    /\ mux = "dut"
    /\ pc = [w \in Workers |-> "idle"]
    /\ tries = [w \in Workers |-> 0]
    /\ img = [w \in Workers |-> "none"]
    /\ ok = [w \in Workers |-> FALSE]
    /\ orphan = Nobody
    /\ kills = 0
-----------------------------------------------------------------------------
(* SecureAssetFetcher.  Nothing keeps two workers from fetching the same     *)
(* artifact at once; only the part file carries the process id.              *)

\* resolve_payload of a local path: it exists and its checksum, if one is
\* configured, agrees.
resolve_payload(w) ==
    /\ Goes(w, "idle", "ready")
    /\ img' = [img EXCEPT ![w] = "local"]
    /\ UNCHANGED <<dest, lock, media, mux, tries, ok, orphan, kills>>

\* resolve_payload of a URL, and every later attempt of fetch_and_verify: the
\* cached file is hashed.
FetchLook(w) ==
    /\ pc[w] \in {"idle", "look"}
    /\ pc' = [pc EXCEPT ![w] = CASE dest = "good" -> "ready"
                                 [] dest = "stale" -> "unlink"
                                 [] dest = "none" -> "download"]
    /\ img' = [img EXCEPT ![w] = "cached"]
    /\ tries' = [tries EXCEPT ![w] = IF dest = "good" THEN 0 ELSE @]
    /\ UNCHANGED <<dest, lock, media, mux, ok, orphan, kills>>

\* The hash was wrong: whatever is at dest by now is removed.
FetchUnlink(w) ==
    /\ Goes(w, "unlink", "download")
    /\ dest' = "none"
    /\ UNCHANGED <<img, lock, media, mux, tries, ok, orphan, kills>>

\* The stream ends and its hash is right, or the attempt raises: a network
\* error, a wrong hash.  The part file is the worker's own.
Download(w) ==
    /\ \/ Goes(w, "download", "rename") /\ UNCHANGED <<tries, img>>
       \/ /\ tries[w] + 1 < Attempts
          /\ Goes(w, "download", "look")
          /\ tries' = [tries EXCEPT ![w] = @ + 1]
          /\ UNCHANGED img
       \/ Ends(w, "download") /\ tries' = [tries EXCEPT ![w] = 0]
    /\ UNCHANGED <<dest, lock, media, mux, ok, orphan, kills>>

FetchRename(w) ==
    /\ Goes(w, "rename", "ready")
    /\ dest' = "good"
    /\ tries' = [tries EXCEPT ![w] = 0]
    /\ UNCHANGED <<img, lock, media, mux, ok, orphan, kills>>

\* image_path.exists(), the first thing a provisioner asks.
HasImage(w) == Artifact(w) # "none"
-----------------------------------------------------------------------------
(* hardware_mutex: a non-blocking flock, tried again until a deadline.  The  *)
(* kernel drops it with the process.                                         *)

\* Mutant: the flock always succeeds, as the stand-in for a missing fcntl does.
hardware_mutex_bypassed(w, d) == lock' = [lock EXCEPT ![d] = w]

hardware_mutex(w, d) ==
    /\ lock[d] = Nobody
    /\ lock' = [lock EXCEPT ![d] = w]

Unlocked(w) == lock' = [d \in Media |-> IF lock[d] = w THEN Nobody ELSE lock[d]]

\* The deadline passed while another process held the lock.
MutexTimeout(w) ==
    /\ \E d \in Media : lock[d] # Nobody
    /\ Ends(w, "ready")
    /\ UNCHANGED <<dest, lock, media, mux, tries, ok, orphan, kills>>

\* The process is killed: no finally runs, the kernel frees its locks, and a
\* bmaptool it had started goes on.  The next process starts afresh.
Kill(w) ==
    /\ pc[w] # "idle" /\ kills < MaxKills
    /\ kills' = kills + 1
    /\ Ends(w, pc[w])
    /\ Unlocked(w)
    /\ orphan' = IF pc[w] = "write" THEN w ELSE orphan
    /\ tries' = [tries EXCEPT ![w] = 0]
    /\ ok' = [ok EXCEPT ![w] = FALSE]
    /\ UNCHANGED <<dest, media, mux>>
-----------------------------------------------------------------------------
(* HostUsbSdMuxAdapter and BmapBlockDeviceProvisioner.                       *)

\* The card leaves the PC: the block device is gone under every writer, and
\* does not come back for the file it has open.  What was only buffered may be
\* lost.
CardLeaves ==
    /\ mux' = "dut" /\ orphan' = Nobody
    /\ \E where \in {"part", "stored"} :
          media' = [media EXCEPT !["card"].at = IF @ = "buffered" THEN where ELSE @]

Broken(v) == IF pc[v] = "write" THEN "broken" ELSE pc[v]
ToDut == CardLeaves /\ pc' = [v \in Workers |-> Broken(v)]

EnterLock(w) ==
    /\ Goes(w, "ready", "locked")
    /\ hardware_mutex(w, "card")
    /\ UNCHANGED <<cache, media, mux, tries, ok, orphan, kills>>

\* _set_mux_state('host') and the wait for the block device.  A switch that
\* fails or times out may have switched; the lock is released either way and
\* nothing moves the card back.
EnterHost(w) ==
    /\ \/ mux' = "host" /\ Goes(w, "locked", "preflight") /\ UNCHANGED <<lock, img>>
       \/ mux' \in {mux, "host"} /\ Ends(w, "locked") /\ Unlocked(w)
    /\ UNCHANGED <<dest, media, tries, ok, orphan, kills>>

\* provision up to bmaptool: the image and the block device exist, the device
\* is unmounted.
_pre_flight_safety_check(w) ==
    /\ \/ HasImage(w) /\ mux = "host" /\ Goes(w, "preflight", "spawn")
       \/ Goes(w, "preflight", "exit")
    /\ UNCHANGED <<cache, lock, media, mux, tries, ok, orphan, kills>>

\* bmaptool opens the image and the card.  If the card has left since the check
\* it fails, or makes a plain file under the name of the device and fills that.
BmaptoolOpens(w) ==
    /\ \/ /\ HasImage(w) /\ mux = "host"
          /\ Goes(w, "spawn", "write")
          /\ media' = [media EXCEPT !["card"] = Content(w, Artifact(w), "part")]
       \/ /\ HasImage(w) /\ mux = "dut"
          /\ Goes(w, "spawn", "sync")
          /\ UNCHANGED media
       \/ Goes(w, "spawn", "exit") /\ UNCHANGED media
    /\ UNCHANGED <<cache, lock, mux, tries, ok, orphan, kills>>

\* What is on the medium once w's tool has written the last block: the probe of
\* the PIC has verified it, the blocks of the card are in the PC's buffers.
Completed(w, d) ==
    media' = [media EXCEPT ![d].at =
                IF media[d].by # w \/ @ # "part" THEN "part"
                ELSE IF d = "card" THEN "buffered" ELSE "stored"]

\* Mutant: the exit code of bmaptool is not looked at.
bmaptool_any_code(w) ==
    /\ \/ pc[w] = "write" /\ Completed(w, "card")
       \/ pc[w] \in {"write", "broken"} /\ UNCHANGED media
    /\ pc' = [pc EXCEPT ![w] = "sync"]
    /\ UNCHANGED <<cache, lock, mux, tries, ok, orphan, kills>>

\* LiveProcess of bmaptool: exit code 0, or an exit code, a timeout or Ctrl+C
\* after which the child is dead.
bmaptool(w) ==
    /\ \/ Goes(w, "write", "sync") /\ Completed(w, "card")
       \/ /\ pc[w] \in {"write", "broken"}
          /\ pc' = [pc EXCEPT ![w] = "exit"]
          /\ UNCHANGED media
    /\ UNCHANGED <<cache, lock, mux, tries, ok, orphan, kills>>

\* sync, which may fail, and partprobe, which may not matter.
Sync(w) ==
    /\ Goes(w, "sync", "exit")
    /\ \/ /\ ok' = [ok EXCEPT ![w] = TRUE]
          /\ media' = [media EXCEPT !["card"].at = IF @ = "buffered" THEN "stored" ELSE @]
       \/ UNCHANGED <<ok, media>>
    /\ UNCHANGED <<cache, lock, mux, tries, orphan, kills>>

\* __exit__: the card goes to the board; a failure is only logged.  Then the
\* lock is released.
ExitDut(w) ==
    /\ pc[w] = "exit"
    /\ \/ /\ CardLeaves
          /\ pc' = [v \in Workers |-> IF v = w THEN "release" ELSE Broken(v)]
       \/ Goes(w, "exit", "release") /\ UNCHANGED <<mux, media, orphan>>
    /\ UNCHANGED <<cache, lock, tries, ok, kills>>

ExitRelease(w) ==
    /\ Ends(w, "release")
    /\ Unlocked(w)
    /\ ok' = [ok EXCEPT ![w] = FALSE]
    /\ UNCHANGED <<dest, media, mux, tries, orphan, kills>>

\* The bmaptool of a killed worker ends.
OrphanEnds ==
    /\ orphan # Nobody
    /\ orphan' = Nobody
    /\ Completed(orphan, "card") \/ UNCHANGED media
    /\ UNCHANGED <<cache, lock, mux, worker, kills>>
-----------------------------------------------------------------------------
(* HostPickitAdapter and the ICSP provisioner: 1 + retries attempts, each an *)
(* IPECMD that erases, programs and verifies.                                *)

PickitEnter(w) ==
    /\ Goes(w, "ready", "icsp")
    /\ hardware_mutex(w, "pic")
    /\ UNCHANGED <<cache, media, mux, tries, ok, orphan, kills>>

\* The checks at the start of provision, then an attempt that erases the chip;
\* or the checks, or every attempt, fail before anything is erased.
IcspStart(w) ==
    /\ \/ /\ HasImage(w) /\ Goes(w, "icsp", "program")
          /\ media' = [media EXCEPT !["pic"] = Content(w, Artifact(w), "part")]
          /\ UNCHANGED tries
       \/ /\ Goes(w, "icsp", "release") /\ UNCHANGED media
          /\ tries' = [tries EXCEPT ![w] = 0]
    /\ UNCHANGED <<cache, lock, mux, ok, orphan, kills>>

\* Every symptom in the output, an exit code and a missing confirmation raise.
\* A locked chip is not tried again.
_execute_flash(w) ==
    /\ \/ /\ Goes(w, "program", "release") /\ Completed(w, "pic")
          /\ ok' = [ok EXCEPT ![w] = TRUE]
          /\ tries' = [tries EXCEPT ![w] = 0]
       \/ /\ tries[w] + 1 < Attempts
          /\ Goes(w, "program", "icsp")
          /\ tries' = [tries EXCEPT ![w] = @ + 1]
          /\ UNCHANGED <<media, ok>>
       \/ /\ Goes(w, "program", "release")
          /\ tries' = [tries EXCEPT ![w] = 0]
          /\ UNCHANGED <<media, ok>>
    /\ UNCHANGED <<cache, lock, mux, orphan, kills>>
-----------------------------------------------------------------------------
WorkerStep(w) ==
    \/ resolve_payload(w) \/ FetchLook(w) \/ FetchUnlink(w) \/ Download(w)
    \/ FetchRename(w)
    \/ MutexTimeout(w)
    \/ EnterLock(w) \/ EnterHost(w) \/ _pre_flight_safety_check(w)
    \/ BmaptoolOpens(w) \/ bmaptool(w) \/ Sync(w) \/ ExitDut(w) \/ ExitRelease(w)
    \/ PickitEnter(w) \/ IcspStart(w) \/ _execute_flash(w)
-----------------------------------------------------------------------------
(* Properties.                                                               *)

\* The lock of the mux: no two live workers have a tool writing the card, with
\* retries, failed switches and the recovery strategy that takes the card away
\* without the lock.  (A bmaptool that outlived its worker is not counted: the
\* kernel gave its lock away.)
OneWriter ==
    \A v, w \in Workers :
        (pc[v] \in {"write", "sync"} /\ pc[w] \in {"write", "sync"}) => v = w

\* The artifact is on the medium, the right one, and nothing of another's.
Written(w, d) == media[d] = Content(w, "good", "stored")
===============================================================================
