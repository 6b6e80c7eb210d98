------------------------- MODULE ProvisioningProofs -------------------------
(* How software gets onto the boards.  Proofs about Provisioning and Tezi,    *)
(* for any number of workers, attempts and kills and any cast, and about       *)
(* McuBench, which shares nothing with them, for any set of probes.           *)
EXTENDS Tezi, McuBench, TLAPS

(* The workers                                                              *)

\* Where a worker holds no lock, the lock of the card, the lock of the probe.
FreePlaces == {"idle", "look", "unlink", "download", "rename", "ready"}
CardPlaces == {"locked", "preflight", "spawn", "write", "broken", "sync", "exit"}
PicPlaces == {"icsp", "program"}
Places == FreePlaces \cup CardPlaces \cup PicPlaces \cup {"release"}
Owner == Workers \cup {Nobody}
Files == {"none", "stale", "good"}
Contents == [by : Owner, art : Files, at : {"part", "buffered", "stored"}]

TypeOKProv ==
    /\ dest \in Files /\ img \in [Workers -> {"none", "local", "cached"}]
    /\ lock \in [Media -> Owner]
    /\ media \in [Media -> Contents]
    /\ mux \in {"host", "dut"}
    /\ pc \in [Workers -> Places]
    /\ ok \in [Workers -> BOOLEAN]
    /\ kills \in Nat /\ orphan \in Owner

\* A worker in the with-block of a medium holds the medium's lock.
HoldsLock(w) ==
    /\ pc[w] \in CardPlaces => lock["card"] = w
    /\ pc[w] \in PicPlaces => lock["pic"] = w

\* What a worker has resolved is not the file whose hash was wrong: nothing puts
\* that one back.
RightFile(w) ==
    pc[w] \in {"ready"} \cup CardPlaces \cup PicPlaces => img[w] = "local" \/ dest # "stale"

\* The bench has taken the card away: nothing else does in a worker's with-block.
Away == "bench" \in cast /\ mux = "dut"
OnlyBenchTakes(w) == pc[w] \in CardPlaces \ {"locked"} => mux = "host" \/ Away

\* Unless a worker was killed, the tool that writes a medium writes it alone, and
\* what it wrote waits for sync as long as the card stays.
WritesAlone(w) ==
    /\ pc[w] = "write" => media["card"] = Content(w, "good", "part")
    /\ pc[w] = "sync" => Away \/ media["card"] = Content(w, "good", "buffered")
    /\ pc[w] = "program" => media["pic"] = Content(w, "good", "part")

Holding(w) ==
    \/ lock["card"] = w /\ Away
    \/ \E d \in Media : lock[d] = w /\ Written(w, d)

\* A success is known only on the way out of the with-block, with the medium as
\* it was written.
OkOnTheWayOut(w) == ok[w] => pc[w] \in {"exit", "release"} /\ (kills = 0 => Holding(w))

Kept(w) ==
    /\ HoldsLock(w) /\ RightFile(w) /\ OnlyBenchTakes(w)
    /\ kills = 0 => WritesAlone(w)
    /\ OkOnTheWayOut(w)

ProvInv ==
    /\ TypeOKProv
    /\ kills = 0 => orphan = Nobody
    /\ \A w \in Workers : Kept(w)
-----------------------------------------------------------------------------
\* What the others know survives a step of w that moves w alone, takes only free
\* locks, gives back only its own, writes only media whose lock it holds, switches
\* the card only with its lock and puts no wrong file into the cache.
LEMMA OthersKeep ==
  ASSUME ProvInv, NEW w \in Workers, NEW v \in Workers, v # w,
         pc'[v] = pc[v] \/ (pc[v] = "write" /\ pc'[v] = "broken"),
         ok'[v] = ok[v], img'[v] = img[v], dest' = "stale" => dest = "stale",
         \A d \in Media : lock[d] # lock'[d] => lock[d] \in {Nobody, w},
         \A d \in Media : media[d] # media'[d] => lock[d] = w,
         mux # mux' => lock["card"] = w,
         kills \in Nat, kills' = 0 => kills = 0, cast' = cast
  PROVE  Kept(v)'
<1>1. v # Nobody /\ Kept(v)
  BY WorkersAssumption DEF ProvInv
<1>2. \A d \in Media : lock[d] = v => lock'[d] = v /\ media'[d] = media[d]
  BY <1>1
<1>3. lock["card"] = v => mux' = mux /\ lock'["card"] = v /\ media'["card"] = media["card"]
  BY <1>2 DEF Media
<1>4. HoldsLock(v)'
  BY <1>1, <1>2 DEF Kept, HoldsLock, CardPlaces, PicPlaces, Media
<1>5. RightFile(v)'
  BY <1>1 DEF Kept, RightFile, CardPlaces
<1>6. kills' = 0 => WritesAlone(v)'
  BY <1>1, <1>2, <1>3 DEF Kept, HoldsLock, WritesAlone, CardPlaces, PicPlaces, Media, Away
<1>7. OkOnTheWayOut(v)'
  <2>1. ok[v] \in BOOLEAN /\ OkOnTheWayOut(v)
    BY <1>1 DEF ProvInv, TypeOKProv, Kept
  <2>2. Holding(v) => Holding(v)'
    BY <1>2, <1>3 DEF Holding, Written, Content, Away
  <2> QED BY <2>1, <2>2 DEF OkOnTheWayOut
<1>8. OnlyBenchTakes(v)'
  BY <1>1, <1>3 DEF Kept, HoldsLock, OnlyBenchTakes, CardPlaces, Away
<1> QED BY <1>4, <1>5, <1>6, <1>7, <1>8 DEF Kept

\* Steps of a worker that holds no lock: fetching, and giving up on a lock.
LEMMA FetchKeeps ==
  ASSUME ProvInv, cast' = cast, NEW w \in Workers,
         \/ resolve_payload(w) \/ FetchLook(w) \/ FetchUnlink(w)
         \/ Download(w) \/ FetchRename(w) \/ MutexTimeout(w)
  PROVE  ProvInv'
<1>1. /\ UNCHANGED <<lock, media, mux, ok, orphan, kills>>
      /\ dest' \in {dest, "none", "good"}
      /\ \E i \in {"none", "local", "cached"} : img' = [img EXCEPT ![w] = i] \/ img' = img
  BY DEF ProvInv, TypeOKProv, resolve_payload, FetchLook, FetchUnlink, Download, FetchRename,
     MutexTimeout, Ends
<1>2. pc[w] \in FreePlaces /\ \E p \in FreePlaces : pc' = [pc EXCEPT ![w] = p]
  BY DEF ProvInv, TypeOKProv, Files, resolve_payload, FetchLook, FetchUnlink, Download, FetchRename,
     MutexTimeout, Goes, Ends, FreePlaces
<1>3. img' \in [Workers -> {"none", "local", "cached"}] /\ pc' \in [Workers -> Places]
  BY <1>1, <1>2 DEF ProvInv, TypeOKProv, Places
<1>4. TypeOKProv'
  BY <1>1, <1>3 DEF ProvInv, TypeOKProv, Files
<1>5. \A v \in Workers : v # w => pc'[v] = pc[v] /\ img'[v] = img[v]
  BY <1>1, <1>2 DEF ProvInv, TypeOKProv
<1>6. pc'[w] \in FreePlaces
  BY <1>2 DEF ProvInv, TypeOKProv
<1>7. pc'[w] = "ready" => img'[w] = "local" \/ dest' # "stale"
  BY DEF ProvInv, TypeOKProv, Files, resolve_payload, FetchLook, FetchUnlink, Download, FetchRename,
     MutexTimeout, Goes, Ends
<1>8. Kept(w)'
  BY <1>1, <1>2, <1>6, <1>7 DEF ProvInv, Kept, HoldsLock, RightFile, OnlyBenchTakes, WritesAlone,
     OkOnTheWayOut, FreePlaces, CardPlaces, PicPlaces
<1>9. ASSUME NEW v \in Workers, v # w
      PROVE  Kept(v)'
  <2>1. kills \in Nat
    BY DEF ProvInv, TypeOKProv
  <2> QED BY <1>1, <1>5, <1>9, <2>1, OthersKeep
<1> QED BY <1>1, <1>4, <1>8, <1>9 DEF ProvInv

\* A medium that changes in one of its fields stays well typed, and the other one
\* stays as it is.
LEMMA MediumChanges ==
  ASSUME TypeOKProv, NEW d \in Media, NEW r \in Contents, media' = [media EXCEPT ![d] = r]
  PROVE  /\ media' \in [Media -> Contents] /\ media'[d] = r
         /\ \A e \in Media : e # d => media'[e] = media[e]
  BY DEF TypeOKProv

\* The last block of a tool that wrote alone completes its image: on the card it
\* is buffered, in the chip it is stored.
LEMMA CompletedWrites ==
  ASSUME TypeOKProv, NEW w \in Owner, NEW d \in Media, Completed(w, d)
  PROVE  /\ media' \in [Media -> Contents]
         /\ \A e \in Media : e # d => media'[e] = media[e]
         /\ media[d] = Content(w, "good", "part")
              => media'[d] = Content(w, "good", IF d = "card" THEN "buffered" ELSE "stored")
<1> DEFINE where == IF media[d].by # w \/ media[d].at # "part" THEN "part"
                    ELSE IF d = "card" THEN "buffered" ELSE "stored"
           r == [media[d] EXCEPT !.at = where]
<1>1. media[d] \in Contents /\ media \in [Media -> Contents]
  BY DEF TypeOKProv
<1>2. media' = [media EXCEPT ![d] = r]
  BY <1>1 DEF Completed
<1>3. where \in {"part", "buffered", "stored"}
  OBVIOUS
<1>4. r \in Contents
  <2> HIDE DEF where
  <2> QED BY <1>1, <1>3 DEF Contents
<1>5. media[d] = Content(w, "good", "part")
        => r = Content(w, "good", IF d = "card" THEN "buffered" ELSE "stored")
  BY DEF Content
<1> HIDE DEF r
<1> QED BY <1>2, <1>4, <1>5, MediumChanges

\* A tool begins: the medium holds part of its image.
LEMMA BegunWrites ==
  ASSUME TypeOKProv, NEW w \in Workers, NEW d \in Media, NEW what \in Files,
         media' = [media EXCEPT ![d] = Content(w, what, "part")]
  PROVE  /\ media' \in [Media -> Contents]
         /\ \A e \in Media : e # d => media'[e] = media[e]
         /\ media'[d] = Content(w, what, "part")
<1>1. Content(w, what, "part") \in Contents
  BY DEF Content, Contents, Owner
<1> QED BY <1>1, MediumChanges

\* Blocks leave the buffers, one way or the other; an image that is stored stays.
LEMMA BuffersEmptied ==
  ASSUME TypeOKProv, NEW where \in {"part", "stored"},
         media' = [media EXCEPT !["card"].at = IF @ = "buffered" THEN where ELSE @]
  PROVE  /\ media' \in [Media -> Contents]
         /\ media'["pic"] = media["pic"]
         /\ \A w \in Workers, d \in Media : Written(w, d) => Written(w, d)'
         /\ \A w \in Workers : media["card"] = Content(w, "good", "buffered")
              => media'["card"] = Content(w, "good", where)
<1> DEFINE at == IF media["card"].at = "buffered" THEN where ELSE media["card"].at
           r == [media["card"] EXCEPT !.at = at]
<1>1. media["card"] \in Contents /\ media \in [Media -> Contents] /\ "card" \in Media
      /\ "pic" \in Media
  BY DEF TypeOKProv, Media
<1>2. media' = [media EXCEPT !["card"] = r]
  BY <1>1
<1>3. at \in {"part", "buffered", "stored"}
  BY <1>1 DEF Contents
<1>4. r \in Contents
  <2> HIDE DEF at
  <2> QED BY <1>1, <1>3 DEF Contents
<1>5. \A w \in Workers : /\ media["card"] = Content(w, "good", "buffered")
                            => r = Content(w, "good", where)
                         /\ media["card"] = Content(w, "good", "stored")
                            => r = Content(w, "good", "stored")
  BY DEF Content
<1> HIDE DEF r
<1>6. /\ media' \in [Media -> Contents] /\ media'["card"] = r
      /\ \A e \in Media : e # "card" => media'[e] = media[e]
  BY <1>1, <1>2, <1>4, MediumChanges
<1>7. \A w \in Workers, d \in Media : Written(w, d) => Written(w, d)'
  BY <1>5, <1>6 DEF Written, Content
<1> QED BY <1>1, <1>5, <1>6, <1>7

\* A tool that finds its image opens the artifact.
LEMMA OpensTheArtifact ==
  ASSUME ProvInv, NEW w \in Workers, pc[w] \in CardPlaces \cup PicPlaces, HasImage(w)
  PROVE  Artifact(w) = "good"
  BY DEF ProvInv, TypeOKProv, Files, Kept, RightFile, HasImage, Artifact

\* Taking a lock, and the with-block of the SD card.
LEMMA CardKeeps ==
  ASSUME ProvInv, cast' = cast, NEW w \in Workers,
         \/ EnterLock(w) \/ EnterHost(w) \/ _pre_flight_safety_check(w)
         \/ BmaptoolOpens(w) \/ bmaptool(w) \/ Sync(w) \/ ExitDut(w)
  PROVE  ProvInv'
<1> USE DEF cache, worker
<1>1. /\ UNCHANGED <<kills, dest>> /\ (kills = 0 => orphan' = Nobody) /\ orphan' \in Owner
      /\ \A v \in Workers : v # w => img'[v] = img[v]
      /\ img' \in [Workers -> {"none", "local", "cached"}]
      /\ mux' \in {"host", "dut"}
  BY DEF ProvInv, TypeOKProv, Owner, EnterLock, EnterHost, _pre_flight_safety_check, BmaptoolOpens,
     bmaptool, Sync, ExitDut, CardLeaves, Ends
<1>2. /\ pc[w] = "ready" \/ pc[w] \in CardPlaces
      /\ pc' \in [Workers -> Places]
      /\ \A v \in Workers : v # w => pc'[v] = pc[v] \/ (pc[v] = "write" /\ pc'[v] = "broken")
  BY DEF ProvInv, TypeOKProv, EnterLock, EnterHost, _pre_flight_safety_check, BmaptoolOpens, bmaptool,
     Sync, ExitDut, Broken, Goes, Ends, Places, FreePlaces, CardPlaces
<1>3. /\ lock' \in [Media -> Owner]
      /\ \A d \in Media : lock[d] # lock'[d] => lock[d] \in {Nobody, w}
  BY DEF ProvInv, TypeOKProv, EnterLock, EnterHost, _pre_flight_safety_check, BmaptoolOpens, bmaptool,
     Sync, ExitDut, hardware_mutex, Unlocked, Owner, Media
<1>4. \/ UNCHANGED media
      \/ /\ pc[w] \in CardPlaces
         /\ \/ Completed(w, "card")
            \/ HasImage(w) /\ media' = [media EXCEPT !["card"] = Content(w, Artifact(w), "part")]
            \/ \E where \in {"part", "stored"} :
                 media' = [media EXCEPT !["card"].at = IF @ = "buffered" THEN where ELSE @]
  BY DEF EnterLock, EnterHost, _pre_flight_safety_check, BmaptoolOpens, bmaptool, Sync, ExitDut,
     CardLeaves, Goes, CardPlaces
<1>5. /\ media' \in [Media -> Contents]
      /\ \A d \in Media : media[d] # media'[d] => d = "card" /\ pc[w] \in CardPlaces
  <2>1. TypeOKProv /\ w \in Owner /\ "card" \in Media /\ (HasImage(w) => Artifact(w) \in Files)
    BY DEF ProvInv, TypeOKProv, Owner, Media, Artifact, Files
  <2> QED BY <1>4, <2>1, CompletedWrites, BegunWrites, BuffersEmptied DEF Media, TypeOKProv
<1>6. ok' \in [Workers -> BOOLEAN] /\ \A v \in Workers : v # w => ok'[v] = ok[v]
  BY DEF ProvInv, TypeOKProv, EnterLock, EnterHost, _pre_flight_safety_check, BmaptoolOpens, bmaptool,
     Sync, ExitDut
<1>7. TypeOKProv'
  BY <1>1, <1>2, <1>3, <1>5, <1>6 DEF ProvInv, TypeOKProv
<1>8. /\ \A d \in Media : media[d] # media'[d] => lock[d] = w
      /\ mux # mux' => lock["card"] = w
  <2>1. pc[w] \in CardPlaces => lock["card"] = w
    BY DEF ProvInv, Kept, HoldsLock
  <2>2. mux # mux' => pc[w] \in CardPlaces
    BY DEF EnterLock, EnterHost, _pre_flight_safety_check, BmaptoolOpens, bmaptool, Sync, ExitDut,
       Goes, Ends, CardPlaces
  <2> QED BY <1>5, <2>1, <2>2
<1>9. Kept(w)'
  <2> USE DEF Kept, HoldsLock, RightFile, OnlyBenchTakes, WritesAlone, OkOnTheWayOut, CardPlaces,
              PicPlaces, Away
  <2>1. CASE EnterLock(w)
    BY <2>1 DEF ProvInv, TypeOKProv, EnterLock, hardware_mutex, Goes, Media
  <2>2. CASE EnterHost(w)
    BY <2>2 DEF ProvInv, TypeOKProv, EnterHost, Goes, Ends
  <2>3. CASE _pre_flight_safety_check(w)
    BY <2>3 DEF ProvInv, TypeOKProv, _pre_flight_safety_check, Goes
  <2>4. CASE BmaptoolOpens(w)
    <3>1. pc[w] = "spawn" /\ UNCHANGED <<lock, ok, kills, img, dest, mux>>
      BY <2>4 DEF BmaptoolOpens, Goes
    <3>2. ~ok[w] /\ lock["card"] = w /\ (mux = "host" \/ Away)
          /\ (img[w] = "local" \/ dest # "stale")
      BY <3>1 DEF ProvInv
    <3>3. \/ /\ pc'[w] = "write" /\ HasImage(w)
             /\ media' = [media EXCEPT !["card"] = Content(w, Artifact(w), "part")]
          \/ pc'[w] = "exit"
          \/ pc'[w] = "sync" /\ mux = "dut"
      BY <2>4 DEF ProvInv, TypeOKProv, BmaptoolOpens, Goes
    <3>4. pc'[w] = "write" => media'["card"] = Content(w, "good", "part")
      <4>1. TypeOKProv /\ "card" \in Media /\ "good" \in Files
        BY DEF ProvInv, Media, Files
      <4> QED BY <3>1, <3>3, <4>1, OpensTheArtifact, BegunWrites
    <3> QED BY <3>1, <3>2, <3>3, <3>4
  <2>5. CASE bmaptool(w)
    <3>1. pc[w] \in {"write", "broken"} /\ UNCHANGED <<lock, ok, kills, img, dest, mux>>
      BY <2>5 DEF bmaptool, Goes
    <3>2. ~ok[w] /\ lock["card"] = w /\ (mux = "host" \/ Away)
          /\ (img[w] = "local" \/ dest # "stale")
      BY <3>1 DEF ProvInv
    <3>3. \/ pc[w] = "write" /\ pc'[w] = "sync" /\ Completed(w, "card")
          \/ pc'[w] = "exit"
      BY <2>5 DEF ProvInv, TypeOKProv, bmaptool, Goes
    <3>4. pc'[w] = "sync" /\ kills = 0 => media'["card"] = Content(w, "good", "buffered")
      <4>1. TypeOKProv /\ "card" \in Media /\ w \in Owner
        BY DEF ProvInv, Media, Owner
      <4>2. pc[w] = "write" /\ kills = 0 => media["card"] = Content(w, "good", "part")
        BY DEF ProvInv
      <4> QED BY <3>3, <4>1, <4>2, CompletedWrites
    <3> QED BY <3>1, <3>2, <3>3, <3>4
  <2>6. CASE Sync(w)
    <3>1. pc[w] = "sync" /\ pc'[w] = "exit" /\ UNCHANGED <<lock, kills, img, dest, mux>>
      BY <2>6 DEF ProvInv, TypeOKProv, Sync, Goes
    <3>2. ~ok[w] /\ lock["card"] = w /\ (mux = "host" \/ Away)
          /\ (img[w] = "local" \/ dest # "stale")
          /\ (kills = 0 => Away \/ media["card"] = Content(w, "good", "buffered"))
      BY <3>1 DEF ProvInv
    <3>3. \/ ok' = ok
          \/ media' = [media EXCEPT !["card"].at = IF @ = "buffered" THEN "stored" ELSE @]
      BY <2>6 DEF Sync
    <3>4. media["card"] = Content(w, "good", "buffered") /\ ok' # ok
            => media'["card"] = Content(w, "good", "stored")
      <4>1. TypeOKProv
        BY DEF ProvInv
      <4> QED BY <3>3, <4>1, BuffersEmptied
    <3>5. ok'[w] /\ kills' = 0 => Holding(w)'
      BY <3>1, <3>2, <3>4 DEF Holding, Written, Media
    <3> QED BY <3>1, <3>2, <3>5
  <2>7. CASE ExitDut(w)
    <3>1. pc[w] = "exit" /\ pc'[w] = "release" /\ UNCHANGED <<lock, ok, kills, img, dest>>
      BY <2>7 DEF ProvInv, TypeOKProv, ExitDut, Goes
    <3>2. ok[w] /\ kills = 0 => Holding(w)
      BY DEF ProvInv
    <3>3. /\ mux = "dut" => mux' = "dut"
          /\ \A d \in Media : Written(w, d) => Written(w, d)'
      <4>1. CASE CardLeaves
        <5>1. TypeOKProv
          BY DEF ProvInv
        <5> QED BY <4>1, <5>1, BuffersEmptied DEF CardLeaves
      <4>2. CASE UNCHANGED <<mux, media>>
        BY <4>2 DEF Written, Content
      <4> QED BY <2>7, <4>1, <4>2 DEF ExitDut
    <3>4. Holding(w) => Holding(w)'
      BY <3>1, <3>3 DEF Holding
    <3> QED BY <3>1, <3>2, <3>4
  <2> QED BY <2>1, <2>2, <2>3, <2>4, <2>5, <2>6, <2>7
<1>10. ASSUME NEW v \in Workers, v # w
       PROVE  Kept(v)'
  <2>1. kills \in Nat /\ (kills' = 0 => kills = 0) /\ (dest' = "stale" => dest = "stale")
    BY <1>1 DEF ProvInv, TypeOKProv
  <2> QED BY <1>1, <1>2, <1>3, <1>6, <1>8, <1>10, <2>1, OthersKeep
<1> QED BY <1>1, <1>7, <1>9, <1>10 DEF ProvInv

\* The lock of the probe, the ICSP attempts, the way out of both with-blocks and
\* the kill, which gives back the locks of the killed worker.
LEMMA PicKeeps ==
  ASSUME ProvInv, cast' = cast, NEW w \in Workers,
         \/ PickitEnter(w) \/ IcspStart(w) \/ _execute_flash(w)
         \/ ExitRelease(w) \/ Kill(w)
  PROVE  ProvInv'
<1> USE DEF cache, worker
<1>1. /\ UNCHANGED <<dest, mux>> /\ kills' \in Nat /\ orphan' \in Owner
      /\ kills' = 0 => kills = 0 /\ orphan' = Nobody
      /\ \A v \in Workers : v # w => img'[v] = img[v]
      /\ img' \in [Workers -> {"none", "local", "cached"}]
  BY DEF ProvInv, TypeOKProv, Owner, PickitEnter, IcspStart, _execute_flash, ExitRelease, Kill, Ends
<1>2. /\ pc' \in [Workers -> Places]
      /\ \A v \in Workers : v # w => pc'[v] = pc[v]
  BY DEF ProvInv, TypeOKProv, PickitEnter, IcspStart, _execute_flash, ExitRelease, Kill,
     Goes, Ends, Places, FreePlaces, PicPlaces
<1>3. /\ lock' \in [Media -> Owner]
      /\ \A d \in Media : lock[d] # lock'[d] => lock[d] \in {Nobody, w}
  BY DEF ProvInv, TypeOKProv, PickitEnter, IcspStart, _execute_flash, ExitRelease, Kill,
     hardware_mutex, Unlocked, Owner, Media
<1>4. \/ UNCHANGED media
      \/ /\ pc[w] \in PicPlaces
         /\ \/ Completed(w, "pic")
            \/ HasImage(w) /\ media' = [media EXCEPT !["pic"] = Content(w, Artifact(w), "part")]
  BY DEF PickitEnter, IcspStart, _execute_flash, ExitRelease, Kill, Goes, PicPlaces
<1>5. /\ media' \in [Media -> Contents]
      /\ \A d \in Media : media[d] # media'[d] => d = "pic" /\ pc[w] \in PicPlaces
  <2>1. TypeOKProv /\ w \in Owner /\ "pic" \in Media /\ (HasImage(w) => Artifact(w) \in Files)
    BY DEF ProvInv, TypeOKProv, Owner, Media, Artifact, Files
  <2> QED BY <1>4, <2>1, CompletedWrites, BegunWrites DEF TypeOKProv
<1>6. ok' \in [Workers -> BOOLEAN] /\ \A v \in Workers : v # w => ok'[v] = ok[v]
  BY DEF ProvInv, TypeOKProv, PickitEnter, IcspStart, _execute_flash, ExitRelease, Kill
<1>7. TypeOKProv'
  BY <1>1, <1>2, <1>3, <1>5, <1>6 DEF ProvInv, TypeOKProv
<1>8. \A d \in Media : media[d] # media'[d] => lock[d] = w
  BY <1>5 DEF ProvInv, Kept, HoldsLock
<1>9. Kept(w)'
  <2> USE DEF Kept, HoldsLock, RightFile, OnlyBenchTakes, WritesAlone, OkOnTheWayOut, CardPlaces,
              PicPlaces
  <2>1. CASE PickitEnter(w)
    BY <2>1 DEF ProvInv, TypeOKProv, PickitEnter, hardware_mutex, Goes, Media
  <2>2. CASE IcspStart(w)
    <3>1. pc[w] = "icsp" /\ UNCHANGED <<lock, ok, kills, img, dest, mux>>
      BY <2>2 DEF IcspStart, Goes
    <3>2. ~ok[w] /\ lock["pic"] = w /\ (img[w] = "local" \/ dest # "stale")
      BY <3>1 DEF ProvInv
    <3>3. \/ /\ pc'[w] = "program" /\ HasImage(w)
             /\ media' = [media EXCEPT !["pic"] = Content(w, Artifact(w), "part")]
          \/ pc'[w] = "release"
      BY <2>2 DEF ProvInv, TypeOKProv, IcspStart, Goes
    <3>4. pc'[w] = "program" => media'["pic"] = Content(w, "good", "part")
      <4>1. TypeOKProv /\ "pic" \in Media /\ "good" \in Files
        BY DEF ProvInv, Media, Files
      <4> QED BY <3>1, <3>3, <4>1, OpensTheArtifact, BegunWrites
    <3> QED BY <3>1, <3>2, <3>3, <3>4
  <2>3. CASE _execute_flash(w)
    <3>1. pc[w] = "program" /\ UNCHANGED <<lock, kills, img, dest, mux>>
      BY <2>3 DEF _execute_flash, Goes
    <3>2. ~ok[w] /\ lock["pic"] = w /\ (img[w] = "local" \/ dest # "stale")
          /\ (kills = 0 => media["pic"] = Content(w, "good", "part"))
      BY <3>1 DEF ProvInv
    <3>3. \/ pc'[w] = "release" /\ Completed(w, "pic")
          \/ pc'[w] \in {"icsp", "release"} /\ ~ok'[w]
      BY <2>3, <3>2 DEF ProvInv, TypeOKProv, _execute_flash, Goes
    <3>4. Completed(w, "pic") /\ kills = 0 => media'["pic"] = Content(w, "good", "stored")
      <4>1. TypeOKProv /\ "pic" \in Media /\ w \in Owner
        BY DEF ProvInv, Media, Owner
      <4> QED BY <3>2, <4>1, CompletedWrites
    <3>5. Completed(w, "pic") /\ kills = 0 => Holding(w)'
      BY <3>1, <3>2, <3>4 DEF Holding, Written, Media
    <3> QED BY <3>1, <3>2, <3>3, <3>5
  <2>4. CASE ExitRelease(w)
    BY <2>4 DEF ProvInv, TypeOKProv, ExitRelease, Goes, Ends
  <2>5. CASE Kill(w)
    BY <2>5 DEF ProvInv, TypeOKProv, Kill, Goes, Ends
  <2> QED BY <2>1, <2>2, <2>3, <2>4, <2>5
<1>10. ASSUME NEW v \in Workers, v # w
       PROVE  Kept(v)'
  <2>1. kills \in Nat /\ (kills' = 0 => kills = 0) /\ (dest' = "stale" => dest = "stale")
    BY <1>1 DEF ProvInv, TypeOKProv
  <2> QED BY <1>1, <1>2, <1>3, <1>6, <1>8, <1>10, <2>1, OthersKeep
<1> QED BY <1>1, <1>7, <1>9, <1>10 DEF ProvInv

\* An orphan exists only after a kill; what it does to the card is excused.
LEMMA OrphanKeeps ==
  ASSUME ProvInv, cast' = cast, OrphanEnds
  PROVE  ProvInv'
<1>1. UNCHANGED <<dest, img, lock, mux, pc, ok, kills>> /\ kills # 0
  BY DEF ProvInv, OrphanEnds, cache, worker
<1>2. media' \in [Media -> Contents] /\ orphan' \in Owner
  <2>1. CASE Completed(orphan, "card")
    BY <2>1, CompletedWrites DEF ProvInv, TypeOKProv, Media, OrphanEnds, Owner
  <2>2. CASE UNCHANGED media
    BY <2>2 DEF ProvInv, TypeOKProv, OrphanEnds, Owner
  <2> QED BY <2>1, <2>2 DEF OrphanEnds
<1>3. TypeOKProv'
  BY <1>1, <1>2 DEF ProvInv, TypeOKProv
<1>4. \A w \in Workers : Kept(w)'
  BY <1>1 DEF ProvInv, Kept, HoldsLock, RightFile, OnlyBenchTakes, Away, OkOnTheWayOut
<1> QED BY <1>1, <1>3, <1>4 DEF ProvInv

\* The recovery strategy takes the card away without the lock: a writer breaks,
\* but stays in its with-block, and from here on the card is the bench's.
LEMMA ToDutKeeps ==
  ASSUME ProvInv, cast' = cast, "bench" \in cast, ToDut,
         UNCHANGED <<dest, img, lock, ok, kills>>
  PROVE  ProvInv'
<1>1. /\ pc' \in [Workers -> Places]
      /\ \A w \in Workers : pc'[w] = pc[w] \/ (pc[w] = "write" /\ pc'[w] = "broken")
  BY DEF ProvInv, TypeOKProv, ToDut, Broken, Places, CardPlaces
<1>2. /\ media' \in [Media -> Contents] /\ media'["pic"] = media["pic"]
      /\ \A w \in Workers, d \in Media : Written(w, d) => Written(w, d)'
  <2>1. TypeOKProv
    BY DEF ProvInv
  <2> QED BY <2>1, BuffersEmptied DEF ToDut, CardLeaves
<1>3. Away' /\ mux' = "dut" /\ orphan' = Nobody
  BY DEF Away, ToDut, CardLeaves
<1>4. TypeOKProv'
  BY <1>1, <1>2, <1>3 DEF ProvInv, TypeOKProv, Owner
<1>5. ASSUME NEW w \in Workers
      PROVE  Kept(w)'
  <2>1. Kept(w)
    BY DEF ProvInv
  <2>2. pc'[w] # "write"
    BY DEF ToDut, Broken
  <2>3. Holding(w) => Holding(w)'
    BY <1>2, <1>3 DEF Holding
  <2>4. (HoldsLock(w) /\ RightFile(w))'
    BY <1>1, <2>1 DEF Kept, HoldsLock, RightFile, CardPlaces, PicPlaces
  <2>5. OnlyBenchTakes(w)'
    BY <1>3 DEF OnlyBenchTakes
  <2>6. kills' = 0 => WritesAlone(w)'
    BY <1>1, <1>2, <1>3, <2>1, <2>2 DEF Kept, WritesAlone
  <2>7. OkOnTheWayOut(w)'
    BY <1>1, <2>1, <2>3 DEF Kept, OkOnTheWayOut
  <2> QED BY <2>4, <2>5, <2>6, <2>7 DEF Kept
<1> QED BY <1>3, <1>4, <1>5 DEF ProvInv
-----------------------------------------------------------------------------
(* The composition                                                          *)

LEMMA InitProv == TeziInit => ProvInv
<1> SUFFICES ASSUME TeziInit PROVE ProvInv
  OBVIOUS
<1>1. Content(Nobody, "none", "stored") \in Contents
  BY DEF Content, Contents, Owner, Files
<1>2. TypeOKProv
  BY <1>1 DEF TeziInit, Init, TypeOKProv, Owner, Files, Places, FreePlaces
<1>3. \A w \in Workers : Kept(w)
  BY DEF TeziInit, Init, Kept, HoldsLock, RightFile, OnlyBenchTakes, WritesAlone, OkOnTheWayOut,
     CardPlaces, PicPlaces
<1> QED BY <1>2, <1>3 DEF TeziInit, Init, ProvInv

LEMMA ProvInductive == Spec => []ProvInv
<1>1. ProvInv /\ [Next]_<<vars, bench, cast>> => ProvInv'
  <2> SUFFICES ASSUME ProvInv, [Next]_<<vars, bench, cast>> PROVE ProvInv'
    OBVIOUS
  <2>1. cast' = cast
    BY DEF Next
  <2>2. UNCHANGED <<vars, cast>> => ProvInv'
    BY DEF ProvInv, TypeOKProv, Kept, HoldsLock, RightFile, OnlyBenchTakes, WritesAlone,
       OkOnTheWayOut, Holding, Written, Content, Away, vars, cache, worker
  <2>3. ASSUME NEW w \in Workers, WorkerStep(w) \/ Kill(w)
        PROVE  ProvInv'
    BY <2>1, <2>3, FetchKeeps, CardKeeps, PicKeeps DEF WorkerStep
  <2>4. CASE OrphanEnds
    BY <2>1, <2>4, OrphanKeeps
  <2>5. CASE "bench" \in cast /\ BenchStep
    <3>1. CASE RecoveryMux
      <4>1. UNCHANGED <<dest, img, lock, ok, kills>>
        BY <3>1 DEF RecoveryMux, cache
      <4>2. CASE ToDut
        BY <2>1, <2>5, <4>1, <4>2, ToDutKeeps
      <4>3. CASE UNCHANGED <<mux, media, pc, orphan>>
        BY <2>1, <4>1, <4>3 DEF ProvInv, TypeOKProv, Kept, HoldsLock, RightFile, OnlyBenchTakes,
           WritesAlone, OkOnTheWayOut, Holding, Written, Content, Away
      <4> QED BY <3>1, <4>2, <4>3 DEF RecoveryMux
    <3>2. CASE ~RecoveryMux
      <4>1. UNCHANGED vars
        BY <2>5, <3>2 DEF BenchStep, RecoveryPower, RecoveryRelease, PollUsb,
           _run_ti_dfu_sequence, Uuu, OpenStream, StreamEvent, StreamTick, TeziAnswers, TeziInstalls,
           BoardResets, OsPrints, KernelPanics, NextUnit
      <4> QED BY <2>1, <2>2, <4>1
    <3> QED BY <3>1, <3>2
  <2>6. CASE UNCHANGED <<vars, bench, cast>>
    BY <2>2, <2>6
  <2> QED BY <2>3, <2>4, <2>5, <2>6 DEF Next
<1> QED BY <1>1, InitProv, PTL DEF Spec

\* However many workers share the bench, no two of them have a tool writing its
\* SD card: the lock is held from before the switch to after the tool's end,
\* and neither a kill nor the unlocked recovery lets a second one in.
THEOREM CardWrittenByOne == Spec => []OneWriter
<1>1. ProvInv => OneWriter
  BY DEF ProvInv, Kept, OneWriter, HoldsLock, CardPlaces
<1> QED BY <1>1, ProvInductive, PTL

\* A provision that returned True has the right artifact stored on its medium for
\* as long as its with-block is open, whatever the other workers do to the cache
\* and the card, unless the bench took the card or a worker was killed.
THEOREM OkIsWritten == Spec => []OkMeansWritten
<1>1. ProvInv => OkMeansWritten
  BY DEF ProvInv, TypeOKProv, OkMeansWritten, Kept, OkOnTheWayOut, Holding, Away
<1> QED BY <1>1, ProvInductive, PTL
-----------------------------------------------------------------------------
(* The bare-metal bench                                                     *)

CoreStates == {"off", "run", "halt"}
FlashSteps == {"idle", "prepare", "program", "restart", "verify"}

TypeOKMcu ==
    /\ power \in BOOLEAN /\ unsure \in BOOLEAN /\ open \in BOOLEAN
    /\ core \in CoreStates /\ flag \in BOOLEAN
    /\ image \in {"old", "half", "new", "bad"}
    /\ state \in McuStates
    /\ probe \in Probes
    /\ flash \in [at : FlashSteps, file : {"none", "bin", "hex"}]
    /\ out \in {"none", "rejected", "ok", "error", "interrupted"}

\* While flash_firmware runs it has no outcome yet.
Pending == flash.at # "idle" => out = "none"

\* A backend that reported success left no half of an image.
Reported == flash.at \in {"restart", "verify"} => image \in {"new", "bad"}

\* pyOCD and OpenOCD program only a halted processor.
ProgramsHalted == flash.at = "program" /\ probe # "probe_rs" => core # "run"

McuInv ==
    /\ TypeOKMcu
    /\ PowerAgrees
    /\ Pending /\ Reported /\ ProgramsHalted
    /\ HalfNotExecuted
-----------------------------------------------------------------------------
\* A call other than flash_firmware finds the flasher idle, and leaves nothing
\* of the last outcome.
LEMMA OtherCallClears ==
  ASSUME McuInv, OtherCall,
         power' \in BOOLEAN, unsure' \in BOOLEAN, open' \in BOOLEAN, flag' \in BOOLEAN,
         core' \in CoreStates, state' \in McuStates, image' = image,
         PowerAgrees'
  PROVE  McuInv'
<1>1. flash' = flash /\ flash.at = "idle" /\ out' = "none" /\ probe' = probe
  BY DEF OtherCall, Free, NoFlash
<1>2. TypeOKMcu'
  BY <1>1 DEF McuInv, TypeOKMcu
<1>3. /\ Pending' /\ Reported' /\ ProgramsHalted'
      /\ HalfNotExecuted'
  BY <1>1 DEF Pending, Reported, ProgramsHalted, HalfNotExecuted
<1> QED BY <1>2, <1>3 DEF McuInv

\* Whatever a probe does to the processor leaves it in one of its states.
LEMMA ProbeMoves ==
  ASSUME core \in CoreStates, HaltDone \/ HaltRaises \/ RunDone \/ RunRaises
  PROVE  core' \in CoreStates
  BY DEF CoreStates, HaltDone, HaltRaises, RunDone, RunRaises, Halted, Restarted, Ignored

\* The state machine's calls.  A command to the supply either succeeds, and the
\* recorded state is that of the supply, or raises, and is marked unsure.
LEMMA FsmKeeps ==
  ASSUME McuInv, FsmCall
  PROVE  McuInv'
<1> USE DEF McuInv, TypeOKMcu
<1>1. CASE energize
  <2>1. OtherCall /\ open' = open /\ image' = image
    BY <1>1 DEF energize
  <2>2. /\ power' \in BOOLEAN /\ unsure' \in BOOLEAN /\ flag' \in BOOLEAN
        /\ core' \in CoreStates /\ state' \in McuStates /\ PowerAgrees'
    BY <1>1 DEF energize, _hw_energize, PoweredOn, SupplyRaises, PowerAgrees, CoreStates, McuStates
  <2> QED BY <2>1, <2>2, OtherCallClears
<1>2. CASE power_off \/ recover_ota
  <2>1. OtherCall /\ open' = open /\ image' = image
    BY <1>2 DEF power_off, recover_ota
  <2>2. /\ power' \in BOOLEAN /\ unsure' \in BOOLEAN /\ flag' \in BOOLEAN
        /\ core' \in CoreStates /\ state' \in McuStates /\ PowerAgrees'
    BY <1>2 DEF power_off, recover_ota, _hw_power_off, PoweredOff, SupplyRaises, PowerAgrees,
                CoreStates, McuStates
  <2> QED BY <2>1, <2>2, OtherCallClears
<1>3. CASE Soft
  <2>1. OtherCall /\ UNCHANGED <<supply, target, open>>
    BY <1>3 DEF Soft
  <2>2. state' \in McuStates /\ state # "POWER_OFF" /\ state' # "POWER_OFF"
    BY <1>3 DEF Soft, McuStates
  <2> QED BY <2>1, <2>2, OtherCallClears DEF supply, target, PowerAgrees
<1>4. CASE halt_core \/ resume_core \/ trigger_ota
  <2>1. OtherCall /\ UNCHANGED <<supply, open>> /\ image' = image /\ flag' \in BOOLEAN
    BY <1>4 DEF halt_core, resume_core, trigger_ota, OtaDone, Attached
  <2>2. core' \in CoreStates
    BY <1>4, ProbeMoves DEF halt_core, resume_core, trigger_ota, OtaDone
  <2>3. state' \in McuStates /\ state # "POWER_OFF" /\ state' # "POWER_OFF"
    BY <1>4 DEF halt_core, resume_core, trigger_ota, McuStates
  <2> QED BY <2>1, <2>2, <2>3, OtherCallClears DEF supply, PowerAgrees
<1> QED BY <1>1, <1>2, <1>3, <1>4 DEF FsmCall

\* Calls past the state machine do not touch the supply.
LEMMA ProbeKeeps ==
  ASSUME McuInv, ProbeCall
  PROVE  McuInv'
<1> USE DEF McuInv, TypeOKMcu
<1>1. OtherCall /\ UNCHANGED <<supply, flag, image, state>> /\ open' \in BOOLEAN
  BY DEF ProbeCall, ProbeConnect, ProbeDisconnect, ProbeDirect, reset, target
<1>2. core' \in CoreStates
  BY ProbeMoves DEF ProbeCall, ProbeConnect, ProbeDisconnect, ProbeDirect, reset, target
<1> QED BY <1>1, <1>2, OtherCallClears DEF supply, PowerAgrees

\* The steps of flash_firmware.  None of them touches the supply or the state
\* machine; a tool's success and the halt before it are kept to the end.
LEMMA FlashKeeps ==
  ASSUME McuInv, FlashStep
  PROVE  McuInv'
<1> USE DEF McuInv, TypeOKMcu, Pending, Reported, ProgramsHalted,
            HalfNotExecuted, NoFlash, CoreStates, FlashSteps
<1>1. UNCHANGED <<supply, flag, state, probe>>
  BY DEF FlashStep, flash_firmware, _dispatch_flash, Program, Restart, Interrupted, _verify_flash, target
<1>2. PowerAgrees'
  BY <1>1 DEF PowerAgrees, supply
<1>3. CASE flash_firmware
  BY <1>1, <1>2, <1>3 DEF flash_firmware, target, supply, Free
<1>4. CASE _dispatch_flash
  BY <1>1, <1>2, <1>4 DEF _dispatch_flash, supply, Step, FlashEnds
<1>5. CASE Program
  BY <1>1, <1>2, <1>5 DEF Program, supply, Step, FlashEnds
<1>6. CASE Restart
  BY <1>1, <1>2, <1>6 DEF Restart, supply, Step, FlashEnds
<1>7. CASE Interrupted
  BY <1>1, <1>2, <1>7 DEF Interrupted, supply, FlashEnds, HaltDone, Halted, Ignored
<1>8. CASE _verify_flash
  BY <1>1, <1>2, <1>8 DEF _verify_flash, supply, target, FlashEnds
<1> QED BY <1>3, <1>4, <1>5, <1>6, <1>7, <1>8 DEF FlashStep

LEMMA McuInductive == McuSpec => []McuInv
<1>1. McuInit => McuInv
  <2> SUFFICES ASSUME McuInit PROVE McuInv
    OBVIOUS
  <2>1. flash.at = "idle" /\ TypeOKMcu
    BY DEF McuInit, TypeOKMcu, NoFlash, CoreStates, FlashSteps, McuStates
  <2>2. PowerAgrees
    BY DEF McuInit, PowerAgrees
  <2>3. Pending /\ Reported /\ ProgramsHalted /\ HalfNotExecuted
    BY <2>1 DEF McuInit, Pending, Reported, ProgramsHalted, HalfNotExecuted
  <2> QED BY <2>1, <2>2, <2>3 DEF McuInv
<1>2. McuInv /\ [McuNext]_mcuvars => McuInv'
  <2> SUFFICES ASSUME McuInv, [McuNext]_mcuvars PROVE McuInv'
    OBVIOUS
  <2>1. CASE McuNext
    BY <2>1, FsmKeeps, ProbeKeeps, FlashKeeps DEF McuNext
  <2>2. CASE UNCHANGED mcuvars
    BY <2>2 DEF mcuvars, supply, target, flasher, McuInv, TypeOKMcu, PowerAgrees, Pending, Reported,
       ProgramsHalted, HalfNotExecuted
  <2> QED BY <2>1, <2>2
<1> QED BY <1>1, <1>2, PTL DEF McuSpec

\* The state machine's POWER_OFF is the supply's, after any sequence of calls
\* and refusals, unless the last command to the supply raised: callbacks run
\* before the state changes, and nothing else switches the supply.
THEOREM PowerIsRecorded == McuSpec => []PowerAgrees
<1>1. McuInv => PowerAgrees
  BY DEF McuInv
<1> QED BY <1>1, McuInductive, PTL

\* A flash that failed or was interrupted with a probe that can halt does not
\* leave half of an image running.
THEOREM HalfImageHalted == McuSpec => []HalfNotExecuted
<1>1. McuInv => HalfNotExecuted
  BY DEF McuInv
<1> QED BY <1>1, McuInductive, PTL
=============================================================================
