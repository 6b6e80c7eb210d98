---------------------------- MODULE StationProofs ----------------------------
(* Proofs about StationServer, for any number of identifiers, benches,       *)
(* overlapping calls and sessions.                                           *)
EXTENDS StationServer, FiniteSetTheorems, TLAPS

\* Where a call is that is not the body of a tool.
Teardown == {"off", "close", "mux", "links"}
Control == {"idle", "open", "register"} \cup Teardown

SessionRecord ==
    [bench : Benches \cup {"none"}, psu : {"none", "open", "closed"},
     fsm : {"none", "dirty", "off", "up"}, mux : BOOLEAN, live : BOOLEAN]
CallRecord == [at : Control \cup AllTools, id : Ids \cup {"none"}, ses : Sessions \cup {None}]

TypeOKStation ==
    /\ reg \in [Ids -> Sessions \cup {None}]
    /\ obj \in [Sessions -> SessionRecord]
    /\ call \in [Callers -> CallRecord]
    /\ on \in [Benches -> BOOLEAN]

Used(k) == obj[k].bench # "none"

\* Sessions are numbered in the order connect() made them.
Numbered ==
    /\ \E m \in 0 .. MaxSessions : \A k \in Sessions : Used(k) <=> k <= m
    /\ \A k \in Sessions : ~Used(k) => obj[k] = NoSession

\* What a call knows of the session it looked up or made: a session that is being
\* registered is known to nobody else, one that is torn down is not live.
CallKnows(c) ==
    /\ call[c].at \in {"idle", "open"} => call[c].ses = None
    /\ call[c].at \in {"open", "register"} => call[c].id \in Ids
    /\ call[c].at \notin {"idle", "open"} => call[c].ses \in Sessions /\ Used(call[c].ses)
    /\ call[c].at \in Teardown => ~obj[call[c].ses].live
    /\ call[c].at = "register" =>
          /\ obj[call[c].ses].live /\ obj[call[c].ses].psu # "closed"
          /\ \A i \in Ids : reg[i] # call[c].ses
          /\ \A d \in Callers \ {c} : call[d].ses # call[c].ses

\* A session is torn down once.
OneTeardown ==
    \A c, d \in Callers :
        call[c].at \in Teardown /\ call[d].at \in Teardown /\ call[c].ses = call[d].ses => c = d

\* A live session is registered, or about to be.
LiveIsKnown ==
    \A k \in Sessions : obj[k].live =>
        \/ \E i \in Ids : reg[i] = k
        \/ \E c \in Callers : call[c].at = "register" /\ call[c].ses = k

\* The owner of an output is live, or is just being switched off.
Owns(k, b) ==
    /\ obj[k].bench = b /\ obj[k].psu = "open"
    /\ obj[k].live \/ \E c \in Callers : call[c].at = "off" /\ call[c].ses = k

Owned == \A b \in Benches : on[b] => b \in loose \/ \E k \in Sessions : Owns(k, b)

StationInv ==
    /\ TypeOKStation
    /\ Numbered
    /\ \A c \in Callers : CallKnows(c)
    /\ OneTeardown
    /\ LiveIsKnown
    /\ RegisteredIsLive
    /\ Owned
-----------------------------------------------------------------------------
(* Constants and records                                                    *)

LEMMA ToolsApart == AllTools \cap Control = {} /\ Tools \subseteq AllTools
  BY StationAssumption DEF AllTools, Control, Teardown, TransportTools, CommandTools, FileTools,
     ValidatorTools, BusTools, KernelTools, LinkTools, UBootTools, BootTools, ReadTools, SetPointTools,
     StatusTools, WatchdogTools, McuTools

LEMMA NoneApart == None \notin Sessions
  BY DEF None, Sessions

LEMMA NoSessionType ==
  /\ NoSession \in SessionRecord /\ NoSession.bench = "none" /\ NoSession.psu = "none"
  /\ ~NoSession.live
  BY DEF NoSession, SessionRecord

LEMMA IdleType == Idle \in CallRecord /\ Idle.at = "idle" /\ Idle.ses = None
  BY DEF Idle, CallRecord, Control

\* A call goes to its next step and keeps its session.
LEMMA GoesOn ==
  ASSUME TypeOKStation, NEW c \in Callers, NEW step \in Control, Goes(c, step)
  PROVE  /\ call' \in [Callers -> CallRecord]
         /\ call'[c].at = step /\ call'[c].ses = call[c].ses /\ call'[c].id = call[c].id
         /\ \A d \in Callers : d # c => call'[d] = call[d]
<1>1. call[c] \in CallRecord /\ call \in [Callers -> CallRecord]
  BY DEF TypeOKStation
<1>2. [call[c] EXCEPT !.at = step] \in CallRecord
  BY <1>1 DEF CallRecord
<1>3. call' = [call EXCEPT ![c] = [call[c] EXCEPT !.at = step]]
  BY DEF Goes
<1>4. call'[c] = [call[c] EXCEPT !.at = step]
  BY <1>1, <1>3
<1> QED BY <1>1, <1>2, <1>3, <1>4 DEF CallRecord

LEMMA ReturnsIdle ==
  ASSUME TypeOKStation, NEW c \in Callers, Returns(c)
  PROVE  /\ call' \in [Callers -> CallRecord]
         /\ call'[c].at = "idle" /\ call'[c].ses = None
         /\ \A d \in Callers : d # c => call'[d] = call[d]
  BY IdleType DEF TypeOKStation, Returns

\* A call begins.
LEMMA CallBegins ==
  ASSUME TypeOKStation, NEW c \in Callers, NEW a \in Control \cup AllTools, NEW id \in Ids,
         NEW k \in Sessions \cup {None},
         call' = [call EXCEPT ![c] = [at |-> a, id |-> id, ses |-> k]]
  PROVE  /\ call' \in [Callers -> CallRecord]
         /\ call'[c].at = a /\ call'[c].ses = k /\ call'[c].id = id
         /\ \A d \in Callers : d # c => call'[d] = call[d]
<1> DEFINE r == [at |-> a, id |-> id, ses |-> k]
<1>1. r \in CallRecord /\ r.at = a /\ r.ses = k /\ r.id = id
  BY DEF CallRecord
<1>2. call' = [call EXCEPT ![c] = r]
  OBVIOUS
<1> HIDE DEF r
<1> QED BY <1>1, <1>2 DEF TypeOKStation
-----------------------------------------------------------------------------
(* Steps that leave the registry, and what a session is, as they are        *)

\* Which outputs a step of call c may leave on: one that was on and is not the
\* one c is to switch off, one left loose, one that a live session switched on.
OutputsExplained(c) ==
    \A b \in Benches : on'[b] =>
        \/ b \in loose'
        \/ \E k \in Sessions : obj[k].bench = b /\ obj[k].psu = "open" /\ obj[k].live
        \/ /\ on[b] /\ b \notin loose
           /\ ~(call[c].at = "off" /\ obj[call[c].ses].psu = "open" /\ obj[call[c].ses].bench = b)

\* Sessions keep their bench, their supply and whether they are live.
SessionsStay ==
    \A k \in Sessions :
        /\ obj'[k].bench = obj[k].bench /\ obj'[k].live = obj[k].live /\ obj'[k].psu = obj[k].psu
        /\ ~Used(k) => obj'[k] = obj[k]

LEMMA StepKeeps ==
  ASSUME StationInv, NEW c \in Callers, reg' = reg, TypeOKStation',
         \A d \in Callers : d # c => call'[d] = call[d],
         call'[c].ses \in {None, call[c].ses} \cup {reg[i] : i \in Ids},
         call[c].at # "register" /\ call'[c].at # "register",
         call'[c].at \in Teardown => call[c].at \in Teardown /\ call'[c].ses = call[c].ses,
         CallKnows(c)', SessionsStay, OutputsExplained(c)
  PROVE  StationInv'
<1> USE DEF SessionsStay
<1>1. \A k \in Sessions : Used(k)' <=> Used(k)
  BY DEF Used
<1>2. Numbered'
  BY <1>1 DEF StationInv, Numbered, NoSession
<1>3. ASSUME NEW d \in Callers PROVE CallKnows(d)'
  <2>1. CASE d = c
    BY <2>1
  <2>2. CASE d # c
    <3>1. call'[d] = call[d] /\ CallKnows(d)
      BY <2>2 DEF StationInv
    <3>2. call[d].at = "register" => \A e \in Callers \ {d} : call'[e].ses # call[d].ses
      <4> SUFFICES ASSUME call[d].at = "register", NEW e \in Callers \ {d}
                   PROVE  call'[e].ses # call[d].ses
        OBVIOUS
      <4>1. call[d].ses \in Sessions /\ call[d].ses # None
        BY <3>1, NoneApart DEF CallKnows
      <4>2. call[c].ses # call[d].ses /\ call[e].ses # call[d].ses /\ \A i \in Ids : reg[i] # call[d].ses
        BY <2>2, <3>1 DEF CallKnows
      <4> QED BY <4>1, <4>2
    <3>3. call[d].at \in Control \cup AllTools /\ Teardown \cap {"idle", "open"} = {}
      BY DEF StationInv, TypeOKStation, CallRecord, Teardown
    <3>4. CASE call[d].at \in {"idle", "open"}
      BY <3>1, <3>3, <3>4 DEF CallKnows
    <3>5. CASE call[d].at \notin {"idle", "open"}
      <4>1. call[d].ses \in Sessions /\ Used(call[d].ses)
        BY <3>1, <3>5 DEF CallKnows
      <4>2. /\ obj'[call[d].ses].live = obj[call[d].ses].live
            /\ obj'[call[d].ses].psu = obj[call[d].ses].psu
            /\ obj'[call[d].ses].bench # "none"
        BY <4>1 DEF Used
      <4> QED BY <3>1, <3>2, <3>5, <4>1, <4>2 DEF CallKnows, Used
    <3> QED BY <3>4, <3>5
  <2> QED BY <2>1, <2>2
<1>4. OneTeardown'
  BY DEF StationInv, OneTeardown
<1>5. LiveIsKnown'
  BY DEF StationInv, LiveIsKnown
<1>6. RegisteredIsLive'
  <2>1. \A i \in Ids : reg[i] # None => reg[i] \in Sessions
    BY DEF StationInv, TypeOKStation
  <2> QED BY <2>1 DEF StationInv, RegisteredIsLive
<1>7. Owned'
  <2> SUFFICES ASSUME NEW b \in Benches, on'[b], b \notin loose'
               PROVE  \E k \in Sessions : Owns(k, b)'
    BY DEF Owned
  <2>1. CASE \E k \in Sessions : obj[k].bench = b /\ obj[k].psu = "open" /\ obj[k].live
    BY <2>1 DEF Owns
  <2>2. CASE /\ on[b] /\ b \notin loose
             /\ ~(call[c].at = "off" /\ obj[call[c].ses].psu = "open" /\ obj[call[c].ses].bench = b)
    <3>1. PICK k \in Sessions : Owns(k, b)
      BY <2>2 DEF StationInv, Owned
    <3>2. obj[k].live \/ \E d \in Callers : d # c /\ call[d].at = "off" /\ call[d].ses = k
      BY <2>2, <3>1 DEF Owns
    <3>3. Owns(k, b)'
      BY <3>1, <3>2 DEF Owns
    <3> QED BY <3>3
  <2> QED BY <2>1, <2>2 DEF OutputsExplained
<1> QED BY <1>2, <1>3, <1>4, <1>5, <1>6, <1>7 DEF StationInv
-----------------------------------------------------------------------------
(* Tools                                                                    *)

LEMMA SessionSet ==
  ASSUME TypeOKStation, NEW k \in Sessions, Used(k),
         \/ \E f \in {"none", "dirty", "off", "up"} : obj' = [obj EXCEPT ![k].fsm = f]
         \/ \E m \in BOOLEAN : obj' = [obj EXCEPT ![k].mux = m]
         \/ obj' = obj
  PROVE  obj' \in [Sessions -> SessionRecord] /\ SessionsStay
<1>1. obj[k] \in SessionRecord /\ obj \in [Sessions -> SessionRecord]
  BY DEF TypeOKStation
<1>2. CASE obj' = obj
  BY <1>1, <1>2 DEF SessionsStay
<1>3. ASSUME NEW r \in SessionRecord, obj' = [obj EXCEPT ![k] = r],
             r.bench = obj[k].bench, r.live = obj[k].live, r.psu = obj[k].psu
      PROVE  obj' \in [Sessions -> SessionRecord] /\ SessionsStay
  BY <1>1, <1>3 DEF SessionsStay
<1>4. ASSUME NEW f \in {"none", "dirty", "off", "up"}, obj' = [obj EXCEPT ![k].fsm = f]
      PROVE  obj' \in [Sessions -> SessionRecord] /\ SessionsStay
  <2> DEFINE r == [obj[k] EXCEPT !.fsm = f]
  <2>1. r \in SessionRecord /\ r.bench = obj[k].bench /\ r.live = obj[k].live /\ r.psu = obj[k].psu
    BY <1>1 DEF SessionRecord
  <2>2. obj' = [obj EXCEPT ![k] = r]
    BY <1>4
  <2> HIDE DEF r
  <2> QED BY <1>3, <2>1, <2>2
<1>5. ASSUME NEW m \in BOOLEAN, obj' = [obj EXCEPT ![k].mux = m]
      PROVE  obj' \in [Sessions -> SessionRecord] /\ SessionsStay
  <2> DEFINE r == [obj[k] EXCEPT !.mux = m]
  <2>1. r \in SessionRecord /\ r.bench = obj[k].bench /\ r.live = obj[k].live /\ r.psu = obj[k].psu
    BY <1>1 DEF SessionRecord
  <2>2. obj' = [obj EXCEPT ![k] = r]
    BY <1>5
  <2> HIDE DEF r
  <2> QED BY <1>3, <2>1, <2>2
<1> QED BY <1>2, <1>4, <1>5

\* What a call that is not switching off may do to the supply.
LEMMA PowerExplained ==
  ASSUME TypeOKStation, NEW c \in Callers, call[c].at # "off",
         call[c].ses \in Sessions, B(c) \in Benches,
         \/ UNCHANGED <<on, loose>>
         \/ Supply(c) /\ SwitchedOn(c)
         \/ SwitchedOff(B(c))
  PROVE  on' \in [Benches -> BOOLEAN] /\ OutputsExplained(c)
<1> USE DEF TypeOKStation, OutputsExplained
<1>1. CASE UNCHANGED <<on, loose>>
  BY <1>1
<1>2. CASE Supply(c) /\ SwitchedOn(c)
  BY <1>2 DEF Supply, SwitchedOn, S, B, ses
<1>3. CASE SwitchedOff(B(c))
  BY <1>3 DEF SwitchedOff
<1> QED BY <1>1, <1>2, <1>3

\* A session that a call has looked up is a used one, on one of the benches.
LEMMA HasSession ==
  ASSUME StationInv, NEW c \in Callers, call[c].at \notin {"idle", "open"}
  PROVE  /\ call[c].ses \in Sessions /\ Used(call[c].ses) /\ ses(c) = call[c].ses
         /\ B(c) \in Benches /\ B(c) = obj[call[c].ses].bench
<1>1. call[c].ses \in Sessions /\ Used(call[c].ses)
  BY DEF StationInv, CallKnows
<1> QED BY <1>1 DEF StationInv, TypeOKStation, SessionRecord, Used, S, B, ses

\* A call that comes back to idle from anywhere but connect().
LEMMA ReturnKeeps ==
  ASSUME StationInv, NEW c \in Callers, call[c].at # "register", Returns(c), reg' = reg,
         obj' \in [Sessions -> SessionRecord], SessionsStay,
         on' \in [Benches -> BOOLEAN], OutputsExplained(c)
  PROVE  StationInv'
<1>1. /\ call' \in [Callers -> CallRecord]
      /\ call'[c].at = "idle" /\ call'[c].ses = None
      /\ \A d \in Callers : d # c => call'[d] = call[d]
  BY ReturnsIdle DEF StationInv
<1>2. TypeOKStation'
  BY <1>1 DEF StationInv, TypeOKStation
<1>3. CallKnows(c)'
  BY <1>1 DEF CallKnows, Teardown
<1>4. call'[c].at \notin Teardown
  BY <1>1 DEF Teardown
<1> QED BY <1>1, <1>2, <1>3, <1>4, StepKeeps

LEMMA ToolKeeps ==
  ASSUME StationInv, NEW c \in Callers,
         \/ Observe(c) \/ fsm_energize(c) \/ fsm_power_off(c) \/ FsmBoot(c)
         \/ fsm_mark_dirty(c) \/ psu_output(c) \/ sd_mux_set_mode(c) \/ flash_tezi(c)
  PROVE  StationInv'
<1> USE DEF bench
<1>1. reg' = reg /\ Returns(c)
  BY DEF Observe, fsm_energize, fsm_power_off, FsmBoot, fsm_mark_dirty, psu_output, sd_mux_set_mode,
     flash_tezi
<1>2. call[c].at \in AllTools
  BY DEF Observe, fsm_energize, fsm_power_off, FsmBoot, fsm_mark_dirty, psu_output, sd_mux_set_mode,
     flash_tezi, AllTools
<1>3. call[c].at \notin Control
  BY <1>2, ToolsApart
<1>4. call[c].at \notin {"idle", "open", "register", "off"}
  BY <1>3 DEF Control, Teardown
<1>5. /\ call[c].ses \in Sessions /\ Used(call[c].ses) /\ ses(c) = call[c].ses
      /\ B(c) \in Benches
  BY <1>4, HasSession
<1>6. S(c).fsm \in {"none", "dirty", "off", "up"} /\ S(c) = obj[call[c].ses]
  BY <1>5 DEF S, StationInv, TypeOKStation, SessionRecord
<1>7. \/ \E f \in {"none", "dirty", "off", "up"} : obj' = [obj EXCEPT ![ses(c)].fsm = f]
      \/ \E m \in BOOLEAN : obj' = [obj EXCEPT ![ses(c)].mux = m]
      \/ obj' = obj
  <2>1. CASE fsm_mark_dirty(c)
    <3>1. obj' = [obj EXCEPT ![ses(c)].fsm = IF S(c).fsm = "none" THEN S(c).fsm ELSE "dirty"]
      BY <1>5, <1>6, <2>1 DEF fsm_mark_dirty, StationInv, TypeOKStation
    <3> QED BY <1>6, <3>1
  <2>2. CASE flash_tezi(c)
    BY <1>6, <2>2 DEF flash_tezi
  <2>3. CASE sd_mux_set_mode(c)
    BY <2>3 DEF sd_mux_set_mode
  <2>4. CASE Observe(c) \/ psu_output(c)
    BY <2>4 DEF Observe, psu_output
  <2>5. CASE fsm_energize(c) \/ fsm_power_off(c)
    BY <2>5 DEF fsm_energize, fsm_power_off
  <2>6. CASE FsmBoot(c)
    BY <2>6 DEF FsmBoot
  <2> QED BY <2>1, <2>2, <2>3, <2>4, <2>5, <2>6
<1>8. \/ UNCHANGED <<on, loose>>
      \/ Supply(c) /\ SwitchedOn(c)
      \/ SwitchedOff(B(c))
  BY DEF Observe, fsm_energize, fsm_power_off, FsmBoot, fsm_mark_dirty, psu_output, sd_mux_set_mode,
     flash_tezi
<1>9. obj' \in [Sessions -> SessionRecord] /\ SessionsStay
  BY <1>5, <1>7, SessionSet DEF StationInv
<1>10. on' \in [Benches -> BOOLEAN] /\ OutputsExplained(c)
  BY <1>4, <1>5, <1>8, PowerExplained DEF StationInv
<1> QED BY <1>1, <1>4, <1>9, <1>10, ReturnKeeps

\* get_station and the beginning of connect().
LEMMA BeginKeeps ==
  ASSUME StationInv, NEW c \in Callers, NEW id \in Ids, ConnectCall(c, id) \/ get_station(c, id)
  PROVE  StationInv'
<1> USE DEF bench
<1>1. call[c].at = "idle" /\ UNCHANGED <<reg, obj, on, loose>>
  BY IdleType DEF ConnectCall, get_station
<1>2. SessionsStay /\ OutputsExplained(c)
  BY <1>1 DEF SessionsStay, OutputsExplained
<1>3. CASE ConnectCall(c, id)
  <2>1. /\ call' \in [Callers -> CallRecord]
        /\ call'[c].at = "open" /\ call'[c].ses = None /\ call'[c].id = id
        /\ \A d \in Callers : d # c => call'[d] = call[d]
    BY <1>3, CallBegins DEF ConnectCall, StationInv, Control
  <2>2. TypeOKStation' /\ CallKnows(c)' /\ call'[c].at \notin Teardown
    BY <1>1, <2>1 DEF StationInv, TypeOKStation, CallKnows, Teardown
  <2> QED BY <1>1, <1>2, <2>1, <2>2, StepKeeps
<1>4. CASE get_station(c, id)
  <2>1. reg[id] \in Sessions /\ obj[reg[id]].live
    BY <1>4 DEF get_station, StationInv, TypeOKStation, RegisteredIsLive
  <2>2. Used(reg[id])
    BY <2>1, NoSessionType DEF StationInv, Numbered
  <2>3. PICK a \in Tools : call' = [call EXCEPT ![c] = [at |-> a, id |-> id, ses |-> reg[id]]]
    BY <1>4 DEF get_station
  <2>4. a \in AllTools /\ a \notin Control
    BY ToolsApart
  <2>5. /\ call' \in [Callers -> CallRecord]
        /\ call'[c].at = a /\ call'[c].ses = reg[id]
        /\ \A d \in Callers : d # c => call'[d] = call[d]
    BY <2>1, <2>3, <2>4, CallBegins DEF StationInv
  <2>6. TypeOKStation'
    BY <1>1, <2>5 DEF StationInv, TypeOKStation
  <2>7. CallKnows(c)' /\ call'[c].at \notin Teardown /\ call'[c].at # "register"
    BY <1>1, <2>1, <2>2, <2>4, <2>5 DEF CallKnows, Control, Teardown, Used
  <2> QED BY <1>1, <1>2, <2>5, <2>6, <2>7, StepKeeps
<1> QED BY <1>3, <1>4
-----------------------------------------------------------------------------
(* disconnect                                                               *)

\* A call in its teardown goes on; its session is not live and nobody else's.
LEMMA TeardownGoes ==
  ASSUME StationInv, NEW c \in Callers, call[c].at \in Teardown, NEW step \in Teardown, Goes(c, step)
  PROVE  /\ call' \in [Callers -> CallRecord]
         /\ call'[c].at = step /\ call'[c].ses = call[c].ses
         /\ \A d \in Callers : d # c => call'[d] = call[d]
         /\ call[c].ses \in Sessions /\ Used(call[c].ses) /\ ~obj[call[c].ses].live
         /\ ses(c) = call[c].ses /\ B(c) \in Benches /\ B(c) = obj[call[c].ses].bench
<1>1. step \in Control /\ call[c].at \notin {"idle", "open"}
  BY DEF Control, Teardown
<1>2. ~obj[call[c].ses].live
  BY DEF StationInv, CallKnows
<1> QED BY <1>1, <1>2, GoesOn, HasSession DEF StationInv

LEMMA TeardownOffKeeps ==
  ASSUME StationInv, NEW c \in Callers, TeardownOff(c) \/ TeardownMux(c) \/ TeardownLinks(c)
  PROVE  StationInv'
<1> USE DEF bench
<1>1. reg' = reg /\ obj' = obj
  BY DEF TeardownOff, TeardownMux, TeardownLinks
<1>2. SessionsStay /\ obj' \in [Sessions -> SessionRecord]
  BY <1>1 DEF SessionsStay, StationInv, TypeOKStation
<1>3. CASE TeardownLinks(c)
  <2>1. call[c].at = "links" /\ Returns(c) /\ UNCHANGED <<on, loose>>
    BY <1>3 DEF TeardownLinks
  <2>2. on' \in [Benches -> BOOLEAN] /\ OutputsExplained(c)
    BY <2>1 DEF OutputsExplained, StationInv, TypeOKStation
  <2> QED BY <1>1, <1>2, <2>1, <2>2, ReturnKeeps
<1>4. CASE TeardownOff(c) \/ TeardownMux(c)
  <2>1. /\ call[c].at \in Teardown
        /\ \E step \in Teardown : Goes(c, step)
    BY <1>4 DEF TeardownOff, TeardownMux, Teardown
  <2>2. PICK step \in Teardown : Goes(c, step)
    BY <2>1
  <2>3. /\ call' \in [Callers -> CallRecord]
        /\ call'[c].at = step /\ call'[c].ses = call[c].ses
        /\ \A d \in Callers : d # c => call'[d] = call[d]
        /\ call[c].ses \in Sessions /\ Used(call[c].ses) /\ ~obj[call[c].ses].live
        /\ B(c) \in Benches /\ B(c) = obj[call[c].ses].bench
    BY <2>1, <2>2, TeardownGoes
  <2>4. on' \in [Benches -> BOOLEAN] /\ OutputsExplained(c)
    <3>1. CASE TeardownMux(c)
      BY <3>1 DEF TeardownMux, OutputsExplained, StationInv, TypeOKStation
    <3>2. CASE TeardownOff(c)
      <4>1. CASE SwitchedOff(B(c))
        BY <2>3, <4>1 DEF SwitchedOff, OutputsExplained, StationInv, TypeOKStation
      <4>2. CASE loose' = loose \cup {B(c)} /\ UNCHANGED on
        BY <2>3, <4>2 DEF OutputsExplained, StationInv, TypeOKStation
      <4>3. CASE S(c).psu # "open" /\ UNCHANGED <<on, loose>>
        BY <2>3, <4>3 DEF OutputsExplained, StationInv, TypeOKStation, S, ses
      <4> QED BY <3>2, <4>1, <4>2, <4>3 DEF TeardownOff
    <3> QED BY <1>4, <3>1, <3>2
  <2>5. TypeOKStation'
    BY <1>1, <2>3, <2>4 DEF StationInv, TypeOKStation
  <2>6. CallKnows(c)' /\ call[c].at # "register" /\ call'[c].at # "register"
    BY <1>1, <2>1, <2>3 DEF CallKnows, Teardown, Used
  <2> QED BY <1>1, <1>2, <2>1, <2>3, <2>4, <2>5, <2>6, StepKeeps
<1> QED BY <1>3, <1>4

\* A session loses its supply or its life; which sessions are used does not
\* change.  Only the call that does this, and calls in their teardown, can care.
LEMMA SessionChanged ==
  ASSUME TypeOKStation, Numbered, NEW k \in Sessions, Used(k), NEW r \in SessionRecord,
         r.bench = obj[k].bench, obj' = [obj EXCEPT ![k] = r]
  PROVE  /\ obj' \in [Sessions -> SessionRecord] /\ obj'[k] = r
         /\ \A j \in Sessions : (Used(j)' <=> Used(j)) /\ (j # k => obj'[j] = obj[j])
         /\ Numbered'
<1>1. obj' \in [Sessions -> SessionRecord] /\ obj'[k] = r /\ \A j \in Sessions : j # k => obj'[j] = obj[j]
  BY DEF TypeOKStation
<1>2. \A j \in Sessions : Used(j)' <=> Used(j)
  BY <1>1 DEF Used
<1>3. \A j \in Sessions : ~Used(j)' => obj'[j] = NoSession
  BY <1>1, <1>2 DEF Numbered
<1>4. \E m \in 0 .. MaxSessions : \A j \in Sessions : Used(j)' <=> j <= m
  BY <1>2 DEF Numbered
<1> QED BY <1>1, <1>2, <1>3, <1>4 DEF Numbered, NoSession

\* The entry is taken out of the registry before anything is torn down.
LEMMA DisconnectKeeps ==
  ASSUME StationInv, NEW c \in Callers, NEW id \in Ids, DisconnectCall(c, id)
  PROVE  StationInv'
<1> USE DEF bench
<1> DEFINE k == reg[id]
           r == [obj[k] EXCEPT !.live = FALSE]
<1>1. /\ call[c].at = "idle" /\ call[c].ses = None /\ k \in Sessions /\ k # None
      /\ obj[k].live /\ obj[k].psu # "closed"
      /\ UNCHANGED <<on, loose>> /\ reg' = [reg EXCEPT ![id] = None]
      /\ \A i \in Ids : i # id => reg[i] # k
  BY IdleType DEF DisconnectCall, StationInv, TypeOKStation, RegisteredIsLive
<1>2. Used(k)
  BY <1>1, NoSessionType DEF StationInv, Numbered
<1>3. r \in SessionRecord /\ r.bench = obj[k].bench /\ r.psu = obj[k].psu /\ ~r.live
  BY <1>1 DEF StationInv, TypeOKStation, SessionRecord
<1>4. obj' = [obj EXCEPT ![k] = r]
  BY DEF DisconnectCall
<1>5. /\ call' \in [Callers -> CallRecord]
      /\ call'[c].at = "off" /\ call'[c].ses = k
      /\ \A d \in Callers : d # c => call'[d] = call[d]
  BY <1>1, CallBegins DEF DisconnectCall, StationInv, Control, Teardown
<1> HIDE DEF k, r
<1>6. /\ obj' \in [Sessions -> SessionRecord] /\ obj'[k] = r
      /\ \A j \in Sessions : (Used(j)' <=> Used(j)) /\ (j # k => obj'[j] = obj[j])
      /\ Numbered'
  BY <1>1, <1>2, <1>3, <1>4, SessionChanged DEF StationInv
<1>7. reg' \in [Ids -> Sessions \cup {None}] /\ reg'[id] = None /\ \A i \in Ids : i # id => reg'[i] = reg[i]
  BY <1>1 DEF StationInv, TypeOKStation
<1>8. TypeOKStation'
  BY <1>1, <1>5, <1>6, <1>7 DEF StationInv, TypeOKStation
<1>9. \A d \in Callers : call[d].at = "register" => call[d].ses \in Sessions /\ call[d].ses # k
  BY DEF StationInv, CallKnows, k
<1>10. \A d \in Callers : call[d].at \in Teardown => call[d].ses \in Sessions /\ call[d].ses # k
  BY <1>1 DEF StationInv, CallKnows, Teardown
<1>11. ASSUME NEW d \in Callers PROVE CallKnows(d)'
  <2>1. CASE d = c
    BY <1>2, <1>1, <1>3, <1>5, <1>6, <2>1 DEF CallKnows, Teardown
  <2>2. CASE d # c
    <3>1. call'[d] = call[d] /\ CallKnows(d)
      BY <1>5, <2>2 DEF StationInv
    <3>2. CASE call[d].at \in {"idle", "open"}
      BY <3>1, <3>2 DEF CallKnows, Teardown
    <3>3. CASE call[d].at = "register"
      <4>1. call[d].ses \in Sessions /\ call[d].ses # k /\ obj'[call[d].ses] = obj[call[d].ses]
        BY <1>6, <1>9, <3>3
      <4>2. \A e \in Callers \ {d} : call'[e].ses # call[d].ses
        BY <1>5, <3>1, <3>3, <4>1 DEF CallKnows
      <4>3. \A i \in Ids : reg'[i] # call[d].ses
        BY <1>7, <3>1, <3>3, <4>1, NoneApart DEF CallKnows
      <4> QED BY <1>6, <3>1, <3>3, <4>1, <4>2, <4>3 DEF CallKnows, Teardown
    <3>4. CASE call[d].at \notin {"idle", "open", "register"}
      <4>1. call[d].ses \in Sessions /\ Used(call[d].ses) /\ Used(call[d].ses)'
        BY <1>6, <3>1, <3>4 DEF CallKnows
      <4>2. call[d].at \in Teardown => ~obj'[call[d].ses].live
        BY <1>6, <1>10, <3>1 DEF CallKnows
      <4> QED BY <3>1, <3>4, <4>1, <4>2 DEF CallKnows
    <3> QED BY <3>2, <3>3, <3>4
  <2> QED BY <2>1, <2>2
<1>12. OneTeardown'
  BY <1>5, <1>10 DEF StationInv, OneTeardown
<1>13. LiveIsKnown'
  BY <1>1, <1>3, <1>5, <1>6, <1>7 DEF StationInv, LiveIsKnown, k
<1>14. RegisteredIsLive'
  <2>1. \A i \in Ids : reg'[i] # None => i # id /\ reg'[i] = reg[i] /\ reg[i] \in Sessions /\ reg[i] # k
    BY <1>1, <1>7, <1>8 DEF TypeOKStation
  <2> QED BY <1>6, <2>1 DEF StationInv, RegisteredIsLive
<1>15. Owned'
  <2> SUFFICES ASSUME NEW b \in Benches, on'[b], b \notin loose'
               PROVE  \E j \in Sessions : Owns(j, b)'
    BY DEF Owned
  <2>1. PICK j \in Sessions : Owns(j, b)
    BY <1>1 DEF StationInv, Owned
  <2>2. CASE j = k
    BY <1>3, <1>5, <1>6, <2>1, <2>2 DEF Owns
  <2>3. CASE j # k
    BY <1>1, <1>5, <1>6, <2>1, <2>3 DEF Owns
  <2> QED BY <2>2, <2>3
<1> QED BY <1>6, <1>8, <1>11, <1>12, <1>13, <1>14, <1>15 DEF StationInv

\* close() touches a session that is neither registered nor torn down by another.
LEMMA CloseKeeps ==
  ASSUME StationInv, NEW c \in Callers, TeardownClose(c)
  PROVE  StationInv'
<1> DEFINE k == call[c].ses
           r == [obj[k] EXCEPT !.psu = "closed"]
<1>1. call[c].at = "close" /\ Goes(c, "mux") /\ reg' = reg
  BY DEF TeardownClose
<1>2. /\ call' \in [Callers -> CallRecord]
      /\ call'[c].at = "mux" /\ call'[c].ses = k
      /\ \A d \in Callers : d # c => call'[d] = call[d]
      /\ k \in Sessions /\ Used(k) /\ ~obj[k].live
      /\ ses(c) = k /\ B(c) \in Benches /\ B(c) = obj[k].bench
  BY <1>1, TeardownGoes DEF Teardown
<1>3. r \in SessionRecord /\ r.bench = obj[k].bench /\ ~r.live
  BY <1>2 DEF StationInv, TypeOKStation, SessionRecord
<1>4. \/ obj' = [obj EXCEPT ![k] = r]
      \/ obj' = obj
  BY <1>2 DEF TeardownClose
<1> HIDE DEF k, r
<1>5. /\ obj' \in [Sessions -> SessionRecord] /\ obj'[k].bench = obj[k].bench /\ ~obj'[k].live
      /\ \A j \in Sessions : (Used(j)' <=> Used(j)) /\ (j # k => obj'[j] = obj[j])
      /\ Numbered'
  <2>1. CASE obj' = [obj EXCEPT ![k] = r]
    BY <1>2, <1>3, <2>1, SessionChanged DEF StationInv
  <2>2. CASE obj' = obj
    BY <1>2, <2>2 DEF StationInv, TypeOKStation, Numbered, Used, NoSession
  <2> QED BY <1>4, <2>1, <2>2
<1>6. on' \in [Benches -> BOOLEAN] /\ \A b \in Benches : on'[b] => b \in loose' \/ (on[b] /\ b \notin loose)
  <2>1. CASE SwitchedOff(B(c))
    BY <1>2, <2>1 DEF SwitchedOff, StationInv, TypeOKStation
  <2>2. CASE UNCHANGED on /\ loose \subseteq loose'
    BY <2>2 DEF StationInv, TypeOKStation
  <2> QED BY <2>1, <2>2 DEF TeardownClose
<1>7. TypeOKStation'
  BY <1>1, <1>2, <1>5, <1>6 DEF StationInv, TypeOKStation
<1>8. \A i \in Ids : reg[i] # k
  BY <1>2, NoneApart DEF StationInv, RegisteredIsLive
<1>9. \A d \in Callers : d # c => ~(call[d].at \in Teardown \cup {"register"} /\ call[d].ses = k)
  BY <1>1, <1>2 DEF StationInv, OneTeardown, CallKnows, Teardown, k
<1>10. ASSUME NEW d \in Callers PROVE CallKnows(d)'
  <2>1. CASE d = c
    BY <1>2, <1>5, <2>1 DEF CallKnows, Teardown
  <2>2. CASE d # c
    <3>1. call'[d] = call[d] /\ CallKnows(d)
      BY <1>2, <2>2 DEF StationInv
    <3>2. CASE call[d].at \in {"idle", "open"}
      BY <3>1, <3>2 DEF CallKnows, Teardown
    <3>3. CASE call[d].at \notin {"idle", "open"}
      <4>1. call[d].ses \in Sessions /\ Used(call[d].ses)'
        BY <1>5, <3>1, <3>3 DEF CallKnows
      <4>2. call[d].at \in Teardown \cup {"register"} => obj'[call[d].ses] = obj[call[d].ses]
        BY <1>5, <1>9, <2>2, <4>1
      <4>3. call[d].at = "register" => \A e \in Callers \ {d} : call'[e].ses # call[d].ses
        BY <1>2, <3>1 DEF CallKnows, k
      <4> QED BY <1>1, <3>1, <3>3, <4>1, <4>2, <4>3 DEF CallKnows
    <3> QED BY <3>2, <3>3
  <2> QED BY <2>1, <2>2
<1>11. OneTeardown'
  BY <1>1, <1>2 DEF StationInv, OneTeardown, Teardown, k
<1>12. LiveIsKnown'
  BY <1>1, <1>2, <1>5 DEF StationInv, LiveIsKnown
<1>13. RegisteredIsLive'
  BY <1>1, <1>5, <1>7, <1>8 DEF StationInv, RegisteredIsLive, TypeOKStation
<1>14. Owned'
  <2> SUFFICES ASSUME NEW b \in Benches, on'[b], b \notin loose'
               PROVE  \E j \in Sessions : Owns(j, b)'
    BY DEF Owned
  <2>1. PICK j \in Sessions : Owns(j, b)
    BY <1>6 DEF StationInv, Owned
  <2>2. j # k
    BY <1>1, <1>2, <1>9, <2>1 DEF Owns, Teardown
  <2> QED BY <1>1, <1>2, <1>5, <2>1, <2>2 DEF Owns
<1> QED BY <1>5, <1>7, <1>10, <1>11, <1>12, <1>13, <1>14 DEF StationInv

LEMMA DisconnectStepKeeps ==
  ASSUME StationInv, NEW c \in Callers, Disconnect(c)
  PROVE  StationInv'
  BY DisconnectKeeps, TeardownOffKeeps, CloseKeeps DEF Disconnect
-----------------------------------------------------------------------------
(* connect                                                                  *)

\* The number of the next session is one that no session has yet.
LEMMA NextNumber ==
  ASSUME Numbered, NEW k \in Sessions, k = Cardinality({j \in Sessions : obj[j] # NoSession}) + 1
  PROVE  ~Used(k) /\ \A j \in Sessions : Used(j) <=> j <= k - 1
<1>1. PICK m \in 0 .. MaxSessions : \A j \in Sessions : Used(j) <=> j <= m
  BY DEF Numbered
<1>2. \A j \in Sessions : obj[j] # NoSession <=> Used(j)
  BY NoSessionType DEF Numbered, Used
<1>3. {j \in Sessions : obj[j] # NoSession} = 1 .. m
  BY <1>1, <1>2, StationAssumption DEF Sessions
<1>4. Cardinality(1 .. m) = m /\ m \in Nat
  BY <1>1, FS_Interval, StationAssumption
<1>5. k = m + 1
  BY <1>3, <1>4
<1>6. k - 1 = m /\ ~(k <= m)
  BY <1>4, <1>5
<1>7. ~Used(k)
  BY <1>1, <1>6
<1> QED BY <1>1, <1>6, <1>7

LEMMA OpenKeeps ==
  ASSUME StationInv, NEW c \in Callers, OpenHardware(c)
  PROVE  StationInv'
<1>1. call[c].at = "open" /\ call[c].ses = None /\ call[c].id \in Ids /\ reg' = reg
  BY DEF OpenHardware, StationInv, CallKnows
<1>2. CASE Returns(c) /\ UNCHANGED <<obj, on, loose>>
  <2>1. obj' \in [Sessions -> SessionRecord] /\ SessionsStay /\ on' \in [Benches -> BOOLEAN]
    BY <1>2 DEF SessionsStay, StationInv, TypeOKStation
  <2>2. OutputsExplained(c)
    BY <1>1, <1>2 DEF OutputsExplained
  <2> QED BY <1>1, <1>2, <2>1, <2>2, ReturnKeeps
<1>3. CASE ~(Returns(c) /\ UNCHANGED <<obj, on, loose>>)
  <2>1. PICK k \in Sessions, b \in Benches, psu \in {"none", "open"} :
             /\ k = Cardinality({j \in Sessions : obj[j] # NoSession}) + 1
             /\ _init_psu(b, psu)
             /\ obj' = [obj EXCEPT ![k] = [NoSession EXCEPT !.bench = b, !.psu = psu, !.live = TRUE]]
             /\ call' = [call EXCEPT ![c].at = "register", ![c].ses = k]
    BY <1>3 DEF OpenHardware
  <2> DEFINE r == [NoSession EXCEPT !.bench = b, !.psu = psu, !.live = TRUE]
             q == [call[c] EXCEPT !.at = "register", !.ses = k]
  <2>2. r \in SessionRecord /\ r.bench = b /\ r.psu = psu /\ r.live
    BY DEF NoSession, SessionRecord
  <2>3. q \in CallRecord /\ q.at = "register" /\ q.ses = k /\ q.id = call[c].id
    BY DEF StationInv, TypeOKStation, CallRecord, Control
  <2>4. call' = [call EXCEPT ![c] = q] /\ obj' = [obj EXCEPT ![k] = r]
    BY <2>1 DEF StationInv, TypeOKStation
  <2> HIDE DEF q, r
  <2>5. /\ call' \in [Callers -> CallRecord]
        /\ call'[c].at = "register" /\ call'[c].ses = k /\ call'[c].id \in Ids
        /\ \A d \in Callers : d # c => call'[d] = call[d]
    BY <1>1, <2>3, <2>4 DEF StationInv, TypeOKStation
  <2>6. obj' \in [Sessions -> SessionRecord] /\ obj'[k] = r /\ \A j \in Sessions : j # k => obj'[j] = obj[j]
    BY <2>2, <2>4 DEF StationInv, TypeOKStation
  <2>7. ~Used(k) /\ \A j \in Sessions : Used(j) <=> j <= k - 1
    BY <2>1, NextNumber DEF StationInv
  <2>8. obj[k] = NoSession
    BY <2>7 DEF StationInv, Numbered
  <2>9. Used(k)' /\ \A j \in Sessions : j # k => (Used(j)' <=> Used(j))
    BY <2>2, <2>6, StationAssumption DEF Used
  <2>10. Numbered'
    <3>1. \A j \in Sessions : Used(j)' <=> j <= k
      BY <2>7, <2>9 DEF Sessions
    <3>2. k \in 0 .. MaxSessions
      BY DEF Sessions
    <3>3. \A j \in Sessions : ~Used(j)' => obj'[j] = NoSession
      BY <2>6, <2>9 DEF StationInv, Numbered
    <3> QED BY <3>1, <3>2, <3>3 DEF Numbered, NoSession
  <2>11. on' \in [Benches -> BOOLEAN] /\ \A a \in Benches : on'[a] => on[a] /\ (a \in loose => a \in loose')
    <3>1. CASE SwitchedOff(b)
      BY <3>1 DEF SwitchedOff, StationInv, TypeOKStation
    <3>2. CASE UNCHANGED <<on, loose>>
      BY <3>2 DEF StationInv, TypeOKStation
    <3> QED BY <2>1, <3>1, <3>2 DEF _init_psu
  <2>12. TypeOKStation'
    BY <1>1, <2>5, <2>6, <2>11 DEF StationInv, TypeOKStation
  <2>13. /\ \A i \in Ids : reg[i] # k
         /\ \A d \in Callers : call[d].ses # k
    <3>1. \A i \in Ids : reg[i] # k
      BY <2>8, NoneApart, NoSessionType DEF StationInv, RegisteredIsLive
    <3>2. \A d \in Callers : call[d].ses # k
      BY <2>7, NoneApart DEF StationInv, CallKnows
    <3> QED BY <3>1, <3>2
  <2>14. ASSUME NEW d \in Callers PROVE CallKnows(d)'
    <3>1. CASE d = c
      BY <1>1, <2>2, <2>5, <2>6, <2>9, <2>13, <3>1 DEF CallKnows, Teardown
    <3>2. CASE d # c
      <4>1. call'[d] = call[d] /\ CallKnows(d) /\ call[d].ses # k
        BY <2>5, <2>13, <3>2 DEF StationInv
      <4>2. CASE call[d].at \in {"idle", "open"}
        BY <4>1, <4>2 DEF CallKnows, Teardown
      <4>3. CASE call[d].at \notin {"idle", "open"}
        <5>1. call[d].ses \in Sessions /\ Used(call[d].ses)' /\ obj'[call[d].ses] = obj[call[d].ses]
          BY <2>6, <2>9, <4>1, <4>3 DEF CallKnows
        <5>2. call[d].at = "register" => \A e \in Callers \ {d} : call'[e].ses # call[d].ses
          BY <2>5, <4>1 DEF CallKnows
        <5> QED BY <1>1, <4>1, <4>3, <5>1, <5>2 DEF CallKnows
      <4> QED BY <4>2, <4>3
    <3> QED BY <3>1, <3>2
  <2>15. OneTeardown'
    BY <2>5 DEF StationInv, OneTeardown, Teardown
  <2>16. LiveIsKnown'
    <3> SUFFICES ASSUME NEW j \in Sessions, obj'[j].live
                 PROVE  \/ \E i \in Ids : reg[i] = j
                        \/ \E d \in Callers : call'[d].at = "register" /\ call'[d].ses = j
      BY <1>1 DEF LiveIsKnown
    <3>1. CASE j = k
      BY <2>5, <3>1
    <3>2. CASE j # k
      BY <1>1, <2>5, <2>6, <3>2 DEF StationInv, LiveIsKnown
    <3> QED BY <3>1, <3>2
  <2>17. RegisteredIsLive'
    BY <1>1, <2>6, <2>12, <2>13 DEF StationInv, RegisteredIsLive, TypeOKStation
  <2>18. Owned'
    <3> SUFFICES ASSUME NEW a \in Benches, on'[a], a \notin loose'
                 PROVE  \E j \in Sessions : Owns(j, a)'
      BY DEF Owned
    <3>1. PICK j \in Sessions : Owns(j, a)
      BY <2>11 DEF StationInv, Owned
    <3>2. j # k
      BY <2>8, <3>1, NoSessionType DEF Owns
    <3> QED BY <1>1, <2>5, <2>6, <3>1, <3>2 DEF Owns
  <2> QED BY <2>10, <2>12, <2>14, <2>15, <2>16, <2>17, <2>18 DEF StationInv
<1> QED BY <1>2, <1>3

\* What raises in connect() before the entry is made loses the session.
LEMMA RaisesKeeps ==
  ASSUME StationInv, NEW c \in Callers, ConnectRaises(c)
  PROVE  StationInv'
<1> DEFINE k == call[c].ses
           r == [obj[k] EXCEPT !.live = FALSE]
<1>1. call[c].at = "register" /\ Returns(c) /\ reg' = reg /\ on' = on
  BY DEF ConnectRaises
<1>2. /\ k \in Sessions /\ Used(k) /\ ses(c) = k /\ B(c) \in Benches /\ B(c) = obj[k].bench
      /\ obj' = [obj EXCEPT ![k] = r] /\ loose' = loose \cup {obj[k].bench}
  BY <1>1, HasSession DEF ConnectRaises
<1>3. r \in SessionRecord /\ r.bench = obj[k].bench /\ ~r.live
  BY <1>2 DEF StationInv, TypeOKStation, SessionRecord
<1>4. \A i \in Ids : reg[i] # k
  BY <1>1 DEF StationInv, CallKnows
<1>5. \A d \in Callers : d # c => call[d].ses # k
  BY <1>1 DEF StationInv, CallKnows
<1> HIDE DEF k, r
<1>6. /\ call' \in [Callers -> CallRecord]
      /\ call'[c].at = "idle" /\ call'[c].ses = None
      /\ \A d \in Callers : d # c => call'[d] = call[d]
  BY <1>1, ReturnsIdle DEF StationInv
<1>7. /\ obj' \in [Sessions -> SessionRecord] /\ obj'[k] = r
      /\ \A j \in Sessions : (Used(j)' <=> Used(j)) /\ (j # k => obj'[j] = obj[j])
      /\ Numbered'
  BY <1>2, <1>3, SessionChanged DEF StationInv
<1>8. TypeOKStation'
  BY <1>1, <1>6, <1>7 DEF StationInv, TypeOKStation
<1>9. ASSUME NEW d \in Callers PROVE CallKnows(d)'
  <2>1. CASE d = c
    BY <1>6, <2>1 DEF CallKnows, Teardown
  <2>2. CASE d # c
    <3>1. call'[d] = call[d] /\ CallKnows(d) /\ call[d].ses # k
      BY <1>5, <1>6, <2>2 DEF StationInv
    <3>2. CASE call[d].at \in {"idle", "open"}
      BY <3>1, <3>2 DEF CallKnows, Teardown
    <3>3. CASE call[d].at \notin {"idle", "open"}
      <4>1. call[d].ses \in Sessions /\ Used(call[d].ses)' /\ obj'[call[d].ses] = obj[call[d].ses]
        BY <1>7, <3>1, <3>3 DEF CallKnows
      <4>2. call[d].at = "register" => \A e \in Callers \ {d} : call'[e].ses # call[d].ses
        BY <1>6, <3>1, <4>1, NoneApart DEF CallKnows
      <4> QED BY <1>1, <3>1, <3>3, <4>1, <4>2 DEF CallKnows
    <3> QED BY <3>2, <3>3
  <2> QED BY <2>1, <2>2
<1>10. OneTeardown'
  BY <1>6 DEF StationInv, OneTeardown, Teardown
<1>11. LiveIsKnown'
  BY <1>1, <1>3, <1>6, <1>7 DEF StationInv, LiveIsKnown, k
<1>12. RegisteredIsLive'
  BY <1>1, <1>4, <1>7, <1>8 DEF StationInv, RegisteredIsLive, TypeOKStation
<1>13. Owned'
  <2> SUFFICES ASSUME NEW b \in Benches, on'[b], b \notin loose'
               PROVE  \E j \in Sessions : Owns(j, b)'
    BY DEF Owned
  <2>1. PICK j \in Sessions : Owns(j, b)
    BY <1>1, <1>2 DEF StationInv, Owned
  <2>2. j # k
    BY <1>2, <2>1 DEF Owns
  <2> QED BY <1>1, <1>6, <1>7, <2>1, <2>2 DEF Owns
<1> QED BY <1>7, <1>8, <1>9, <1>10, <1>11, <1>12, <1>13 DEF StationInv

\* The entry that connect() makes may push out the session of another connect():
\* that one is registered no more, and its bench is left loose.
LEMMA RegisterKeeps ==
  ASSUME StationInv, NEW c \in Callers, Register(c)
  PROVE  StationInv'
<1> DEFINE k == call[c].ses
           id == call[c].id
<1>1. call[c].at = "register" /\ Returns(c) /\ on' = on
  BY DEF Register
<1>2. /\ k \in Sessions /\ Used(k) /\ ses(c) = k /\ id \in Ids /\ k # None
      /\ obj[k].live /\ obj[k].psu # "closed"
      /\ \A i \in Ids : reg[i] # k
      /\ \A d \in Callers : d # c => call[d].ses # k
  BY <1>1, HasSession, NoneApart DEF StationInv, CallKnows
<1>3. PICK f \in {"none", "dirty"}, m \in BOOLEAN :
        obj' = [j \in Sessions |->
                  IF j = ses(c) THEN [obj[j] EXCEPT !.fsm = f, !.mux = m]
                  ELSE [obj[j] EXCEPT !.live = @ /\ j \notin PushedOut(call[c].id)]]
  BY Zenon DEF Register
<1>4. reg' = [reg EXCEPT ![id] = k] /\ loose' = loose \cup {obj[j].bench : j \in PushedOut(id)}
  BY <1>2 DEF Register
<1> HIDE DEF k, id
<1>5. /\ call' \in [Callers -> CallRecord]
      /\ call'[c].at = "idle" /\ call'[c].ses = None
      /\ \A d \in Callers : d # c => call'[d] = call[d]
  BY <1>1, ReturnsIdle DEF StationInv
<1>6. reg' \in [Ids -> Sessions \cup {None}] /\ reg'[id] = k /\ \A i \in Ids : i # id => reg'[i] = reg[i]
  BY <1>2, <1>4 DEF StationInv, TypeOKStation
<1>7. /\ obj'[k] \in SessionRecord /\ obj'[k].bench = obj[k].bench
      /\ obj'[k].live /\ obj'[k].psu = obj[k].psu
  <2>1. obj'[k] = [obj[k] EXCEPT !.fsm = f, !.mux = m] /\ obj[k] \in SessionRecord
    BY <1>2, <1>3, Zenon DEF StationInv, TypeOKStation
  <2> QED BY <1>2, <2>1 DEF SessionRecord
<1>8. ASSUME NEW j \in Sessions, j # k
      PROVE  /\ obj'[j] \in SessionRecord /\ obj'[j].bench = obj[j].bench /\ obj'[j].psu = obj[j].psu
             /\ obj'[j].live <=> obj[j].live /\ reg[id] # j
             /\ reg[id] # j => obj'[j] = obj[j]
  <2>1. obj'[j] = [obj[j] EXCEPT !.live = obj[j].live /\ j \notin PushedOut(id)] /\ obj[j] \in SessionRecord
    BY <1>2, <1>3, <1>8, Zenon DEF StationInv, TypeOKStation, id
  <2>2. j \in PushedOut(id) <=> reg[id] = j
    BY DEF PushedOut
  <2> DEFINE l == obj[j].live /\ j \notin PushedOut(id)
  <2>3. obj[j].live \in BOOLEAN /\ l \in BOOLEAN
    BY <2>1 DEF SessionRecord
  <2>4. obj'[j] = [obj[j] EXCEPT !.live = l]
    BY <2>1
  <2>5. l <=> obj[j].live /\ reg[id] # j
    BY <2>2
  <2>6. reg[id] # j => l = obj[j].live
    BY <2>3, <2>5
  <2> HIDE DEF l
  <2>7. obj'[j] \in SessionRecord /\ obj'[j].bench = obj[j].bench /\ obj'[j].psu = obj[j].psu /\ obj'[j].live = l
    BY <2>1, <2>3, <2>4 DEF SessionRecord
  <2>8. reg[id] # j => obj'[j] = obj[j]
    BY <2>1, <2>4, <2>6 DEF SessionRecord
  <2> QED BY <2>5, <2>7, <2>8
<1>9. obj' \in [Sessions -> SessionRecord]
  <2>1. \A j \in Sessions : obj'[j] \in SessionRecord
    BY <1>7, <1>8
  <2> QED BY <1>3, <2>1
<1>10. TypeOKStation'
  BY <1>1, <1>5, <1>6, <1>9 DEF StationInv, TypeOKStation
<1>11. \A j \in Sessions : Used(j)' <=> Used(j)
  BY <1>7, <1>8 DEF Used
<1>12. Numbered'
  <2>1. \A j \in Sessions : ~Used(j)' => obj'[j] = NoSession
    <3> SUFFICES ASSUME NEW j \in Sessions, ~Used(j) PROVE obj'[j] = NoSession
      BY <1>11
    <3>1. obj[j] = NoSession /\ j # k
      BY <1>2 DEF StationInv, Numbered
    <3>2. reg[id] # j
      BY <1>2, <3>1, NoneApart, NoSessionType DEF StationInv, RegisteredIsLive
    <3> QED BY <1>8, <3>1, <3>2
  <2>2. \E n \in 0 .. MaxSessions : \A j \in Sessions : Used(j)' <=> j <= n
    BY <1>11 DEF StationInv, Numbered
  <2> QED BY <2>1, <2>2 DEF Numbered, NoSession
<1>13. ASSUME NEW d \in Callers PROVE CallKnows(d)'
  <2>1. CASE d = c
    BY <1>5, <2>1 DEF CallKnows, Teardown
  <2>2. CASE d # c
    <3>1. call'[d] = call[d] /\ CallKnows(d) /\ call[d].ses # k
      BY <1>2, <1>5, <2>2 DEF StationInv
    <3>2. CASE call[d].at \in {"idle", "open"}
      BY <3>1, <3>2 DEF CallKnows, Teardown
    <3>3. CASE call[d].at = "register"
      <4>1. call[d].ses \in Sessions /\ Used(call[d].ses)' /\ \A i \in Ids : reg[i] # call[d].ses
        BY <1>11, <3>1, <3>3 DEF CallKnows
      <4>2. obj'[call[d].ses] = obj[call[d].ses]
        BY <1>2, <1>8, <3>1, <4>1
      <4>3. \A e \in Callers \ {d} : call'[e].ses # call[d].ses
        BY <1>5, <3>1, <3>3, <4>1, NoneApart DEF CallKnows
      <4>4. \A i \in Ids : reg'[i] # call[d].ses
        BY <1>6, <3>1, <4>1
      <4> QED BY <3>1, <3>3, <4>1, <4>2, <4>3, <4>4 DEF CallKnows, Teardown
    <3>4. CASE call[d].at \notin {"idle", "open", "register"}
      <4>1. call[d].ses \in Sessions /\ Used(call[d].ses)'
        BY <1>11, <3>1, <3>4 DEF CallKnows
      <4>2. call[d].at \in Teardown => ~obj'[call[d].ses].live
        BY <1>8, <3>1, <4>1 DEF CallKnows
      <4> QED BY <3>1, <3>4, <4>1, <4>2 DEF CallKnows
    <3> QED BY <3>2, <3>3, <3>4
  <2> QED BY <2>1, <2>2
<1>14. OneTeardown'
  BY <1>5 DEF StationInv, OneTeardown, Teardown
<1>15. LiveIsKnown'
  <2> SUFFICES ASSUME NEW j \in Sessions, obj'[j].live
               PROVE  \/ \E i \in Ids : reg'[i] = j
                      \/ \E d \in Callers : call'[d].at = "register" /\ call'[d].ses = j
    BY DEF LiveIsKnown
  <2>1. CASE j = k
    BY <1>2, <1>6, <2>1
  <2>2. CASE j # k
    <3>1. obj[j].live /\ reg[id] # j
      BY <1>8, <2>2
    <3>2. CASE \E i \in Ids : reg[i] = j
      BY <1>6, <3>1, <3>2
    <3>3. CASE \E d \in Callers : call[d].at = "register" /\ call[d].ses = j
      BY <1>5, <2>2, <3>3 DEF k
    <3> QED BY <3>1, <3>2, <3>3 DEF StationInv, LiveIsKnown
  <2> QED BY <2>1, <2>2
<1>16. RegisteredIsLive'
  <2> SUFFICES ASSUME NEW i \in Ids, reg'[i] # None
               PROVE  /\ obj'[reg'[i]].live /\ obj'[reg'[i]].psu # "closed"
                      /\ \A j \in Ids \ {i} : reg'[j] # reg'[i]
    BY DEF RegisteredIsLive
  <2>1. CASE i = id
    BY <1>2, <1>6, <1>7, <2>1
  <2>2. CASE i # id
    <3>1. reg'[i] = reg[i] /\ reg[i] \in Sessions /\ reg[i] # k
      BY <1>2, <1>6, <2>2 DEF StationInv, TypeOKStation
    <3>2. obj[reg[i]].live /\ obj[reg[i]].psu # "closed" /\ \A j \in Ids \ {i} : reg[j] # reg[i]
      BY <3>1, NoneApart DEF StationInv, RegisteredIsLive
    <3>3. reg[id] # reg[i]
      BY <1>2, <2>2, <3>2
    <3>4. obj'[reg[i]].live /\ obj'[reg[i]].psu # "closed"
      BY <1>8, <3>1, <3>2, <3>3
    <3>5. \A j \in Ids \ {i} : reg'[j] # reg'[i]
      BY <1>6, <3>1, <3>2
    <3> QED BY <3>1, <3>4, <3>5
  <2> QED BY <2>1, <2>2
<1>17. Owned'
  <2> SUFFICES ASSUME NEW b \in Benches, on'[b], b \notin loose'
               PROVE  \E j \in Sessions : Owns(j, b)'
    BY DEF Owned
  <2>1. PICK j \in Sessions : Owns(j, b)
    BY <1>1, <1>4 DEF StationInv, Owned
  <2>2. CASE j = k
    BY <1>7, <2>1, <2>2 DEF Owns
  <2>3. CASE j # k
    <3>1. reg[id] # j
      BY <1>4, <2>1 DEF Owns, PushedOut
    <3>2. obj'[j] = obj[j]
      BY <1>8, <2>3, <3>1
    <3> QED BY <1>1, <1>5, <2>1, <3>2 DEF Owns
  <2> QED BY <2>2, <2>3
<1> QED BY <1>10, <1>12, <1>13, <1>14, <1>15, <1>16, <1>17 DEF StationInv
-----------------------------------------------------------------------------
(* The invariant and what it says                                           *)

LEMMA InitStation == Init => StationInv
<1> SUFFICES ASSUME Init PROVE StationInv
  OBVIOUS
<1>1. TypeOKStation
  BY IdleType, NoSessionType DEF Init, TypeOKStation
<1>2. \A k \in Sessions : obj[k] = NoSession /\ ~Used(k)
  BY NoSessionType DEF Init, Used
<1>3. Numbered
  <2>1. \A k \in Sessions : Used(k) <=> k <= 0
    BY <1>2 DEF Sessions
  <2>2. 0 \in 0 .. MaxSessions
    BY StationAssumption
  <2> QED BY <1>2, <2>1, <2>2 DEF Numbered
<1>4. \A c \in Callers : call[c] = Idle /\ CallKnows(c)
  BY IdleType DEF Init, CallKnows, Teardown
<1>5. OneTeardown
  BY <1>4, IdleType DEF OneTeardown, Teardown
<1>6. LiveIsKnown
  BY <1>2, NoSessionType DEF LiveIsKnown
<1>7. RegisteredIsLive
  BY DEF Init, RegisteredIsLive
<1>8. Owned
  BY DEF Init, Owned
<1> QED BY <1>1, <1>3, <1>4, <1>5, <1>6, <1>7, <1>8 DEF StationInv

LEMMA NextStation == StationInv /\ [Next]_vars => StationInv'
<1> SUFFICES ASSUME StationInv, [Next]_vars PROVE StationInv'
  OBVIOUS
<1>1. CASE UNCHANGED vars
  BY <1>1 DEF vars, StationInv, TypeOKStation, Numbered, Used, NoSession, CallKnows, OneTeardown,
     LiveIsKnown, RegisteredIsLive, Owned, Owns
<1>2. ASSUME NEW c \in Callers, Connect(c) PROVE StationInv'
  BY <1>2, BeginKeeps, OpenKeeps, RegisterKeeps, RaisesKeeps DEF Connect
<1>3. ASSUME NEW c \in Callers, Disconnect(c) PROVE StationInv'
  BY <1>3, DisconnectStepKeeps
<1>4. ASSUME NEW c \in Callers, Tool(c) PROVE StationInv'
  BY <1>4, BeginKeeps, ToolKeeps DEF Tool
<1> QED BY <1>1, <1>2, <1>3, <1>4 DEF Next

LEMMA StationInductive == Spec => []StationInv
  BY InitStation, NextStation, PTL DEF Spec

\* However connect(), disconnect() and tools overlap, _stations holds only live
\* sessions with a supply that is not closed, each under one identifier.
THEOREM RegistryIsLive == Spec => []RegisteredIsLive
<1>1. StationInv => RegisteredIsLive
  BY DEF StationInv
<1> QED BY <1>1, StationInductive, PTL

\* An output that is on can be reached through a session with an open supply,
\* or was left loose by a refused switch-off, a lost session or a late enable:
\* disconnect() never strands a bench whose supply obeys.
THEOREM OutputsAreOwned == Spec => []OutputHasOwner
<1>1. StationInv => OutputHasOwner
  <2> SUFFICES ASSUME StationInv, NEW b \in Benches, on[b], b \notin loose
               PROVE  \E k \in Sessions : obj[k].bench = b /\ obj[k].psu = "open" /\ Reachable(k)
    BY DEF OutputHasOwner
  <2>1. PICK k \in Sessions : Owns(k, b)
    BY DEF StationInv, Owned
  <2>2. Reachable(k)
    BY <2>1 DEF Owns, StationInv, LiveIsKnown, Reachable, ses
  <2> QED BY <2>1, <2>2 DEF Owns
<1> QED BY <1>1, StationInductive, PTL
=============================================================================
