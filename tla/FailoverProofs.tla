--------------------------- MODULE FailoverProofs ---------------------------
(* Proofs about Failover, for any number of client threads, any stock of    *)
(* recovery-thread identities and any upsets.                               *)
EXTENDS Failover, TLAPS

InRun == {"run_primary", "wait_primary", "severed", "wake", "run_fallback", "wait_fallback"}
Copies(k) == cmd[k].fly + cmd[k].ran

\* A command that is in a call is in the one its client makes, and there are as
\* many copies of it, run or under way, as the place of safe_run allows.
Counting ==
    \A k \in Cmds :
       /\ Copies(k) <= Channel!Limit(cmd[k].retry)
       /\ cmd[k].by # NoOne =>
             /\ pc[cmd[k].by] \in InRun
             /\ pc[cmd[k].by] = "run_primary" => Copies(k) = 0
             /\ pc[cmd[k].by] \in {"wait_primary", "severed", "wake", "run_fallback"} =>
                   Copies(k) <= 1
             /\ pc[cmd[k].by] = "run_fallback" /\ ~cmd[k].retry => Copies(k) = 0
             /\ \A j \in Cmds : cmd[j].by = cmd[k].by => j = k

\* A recovery thread that is alive is the one _recovery_thread names.
Tracked == \A t \in Probers : Alive(t) => t = cur

IInv == TypeOK /\ Counting /\ Tracked

\* Who is in safe_run and how many copies there are is not touched by a step
\* that leaves the commands alone and the callers of safe_run where they are.
LEMMA QuietCounting ==
    ASSUME TypeOK, Counting, cmd' = cmd,
           \A c \in Clients : pc[c] \in InRun => pc'[c] = pc[c]
    PROVE  Counting'
BY FailoverAssumption DEF TypeOK, Counting, Copies, Channel!Limit

\* Every state of the program has the types of TypeOK and counts as Counting says.
LEMMA CommandsInductive == TypeOK /\ Counting /\ [Next]_vars => TypeOK' /\ Counting'
<1> SUFFICES ASSUME TypeOK, Counting, [Next]_vars PROVE TypeOK' /\ Counting'
  OBVIOUS
<1> USE FailoverAssumption DEF ClientAt, ProberAt, To, InRun
<1>q. ASSUME TypeOK', cmd' = cmd, \A c \in Clients : pc[c] \in InRun => pc'[c] = pc[c]
      PROVE  TypeOK' /\ Counting'
  BY <1>q, QuietCounting
<1>1. ASSUME NEW c \in Clients, ConnectCall(c) PROVE TypeOK' /\ Counting'
  BY <1>1, <1>q DEF ConnectCall, links, TypeOK
<1>2. ASSUME NEW c \in Clients, Connecting(c) PROVE TypeOK' /\ Counting'
  <2>1. CASE ConnectEnter(c)
    BY <2>1, <1>q DEF ConnectEnter, links, TypeOK
  <2>2. CASE ConnectFallback(c)
    BY <2>2, <1>q DEF ConnectFallback, TypeOK
  <2>3. CASE ConnectPrimary(c)
    BY <2>3, <1>q DEF ConnectPrimary, TypeOK
  <2>4. CASE ConnectSet(c)
    BY <2>4, <1>q DEF ConnectSet, links, TypeOK
  <2>5. CASE StartRecoveryThread(c)
    BY <2>5, <1>q DEF StartRecoveryThread, links, TypeOK
  <2> QED BY <1>2, <2>1, <2>2, <2>3, <2>4, <2>5 DEF Connecting
<1>3. ASSUME NEW c \in Clients, DisconnectCall(c) \/ Disconnecting(c)
      PROVE  TypeOK' /\ Counting'
  <2>1. CASE DisconnectCall(c)
    BY <2>1, <1>q DEF DisconnectCall, links, TypeOK
  <2>2. CASE DisconnectLooks(c)
    BY <2>2, <1>q DEF DisconnectLooks, links, TypeOK
  <2>3. CASE JoinTimesOut(c)
    BY <2>3, <1>q DEF JoinTimesOut, links, TypeOK
  <2>4. CASE ClosePrimary(c)
    BY <2>4, <1>q DEF ClosePrimary, TypeOK
  <2>5. CASE CloseFallback(c)
    BY <2>5, <1>q DEF CloseFallback, TypeOK
  <2> QED BY <1>3, <2>1, <2>2, <2>3, <2>4, <2>5 DEF Disconnecting
<1>4. ASSUME NEW c \in Clients, NEW k \in Cmds, NEW retry \in BOOLEAN, RunCall(c, k, retry)
      PROVE  TypeOK' /\ Counting'
  <2>1. [by |-> c, retry |-> retry, fly |-> 0, ran |-> 0]
           \in [by : Clients \cup {NoOne}, retry : BOOLEAN, fly : 0..2, ran : 0..2]
    OBVIOUS
  <2>2. TypeOK'
    BY <1>4, <2>1 DEF RunCall, links, TypeOK
  <2>3. \A j \in Cmds : cmd[j].by # c
    BY <1>4 DEF RunCall, Counting, TypeOK
  <2>4. cmd' = [cmd EXCEPT ![k] = [by |-> c, retry |-> retry, fly |-> 0, ran |-> 0]]
    BY <1>4 DEF RunCall
  <2>5. \E p \in {"run_fallback", "run_primary"} : pc' = [pc EXCEPT ![c] = p]
    BY <1>4 DEF RunCall
  <2>6. Counting'
    BY <2>3, <2>4, <2>5 DEF Counting, Copies, Channel!Limit, TypeOK
  <2> QED BY <2>2, <2>6
\* A step of safe_run moves its client and changes its command's record to v.
<1>s. ASSUME NEW c \in Clients, NEW k \in Cmds, NEW p \in ClientAt,
             NEW v \in [by : {c, NoOne}, retry : {cmd[k].retry}, fly : 0..2, ran : {cmd[k].ran}],
             cmd[k].by = c, cmd' = [cmd EXCEPT ![k] = v], pc' = [pc EXCEPT ![c] = p],
             v.fly + v.ran <= Channel!Limit(v.retry),
             v.by = c => /\ p \in InRun \ {"run_primary"}
                         /\ p \in {"wait_primary", "severed", "wake", "run_fallback"} => v.fly + v.ran <= 1
                         /\ p = "run_fallback" /\ ~v.retry => v.fly + v.ran = 0
      PROVE  cmd' \in [Cmds -> [by : Clients \cup {NoOne}, retry : BOOLEAN, fly : 0..2, ran : 0..2]]
             /\ Counting'
  <2>1. cmd' \in [Cmds -> [by : Clients \cup {NoOne}, retry : BOOLEAN, fly : 0..2, ran : 0..2]]
    BY <1>s DEF TypeOK
  <2>2. \A j \in Cmds : j # k => cmd'[j] = cmd[j] /\ cmd[j].by # c
    BY <1>s DEF TypeOK, Counting
  <2>3. cmd'[k] = v /\ \A d \in Clients : d # c => pc'[d] = pc[d]
    BY <1>s DEF TypeOK
  <2>4. pc'[c] = p
    BY <1>s DEF TypeOK
  <2>5. Counting'
    BY <1>s, <2>1, <2>2, <2>3, <2>4 DEF Counting, Copies, Channel!Limit, TypeOK
  <2> QED BY <2>1, <2>5
<1>5. ASSUME NEW c \in Clients, Running(c) PROVE TypeOK' /\ Counting'
  <2>0. CASE FailOver(c)
    <3>1. TypeOK'
      BY <2>0 DEF FailOver, links, TypeOK
    <3>2. Counting'
      BY <2>0 DEF FailOver, Counting, Copies, Channel!Limit, TypeOK
    <3> QED BY <3>1, <3>2
  <2>1. ASSUME NEW k \in Cmds, cmd[k].by = c, pc[c] \in {"run_primary", "run_fallback"},
               HandOver(k), NEW p \in {"wait_primary", "wait_fallback"}, To(c, p),
               p = "wait_primary" => pc[c] = "run_primary"
        PROVE  cmd' \in [Cmds -> [by : Clients \cup {NoOne}, retry : BOOLEAN, fly : 0..2, ran : 0..2]]
               /\ Counting'
    <3> DEFINE v == [by |-> c, retry |-> cmd[k].retry, fly |-> cmd[k].fly + 1, ran |-> cmd[k].ran]
    <3>1. cmd[k] \in [by : Clients \cup {NoOne}, retry : BOOLEAN, fly : 0..2, ran : 0..2]
      BY DEF TypeOK
    <3>2. [cmd[k] EXCEPT !.fly = @ + 1] = v
      BY <2>1, <3>1
    <3>3. cmd' = [cmd EXCEPT ![k] = v]
      BY <2>1, <3>2 DEF HandOver
    <3>4. Copies(k) <= 1 /\ (~cmd[k].retry => Copies(k) = 0)
          /\ (pc[c] = "run_primary" => Copies(k) = 0)
      BY <2>1, <3>1 DEF Counting
    <3>5. v.fly + v.ran <= Channel!Limit(v.retry) /\ v.fly \in 0..2
          /\ (p = "wait_primary" => v.fly + v.ran <= 1)
      BY <2>1, <3>1, <3>4 DEF Copies, Channel!Limit
    <3>6. v \in [by : {c, NoOne}, retry : {cmd[k].retry}, fly : 0..2, ran : {cmd[k].ran}]
          /\ v.by = c
      BY <3>1, <3>5
    <3> HIDE DEF v
    <3> QED BY <1>s, <2>1, <3>3, <3>5, <3>6
  <2>2. ASSUME NEW k \in Cmds, cmd[k].by = c, Release(k), To(c, "idle")
        PROVE  cmd' \in [Cmds -> [by : Clients \cup {NoOne}, retry : BOOLEAN, fly : 0..2, ran : 0..2]]
               /\ Counting'
    <3> DEFINE v == [by |-> NoOne, retry |-> cmd[k].retry, fly |-> cmd[k].fly, ran |-> cmd[k].ran]
    <3>1. cmd[k] \in [by : Clients \cup {NoOne}, retry : BOOLEAN, fly : 0..2, ran : 0..2]
      BY DEF TypeOK
    <3>2. [cmd[k] EXCEPT !.by = NoOne] = v
      BY <2>2, <3>1
    <3>3. cmd' = [cmd EXCEPT ![k] = v]
      BY <2>2, <3>2 DEF Release
    <3>4. v.fly + v.ran <= Channel!Limit(v.retry)
      BY DEF Counting, Copies
    <3>5. v \in [by : {c, NoOne}, retry : {cmd[k].retry}, fly : 0..2, ran : {cmd[k].ran}]
          /\ v.by # c
      BY <3>1
    <3> HIDE DEF v
    <3> QED BY <1>s, <2>2, <3>3, <3>4, <3>5
  <2>3. ASSUME NEW k \in Cmds, cmd[k].by = c, cmd' = cmd, NEW p \in {"severed", "run_fallback"},
               To(c, p), p = "severed" => pc[c] \in {"run_primary", "wait_primary"},
               p = "run_fallback" => pc[c] = "wake" /\ cmd[k].retry
        PROVE  Counting'
    <3>1. \A j \in Cmds : j # k => cmd[j].by # c
      BY <2>3 DEF Counting
    <3>2. Copies(k) <= 1
      BY <2>3 DEF Counting, Copies, TypeOK
    <3>3. \A d \in Clients : pc'[d] = IF d = c THEN p ELSE pc[d]
      BY <2>3 DEF TypeOK
    <3> QED BY <2>3, <3>1, <3>2, <3>3 DEF Counting, Copies, TypeOK
  <2>4. ASSUME NEW k \in Cmds, RunPrimary(c, k) PROVE TypeOK' /\ Counting'
    <3>1. CASE prim /\ HandOver(k) /\ To(c, "wait_primary") /\ UNCHANGED prim
      BY <2>1, <2>4, <3>1 DEF RunPrimary, TypeOK
    <3>2. CASE prim' = FALSE /\ To(c, "severed") /\ UNCHANGED cmd
      <4>1. Counting'
        BY <2>3, <2>4, <3>2 DEF RunPrimary
      <4>2. TypeOK'
        BY <2>4, <3>2 DEF RunPrimary, TypeOK
      <4> QED BY <4>1, <4>2
    <3> QED BY <2>4, <3>1, <3>2 DEF RunPrimary
  <2>5. ASSUME NEW k \in Cmds, WaitPrimary(c, k) PROVE TypeOK' /\ Counting'
    <3>1. CASE Release(k) /\ To(c, "idle") /\ UNCHANGED prim
      BY <2>2, <2>5, <3>1 DEF WaitPrimary, TypeOK
    <3>2. CASE prim' = FALSE /\ To(c, "severed") /\ UNCHANGED cmd
      <4>1. Counting'
        BY <2>3, <2>5, <3>2 DEF WaitPrimary
      <4>2. TypeOK'
        BY <2>5, <3>2 DEF WaitPrimary, TypeOK
      <4> QED BY <4>1, <4>2
    <3> QED BY <2>5, <3>1, <3>2 DEF WaitPrimary
  <2>6. ASSUME NEW k \in Cmds, Wake(c, k) PROVE TypeOK' /\ Counting'
    BY <2>2, <2>3, <2>6 DEF Wake, links, TypeOK
  <2>7. ASSUME NEW k \in Cmds, RunFallback(c, k) PROVE TypeOK' /\ Counting'
    BY <2>1, <2>2, <2>7 DEF RunFallback, links, TypeOK
  <2>8. ASSUME NEW k \in Cmds, WaitFallback(c, k) PROVE TypeOK' /\ Counting'
    BY <2>2, <2>8 DEF WaitFallback, links, TypeOK
  <2> QED BY <1>5, <2>0, <2>4, <2>5, <2>6, <2>7, <2>8 DEF Running
<1>6. ASSUME NEW t \in Probers, Prober(t) PROVE TypeOK' /\ Counting'
  <2>1. CASE ProberReturns(t)
    BY <2>1, <1>q DEF ProberReturns, ProberTo, links, TypeOK
  <2>2. CASE ProberCheck(t)
    BY <2>2, <1>q DEF ProberCheck, ProberTo, links, TypeOK
  <2>3. CASE ProberConnect(t)
    BY <2>3, <1>q DEF ProberConnect, ProberTo, TypeOK
  <2>4. CASE ProberPing(t)
    BY <2>4, <1>q DEF ProberPing, ProberTo, TypeOK
  <2>5. CASE FailBack(t)
    BY <2>5, <1>q DEF FailBack, ProberTo, links, TypeOK
  <2>6. CASE ProberWait(t)
    BY <2>6, <1>q DEF ProberWait, ProberTo, links, TypeOK
  <2> QED BY <1>6, <2>1, <2>2, <2>3, <2>4, <2>5, <2>6 DEF Prober
<1>7. CASE OnPanic \/ Rebind \/ NetChanges
  BY <1>7, <1>q DEF OnPanic, Rebind, NetChanges, TypeOK
<1>8. CASE UNCHANGED vars
  BY <1>8, <1>q DEF vars, TypeOK
<1>9. ASSUME NEW k \in Cmds, BoardRuns(k) \/ CopyLost(k) PROVE TypeOK' /\ Counting'
  <2>1. cmd[k] \in [by : Clients \cup {NoOne}, retry : BOOLEAN, fly : 0..2, ran : 0..2]
        /\ cmd[k].fly > 0 /\ Copies(k) <= 2
    <3>1. cmd[k] \in [by : Clients \cup {NoOne}, retry : BOOLEAN, fly : 0..2, ran : 0..2]
      BY DEF TypeOK
    <3>2. cmd[k].fly > 0
      BY <1>9 DEF BoardRuns, CopyLost
    <3>3. Copies(k) <= 2
      BY <3>1 DEF Counting, Copies, Channel!Limit
    <3> QED BY <3>1, <3>2, <3>3
  <2>2. PICK m \in {0, 1} :
           cmd' = [cmd EXCEPT ![k] = [by |-> cmd[k].by, retry |-> cmd[k].retry,
                                      fly |-> cmd[k].fly - 1, ran |-> cmd[k].ran + m]]
    <3>1. [cmd[k] EXCEPT !.fly = @ - 1, !.ran = @ + 1] =
             [by |-> cmd[k].by, retry |-> cmd[k].retry, fly |-> cmd[k].fly - 1, ran |-> cmd[k].ran + 1]
      <4>1. [cmd[k] EXCEPT !.fly = @ - 1] =
               [by |-> cmd[k].by, retry |-> cmd[k].retry, fly |-> cmd[k].fly - 1, ran |-> cmd[k].ran]
        BY <2>1
      <4>2. [cmd[k] EXCEPT !.fly = @ - 1, !.ran = @ + 1] =
               [[cmd[k] EXCEPT !.fly = @ - 1] EXCEPT !.ran = @ + 1]
        OBVIOUS
      <4>3. [[by |-> cmd[k].by, retry |-> cmd[k].retry, fly |-> cmd[k].fly - 1, ran |-> cmd[k].ran]
               EXCEPT !.ran = @ + 1] =
               [by |-> cmd[k].by, retry |-> cmd[k].retry, fly |-> cmd[k].fly - 1, ran |-> cmd[k].ran + 1]
        OBVIOUS
      <4> QED BY <4>1, <4>2, <4>3
    <3>2. [cmd[k] EXCEPT !.fly = @ - 1] =
             [by |-> cmd[k].by, retry |-> cmd[k].retry, fly |-> cmd[k].fly - 1, ran |-> cmd[k].ran + 0]
      BY <2>1
    <3> QED BY <1>9, <3>1, <3>2 DEF BoardRuns, CopyLost
  <2>3. cmd[k].fly - 1 \in 0..2 /\ cmd[k].ran + m \in 0..2
    BY <2>1 DEF Copies
  <2>4. cmd' \in [Cmds -> [by : Clients \cup {NoOne}, retry : BOOLEAN, fly : 0..2, ran : 0..2]]
    BY <2>1, <2>2, <2>3 DEF TypeOK
  <2>5. TypeOK'
    BY <1>9, <2>4 DEF BoardRuns, CopyLost, links, TypeOK
  <2>6. \A j \in Cmds : /\ cmd'[j].by = cmd[j].by /\ cmd'[j].retry = cmd[j].retry
                         /\ Copies(j)' <= Copies(j) /\ Copies(j)' \in Nat
    BY <2>1, <2>2, <2>3 DEF Copies, TypeOK
  <2>7. pc' = pc
    BY <1>9 DEF BoardRuns, CopyLost
  <2>8. \A j \in Cmds : Copies(j) \in Nat /\ cmd[j].retry \in BOOLEAN
    BY DEF Copies, TypeOK
  <2>9. Counting'
    BY <2>6, <2>7, <2>8 DEF Counting, Channel!Limit
  <2> QED BY <2>5, <2>9
<1> QED BY <1>1, <1>2, <1>3, <1>4, <1>5, <1>6, <1>7, <1>8, <1>9
        DEF Next, Call, ClientStep

\* Only _start_recovery_thread makes a thread alive, and it names it.
LEMMA ThreadsInductive == TypeOK /\ Tracked /\ [Next]_vars => Tracked'
<1> SUFFICES ASSUME TypeOK, Tracked, [Next]_vars PROVE Tracked'
  OBVIOUS
<1> USE FailoverAssumption DEF TypeOK, Tracked, Alive
<1>1. ASSUME NEW c \in Clients, StartRecoveryThread(c) PROVE Tracked'
  BY <1>1 DEF StartRecoveryThread
<1>2. ASSUME NEW t \in Probers, Prober(t) PROVE Tracked'
  <2>1. rec[t] # "dead" /\ cur' = cur
    BY <1>2 DEF Prober, ProberReturns, ProberCheck, ProberConnect, ProberPing,
                FailBack, ProberWait
  <2>2. \E p \in ProberAt : rec' = [rec EXCEPT ![t] = p]
    BY <1>2 DEF Prober, ProberReturns, ProberCheck, ProberConnect, ProberPing,
                FailBack, ProberWait, ProberTo, ProberAt
  <2> QED BY <2>1, <2>2
<1>3. ASSUME UNCHANGED <<rec, cur>> PROVE Tracked'
  BY <1>3
<1>4. ASSUME NEW c \in Clients, Call(c) \/ Disconnecting(c) \/ Running(c)
      PROVE  UNCHANGED <<rec, cur>>
  BY <1>4 DEF Call, ConnectCall, DisconnectCall, RunCall, Disconnecting, DisconnectLooks,
              JoinTimesOut, ClosePrimary, CloseFallback, Running, RunPrimary, WaitPrimary,
              FailOver, Wake, RunFallback, WaitFallback
<1>5. ASSUME NEW c \in Clients, Connecting(c), ~StartRecoveryThread(c)
      PROVE  UNCHANGED <<rec, cur>>
  BY <1>5 DEF Connecting, ConnectEnter, ConnectFallback, ConnectPrimary, ConnectSet
<1>6. ASSUME \/ OnPanic \/ Rebind \/ NetChanges \/ UNCHANGED vars
             \/ \E k \in Cmds : BoardRuns(k) \/ CopyLost(k)
      PROVE  UNCHANGED <<rec, cur>>
  BY <1>6 DEF OnPanic, Rebind, NetChanges, vars, BoardRuns, CopyLost
<1> QED BY <1>1, <1>2, <1>3, <1>4, <1>5, <1>6 DEF Next, ClientStep

LEMMA InitIInv == Init => IInv
<1> SUFFICES ASSUME Init PROVE IInv
  OBVIOUS
<1>1. \A k \in Cmds : cmd[k] = NoCmd
  BY DEF Init
<1>2. /\ NoCmd \in [by : Clients \cup {NoOne}, retry : BOOLEAN, fly : 0..2, ran : 0..2]
      /\ NoCmd.by = NoOne /\ NoCmd.fly = 0 /\ NoCmd.ran = 0
  BY DEF NoCmd
<1>3. cmd \in [Cmds -> [by : Clients \cup {NoOne}, retry : BOOLEAN, fly : 0..2, ran : 0..2]]
  BY <1>2 DEF Init
<1>4. TypeOK
  BY <1>3 DEF Init, TypeOK, ClientAt, ProberAt
<1>5. Counting
  BY <1>1, <1>2 DEF Counting, Copies, Channel!Limit
<1>6. Tracked
  BY DEF Init, Tracked, Alive
<1> QED BY <1>4, <1>5, <1>6 DEF IInv

LEMMA Invariance == Spec => []IInv
<1>1. IInv /\ [Next]_vars => IInv'
  BY CommandsInductive, ThreadsInductive DEF IInv
<1> QED BY <1>1, InitIInv, PTL DEF Spec

\* The variables of the transport and of its threads keep their types; in
\* particular safe_run sends a command at most twice.
THEOREM TypeCorrect == Spec => []TypeOK
<1>1. IInv => TypeOK
  BY DEF IInv
<1> QED BY <1>1, Invariance, PTL

\* A command without auto_retry is run at most once, however the clients, the
\* recovery thread, the panic callback and the links interleave and however
\* late a copy reaches the board.
THEOREM RetriesOnlyIdempotent == Spec => []AtMostOnce
<1>1. IInv => AtMostOnce
  BY DEF IInv, Counting, Copies, Channel!Limit, AtMostOnce, TypeOK
<1> QED BY <1>1, Invariance, PTL

\* No interleaving of connect() and disconnect() leaves two recovery threads.
THEOREM NoDoubleSpawn == Spec => []OneProber
<1>1. IInv => OneProber
  BY DEF IInv, Tracked, OneProber
<1> QED BY <1>1, Invariance, PTL
-----------------------------------------------------------------------------
(* The transport implements the channel of CommandChannel.                  *)

\* Only safe_run, and the board, touch the commands.
LEMMA OthersQuiet ==
    ASSUME \/ \E c \in Clients : ConnectCall(c) \/ DisconnectCall(c) \/ Connecting(c)
                                   \/ Disconnecting(c) \/ FailOver(c)
           \/ \E t \in Probers : Prober(t)
           \/ OnPanic \/ Rebind \/ NetChanges \/ UNCHANGED vars
    PROVE  UNCHANGED cmd
BY DEF ConnectCall, DisconnectCall, Connecting, ConnectEnter, ConnectFallback,
       ConnectPrimary, ConnectSet, StartRecoveryThread, Disconnecting, DisconnectLooks,
       JoinTimesOut, ClosePrimary, CloseFallback, FailOver, Prober, ProberReturns,
       ProberCheck, ProberConnect, ProberPing, FailBack, ProberWait, OnPanic, Rebind,
       NetChanges, vars

\* Every step of safe_run is a step of the channel or a stutter.
LEMMA RunSimulates ==
    ASSUME IInv, NEW c \in Clients, NEW k \in Cmds,
           \/ \E retry \in BOOLEAN : RunCall(c, k, retry)
           \/ RunPrimary(c, k) \/ WaitPrimary(c, k) \/ Wake(c, k)
           \/ RunFallback(c, k) \/ WaitFallback(c, k)
    PROVE  Channel!Next \/ UNCHANGED cmd
<1>0. /\ TypeOK /\ Counting /\ c # NoOne
      /\ cmd[k] \in [by : Clients \cup {NoOne}, retry : BOOLEAN, fly : 0..2, ran : 0..2]
  BY FailoverAssumption DEF IInv, TypeOK
<1>1. ASSUME cmd[k].by = c, pc[c] \in {"run_primary", "run_fallback"}, HandOver(k)
      PROVE  Channel!Next
  <2>1. Copies(k) < Channel!Limit(cmd[k].retry)
    BY <1>0, <1>1 DEF Counting, Copies, Channel!Limit
  <2>2. Channel!Send(k)
    BY <1>0, <1>1, <2>1 DEF Channel!Send, HandOver, Copies
  <2> QED BY <2>2 DEF Channel!Next
<1>2. ASSUME cmd[k].by = c, Release(k) PROVE Channel!Next
  <2>1. Channel!Return(k)
    BY <1>0, <1>2 DEF Channel!Return, Release
  <2> QED BY <2>1 DEF Channel!Next
<1>3. ASSUME NEW retry \in BOOLEAN, RunCall(c, k, retry) PROVE Channel!Next
  <2>1. \A j \in Cmds : cmd[j].by # c
    BY <1>0, <1>3 DEF RunCall, Counting, InRun
  <2>2. Channel!Call(c, k)
    BY <1>3, <2>1 DEF RunCall, Channel!Call
  <2> QED BY <2>2 DEF Channel!Next
<1>4. CASE RunPrimary(c, k)
  BY <1>1, <1>4 DEF RunPrimary
<1>5. CASE WaitPrimary(c, k)
  BY <1>2, <1>5 DEF WaitPrimary
<1>6. CASE Wake(c, k)
  BY <1>2, <1>6 DEF Wake
<1>7. CASE RunFallback(c, k)
  BY <1>1, <1>2, <1>7 DEF RunFallback
<1>8. CASE WaitFallback(c, k)
  BY <1>2, <1>8 DEF WaitFallback
<1> QED BY <1>3, <1>4, <1>5, <1>6, <1>7, <1>8

\* FailoverTransport implements the transport contract: whatever link carries a
\* command and whichever breaks, copies of it leave the host only between the
\* call of safe_run and its return, and those under way together with the runs
\* there were, during the call or after it, are no more than auto_retry allows.
THEOREM ChannelRefinement == Spec => ImplementsChannel
<1>1. Init => Channel!Init
  BY DEF Init, NoCmd, Channel!Init, Channel!NoJob
<1>2. IInv /\ [Next]_vars => [Channel!Next]_cmd
  <2> SUFFICES ASSUME IInv, [Next]_vars PROVE Channel!Next \/ UNCHANGED cmd
    OBVIOUS
  <2>1. ASSUME NEW k \in Cmds, BoardRuns(k) \/ CopyLost(k) PROVE Channel!Next
    BY <2>1 DEF BoardRuns, CopyLost, Channel!Execute, Channel!Lose, Channel!Next
  <2> QED BY <2>1, OthersQuiet, RunSimulates
          DEF Next, Call, ClientStep, Running
<1> QED BY <1>1, <1>2, Invariance, PTL DEF Spec, ImplementsChannel, Channel!Spec
=============================================================================
