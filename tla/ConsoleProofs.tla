---------------------------- MODULE ConsoleProofs ----------------------------
(* Proofs about Console, for any number of clients, monitors and commands     *)
(* and any size of the queues.                                               *)
EXTENDS Console, SequenceTheorems, TLAPS

(* Who may type                                                             *)

\* Where a client is inside its transaction: it holds _tx_lock.
Held == {"flush1", "interrupt", "sub1", "wait1", "flush2", "half1", "half2", "enter", "sub",
         "wait"}
Locked == \A c \in Clients : pc[c] \in Held => lock = c

\* Only a command that is not empty is interrupted for and typed in parts.
Halving == {"interrupt", "sub1", "wait1", "flush2", "half1", "half2"}
NotEmpty == \A c \in Clients : pc[c] \in Halving => cmd[c] # 0

\* As long as nobody reconnects under a command, a closed port has no user but the
\* one who reconnects it, and one who disconnects it is alone.
Alone ==
    "rebind" \notin events =>
        /\ ~open => \A c \in Clients : pc[c] = "idle"
        /\ \A c, d \in Clients : pc[c] = "join" /\ pc[d] # "idle" => c = d

\* The first part of a line stays the last thing typed until the second follows.
First(i) == [of |-> i, half |-> 1]
Second(i) == [of |-> i, half |-> 2]
HalfTyped ==
    "rebind" \notin events =>
        \A c \in Clients :
            pc[c] = "half2" => tty = <<>> \/ tty[Len(tty)] = First(cmd[c])

\* A board that is down has nothing typed.
Idle == ~up => tty = <<>>

LineInv == Idle /\ HalfTyped /\ WholeLines

(* How often a command runs                                                 *)

\* The console is a shell's, which makes nothing of an empty line.
Shell == "uboot" \notin events

\* The line of command i is among what is typed in t, and is so at most once.
Has(t, i) == \E k \in 1 .. Len(t) : t[k] = First(i)
Once(t) == \A i \in Ids : \A j, k \in 1 .. Len(t) : t[j] = First(i) /\ t[k] = First(i) => j = k

\* Nothing of command i has reached the board.
Unrun(i) == exit[i] = "none" /\ running # i /\ ~Has(tty, i)

\* Where a client has not begun to type its command.
Before == {"want", "flush1", "interrupt", "sub1", "wait1", "flush2", "half1"}

OnceInv ==
    /\ \A c \in Clients : cmd[c] <= issued
    /\ \A c, d \in Clients : cmd[c] = cmd[d] /\ cmd[c] # 0 => c = d
    /\ \A i \in Ids : i > issued => Unrun(i)
    /\ \A c \in Clients : pc[c] \in Before /\ cmd[c] # 0 => Unrun(cmd[c])
    /\ \A i \in Ids : running = i \/ exit[i] # "none" => ~Has(tty, i)
    /\ \A i \in Ids : running = i => exit[i] = "none"
    /\ Once(tty)

(* What the console says                                                    *)

\* The chunks that do not misreport how a command ended.
Honest == {k \in Chunk : k \in Answer => exit[k.of] = k.code}

\* Those on their way to the clients, and those a client has collected.
Said ==
    /\ wire \in Seq(Honest)
    /\ q \in [Subscribers -> Seq(Honest)]
    /\ buf \in [Clients -> SUBSET (Answer \cap Honest)]

(* Monitors                                                                 *)

\* A monitor thread that is alive is the one the watchdog knows of.
Known == "slow" \notin events => \A m \in Monitors : Alive(m) => m = cur
-----------------------------------------------------------------------------
(* Types                                                                    *)

\* The values that are written, printed and typed.
LEMMA Literals ==
  /\ \A t \in Text : Says(t) \in Chunk
  /\ \A i \in Ids : First(i) \in Typed /\ Second(i) \in Typed
  /\ Enter \in Typed /\ CtrlC \in Typed
  /\ \A i \in Ids, e \in Code : [of |-> i, code |-> e] \in Answer
  /\ Answer \subseteq Chunk
  BY DEF Says, Text, Chunk, First, Second, Typed, Half, Enter, CtrlC, Answer

LEMMA Nothing == <<>> \in Seq(Chunk) /\ <<>> \in Seq(Typed) /\ Len(<<>>) = 0
  BY EmptySeq

LEMMA TwoOrMore ==
  ASSUME NEW S, NEW s \in Seq(S)
  PROVE  Len(s) > 1 => s # <<>> /\ Tail(s) # <<>>
<1>n. Len(s) \in Nat
  BY LenProperties
<1>1. Len(s) > 1 => Len(s) # 0
  BY <1>n
<1>2. s # <<>> => Len(Tail(s)) = Len(s) - 1
  BY HeadTailProperties
<1>m. \A n \in Nat : n > 1 => n - 1 # 0
  OBVIOUS
<1>3. s # <<>> /\ Len(s) > 1 => Len(Tail(s)) # 0
  BY <1>n, <1>m, <1>2, Zenon
<1> QED BY <1>1, <1>3, Nothing, Zenon

LEMMA CopyTyped ==
  ASSUME NEW s, NEW k \in Chunk
  PROVE  Copy(s, k) \in Chunk
  BY Literals DEF Copy, Text

LEMMA WindowTyped ==
  ASSUME window \in Seq(Chunk), NEW s \in Seq(Chunk)
  PROVE  Window(s) \in Seq(Chunk) /\ Len(Window(s)) <= WindowMax
<1> DEFINE w == window \o s
<1>1. w \in Seq(Chunk) /\ Len(w) \in Nat
  BY ConcatProperties, LenProperties
<1>2. WindowMax \in Nat \ {0}
  BY ConsoleAssumption
<1> HIDE DEF w
<1>3. CASE Len(w) > WindowMax
  <2>1. SubSeq(w, Len(w) - WindowMax + 1, Len(w)) \in Seq(Chunk)
        /\ Len(SubSeq(w, Len(w) - WindowMax + 1, Len(w))) = WindowMax
    BY <1>1, <1>2, <1>3, SubSeqProperties
  <2> QED BY <1>2, <1>3, <2>1 DEF Window, w
<1>4. CASE ~(Len(w) > WindowMax)
  BY <1>1, <1>2, <1>4 DEF Window, w
<1> QED BY <1>3, <1>4

\* The parts a queue is cut into by a read.
LEMMA PartsTyped ==
  ASSUME NEW S, NEW s \in Seq(S), NEW k \in 1 .. Len(s)
  PROVE  SubSeq(s, 1, k) \in Seq(S) /\ SubSeq(s, k + 1, Len(s)) \in Seq(S)
<1>1. Len(s) \in Nat
  BY LenProperties
<1> QED BY <1>1, SubSeqProperties

LEMMA TypeTyped ==
  ASSUME tty \in Seq(Typed), NEW k \in Typed, Type(k)
  PROVE  tty' \in Seq(Typed)
  BY AppendProperties DEF Type

LEMMA PrintsTyped ==
  ASSUME wire \in Seq(Chunk), NEW s \in Seq(Chunk), Prints(s)
  PROVE  wire' \in Seq(Chunk)
  BY ConcatProperties DEF Prints

TypeInv == TypeOKConsole /\ NotEmpty

\* A client's step.
LEMMA ClientTyped ==
  ASSUME TypeInv, NEW c \in Clients, ClientStep(c), UNCHANGED events
  PROVE  TypeInv'
<1> USE DEF TypeInv, NotEmpty, TypeOKConsole, ClientAt, Result, To, Step, Halving, client, port,
            target, watchdog
<1>0. /\ Runners \subseteq Clients /\ MaxCmds \in Nat
      /\ c \in Subscribers /\ Monitors \subseteq Subscribers
  BY ConsoleAssumption DEF Subscribers
<1>1. ASSUME NEW r \in Result, Return(c, r), UNCHANGED <<wire, target, watchdog>> PROVE TypeInv'
  BY <1>0, <1>1 DEF Return
<1>2. CASE RunCall(c)
  <2>1. cmd' \in [Clients -> 0 .. MaxCmds] /\ issued' \in 0 .. MaxCmds
    <3>1. CASE cmd' = [cmd EXCEPT ![c] = 0] /\ UNCHANGED issued
      BY <1>0, <3>1
    <3>2. CASE issued < MaxCmds /\ issued' = issued + 1 /\ cmd' = [cmd EXCEPT ![c] = issued']
      <4>1. issued' \in 0 .. MaxCmds
        BY <1>0, <3>2
      <4> QED BY <3>2, <4>1
    <3> QED BY <1>2, <3>1, <3>2 DEF RunCall
  <2>2. NotEmpty'
    BY <1>2 DEF RunCall
  <2> QED BY <1>2, <2>1, <2>2 DEF RunCall
<1>3. CASE Acquire(c)
  BY <1>3 DEF Acquire
<1>4. CASE Flush(c)
  <2>1. wire' \in Seq(Chunk) /\ q' \in [Subscribers -> Seq(Chunk)]
    BY <1>4, EmptySeq DEF Flush, FlushBuffers
  <2> QED BY <1>0, <1>4, <2>1 DEF Flush, FlushBuffers
<1>5. CASE Interrupt(c)
  <2>1. tty' \in Seq(Typed)
    BY <1>5, Literals DEF Interrupt
  <2> QED BY <1>0, <1>5, <2>1 DEF Interrupt
<1>6. CASE Subscribe(c)
  BY <1>0, <1>6 DEF Subscribe
<1>7. CASE WriteHalf(c)
  <2>1. tty' \in Seq(Typed)
    <3>1. CASE pc[c] \in {"half1", "half2"}
      <4>1. cmd[c] \in Ids
        BY <3>1 DEF Ids
      <4> QED BY <1>7, <3>1, <4>1, Literals, TypeTyped DEF WriteHalf, First, Second
    <3>2. CASE Type(Enter)
      BY <3>2, Literals, TypeTyped
    <3> QED BY <1>7, <3>1, <3>2 DEF WriteHalf
  <2> QED BY <1>7, <2>1 DEF WriteHalf
<1>8. CASE Ping(c) \/ RawWrite(c)
  <2>1. tty' \in Seq(Typed)
    BY <1>8, Literals, TypeTyped DEF Ping, RawWrite
  <2> QED BY <1>8, <2>1 DEF Ping, RawWrite
<1>9. CASE WriteFails(c)
  BY <1>1, <1>9 DEF WriteFails, WriteRaises
<1>w. ASSUME pc[c] = "wait1", EndWait1(c), UNCHANGED <<wire, target, watchdog>> PROVE TypeInv'
  BY <1>0, <1>w DEF EndWait1
<1>10. CASE Receive(c)
  <2>1. CASE /\ buf' = [buf EXCEPT ![c] = @ \cup ({Head(q[c])} \cap Answer)]
             /\ q' = [q EXCEPT ![c] = Tail(@)]
             /\ UNCHANGED <<lock, pc, cmd, issued, res, subs, open>>
    <3>1. Tail(q[c]) \in Seq(Chunk)
      BY <1>0, <1>10, HeadTailProperties DEF Receive
    <3> QED BY <1>0, <1>10, <2>1, <3>1 DEF Receive
  <2>2. ASSUME NEW seen, Return(c, IF ExitOk(c, seen) THEN "ok" ELSE "failed") PROVE TypeInv'
    BY <1>1, <1>10, <2>2 DEF Receive
  <2> QED BY <1>10, <1>w, <2>1, <2>2 DEF Receive
<1>11. CASE Expires(c)
  <2>1. ASSUME Return(c, IF cmd[c] = 0 THEN "ok" ELSE "timeout") PROVE TypeInv'
    BY <1>1, <1>11, <2>1 DEF Expires
  <2> QED BY <1>11, <1>w, <2>1 DEF Expires
<1>12. CASE Connect(c)
  <2>1. tty' \in Seq(Typed)
    BY <1>12, Literals, TypeTyped DEF Connect
  <2> QED BY <1>12, <2>1 DEF Connect
<1>16. CASE ConnectDrained(c)
  <2>1. /\ mon' \in [Monitors -> MonitorAt] /\ cur' \in Monitors \cup {NoOne}
        /\ stop' \in BOOLEAN /\ panicked' \in BOOLEAN /\ UNCHANGED <<window, muted>>
    BY <1>16 DEF ConnectDrained, StartWatchdog, MonitorAt
  <2>2. wire' \in Seq(Chunk) /\ q' \in [Subscribers -> Seq(Chunk)]
    BY <1>16, EmptySeq DEF ConnectDrained
  <2> QED BY <1>16, <2>1, <2>2 DEF ConnectDrained
<1>13. CASE DisconnectCall(c)
  BY <1>13 DEF DisconnectCall
<1>14. CASE DisconnectClose(c)
  <2>1. wire' \in Seq(Chunk) /\ open' \in BOOLEAN /\ cur' \in Monitors \cup {NoOne}
    BY <1>14, EmptySeq DEF DisconnectClose
  <2> QED BY <1>14, <2>1 DEF DisconnectClose
<1>15. CASE SetMuted(c)
  <2>1. muted' \in BOOLEAN /\ window' \in Seq(Chunk) /\ Len(window') <= WindowMax
    BY <1>15, ConsoleAssumption DEF SetMuted
  <2> QED BY <1>15, <2>1 DEF SetMuted
<1> QED BY <1>2, <1>3, <1>4, <1>5, <1>6, <1>7, <1>8, <1>9, <1>10, <1>11, <1>12, <1>13,
           <1>14, <1>15, <1>16
        DEF ClientStep

LEMMA MonitorTyped ==
  ASSUME TypeInv, NEW m \in Monitors, MonitorStep(m), UNCHANGED events
  PROVE  TypeInv'
<1> USE DEF TypeInv, NotEmpty, TypeOKConsole, MonitorAt, Steps, client, port, target
<1>0. m \in Subscribers
  BY DEF Subscribers
<1>1. CASE MonitorExits(m)
  BY <1>1 DEF MonitorExits
<1>2. CASE MonitorSubscribes(m) \/ MonitorLeaves(m)
  <2>1. /\ q' = [q EXCEPT ![m] = <<>>] /\ subs' \subseteq Subscribers
        /\ mon' \in [Monitors -> MonitorAt]
    BY <1>0, <1>2 DEF MonitorSubscribes, MonitorLeaves
  <2>2. q' \in [Subscribers -> Seq(Chunk)]
    BY <2>1, EmptySeq
  <2> QED BY <1>2, <2>1, <2>2 DEF MonitorSubscribes, MonitorLeaves
<1>3. CASE MonitorReads(m)
  <2>1. PICK k \in 1 .. Len(q[m]) :
           /\ q' = [q EXCEPT ![m] = SubSeq(@, k + 1, Len(@))]
           /\ window' = <<>> \/ window' = Window(SubSeq(q[m], 1, k))
    BY <1>3 DEF MonitorReads
  <2>4. SubSeq(q[m], 1, k) \in Seq(Chunk) /\ SubSeq(q[m], k + 1, Len(q[m])) \in Seq(Chunk)
    BY <1>0, PartsTyped
  <2>2. q' \in [Subscribers -> Seq(Chunk)]
    BY <1>0, <2>1, <2>4
  <2>3. window' \in Seq(Chunk) /\ Len(window') <= WindowMax
    <3>2. <<>> \in Seq(Chunk) /\ Len(<<>>) <= WindowMax
      BY ConsoleAssumption, EmptySeq
    <3>3. Window(SubSeq(q[m], 1, k)) \in Seq(Chunk) /\ Len(Window(SubSeq(q[m], 1, k))) <= WindowMax
      BY <2>4, WindowTyped
    <3> QED BY <2>1, <3>2, <3>3, Zenon
  <2> QED BY <1>3, <2>2, <2>3 DEF MonitorReads
<1> QED BY <1>1, <1>2, <1>3 DEF MonitorStep

LEMMA WorldTyped ==
  ASSUME TypeInv, Rx \/ BoardStep, UNCHANGED events
  PROVE  TypeInv'
<1> USE DEF TypeInv, NotEmpty, TypeOKConsole, client, watchdog
<1>1. CASE Rx
  <2>1. Head(wire) \in Chunk /\ Tail(wire) \in Seq(Chunk)
    BY <1>1, HeadTailProperties DEF Rx
  <2>2. \A s \in Subscribers : Append(q[s], Copy(s, Head(wire))) \in Seq(Chunk)
    BY <2>1, CopyTyped, AppendProperties
  <2>3. q' \in [Subscribers -> Seq(Chunk)]
    BY <1>1, <2>2 DEF Rx
  <2> QED BY <1>1, <2>1, <2>3 DEF Rx, target
<1>p. ASSUME NEW s \in Seq(Chunk), Prints(s),
             tty' \in Seq(Typed), running' \in 0 .. MaxCmds, up' \in BOOLEAN,
             last' \in 0 .. MaxCmds,
             exit' \in [Ids -> Code \cup {"none"}]
      PROVE  TypeInv'
  BY <1>p, PrintsTyped DEF Prints
<1>0. MaxCmds \in Nat /\ <<>> \in Seq(Chunk) /\ \A t \in Text : <<Says(t)>> \in Seq(Chunk)
  BY Literals, ConsoleAssumption
<1>2. CASE BoardReads
  <2>1. tty # <<>> /\ Head(tty) \in Typed /\ Tail(tty) \in Seq(Typed)
    BY <1>2, HeadTailProperties DEF BoardReads
  <2>2. Len(tty) > 1 => Tail(Tail(tty)) \in Seq(Typed)
    BY <2>1, TwoOrMore, HeadTailProperties
  <2>3. Head(tty) \in Half => Head(tty).of \in 0 .. MaxCmds
    BY <1>0 DEF Half, Ids
  <2>4. tty' \in Seq(Typed) /\ running' \in 0 .. MaxCmds
    BY <1>2, <2>1, <2>2, <2>3 DEF BoardReads
  <2>6. last' \in 0 .. MaxCmds
    BY <1>2, <2>4 DEF BoardReads
  <2>5. Prints(<<>>) \/ Prints(<<Says("prompt")>>)
    BY <1>2 DEF BoardReads
  <2> QED BY <1>0, <1>2, <1>p, <2>4, <2>5, <2>6 DEF BoardReads, Text
<1>3. CASE BoardFinishes
  <2>0. running \in Ids
    BY <1>3 DEF BoardFinishes, Ids
  <2>1. PICK e \in Code : /\ exit' = [exit EXCEPT ![running] = e]
                          /\ Prints(<<[of |-> running, code |-> e], Says("prompt")>>)
    BY <1>3 DEF BoardFinishes
  <2>2. <<[of |-> running, code |-> e], Says("prompt")>> \in Seq(Chunk)
    BY <2>0, Literals DEF Text
  <2>3. exit' \in [Ids -> Code \cup {"none"}]
    BY <2>0, <2>1
  <2>4. tty' \in Seq(Typed) /\ running' \in 0 .. MaxCmds /\ up' \in BOOLEAN
        /\ last' \in 0 .. MaxCmds
    BY <1>0, <1>3 DEF BoardFinishes
  <2> QED BY <1>p, <2>1, <2>2, <2>3, <2>4
<1>4. CASE BoardDies
  <2>1. Prints(<<Says("pan"), Says("ic")>>) \/ Prints(<<>>)
    BY <1>4 DEF BoardDies
  <2>2. <<Says("pan"), Says("ic")>> \in Seq(Chunk)
    BY Literals DEF Text
  <2>d. tty' = <<>> /\ running' = 0 /\ up' = FALSE /\ last' = 0
    BY <1>4, Zenon DEF BoardDies
  <2>3. tty' \in Seq(Typed) /\ up' \in BOOLEAN
    BY <2>d, Nothing, Zenon
  <2>5. running' \in 0 .. MaxCmds /\ last' \in 0 .. MaxCmds
    BY <1>0, <2>d
  <2>4. exit' \in [Ids -> Code \cup {"none"}]
    BY <1>4 DEF BoardDies
  <2> QED BY <1>0, <1>p, <2>1, <2>2, <2>3, <2>4, <2>5
<1>5. CASE BoardRestarts
  BY <1>0, <1>5, <1>p DEF BoardRestarts, Text
<1> QED BY <1>1, <1>2, <1>3, <1>4, <1>5 DEF BoardStep

LEMMA TypeInitially == Init => TypeInv
<1> SUFFICES ASSUME Init PROVE TypeInv
  OBVIOUS
<1>0. MaxCmds \in Nat /\ WindowMax \in Nat
  BY ConsoleAssumption
<1>1. /\ wire \in Seq(Chunk) /\ tty \in Seq(Typed) /\ window \in Seq(Chunk)
      /\ q \in [Subscribers -> Seq(Chunk)] /\ Len(window) <= WindowMax
  BY <1>0 DEF Init
<1>2. /\ pc \in [Clients -> ClientAt] /\ cmd \in [Clients -> 0 .. MaxCmds]
      /\ issued \in 0 .. MaxCmds /\ buf \in [Clients -> SUBSET Answer]
      /\ res \in [Clients -> Result] /\ running \in 0 .. MaxCmds /\ last \in 0 .. MaxCmds
      /\ exit \in [Ids -> Code \cup {"none"}] /\ mon \in [Monitors -> MonitorAt]
  BY <1>0 DEF Init, ClientAt, Result, MonitorAt
<1>3. NotEmpty
  BY DEF Init, NotEmpty, Halving
<1> QED BY <1>1, <1>2, <1>3 DEF Init, TypeInv, TypeOKConsole

LEMMA TypeInductive == TypeInv /\ [Next]_vars => TypeInv'
<1> SUFFICES ASSUME TypeInv, [Next]_vars PROVE TypeInv'
  OBVIOUS
<1>1. CASE UNCHANGED vars
  BY <1>1 DEF vars, client, port, target, watchdog, TypeInv, TypeOKConsole, NotEmpty
<1> QED BY <1>1, ClientTyped, MonitorTyped, WorldTyped DEF Next

\* Every state of the console is well typed, for any number of clients, monitors
\* and commands; a line is typed in parts only for a command that is not empty
\* (EphemeralSerialClient.safe_run).
THEOREM TypeCorrect == Spec => []TypeOKConsole
<1>1. TypeInv => TypeOKConsole
  BY DEF TypeInv
<1> QED BY <1>1, TypeInitially, TypeInductive, PTL DEF Spec
-----------------------------------------------------------------------------
(* Monitor threads                                                          *)

\* Only the watchdog and its threads change what the watchdog knows of them.
LEMMA KnownInductive == TypeInv /\ Known /\ [Next]_vars => Known'
<1> SUFFICES ASSUME TypeInv, Known, [Next]_vars PROVE Known'
  OBVIOUS
<1> USE DEF Known, Alive
<1>0. /\ UNCHANGED events
      /\ mon \in [Monitors -> MonitorAt]
      /\ NoOne \notin Monitors
  BY ConsoleAssumption DEF Next, vars, TypeInv, TypeOKConsole
<1>1. CASE UNCHANGED <<mon, cur>>
  BY <1>0, <1>1
<1>2. ASSUME NEW c \in Clients, ConnectDrained(c) PROVE Known'
  BY <1>0, <1>2 DEF ConnectDrained, StartWatchdog, watchdog
<1>3. ASSUME NEW c \in Clients, DisconnectClose(c) PROVE Known'
  BY <1>0, <1>3 DEF DisconnectClose, Joined
<1>4. ASSUME NEW m \in Monitors, MonitorStep(m) PROVE Known'
  <2>1. Alive(m) /\ UNCHANGED cur
    BY <1>4 DEF MonitorStep, MonitorExits, MonitorSubscribes, MonitorReads, MonitorLeaves, Steps
  <2>2. \A n \in Monitors \ {m} : mon'[n] = mon[n]
    BY <1>0, <1>4
       DEF MonitorStep, MonitorExits, MonitorSubscribes, MonitorReads, MonitorLeaves, Steps
  <2> QED BY <1>0, <2>1, <2>2
<1>5. ASSUME NEW c \in Clients, ClientStep(c) PROVE Known'
  <2>1. ConnectDrained(c) \/ DisconnectClose(c) \/ UNCHANGED <<mon, cur>>
    BY <1>5
       DEF ClientStep, RunCall, Acquire, Flush, Interrupt, Subscribe, WriteHalf, Ping, Connect,
           WriteFails, WriteRaises, Receive, Expires, RawWrite, DisconnectCall, SetMuted, watchdog
  <2> QED BY <1>1, <1>2, <1>3, <2>1
<1>6. CASE Rx \/ BoardStep
  BY <1>1, <1>6
     DEF Rx, BoardStep, BoardReads, BoardFinishes, BoardDies, BoardRestarts, Prints, watchdog
<1> QED BY <1>1, <1>4, <1>5, <1>6 DEF Next, vars, watchdog

\* However often the port is reconnected, by whichever thread, the watchdog never
\* has two monitor threads that are alive, unless a panic callback outlasts the
\* join of stop() (UartKernelWatchdog.start and stop).
THEOREM OneMonitorAlive == Spec => []OneMonitor
<1>1. Init => Known
  BY DEF Init, Known, Alive
<1>2. Known => OneMonitor
  BY DEF Known, OneMonitor
<1> QED BY <1>1, <1>2, TypeInitially, TypeInductive, KnownInductive, PTL DEF Spec
-----------------------------------------------------------------------------
(* Who may type                                                             *)

Exclusive == Locked /\ Alone

\* A client that gives up the lock, held before, by returning.
LEMMA ReturnExclusive ==
  ASSUME TypeInv, Exclusive, NEW c \in Clients, NEW r, pc[c] \in Held, Return(c, r),
         UNCHANGED events
  PROVE  Exclusive'
<1>1. pc \in [Clients -> ClientAt]
  BY DEF TypeInv, TypeOKConsole
<1> QED BY <1>1 DEF Exclusive, Locked, Alone, Held, Return, To

LEMMA ClientExclusive ==
  ASSUME TypeInv, Exclusive, NEW c \in Clients, ClientStep(c), UNCHANGED events
  PROVE  Exclusive'
<1> USE DEF Exclusive, Locked, Alone, Held, To, Step, client, port
<1>0. /\ pc \in [Clients -> ClientAt] /\ NoOne \notin Clients /\ open \in BOOLEAN
  BY ConsoleAssumption DEF TypeInv, TypeOKConsole
<1>2. CASE RunCall(c)
  BY <1>0, <1>2 DEF RunCall, Switching
<1>3. CASE Acquire(c)
  BY <1>0, <1>3 DEF Acquire
<1>4. CASE Flush(c)
  BY <1>0, <1>4 DEF Flush, FlushBuffers
<1>5. CASE Interrupt(c)
  BY <1>0, <1>5 DEF Interrupt
<1>6. CASE Subscribe(c)
  BY <1>0, <1>6 DEF Subscribe
<1>7. CASE WriteHalf(c)
  BY <1>0, <1>7 DEF WriteHalf
<1>8. CASE Ping(c) \/ RawWrite(c) \/ SetMuted(c)
  BY <1>8 DEF Ping, RawWrite, SetMuted
<1>9. CASE WriteFails(c)
  BY <1>9, ReturnExclusive DEF WriteFails, WriteRaises
<1>w. ASSUME pc[c] = "wait1", EndWait1(c) PROVE Exclusive'
  BY <1>0, <1>w DEF EndWait1
<1>10. CASE Receive(c)
  <2>1. CASE UNCHANGED <<lock, pc, cmd, issued, res, subs, open>>
    BY <2>1
  <2>2. ASSUME NEW r, Return(c, r) PROVE Exclusive'
    BY <1>10, <2>2, ReturnExclusive DEF Receive
  <2> QED BY <1>10, <1>w, <2>1, <2>2 DEF Receive
<1>11. CASE Expires(c)
  BY <1>11, <1>w, ReturnExclusive DEF Expires
<1>12. CASE Connect(c) \/ ConnectDrained(c)
  BY <1>0, <1>12 DEF Connect, ConnectDrained
<1>13. CASE DisconnectCall(c)
  BY <1>0, <1>13 DEF DisconnectCall
<1>14. CASE DisconnectClose(c)
  BY <1>0, <1>14 DEF DisconnectClose
<1> QED BY <1>2, <1>3, <1>4, <1>5, <1>6, <1>7, <1>8, <1>9, <1>10, <1>11, <1>12, <1>13, <1>14
        DEF ClientStep

LEMMA ExclusiveInductive == TypeInv /\ Exclusive /\ [Next]_vars => Exclusive'
<1> SUFFICES ASSUME TypeInv, Exclusive, [Next]_vars PROVE Exclusive'
  OBVIOUS
<1>1. CASE UNCHANGED <<events, pc, lock, open>>
  BY <1>1 DEF Exclusive, Locked, Alone
<1>2. CASE Next /\ ~\E c \in Clients : ClientStep(c)
  <2>1. UNCHANGED <<events, pc, lock, open>>
    BY <1>2 DEF Next, MonitorStep, MonitorExits, MonitorSubscribes, MonitorReads, MonitorLeaves, Rx,
                BoardStep, BoardReads, BoardFinishes, BoardDies, BoardRestarts, Prints, client, port
  <2> QED BY <1>1, <2>1
<1> QED BY <1>1, <1>2, ClientExclusive DEF Next, vars, client, port
-----------------------------------------------------------------------------
(* What is typed                                                            *)

\* A second part is preceded by the first of the same line, in t or before it.
Whole(t) == \A i \in 2 .. Len(t) :
                t[i] \in Half /\ t[i].half = 2 => t[i - 1] = First(t[i].of)

LEMMA WholeAppend ==
  ASSUME NEW t \in Seq(Typed), NEW k \in Typed, Whole(t),
         k \in Half /\ k.half = 2 => t = <<>> \/ t[Len(t)] = First(k.of)
  PROVE  Whole(Append(t, k))
<1> DEFINE a == Append(t, k)
           n == Len(t)
<1>1. /\ n \in Nat /\ Len(a) = n + 1 /\ a[n + 1] = k
      /\ \A i \in 1 .. n : a[i] = t[i]
  BY AppendProperties, LenProperties
<1>2. n # 0 => t # <<>>
  BY Nothing, Zenon
<1> SUFFICES ASSUME NEW i \in 2 .. n + 1, a[i] \in Half, a[i].half = 2
             PROVE  a[i - 1] = First(a[i].of)
  BY <1>1 DEF Whole
<1>3. CASE i = n + 1
  <2>1. n # 0 /\ i - 1 = n /\ n \in 1 .. n
    BY <1>1, <1>3
  <2>2. a[i] = k /\ a[i - 1] = t[n]
    BY <1>1, <1>3, <2>1
  <2> QED BY <1>2, <2>1, <2>2
<1>4. CASE i # n + 1
  <2>1. i \in 2 .. n /\ i \in 1 .. n /\ i - 1 \in 1 .. n
    BY <1>1, <1>4
  <2>2. a[i] = t[i] /\ a[i - 1] = t[i - 1]
    BY <1>1, <2>1
  <2> QED BY <2>1, <2>2 DEF Whole
<1> QED BY <1>3, <1>4

LEMMA WholeTail ==
  ASSUME NEW t \in Seq(Typed), t # <<>>, Whole(t)
  PROVE  /\ Whole(Tail(t))
         /\ Tail(t) = <<>> \/ Tail(t)[Len(Tail(t))] = t[Len(t)]
<1> DEFINE n == Len(t)
           u == Tail(t)
<1>1. /\ n \in Nat /\ u \in Seq(Typed) /\ Len(u) = n - 1
      /\ \A i \in 1 .. Len(u) : u[i] = t[i + 1]
  BY HeadTailProperties, LenProperties
<1>2. Len(u) \in Nat /\ (Len(u) = 0 => u = <<>>)
  BY <1>1, EmptySeq, LenProperties
<1>3. Whole(u)
  <2> SUFFICES ASSUME NEW i \in 2 .. Len(u), u[i] \in Half, u[i].half = 2
               PROVE  u[i - 1] = First(u[i].of)
    BY DEF Whole
  <2>1. i + 1 \in 2 .. n /\ i \in 1 .. Len(u) /\ i - 1 \in 1 .. Len(u) /\ i - 1 + 1 = i
        /\ i + 1 - 1 = i
    BY <1>1, <1>2
  <2>2. u[i] = t[i + 1] /\ u[i - 1] = t[i]
    BY <1>1, <2>1
  <2> QED BY <2>1, <2>2 DEF Whole
<1>4. Len(u) # 0 => u[Len(u)] = t[n]
  <2>1. Len(u) # 0 => Len(u) \in 1 .. Len(u) /\ Len(u) + 1 = n
    BY <1>1, <1>2
  <2> QED BY <1>1, <2>1
<1> QED BY <1>2, <1>3, <1>4

LEMMA WholeShort == Whole(<<>>) /\ Whole(<<CtrlC>>)
  BY DEF Whole

\* An empty line, a first and a second part are different things.
LEMMA Parts ==
  /\ Enter \notin Half /\ CtrlC \notin Half
  /\ \A i \in Ids : /\ First(i) \in Half /\ First(i).half = 1 /\ First(i).of = i
                   /\ Second(i) \in Half /\ Second(i).half = 2 /\ Second(i).of = i
                   /\ First(i) # Enter /\ First(i) # CtrlC
  /\ \A i, j \in Ids : Second(i) # First(j) /\ (First(i) = First(j) => i = j)
  /\ \A h \in Half : h.of \in Ids /\ (h.half = 1 => h = First(h.of))
<1>1. \A k \in {Enter, CtrlC} : k \notin Half
  <2>1. SUFFICES ASSUME NEW k \in {Enter, CtrlC}, k \in Half PROVE FALSE
    OBVIOUS
  <2>2. DOMAIN k = {"of", "half"}
    BY <2>1 DEF Half
  <2>3. DOMAIN k = {"key"}
    BY <2>1 DEF Enter, CtrlC
  <2> QED BY <2>2, <2>3
<1>2. \A i \in Ids : /\ First(i) \in Half /\ First(i).half = 1 /\ First(i).of = i
                    /\ Second(i) \in Half /\ Second(i).half = 2 /\ Second(i).of = i
  BY DEF First, Second, Half
<1>3. \A h \in Half : h.of \in Ids /\ (h.half = 1 => h = First(h.of))
  BY DEF First, Half
<1> QED BY <1>1, <1>2, <1>3

\* A step that does not type keeps the lines whole if it takes no client into a line.
LEMMA LineQuiet ==
  ASSUME LineInv, UNCHANGED <<events, tty>>, up => up',
         \A d \in Clients : pc'[d] = "half2" => pc[d] = "half2" /\ cmd'[d] = cmd[d]
  PROVE  LineInv'
<1>1. Idle'
  BY DEF LineInv, Idle
<1>2. HalfTyped'
  BY DEF LineInv, HalfTyped
<1>3. WholeLines'
  BY DEF LineInv, WholeLines
<1> QED BY <1>1, <1>2, <1>3 DEF LineInv

\* One that types k does if no client is inside a line, or k is its rest.
LEMMA LineTyped ==
  ASSUME TypeInv, LineInv, UNCHANGED <<events, up>>, NEW k \in Typed, Type(k),
         "rebind" \notin events /\ k \in Half /\ k.half = 2 =>
             tty = <<>> \/ tty[Len(tty)] = First(k.of),
         "rebind" \notin events =>
             \A d \in Clients : pc'[d] = "half2" => k = First(cmd'[d])
  PROVE  LineInv'
<1>0. tty \in Seq(Typed) /\ up \in BOOLEAN
  BY DEF TypeInv, TypeOKConsole
<1>w. "rebind" \notin events => Whole(tty)
  BY DEF LineInv, WholeLines, Whole, First
<1>1. CASE ~up
  <2>1. tty' = <<>>
    BY <1>1 DEF Type, LineInv, Idle
  <2>2. Idle' /\ HalfTyped'
    BY <2>1 DEF Idle, HalfTyped
  <2>3. WholeLines'
    BY <2>1, WholeShort DEF WholeLines, Whole, First
  <2> QED BY <2>2, <2>3 DEF LineInv
<1>2. CASE up
  <2>0. tty' = Append(tty, k)
    BY <1>2 DEF Type
  <2>1. Idle'
    BY <1>2 DEF Idle
  <2>2. tty'[Len(tty')] = k
    BY <1>0, <2>0, AppendProperties
  <2>3. HalfTyped'
    BY <2>2 DEF HalfTyped
  <2>4. "rebind" \notin events => Whole(tty')
    BY <1>0, <1>w, <2>0, WholeAppend
  <2>5. WholeLines'
    BY <2>4 DEF WholeLines, Whole, First
  <2> QED BY <2>1, <2>3, <2>5 DEF LineInv
<1> QED BY <1>0, <1>1, <1>2

\* An empty line typed while no client is inside a line.
LEMMA EnterTyped ==
  ASSUME TypeInv, LineInv, UNCHANGED <<events, up>>, Type(Enter),
         "rebind" \notin events => \A d \in Clients : pc'[d] # "half2"
  PROVE  LineInv'
  BY LineTyped, Parts, Literals

LEMMA ClientLines ==
  ASSUME TypeInv, Exclusive, LineInv, NEW c \in Clients, ClientStep(c), UNCHANGED events
  PROVE  LineInv'
<1> USE DEF To, Step, client, port, target
<1>0. /\ pc \in [Clients -> ClientAt] /\ NoOne \notin Clients /\ cmd \in [Clients -> 0 .. MaxCmds]
  BY ConsoleAssumption DEF TypeInv, TypeOKConsole
<1>l. pc[c] \in Held => \A d \in Clients : d # c => pc[d] # "half2"
  BY DEF Exclusive, Locked, Held
<1>r. ASSUME NEW r, Return(c, r), UNCHANGED <<wire, target, watchdog>> PROVE LineInv'
  BY <1>0, <1>r, LineQuiet DEF Return
<1>2. CASE RunCall(c)
  BY <1>0, <1>2, LineQuiet DEF RunCall
<1>3. CASE Acquire(c)
  BY <1>0, <1>3, LineQuiet DEF Acquire
<1>4. CASE Flush(c)
  BY <1>0, <1>4, LineQuiet DEF Flush
<1>5. CASE Interrupt(c)
  <2>1. \A d \in Clients : pc'[d] # "half2"
    BY <1>0, <1>5, <1>l DEF Interrupt, Held
  <2>2. HalfTyped'
    BY <2>1 DEF HalfTyped
  <2>3. Idle' /\ (tty' = <<>> \/ tty' = <<CtrlC>>)
    BY <1>5 DEF Interrupt, Idle
  <2>4. WholeLines'
    BY <2>3, WholeShort DEF WholeLines, Whole, First
  <2> QED BY <2>2, <2>3, <2>4 DEF LineInv
<1>6. CASE Subscribe(c)
  BY <1>0, <1>6, LineQuiet DEF Subscribe
<1>7. CASE WriteHalf(c)
  <2>0. /\ UNCHANGED <<events, up, cmd>>
        /\ \A d \in Clients : pc'[d] = "half2" => d = c /\ pc[c] = "half1"
    BY <1>0, <1>7, <1>l DEF WriteHalf, Held
  <2>1. CASE pc[c] = "half1"
    <3>1. cmd[c] \in Ids /\ First(cmd[c]) \in Typed
      BY <1>0, <2>1, Literals DEF TypeInv, NotEmpty, Halving, Ids
    <3>2. Type(First(cmd[c]))
      BY <1>7, <2>1 DEF WriteHalf, First
    <3> QED BY <2>0, <3>1, <3>2, LineTyped, Parts
  <2>2. CASE pc[c] = "half2"
    <3>1. cmd[c] \in Ids /\ Second(cmd[c]) \in Typed
      BY <1>0, <2>2, Literals DEF TypeInv, NotEmpty, Halving, Ids
    <3>2. Type(Second(cmd[c]))
      BY <1>7, <2>2 DEF WriteHalf, Second
    <3>3. "rebind" \notin events => tty = <<>> \/ tty[Len(tty)] = First(cmd[c])
      BY <2>2 DEF LineInv, HalfTyped
    <3>4. \A d \in Clients : pc'[d] # "half2"
      BY <2>0, <2>2
    <3> QED BY <2>0, <3>1, <3>2, <3>3, <3>4, LineTyped, Parts
  <2>3. CASE pc[c] = "enter"
    BY <1>7, <2>0, <2>3, EnterTyped DEF WriteHalf
  <2> QED BY <1>7, <2>1, <2>2, <2>3 DEF WriteHalf
<1>8. CASE Ping(c)
  BY <1>8, <1>l, EnterTyped DEF Ping, Held
<1>9. CASE WriteFails(c)
  BY <1>9, <1>r DEF WriteFails, WriteRaises
<1>w. ASSUME EndWait1(c), UNCHANGED <<wire, target, watchdog>> PROVE LineInv'
  BY <1>0, <1>w, LineQuiet DEF EndWait1
<1>10. CASE Receive(c)
  <2>1. UNCHANGED <<wire, target, watchdog>>
    BY <1>10 DEF Receive
  <2>2. (\E r : Return(c, r)) \/ EndWait1(c) \/ UNCHANGED <<pc, cmd>>
    BY <1>10 DEF Receive
  <2> QED BY <1>r, <1>w, <2>1, <2>2, LineQuiet
<1>11. CASE Expires(c)
  BY <1>11, <1>r, <1>w DEF Expires
<1>12. CASE RawWrite(c)
  <2>1. \A d \in Clients : pc[d] # "half2"
    BY <1>0, <1>12 DEF RawWrite, Exclusive, Locked, Held
  <2> QED BY <1>12, <2>1, EnterTyped DEF RawWrite
<1>13. CASE Connect(c)
  <2>1. "rebind" \notin events => \A d \in Clients : pc'[d] # "half2"
    BY <1>0, <1>13 DEF Connect, Exclusive, Alone
  <2> QED BY <1>13, <2>1, EnterTyped DEF Connect
<1>14. CASE DisconnectCall(c)
  BY <1>0, <1>14, LineQuiet DEF DisconnectCall
<1>15. CASE DisconnectClose(c)
  BY <1>0, <1>15, LineQuiet DEF DisconnectClose
<1>16. CASE SetMuted(c)
  BY <1>16, LineQuiet DEF SetMuted
<1>17. CASE ConnectDrained(c)
  BY <1>0, <1>17, LineQuiet DEF ConnectDrained
<1> QED BY <1>2, <1>3, <1>4, <1>5, <1>6, <1>7, <1>8, <1>9, <1>10, <1>11, <1>12, <1>13, <1>14,
           <1>15, <1>16, <1>17
        DEF ClientStep

\* The board takes lines from the front.
LEMMA BoardLines ==
  ASSUME TypeInv, LineInv, BoardStep, UNCHANGED events
  PROVE  LineInv'
<1>0. tty \in Seq(Typed) /\ up \in BOOLEAN
  BY DEF TypeInv, TypeOKConsole
<1>u. UNCHANGED <<pc, cmd>>
  BY DEF BoardStep, BoardReads, BoardFinishes, BoardDies, BoardRestarts, Prints, client
<1>1. CASE BoardReads
  <2>0. tty # <<>> /\ up /\ up'
    BY <1>1 DEF BoardReads
  <2>1. tty' = Tail(tty) \/ (Len(tty) > 1 /\ tty' = Tail(Tail(tty)))
    BY <1>1 DEF BoardReads
  <2>2. Tail(tty) \in Seq(Typed) /\ (Len(tty) > 1 => Tail(tty) # <<>>)
    BY <1>0, <2>0, HeadTailProperties, TwoOrMore
  <2>w. "rebind" \notin events => Whole(tty)
    BY DEF LineInv, WholeLines, Whole, First
  <2>3. "rebind" \notin events =>
          Whole(tty') /\ (tty' = <<>> \/ tty'[Len(tty')] = tty[Len(tty)])
    <3> SUFFICES ASSUME "rebind" \notin events
                 PROVE  Whole(tty') /\ (tty' = <<>> \/ tty'[Len(tty')] = tty[Len(tty)])
      OBVIOUS
    <3>1. /\ Whole(Tail(tty))
          /\ Tail(tty) = <<>> \/ Tail(tty)[Len(Tail(tty))] = tty[Len(tty)]
      BY <1>0, <2>0, <2>w, WholeTail
    <3>2. CASE tty' = Tail(tty)
      BY <3>1, <3>2, Zenon
    <3>3. CASE Len(tty) > 1 /\ tty' = Tail(Tail(tty))
      <4> DEFINE u == Tail(tty)
      <4>1. u \in Seq(Typed) /\ u # <<>> /\ Whole(u) /\ tty' = Tail(u)
        BY <2>2, <3>1, <3>3
      <4>2. Whole(Tail(u)) /\ (Tail(u) = <<>> \/ Tail(u)[Len(Tail(u))] = u[Len(u)])
        <5> HIDE DEF u
        <5> QED BY <4>1, WholeTail
      <4> QED BY <3>1, <4>1, <4>2, Zenon
    <3> QED BY <2>1, <3>2, <3>3
  <2>4. Idle'
    BY <2>0 DEF Idle
  <2>5. HalfTyped'
    BY <1>u, <2>0, <2>3 DEF LineInv, HalfTyped
  <2>6. WholeLines'
    BY <2>3 DEF WholeLines, Whole, First
  <2> QED BY <2>4, <2>5, <2>6 DEF LineInv
<1>2. CASE BoardFinishes \/ BoardRestarts
  BY <1>2, <1>u, LineQuiet DEF BoardFinishes, BoardRestarts
<1>3. CASE BoardDies
  <2>1. tty' = <<>>
    BY <1>3, Zenon DEF BoardDies
  <2>2. Idle' /\ HalfTyped'
    BY <2>1 DEF Idle, HalfTyped
  <2>3. WholeLines'
    BY <2>1, WholeShort DEF WholeLines, Whole, First
  <2> QED BY <2>2, <2>3 DEF LineInv
<1> QED BY <1>1, <1>2, <1>3 DEF BoardStep

LEMMA LineInductive == TypeInv /\ Exclusive /\ LineInv /\ [Next]_vars => LineInv'
<1> SUFFICES ASSUME TypeInv, Exclusive, LineInv, [Next]_vars PROVE LineInv'
  OBVIOUS
<1>1. CASE UNCHANGED <<events, tty, up, pc, cmd>>
  BY <1>1, LineQuiet
<1>2. CASE Next /\ (Rx \/ \E m \in Monitors : MonitorStep(m))
  <2>1. UNCHANGED <<events, tty, up, pc, cmd>>
    BY <1>2 DEF Next, MonitorStep, MonitorExits, MonitorSubscribes, MonitorReads, MonitorLeaves, Rx,
                client, target
  <2> QED BY <1>1, <2>1
<1> QED BY <1>1, <1>2, ClientLines, BoardLines DEF Next, vars, client, target

\* For any number of clients: while nobody reconnects the port under a running
\* command, the parts of a line reach the board together, although clients, pings
\* and raw writes share the port (EphemeralSerialClient.write_line, raw_write, expect).
THEOREM LinesAreWhole == Spec => []WholeLines
<1>1. Init => Exclusive /\ LineInv
  <2> SUFFICES ASSUME Init PROVE Exclusive /\ LineInv
    OBVIOUS
  <2>1. Exclusive
    BY DEF Init, Exclusive, Locked, Alone, Held
  <2>2. tty = <<>> /\ \A c \in Clients : pc[c] # "half2"
    BY DEF Init
  <2> QED BY <2>1, <2>2, WholeShort DEF LineInv, Idle, HalfTyped, WholeLines, Whole, First
<1>2. LineInv => WholeLines
  BY DEF LineInv
<1> QED BY <1>1, <1>2, TypeInitially, TypeInductive, ExclusiveInductive, LineInductive, PTL DEF Spec
-----------------------------------------------------------------------------
(* How often a command runs                                                 *)

LEMMA AppendOnce ==
  ASSUME NEW t \in Seq(Typed), NEW k \in Typed, Once(t),
         \A i \in Ids : k = First(i) => ~Has(t, i)
  PROVE  /\ Once(Append(t, k))
         /\ \A i \in Ids : Has(Append(t, k), i) => Has(t, i) \/ k = First(i)
<1> DEFINE a == Append(t, k)
           n == Len(t)
<1>1. /\ n \in Nat /\ Len(a) = n + 1 /\ a[n + 1] = k
      /\ \A i \in 1 .. n : a[i] = t[i]
  BY AppendProperties, LenProperties
<1>2. \A i \in 1 .. n + 1 : i = n + 1 \/ i \in 1 .. n
  BY <1>1
<1> HIDE DEF a, n
<1>3. ASSUME NEW i \in Ids, NEW j \in 1 .. n + 1, a[j] = First(i)
      PROVE  IF j = n + 1 THEN k = First(i) ELSE j \in 1 .. n /\ t[j] = First(i) /\ Has(t, i)
  BY <1>1, <1>2, <1>3 DEF Has, n
<1>4. Once(a)
  <2> SUFFICES ASSUME NEW i \in Ids, NEW j \in 1 .. n + 1, NEW l \in 1 .. n + 1,
                      a[j] = First(i), a[l] = First(i)
               PROVE  j = l
    BY <1>1 DEF Once
  <2> QED BY <1>3 DEF Once, n
<1>5. \A i \in Ids : Has(a, i) => Has(t, i) \/ k = First(i)
  BY <1>1, <1>3 DEF Has
<1> QED BY <1>4, <1>5 DEF a

LEMMA TailOnce ==
  ASSUME NEW t \in Seq(Typed), t # <<>>, Once(t)
  PROVE  /\ Once(Tail(t))
         /\ \A i \in Ids : Has(Tail(t), i) => Has(t, i) /\ Head(t) # First(i)
         /\ \A i \in Ids : Head(t) = First(i) => Has(t, i)
<1> DEFINE n == Len(t)
           u == Tail(t)
<1>1. /\ n \in Nat /\ n # 0 /\ Len(u) = n - 1 /\ Head(t) = t[1]
      /\ \A i \in 1 .. Len(u) : u[i] = t[i + 1]
  BY HeadTailProperties, LenProperties, EmptySeq
<1>2. /\ \A i \in 1 .. n - 1 : i + 1 \in 1 .. n /\ i + 1 # 1
      /\ \A i, j \in 1 .. n - 1 : i + 1 = j + 1 => i = j
      /\ 1 \in 1 .. n
  BY <1>1
<1> HIDE DEF n, u
<1>3. Once(u)
  BY <1>1, <1>2 DEF Once, n
<1>4. ASSUME NEW i \in Ids, NEW k \in 1 .. n - 1, u[k] = First(i)
      PROVE  Has(t, i) /\ Head(t) # First(i)
  <2>1. k + 1 \in 1 .. n /\ k + 1 # 1 /\ t[k + 1] = First(i) /\ 1 \in 1 .. n
    BY <1>1, <1>2, <1>4
  <2> QED BY <1>1, <2>1 DEF Has, Once, n
<1>5. \A i \in Ids : Head(t) = First(i) => Has(t, i)
  BY <1>1, <1>2 DEF Has, n
<1> QED BY <1>1, <1>3, <1>4, <1>5 DEF Has, u

LEMMA ShortOnce ==
  /\ Once(<<>>) /\ Once(<<CtrlC>>)
  /\ \A i \in Ids : ~Has(<<>>, i) /\ ~Has(<<CtrlC>>, i)
  BY Parts DEF Once, Has

\* A step with which no command is begun, typed or ended.
LEMMA OnceQuiet ==
  ASSUME TypeInv, OnceInv, UNCHANGED <<cmd, issued, exit>>, running' \in {running, 0}, Once(tty'),
         \A i \in Ids : Has(tty', i) => Has(tty, i),
         \A c \in Clients : pc'[c] \in Before => pc[c] \in Before
  PROVE  OnceInv'
<1>1. 0 \notin Ids /\ cmd \in [Clients -> 0 .. MaxCmds] /\ MaxCmds \in Nat
  BY ConsoleAssumption DEF Ids, TypeInv, TypeOKConsole
<1>2. \A i \in Ids : Unrun(i) => Unrun(i)'
  BY <1>1 DEF Unrun
<1>3. \A c \in Clients : cmd[c] # 0 => cmd[c] \in Ids
  BY <1>1 DEF Ids
<1> QED BY <1>1, <1>2, <1>3 DEF OnceInv

\* One that types something that is not the beginning of a command.
LEMMA TypeQuiet ==
  ASSUME TypeInv, OnceInv, UNCHANGED <<cmd, issued, exit, running>>,
         NEW k \in Typed, \A i \in Ids : k # First(i), Type(k),
         \A c \in Clients : pc'[c] \in Before => pc[c] \in Before
  PROVE  OnceInv'
<1>1. tty \in Seq(Typed) /\ Once(tty)
  BY DEF TypeInv, TypeOKConsole, OnceInv
<1>2. Once(tty') /\ \A i \in Ids : Has(tty', i) => Has(tty, i)
  BY <1>1, AppendOnce DEF Type
<1> QED BY <1>2, OnceQuiet

LEMMA ClientOnce ==
  ASSUME TypeInv, OnceInv, NEW c \in Clients, ClientStep(c)
  PROVE  OnceInv'
<1> USE DEF To, Step, client, port, target
<1>0. /\ pc \in [Clients -> ClientAt] /\ cmd \in [Clients -> 0 .. MaxCmds] /\ tty \in Seq(Typed)
      /\ issued \in 0 .. MaxCmds /\ MaxCmds \in Nat /\ Once(tty)
  BY ConsoleAssumption DEF TypeInv, TypeOKConsole, OnceInv
<1>q. ASSUME UNCHANGED <<cmd, issued, exit, running, tty>>,
             \A d \in Clients : pc'[d] \in Before => pc[d] \in Before
      PROVE  OnceInv'
  BY <1>0, <1>q, OnceQuiet
<1>r. ASSUME NEW r, Return(c, r), UNCHANGED <<wire, target, watchdog>> PROVE OnceInv'
  BY <1>0, <1>r, <1>q DEF Return, Before
<1>e. Enter \in Typed /\ \A i \in Ids : Enter # First(i)
  BY Literals, Parts
<1>2. CASE RunCall(c)
  <2>0. /\ \A d \in Clients \ {c} : pc'[d] = pc[d] /\ cmd'[d] = cmd[d]
        /\ UNCHANGED <<exit, running, tty>>
    BY <1>0, <1>2 DEF RunCall
  <2>u. \A i \in Ids : Unrun(i)' <=> Unrun(i)
    BY <2>0 DEF Unrun
  <2>1. CASE cmd' = [cmd EXCEPT ![c] = 0] /\ UNCHANGED issued
    <3>1. cmd'[c] = 0
      BY <1>0, <2>1
    <3>2. \A d \in Clients : cmd[d] # 0 => cmd[d] \in Ids
      BY <1>0 DEF Ids
    <3> QED BY <1>0, <2>0, <2>1, <2>u, <3>1, <3>2 DEF OnceInv
  <2>2. CASE issued < MaxCmds /\ issued' = issued + 1 /\ cmd' = [cmd EXCEPT ![c] = issued']
    <3>1. cmd'[c] = issued' /\ issued' \in Ids /\ issued' > issued
      BY <1>0, <2>2 DEF Ids
    <3>2. Unrun(issued')
      BY <3>1 DEF OnceInv
    <3>3. \A d \in Clients : cmd[d] # 0 => cmd[d] \in Ids
      BY <1>0 DEF Ids
    <3>4. \A i \in Ids : i > issued' => i > issued
      BY <1>0, <2>2 DEF Ids
    <3>5. \A d \in Clients \ {c} : cmd'[d] <= issued /\ cmd'[d] # issued' /\ cmd'[d] <= issued'
      BY <1>0, <2>0, <2>2 DEF OnceInv
    <3>6. \A d \in Clients : cmd'[d] <= issued'
      BY <1>0, <2>2, <3>1, <3>5
    <3>7. \A d, e \in Clients : cmd'[d] = cmd'[e] /\ cmd'[d] # 0 => d = e
      BY <2>0, <3>1, <3>5 DEF OnceInv
    <3>8. \A d \in Clients : (pc[d] \in Before /\ cmd[d] # 0 => Unrun(cmd[d]))'
      <4> SUFFICES ASSUME NEW d \in Clients, pc'[d] \in Before, cmd'[d] # 0 PROVE Unrun(cmd[d])'
        OBVIOUS
      <4>1. cmd'[d] \in Ids /\ Unrun(cmd'[d])
        BY <2>0, <3>1, <3>2, <3>3 DEF OnceInv
      <4> QED BY <2>0, <4>1 DEF Unrun
    <3> QED BY <2>0, <2>u, <3>4, <3>6, <3>7, <3>8 DEF OnceInv
  <2> QED BY <1>2, <2>1, <2>2 DEF RunCall
<1>3. CASE Acquire(c)
  BY <1>0, <1>3, <1>q DEF Acquire, Before
<1>4. CASE Flush(c)
  BY <1>0, <1>4, <1>q DEF Flush, Before
<1>5. CASE Interrupt(c)
  <2>1. tty' = <<>> \/ tty' = <<CtrlC>>
    BY <1>5 DEF Interrupt
  <2>2. Once(tty') /\ \A i \in Ids : ~Has(tty', i)
    BY <2>1, ShortOnce, Zenon
  <2> QED BY <1>0, <1>5, <2>2, OnceQuiet DEF Interrupt, Before
<1>6. CASE Subscribe(c)
  BY <1>0, <1>6, <1>q DEF Subscribe, Before
<1>7. CASE WriteHalf(c)
  <2>1. CASE pc[c] = "half1"
    <3> DEFINE i == cmd[c]
    <3>1. i \in Ids /\ First(i) \in Typed /\ Unrun(i)
      BY <1>0, <2>1, Literals DEF TypeInv, NotEmpty, Halving, Ids, OnceInv, Before
    <3>2. /\ Type(First(i)) /\ UNCHANGED <<cmd, issued, exit, running>>
          /\ pc' = [pc EXCEPT ![c] = "half2"]
      BY <1>7, <2>1 DEF WriteHalf, First
    <3>3. Once(tty') /\ \A j \in Ids : Has(tty', j) => Has(tty, j) \/ j = i
      <4>1. \A j \in Ids : First(i) = First(j) => j = i
        BY <3>1, Parts
      <4> QED BY <1>0, <3>1, <3>2, <4>1, AppendOnce DEF Type, Unrun
    <3>4. \A j \in Ids : j # i => (Unrun(j) => Unrun(j)')
      BY <3>2, <3>3 DEF Unrun
    <3>5. i <= issued /\ i \in Nat /\ issued \in Nat
      BY <1>0 DEF OnceInv
    <3>6. \A j \in Ids : j > issued => Unrun(j)'
      BY <3>4, <3>5 DEF OnceInv, Ids
    <3>7. \A d \in Clients : pc'[d] \in Before /\ cmd[d] # 0 => Unrun(cmd[d])'
      <4> SUFFICES ASSUME NEW d \in Clients, pc'[d] \in Before, cmd[d] # 0 PROVE Unrun(cmd[d])'
        OBVIOUS
      <4>1. d # c /\ pc[d] \in Before
        BY <1>0, <3>2 DEF Before
      <4>2. cmd[d] # i /\ cmd[d] \in Ids /\ Unrun(cmd[d])
        BY <1>0, <4>1 DEF OnceInv, Ids
      <4>3. Unrun(cmd[d])'
        BY <3>2, <3>3, <4>2 DEF Unrun
      <4> QED BY <4>3
    <3>8. \A j \in Ids : running' = j \/ exit'[j] # "none" => ~Has(tty', j)
      BY <3>1, <3>2, <3>3 DEF OnceInv, Unrun
    <3> QED BY <3>2, <3>3, <3>6, <3>7, <3>8 DEF OnceInv
  <2>2. CASE pc[c] = "half2"
    <3>1. cmd[c] \in Ids /\ Second(cmd[c]) \in Typed
      BY <1>0, <2>2, Literals DEF TypeInv, NotEmpty, Halving, Ids
    <3>2. Type(Second(cmd[c])) /\ UNCHANGED <<cmd, issued, exit, running>>
      BY <1>7, <2>2 DEF WriteHalf, Second
    <3>3. \A d \in Clients : pc'[d] \in Before => pc[d] \in Before
      BY <1>0, <1>7, <2>2 DEF WriteHalf, Before
    <3> QED BY <3>1, <3>2, <3>3, TypeQuiet, Parts
  <2>3. CASE pc[c] = "enter"
    <3>1. \A d \in Clients : pc'[d] \in Before => pc[d] \in Before
      BY <1>0, <1>7, <2>3 DEF WriteHalf, Before
    <3>2. Type(Enter) /\ UNCHANGED <<cmd, issued, exit, running>>
      BY <1>7, <2>3 DEF WriteHalf
    <3> QED BY <1>e, <3>1, <3>2, TypeQuiet
  <2> QED BY <1>7, <2>1, <2>2, <2>3 DEF WriteHalf
<1>8. CASE Ping(c) \/ RawWrite(c) \/ Connect(c)
  <2>1. Type(Enter) /\ UNCHANGED <<cmd, issued, exit, running>>
    BY <1>8 DEF Ping, RawWrite, Connect
  <2>2. \A d \in Clients : pc'[d] \in Before => pc[d] \in Before
    BY <1>0, <1>8 DEF Ping, RawWrite, Connect, Before
  <2> QED BY <1>e, <2>1, <2>2, TypeQuiet
<1>9. CASE WriteFails(c)
  BY <1>9, <1>r DEF WriteFails, WriteRaises
<1>w. ASSUME pc[c] = "wait1", EndWait1(c), UNCHANGED <<wire, target, watchdog>> PROVE OnceInv'
  BY <1>0, <1>w, <1>q DEF EndWait1, Before
<1>10. CASE Receive(c)
  <2>1. UNCHANGED <<wire, target, watchdog>>
    BY <1>10 DEF Receive
  <2>2. (\E r : Return(c, r)) \/ (pc[c] = "wait1" /\ EndWait1(c)) \/ UNCHANGED <<pc, cmd, issued>>
    BY <1>10 DEF Receive
  <2> QED BY <1>r, <1>w, <1>q, <2>1, <2>2
<1>11. CASE Expires(c)
  BY <1>11, <1>r, <1>w DEF Expires
<1>12. CASE DisconnectCall(c)
  BY <1>0, <1>12, <1>q DEF DisconnectCall, Before
<1>13. CASE DisconnectClose(c)
  BY <1>0, <1>13, <1>q DEF DisconnectClose, Before
<1>14. CASE SetMuted(c)
  BY <1>14, <1>q DEF SetMuted
<1>15. CASE ConnectDrained(c)
  BY <1>0, <1>15, <1>q DEF ConnectDrained, Before
<1> QED BY <1>2, <1>3, <1>4, <1>5, <1>6, <1>7, <1>8, <1>9, <1>10, <1>11, <1>12, <1>13, <1>14, <1>15
        DEF ClientStep

\* What the board starts is a command whose line it takes from the front, which
\* it has not run; nothing of that line is left.
LEMMA BoardStarts ==
  ASSUME TypeInv, OnceInv, Shell, BoardReads
  PROVE  /\ Once(tty') /\ \A i \in Ids : Has(tty', i) => Has(tty, i)
         /\ running = 0
         /\ \/ running' = running
            \/ /\ running' \in Ids /\ Has(tty, running') /\ ~Has(tty', running')
<1>0. tty \in Seq(Typed) /\ Once(tty) /\ tty # <<>> /\ running = 0
  BY DEF TypeInv, TypeOKConsole, OnceInv, BoardReads
<1>1. /\ Tail(tty) \in Seq(Typed) /\ Once(Tail(tty))
      /\ \A i \in Ids : Has(Tail(tty), i) => Has(tty, i) /\ Head(tty) # First(i)
      /\ \A i \in Ids : Head(tty) = First(i) => Has(tty, i)
  BY <1>0, HeadTailProperties, TailOnce
<1>2. CASE tty' = Tail(tty) /\ UNCHANGED running
  BY <1>0, <1>1, <1>2
<1>3. CASE Head(tty) \in Half /\ Len(tty) > 1 /\ tty' = Tail(Tail(tty))
  <2> DEFINE u == Tail(tty)
  <2>1. u \in Seq(Typed) /\ u # <<>> /\ Once(u) /\ tty' = Tail(u)
    BY <1>0, <1>1, <1>3, TwoOrMore
  <2>2. Once(Tail(u)) /\ \A i \in Ids : Has(Tail(u), i) => Has(u, i)
    <3> HIDE DEF u
    <3> QED BY <2>1, TailOnce
  <2>3. Once(tty') /\ \A i \in Ids : Has(tty', i) => Has(tty, i) /\ Head(tty) # First(i)
    BY <1>1, <2>1, <2>2
  <2>4. CASE Head(tty).half = 1 /\ running' = Head(tty).of
    BY <1>0, <1>1, <1>3, <2>3, <2>4, Parts
  <2>5. CASE UNCHANGED running
    BY <1>0, <2>3, <2>5
  <2>6. (Head(tty).half = 1 /\ running' = Head(tty).of) \/ UNCHANGED running
    BY DEF BoardReads, Shell
  <2> QED BY <2>4, <2>5, <2>6
<1> QED BY <1>2, <1>3 DEF BoardReads, Shell

LEMMA BoardOnce ==
  ASSUME TypeInv, OnceInv, Shell, BoardStep
  PROVE  OnceInv'
<1>0. /\ cmd \in [Clients -> 0 .. MaxCmds] /\ MaxCmds \in Nat /\ 0 \notin Ids
      /\ running \in 0 .. MaxCmds /\ exit \in [Ids -> Code \cup {"none"}]
  BY ConsoleAssumption DEF TypeInv, TypeOKConsole, Ids
<1>u. UNCHANGED <<pc, cmd, issued>>
  BY DEF BoardStep, BoardReads, BoardFinishes, BoardDies, BoardRestarts, Prints, client
<1>c. \A d \in Clients : cmd[d] # 0 => cmd[d] \in Ids
  BY <1>0 DEF Ids
<1>1. CASE BoardReads
  <2>0. UNCHANGED exit
    BY <1>1 DEF BoardReads
  <2>1. CASE UNCHANGED running
    BY <1>1, <1>u, <2>0, <2>1, BoardStarts, OnceQuiet
  <2>2. CASE running' \in Ids /\ Has(tty, running') /\ ~Has(tty', running')
    <3>1. \A i \in Ids : Unrun(i) => Unrun(i)'
      BY <1>1, <2>0, <2>2, BoardStarts DEF Unrun
    <3>2. exit[running'] = "none"
      BY <2>2 DEF OnceInv
    <3>3. \A d \in Clients : pc[d] \in Before /\ cmd[d] # 0 => Unrun(cmd[d])'
      <4> SUFFICES ASSUME NEW d \in Clients, pc[d] \in Before, cmd[d] # 0 PROVE Unrun(cmd[d])'
        OBVIOUS
      <4>1. cmd[d] \in Ids /\ Unrun(cmd[d]) /\ cmd' = cmd
        BY <1>c, <1>u DEF OnceInv
      <4> QED BY <1>1, <2>0, <2>2, <4>1, BoardStarts DEF Unrun
    <3> QED BY <1>1, <1>u, <2>0, <2>2, <3>1, <3>2, <3>3, BoardStarts DEF OnceInv
  <2> QED BY <1>1, <2>1, <2>2, BoardStarts
<1>2. CASE BoardFinishes
  <2>0. PICK e \in Code : exit' = [exit EXCEPT ![running] = e]
    BY <1>2 DEF BoardFinishes
  <2>1. running \in Ids /\ running' = 0 /\ UNCHANGED tty
    BY <1>0, <1>2 DEF BoardFinishes, Ids
  <2>2. \A i \in Ids : i # running => exit'[i] = exit[i]
    BY <1>0, <2>0, <2>1
  <2>3. \A i \in Ids : Unrun(i) => Unrun(i)'
    BY <1>0, <2>1, <2>2 DEF Unrun
  <2>4. \A d \in Clients : pc[d] \in Before /\ cmd[d] # 0 => Unrun(cmd[d])'
    <3> SUFFICES ASSUME NEW d \in Clients, pc[d] \in Before, cmd[d] # 0 PROVE Unrun(cmd[d])'
      OBVIOUS
    <3>1. cmd[d] \in Ids /\ Unrun(cmd[d]) /\ cmd' = cmd
      BY <1>c, <1>u DEF OnceInv
    <3> QED BY <1>0, <2>1, <2>2, <3>1 DEF Unrun
  <2>5. \A i \in Ids : running' = i \/ exit'[i] # "none" => ~Has(tty', i)
    BY <1>0, <2>1, <2>2 DEF OnceInv
  <2> QED BY <1>0, <1>u, <2>1, <2>3, <2>4, <2>5 DEF OnceInv
<1>3. CASE BoardDies
  <2>1. tty' = <<>> /\ running' = 0 /\ UNCHANGED exit
    BY <1>3, Zenon DEF BoardDies
  <2>2. Once(tty') /\ \A i \in Ids : ~Has(tty', i)
    BY <2>1, ShortOnce, Zenon
  <2> QED BY <1>u, <2>1, <2>2, OnceQuiet
<1>4. CASE BoardRestarts
  <2>1. Once(tty)
    BY DEF OnceInv
  <2> QED BY <1>4, <1>u, <2>1, OnceQuiet DEF BoardRestarts
<1> QED BY <1>1, <1>2, <1>3, <1>4 DEF BoardStep

LEMMA OnceInductive == TypeInv /\ (Shell => OnceInv) /\ [Next]_vars => (Shell => OnceInv)'
<1> SUFFICES ASSUME TypeInv, Shell => OnceInv, [Next]_vars, Shell' PROVE OnceInv'
  OBVIOUS
<1>s. Shell /\ OnceInv
  BY DEF Shell, Next, vars
<1>0. Once(tty)
  BY <1>s DEF OnceInv
<1>1. CASE UNCHANGED <<tty, running, exit, pc, cmd, issued>>
  BY <1>s, <1>0, <1>1, OnceQuiet
<1>2. CASE Next /\ (Rx \/ \E m \in Monitors : MonitorStep(m))
  <2>1. UNCHANGED <<tty, running, exit, pc, cmd, issued>>
    BY <1>2 DEF Next, MonitorStep, MonitorExits, MonitorSubscribes, MonitorReads, MonitorLeaves, Rx,
                client, target
  <2> QED BY <1>1, <2>1
<1> QED BY <1>s, <1>1, <1>2, ClientOnce, BoardOnce DEF Next, vars, client, target

LEMMA OnceInitially == Init => OnceInv
<1> SUFFICES ASSUME Init PROVE OnceInv
  OBVIOUS
<1>0. MaxCmds \in Nat /\ 0 \notin Ids
  BY ConsoleAssumption DEF Ids
<1>1. tty = <<>> /\ running = 0 /\ issued = 0
  BY DEF Init
<1>2. \A i \in Ids : exit[i] = "none"
  BY DEF Init
<1>3. \A c \in Clients : cmd[c] = 0
  BY DEF Init
<1>4. Once(tty) /\ \A i \in Ids : Unrun(i)
  BY <1>0, <1>1, <1>2, ShortOnce DEF Unrun
<1> QED BY <1>0, <1>1, <1>2, <1>3, <1>4 DEF OnceInv, Unrun

LEMMA StepRunsOnce ==
  TypeInv /\ (Shell => OnceInv) /\ [Next]_vars =>
     \A i \in Ids : exit[i] # "none" /\ "uboot" \notin events => running' # i
<1> SUFFICES ASSUME TypeInv, OnceInv, Shell, [Next]_vars, NEW i \in Ids, exit[i] # "none"
             PROVE  running' # i
  BY DEF Shell
<1>0. running # i /\ ~Has(tty, i)
  BY DEF OnceInv
<1>1. 0 # i
  BY DEF Ids
<1>2. CASE running' \in {running, 0}
  BY <1>0, <1>1, <1>2
<1>3. CASE BoardReads
  BY <1>0, <1>3, BoardStarts
<1>4. running' \in {running, 0} \/ BoardReads
  <2>1. ASSUME NEW c \in Clients, ClientStep(c) PROVE running' \in {running, 0}
    BY <2>1 DEF ClientStep, RunCall, Acquire, Flush, Interrupt, Subscribe, WriteHalf, Ping,
                WriteFails, WriteRaises, Receive, Expires, RawWrite, Connect, ConnectDrained,
                DisconnectCall, DisconnectClose, SetMuted, target
  <2>2. ASSUME NEW m \in Monitors, MonitorStep(m) PROVE UNCHANGED running
    BY <2>2 DEF MonitorStep, MonitorExits, MonitorSubscribes, MonitorReads, MonitorLeaves, target
  <2>3. CASE Rx \/ BoardStep
    BY <2>3 DEF Rx, BoardStep, BoardFinishes, BoardDies, BoardRestarts, target
  <2> QED BY <2>1, <2>2, <2>3 DEF Next, vars, target
<1> QED BY <1>2, <1>3, <1>4

\* For any number of clients and commands: on a Linux console the board never starts
\* a command again that has run to its end, although expect types into a console that
\* is silent and a call that failed may leave its line typed
\* (EphemeralSerialClient.safe_run, expect).
THEOREM CommandsRunOnce == Spec => RunsOnce
<1> QED BY TypeInitially, TypeInductive, OnceInitially, OnceInductive, StepRunsOnce, PTL
        DEF Spec, RunsOnce
-----------------------------------------------------------------------------
(* What the console says                                                    *)

LEMMA SeqOver ==
  ASSUME NEW S, NEW T, S \subseteq T
  PROVE  Seq(S) \subseteq Seq(T)
<1> SUFFICES ASSUME NEW s \in Seq(S) PROVE s \in Seq(T)
  OBVIOUS
<1>1. Len(s) \in Nat /\ s = [i \in 1 .. Len(s) |-> s[i]] /\ \A i \in 1 .. Len(s) : s[i] \in S
  BY LenProperties, ElementOfSeq
<1>2. s \in [1 .. Len(s) -> T]
  BY <1>1
<1> QED BY <1>1, <1>2

\* Plain text says nothing about a command.
LEMMA TextHonest == \A t \in Text : Says(t) \in Honest /\ Says(t) \notin Answer
<1> SUFFICES ASSUME NEW t \in Text PROVE Says(t) \in Honest /\ Says(t) \notin Answer
  OBVIOUS
<1>1. Says(t) \notin Answer
  <2>1. SUFFICES ASSUME Says(t) \in Answer PROVE FALSE
    OBVIOUS
  <2>2. DOMAIN Says(t) = {"of", "code"}
    BY <2>1 DEF Answer
  <2>3. DOMAIN Says(t) = {"text"}
    BY DEF Says
  <2> QED BY <2>2, <2>3
<1> QED BY <1>1, Literals DEF Honest

\* How a command ended does not change any more.
LEMMA ExitStays ==
  ASSUME TypeInv, OnceInv, Shell, [Next]_vars
  PROVE  \A i \in Ids : exit[i] # "none" => exit'[i] = exit[i]
<1>0. exit \in [Ids -> Code \cup {"none"}] /\ running \in 0 .. MaxCmds
  BY DEF TypeInv, TypeOKConsole
<1>1. CASE UNCHANGED exit
  BY <1>1
<1>2. CASE BoardFinishes
  <2>1. running \in Ids /\ exit[running] = "none"
    BY <1>0, <1>2 DEF BoardFinishes, OnceInv, Ids
  <2> QED BY <1>0, <1>2, <2>1 DEF BoardFinishes
<1>3. UNCHANGED exit \/ BoardFinishes
  <2>1. ASSUME NEW c \in Clients, ClientStep(c) PROVE UNCHANGED exit
    BY <2>1 DEF ClientStep, RunCall, Acquire, Flush, Interrupt, Subscribe, WriteHalf, Ping,
                WriteFails, WriteRaises, Receive, Expires, RawWrite, Connect, ConnectDrained,
                DisconnectCall, DisconnectClose, SetMuted, target
  <2>2. ASSUME NEW m \in Monitors, MonitorStep(m) PROVE UNCHANGED exit
    BY <2>2 DEF MonitorStep, MonitorExits, MonitorSubscribes, MonitorReads, MonitorLeaves, target
  <2>3. CASE Rx \/ BoardStep
    BY <2>3 DEF Rx, BoardStep, BoardReads, BoardDies, BoardRestarts, target
  <2> QED BY <2>1, <2>2, <2>3 DEF Next, vars, target
<1> QED BY <1>1, <1>2, <1>3

\* So what was not a lie does not become one.
LEMMA StaysHonest ==
  ASSUME TypeInv, OnceInv, Shell, [Next]_vars
  PROVE  Honest \subseteq Honest'
<1> SUFFICES ASSUME NEW k \in Honest PROVE k \in Honest'
  OBVIOUS
<1>1. CASE k \in Answer
  <2>1. k.of \in Ids /\ k.code \in Code /\ exit[k.of] = k.code /\ k \in Chunk
    BY <1>1 DEF Honest, Answer
  <2>2. exit[k.of] # "none"
    BY <2>1 DEF Code
  <2>3. exit'[k.of] = k.code
    BY <2>1, <2>2, ExitStays
  <2> QED BY <2>1, <2>3 DEF Honest
<1>2. CASE k \notin Answer
  BY <1>2 DEF Honest
<1> QED BY <1>1, <1>2

\* What was said before a step is honest after it.
LEMMA SaidNow ==
  ASSUME TypeInv, OnceInv, Shell, Said, [Next]_vars
  PROVE  /\ wire \in Seq(Honest')
         /\ q \in [Subscribers -> Seq(Honest')]
         /\ buf \in [Clients -> SUBSET (Answer \cap Honest')]
<1>1. Honest \subseteq Honest' /\ Seq(Honest) \subseteq Seq(Honest')
  BY StaysHonest, SeqOver
<1> QED BY <1>1 DEF Said

LEMMA ClientSaid ==
  ASSUME TypeInv, OnceInv, Shell, Said, NEW c \in Clients, ClientStep(c), Next
  PROVE  Said'
<1> DEFINE H == Honest'
<1> USE DEF To, Step, client, port
<1>0. /\ wire \in Seq(H) /\ q \in [Subscribers -> Seq(H)]
      /\ buf \in [Clients -> SUBSET (Answer \cap H)]
      /\ c \in Subscribers /\ <<>> \in Seq(H)
  BY SaidNow, EmptySeq DEF Subscribers
<1>s. ASSUME wire' \in Seq(H), q' \in [Subscribers -> Seq(H)],
             buf' \in [Clients -> SUBSET (Answer \cap H)]
      PROVE  Said'
  BY <1>s DEF Said
<1> HIDE DEF H
<1>1. CASE UNCHANGED <<wire, q, buf>>
  BY <1>0, <1>1, <1>s
<1>2. ASSUME UNCHANGED wire, q' = [q EXCEPT ![c] = <<>>], buf' = [buf EXCEPT ![c] = {}]
      PROVE  Said'
  BY <1>0, <1>2, <1>s
<1>3. CASE RunCall(c) \/ Acquire(c) \/ Interrupt(c) \/ Subscribe(c) \/ WriteHalf(c) \/ Ping(c)
           \/ RawWrite(c) \/ DisconnectCall(c) \/ SetMuted(c)
  <2>1. UNCHANGED <<wire, q, buf>>
    BY <1>3 DEF RunCall, Acquire, Interrupt, Subscribe, WriteHalf, Ping, RawWrite, DisconnectCall,
                SetMuted
  <2> QED BY <1>1, <2>1
<1>4. CASE Flush(c) \/ Connect(c) \/ ConnectDrained(c) \/ DisconnectClose(c)
  <2>1. /\ UNCHANGED buf /\ (wire' = wire \/ wire' = <<>>)
        /\ q' = q \/ q' = [s \in Subscribers |-> <<>>]
    BY <1>4 DEF Flush, FlushBuffers, Connect, ConnectDrained, DisconnectClose
  <2>2. wire' \in Seq(H)
    BY <1>0, <2>1
  <2>3. q' \in [Subscribers -> Seq(H)]
    BY <1>0, <2>1
  <2> QED BY <1>0, <1>s, <2>1, <2>2, <2>3
<1>5. CASE WriteFails(c) \/ Expires(c)
  BY <1>2, <1>5 DEF WriteFails, WriteRaises, Return, Expires, EndWait1
<1>6. CASE Receive(c)
  <2>1. CASE /\ buf' = [buf EXCEPT ![c] = @ \cup ({Head(q[c])} \cap Answer)]
             /\ q' = [q EXCEPT ![c] = Tail(@)]
    <3>1. q[c] \in Seq(H) /\ q[c] # <<>> /\ UNCHANGED wire
      BY <1>0, <1>6 DEF Receive
    <3>2. Head(q[c]) \in H /\ Tail(q[c]) \in Seq(H)
      BY <3>1, HeadTailProperties
    <3>3. buf' \in [Clients -> SUBSET (Answer \cap H)]
      BY <1>0, <2>1, <3>2
    <3>4. q' \in [Subscribers -> Seq(H)]
      BY <1>0, <2>1, <3>2
    <3> QED BY <1>0, <1>s, <3>1, <3>3, <3>4
  <2>2. (\E r : Return(c, r)) \/ EndWait1(c)
           \/ (/\ buf' = [buf EXCEPT ![c] = @ \cup ({Head(q[c])} \cap Answer)]
               /\ q' = [q EXCEPT ![c] = Tail(@)])
    BY <1>6 DEF Receive
  <2>3. UNCHANGED wire
    BY <1>6 DEF Receive
  <2> QED BY <1>2, <2>1, <2>2, <2>3 DEF Return, EndWait1
<1> QED BY <1>3, <1>4, <1>5, <1>6 DEF ClientStep

LEMMA OtherSaid ==
  ASSUME TypeInv, OnceInv, Shell, Said, Rx \/ BoardStep \/ \E m \in Monitors : MonitorStep(m), Next
  PROVE  Said'
<1> DEFINE H == Honest'
<1> USE DEF client
<1>0. /\ wire \in Seq(H) /\ q \in [Subscribers -> Seq(H)]
      /\ buf \in [Clients -> SUBSET (Answer \cap H)]
      /\ Monitors \subseteq Subscribers /\ <<>> \in Seq(H)
  BY SaidNow, EmptySeq DEF Subscribers
<1>s. ASSUME wire' \in Seq(H), q' \in [Subscribers -> Seq(H)],
             buf' \in [Clients -> SUBSET (Answer \cap H)]
      PROVE  Said'
  BY <1>s DEF Said
<1>t. \A t \in Text : Says(t) \in Honest'
  BY TextHonest, StaysHonest
<1>h. \A t \in Text : Says(t) \in H
  BY <1>t
<1>1. CASE Rx
  <2> HIDE DEF H
  <2>1. Head(wire) \in H /\ Tail(wire) \in Seq(H)
    BY <1>0, <1>1, HeadTailProperties DEF Rx
  <2>2. \A s \in Subscribers : Copy(s, Head(wire)) \in H
    BY <1>h, <2>1 DEF Copy, Text
  <2>3. \A s \in Subscribers : Append(q[s], Copy(s, Head(wire))) \in Seq(H)
    BY <1>0, <2>2, AppendProperties
  <2>4. q' \in [Subscribers -> Seq(H)]
    BY <1>0, <1>1, <2>3 DEF Rx
  <2> QED BY <1>0, <1>1, <1>s, <2>1, <2>4 DEF Rx
<1>2. ASSUME NEW m \in Monitors, MonitorStep(m) PROVE Said'
  <2> HIDE DEF H
  <2>1. /\ UNCHANGED <<wire, buf>>
        /\ \/ q' = q \/ q' = [q EXCEPT ![m] = <<>>]
           \/ \E k \in 1 .. Len(q[m]) : q' = [q EXCEPT ![m] = SubSeq(@, k + 1, Len(@))]
    BY <1>2 DEF MonitorStep, MonitorExits, MonitorSubscribes, MonitorReads, MonitorLeaves, port
  <2>2. \A k \in 1 .. Len(q[m]) : SubSeq(q[m], k + 1, Len(q[m])) \in Seq(H)
    BY <1>0, PartsTyped
  <2>3. q' \in [Subscribers -> Seq(H)]
    BY <1>0, <2>1, <2>2
  <2> QED BY <1>0, <1>s, <2>1, <2>3
<1>3. CASE BoardStep
  <2>1. PICK s : Prints(s) /\ s \in Seq(H)
    <3>1. CASE BoardReads \/ BoardDies \/ BoardRestarts
      <4>1. /\ <<Says("prompt")>> \in Seq(H) /\ <<Says("text")>> \in Seq(H)
            /\ <<Says("pan"), Says("ic")>> \in Seq(H)
        <5> HIDE DEF H
        <5> QED BY <1>h DEF Text
      <4> QED BY <1>0, <3>1, <4>1 DEF BoardReads, BoardDies, BoardRestarts
    <3>2. CASE BoardFinishes
      <4>1. running \in Ids /\ exit \in [Ids -> Code \cup {"none"}]
        BY <3>2 DEF BoardFinishes, TypeInv, TypeOKConsole, Ids
      <4>2. PICK e \in Code : /\ exit' = [exit EXCEPT ![running] = e]
                              /\ Prints(<<[of |-> running, code |-> e], Says("prompt")>>)
        BY <3>2 DEF BoardFinishes
      <4>3. exit'[running] = e
        BY <4>1, <4>2
      <4>4. [of |-> running, code |-> e] \in Honest'
        BY <4>1, <4>3, Literals DEF Honest
      <4>5. <<[of |-> running, code |-> e], Says("prompt")>> \in Seq(H)
        <5>1. [of |-> running, code |-> e] \in H
          BY <4>4
        <5> HIDE DEF H
        <5> QED BY <1>h, <5>1 DEF Text
      <4> QED BY <4>2, <4>5
    <3> QED BY <1>3, <3>1, <3>2 DEF BoardStep
  <2>2. wire \o s \in Seq(H)
    BY <1>0, <2>1, ConcatProperties
  <2>3. wire' \in Seq(H) /\ UNCHANGED <<q, buf>>
    BY <1>0, <2>1, <2>2 DEF Prints
  <2> QED BY <1>0, <1>s, <2>3
<1> QED BY <1>1, <1>2, <1>3

\* A client that returns a success has its own exit code 0 among what it collected.
LEMMA ClientOwn ==
  ASSUME TypeInv, Said, OwnExitCode, NEW c \in Clients, ClientStep(c), UNCHANGED <<events, exit>>
  PROVE  OwnExitCode'
<1> USE DEF To, Step, client
<1>0. /\ res \in [Clients -> Result] /\ cmd \in [Clients -> 0 .. MaxCmds]
      /\ q \in [Subscribers -> Seq(Honest)] /\ buf \in [Clients -> SUBSET (Answer \cap Honest)]
      /\ c \in Subscribers
  BY DEF TypeInv, TypeOKConsole, Said, Subscribers
<1>1. CASE UNCHANGED <<res, cmd>>
  BY <1>1 DEF OwnExitCode
<1>r. ASSUME NEW r, Return(c, r),
             r = "ok" /\ cmd[c] # 0 /\ "uboot" \notin events => exit[cmd[c]] = "zero"
      PROVE  OwnExitCode'
  <2>1. cmd' = cmd /\ res'[c] = r /\ \A d \in Clients \ {c} : res'[d] = res[d]
    BY <1>0, <1>r DEF Return
  <2> QED BY <1>r, <2>1 DEF OwnExitCode
<1>2. CASE RunCall(c)
  <2>1. /\ res'[c] = "none"
        /\ \A d \in Clients \ {c} : res'[d] = res[d] /\ cmd'[d] = cmd[d]
    BY <1>0, <1>2 DEF RunCall
  <2> QED BY <2>1 DEF OwnExitCode
<1>3. CASE WriteFails(c)
  BY <1>3, <1>r DEF WriteFails, WriteRaises
<1>4. CASE Expires(c)
  <2>1. CASE EndWait1(c)
    BY <1>1, <2>1 DEF EndWait1
  <2>2. CASE Return(c, IF cmd[c] = 0 THEN "ok" ELSE "timeout")
    BY <1>r, <2>2
  <2> QED BY <1>4, <2>1, <2>2 DEF Expires
<1>5. CASE Receive(c)
  <2>1. CASE UNCHANGED <<res, cmd>>
    BY <1>1, <2>1
  <2>2. ASSUME NEW k \in 1 .. Len(q[c]), NEW seen,
               seen = buf[c] \cup ({q[c][i] : i \in 1 .. k} \cap Answer),
               Return(c, IF ExitOk(c, seen) THEN "ok" ELSE "failed")
        PROVE  OwnExitCode'
    <3>1. \A i \in 1 .. k : q[c][i] \in Honest
      <4>1. q[c] \in Seq(Honest) /\ Len(q[c]) \in Nat
        BY <1>0, LenProperties
      <4>2. \A i \in 1 .. k : i \in 1 .. Len(q[c])
        BY <4>1
      <4> QED BY <4>1, <4>2, ElementOfSeq
    <3>2. seen \subseteq Honest
      BY <1>0, <2>2, <3>1
    <3>3. ASSUME ExitOk(c, seen), cmd[c] # 0, "uboot" \notin events PROVE exit[cmd[c]] = "zero"
      <4> DEFINE a == [of |-> cmd[c], code |-> "zero"]
      <4>1. a \in Honest
        BY <3>2, <3>3 DEF ExitOk
      <4>2. cmd[c] \in Ids
        BY <1>0, <3>3 DEF Ids
      <4>3. a \in Answer /\ a.of = cmd[c] /\ a.code = "zero"
        BY <4>2, Literals DEF Code
      <4>4. exit[a.of] = a.code
        BY <4>1, <4>3 DEF Honest
      <4> QED BY <4>3, <4>4
    <3> QED BY <1>r, <2>2, <3>3
  <2>3. CASE EndWait1(c)
    BY <1>1, <2>3 DEF EndWait1
  <2> QED BY <1>5, <2>1, <2>2, <2>3 DEF Receive
<1> QED BY <1>1, <1>2, <1>3, <1>4, <1>5
        DEF ClientStep, Acquire, Flush, Interrupt, Subscribe, WriteHalf, Ping, RawWrite, Connect,
            ConnectDrained, DisconnectCall, DisconnectClose, SetMuted

LEMMA HonestInductive ==
  TypeInv /\ (Shell => OnceInv /\ Said) /\ OwnExitCode /\ [Next]_vars
     => (Shell => Said)' /\ OwnExitCode'
<1>u. ASSUME [Next]_vars, ~Shell PROVE ~Shell' /\ OwnExitCode'
  BY <1>u DEF Shell, Next, vars, OwnExitCode
<1> SUFFICES ASSUME TypeInv, Shell, OnceInv, Said, OwnExitCode, [Next]_vars
             PROVE  Said' /\ OwnExitCode'
  BY <1>u
<1>1. CASE UNCHANGED vars
  BY <1>1 DEF vars, client, port, target, Said, Honest, OwnExitCode
<1>2. ASSUME Next, NEW c \in Clients, ClientStep(c) PROVE Said' /\ OwnExitCode'
  <2>1. UNCHANGED <<events, exit>>
    BY <1>2 DEF Next, ClientStep, RunCall, Acquire, Flush, Interrupt, Subscribe, WriteHalf, Ping,
                WriteFails, WriteRaises, Receive, Expires, RawWrite, Connect, ConnectDrained,
                DisconnectCall, DisconnectClose, SetMuted, target
  <2> QED BY <1>2, <2>1, ClientSaid, ClientOwn
<1>3. ASSUME Next, Rx \/ BoardStep \/ \E m \in Monitors : MonitorStep(m) PROVE Said' /\ OwnExitCode'
  <2>1. UNCHANGED <<events, res, cmd>>
    BY <1>3 DEF Next, MonitorStep, MonitorExits, MonitorSubscribes, MonitorReads, MonitorLeaves, Rx,
                BoardStep, BoardReads, BoardFinishes, BoardDies, BoardRestarts, Prints, client
  <2>2. \A c \in Clients : cmd[c] # 0 => cmd[c] \in Ids
    BY DEF TypeInv, TypeOKConsole, Ids
  <2>3. \A i \in Ids : exit[i] = "zero" => exit'[i] = "zero"
    BY ExitStays
  <2>4. OwnExitCode'
    BY <2>1, <2>2, <2>3 DEF OwnExitCode
  <2> QED BY <1>3, <2>4, OtherSaid
<1> QED BY <1>1, <1>2, <1>3 DEF Next

\* For any number of clients and commands: a success on a Linux console is the
\* command's own, ended with exit code 0 (EphemeralSerialClient.safe_run).  Whatever
\* is left on the wire and in the queues tells the truth about some command, and the
\* token in the marker tells which.
THEOREM ExitCodeIsOwn == Spec => []OwnExitCode
<1>1. Init => (Shell => Said) /\ OwnExitCode
  <2> SUFFICES ASSUME Init PROVE Said /\ OwnExitCode
    OBVIOUS
  <2>1. <<>> \in Seq(Honest)
    BY EmptySeq
  <2>2. Said
    BY <2>1 DEF Init, Said
  <2>3. \A c \in Clients : cmd[c] = 0
    BY DEF Init
  <2> QED BY <2>2, <2>3 DEF OwnExitCode
<1> QED BY <1>1, TypeInitially, TypeInductive, OnceInitially, OnceInductive, HonestInductive, PTL
        DEF Spec
==============================================================================
