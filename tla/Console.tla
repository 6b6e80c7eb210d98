------------------------------- MODULE Console -------------------------------
(***************************************************************************)
(* The serial console: EphemeralSerialClient (serial_client.py), which      *)
(* serialises writers with _tx_lock and copies every received chunk to each *)
(* subscriber, and UartKernelWatchdog (watchdog.py), one of its             *)
(* subscribers.  Client threads, the RX daemon and monitor threads          *)
(* interleave between blocking calls; the board at the other end is         *)
(* external.                                                                *)
(*                                                                         *)
(*   events   what may happen on this console; never changes                *)
(*   open     is_connected                                                  *)
(*   lock     holder of _tx_lock                                            *)
(*   pc       where each client is                                          *)
(*   cmd      its command, 0 for an empty one; issued is how many there were *)
(*   buf      the exit codes in its raw_buffer, by command                  *)
(*   res      how its last safe_run ended                                   *)
(*   subs, q  _subscribers and their queues                                 *)
(*   tty      typed input the board has not read                            *)
(*   wire     printed output the RX daemon has not read                     *)
(*   running  the command the board is executing, 0 at its prompt           *)
(*   last     the command U-Boot repeats when it reads an empty line, or 0   *)
(*   exit     how each command ended on the board                           *)
(*   up       the board's kernel is alive                                   *)
(*   mon      where each monitor thread is; cur is the watchdog's _thread   *)
(*   stop     _stop_event is set                                            *)
(*   window   _rolling_window, in chunks                                    *)
(*   muted, panicked  the watchdog's flags                                  *)
(***************************************************************************)
EXTENDS Naturals, Sequences, FiniteSets

CONSTANTS
    Clients,    \* threads that use the port
    Runners,    \* those that run commands; the others only write and mute
    Monitors,   \* identities for monitor threads
    MaxCmds,    \* bound on the commands issued
    WireMax,    \* bound on the chunks waiting in the port and in a queue
    TtyMax,     \* bound on the typed items waiting at the board
    WindowMax,  \* chunks that fit in the 1024 bytes of _rolling_window
    Consoles    \* the sets of events to consider

AllEvents == {"run",      \* clients run commands
              "type",     \* clients write to the port directly
              "close",    \* clients disconnect and reconnect the port
              "rebind",   \* ... also while another one runs a command
              "mute",     \* the watchdog is muted and unmuted
              "panic",    \* the kernel panics, and is restarted
              "crash",    \* the board resets without a word
              "uboot",    \* the prompt is U-Boot's: no exit codes
              "deaf",     \* a command may survive Ctrl-C
              "unplug",   \* a write may raise
              "slow"}     \* a panic callback may outlast join(1.0)

NoOne == "no one"

ASSUME ConsoleAssumption ==
    /\ NoOne \notin Clients \cup Monitors
    /\ Runners \subseteq Clients
    /\ Clients \cap Monitors = {}
    /\ MaxCmds \in Nat /\ WireMax \in Nat \ {0, 1} /\ TtyMax \in Nat \ {0}
    /\ WindowMax \in Nat \ {0, 1}
    /\ Consoles \subseteq SUBSET AllEvents

VARIABLES events, open, lock, pc, cmd, issued, buf, res, subs, q,
          tty, wire, running, last, exit, up, mon, cur, stop, window, muted, panicked

client == <<lock, pc, cmd, issued, buf, res>>
port == <<open, subs, q, wire>>
target == <<tty, running, last, exit, up>>
watchdog == <<mon, cur, stop, window, muted, panicked>>
vars == <<events, client, port, target, watchdog>>

Ids == 1 .. MaxCmds
Code == {"zero", "nonzero"}
Answer == [of : Ids, code : Code]
Text == {"prompt", "text", "pan", "ic"}     \* "pan", "ic": a panic in two chunks
Chunk == Answer \cup [text : Text]
Half == [of : Ids, half : 1 .. 2]
Typed == Half \cup [key : {"enter", "ctrl-c"}]
Enter == [key |-> "enter"]
CtrlC == [key |-> "ctrl-c"]
Says(t) == [text |-> t]

Subscribers == Clients \cup Monitors
ClientAt == {"idle", "want", "flush1", "interrupt", "sub1", "wait1", "flush2",
             "half1", "half2", "enter", "sub", "wait", "join", "drain"}
MonitorAt == {"dead", "top", "in", "callback"}
Result == {"none", "ok", "failed", "timeout", "raised"}

\* Where a client is while it opens or closes the port.
Switching == {"join", "drain"}

To(c, p) == pc' = [pc EXCEPT ![c] = p]
Step(c, from, to) == pc[c] = from /\ To(c, to)
Alive(m) == mon[m] # "dead"

\* The transaction of c is over: the lock is released, its queue is gone.
Return(c, r) ==
    /\ To(c, "idle")
    /\ res' = [res EXCEPT ![c] = r]
    /\ lock' = NoOne
    /\ subs' = subs \ {c}
    /\ q' = [q EXCEPT ![c] = <<>>]
    /\ buf' = [buf EXCEPT ![c] = {}]
    /\ UNCHANGED <<cmd, issued, open>>

\* A write: it raises on a closed port, and may on an unplugged one.
CanWrite == open
WriteRaises(c) ==
    /\ ~open \/ "unplug" \in events
    /\ Return(c, "raised")
    /\ UNCHANGED <<wire, target, watchdog>>
-----------------------------------------------------------------------------
(* safe_run                                                                 *)

\* Calls with a command, or an empty one.
RunCall(c) ==
    /\ c \in Runners /\ "run" \in events /\ open
    /\ "rebind" \in events \/ \A d \in Clients : pc[d] \notin Switching
    /\ Step(c, "idle", "want")
    /\ \/ cmd' = [cmd EXCEPT ![c] = 0] /\ UNCHANGED issued
       \/ issued < MaxCmds /\ issued' = issued + 1 /\ cmd' = [cmd EXCEPT ![c] = issued']
    /\ res' = [res EXCEPT ![c] = "none"]
    /\ UNCHANGED <<lock, buf, port, target, watchdog>>

Acquire(c) ==
    /\ Step(c, "want", "flush1")
    /\ lock = NoOne /\ lock' = c
    /\ UNCHANGED <<cmd, issued, buf, res, port, target, watchdog>>

\* flush_buffers: the port's input and the queues of all subscribers.
FlushBuffers ==
    /\ wire' = IF open THEN <<>> ELSE wire
    /\ q' = [s \in Subscribers |-> <<>>]

Flush(c) ==
    /\ \/ Step(c, "flush1", IF cmd[c] = 0 THEN "enter" ELSE "interrupt")
       \/ Step(c, "flush2", "half1")
    /\ FlushBuffers
    /\ UNCHANGED <<open, subs, lock, cmd, issued, buf, res, target, watchdog>>

\* Ctrl-C: the terminal drops what was typed, the command is killed.
Interrupt(c) ==
    /\ CanWrite
    /\ Step(c, "interrupt", "sub1")
    /\ tty' = IF up THEN <<CtrlC>> ELSE <<>>
    /\ running' = 0 \/ ("deaf" \in events /\ running' = running)
    /\ UNCHANGED <<lock, cmd, issued, buf, res, port, last, exit, up, watchdog>>

\* expect subscribes only once what it waits for has been asked for.
Subscribe(c) ==
    /\ open
    /\ Step(c, "sub1", "wait1") \/ Step(c, "sub", "wait")
    /\ subs' = subs \cup {c}
    /\ UNCHANGED <<lock, cmd, issued, buf, res, open, q, wire, target, watchdog>>

Type(k) == tty' = IF up THEN Append(tty, k) ELSE tty

\* write_line, sixteen bytes at a time.
WriteHalf(c) ==
    /\ CanWrite
    /\ \/ Step(c, "half1", "half2") /\ Type([of |-> cmd[c], half |-> 1])
       \/ Step(c, "half2", "sub") /\ Type([of |-> cmd[c], half |-> 2])
       \/ Step(c, "enter", "sub") /\ Len(tty) < TtyMax /\ Type(Enter)
    /\ UNCHANGED <<lock, cmd, issued, buf, res, port, running, last, exit, up, watchdog>>

\* Mutant: silence is taken for a lost line, which is typed again.
Ping_retypes(c) ==
    /\ CanWrite
    /\ pc[c] = "wait" /\ cmd[c] # 0 /\ q[c] = <<>>
    /\ Len(tty) < TtyMax
    /\ tty' = IF up THEN tty \o <<[of |-> cmd[c], half |-> 1], [of |-> cmd[c], half |-> 2]>> ELSE tty
    /\ UNCHANGED <<client, port, running, last, exit, up, watchdog>>

\* Two seconds of silence: a newline to redraw the prompt.  The other waits are
\* shorter than that.
Ping(c) ==
    /\ CanWrite
    /\ pc[c] = "wait" /\ cmd[c] # 0 /\ q[c] = <<>>
    /\ Len(tty) < TtyMax
    /\ Type(Enter)
    /\ UNCHANGED <<client, port, running, last, exit, up, watchdog>>

\* A write, or an expect on a port that was closed meanwhile.
WriteFails(c) ==
    /\ \/ pc[c] \in {"interrupt", "half1", "half2", "enter"}
       \/ pc[c] = "wait" /\ cmd[c] # 0
       \/ pc[c] \in {"sub1", "sub"} /\ ~open
    /\ WriteRaises(c)

\* Mutant: any exit marker is taken for the command's own.
ExitOk_any(c, seen) == \E a \in seen : a.code = "zero"

\* Linux: the marker with this command's token, and 0; U-Boot: no error text.
\* An empty command is always a success.
ExitOk(c, seen) ==
    \/ cmd[c] = 0
    \/ "uboot" \in events /\ \A a \in seen : a.code = "zero"
    \/ "uboot" \notin events /\ [of |-> cmd[c], code |-> "zero"] \in seen

\* The wait for the prompt after Ctrl-C is over, found or not.
EndWait1(c) ==
    /\ To(c, "flush2")
    /\ subs' = subs \ {c}
    /\ q' = [q EXCEPT ![c] = <<>>]
    /\ buf' = [buf EXCEPT ![c] = {}]
    /\ UNCHANGED <<lock, cmd, issued, res, open>>

\* expect takes a chunk from its queue; a prompt ends it.  One read of the port
\* may hold what the board printed after that prompt as well.
Receive(c) ==
    /\ pc[c] \in {"wait", "wait1"} /\ q[c] # <<>>
    /\ \/ /\ Head(q[c]) # Says("prompt")
          /\ buf' = [buf EXCEPT ![c] = @ \cup ({Head(q[c])} \cap Answer)]
          /\ q' = [q EXCEPT ![c] = Tail(@)]
          /\ UNCHANGED <<lock, pc, cmd, issued, res, subs, open>>
       \/ /\ Head(q[c]) = Says("prompt") /\ pc[c] = "wait1"
          /\ EndWait1(c)
       \/ /\ Head(q[c]) = Says("prompt") /\ pc[c] = "wait"
          /\ \E k \in 1 .. Len(q[c]) :
               LET seen == buf[c] \cup ({q[c][i] : i \in 1 .. k} \cap Answer)
               IN Return(c, IF ExitOk(c, seen) THEN "ok" ELSE "failed")
    /\ UNCHANGED <<wire, target, watchdog>>

\* No prompt in time: an error, except for an empty command.
Expires(c) ==
    /\ \/ pc[c] = "wait1" /\ EndWait1(c)
       \/ pc[c] = "wait" /\ Return(c, IF cmd[c] = 0 THEN "ok" ELSE "timeout")
    /\ UNCHANGED <<wire, target, watchdog>>
-----------------------------------------------------------------------------
(* The other users of the port                                              *)

\* Mutant: raw_write does not wait for the lock.
RawWrite_unlocked(c) ==
    /\ "type" \in events
    /\ pc[c] = "idle" /\ open
    /\ Len(tty) < TtyMax
    /\ Type(Enter)
    /\ UNCHANGED <<client, port, running, last, exit, up, watchdog>>

RawWrite(c) ==
    /\ "type" \in events
    /\ pc[c] = "idle" /\ lock = NoOne /\ open
    /\ Len(tty) < TtyMax
    /\ Type(Enter)
    /\ UNCHANGED <<client, port, running, last, exit, up, watchdog>>

\* watchdog.start: nothing to do while the thread it knows of is alive.  The
\* window is kept.
StartWatchdog ==
    IF cur # NoOne /\ Alive(cur) THEN UNCHANGED watchdog
    ELSE /\ \E m \in Monitors :
              ~Alive(m) /\ cur' = m /\ mon' = [mon EXCEPT ![m] = "top"]
         /\ stop' = FALSE
         /\ panicked' = FALSE
         /\ UNCHANGED <<window, muted>>

\* connect, by one thread at a time: the port is open, with a newline typed, ...
Connect(c) ==
    /\ ~open
    /\ \A d \in Clients : pc[d] \notin Switching
    /\ Step(c, "idle", "drain")
    /\ Len(tty) < TtyMax
    /\ open' = TRUE
    /\ Type(Enter)
    /\ UNCHANGED <<lock, cmd, issued, buf, res, subs, q, wire, running, last, exit, up, watchdog>>

\* ... for half a second everything received is dropped, and the RX daemon and
\* the watchdog are started.
ConnectDrained(c) ==
    /\ Step(c, "drain", "idle")
    /\ wire' = <<>>
    /\ q' = [s \in Subscribers |-> <<>>]
    /\ StartWatchdog
    /\ UNCHANGED <<lock, cmd, issued, buf, res, open, subs, target>>

\* disconnect, by one thread at a time: the RX daemon and the watchdog are told
\* to stop, ...
DisconnectCall(c) ==
    /\ open
    /\ \/ "rebind" \in events /\ \A d \in Clients : pc[d] \notin Switching
       \/ "close" \in events /\ \A d \in Clients : pc[d] = "idle"
    /\ Step(c, "idle", "join")
    /\ stop' = TRUE
    /\ UNCHANGED <<lock, cmd, issued, buf, res, port, target, mon, cur, window, muted,
                   panicked>>

\* Mutant: the monitor thread is not waited for.
Joined_not == TRUE

\* ... the watchdog's thread is waited for, for a second, ...
Joined ==
    \/ cur = NoOne
    \/ cur # NoOne /\ ~Alive(cur)
    \/ cur # NoOne /\ "slow" \in events /\ mon[cur] = "callback"

\* ... and the port is closed.
DisconnectClose(c) ==
    /\ Joined
    /\ Step(c, "join", "idle")
    /\ cur' = NoOne
    /\ open' = FALSE
    /\ wire' = <<>>
    /\ UNCHANGED <<lock, cmd, issued, buf, res, subs, q, target, mon, stop, window, muted,
                   panicked>>

\* mute and unmute, called in turn: both empty the window.
SetMuted(c) ==
    /\ "mute" \in events
    /\ pc[c] = "idle"
    /\ muted' = ~muted
    /\ window' = <<>>
    /\ UNCHANGED <<client, port, target, mon, cur, stop, panicked>>

\* What a subscriber can tell apart: a monitor only looks for a panic.
Copy(s, k) ==
    IF s \in Monitors /\ k \notin {Says("pan"), Says("ic")} THEN Says("text") ELSE k

\* _rx_daemon_loop: one chunk for every subscriber.  It is stopped while a
\* disconnect is under way and started at the end of connect.
Rx ==
    /\ open /\ wire # <<>>
    /\ \A c \in Clients : pc[c] \notin Switching
    /\ \A s \in subs : Len(q[s]) < WireMax
    /\ q' = [s \in Subscribers |-> IF s \in subs THEN Append(q[s], Copy(s, Head(wire))) ELSE q[s]]
    /\ wire' = Tail(wire)
    /\ UNCHANGED <<open, subs, client, target, watchdog>>
-----------------------------------------------------------------------------
(* UartKernelWatchdog._monitor_loop                                         *)

Steps(m, from, to) == mon[m] = from /\ mon' = [mon EXCEPT ![m] = to]

MonitorExits(m) ==
    /\ stop
    /\ Steps(m, "top", "dead")
    /\ UNCHANGED <<client, port, target, cur, stop, window, muted, panicked>>

MonitorSubscribes(m) ==
    /\ ~stop /\ open
    /\ Steps(m, "top", "in")
    /\ subs' = subs \cup {m}
    /\ q' = [q EXCEPT ![m] = <<>>]
    /\ UNCHANGED <<client, open, wire, target, cur, stop, window, muted, panicked>>

\* Mutant: only the chunk at hand is searched.
Window_single(s) == s

\* The window with what was read, cut to its size before it is searched.
Window(s) == LET w == window \o s
             IN IF Len(w) > WindowMax THEN SubSeq(w, Len(w) - WindowMax + 1, Len(w)) ELSE w

Panics(w) == \E i \in 2 .. Len(w) : w[i - 1] = Says("pan") /\ w[i] = Says("ic")

\* One read of the port holds as much as has come in, a part of the queue here.
MonitorReads(m) ==
    /\ mon[m] = "in" /\ ~stop /\ open
    /\ \E k \in 1 .. Len(q[m]) :
         LET w == Window(SubSeq(q[m], 1, k)) IN
         /\ q' = [q EXCEPT ![m] = SubSeq(@, k + 1, Len(@))]
         /\ \/ ~Panics(w) /\ window' = w /\ UNCHANGED <<mon, panicked>>
            \/ Panics(w) /\ muted /\ window' = <<>> /\ UNCHANGED <<mon, panicked>>
            \/ Panics(w) /\ ~muted /\ window' = w
               /\ panicked' = TRUE /\ Steps(m, "in", "callback")
    /\ UNCHANGED <<client, open, subs, wire, target, cur, stop, muted>>

\* After the callbacks, or when the port or the watchdog is closed, the loop
\* unsubscribes and starts over.
MonitorLeaves(m) ==
    /\ \/ (stop \/ ~open) /\ Steps(m, "in", "top")
       \/ Steps(m, "callback", "top")
    /\ subs' = subs \ {m}
    /\ q' = [q EXCEPT ![m] = <<>>]
    /\ UNCHANGED <<client, open, wire, target, cur, stop, window, muted, panicked>>
-----------------------------------------------------------------------------
(* The board                                                                *)

\* The board prints the chunks of s, which the host only sees on an open port.
Prints(s) ==
    /\ Len(wire) + Len(s) <= WireMax
    /\ wire' = IF open THEN wire \o s ELSE wire
    /\ UNCHANGED <<open, subs, q, client, watchdog>>

\* At its prompt the board reads a line: a command, or nothing it can run.  Ctrl-C
\* and an empty line bring a new prompt; at U-Boot's an empty line repeats the last
\* command, if that is one U-Boot repeats.
BoardReads ==
    /\ up /\ running = 0 /\ tty # <<>>
    /\ \/ /\ Head(tty) \in Half /\ Len(tty) > 1
          /\ IF Head(tty).half = 1 /\ tty[2] = [of |-> Head(tty).of, half |-> 2]
             THEN running' = Head(tty).of /\ Prints(<<>>)
             ELSE UNCHANGED running /\ Prints(<<Says("prompt")>>)
          /\ tty' = Tail(Tail(tty))
       \/ /\ Head(tty) \in {Enter, CtrlC}
          /\ tty' = Tail(tty)
          /\ \/ UNCHANGED running /\ Prints(<<Says("prompt")>>)
             \/ /\ "uboot" \in events /\ Head(tty) = Enter /\ last # 0
                /\ running' = last /\ Prints(<<>>)
    /\ last' = IF "uboot" \in events /\ running' # 0 THEN running' ELSE last
    /\ UNCHANGED <<exit, up>>

BoardFinishes ==
    /\ up /\ running # 0
    /\ \E e \in Code :
         /\ exit' = [exit EXCEPT ![running] = e]
         /\ Prints(<<[of |-> running, code |-> e], Says("prompt")>>)
    /\ running' = 0
    /\ UNCHANGED <<tty, last, up>>

BoardDies ==
    /\ up
    /\ \/ "panic" \in events /\ Prints(<<Says("pan"), Says("ic")>>)
       \/ "crash" \in events /\ Prints(<<>>)
    /\ up' = FALSE /\ tty' = <<>> /\ running' = 0 /\ last' = 0
    /\ UNCHANGED exit

BoardRestarts ==
    /\ ~up
    /\ Prints(<<Says("text")>>)
    /\ up' = TRUE
    /\ UNCHANGED <<tty, running, last, exit>>
-----------------------------------------------------------------------------
Init ==
    /\ events \in Consoles
    /\ open = FALSE
    /\ lock = NoOne
    /\ pc = [c \in Clients |-> "idle"]
    /\ cmd = [c \in Clients |-> 0]
    /\ issued = 0
    /\ buf = [c \in Clients |-> {}]
    /\ res = [c \in Clients |-> "none"]
    /\ subs = {}
    /\ q = [s \in Subscribers |-> <<>>]
    /\ tty = <<>>
    /\ wire = <<>>
    /\ running = 0 /\ last = 0
    /\ exit = [i \in Ids |-> "none"]
    /\ up = TRUE
    /\ mon = [m \in Monitors |-> "dead"]
    /\ cur = NoOne
    /\ stop = FALSE
    /\ window = <<>>
    /\ muted = FALSE
    /\ panicked = FALSE

ClientStep(c) ==
    \/ RunCall(c) \/ Acquire(c) \/ Flush(c) \/ Interrupt(c) \/ Subscribe(c)
    \/ WriteHalf(c) \/ Ping(c) \/ WriteFails(c) \/ Receive(c) \/ Expires(c)
    \/ RawWrite(c) \/ Connect(c) \/ ConnectDrained(c) \/ DisconnectCall(c)
    \/ DisconnectClose(c) \/ SetMuted(c)

MonitorStep(m) ==
    \/ MonitorExits(m) \/ MonitorSubscribes(m) \/ MonitorReads(m) \/ MonitorLeaves(m)

BoardStep == BoardReads \/ BoardFinishes \/ BoardDies \/ BoardRestarts

Next ==
    /\ \/ \E c \in Clients : ClientStep(c)
       \/ \E m \in Monitors : MonitorStep(m)
       \/ Rx
       \/ BoardStep
    /\ UNCHANGED events

Spec == Init /\ [][Next]_vars

\* The daemon threads run on.
FairSpec ==
    /\ Spec
    /\ WF_vars(Rx /\ UNCHANGED events)
    /\ \A m \in Monitors : WF_vars(MonitorStep(m) /\ UNCHANGED events)

TypeOKConsole ==
    /\ events \in Consoles
    /\ open \in BOOLEAN
    /\ lock \in Clients \cup {NoOne}
    /\ pc \in [Clients -> ClientAt]
    /\ cmd \in [Clients -> 0 .. MaxCmds]
    /\ issued \in 0 .. MaxCmds
    /\ buf \in [Clients -> SUBSET Answer]
    /\ res \in [Clients -> Result]
    /\ subs \subseteq Subscribers
    /\ q \in [Subscribers -> Seq(Chunk)]
    /\ tty \in Seq(Typed)
    /\ wire \in Seq(Chunk)
    /\ running \in 0 .. MaxCmds /\ last \in 0 .. MaxCmds
    /\ exit \in [Ids -> Code \cup {"none"}]
    /\ up \in BOOLEAN
    /\ mon \in [Monitors -> MonitorAt]
    /\ cur \in Monitors \cup {NoOne}
    /\ stop \in BOOLEAN
    /\ window \in Seq(Chunk) /\ Len(window) <= WindowMax
    /\ muted \in BOOLEAN
    /\ panicked \in BOOLEAN
-----------------------------------------------------------------------------
(* Properties                                                               *)

\* safe_run reports success on a Linux console only for a command that the
\* board ran to its end with exit code 0: not for a prompt or an exit marker
\* left over from a command that timed out, was interrupted or was retried.
OwnExitCode ==
    \A c \in Clients :
      res[c] = "ok" /\ cmd[c] # 0 /\ "uboot" \notin events => exit[cmd[c]] = "zero"

\* The shell of a Linux console does not start a command again that it has run to
\* its end, although safe_run types into a console that does not answer: the pings
\* are empty lines, and what a failed or expired call left typed is dropped or run
\* once.
RunsOnce ==
    [][\A i \in Ids : exit[i] # "none" /\ "uboot" \notin events => running' # i]_vars

\* What the threads type is never mixed up: nothing comes between the first
\* and the second part of a line (_tx_lock over write_line, raw_write and the
\* pings), even if the board restarts and misses the first part.  Only connect
\* types its newline without the lock.
WholeLines ==
    "rebind" \notin events => \A i \in 2 .. Len(tty) :
      tty[i] \in Half /\ tty[i].half = 2 => tty[i - 1] = [of |-> tty[i].of, half |-> 1]

\* Reconnecting never leaves a second monitor thread behind, which would report
\* every panic twice, unless a panic callback outlasts the join of stop().
OneMonitor ==
    "slow" \notin events => \A m, n \in Monitors : Alive(m) /\ Alive(n) => m = n

\* A panic that has reached the watchdog's queue is reported while the watchdog
\* listens, also when its text arrives in two reads of the port.  Only as long as
\* no read is as long as the window, which is cut before it is searched; as long
\* as no command is run, flush_buffers of safe_run emptying the watchdog's queue
\* with all others; and as long as stop() outwaits the callbacks: two monitor
\* threads spoil the window they share for each other.
PanicQueued == \E m \in Monitors : mon[m] = "in" /\ Panics(q[m])
Listens == open /\ ~muted /\ ~stop
PanicReported ==
    WireMax < WindowMax /\ PanicQueued /\ "slow" \notin events
       ~> (panicked \/ ~Listens \/ lock # NoOne)
=============================================================================
