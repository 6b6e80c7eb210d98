------------------------------ MODULE Failover ------------------------------
(***************************************************************************)
(* FailoverTransport of transports/failover.py: two links to the board, the *)
(* flag that says which one carries commands, and the background thread     *)
(* that tries to go back to the fast one.  Client threads, recovery threads *)
(* and the watchdog's panic callback interleave between blocking calls.     *)
(*                                                                         *)
(*   prim    primary.is_connected (SSH)                                    *)
(*   fb      fallback.is_connected (UART)                                  *)
(*   net     the board answers on the network                              *)
(*   failed  is_failed_over                                                *)
(*   stop    _stop_recovery is set                                         *)
(*   lock    holder of _connect_lock                                       *)
(*   pc      where each client is                                          *)
(*   cmd     per command: the client whose safe_run it is in, auto_retry,   *)
(*           copies sent and not run yet, and how often the board ran it    *)
(*   rec     where each recovery thread is; cur is _recovery_thread         *)
(***************************************************************************)
EXTENDS Naturals

CONSTANTS
    Clients,    \* threads that use the transport
    Runners,    \* the clients that run commands on it
    Cmds,       \* identities for commands, of this and of earlier calls
    Probers,    \* identities for recovery threads
    Upsets      \* what the environment does, a subset of AllUpsets

AllUpsets == {"net",     \* the network goes down and comes back
              "panic",   \* the watchdog sees a kernel panic
              "port",    \* the console port cannot be opened
              "rebind",  \* the state machine closes and reopens the console
              "slow",    \* a call of the recovery thread outlasts join(1.0)
              "close"}   \* clients call disconnect()

NoOne == "no one"

ASSUME FailoverAssumption ==
    /\ NoOne \notin Clients \cup Probers
    /\ Runners \subseteq Clients
    /\ Probers # {}
    /\ Upsets \subseteq AllUpsets

VARIABLES prim, fb, net, failed, stop, lock, pc, cmd, rec, cur

links == <<prim, fb, net>>
vars == <<prim, fb, net, failed, stop, lock, pc, cmd, rec, cur>>

ClientAt == {"idle", "lock", "fallback", "primary", "set_up", "set_down", "arm",
             "stopping", "join", "close_primary", "close_fallback",
             "run_primary", "wait_primary", "severed", "wake", "run_fallback",
             "wait_fallback"}
ProberAt == {"dead", "check", "connect", "ping", "back", "wait"}
NoCmd == [by |-> NoOne, retry |-> FALSE, fly |-> 0, ran |-> 0]

Alive(t) == rec[t] # "dead"
is_connected == IF failed THEN fb ELSE prim
\* The name of the next Thread object: that of one that has ended.
Fresh == CHOOSE t \in Probers : ~Alive(t)

To(c, p) == pc' = [pc EXCEPT ![c] = p]
-----------------------------------------------------------------------------
(* connect                                                                  *)

ConnectCall(c) ==
    /\ pc[c] = "idle"
    /\ To(c, "lock")
    /\ UNCHANGED <<links, failed, stop, lock, cmd, rec, cur>>

ConnectEnter(c) ==
    /\ pc[c] = "lock" /\ lock = NoOne
    /\ IF is_connected
       THEN To(c, "idle") /\ UNCHANGED lock
       ELSE To(c, "fallback") /\ lock' = c
    /\ UNCHANGED <<links, failed, stop, cmd, rec, cur>>

ConnectFallback(c) ==
    /\ pc[c] = "fallback"
    /\ \/ fb' = TRUE /\ To(c, "primary") /\ UNCHANGED lock
       \/ ~fb /\ "port" \in Upsets /\ UNCHANGED fb /\ To(c, "idle") /\ lock' = NoOne
    /\ UNCHANGED <<prim, net, failed, stop, cmd, rec, cur>>

\* An open primary is taken as it is.
ConnectPrimary(c) ==
    /\ pc[c] = "primary"
    /\ \/ (prim \/ net) /\ prim' = TRUE /\ To(c, "set_up")
       \/ ~prim /\ ~net /\ UNCHANGED prim /\ To(c, "set_down")
    /\ UNCHANGED <<fb, net, failed, stop, lock, cmd, rec, cur>>

\* Mutant: _start_recovery_thread is called with the lock held.
ConnectSet_held(c) ==
    /\ pc[c] \in {"set_up", "set_down"}
    /\ failed' = (pc[c] = "set_down")
    /\ To(c, "arm")
    /\ UNCHANGED <<links, stop, lock, cmd, rec, cur>>

ConnectSet(c) ==
    /\ pc[c] \in {"set_up", "set_down"}
    /\ failed' = (pc[c] = "set_down")
    /\ lock' = NoOne
    /\ To(c, "arm")
    /\ UNCHANGED <<links, stop, cmd, rec, cur>>

\* Mutant: the thread is armed without looking for one that is alive.
StartRecoveryThread_double(c) ==
    /\ pc[c] = "arm" /\ lock = NoOne
    /\ stop' = FALSE
    /\ \E t \in Probers :
          /\ t = Fresh /\ ~Alive(t)
          /\ rec' = [rec EXCEPT ![t] = "check"] /\ cur' = t
    /\ To(c, "idle")
    /\ UNCHANGED <<links, failed, lock, cmd>>

\* _start_recovery_thread, under the lock again.
StartRecoveryThread(c) ==
    /\ pc[c] = "arm" /\ lock = NoOne
    /\ IF cur # NoOne /\ Alive(cur)
       THEN UNCHANGED <<stop, rec, cur>>
       ELSE /\ stop' = FALSE
            /\ \E t \in Probers :
                  /\ t = Fresh /\ ~Alive(t)
                  /\ rec' = [rec EXCEPT ![t] = "check"] /\ cur' = t
    /\ To(c, "idle")
    /\ UNCHANGED <<links, failed, lock, cmd>>
-----------------------------------------------------------------------------
(* disconnect                                                               *)

DisconnectCall(c) ==
    /\ "close" \in Upsets
    /\ pc[c] = "idle"
    /\ stop' = TRUE
    /\ To(c, "stopping")
    /\ UNCHANGED <<links, failed, lock, cmd, rec, cur>>

DisconnectLooks(c) ==
    /\ pc[c] = "stopping"
    /\ To(c, IF cur # NoOne /\ Alive(cur) THEN "join" ELSE "close_primary")
    /\ UNCHANGED <<links, failed, stop, lock, cmd, rec, cur>>

\* join(timeout=1.0) gives up while the thread is in a call that takes longer,
\* or when a connect() that came before the look has armed a thread nobody told
\* to stop; ProberReturns ends it when the thread returns.
JoinTimesOut(c) ==
    /\ pc[c] = "join"
    /\ ~stop \/ ("slow" \in Upsets /\ rec[cur] \in {"connect", "ping"})
    /\ To(c, "close_primary")
    /\ UNCHANGED <<links, failed, stop, lock, cmd, rec, cur>>

ClosePrimary(c) ==
    /\ pc[c] = "close_primary"
    /\ prim' = FALSE
    /\ To(c, "close_fallback")
    /\ UNCHANGED <<fb, net, failed, stop, lock, cmd, rec, cur>>

CloseFallback(c) ==
    /\ pc[c] = "close_fallback"
    /\ fb' = FALSE
    /\ To(c, "idle")
    /\ UNCHANGED <<prim, net, failed, stop, lock, cmd, rec, cur>>
-----------------------------------------------------------------------------
(* safe_run                                                                 *)

\* A copy of the command leaves the host, and the board has not run it yet.
HandOver(k) == cmd' = [cmd EXCEPT ![k].fly = @ + 1]
\* safe_run returns or raises; copies that are under way stay there.
Release(k) == cmd' = [cmd EXCEPT ![k].by = NoOne]

RunCall(c, k, retry) ==
    /\ c \in Runners
    /\ pc[c] = "idle"
    /\ cmd[k].by = NoOne /\ cmd[k].fly = 0
    /\ cmd' = [cmd EXCEPT ![k] = [by |-> c, retry |-> retry, fly |-> 0, ran |-> 0]]
    /\ To(c, IF failed THEN "run_fallback" ELSE "run_primary")
    /\ UNCHANGED <<links, failed, stop, lock, rec, cur>>

\* The command goes out on an open link, or the link turns out to be severed.
RunPrimary(c, k) ==
    /\ pc[c] = "run_primary" /\ cmd[k].by = c
    /\ \/ prim /\ HandOver(k) /\ To(c, "wait_primary") /\ UNCHANGED prim
       \/ prim' = FALSE /\ To(c, "severed") /\ UNCHANGED cmd
    /\ UNCHANGED <<fb, net, failed, stop, lock, rec, cur>>

\* A result (an answer, or none in time: no reason to fail over) or a severed
\* link.  Without an answer the board may or may not have run the command, and
\* may still do so.
WaitPrimary(c, k) ==
    /\ pc[c] = "wait_primary" /\ cmd[k].by = c
    /\ \/ Release(k) /\ To(c, "idle") /\ UNCHANGED prim
       \/ prim' = FALSE /\ To(c, "severed") /\ UNCHANGED cmd
    /\ UNCHANGED <<fb, net, failed, stop, lock, rec, cur>>

FailOver(c) ==
    /\ pc[c] = "severed"
    /\ failed' = TRUE
    /\ To(c, "wake")
    /\ UNCHANGED <<links, stop, lock, cmd, rec, cur>>

\* Mutant: every command is repeated on the console.
Wake_always(c, k) ==
    /\ pc[c] = "wake" /\ cmd[k].by = c
    /\ \/ fb /\ To(c, "run_fallback") /\ UNCHANGED cmd
       \/ ~fb /\ To(c, "idle") /\ Release(k)
    /\ UNCHANGED <<links, failed, stop, lock, rec, cur>>

\* The wake-up pulse, which raises on a closed console; then only an
\* idempotent command is repeated, any other call raises.
Wake(c, k) ==
    /\ pc[c] = "wake" /\ cmd[k].by = c
    /\ \/ fb /\ cmd[k].retry /\ To(c, "run_fallback") /\ UNCHANGED cmd
       \/ ~(fb /\ cmd[k].retry) /\ To(c, "idle") /\ Release(k)
    /\ UNCHANGED <<links, failed, stop, lock, rec, cur>>

\* The line is typed, or the port is closed.
RunFallback(c, k) ==
    /\ pc[c] = "run_fallback" /\ cmd[k].by = c
    /\ \/ fb /\ HandOver(k) /\ To(c, "wait_fallback")
       \/ ~fb /\ Release(k) /\ To(c, "idle")
    /\ UNCHANGED <<links, failed, stop, lock, rec, cur>>

\* Mutant: a command that is not answered is typed again.
WaitFallback_again(c, k) ==
    /\ pc[c] = "wait_fallback" /\ cmd[k].by = c
    /\ \/ Release(k) /\ To(c, "idle")
       \/ cmd[k].fly = 1 /\ HandOver(k) /\ UNCHANGED pc
    /\ UNCHANGED <<links, failed, stop, lock, rec, cur>>

\* A prompt, or none in time: the line is left typed.
WaitFallback(c, k) ==
    /\ pc[c] = "wait_fallback" /\ cmd[k].by = c
    /\ Release(k) /\ To(c, "idle")
    /\ UNCHANGED <<links, failed, stop, lock, rec, cur>>

\* The board runs a copy that has reached it, before or after the return: a
\* shell is busy, a line waits in the terminal.
BoardRuns(k) ==
    /\ cmd[k].fly > 0
    /\ cmd' = [cmd EXCEPT ![k].fly = @ - 1, ![k].ran = @ + 1]
    /\ UNCHANGED <<links, failed, stop, lock, pc, rec, cur>>

\* A copy is lost with its link, a reboot or the Ctrl-C of the next command.
CopyLost(k) ==
    /\ cmd[k].fly > 0
    /\ cmd' = [cmd EXCEPT ![k].fly = @ - 1]
    /\ UNCHANGED <<links, failed, stop, lock, pc, rec, cur>>
-----------------------------------------------------------------------------
(* _probe_primary_recovery                                                  *)

ProberTo(t, p) == rec' = [rec EXCEPT ![t] = p]

\* A thread that sees _stop_recovery returns, and so does a join() on it.
ProberReturns(t) ==
    /\ rec[t] = "check" /\ stop
    /\ ProberTo(t, "dead")
    /\ pc' = [c \in Clients |->
                 IF pc[c] = "join" /\ cur = t THEN "close_primary" ELSE pc[c]]
    /\ UNCHANGED <<links, failed, stop, lock, cmd, cur>>

ProberCheck(t) ==
    /\ rec[t] = "check" /\ ~stop
    /\ ProberTo(t, IF ~failed THEN "wait" ELSE IF prim THEN "ping" ELSE "connect")
    /\ UNCHANGED <<links, failed, stop, lock, pc, cmd, cur>>

ProberConnect(t) ==
    /\ rec[t] = "connect"
    /\ prim' = (prim \/ net)
    /\ ProberTo(t, IF prim' THEN "ping" ELSE "wait")
    /\ UNCHANGED <<fb, net, failed, stop, lock, pc, cmd, cur>>

\* An answer, a severed session, or a time-out that leaves it open.
ProberPing(t) ==
    /\ rec[t] = "ping"
    /\ \/ prim /\ net /\ ProberTo(t, "back") /\ UNCHANGED prim
       \/ /\ ~net \/ ~prim
          /\ prim' \in {FALSE, prim}
          /\ ProberTo(t, "wait")
    /\ UNCHANGED <<fb, net, failed, stop, lock, pc, cmd, cur>>

\* Mutant: the flag is not cleared when the primary answers.
FailBack_never(t) ==
    /\ rec[t] = "back"
    /\ ProberTo(t, "wait")
    /\ UNCHANGED <<links, failed, stop, lock, pc, cmd, cur>>

FailBack(t) ==
    /\ rec[t] = "back"
    /\ failed' = FALSE
    /\ ProberTo(t, "wait")
    /\ UNCHANGED <<links, stop, lock, pc, cmd, cur>>

ProberWait(t) ==
    /\ rec[t] = "wait"
    /\ ProberTo(t, "check")
    /\ UNCHANGED <<links, failed, stop, lock, pc, cmd, cur>>
-----------------------------------------------------------------------------
(* The watchdog's callback, the state machine, and the network              *)

OnPanic ==
    /\ "panic" \in Upsets
    /\ fb /\ prim /\ prim' = FALSE
    /\ UNCHANGED <<fb, net, failed, stop, lock, pc, cmd, rec, cur>>

Rebind ==
    /\ "rebind" \in Upsets
    /\ fb' = ~fb
    /\ UNCHANGED <<prim, net, failed, stop, lock, pc, cmd, rec, cur>>

NetChanges ==
    /\ "net" \in Upsets
    /\ net' = ~net
    /\ UNCHANGED <<prim, fb, failed, stop, lock, pc, cmd, rec, cur>>
-----------------------------------------------------------------------------
Init ==
    /\ prim = FALSE /\ fb = FALSE /\ net \in BOOLEAN
    /\ failed = FALSE /\ stop = FALSE /\ lock = NoOne
    /\ pc = [c \in Clients |-> "idle"]
    /\ cmd = [k \in Cmds |-> NoCmd]
    /\ rec = [t \in Probers |-> "dead"]
    /\ cur = NoOne

Connecting(c) ==
    \/ ConnectEnter(c) \/ ConnectFallback(c) \/ ConnectPrimary(c)
    \/ ConnectSet(c) \/ StartRecoveryThread(c)
Disconnecting(c) ==
    DisconnectLooks(c) \/ JoinTimesOut(c) \/ ClosePrimary(c) \/ CloseFallback(c)
Running(c) ==
    \/ FailOver(c)
    \/ \E k \in Cmds : \/ RunPrimary(c, k) \/ WaitPrimary(c, k) \/ Wake(c, k)
                        \/ RunFallback(c, k) \/ WaitFallback(c, k)

ClientStep(c) == Connecting(c) \/ Disconnecting(c) \/ Running(c)
Call(c) ==
    \/ ConnectCall(c) \/ DisconnectCall(c)
    \/ \E k \in Cmds, retry \in BOOLEAN : RunCall(c, k, retry)
Prober(t) ==
    \/ ProberReturns(t) \/ ProberCheck(t) \/ ProberConnect(t)
    \/ ProberPing(t) \/ FailBack(t) \/ ProberWait(t)

Next ==
    \/ \E c \in Clients : Call(c) \/ ClientStep(c)
    \/ \E t \in Probers : Prober(t)
    \/ \E k \in Cmds : BoardRuns(k) \/ CopyLost(k)
    \/ OnPanic \/ Rebind \/ NetChanges

Spec == Init /\ [][Next]_vars

\* Threads are scheduled and every call has a time-out; a thread that asks for
\* _connect_lock again and again gets it, each holder being finite.
FairSpec ==
    /\ Spec
    /\ \A c \in Clients :
          /\ WF_vars(ClientStep(c))
          /\ SF_vars(ConnectEnter(c)) /\ SF_vars(StartRecoveryThread(c))
    /\ \A t \in Probers : WF_vars(Prober(t))

TypeOK ==
    /\ prim \in BOOLEAN /\ fb \in BOOLEAN /\ net \in BOOLEAN
    /\ failed \in BOOLEAN /\ stop \in BOOLEAN
    /\ lock \in Clients \cup {NoOne}
    /\ pc \in [Clients -> ClientAt]
    /\ cmd \in [Cmds -> [by : Clients \cup {NoOne}, retry : BOOLEAN,
                          fly : 0..2, ran : 0..2]]
    /\ rec \in [Probers -> ProberAt]
    /\ cur \in Probers \cup {NoOne}
-----------------------------------------------------------------------------
(* Properties                                                               *)

\* A command that is not marked idempotent is run by the board at most once,
\* whatever link breaks when and however late a copy gets there ("intelligently
\* resumes testing if the command is marked idempotent").
AtMostOnce == \A k \in Cmds : ~cmd[k].retry => cmd[k].ran <= 1

\* The transport is a CommandChannel, whichever link carries a command and
\* whichever breaks: copies of a command leave the host only between the call of
\* safe_run and its return, and those under way together with the runs there
\* were are never more than auto_retry allows.  A copy left behind by a call
\* that timed out may run after the return, also during the next command.
Channel == INSTANCE CommandChannel WITH job <- cmd

ImplementsChannel == Channel!Spec

\* However connect() and disconnect() overlap, no two threads probe the
\* primary ("two concurrent connect() calls never each spawn their own
\* recovery thread").
OneProber == \A t, u \in Probers : Alive(t) /\ Alive(u) => t = u

\* No caller waits for ever: connect() gives _connect_lock back before
\* _start_recovery_thread takes it again, disconnect() does not wait for a
\* thread that does not end.
CallsReturn == \A c \in Clients : pc[c] # "idle" ~> pc[c] = "idle"

\* While the recovery thread is not told to stop, a transport whose network is
\* back and whose board does not panic any more leaves failover mode again and
\* again, whatever the clients do ("this automatically fails back to the
\* high-speed link").
FailsBack ==
    <>[](net /\ ~stop /\ cur # NoOne) /\ <>[][~OnPanic]_vars => []<>(~failed)
=============================================================================
