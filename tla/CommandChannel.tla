--------------------------- MODULE CommandChannel ---------------------------
(***************************************************************************)
(* What DutTransport of transports/base.py promises to a thread that calls  *)
(* safe_run: copies of the command leave the host while the call lasts, and *)
(* the board runs it once at most, or once more if the caller marked it     *)
(* idempotent (auto_retry).  A call that timed out takes nothing back: what  *)
(* it sent may run after the return.                                       *)
(*                                                                         *)
(*   job   per command: the client in whose call it is, its auto_retry,     *)
(*         the copies under way, how often the board ran it                 *)
(***************************************************************************)
EXTENDS Naturals

CONSTANTS Clients,    \* threads that use the transport
          Cmds,       \* identities for commands
          NoOne       \* no thread

VARIABLE job

NoJob == [by |-> NoOne, retry |-> FALSE, fly |-> 0, ran |-> 0]
Limit(retry) == IF retry THEN 2 ELSE 1

Init == job = [k \in Cmds |-> NoJob]

Call(c, k) ==
    /\ job[k].by = NoOne /\ job[k].fly = 0
    /\ \A j \in Cmds : job[j].by # c
    /\ \E retry \in BOOLEAN :
          job' = [job EXCEPT ![k] = [by |-> c, retry |-> retry, fly |-> 0, ran |-> 0]]

Send(k) ==
    /\ job[k].by # NoOne
    /\ job[k].fly + job[k].ran < Limit(job[k].retry)
    /\ job' = [job EXCEPT ![k].fly = @ + 1]

Execute(k) ==
    /\ job[k].fly > 0
    /\ job' = [job EXCEPT ![k].fly = @ - 1, ![k].ran = @ + 1]

Lose(k) ==
    /\ job[k].fly > 0
    /\ job' = [job EXCEPT ![k].fly = @ - 1]

\* A result or an exception.
Return(k) ==
    /\ job[k].by # NoOne
    /\ job' = [job EXCEPT ![k].by = NoOne]

Next ==
    \E k \in Cmds :
       \/ Send(k) \/ Execute(k) \/ Lose(k) \/ Return(k)
       \/ \E c \in Clients : Call(c, k)

Spec == Init /\ [][Next]_job
=============================================================================
