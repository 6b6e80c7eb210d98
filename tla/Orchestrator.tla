---------------------------- MODULE Orchestrator ----------------------------
(***************************************************************************)
(* plugins/orchestrator.py: the session fixture that owns the state machine *)
(* and the autouse fixture that routes the board before each test.          *)
(*                                                                         *)
(*   stage   "idle" between tests, "setup" while the fixture's trigger runs, *)
(*           "body" in the test, "closing" and "closed" at session end       *)
(*   target  argument of requires_state, "none" without the marker          *)
(***************************************************************************)
EXTENDS DutHistory

CONSTANT Targets      \* the markers the tests of the session carry

VARIABLES stage, target

orch == <<stage, target>>
orchvars == <<histvars, orch>>

RoutedStates == {"POWER_OFF", "ENERGIZED", "BOOTLOADER", "OS_USERLAND"}

ASSUME OrchAssumption == Targets \subseteq RoutedStates \cup {"RECOVERY", "none"}

TriggerFor == [POWER_OFF |-> "power_off", ENERGIZED |-> "energize",
               BOOTLOADER |-> "boot_to_bootloader", OS_USERLAND |-> "boot_to_os"]

Goes(s, t) == stage' = s /\ target' = t
BetweenTests == stage = "idle" /\ Idle
-----------------------------------------------------------------------------
(* verify_heartbeat: SSH if it is or can be connected, else the console.    *)

NoSshToBeHad == ssh = "no" /\ (~SshAnswers \/ "net" \in Faults)

HeartbeatOk ==
    /\ \/ SshHeartbeat /\ UNCHANGED rawq
       \/ NoSshToBeHad /\ ConsoleEchoes /\ UNCHANGED ssh /\ rawq' = <<Prints(phys)>>
    /\ UNCHANGED <<phys, nv, ram, strap, pin, serial>>

\* A session that does not answer is not followed by a try on the console.
HeartbeatFails ==
    /\ \/ /\ ssh = "stale" \/ (ssh = "live" /\ "net" \in Faults)
          /\ ssh' \in {ssh, "no"} /\ UNCHANGED rawq
       \/ /\ NoSshToBeHad /\ (~ConsoleEchoes \/ "uart" \in Faults)
          /\ UNCHANGED ssh /\ rawq' = <<>>
    /\ UNCHANGED <<phys, nv, ram, strap, pin, serial>>
-----------------------------------------------------------------------------
(* enforce_physical_state, up to its yield                                  *)

\* Mutant: a matching state is believed without a heartbeat.
BypassBoot_unchecked(t) ==
    /\ BetweenTests
    /\ t = "none" \/ state = t \/ t \notin RoutedStates
    /\ Goes("body", t)
    /\ UNCHANGED vars

\* No marker, the state matches already, or no branch handles the target.
BypassBoot(t) ==
    /\ BetweenTests
    /\ \/ t = "none"
       \/ state = t /\ t # "OS_USERLAND"
       \/ state # t /\ t \notin RoutedStates
    /\ Goes("body", t)
    /\ UNCHANGED vars

BypassAlive(t) ==
    /\ BetweenTests
    /\ t = "OS_USERLAND" /\ state = t
    /\ HeartbeatOk
    /\ Goes("body", t)
    /\ UNCHANGED fsm

\* The heartbeat failed: mark_dirty and boot_to_os.
RouteDead(t) ==
    /\ BetweenTests
    /\ t = "OS_USERLAND" /\ state = t
    /\ HeartbeatFails
    /\ state' = "DIRTY"
    /\ op' = [trig |-> "boot_to_os", medium |-> medium]
    /\ todo' = <<"align", "route">>
    /\ exc' = FALSE
    /\ UNCHANGED medium
    /\ Goes("setup", t)

RouteTo(t) ==
    /\ BetweenTests
    /\ t \in RoutedStates /\ state # t
    /\ Fire(TriggerFor[t], medium)
    /\ Goes("setup", t)

\* Mutant: an exception of the trigger does not stop the test.
SetupEnds_anyway ==
    /\ stage = "setup" /\ Idle
    /\ Goes("body", target)
    /\ UNCHANGED vars

\* The trigger is over; if it raised, the test is in error and never runs.
SetupEnds ==
    /\ stage = "setup" /\ Idle
    /\ Goes(IF exc THEN "idle" ELSE "body", target)
    /\ UNCHANGED vars
-----------------------------------------------------------------------------
(* The test, and the fixtures' teardown                                     *)

\* A test may use the state machine itself.
BodyFires ==
    /\ stage = "body"
    /\ \/ \E t \in Trigger, m \in Mediums : Fire(t, m)
       \/ mark_dirty
    /\ UNCHANGED orch

BodyPasses ==
    /\ stage = "body" /\ Idle
    /\ Goes("idle", target)
    /\ UNCHANGED vars

BodyFails ==
    /\ stage = "body"
    /\ mark_dirty
    /\ Goes("idle", target)

\* The session fixture's teardown: power_off, whose exceptions are logged.
EndSession ==
    /\ BetweenTests
    /\ Fire("power_off", medium)
    /\ Goes("closing", "none")

SessionOver ==
    /\ stage = "closing" /\ Idle
    /\ Goes("closed", "none")
    /\ UNCHANGED vars
-----------------------------------------------------------------------------
OrchInit ==
    /\ HistInit
    /\ stage = "idle"
    /\ target = "none"

StartTest(t) == BypassBoot(t) \/ BypassAlive(t) \/ RouteDead(t) \/ RouteTo(t)

OrchStep ==
    \/ \E t \in Targets : StartTest(t)
    \/ SetupEnds
    \/ BodyFires \/ BodyPasses \/ BodyFails
    \/ EndSession \/ SessionOver
    \/ CallStep /\ UNCHANGED orch
    \/ BoardBoots /\ UNCHANGED orch
    \/ (BoardHangs \/ BoardDropsSsh) /\ UNCHANGED <<fsm, orch>>
    \/ stage = "body" /\ TestBoots /\ UNCHANGED orch

OrchNext == OrchStep /\ Remember /\ UNCHANGED station

OrchSpec == OrchInit /\ [][OrchNext]_orchvars

TypeOKOrch ==
    /\ TypeOK
    /\ visited \subseteq Phase
    /\ stage \in {"idle", "setup", "body", "closing", "closed"}
    /\ target \in Targets \cup {"none"}
-----------------------------------------------------------------------------
StartsBody == stage # "body" /\ stage' = "body"

\* The test body starts in the state its marker asks for ("routes the silicon
\* to the required physical state ... before yielding to the test logic"), for
\* the states enforce_physical_state routes to; a test marked RECOVERY is not
\* routed and runs in whatever state the board is in.
BodyRunsInTarget ==
    [][StartsBody /\ target' \in RoutedStates => state = target']_orchvars

\* Every wait for the countdown that stops it is seen to have done so.
Sniping == Autoboot /\ Faults \cap {"slow", "uart", "garbled", "gpio"} = {}

\* A test that asks for the OS gets a board that was in userland since its setup
\* began, when boot_to_os was run for it (under the conditions of
\* OsCommitBacked), and one that is in userland, when the state matched and only
\* verify_heartbeat was called.  The latter where the countdown is stopped by the
\* framework: a wait for the prompt that gives up on a board that is there, as a
\* lost echo or a trap whose prompt was missed makes it, leaves OS_USERLAND as the
\* state of a board whose U-Boot echoes the heartbeat.
OsBodyIsAlive ==
    [][StartsBody /\ target' = "OS_USERLAND"
         => IF stage = "setup" THEN Undoubted => visited \cap Userland # {}
            ELSE Sniping => phys \in Userland]_orchvars
=============================================================================
