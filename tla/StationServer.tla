---------------------------- MODULE StationServer ----------------------------
(***************************************************************************)
(* The MCP server: StationManager of mcp/station_manager.py and the tools   *)
(* of mcp/server.py.  A server library that runs tools on worker threads    *)
(* lets calls overlap; one that runs them inline is the case of one caller. *)
(*                                                                         *)
(*   reg     _stations: the session registered under each identifier        *)
(*   obj     the session dictionaries, in the order connect() made them;    *)
(*           a call keeps using the one it looked up                        *)
(*   call    what each tool call in flight is doing                         *)
(*   on      the supply of each bench has its output on                     *)
(*   card    each bench's SD card is routed to the host, or away from it    *)
(*   vendor  the make of each bench's supply                                *)
(*   loose   benches whose output was left to itself in a way the code does *)
(*           not prevent: a refused switch-off, a session that connect()    *)
(*           lost, an output enabled through a session already forgotten    *)
(*                                                                         *)
(* Nothing stops two identifiers from naming the same bench.                *)
(***************************************************************************)
EXTENDS Naturals, FiniteSets

CONSTANTS
    Ids,          \* station identifiers
    Benches,      \* physical stations
    Callers,      \* tool calls that may overlap
    Tools,        \* the tools that are called, a subset of AllTools
    MaxSessions   \* successful or failed connect() calls

\* Tools that run commands through station["transport"], by section of the file.
CommandTools == {"board_run"}
FileTools == {"manifest_harvest", "board_read_file", "board_write_file", "board_file_exists"}
ValidatorTools == {"validate_ethernet_link", "validate_ethernet_throughput", "validate_can_bus",
                   "validate_i2c_bus", "validate_emmc_health", "validate_block_throughput",
                   "validate_ram", "validate_gpio_loopback"}
BusTools == {"i2c_read_byte", "i2c_write_byte", "sysfs_read", "sysfs_write"}
KernelTools == {"kernel_dmesg", "kernel_config_check", "device_tree_read"}
TransportTools == CommandTools \cup FileTools \cup ValidatorTools \cup BusTools \cup KernelTools

\* Tools that speak to one link and refuse if it is closed or missing.
LinkTools == {"board_run_ssh", "board_run_serial", "board_expect", "board_raw_write"}
UBootTools == {"uboot_env_get", "uboot_env_set", "uboot_save_env", "uboot_ping"}
BootTools == {"fsm_boot_to_os", "fsm_boot_to_bootloader", "fsm_boot_to_recovery"}
\* Tools that change nothing but the supply's set points, or nothing at all.
SetPointTools == {"psu_set_voltage", "psu_set_current_limit", "psu_measure"}
StatusTools == {"station_status", "fsm_state"}
WatchdogTools == {"watchdog_status", "resource_station_state"}
McuTools == {"flash_mcu"}
ReadTools == SetPointTools \cup StatusTools \cup WatchdogTools \cup McuTools

AllTools == TransportTools \cup LinkTools \cup UBootTools \cup BootTools \cup ReadTools \cup
            {"fsm_power_off", "fsm_energize", "fsm_mark_dirty", "psu_enable_output",
             "psu_disable_output", "sd_mux_set_mode", "flash_tezi"}

ASSUME StationAssumption ==
    /\ MaxSessions \in Nat
    /\ Tools \subseteq AllTools
    /\ "none" \notin Benches

VARIABLES reg, obj, call, on, card, vendor, loose

bench == <<on, card, loose>>
vars == <<reg, obj, call, on, card, vendor, loose>>

Sessions == 1 .. MaxSessions
None == 0
Idle == [at |-> "idle", id |-> "none", ses |-> None]
NoSession == [bench |-> "none", psu |-> "none", fsm |-> "none", mux |-> FALSE, live |-> FALSE]

ses(c) == call[c].ses
S(c) == obj[ses(c)]
B(c) == S(c).bench
Goes(c, step) == call' = [call EXCEPT ![c].at = step]
Returns(c) == call' = [call EXCEPT ![c] = Idle]

SwitchedOff(b) == on' = [on EXCEPT ![b] = FALSE] /\ loose' = loose \ {b}
SwitchedOn(c) ==
    /\ on' = [on EXCEPT ![B(c)] = TRUE]
    /\ loose' = IF S(c).live THEN loose ELSE loose \cup {B(c)}
-----------------------------------------------------------------------------
(* connect                                                                  *)

ConnectCall(c, id) ==
    /\ call[c] = Idle /\ reg[id] = None
    /\ call' = [call EXCEPT ![c] = [at |-> "open", id |-> id, ses |-> None]]
    /\ UNCHANGED <<reg, obj, bench, vendor>>

\* _init_psu: not configured or failed (a SCPI supply is switched off while it
\* is being connected), or open.
_init_psu(b, psu) ==
    \/ psu = "none" /\ UNCHANGED <<on, loose>>
    \/ vendor[b] = "scpi" /\ SwitchedOff(b)
    \/ vendor[b] = "fnirsi" /\ psu = "open" /\ UNCHANGED <<on, loose>>

\* A link that cannot be opened is only logged (what a closed link does to a
\* command is module Failover's); a configuration that is missing, invalid or
\* without a link ends the call.
OpenHardware(c) ==
    /\ call[c].at = "open"
    /\ \/ \E k \in Sessions, b \in Benches, psu \in {"none", "open"} :
             /\ k = Cardinality({j \in Sessions : obj[j] # NoSession}) + 1
             /\ _init_psu(b, psu)
             /\ obj' = [obj EXCEPT ![k] = [NoSession EXCEPT !.bench = b, !.psu = psu, !.live = TRUE]]
             /\ call' = [call EXCEPT ![c].at = "register", ![c].ses = k]
       \/ Returns(c) /\ UNCHANGED <<obj, on, loose>>
    /\ UNCHANGED <<reg, card, vendor>>

\* The session that registering under id pushes out of the registry.
PushedOut(id) == {k \in Sessions : reg[id] = k}

\* The state machine, the multiplexer and the watchdog, then the entry, which
\* replaces one that another connect() made since the check.
Register(c) ==
    LET out == PushedOut(call[c].id) IN
    /\ call[c].at = "register"
    /\ \E fsm \in {"none", "dirty"}, mux \in BOOLEAN :
          obj' = [k \in Sessions |->
                    IF k = ses(c) THEN [obj[k] EXCEPT !.fsm = fsm, !.mux = mux]
                    ELSE [obj[k] EXCEPT !.live = @ /\ k \notin out]]
    /\ reg' = [reg EXCEPT ![call[c].id] = ses(c)]
    /\ loose' = loose \cup {obj[k].bench : k \in out}
    /\ Returns(c)
    /\ UNCHANGED <<on, card, vendor>>

\* Anything that raises before the entry is made leaves open what is open.
ConnectRaises(c) ==
    /\ call[c].at = "register"
    /\ obj' = [obj EXCEPT ![ses(c)].live = FALSE]
    /\ loose' = loose \cup {B(c)}
    /\ Returns(c)
    /\ UNCHANGED <<reg, on, card, vendor>>
-----------------------------------------------------------------------------
(* disconnect                                                               *)

\* Mutant: the entry is removed when the teardown is over.
DisconnectCall_late(c, id) ==
    /\ call[c] = Idle /\ reg[id] # None
    /\ call' = [call EXCEPT ![c] = [at |-> "off", id |-> id, ses |-> reg[id]]]
    /\ obj' = [obj EXCEPT ![reg[id]].live = FALSE]
    /\ UNCHANGED <<reg, bench, vendor>>

DisconnectCall(c, id) ==
    /\ call[c] = Idle /\ reg[id] # None
    /\ reg' = [reg EXCEPT ![id] = None]
    /\ call' = [call EXCEPT ![c] = [at |-> "off", id |-> id, ses |-> reg[id]]]
    /\ obj' = [obj EXCEPT ![reg[id]].live = FALSE]
    /\ UNCHANGED <<bench, vendor>>

\* Mutant: close() alone is trusted to switch the output off.
TeardownOff_skipped(c) ==
    /\ call[c].at = "off"
    /\ Goes(c, IF S(c).psu = "open" THEN "close" ELSE "mux")
    /\ UNCHANGED <<reg, obj, bench, vendor>>

\* disable_output(); if it raises, close() is skipped and nothing is reported.
TeardownOff(c) ==
    /\ call[c].at = "off"
    /\ \/ S(c).psu = "open" /\ SwitchedOff(B(c)) /\ Goes(c, "close")
       \/ S(c).psu = "open" /\ loose' = loose \cup {B(c)} /\ UNCHANGED on /\ Goes(c, "mux")
       \/ S(c).psu # "open" /\ Goes(c, "mux") /\ UNCHANGED <<on, loose>>
    /\ UNCHANGED <<reg, obj, card, vendor>>

\* close() of a SCPI supply switches it off once more, that of a DPS150 leaves
\* its output as it is; an exception leaves the port open.
TeardownClose(c) ==
    /\ call[c].at = "close"
    /\ \/ /\ obj' = [obj EXCEPT ![ses(c)].psu = "closed"]
          /\ IF vendor[B(c)] = "scpi" THEN SwitchedOff(B(c)) ELSE UNCHANGED <<on, loose>>
       \/ loose' = loose \cup {B(c)} /\ UNCHANGED <<on, obj>>
    /\ Goes(c, "mux")
    /\ UNCHANGED <<reg, card, vendor>>

TeardownMux(c) ==
    /\ call[c].at = "mux"
    /\ card' \in IF S(c).mux THEN {card, [card EXCEPT ![B(c)] = "host"]} ELSE {card}
    /\ Goes(c, "links")
    /\ UNCHANGED <<reg, obj, on, vendor, loose>>

\* Both links are closed, and the call reports success whatever happened.
TeardownLinks(c) ==
    /\ call[c].at = "links"
    /\ Returns(c)
    /\ UNCHANGED <<reg, obj, bench, vendor>>
-----------------------------------------------------------------------------
(* Tools: get_station, then the work on the session that was found           *)

get_station(c, id) ==
    /\ call[c] = Idle /\ reg[id] # None
    /\ \E t \in Tools : call' = [call EXCEPT ![c] = [at |-> t, id |-> id, ses |-> reg[id]]]
    /\ UNCHANGED <<reg, obj, bench, vendor>>

\* A supply that answers; one that is closed raises.
Supply(c) == S(c).psu = "open"

\* Commands on the board, and the tools that only read or only program set
\* points, leave the session and the bench as they are.
Observe(c) ==
    /\ call[c].at \in TransportTools \cup LinkTools \cup UBootTools \cup ReadTools
    /\ Returns(c)
    /\ UNCHANGED <<reg, obj, bench, vendor>>

\* fsm_energize: only from POWER_OFF; without a state machine, the supply itself.
fsm_energize(c) ==
    /\ call[c].at = "fsm_energize"
    /\ \/ S(c).fsm = "none" /\ Supply(c) /\ SwitchedOn(c) /\ UNCHANGED obj
       \/ /\ S(c).fsm = "off" /\ S(c).psu # "closed"
          /\ IF Supply(c) THEN SwitchedOn(c) ELSE UNCHANGED <<on, loose>>
          /\ obj' = [obj EXCEPT ![ses(c)].fsm = "up"]
       \/ UNCHANGED <<obj, on, loose>>
    /\ Returns(c)
    /\ UNCHANGED <<reg, card, vendor>>

fsm_power_off(c) ==
    /\ call[c].at = "fsm_power_off"
    /\ \/ S(c).fsm = "none" /\ Supply(c) /\ SwitchedOff(B(c)) /\ UNCHANGED obj
       \/ /\ S(c).fsm # "none" /\ S(c).psu # "closed"
          /\ IF Supply(c) THEN SwitchedOff(B(c)) ELSE UNCHANGED <<on, loose>>
          /\ obj' = [obj EXCEPT ![ses(c)].fsm = "off"]
       \/ UNCHANGED <<obj, on, loose>>
    /\ Returns(c)
    /\ UNCHANGED <<reg, card, vendor>>

\* A boot ends with the supply on and the state committed, or fails on the way;
\* the recovery strategy of a station with a multiplexer gives the card away.
FsmBoot(c) ==
    /\ call[c].at \in BootTools
    /\ \/ /\ S(c).fsm # "none" /\ S(c).psu # "closed"
          /\ IF Supply(c) THEN SwitchedOn(c) \/ SwitchedOff(B(c)) ELSE UNCHANGED <<on, loose>>
          /\ \E f \in {"up", "off"} : obj' = [obj EXCEPT ![ses(c)].fsm = f]
          /\ \/ UNCHANGED card
             \/ /\ S(c).mux /\ call[c].at = "fsm_boot_to_recovery"
                /\ card' = [card EXCEPT ![B(c)] = "away"]
       \/ UNCHANGED <<obj, on, card, loose>>
    /\ Returns(c)
    /\ UNCHANGED <<reg, vendor>>

fsm_mark_dirty(c) ==
    /\ call[c].at = "fsm_mark_dirty"
    /\ obj' = [obj EXCEPT ![ses(c)].fsm = IF @ = "none" THEN @ ELSE "dirty"]
    /\ Returns(c)
    /\ UNCHANGED <<reg, bench, vendor>>

\* psu_enable_output and psu_disable_output, behind the state machine's back.
psu_output(c) ==
    /\ \/ call[c].at = "psu_enable_output" /\ Supply(c) /\ SwitchedOn(c)
       \/ call[c].at = "psu_disable_output" /\ Supply(c) /\ SwitchedOff(B(c))
       \/ /\ call[c].at \in {"psu_enable_output", "psu_disable_output"}
          /\ UNCHANGED <<on, loose>>
    /\ Returns(c)
    /\ UNCHANGED <<reg, obj, card, vendor>>

\* The adapter is made on first use and kept; the modes dut and off both take
\* the card away from the host, and a switch that fails leaves it where it is.
sd_mux_set_mode(c) ==
    /\ call[c].at = "sd_mux_set_mode"
    /\ \/ /\ obj' = [obj EXCEPT ![ses(c)].mux = TRUE]
          /\ \E mode \in {"host", "away"} : card' = [card EXCEPT ![B(c)] = mode]
       \/ UNCHANGED <<obj, card>>      \* no multiplexer is configured
    /\ Returns(c)
    /\ UNCHANGED <<reg, on, vendor, loose>>

\* The installer reports success to the state machine as ENERGIZED.
flash_tezi(c) ==
    /\ call[c].at = "flash_tezi"
    /\ \E f \in {S(c).fsm, IF S(c).fsm = "none" THEN "none" ELSE "up"} :
          obj' = [obj EXCEPT ![ses(c)].fsm = f]
    /\ Returns(c)
    /\ UNCHANGED <<reg, bench, vendor>>
-----------------------------------------------------------------------------
Init ==
    /\ reg = [i \in Ids |-> None]
    /\ obj = [k \in Sessions |-> NoSession]
    /\ call = [c \in Callers |-> Idle]
    /\ on = [b \in Benches |-> FALSE]
    /\ card = [b \in Benches |-> "host"]
    /\ vendor \in [Benches -> {"scpi", "fnirsi"}]
    /\ loose = {}

Connect(c) == (\E i \in Ids : ConnectCall(c, i)) \/ OpenHardware(c) \/ Register(c) \/ ConnectRaises(c)
Disconnect(c) == \/ \E i \in Ids : DisconnectCall(c, i)
                 \/ TeardownOff(c) \/ TeardownClose(c) \/ TeardownMux(c) \/ TeardownLinks(c)
Tool(c) == \/ \E i \in Ids : get_station(c, i)
           \/ Observe(c) \/ fsm_energize(c) \/ fsm_power_off(c)
           \/ FsmBoot(c) \/ fsm_mark_dirty(c) \/ psu_output(c) \/ sd_mux_set_mode(c) \/ flash_tezi(c)

Next == \E c \in Callers : Connect(c) \/ Disconnect(c) \/ Tool(c)
Spec == Init /\ [][Next]_vars
-----------------------------------------------------------------------------
\* A session some identifier or some call can still reach.
Reachable(k) == (\E i \in Ids : reg[i] = k) \/ (\E c \in Callers : ses(c) = k)

\* The registry never hands out a session whose teardown has begun, and never
\* the same session under two identifiers, however calls overlap.
RegisteredIsLive ==
    \A i \in Ids : reg[i] # None =>
        /\ obj[reg[i]].live /\ obj[reg[i]].psu # "closed"
        /\ \A j \in Ids \ {i} : reg[j] # reg[i]

\* A bench whose output is on belongs to a session that can still be reached
\* and whose supply is open, unless it was left loose in one of the ways above:
\* disconnect() of a supply that obeys does switch the bench off.
OutputHasOwner ==
    \A b \in Benches : on[b] =>
        \/ b \in loose
        \/ \E k \in Sessions : obj[k].bench = b /\ obj[k].psu = "open" /\ Reachable(k)
=============================================================================
